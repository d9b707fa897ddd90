------------------------------- MODULE ListQueue -------------------------------
(***************************************************************************)
(* The linked queue of data_structure/queue_list.c, compiled as it is:     *)
(* MAXSIZE is commented out, so the queue is never full.                   *)
(***************************************************************************)
EXTENDS Integers, Sequences, FiniteSets

CONSTANTS Element,    \* what is enqueued
          Node,       \* the addresses malloc can give out
          NULL

ASSUME NodeAssumption == IsFiniteSet(Node) /\ NULL \notin Node \cup Element

VARIABLES
  list,       \* struct _queue: head, rear, node_size
  heap,       \* the nodes: used (malloc has given it out), data, next
  call,       \* "idle", "destroying" (in the loop of destroy_queue), "crashed"
  chain,      \* history: the nodes put in and not taken out, oldest first
  leftovers   \* history: destructions of a queue that held nodes, since create_queue

listVars == <<list, heap, call, chain, leftovers>>

Unused == {n \in Node : ~heap[n].used}
Nobody == [used |-> FALSE, data |-> NULL, next |-> NULL]
Free(n) == heap' = [heap EXCEPT ![n] = Nobody]

ListInit ==
  /\ list = [head |-> NULL, rear |-> NULL, node_size |-> 0]
  /\ heap = [n \in Node |-> Nobody]
  /\ call = "idle"
  /\ chain = << >>
  /\ leftovers = 0

list_empty == list.head = NULL
\* get_queue_size
list_size == IF list_empty THEN 0 ELSE list.node_size

\* The nodes of a queue that was in use are lost.
list_create ==
  /\ list' = [head |-> NULL, rear |-> NULL, node_size |-> 0]
  /\ chain' = << >>
  /\ leftovers' = 0
  /\ UNCHANGED <<heap, call>>

NewNode(d) == [used |-> TRUE, data |-> d, next |-> NULL]

\* Mutated: the data of the head is overwritten
LinkedOverHead(n, d) ==
  IF list_empty THEN [heap EXCEPT ![n] = NewNode(d)]
  ELSE [heap EXCEPT ![n] = NewNode(d), ![list.rear].next = n, ![list.head].data = d]

Linked(n, d) ==
  IF list_empty THEN [heap EXCEPT ![n] = NewNode(d)]
  ELSE [heap EXCEPT ![n] = NewNode(d), ![list.rear].next = n]

\* Mutated: rear is not moved
WithNodeRearKept(n) ==
  [head |-> IF list_empty THEN n ELSE list.head,
   rear |-> IF list_empty THEN n ELSE list.rear, node_size |-> list.node_size + 1]

WithNode(n) ==
  [head |-> IF list_empty THEN n ELSE list.head,
   rear |-> n, node_size |-> list.node_size + 1]

list_push(d) ==
  \E n \in Unused :
    /\ heap' = Linked(n, d)
    /\ list' = WithNode(n)
    /\ chain' = Append(chain, n)
    /\ UNCHANGED <<call, leftovers>>

\* What malloc returns is used unseen.
list_push_no_memory ==
  /\ Unused = {}
  /\ call' = "crashed"
  /\ UNCHANGED <<list, heap, chain, leftovers>>

\* Mutated: the size is not adjusted
WithoutHeadSizeKept == [list EXCEPT !.head = heap[list.head].next]

WithoutHead == [list EXCEPT !.head = heap[list.head].next, !.node_size = @ - 1]

\* The node is unlinked and freed.
TakeHead ==
  /\ list' = WithoutHead
  /\ Free(list.head)
  /\ chain' = Tail(chain)
  /\ UNCHANGED <<call, leftovers>>

list_pop == ~list_empty /\ TakeHead

list_destroy ==
  /\ ~list_empty
  /\ call' = "destroying"
  /\ leftovers' = leftovers + 1
  /\ UNCHANGED <<list, heap, chain>>

(***************************************************************************)
(* while (--p_queue->node_size): one turn of the loop.  It frees a node    *)
(* less than node_size says, and runs off the list when node_size was 0 or *)
(* less before, which an earlier destruction brings about.                 *)
(***************************************************************************)
DestroyEnds ==
  /\ list.node_size = 1
  /\ list' = [list EXCEPT !.node_size = 0]
  /\ call' = "idle"
  /\ UNCHANGED <<heap, chain, leftovers>>

DestroyFreesHead == list.node_size # 1 /\ ~list_empty /\ TakeHead

DestroyRunsOff ==
  /\ list.node_size # 1
  /\ list_empty
  /\ call' = "crashed"
  /\ UNCHANGED <<list, heap, chain, leftovers>>

ListNext ==
  \/ /\ call = "idle"
     /\ \/ list_create
        \/ \E d \in Element : list_push(d)
        \/ list_push_no_memory
        \/ list_pop
        \/ list_destroy
  \/ /\ call = "destroying"
     /\ DestroyEnds \/ DestroyFreesHead \/ DestroyRunsOff

ListSpec == ListInit /\ [][ListNext]_listVars

-----------------------------------------------------------------------------
ListTypeOK ==
  /\ list \in [head : Node \cup {NULL}, rear : Node \cup {NULL}, node_size : Int]
  /\ heap \in [Node -> [used : BOOLEAN, data : Element \cup {NULL}, next : Node \cup {NULL}]]
  /\ call \in {"idle", "destroying", "crashed"}
  /\ chain \in Seq(Node)
  /\ leftovers \in Nat

(***************************************************************************)
(* head, next and rear link exactly the nodes that were put in and not     *)
(* taken out, in their order, none of them freed: also after a destruction *)
(* and when rear was left pointing to a freed node (queue_list.c:88).      *)
(***************************************************************************)
ChainIsLinked ==
  /\ list.head = IF chain = << >> THEN NULL ELSE chain[1]
  /\ chain # << >> => list.rear = chain[Len(chain)]
  /\ \A i \in DOMAIN chain :
       /\ heap[chain[i]].used
       /\ heap[chain[i]].data # NULL
       /\ heap[chain[i]].next = IF i = Len(chain) THEN NULL ELSE chain[i + 1]
       /\ \A j \in DOMAIN chain : chain[i] = chain[j] => i = j

(***************************************************************************)
(* A destruction leaves one node behind and sets node_size to 0, so from   *)
(* then on node_size is short by one for each of them, and with it what    *)
(* get_queue_size answers of a queue that is not empty; only then can a    *)
(* destruction run off the list (queue_list.c:131).                        *)
(***************************************************************************)
SizeShortByLeftovers ==
  /\ call = "idle" =>
       /\ list.node_size = Len(chain) - leftovers
       /\ list_size = IF chain = << >> THEN 0 ELSE Len(chain) - leftovers
  /\ call = "crashed" => leftovers > 1 \/ Unused = {}

(***************************************************************************)
(* create_queue, push_queue and pop_queue are the steps of a first-in      *)
(* first-out queue with room for as many elements as there is memory for,  *)
(* whatever destructions came before (data_structure/队列.md:5);           *)
(* destroy_queue is not its Clear, since it leaves a node.                 *)
(***************************************************************************)
ListContents == [i \in DOMAIN chain |-> heap[chain[i]].data]
ListFifo == INSTANCE BoundedFifo
              WITH Value <- Element, Capacity <- Cardinality(Node), q <- ListContents

ListIsFifo ==
  ListFifo!Init /\ [][call = "idle" => ListFifo!Next \/ UNCHANGED ListContents]_listVars
=============================================================================
