------------------------------- MODULE ClientList -------------------------------
(***************************************************************************)
(* sample/llist.c: the list of the clients an RTP sender sends to.  Its    *)
(* first node, llist, holds no client; new clients are put right after it. *)
(***************************************************************************)
EXTENDS Naturals, Sequences, SequencesExt

CONSTANTS Address,     \* IP addresses
          Client,      \* the nodes malloc can give out
          Llist,       \* the first node
          Nil, Freed

ASSUME ClientAssumption ==
  /\ IsFiniteSet(Client) /\ Llist \notin Client
  /\ {Nil, Freed} \cap (Client \cup {Llist}) = {}
  /\ Nil # Freed

VARIABLES
  next,        \* of every node; Freed: the node is not allocated
  ipaddr,      \* of every node
  crashed,     \* the program is gone
  listed       \* history: the nodes inserted and not deleted, newest first

clientVars == <<next, ipaddr, crashed, listed>>

ClientInit ==
  /\ next = [n \in Client \cup {Llist} |-> IF n = Llist THEN Nil ELSE Freed]
  /\ ipaddr = [n \in Client |-> Nil]
  /\ crashed = FALSE
  /\ listed = << >>

\* The node that a walk from llist reaches after k steps.
At[k \in 0 .. Cardinality(Client)] ==
  IF k = 0 THEN Llist ELSE IF At[k - 1] \in DOMAIN next THEN next[At[k - 1]] ELSE Nil

Places(Test(_)) == {k \in 1 .. Cardinality(Client) : At[k] \in Client /\ Test(At[k])}

num_node == Cardinality(Places(LAMBDA n : TRUE))
HasAddress(a) == Places(LAMBDA n : ipaddr[n] = a)

\* Mutated: llist->next is set first
InsertedSwapped(q) == [next EXCEPT ![Llist] = q, ![q] = q]

Inserted(q) == [next EXCEPT ![Llist] = q, ![q] = next[Llist]]

insert_link(a) ==
  \E q \in Client :
    /\ next[q] = Freed
    /\ next' = Inserted(q)
    /\ ipaddr' = [ipaddr EXCEPT ![q] = a]
    /\ listed' = <<q>> \o listed

insert_nodulp_node(a) == HasAddress(a) = {} /\ insert_link(a) /\ UNCHANGED crashed

\* The node that is k steps away is unlinked and freed.
Unlink(k) ==
  /\ next' = [next EXCEPT ![At[k - 1]] = next[At[k]], ![At[k]] = Freed]
  /\ listed' = RemoveAt(listed, CHOOSE i \in DOMAIN listed : listed[i] = At[k])
  /\ UNCHANGED <<ipaddr, crashed>>

\* The first node that has the address.
delete_node(a) == \E k \in HasAddress(a) : k = Min(HasAddress(a)) /\ Unlink(k)

\* For a node that is not in the list the walk ends without effect.
delete_this_node(this) == \E k \in Places(LAMBDA n : n = this) : Unlink(k)

(***************************************************************************)
(* free_linklist frees the nodes one by one with the one after in hand,    *)
(* and stops when that is the last: which stays.  Of a single node it      *)
(* looks for the one after the one after.                                  *)
(***************************************************************************)
free_linklist ==
  LET n == num_node
  IN /\ n > 0
     /\ next' = [m \in DOMAIN next |->
                   CASE m = Llist -> IF n > 1 THEN At[n] ELSE Nil
                     [] n > 1 /\ m = At[n] -> Nil
                     [] OTHER -> Freed]
     /\ listed' = IF n > 1 THEN <<At[n]>> ELSE << >>
     /\ crashed' = (n = 1)
     /\ UNCHANGED ipaddr

ClientNext ==
  /\ ~crashed
  /\ \/ \E a \in Address : insert_nodulp_node(a) \/ delete_node(a)
     \/ \E this \in Client : delete_this_node(this)
     \/ free_linklist

ClientSpec == ClientInit /\ [][ClientNext]_clientVars

-----------------------------------------------------------------------------
(***************************************************************************)
(* Whatever was inserted, deleted and freed before, a walk from llist      *)
(* meets the clients inserted and not deleted, newest first, each address  *)
(* once, no freed node, and comes to an end (sample/llist.c:23 and :43).   *)
(***************************************************************************)
ClientsListed ==
  ~crashed =>
    /\ num_node = Len(listed)
    /\ \A k \in DOMAIN listed :
         /\ At[k] = listed[k] /\ next[At[k]] # Freed
         /\ \A j \in DOMAIN listed : ipaddr[listed[j]] = ipaddr[listed[k]] => j = k
    /\ Nil = IF listed = << >> THEN next[Llist] ELSE next[Last(listed)]
=============================================================================
