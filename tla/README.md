# A verification of Test02

Test02 is a collection of small C programs around one theme: an H.264 file is
read, cut into NALs, sent (as raw NALs by multicast, as RTP over UDP or TCP) and
received, saved or decoded; with them come a TCP session server and several
queues. There is no build file: every directory is a program, or a library of two
or three functions, of its own. This directory holds TLA+ modules of the parts
that keep state, TLC configurations that check them on small instances, and TLAPS
proofs of what holds for every instance.

## The system

| part | source | state | operations | how it interacts |
|---|---|---|---|---|
| thread-safe queue | `common/queue.c` | `front`, `rear`, the slots, two mutexes | `EnDataQueue`, `DeDataQueue`, `DeAllDataQueue`, `GetSequeueSize`, create, destroy | threads of a caller, over shared memory |
| TCP session server | `server/tcp/tcp_server.cpp` | the session table, `clientNum`, the descriptor set of `select`, `errno` | select, accept, receive and echo, destroy | peers over TCP, descriptors of the kernel |
| RTP packetiser | `h264nal2rtp_send`, copied into `client/udp`, `sample/send_h264file_rtp.c`, `sample/test_tcp_send_nal.c` | two `static` variables: the clock and the sequence number | one NAL becomes one packet or FU-A fragments | called per NAL, hands each packet to a socket |
| RTP file transfer | `sample/send_h264file_rtp.c`, `sample/test_decode_rtp2h264.c` | file position, the client's socket and failure count, the file written | read, send, give up; receive, decode | UDP on one host |
| UDP client | `client/udp/client.c` | the packetiser's | the same loop as the multicast client around the packetiser | `server/udp` |
| multicast client | `client/multicast/client.c` | buffer, offsets, what is left of the last chunk | read a chunk, find start codes, send, carry the rest over | a multicast group |
| recorder | `server/multicast/server.c`, `server/udp/server.c` | `start` (SPS seen), the saved file | join, receive, save or skip, stop at the 15th SPS | the multicast client |
| queues of data_structure | `data_structure/queue_*.c` | array and pointer rings with unsigned counters, a linked list on the heap | create, push, pop, size, destroy | one thread: the menus `queue_*_test.c` |
| client list | `sample/llist.c` | linked list of receivers | insert, delete by address or node, count, free | the RTP senders |
| NAL reader | `copy_nal_from_file`, in `sample/send_h264file_rtp.c` and `sample/test_tcp_send_nal.c` | zeros held back, the NAL copied so far, the position in the file | read a byte, return a NAL | the senders |
| TCP receiver of RTP | `sample/test_tcp_recv_nal.c` | one variable for the newest descriptor, one thread per connection, one output file | accept, receive, decode, write | `test_tcp_send_nal.c` over TCP |
| socket helpers | `common/tcpsocket.c`, `udpsocket.c`, `commonsocket.c` | progress within a call | read and write with time-outs, in chunks | the TCP server; any program |
| file parser | `file_parse/file_parse.c` | none | functions on a byte buffer | none |

`PROJECT.json` lists every part with what is modelled of it, and every hazard at
its line. What is hard here, and what makes each part correct:

* **The queue.** Enqueuers hold one mutex and dequeuers another, so an enqueuer and
  a dequeuer work side by side. Each tests an index that the other one moves, and
  `rear` is published before its slot is filled. Correct means: a bounded first-in
  first-out queue under every interleaving; mutexes given back on each path.
* **The session server.** `readSet` is used after `accept` has filled slots, and
  descriptors are numbers that the kernel gives out again. Correct means: sessions,
  descriptors and the count agree; nobody is served on somebody else's readiness;
  every newcomer, request and end is dealt with.
* **RTP.** Fragmentation at multiples of the payload size, a 16-bit counter taken
  modulo 65535, a clock that lives across calls, packets lost without notice.
  Correct means: what is written is what was read, or a loss stays where it hit.
* **The chunked reader.** A chunk ends anywhere: in a NAL, in a start code. Old
  bytes stay in the buffer and the search looks past the new ones. Correct
  means: the NALs of the file go out one by one, in order, again and again.
* **The reader of NALs.** An automaton without look-ahead: zeros may begin a start
  code of three or four bytes, overlap another, or belong to the NAL. Correct means:
  what it returns is what the file has between two start codes, and it reads past none.
* **The sequential queues and the client list.** Counters that only grow and wrap at
  2^32, pointers left to freed nodes, a destruction that leaves a node. Correct means: a
  first-in first-out queue, a list of the clients, under any sequence of calls.
* **The TCP receiver.** Threads get the address of a variable that the next `accept`
  overwrites; a stream is read as if one `recv` were one packet; all write to one file.
  Correct means: no packet twice, the packets of a connection in order.
* **The socket helpers.** Calls that take a part, are interrupted, fail or time out.
  Correct means: no byte lost or sent twice, and the caller is told no more than was sent.
* **The recorder.** It joins anywhere, counts SPS in two places and compares with
  the limit in one (the other is for datagrams of several NALs, which the client never sends). Correct means: it stops, and what it saves can be decoded.

## Modules

| module | models | correspondence |
|---|---|---|
| `BoundedFifo` | what a queue promises: an abstract sequence with a capacity | |
| `DataQueue` | `common/queue.c` | one action per access to shared state; `pc[t]` says where thread `t` is in its call. `front = (front + 1) % MAX` is a load (`DeLoad`) and a store (`DeStore`). `Contents` is the refinement mapping to `BoundedFifo` |
| `DataQueueSize` | `GetSequeueSize`, beside the calls of `DataQueue` | one action per read of `rear` or `front`, in any order, for the test and again, or not, for the difference; `phase` says which |
| `TcpServer` | `tcp_server.cpp` | `pc` is the phase of the main loop, `slot` the loop variable; an action is one call of `select`, one `accept` with its handling, one session's receive and reply, one destruction. Kernel and peers are explicit |
| `RtpSender` | `h264nal2rtp_send` | `Call` is the entry of the function, `SendNext` one packet; extended by its callers |
| `RtpFile` | the file sender and the decoder | `ReadNal` is `copy_nal_from_file` and the entry; one `Send...` action per outcome of `send`; `Receive` is `recv` and `decode_rtp2h264` |
| `NalReader` | `copy_nal_from_file` and the loop of `main` around it | `flag` counts the zeros held back, as in the code; one action per value of `flag`. A byte of the file is chosen when it is read, which loses nothing: the code never looks ahead |
| `NalLoop` | what the client promises: the NALs of the file, in order, for ever | |
| `NalPump` | `client/multicast/client.c` | byte level: `buf`, `n`, `n_last`, `start_code`, `send_len` as in the code; implements `NalLoop` |
| `Multicast` | the recorder, composed with `NalLoop` | `Record` and `Finish` are one `recvfrom` and what is done with the datagram |
| `MulticastPair` | the two multicast programs, each by itself | `program` says which of them runs; the other stays as it is |
| `RingQueue` | `queue_linear_arrary.c` and `queue_linear_pointer.c` | `kind` says which; `ring` is `struct _queue`, `mem` what `data` points to; one action per function |
| `ListQueue` | `queue_list.c` | `list` is `struct _queue`, `heap` the nodes; the loop of `destroy_queue` goes turn by turn; `ListContents` is the refinement mapping to `BoundedFifo` |
| `ClientList` | `llist.c` | `next` and `ipaddr` of the nodes; one action per function that changes the list |
| `SingleThread` | what one thread drives: the menus of `data_structure`, a user of the client list, the reading loop | `program` says which of them it is |
| `RtpTcp` | `test_tcp_recv_nal.c` and its peers | `pc[t]` says where thread `t` is in `recv_fun`; `new_fd` is read in `ReadDescriptor`, some time after `Accept`; `todo` is what a call of the decoder has yet to write |
| `TcpTransfer` | `comm_tcp_write_packet` on one side, `comm_tcp_exRead` on the other | `wpc` and `rpc`; one action per outcome of `select`, `send` and `recv`; `counted`, `size1`, `size`, `selectcnt`, `readLen` as in the code |
| `UdpTransfer` | `comm_udp_write_Packet` | `remain` and `slen` with the width of a `short`; one action per outcome of `sendto` |
| `SocketIO` | a program on a socket of one of the two types | `socktype` as given to `comm_isocket_creat` |
| `MC...` | instances for TLC | |
| `...Proofs` | theorems and proofs of one component; `SingleThreadProofs` those of the four sequential parts, `MulticastProofs` of the recorder and of the client it listens to | |
| `NatLemmas` | lemmas on induction, recursive functions and remainders | |

The recorder of `Multicast` listens to `NalLoop` and not to `NalPump`: that the client behaves as
`NalLoop` is `SendsTheFile` of `NalPump`, checked by TLC and proved. History variables (marked
`history` at their declaration) record what no variable of the program does. Guards do
not read them, but for bounds: `lost` in `RtpFile` and `retries` in `UdpTransfer` are counted.
`RtpFile` also looks packets on their way up in `sent`, since `net` holds their positions.

Abstractions to know of:

* Reads and writes of an `int` or of a mutex are atomic. A slot of the queue is not:
  copying it while it is filled gives the old bytes, the new ones, or `Junk`.
* `TcpServer`: descriptors 0 to 3 of a process are taken; `Fd` is numbered from 2.
  A peer has one connection and one request on its way at a time. What logging does
  to `errno` is left out. The loop never ends, so `DestroyServer` is unreachable.
  `accept` fails for a reset newcomer only.
* `RtpSender`: the three copies of the function differ in the socket call and in
  comments. The marker is set on the last fragment only. `hdr` stands for the three
  fields made from `nalu_buf[0]`.
* `RtpFile`: UDP on one host does not reorder or duplicate. `copy_nal_from_file`
  never returns the last NAL of a file (it needs the start code after it), which is
  `ReadableNals` here and follows from `RestHasNoCode` of `NalReader`.
* `NalPump`: a start code has two bytes instead of four, `Zero` standing for those that are
  zero; the byte after the buffer, which the search reads when the buffer is full, is any of
  `PastBytes` (`past`), and the fresh buffer holds any byte. Files begin with a start code, and no NAL
  is empty, ends in a zero byte or contains a start code, which H.264 guarantees
  (`NalAssumption`); a NAL may hold `Zero`, as one of H.264 may hold two zero bytes.
* `Multicast`: UDP carries no datagram of `MAXBUF` bytes, so the branch of the
  recorder for them is left out. `Kept` handles datagrams of several NALs, the
  client of `NalLoop` sends one each.
* `NalReader`: all bytes but 0 and 1 are alike (`Other`), and the buffer has room for any NAL.
* `RingQueue`: the index of a slot, the branches and the width of the counters are the
  code's, with `UIntMod` for 2^32. `malloc` in `create_queue` may fail. A division by zero
  and a second `free` end the program (`Crash`).
* `ListQueue`, `ClientList`: `malloc` gives any free node. Freed nodes lose their contents,
  so that reading one shows. `insert_link` is called by `insert_nodulp_node` only, and a user calls
  nothing after a crash.
* `RtpTcp`: a packet is two parts, its head and the rest, and `recv` returns any number of
  parts; a part that is not where the decoder expects it comes out `cut` or `raw`. The
  start code and NAL header are one write, the payload another. A `recv` too short for
  the header, or one that fails, hands `fwrite` a size of almost 2^64, which is undefined: the
  process ends, or the thread goes on (`Survives`). What such a call leaves in the file comes
  from the thread's own stack and is not modelled: nothing is claimed of a connection after it.
  A peer sends all its packets before it closes, unless the connection is reset.
* `TcpTransfer`: a byte is its position in the writer's buffer. `errno` decides between 0
  and -1 after a time-out, which `comm_tcp_write_packet` treats alike. `select` may
  time out whenever there is nothing to report, and fail at any time.
* `UdpTransfer`: a datagram is sent as a whole or not at all.

## Runs

| run | configuration | result |
|---|---|---|
| `queue_threads` | 2 enqueuers, 2 dequeuers, 1 thread that empties, 3 slots, 2 values | passes, 334k states: a bounded FIFO; tests made under one lock still hold when acted upon; the slot being copied is not reused |
| `queue_size` | 1 enqueuer, 1 dequeuer, 1 thread that empties, 1 that asks for the size, 3 slots | passes, 529k states: of a queue that stands still the answer is its size, `MAX_DATA_SEQUEUE` standing for none; an answer that is a possible size is safe to act upon, whatever moved meanwhile, short of a reset |
| `queue_half_copied` | 1 enqueuer, 1 dequeuer | violation: a dequeuer returns a slot that is not filled yet |
| `queue_reset_race` | the same and a thread that empties | violation: `DeAllDataQueue` clears `front` without `DeQueueLock`; a dequeuer stores the old one and taken elements come back |
| `tcp_server` | 3 peers, of which one only connects, 2 slots, fair | passes, 211k states: accounting of sessions, descriptors, readiness and replies; newcomers, also those who find every slot in use, ends and requests are all dealt with |
| `rtp_file` | all files of up to 4 NALs of 1 to 5 bytes, payload of 2, 2 losses, receiver early or late, fair | passes, 282k states: numbering, timestamps; without a loss the file is rebuilt; a NAL received cleanly is intact whatever was lost around it |
| `rtp_gives_up` | the same | violation: the socket is closed without consecutive failures, which a comment requires |
| `single_thread` | rings of 1 to 4 slots with counters of 4 bits, 5 list nodes, 3 addresses and 3 client nodes, files of up to 11 bytes of three kinds | passes, 799k states: FIFOs until a counter wraps over a size that does not divide its range; the list linked, its size short by one per destruction and by no more; clients listed once each; NALs cut at start codes only, and at all of them |
| `rtp_tcp` | 2 connections with packets of a fragmented and of a single NAL, 3 parts in the buffer of `recv`, a thread of one of them may survive a `recv` that is too short, fair | passes, 1.5M states: the packets of a connection in order with one reader, none twice with several, the newest connection read to its end |
| `socket_io` | TCP: 7 bytes in chunks of 3, records of 3, room for 4, 3 failures of `select`; UDP: buffers of 0 to 9, chunks of 1 to 8, `short` of 3 bits, 4 interruptions; fair | passes, 100k states: bytes in order, no byte claimed that was not sent, datagrams one behind the other, writes return |
| `multicast_programs` | client: all files of up to 4 NALs of 1 to 5 bytes, buffer of 8, datagrams of 6, harmless memory behind the buffer; recorder: 3 files, limit 4, 2 losses, receive buffer of 3; fair | passes, 66k states: the client implements `NalLoop`, and keeps sending unless `sendto` fails; the recording ends with the limit, holds one SPS at most, and without a loss has no gap and parameter sets where needed |
| `nal_pump_past_end` | up to 3 NALs, harmful memory behind the buffer | violation: a full buffer that ends inside a NAL is taken to end in a start code, and the NAL is cut |

Why the bounds are enough. Three slots let the ring be empty, full and in between,
and let both indices wrap; two threads a side give waiting on each mutex and all
pairs of an enqueuer and a dequeuer. A third peer finds both slots taken and is
turned away, and slots and descriptors are reused without limit, since peers come back; the
third one connects and does nothing, so that it fills a slot, is refused, or has one while
the other two compete for what is left. One thread that asks for the size is enough: it changes
nothing the others see. With a payload
of 2, lengths 1 to 5 are one packet, full and partial last fragments, and start,
middle and end; `SeqMod = 4` makes the counter wrap several times in a run. Two losses
hit one NAL twice or two neighbours, and `MaxSendFail = 2` is exceeded by late
receivers. Files of up to 28 bytes fill a buffer of 8 more than three times, at
every alignment. A limit of 4 SPS makes the recorder pass several rounds of each
file beyond the second SPS, where it stops keeping parameter sets.
Counters of 4 bits wrap over 1, 2, 3 and 4 slots, which are sizes that divide their range and
one that does not. Five list nodes allow several destructions that leave a node, where two
are enough to run off the list. Eleven bytes hold two long start codes and every
run of zeros around them. Two connections are enough for a descriptor read twice and one
read never; three parts make `recv` return half a packet, one, and one and a half. With 7
bytes in chunks of 3 the last chunk is shorter, a room of 4 splits chunks between calls of
`send`, and records of 3 end inside of what was sent at once.

Bounds by name: `MaxDrops` (losses), `ChanMax` (receive buffer: a datagram that finds it
full is one of the losses, and waits once these are used up), `MaxNals` and `MaxLen` (files),
`MaxBytes` (the file of `NalReader`), `MaxRetries` (interruptions of `sendto`), `Idlers` (peers of
the server that do nothing after connecting), `Survivable` (connections a `recv` of too few bytes on which
need not end the process). The theorems hold for any of them. `Node` and `Client` are
the memory, `MaxFd` the descriptors of the process: when they are used up `malloc` or `accept`
fails, which is modelled. Symmetry is used in safety runs only, over threads,
values and elements that nothing tells apart.

Fairness. `TcpServer`: the main loop runs on (weak fairness of `Server`); `recv` may
be interrupted, but not for ever in the same slot (strong fairness of its other
outcomes). `RtpFile`: sender and receiver run on; nothing makes anybody start the
receiver. `NalPump`: `main` runs on. `Multicast`: client and recorder run on, and
the recorder may never join. `RtpTcp`: each thread is scheduled (weak fairness of
`RecvFun`); no peer has to send, close or connect. `SocketIO`: the writer runs on, time
passes, so that a `select` that waits ends, and `send` is not interrupted for ever after a
successful `select` (strong fairness of `SendOutcome`); the reader may pause for ever. No fairness is
assumed of peers, losses or errors.

Deadlock is not checked where the program ends: the file sender finishes its file,
`NalPump` ends after an error of `sendto`, the parts of `SingleThread` end with a crash or the
file, `RtpTcp` with the process or its peers, `SocketIO` when the buffer has been written.

### What the violations show

1. `rear` is advanced before the slot is filled, under a mutex that dequeuers do not
   take (`common/queue.c:75`). What holds instead is `DequeuesOldest`: a dequeuer
   gets the oldest element unless its enqueuer was still copying.
2. `DeAllDataQueue` and `DeDataQueue` both write `front` and share no mutex
   (`common/queue.c:126`). `OrderlySpec` states the duty this leaves to callers: no reset
   during a dequeue. Everything proved of the FIFO is under it.
3. `send_fail_n` is never reset (`send_h264file_rtp.c:75`): its comment speaks of
   consecutive failures.
4. The search for the next start code reads past the data, and past a full buffer
   (`client/multicast/client.c:101`, and the same in `client/udp/client.c`): what stands in memory
   there may turn zeros at the end of a chunk, in the middle of a NAL, into a start code. The NAL
   is cut and its rest skipped. `ClientSendsTheFile` says when this cannot happen.

Other observations made while modelling, visible in the modules: `GetSequeueSize`
of an empty queue is `MAX_DATA_SEQUEUE`, and since it reads both indices twice without a lock it may be
negative, or off by `MAX_DATA_SEQUEUE`, while others enqueue and dequeue (`SizeIsSafe` says what can be relied on); the marker of a
NAL sent as one packet is never set although comments say it marks the end of a
frame (`Packet`); `client/udp` hands NALs over with their start code, so that
the header of its packets is made from a zero byte, and passes its socket as frame rate
for every NAL but the last of a file (`client/udp/client.c:409`), so that its clock moves by 90000
divided by a descriptor number; a NAL longer than a
datagram ends the multicast client (`SendNalFails`); after giving a client up the
sender keeps its node, and sends to and closes the closed descriptor for every packet
(`SendFails`). `destroy_queue` of the linked queue leaves one node and a size of 0, and from the
second time on may run off the list (`DestroyRunsOff`); that of the pointer queue keeps the pointer, so
that the next push divides by zero and the next destruction frees again (`Crash`). The array queue, of
three slots, is a FIFO until its counters wrap at 2^32, which 3 does not divide (`Sound`).
`free_linklist` leaves the oldest client, and dereferences NULL when there is one
client only. `copy_nal_from_file` never returns the last NAL of a file, and drops three
zeros and the byte after them when that is not 1 (`ThreeZerosHeld`), so that it misses a start code
with one zero too many. `comm_udp_write` takes the -1
of an interrupted `sendto` for a length, so that the datagram that follows begins one
byte earlier (`SendtoInterrupted`). `comm_tcp_write` forgets what it has sent of a chunk when it
fails. A thread of `test_tcp_recv_nal.c` may read the descriptor of a later connection: one
connection is then read by two threads and another by none (`ReadDescriptor`).

## Proofs

All for every value of the constants that satisfies the named assumptions, which say
that sizes are positive and fit their integers, that placeholders differ from values,
and what the inputs are (`NalAssumption`). Every invariant and every action
property of a passing run, and each of the four refinements, is stated by a theorem. Three theorems have
a hypothesis of their own, given below: those about `TimestampPerNal`, `Decodable` and `SendsTheFile`.

* `DataQueueProofs`. Under `Spec`, for any callers: `TypeOK` and `LockDiscipline`, together
  inductive (`LockedInv`). Under `OrderlySpec`: `QueueInv` adds
  that resets and dequeues are apart, `StaleTestsHold` and `OwedInSlot`. The first says that
  each index moved since a test can only have made the test's result safer, the second that
  the gap slot protects the copy; neither is inductive without the other and the locks. From
  it: `DequeuesOldest` as an action property, and the refinement `ImplementsFifo`. Each
  step either leaves `Contents` alone (`QuietStutters`), appends (`RearPuts`), takes the
  head (`FrontGets`) or clears (`ResetClears`). Under `SizeSpec`, `SizeIsSafe`: the invariant
  `SizeInv` says how far each index can have moved since it was read, given what happened
  during the call: an index nobody moved is the one read (`FrontStays`, `RearStays`), and if the
  other one moved, the distance read bounds the number of elements from one side.
* `TcpServerProofs`. `ServerInv` joins the accounting (`SessionsCounted`,
  `SocketsOwned`) with what holds between the phases of the loop: a cleared slot is all
  zero, sockets in `readSet` still stand for the peers `select` reported, and the reaping
  loop has left no dead session behind it. `ServesReported` and `NoneDeadAtSelect` follow.
  `AnsweredUnlessInterrupted` is inductive with one more fact about `errno` (`ErrnoInv`): the
  value that means "try again" is there only after some call was interrupted.
* `RtpFileProofs`. `TypeOK` with the field ranges of every packet, and `SequenceNumbered`,
  made inductive by tying the last packet to `seqNum` (`Numbering`). Everything else rests on
  one invariant, `FileInv`: every packet sent has a label, the NAL and the fragment it carries
  (`Labelled`), each label follows the one before, and what is decoded is in the output at
  places that follow one another (`WrittenAt`). So, without a loss, the output goes up to the
  fragment it waits for (`Prefixed`, which gives `FileIsPrefix`); a NAL decoded from its first to
  its last fragment is in one piece whatever was lost around it (`DamageContained`); and the
  timestamp is a function of the label (`TimestampPerNal`). The last needs that `ts_current`
  moves with each NAL and does not come round within a file: `Step >= 1` and
  `Len(f) * Step < TsMod`, that is 2^32 / 3600 NALs at 25 frames a second, about 13 hours of a NAL per frame.
  Beyond that two NALs do share a timestamp. The run satisfies both.
* `RtpTcpProofs`. The invariant says of a connection of which every `recv` returned one whole
  packet (one not in `torn`) that some number `b` of its packets has been received (`Intact`): the
  stream goes on with packet `b + 1`, a thread holds one packet or none, and each of the first
  `b` is with one thread or in the file, once. This gives `EachPacketOnce`, and for a
  connection with one reader `SoleReaderInOrder`. That a reader may take over the descriptor of
  another connection is what makes `b`, and no counter of a thread, the right thing to track.
* `MulticastProofs`, the recorder. `StopsAtLimit` and `OneSps`, whatever is lost, for any files
  and limit: a datagram holds one NAL, so that every SPS is the first of its datagram and is
  compared with the limit, and nothing saved is an SPS until one has been counted. Without a
  loss, `HeardInv`: there are places in the endless repetition of the file where the saved NALs
  stand, in their order, with no received slice left out (`Received`), and the receive buffer
  and the client go on after them (`ToCome`). From it `SlicesWithoutGap`, for two slices are at most one
  round apart, and `Decodable`, under the hypothesis that in the file a PPS comes after each SPS
  (cyclically), which is how encoders write them; without a PPS nothing could be decoded.
* `MulticastProofs`, the client: the refinement `SendsTheFile` of `NalPump`. Count the bytes of
  the endless repetition of the file (`ByteAt`). Between chunks the buffer begins with what is
  left of the NAL due and the file position is where it goes on (`Waiting`); while a chunk is
  searched it holds a stretch of these bytes and the NAL due starts at `start_code` (`Scanning`).
  Start codes are where NALs start and nowhere else (`NoCodeInside`, `NextStart`), so what is found is the
  end of the NAL (`FoundIsNextStart`), and what is left at the end of the file is all of it
  (`RestFacts`). Stale bytes behind a last, short chunk do no harm, since the byte before them
  ends a NAL and begins no start code; what is behind a full buffer can. So the theorem has a hypothesis: no byte
  that completes a start code is there, or no NAL holds one that begins it. `nal_pump_past_end` shows that it is
  needed. `BufAssumption` says that a datagram is shorter than the buffer, so that a full buffer is
  never sent as one. `ProgramsKeepTheirPromises` states the theorems of both programs for `PairSpec`,
  the specification of the run.
* `SocketIOProofs`. TCP: `BytesInOrder` and `ClaimsOnlySent` for any sizes of buffer, chunk, record and
  connection. The invariant ties the three counters of the writer to the number of bytes put
  into the connection, for each place it can be at (`WriterInv`); these bytes are always the
  first ones of the buffer, and are those returned, those in the reader's hand and those on
  their way, in this order (`StreamInv`, `ReaderInv`). UDP: `DatagramsEndToEnd` for any width of
  `short`; `ChunkInv` says by how many bytes the pointer is behind, one for each interruption
  since the last datagram.
* `SingleThreadProofs`. Each part has a specification of its own, and `Spec` implies all of them
  (`PartsKeepTheirPromises`).
  - Ring queues: `RingCounts` and the refinement `RingIsFifo`, for any sizes and any width of
    the counters. All rests on remainders: up to as many steps as there are slots lead
    round the ring once (`Turn`), so the slot written is not one of those in use (`SlotsDiffer`),
    and where the counters wrap the slots go on if the size divides their range (`NextTurn`).
    The invariant says that the elements are no more than the slots and none is garbage
    (`Filled`), as long as the counters can be trusted.
  - Linked queue: `ChainIsLinked` with the type invariant is inductive; `SizeInv` adds what the
    loop of `destroy_queue` does to the size. From them `SizeShortByLeftovers`, and the
    refinement `ListIsFifo`: a push is a `Put`, whose room is shown by counting nodes (`RoomLeft`:
    the nodes of the chain are distinct and one is unused), a pop is a `Get`.
  - Client list: `ClientsListed`. The invariant `ClientInv` adds that nodes not listed are freed and no
    node is listed twice; the walk of the code, a recursive function, is shown to go through the listed nodes.
  - Reader: `CutsAtStartCodes` and `RestHasNoCode` for files of any length. The invariant
    joins them with what the call in progress has done (`ThisCall`): the file from where the call
    started is the NAL copied so far and the zeros held back, no start code ends in it, and
    the NAL does not end in a zero, so that a code found next is the first one. A call that
    has met stray zeros only keeps that it has. Places and slices of the file stay as
    they are when it grows (`OldPlaces`, `OldSlices`), which carries over every cut made before (`CutsKept`).

What recursive functions compute (`AllWritten`, `AllWrittenFor`, `OutOf`, `Bytes`, the walk of the client
list) is proved by induction stated without operator parameters: the set of the numbers a
formula holds of is all of `Nat` (`NatLemmas!SetInduction`), and a recursive function on `Nat` or on an
interval satisfies its equation (`Recursion`, `FiniteRecursion`). Where a definition used
`SelectSeq` or another `RECURSIVE` operator the model states it by positions or by a recursive function.

Only model-checked: the liveness properties `NewcomersHandled`, `EndedSessionsFreed`,
`RequestsRead`, `FileArrives`, `NewestIsRead`, `WritesReturn`, `RecordingEnds` and `KeepsSending`. Liveness
under fairness needs `ENABLED`, which is beyond TLAPS. The type invariants of `NalPump` and
`Multicast` are in no configuration and hold on the instances of the runs when added there.

## Not modelled, and the plan

In this order:

1. Proofs: the steps of the liveness arguments that are safety (what each round of a loop
   brings nearer to the end), and the type invariants of `NalPump` and `Multicast`.
2. The rest of the socket helpers: connecting and accepting with a time-out,
   `comm_udp_socket_read`. The other functions of `commonsocket.c` wrap one system call each.
3. The main loop of `client/udp/client.c`: it is the one of `NalPump` around the packetiser of
   `RtpSender`, both modelled.
4. Networks that reorder or repeat datagrams, below the decoder of `RtpFile`, which makes
   no promise about them.

Left out for good: logging, the printing of the interactive queue tests, set-up code that runs once
before a loop, `test_rtp2h264.c`, which does not compile, and parsing of program arguments.
`file_parse.c` is pure functions on a buffer and may follow as operators checked against a
reference definition.
