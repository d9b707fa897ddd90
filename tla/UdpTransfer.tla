------------------------------ MODULE UdpTransfer ------------------------------
(***************************************************************************)
(* common/udpsocket.c: comm_udp_write_Packet sends a buffer in datagrams   *)
(* with comm_udp_write, whose loop is written for short writes, which UDP  *)
(* does not have, and takes -1 for one when sendto is interrupted.         *)
(***************************************************************************)
EXTENDS Integers, Sequences

CONSTANTS Sizes,        \* sizes of buffers
          Mtus,         \* values of maxMtu
          ShortMod,     \* 2^16: remain is an unsigned short, slen a short
          MaxRetries    \* bound: interruptions of sendto

ASSUME UdpAssumption ==
  /\ Sizes \subseteq Nat /\ Mtus \subseteq Nat \ {0}
  /\ ShortMod \in Nat \ {0} /\ ShortMod % 2 = 0
  /\ MaxRetries \in Nat

VARIABLES
  upc,         \* "packet" (the loop of write_Packet), "write" (that of comm_udp_write), "done"
  length,      \* the size write_Packet was called with
  mtu,         \* its maxMtu
  buf,         \* how far it has moved buf
  p, remain,   \* comm_udp_write: where it sends from and how much
  slen,        \*                 what it will return
  retries,     \* history: interruptions so far
  datagrams    \* history: what was sent, with the interruptions so far

udpVars == <<upc, length, mtu, buf, p, remain, slen, retries, datagrams>>

Short(n) == LET m == n % ShortMod IN IF 2 * m < ShortMod THEN m ELSE m - ShortMod
LeastOf(a, b) == IF a < b THEN a ELSE b

UdpInit ==
  /\ upc = "packet" /\ length \in Sizes /\ mtu \in Mtus
  /\ buf = 0 /\ p = 0 /\ remain = 0 /\ slen = 0
  /\ retries = 0 /\ datagrams = << >>

WriteDatagram ==
  /\ upc = "packet" /\ buf < length
  /\ p' = buf
  /\ remain' = LeastOf(length - buf, mtu) % ShortMod
  /\ slen' = 0
  /\ upc' = "write"
  /\ UNCHANGED <<length, mtu, buf, retries, datagrams>>

PacketReturns ==
  /\ upc = "packet" /\ buf >= length
  /\ upc' = "done"
  /\ UNCHANGED <<length, mtu, buf, p, remain, slen, retries, datagrams>>

\* remain -= n; p += n; slen += n, in the width of their types
Account(n) ==
  /\ remain' = (remain - n) % ShortMod
  /\ p' = p + n
  /\ slen' = Short(slen + n)

\* UDP sends a datagram as a whole.
Sendto ==
  /\ upc = "write" /\ remain > 0
  /\ Account(remain)
  /\ datagrams' = Append(datagrams, [from |-> p, to |-> p + remain, late |-> retries])
  /\ UNCHANGED <<upc, length, mtu, buf, retries>>

\* EINTR or EAGAIN: n is -1
SendtoInterrupted ==
  /\ upc = "write" /\ remain > 0
  /\ retries < MaxRetries
  /\ Account(-1)
  /\ retries' = retries + 1
  /\ UNCHANGED <<upc, length, mtu, buf, datagrams>>

SendtoFails ==
  /\ upc = "write" /\ remain > 0
  /\ upc' = "done"
  /\ UNCHANGED <<length, mtu, buf, p, remain, slen, retries, datagrams>>

\* Mutated: the chunk is taken for sent whatever was returned
AdvancedByMtu == buf + mtu

Advanced == buf + slen

\* comm_udp_write returns slen; write_Packet stops when that is negative.
WriteReturnsSlen ==
  /\ upc = "write" /\ remain = 0
  /\ IF slen < 0
     THEN upc' = "done" /\ UNCHANGED buf
     ELSE upc' = "packet" /\ buf' = Advanced
  /\ UNCHANGED <<length, mtu, p, remain, slen, retries, datagrams>>

UdpNext == \/ WriteDatagram \/ PacketReturns
           \/ Sendto \/ SendtoInterrupted \/ SendtoFails \/ WriteReturnsSlen

-----------------------------------------------------------------------------
\* A short can count the bytes of a chunk, however often sendto is interrupted.
ShortsSuffice == 2 * mtu < ShortMod /\ mtu + MaxRetries < ShortMod

(***************************************************************************)
(* Datagrams end where the chunks of the buffer end, and begin where the   *)
(* one before has ended, or one byte earlier for every time sendto was     *)
(* interrupted: the first then starts before the buffer (udpsocket.c:74).  *)
(* So it is as long as a chunk is no more than a short can count.          *)
(***************************************************************************)
DatagramsEndToEnd ==
  ShortsSuffice =>
    /\ \A i \in DOMAIN datagrams :
         LET d == datagrams[i]
             before == IF i = 1 THEN [to |-> 0, late |-> 0] ELSE datagrams[i - 1]
         IN /\ d.to = LeastOf(before.to + mtu, length)
            /\ d.from = before.to - (d.late - before.late)
    /\ upc = "done" =>
         buf = IF datagrams = << >> THEN 0 ELSE datagrams[Len(datagrams)].to
=============================================================================
