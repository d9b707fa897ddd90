------------------------------ MODULE RtpTcpProofs ------------------------------
(***************************************************************************)
(* Theorems about RtpTcp, for any connections, packets, descriptors and    *)
(* size of recv_buf.  The invariant says of a connection of which every    *)
(* recv returned one whole packet that there is a number b of packets that *)
(* were received (Intact): the stream goes on with packet b + 1, a thread  *)
(* has one packet or none, each of the first b packets is with one thread  *)
(* or in the file, once, and if one thread reads the connection the file   *)
(* and the thread together have them in order.                             *)
(***************************************************************************)
EXTENDS RtpTcp, FiniteSetTheorems, NatLemmas

ThreadInv ==
  /\ \A t \in Thread :
       /\ pc[t] # "none" => t <= Len(accepted)
       /\ pc[t] \in {"none", "start"} <=> sock[t] = NoConn
       /\ pc[t] = "write" <=> todo[t] # << >>
       /\ \A k \in DOMAIN todo[t] : todo[t][k].conn = sock[t]
  /\ \A c \in Conn : \A k \in DOMAIN stream[c] : stream[c][k].conn = c

(* The stream of c goes on with packet b + 1 *)
StreamFrom(c, b) ==
  /\ \A j \in Nat :
       /\ 2 * j + 1 \in DOMAIN stream[c] => stream[c][2 * j + 1] = HeadOf(c, b + j + 1)
       /\ 2 * j + 2 \in DOMAIN stream[c] => stream[c][2 * j + 2] = RestOf(c, b + j + 1)
  /\ Len(stream[c]) <= 2 * (sentTo[c] - b)
  /\ c \notin resets => Len(stream[c]) = 2 * (sentTo[c] - b)

PrefixOf(c, i) == [conn |-> c, pkt |-> i, part |-> "prefix"]

(* A thread has a packet of c, or what is left of it without the prefix *)
WholeIn(t, c, b) ==
  \/ todo[t] = << >>
  \/ \E i \in 1 .. b : \/ todo[t] = <<HeadOf(c, i), RestOf(c, i)>>
                       \/ todo[t] = <<PrefixOf(c, i), HeadOf(c, i), RestOf(c, i)>>

TodoWhole(c, b) == \A t \in Thread : sock[t] = c => WholeIn(t, c, b)

Holds(t, p) == \E k \in DOMAIN todo[t] : todo[t][k] = p
InFile(p) == \E k \in DOMAIN out : out[k] = p

OnceEach(c, b) ==
  \A i \in Nat :
    /\ InFile(RestOf(c, i)) \/ (\E t \in Thread : Holds(t, RestOf(c, i))) <=> i \in 1 .. b
    /\ \A t \in Thread : Holds(t, RestOf(c, i)) =>
         /\ ~InFile(RestOf(c, i))
         /\ \A u \in Thread : Holds(u, RestOf(c, i)) => u = t
    /\ \A k, l \in DOMAIN out : out[k] = RestOf(c, i) /\ out[l] = RestOf(c, i) => k = l

InOrder(c, b) ==
  /\ Readers(c) = {} => OutOf(c) = << >> /\ b = 0
  /\ \A t \in Thread : Readers(c) = {t} => OutOf(c) \o todo[t] = AllWrittenFor(c)[b]

Intact(c, b) ==
  /\ b <= sentTo[c]
  /\ StreamFrom(c, b) /\ TodoWhole(c, b) /\ OnceEach(c, b) /\ InOrder(c, b)

RtpTcpInv ==
  /\ TypeOK /\ ThreadInv
  /\ ~Running => \A t \in Thread : sock[t] = NoConn
  /\ Running => \A c \in Conn \ torn : \E b \in Nat : Intact(c, b)

-----------------------------------------------------------------------------
(* The parts of a connection *)

PartsStep(c, parts, n, sofar) ==
  IF parts[n].conn = c THEN Append(sofar, parts[n]) ELSE sofar

FirstParts(f, c, parts) ==
  f = [n \in 0 .. Len(parts) |-> IF n = 0 THEN << >>
                                 ELSE IF parts[n].conn = c THEN Append(f[n - 1], parts[n]) ELSE f[n - 1]]

LEMMA FirstPartsSteps ==
  ASSUME NEW c, NEW parts \in Seq(Tags), NEW f, FirstParts(f, c, parts)
  PROVE  /\ f[0] = << >>
         /\ \A n \in 1 .. Len(parts) : f[n] = PartsStep(c, parts, n, f[n - 1])
         /\ f \in [0 .. Len(parts) -> Seq(Tags)]
<1>1. Len(parts) \in Nat /\ \A n \in 1 .. Len(parts) : parts[n] \in Tags
  BY LenProperties, ElementOfSeq
<1>2. f = [n \in 0 .. Len(parts) |-> IF n = 0 THEN << >>
             ELSE IF parts[n].conn = c THEN Append(f[n - 1], parts[n]) ELSE f[n - 1]]
  BY DEF FirstParts
<1>3. \A n \in 0 .. Len(parts) : f[n] = IF n = 0 THEN << >>
             ELSE IF parts[n].conn = c THEN Append(f[n - 1], parts[n]) ELSE f[n - 1]
  BY <1>2, Zenon
<1>4. f[0] = << >>
  BY <1>1, <1>3
<1>5. \A n \in 1 .. Len(parts) : f[n] = PartsStep(c, parts, n, f[n - 1])
  BY <1>1, <1>3 DEF PartsStep
<1> DEFINE T == {n \in Nat : n <= Len(parts) => f[n] \in Seq(Tags)}
<1>6. 0 \in T
  BY <1>4, EmptySeq
<1>7. ASSUME NEW n \in Nat, n \in T
      PROVE  n + 1 \in T
  <2> SUFFICES ASSUME n + 1 <= Len(parts)
               PROVE  f[n + 1] \in Seq(Tags)
    OBVIOUS
  <2>1. f[n] \in Seq(Tags) /\ n + 1 \in 1 .. Len(parts) /\ n + 1 - 1 = n
    BY <1>1, <1>7
  <2>2. f[n + 1] = IF parts[n + 1].conn = c THEN Append(f[n], parts[n + 1]) ELSE f[n]
    BY <1>5, <2>1 DEF PartsStep
  <2> QED BY <1>1, <2>1, <2>2, AppendProperties
<1> HIDE DEF T
<1>8. Nat \subseteq T
  BY <1>6, <1>7, SetInduction
<1>9. \A n \in 0 .. Len(parts) : f[n] \in Seq(Tags)
  BY <1>1, <1>8 DEF T
<1>10. f = [n \in 0 .. Len(parts) |-> f[n]]
  BY <1>2, Zenon
<1>11. f \in [0 .. Len(parts) -> Seq(Tags)]
  BY <1>9, <1>10, Zenon
<1> QED BY <1>4, <1>5, <1>11

LEMMA FirstPartsExist ==
  ASSUME NEW c, NEW parts \in Seq(Tags)
  PROVE  \E f : FirstParts(f, c, parts)
<1> DEFINE g == [p \in Seq(Tags) \X Nat |->
                   IF p[2] \in 1 .. Len(parts) THEN PartsStep(c, parts, p[2], p[1]) ELSE p[1]]
<1>1. Len(parts) \in Nat /\ \A n \in 1 .. Len(parts) : parts[n] \in Tags
  BY LenProperties, ElementOfSeq
<1>2. ASSUME NEW q \in Seq(Tags), NEW n \in Nat
      PROVE  (IF n \in 1 .. Len(parts) THEN PartsStep(c, parts, n, q) ELSE q) \in Seq(Tags)
  BY <1>1, AppendProperties DEF PartsStep
<1>3. g \in [Seq(Tags) \X Nat -> Seq(Tags)]
  BY <1>2
<1>4. \A q \in Seq(Tags), n \in Nat :
        g[<<q, n>>] = IF n \in 1 .. Len(parts) THEN PartsStep(c, parts, n, q) ELSE q
  OBVIOUS
<1> HIDE DEF g
<1>5. << >> \in Seq(Tags)
  BY EmptySeq
<1>6. PICK r \in [Nat -> Seq(Tags)] : GoesOn(r, << >>, g)
  BY <1>3, <1>5, Recursion
<1> DEFINE f == [n \in 0 .. Len(parts) |-> r[n]]
<1>7. ASSUME NEW n \in 0 .. Len(parts), n # 0
      PROVE  r[n] = PartsStep(c, parts, n, r[n - 1])
  <2>1. n - 1 \in Nat /\ n - 1 + 1 = n /\ n \in 1 .. Len(parts) /\ n \in Nat
    BY <1>1, <1>7
  <2>2. r[n] = g[<<r[n - 1], n>>] /\ r[n - 1] \in Seq(Tags)
    BY <1>6, <2>1 DEF GoesOn
  <2> QED BY <1>4, <2>1, <2>2
<1>8. \A n \in 0 .. Len(parts) : n # 0 => f[n] = r[n] /\ f[n - 1] = r[n - 1]
  BY <1>1
<1>9. \A n \in 0 .. Len(parts) : r[n] = IF n = 0 THEN << >>
             ELSE IF parts[n].conn = c THEN Append(f[n - 1], parts[n]) ELSE f[n - 1]
  BY <1>6, <1>7, <1>8 DEF PartsStep, GoesOn
<1>10. f = [n \in 0 .. Len(parts) |-> IF n = 0 THEN << >>
             ELSE IF parts[n].conn = c THEN Append(f[n - 1], parts[n]) ELSE f[n - 1]]
  BY <1>9, Zenon
<1> HIDE DEF f
<1>11. FirstParts(f, c, parts)
  BY <1>10 DEF FirstParts
<1> QED BY <1>11

LEMMA PartsOfIsLast ==
  ASSUME NEW c, NEW parts \in Seq(Tags)
  PROVE  \E f : FirstParts(f, c, parts) /\ PartsOf(c, parts) = f[Len(parts)]
<1> DEFINE h == CHOOSE f : FirstParts(f, c, parts)
<1>1. FirstParts(h, c, parts)
  BY FirstPartsExist
<1>2. PartsOf(c, parts) = h[Len(parts)]
  BY DEF PartsOf, FirstParts
<1> QED BY <1>1, <1>2

LEMMA PartsOfType ==
  ASSUME NEW c, NEW parts \in Seq(Tags)
  PROVE  PartsOf(c, parts) \in Seq(Tags)
<1>1. PICK f : FirstParts(f, c, parts) /\ PartsOf(c, parts) = f[Len(parts)]
  BY PartsOfIsLast
<1>2. f \in [0 .. Len(parts) -> Seq(Tags)] /\ Len(parts) \in Nat
  BY <1>1, FirstPartsSteps, LenProperties
<1> QED BY <1>1, <1>2

LEMMA PartsOfNothing ==
  ASSUME NEW c
  PROVE  PartsOf(c, << >>) = << >>
<1>1. << >> \in Seq(Tags) /\ Len(<< >>) = 0
  BY EmptySeq
<1>2. PICK f : FirstParts(f, c, << >>) /\ PartsOf(c, << >>) = f[0]
  BY <1>1, PartsOfIsLast
<1>3. f[0] = << >>
  BY <1>1, <1>2, FirstPartsSteps
<1> QED BY <1>2, <1>3

(* One more part is the last, or of no account *)
LEMMA PartsOfAppend ==
  ASSUME NEW c, NEW parts \in Seq(Tags), NEW e \in Tags
  PROVE  PartsOf(c, Append(parts, e)) =
           IF e.conn = c THEN Append(PartsOf(c, parts), e) ELSE PartsOf(c, parts)
<1> DEFINE more == Append(parts, e)
           n == Len(parts)
<1>1. /\ n \in Nat /\ more \in Seq(Tags) /\ Len(more) = n + 1
      /\ \A i \in 1 .. n : more[i] = parts[i]
      /\ more[n + 1] = e
  BY AppendProperties, LenProperties
<1> HIDE DEF more, n
<1>2. PICK f : FirstParts(f, c, parts) /\ PartsOf(c, parts) = f[n]
  BY PartsOfIsLast DEF n
<1>3. PICK h : FirstParts(h, c, more) /\ PartsOf(c, more) = h[n + 1]
  BY <1>1, PartsOfIsLast
<1>4. f[0] = << >> /\ \A i \in 1 .. n : f[i] = PartsStep(c, parts, i, f[i - 1])
  BY <1>2, FirstPartsSteps DEF n
<1>5. h[0] = << >> /\ \A i \in 1 .. n + 1 : h[i] = PartsStep(c, more, i, h[i - 1])
  BY <1>1, <1>3, FirstPartsSteps
<1> DEFINE T == {i \in Nat : i <= n => f[i] = h[i]}
<1>6. 0 \in T
  BY <1>4, <1>5
<1>7. ASSUME NEW i \in Nat, i \in T
      PROVE  i + 1 \in T
  <2> SUFFICES ASSUME i + 1 <= n
               PROVE  f[i + 1] = h[i + 1]
    OBVIOUS
  <2>1. f[i] = h[i] /\ i + 1 \in 1 .. n /\ i + 1 \in 1 .. n + 1 /\ i + 1 - 1 = i
    BY <1>1, <1>7
  <2>2. f[i + 1] = PartsStep(c, parts, i + 1, f[i]) /\ h[i + 1] = PartsStep(c, more, i + 1, h[i])
    BY <1>4, <1>5, <2>1
  <2>3. more[i + 1] = parts[i + 1]
    BY <1>1, <2>1
  <2> QED BY <2>1, <2>2, <2>3 DEF PartsStep
<1> HIDE DEF T
<1>8. Nat \subseteq T
  BY <1>6, <1>7, SetInduction
<1>9. f[n] = h[n]
  BY <1>1, <1>8 DEF T
<1>10. h[n + 1] = PartsStep(c, more, n + 1, h[n])
  <2>1. n \in Nat /\ n + 1 \in 1 .. n + 1 /\ n + 1 - 1 = n
    BY <1>1
  <2> QED BY <1>5, <2>1
<1> QED BY <1>1, <1>2, <1>3, <1>9, <1>10 DEF PartsStep, more

LEMMA AppendToConcat ==
  ASSUME NEW S, NEW q \in Seq(S), NEW u \in Seq(S), NEW e \in S
  PROVE  q \o Append(u, e) = Append(q \o u, e) /\ q \o u \in Seq(S)
<1>1. q \o u \in Seq(S) /\ <<e>> \in Seq(S)
  BY ConcatProperties
<1>2. Append(u, e) = u \o <<e>> /\ Append(q \o u, e) = (q \o u) \o <<e>>
  BY <1>1, AppendIsConcat
<1>3. (q \o u) \o <<e>> = q \o (u \o <<e>>)
  BY <1>1, ConcatAssociative
<1> QED BY <1>1, <1>2, <1>3

LEMMA PartsOfConcat ==
  ASSUME NEW c, NEW parts \in Seq(Tags), NEW more \in Seq(Tags)
  PROVE  /\ (\A k \in 1 .. Len(more) : more[k].conn # c)
              => PartsOf(c, parts \o more) = PartsOf(c, parts)
         /\ (\A k \in 1 .. Len(more) : more[k].conn = c)
              => PartsOf(c, parts \o more) = PartsOf(c, parts) \o more
<1> DEFINE Upto(n) == SubSeq(more, 1, n)
           Same(n) == PartsOf(c, parts \o Upto(n)) = PartsOf(c, parts)
           All(n) == PartsOf(c, parts \o Upto(n)) = PartsOf(c, parts) \o Upto(n)
           None == \A k \in 1 .. Len(more) : more[k].conn # c
           Every == \A k \in 1 .. Len(more) : more[k].conn = c
           T == {n \in Nat : n <= Len(more) => (None => Same(n)) /\ (Every => All(n))}
<1>0. Len(more) \in Nat /\ \A k \in 1 .. Len(more) : more[k] \in Tags
  BY LenProperties, ElementOfSeq
<1>1. 0 \in T
  <2>1. Upto(0) = << >>
    BY SubSeqEmpty
  <2>2. parts \o << >> = parts /\ PartsOf(c, parts) \o << >> = PartsOf(c, parts)
    BY ConcatEmptySeq, PartsOfType
  <2> QED BY <2>1, <2>2
<1>2. ASSUME NEW n \in Nat, n \in T
      PROVE  n + 1 \in T
  <2> SUFFICES ASSUME n + 1 <= Len(more)
               PROVE  (None => Same(n + 1)) /\ (Every => All(n + 1))
    OBVIOUS
  <2>1. n + 1 \in 1 .. Len(more) /\ n + 1 - 1 = n /\ 1 \in 1 .. Len(more) /\ n + 1 \in 1 .. Len(more)
    BY <1>0
  <2> DEFINE e == more[n + 1]
  <2>2. e \in Tags
    BY <1>0, <2>1
  <2>3. Upto(n) \in Seq(Tags)
    <3>1. \A i \in 1 .. n : more[i] \in Tags
      BY <1>0, <2>1
    <3> QED BY <3>1, SubSeqProperties
  <2>4. Upto(n + 1) = Append(Upto(n), e)
    <3>1. Upto(n + 1) = SubSeq(more, 1, n + 1 - 1) \o <<e>>
      BY <2>1, SubSeqRecursiveSecond
    <3>2. Append(Upto(n), e) = Upto(n) \o <<e>>
      BY <2>2, <2>3, AppendIsConcat
    <3> QED BY <2>1, <3>1, <3>2
  <2> HIDE DEF e
  <2>5. ASSUME NEW q \in Seq(Tags)
        PROVE  q \o Append(Upto(n), e) = Append(q \o Upto(n), e) /\ q \o Upto(n) \in Seq(Tags)
    BY <2>2, <2>3, AppendToConcat
  <2> HIDE DEF Upto
  <2>6. PartsOf(c, parts \o Upto(n + 1)) =
          IF e.conn = c THEN Append(PartsOf(c, parts \o Upto(n)), e) ELSE PartsOf(c, parts \o Upto(n))
    <3>1. parts \o Upto(n + 1) = Append(parts \o Upto(n), e)
      BY <2>4, <2>5
    <3>2. PICK q \in Seq(Tags) : q = parts \o Upto(n)
      BY <2>5
    <3>3. PartsOf(c, Append(q, e)) = IF e.conn = c THEN Append(PartsOf(c, q), e) ELSE PartsOf(c, q)
      BY <2>2, PartsOfAppend
    <3> QED BY <3>1, <3>2, <3>3
  <2>7. ASSUME None
        PROVE  Same(n + 1)
    BY <1>2, <2>1, <2>6, <2>7 DEF e
  <2>8. ASSUME Every
        PROVE  All(n + 1)
    <3>1. e.conn = c
      BY <2>1, <2>8 DEF e
    <3>2. PartsOf(c, parts \o Upto(n)) = PartsOf(c, parts) \o Upto(n)
      BY <1>2, <2>1, <2>8
    <3>3. PartsOf(c, parts) \in Seq(Tags)
      BY PartsOfType
    <3>4. PartsOf(c, parts) \o Append(Upto(n), e) = Append(PartsOf(c, parts) \o Upto(n), e)
      BY <2>5, <3>3
    <3> QED BY <2>4, <2>6, <3>1, <3>2, <3>4
  <2> QED BY <2>7, <2>8
<1>3. Upto(Len(more)) = more
  BY SubSeqFull
<1> HIDE DEF T
<1>4. Nat \subseteq T
  BY <1>1, <1>2, SetInduction
<1>5. Len(more) \in T
  BY <1>0, <1>4
<1>6. (None => Same(Len(more))) /\ (Every => All(Len(more)))
  BY <1>0, <1>5 DEF T
<1> QED BY <1>3, <1>6

LEMMA TagsOf ==
  ASSUME NEW c \in Conn, NEW i \in Nat
  PROVE  HeadOf(c, i) \in Tags /\ RestOf(c, i) \in Tags /\ PrefixOf(c, i) \in Tags
BY DEF Tags, HeadOf, RestOf, PrefixOf

LEMMA Regrouped ==
  ASSUME NEW s \in Seq(Tags), NEW u \in Seq(Tags), NEW v \in Seq(Tags)
  PROVE  (s \o u) \o v = s \o (u \o v)
BY ConcatAssociative

LEMMA OneAndTwo ==
  ASSUME NEW S, NEW x \in S, NEW y \in S, NEW z \in S
  PROVE  <<x>> \o <<y, z>> = <<x, y, z>>
<1>1. PICK q : q = <<x>> \o <<y, z>>
  OBVIOUS
<1>2. <<x>> \in Seq(S) /\ Len(<<x>>) = 1 /\ <<y, z>> \in Seq(S) /\ Len(<<y, z>>) = 2
  OBVIOUS
<1>3. /\ q \in Seq(S) /\ Len(q) = 3
      /\ \A i \in 1 .. 3 : q[i] = IF i <= 1 THEN <<x>>[i] ELSE <<y, z>>[i - 1]
  BY <1>1, <1>2, ConcatProperties
<1>4. q[1] = x /\ q[2] = y /\ q[3] = z
  BY <1>3
<1>5. <<x, y, z>> \in Seq(S) /\ Len(<<x, y, z>>) = 3
  OBVIOUS
<1>6. PICK t \in Seq(S) : t = <<x, y, z>> /\ Len(t) = 3 /\ t[1] = x /\ t[2] = y /\ t[3] = z
  BY <1>5
<1>7. \A i \in 1 .. 3 : q[i] = t[i]
  BY <1>4, <1>6
<1>8. q = t
  BY <1>3, <1>6, <1>7, SeqEqual
<1> QED BY <1>1, <1>6, <1>8

LEMMA WrittenIsTwoOrThree ==
  ASSUME NEW c \in Conn, NEW i \in Nat
  PROVE  /\ WrittenFor(c, i) \in Seq(Tags)
         /\ \/ WrittenFor(c, i) = <<HeadOf(c, i), RestOf(c, i)>>
            \/ WrittenFor(c, i) = <<PrefixOf(c, i), HeadOf(c, i), RestOf(c, i)>>
<1> DEFINE two == <<HeadOf(c, i), RestOf(c, i)>>
<1>1. two \in Seq(Tags) /\ Len(two) = 2
  BY TagsOf
<1>2. CASE Unit(c, i) \in {"single", "start"}
  <2>1. WrittenFor(c, i) = <<PrefixOf(c, i)>> \o two
    BY <1>2 DEF WrittenFor, PrefixOf
  <2>2. <<PrefixOf(c, i)>> \o two = <<PrefixOf(c, i), HeadOf(c, i), RestOf(c, i)>>
    BY TagsOf, OneAndTwo
  <2> QED BY <2>1, <2>2, TagsOf
<1>3. CASE Unit(c, i) \notin {"single", "start"}
  <2>1. WrittenFor(c, i) = << >> \o two
    BY <1>3 DEF WrittenFor
  <2>2. << >> \o two = two
    BY <1>1, ConcatEmptySeq
  <2> QED BY <1>1, <2>1, <2>2
<1> QED BY <1>2, <1>3

LEMMA AllWrittenGoesOn ==
  ASSUME NEW c \in Conn
  PROVE  /\ AllWrittenFor(c)[0] = << >>
         /\ \A n \in Nat : AllWrittenFor(c)[n + 1] = AllWrittenFor(c)[n] \o WrittenFor(c, n + 1)
<1> DEFINE Eq(f) == f = [n \in Nat |-> IF n = 0 THEN << >> ELSE f[n - 1] \o WrittenFor(c, n)]
           g == [p \in Seq(Tags) \X Nat |-> p[1] \o WrittenFor(c, p[2])]
<1>1. AllWrittenFor(c) = CHOOSE f : Eq(f)
  BY DEF AllWrittenFor
<1>2. g \in [Seq(Tags) \X Nat -> Seq(Tags)]
  <2>1. \A q \in Seq(Tags), n \in Nat : q \o WrittenFor(c, n) \in Seq(Tags)
    BY WrittenIsTwoOrThree, ConcatProperties
  <2> QED BY <2>1
<1>3. \A q \in Seq(Tags), n \in Nat : g[<<q, n>>] = q \o WrittenFor(c, n)
  OBVIOUS
<1> HIDE DEF g
<1>4. << >> \in Seq(Tags)
  BY EmptySeq
<1>5. PICK r \in [Nat -> Seq(Tags)] : GoesOn(r, << >>, g)
  BY <1>2, <1>4, Recursion
<1>6. ASSUME NEW n \in Nat, n # 0
      PROVE  r[n] = r[n - 1] \o WrittenFor(c, n)
  <2>1. n - 1 \in Nat /\ n - 1 + 1 = n
    BY <1>6
  <2>2. r[n] = g[<<r[n - 1], n>>] /\ r[n - 1] \in Seq(Tags)
    BY <1>5, <2>1 DEF GoesOn
  <2> QED BY <1>3, <2>2
<1>7. \A n \in Nat : r[n] = IF n = 0 THEN << >> ELSE r[n - 1] \o WrittenFor(c, n)
  BY <1>5, <1>6 DEF GoesOn
<1>8. r = [n \in Nat |-> r[n]]
  OBVIOUS
<1>9. Eq(r)
  BY <1>7, <1>8, Zenon
<1>10. Eq(AllWrittenFor(c))
  BY <1>1, <1>9, Zenon
<1>11. PICK f : f = AllWrittenFor(c)
  OBVIOUS
<1>12. f = [n \in Nat |-> IF n = 0 THEN << >> ELSE f[n - 1] \o WrittenFor(c, n)]
  BY <1>10, <1>11
<1>13. \A n \in Nat : f[n] = IF n = 0 THEN << >> ELSE f[n - 1] \o WrittenFor(c, n)
  BY <1>12, Zenon
<1>15. f[0] = << >>
  BY <1>13
<1>16. ASSUME NEW n \in Nat
       PROVE  f[n + 1] = f[n] \o WrittenFor(c, n + 1)
  <2>1. PICK m \in Nat : m = n + 1 /\ m # 0 /\ m - 1 = n
    OBVIOUS
  <2>2. f[m] = f[m - 1] \o WrittenFor(c, m)
    BY <1>13, <2>1
  <2> QED BY <2>1, <2>2
<1> QED BY <1>11, <1>15, <1>16

-----------------------------------------------------------------------------
(* The threads *)

LEMMA DecodeFacts ==
  ASSUME NEW parts \in Seq(Tags), parts # << >>, NEW unit, NEW d \in Conn,
         \A k \in 1 .. Len(parts) : parts[k].conn = d
  PROVE  /\ Decode(parts, unit) \in Seq(Tags) /\ Decode(parts, unit) # << >>
         /\ \A k \in DOMAIN Decode(parts, unit) : Decode(parts, unit)[k].conn = d
<1> DEFINE n == Len(parts)
           pre == Prefix(unit, parts[1])
           pay == Payload(parts)
<1>1. n \in Nat /\ n > 0 /\ DOMAIN parts = 1 .. n /\ \A k \in 1 .. n : parts[k] \in Tags
  BY LenProperties, ElementOfSeq, EmptySeq
<1>2. ASSUME NEW p \in Tags, NEW x \in {"prefix", "cut", "raw"}
      PROVE  [p EXCEPT !.part = x] \in Tags /\ [p EXCEPT !.part = x].conn = p.conn
  BY DEF Tags
<1>3. pre \in Seq(Tags) /\ Len(pre) \in 0 .. 1 /\ \A k \in 1 .. Len(pre) : pre[k].conn = d
  <2>1. 1 \in 1 .. n
    BY <1>1
  <2>2. parts[1] \in Tags /\ parts[1].conn = d
    BY <1>1, <2>1
  <2>3. [parts[1] EXCEPT !.part = "prefix"] \in Tags /\ [parts[1] EXCEPT !.part = "prefix"].conn = d
    BY <2>2 DEF Tags
  <2>4. PICK p \in Tags : p = [parts[1] EXCEPT !.part = "prefix"] /\ p.conn = d
    BY <2>3
  <2>5. pre = <<p>> \/ pre = << >>
    BY <2>4 DEF Prefix
  <2>6. CASE pre = <<p>>
    <3>1. <<p>> \in Seq(Tags) /\ Len(<<p>>) = 1 /\ <<p>>[1] = p
      OBVIOUS
    <3>2. PICK s : s = <<p>>
      OBVIOUS
    <3>3. s \in Seq(Tags) /\ Len(s) = 1 /\ s[1].conn = d
      BY <2>4, <3>1, <3>2
    <3>4. \A k \in 1 .. 1 : s[k].conn = d
      BY <3>3
    <3>5. s \in Seq(Tags) /\ Len(s) \in 0 .. 1 /\ \A k \in 1 .. Len(s) : s[k].conn = d
      BY <3>3, <3>4
    <3> QED BY <2>6, <3>2, <3>5, Zenon
  <2>7. CASE pre = << >>
    <3>1. << >> \in Seq(Tags) /\ Len(<< >>) = 0
      BY EmptySeq
    <3>2. PICK s : s = << >>
      OBVIOUS
    <3>3. s \in Seq(Tags) /\ Len(s) \in 0 .. 1 /\ \A k \in 1 .. Len(s) : s[k].conn = d
      BY <3>1, <3>2
    <3> QED BY <2>7, <3>2, <3>3, Zenon
  <2> QED BY <2>5, <2>6, <2>7
<1>4. pay \in Seq(Tags) /\ Len(pay) = n /\ \A k \in 1 .. n : pay[k].conn = d
  <2>1. pay = [i \in 1 .. n |->
                 IF i = 1 /\ parts[i].part = "rest" THEN [parts[i] EXCEPT !.part = "cut"]
                 ELSE IF i > 1 /\ parts[i].part = "head" THEN [parts[i] EXCEPT !.part = "raw"]
                 ELSE parts[i]]
    BY <1>1 DEF Payload
  <2>2. ASSUME NEW i \in 1 .. n
        PROVE  pay[i] \in Tags /\ pay[i].conn = d
    <3>1. PICK p \in Tags : p = parts[i] /\ p.conn = d
      BY <1>1
    <3>2. \/ pay[i] = p
          \/ pay[i] = [p EXCEPT !.part = "cut"]
          \/ pay[i] = [p EXCEPT !.part = "raw"]
      BY <2>1, <3>1
    <3>3. \A x \in {"cut", "raw"} : [p EXCEPT !.part = x] \in Tags /\ [p EXCEPT !.part = x].conn = d
      BY <1>2, <3>1
    <3> QED BY <3>1, <3>2, <3>3
  <2>3. pay \in [1 .. n -> Tags]
    BY <2>1, <2>2
  <2>4. pay \in Seq(Tags)
    BY <1>1, <2>3, SeqDef, Zenon
  <2>5. DOMAIN pay = 1 .. n
    BY <2>1
  <2>6. Len(pay) = n
    BY <1>1, <2>4, <2>5, LenProperties
  <2> QED BY <2>2, <2>4, <2>6
<1> HIDE DEF pre, pay, n
<1>5. PICK q : q = pre \o pay
  OBVIOUS
<1>6. /\ q \in Seq(Tags) /\ Len(q) = Len(pre) + n
      /\ \A i \in 1 .. Len(pre) + n : q[i] = IF i <= Len(pre) THEN pre[i] ELSE pay[i - Len(pre)]
  BY <1>3, <1>4, <1>5, ConcatProperties
<1>7. \A i \in 1 .. Len(pre) + n : q[i].conn = d
  <2>1. ASSUME NEW i \in 1 .. Len(pre) + n
        PROVE  q[i].conn = d
    <3>1. CASE i <= Len(pre)
      <4>1. i \in 1 .. Len(pre)
        BY <1>1, <1>3, <3>1
      <4> QED BY <1>3, <1>6, <3>1, <4>1
    <3>2. CASE ~(i <= Len(pre))
      <4>1. i - Len(pre) \in 1 .. n
        BY <1>1, <1>3, <3>2
      <4> QED BY <1>4, <1>6, <3>2, <4>1
    <3> QED BY <3>1, <3>2
  <2> QED BY <2>1
<1>8. Len(q) > 0 /\ DOMAIN q = 1 .. Len(pre) + n
  BY <1>1, <1>3, <1>6, LenProperties
<1>9. q # << >>
  BY <1>6, <1>8, EmptySeq
<1>10. Decode(parts, unit) = q
  BY <1>5 DEF Decode, pre, pay
<1> QED BY <1>6, <1>7, <1>8, <1>9, <1>10

LEMMA SubSeqTags ==
  ASSUME NEW s \in Seq(Tags), NEW m \in Nat \ {0}, NEW n \in Nat, n <= Len(s)
  PROVE  /\ SubSeq(s, m, n) \in Seq(Tags)
         /\ Len(SubSeq(s, m, n)) = IF m <= n THEN n - m + 1 ELSE 0
         /\ \A i \in 1 .. n - m + 1 : SubSeq(s, m, n)[i] = s[m + i - 1]
         /\ \A d : (\A k \in DOMAIN s : s[k].conn = d)
                     => \A k \in DOMAIN SubSeq(s, m, n) : SubSeq(s, m, n)[k].conn = d
<1>1. Len(s) \in Nat /\ DOMAIN s = 1 .. Len(s) /\ \A i \in 1 .. Len(s) : s[i] \in Tags
  BY LenProperties, ElementOfSeq
<1>2. \A i \in m .. n : i \in 1 .. Len(s)
  BY <1>1
<1>3. PICK q : q = SubSeq(s, m, n)
  OBVIOUS
<1>4. /\ q \in Seq(Tags)
      /\ Len(q) = IF m <= n THEN n - m + 1 ELSE 0
      /\ \A i \in 1 .. n - m + 1 : q[i] = s[m + i - 1]
  BY <1>1, <1>2, <1>3, SubSeqProperties
<1>5. DOMAIN q = 1 .. Len(q)
  BY <1>4, LenProperties
<1>6. ASSUME NEW k \in DOMAIN q
      PROVE  k \in 1 .. n - m + 1 /\ m + k - 1 \in DOMAIN s
  BY <1>1, <1>4, <1>5
<1>7. ASSUME NEW d, \A k \in DOMAIN s : s[k].conn = d, NEW k \in DOMAIN q
      PROVE  q[k].conn = d
  BY <1>4, <1>6, <1>7
<1> QED BY <1>3, <1>4, <1>7

BaseInv == TypeOK /\ ThreadInv

LEMMA BaseInit == Init => BaseInv
<1> SUFFICES ASSUME Init
             PROVE  BaseInv
  OBVIOUS
<1>1. << >> \in Seq(Tags) /\ << >> \in Seq(Conn) /\ Len(<< >>) = 0 /\ DOMAIN << >> = {}
  BY EmptySeq
<1>2. TypeOK
  BY <1>1, ConnAssumption DEF Init, TypeOK
<1>3. ThreadInv
  BY <1>1 DEF Init, ThreadInv
<1> QED BY <1>2, <1>3 DEF BaseInv

SentFacts(d) ==
  /\ stream' = [stream EXCEPT ![d] = stream'[d]]
  /\ stream'[d] \in Seq(Tags) /\ Len(stream[d]) \in Nat /\ Len(stream'[d]) = Len(stream[d]) + 2
  /\ \A k \in 1 .. Len(stream[d]) : stream'[d][k] = stream[d][k]
  /\ stream'[d][Len(stream[d]) + 1] = HeadOf(d, sentTo[d] + 1)
  /\ stream'[d][Len(stream[d]) + 2] = RestOf(d, sentTo[d] + 1)

LEMMA SendFacts ==
  ASSUME TypeOK, NEW d \in Conn, PeerSends(d)
  PROVE  SentFacts(d)
<1>1. stream[d] \in Seq(Tags) /\ sentTo[d] \in Nat /\ stream \in [Conn -> Seq(Tags)]
  BY DEF TypeOK
<1>2. PICK h \in Tags : h = HeadOf(d, sentTo[d] + 1)
  BY <1>1, TagsOf
<1>3. PICK r \in Tags : r = RestOf(d, sentTo[d] + 1)
  BY <1>1, TagsOf
<1>4. <<h, r>> \in Seq(Tags) /\ Len(<<h, r>>) = 2 /\ <<h, r>>[1] = h /\ <<h, r>>[2] = r
  OBVIOUS
<1>5. PICK s : s = stream[d] \o <<h, r>>
  OBVIOUS
<1>6. /\ s \in Seq(Tags) /\ Len(s) = Len(stream[d]) + 2
      /\ \A k \in 1 .. Len(stream[d]) + 2 :
           s[k] = IF k <= Len(stream[d]) THEN stream[d][k] ELSE <<h, r>>[k - Len(stream[d])]
  BY <1>1, <1>4, <1>5, ConcatProperties
<1>7. PICK n \in Nat : n = Len(stream[d])
  BY <1>1, LenProperties
<1>8. /\ \A k \in 1 .. n : s[k] = stream[d][k]
      /\ s[n + 1] = h /\ s[n + 2] = r
  <2>1. \A k \in 1 .. n : k \in 1 .. n + 2 /\ k <= n
    OBVIOUS
  <2>2. /\ n + 1 \in 1 .. n + 2 /\ ~(n + 1 <= n) /\ n + 1 - n = 1
        /\ n + 2 \in 1 .. n + 2 /\ ~(n + 2 <= n) /\ n + 2 - n = 2
    OBVIOUS
  <2>3. s[n + 1] = <<h, r>>[1] /\ s[n + 2] = <<h, r>>[2]
    BY <1>6, <1>7, <2>2
  <2> QED BY <1>4, <1>6, <1>7, <2>1, <2>3
<1>9. stream' = [stream EXCEPT ![d] = s]
  BY <1>2, <1>3, <1>5 DEF PeerSends
<1>10. stream'[d] = s
  BY <1>1, <1>9
<1> QED BY <1>2, <1>3, <1>6, <1>7, <1>8, <1>9, <1>10 DEF SentFacts

LEMMA StreamsOfConn ==
  ASSUME BaseInv, NEW d \in Conn, stream' = [stream EXCEPT ![d] = stream'[d]],
         stream'[d] \in Seq(Tags), \A k \in DOMAIN stream'[d] : stream'[d][k].conn = d
  PROVE  /\ stream' \in [Conn -> Seq(Tags)]
         /\ \A c \in Conn : \A k \in DOMAIN stream'[c] : stream'[c][k].conn = c
         /\ \A c \in Conn : c # d => stream'[c] = stream[c]
BY DEF BaseInv, TypeOK, ThreadInv

LEMMA PeerKeepsBase ==
  ASSUME BaseInv, NEW d \in Conn, Peer(d)
  PROVE  BaseInv'
<1>0. /\ stream \in [Conn -> Seq(Tags)] /\ Len(stream[d]) \in Nat /\ sentTo[d] \in Nat
      /\ DOMAIN stream[d] = 1 .. Len(stream[d])
      /\ \A k \in DOMAIN stream[d] : stream[d][k].conn = d
  BY LenProperties DEF BaseInv, TypeOK, ThreadInv
<1>1. CASE PeerSends(d)
  <2>1. SentFacts(d)
    BY <1>1, SendFacts DEF BaseInv
  <2>2. DOMAIN stream'[d] = 1 .. Len(stream[d]) + 2
    BY <2>1, LenProperties DEF SentFacts
  <2>3. \A k \in DOMAIN stream'[d] :
          k \in 1 .. Len(stream[d]) \/ k = Len(stream[d]) + 1 \/ k = Len(stream[d]) + 2
    BY <1>0, <2>2
  <2>4. \A k \in DOMAIN stream'[d] : stream'[d][k].conn = d
    BY <1>0, <2>1, <2>3 DEF SentFacts, HeadOf, RestOf
  <2>5. /\ stream' \in [Conn -> Seq(Tags)]
        /\ \A c \in Conn : \A k \in DOMAIN stream'[c] : stream'[c][k].conn = c
    BY <2>1, <2>4, StreamsOfConn DEF SentFacts
  <2>6. sentTo' \in [Conn -> Nat]
    BY <1>0, <1>1 DEF BaseInv, TypeOK, PeerSends
  <2> QED BY <1>1, <2>5, <2>6 DEF BaseInv, TypeOK, ThreadInv, PeerSends, threadVars
<1>2. CASE PeerCloses(d)
  BY <1>2 DEF BaseInv, TypeOK, ThreadInv, PeerCloses, threadVars
<1>3. CASE PeerResets(d)
  <2>1. PICK n \in 0 .. Len(stream[d]) : stream' = [stream EXCEPT ![d] = SubSeq(@, 1, n)]
    BY <1>3 DEF PeerResets
  <2>2. stream'[d] = SubSeq(stream[d], 1, n)
    BY <1>0, <2>1
  <2>3. n \in Nat /\ n <= Len(stream[d]) /\ stream[d] \in Seq(Tags)
    BY <1>0
  <2>4. stream'[d] \in Seq(Tags) /\ \A k \in DOMAIN stream'[d] : stream'[d][k].conn = d
    BY <1>0, <2>2, <2>3, SubSeqTags
  <2>5. stream' = [stream EXCEPT ![d] = stream'[d]]
    BY <1>0, <2>1, <2>2
  <2>6. /\ stream' \in [Conn -> Seq(Tags)]
        /\ \A c \in Conn : \A k \in DOMAIN stream'[c] : stream'[c][k].conn = c
    BY <2>4, <2>5, StreamsOfConn
  <2> QED BY <1>3, <2>6 DEF BaseInv, TypeOK, ThreadInv, PeerResets, threadVars
<1> QED BY <1>1, <1>2, <1>3 DEF Peer

LEMMA EndKeepsBase ==
  ASSUME BaseInv, NEW how \in {"exited", "crashed"}, ProcessEnds(how)
  PROVE  BaseInv'
<1>1. << >> \in Seq(Tags) /\ DOMAIN << >> = {}
  BY EmptySeq
<1> QED BY <1>1 DEF BaseInv, TypeOK, ThreadInv, ProcessEnds, peerVars

LEMMA AcceptKeepsBase ==
  ASSUME BaseInv, NEW d \in Conn, Accept(d)
  PROVE  BaseInv'
<1>1. /\ accepted \in Seq(Conn) /\ Len(accepted) \in Nat /\ Len(accepted) < MaxFd
      /\ MaxFd \in Nat
  BY LenProperties, ConnAssumption DEF BaseInv, TypeOK, Accept
<1>2. accepted' \in Seq(Conn) /\ Len(accepted') = Len(accepted) + 1
  BY <1>1, AppendProperties DEF Accept
<1> DEFINE new == Len(accepted) + 1
<1>3. new \in Thread /\ pc' = [pc EXCEPT ![new] = "start"]
  BY <1>1 DEF Thread, Accept
<1>4. pc[new] = "none"
  BY <1>1, <1>3 DEF BaseInv, ThreadInv
<1> HIDE DEF new
<1>5. TypeOK'
  <2>1. Len(accepted') <= MaxFd
    BY <1>1, <1>2
  <2>2. pc' \in [Thread -> {"none", "start", "recv", "write", "done"}]
    BY <1>3 DEF BaseInv, TypeOK
  <2> QED BY <1>2, <2>1, <2>2 DEF BaseInv, TypeOK, Accept, peerVars
<1>6. ASSUME NEW t \in Thread
      PROVE  /\ pc'[t] # "none" => t <= Len(accepted')
             /\ pc'[t] \in {"none", "start"} <=> sock[t] = NoConn
             /\ pc'[t] = "write" <=> todo[t] # << >>
  <2>1. t \in Nat /\ pc[t] # "none" => t <= Len(accepted)
    BY DEF Thread, BaseInv, ThreadInv
  <2>2. CASE t = new
    <3>1. pc'[t] = "start" /\ sock[t] = NoConn /\ todo[t] = << >>
      BY <1>3, <1>4, <2>2 DEF BaseInv, ThreadInv, TypeOK
    <3> QED BY <1>1, <1>2, <2>2, <3>1 DEF new
  <2>3. CASE t # new
    <3>1. pc'[t] = pc[t]
      BY <1>3, <2>3 DEF BaseInv, TypeOK
    <3> QED BY <1>1, <1>2, <2>1, <3>1 DEF BaseInv, ThreadInv, Thread
  <2> QED BY <2>2, <2>3
<1> QED BY <1>5, <1>6 DEF BaseInv, ThreadInv, Accept, peerVars

LEMMA DescriptorFacts ==
  ASSUME BaseInv, NEW t \in Thread, ReadDescriptor(t)
  PROVE  /\ new_fd \in Conn /\ sock[t] = NoConn /\ todo[t] = << >>
         /\ sock' = [sock EXCEPT ![t] = new_fd]
         /\ sock' \in [Thread -> Conn \cup {NoConn}]
<1>1. Len(accepted) \in 1 .. Len(accepted) /\ accepted \in Seq(Conn)
  <2>1. pc[t] # "none" /\ t \in Nat /\ t >= 1
    BY DEF ReadDescriptor, Thread
  <2>2. t <= Len(accepted) /\ accepted \in Seq(Conn)
    BY <2>1 DEF BaseInv, ThreadInv, TypeOK
  <2> QED BY <2>1, <2>2, LenProperties
<1>2. new_fd \in Conn
  BY <1>1, ElementOfSeq DEF new_fd
<1> QED BY <1>2 DEF ReadDescriptor, BaseInv, TypeOK, ThreadInv

LEMMA DescriptorKeepsBase ==
  ASSUME BaseInv, NEW t \in Thread, ReadDescriptor(t)
  PROVE  BaseInv'
<1>1. new_fd \in Conn /\ todo[t] = << >> /\ sock' = [sock EXCEPT ![t] = new_fd]
      /\ sock' \in [Thread -> Conn \cup {NoConn}]
  BY DescriptorFacts
<1>2. pc' = [pc EXCEPT ![t] = "recv"] /\ pc[t] = "start"
  BY DEF ReadDescriptor
<1>3. TypeOK'
  BY <1>1, <1>2 DEF ReadDescriptor, BaseInv, TypeOK, peerVars
<1>4. ASSUME NEW u \in Thread
      PROVE  /\ pc'[u] # "none" => u <= Len(accepted)
             /\ pc'[u] \in {"none", "start"} <=> sock'[u] = NoConn
             /\ pc'[u] = "write" <=> todo[u] # << >>
             /\ \A k \in DOMAIN todo[u] : todo[u][k].conn = sock'[u]
  <2>1. CASE u = t
    <3>1. pc'[u] = "recv" /\ sock'[u] = new_fd /\ DOMAIN todo[u] = {} /\ todo[u] = << >>
      BY <1>1, <1>2, <2>1 DEF BaseInv, TypeOK
    <3>2. u <= Len(accepted)
      BY <1>2, <2>1 DEF BaseInv, ThreadInv
    <3>3. new_fd # NoConn
      BY <1>1, ConnAssumption
    <3> QED BY <3>1, <3>2, <3>3
  <2>2. CASE u # t
    BY <1>1, <1>2, <2>2 DEF BaseInv, TypeOK, ThreadInv
  <2> QED BY <2>1, <2>2
<1> QED BY <1>3, <1>4 DEF ReadDescriptor, BaseInv, ThreadInv, peerVars

ReceiveOK(t, n) ==
  LET c == sock[t]
      parts == SubSeq(stream[c], 1, n)
  IN /\ c \in Conn /\ todo[t] = << >> /\ pc[t] = "recv"
     /\ parts \in Seq(Tags) /\ Len(parts) = n
     /\ \A k \in 1 .. n : parts[k] = stream[c][k]
     /\ \E unit \in UnitsSeen(parts[1]) : todo' = [todo EXCEPT ![t] = Decode(parts, unit)]
     /\ todo'[t] \in Seq(Tags) /\ todo'[t] # << >>
     /\ \A k \in DOMAIN todo'[t] : todo'[t][k].conn = c
     /\ torn' = IF WholePacket(parts) THEN torn ELSE torn \cup {c}
     /\ stream' = [stream EXCEPT ![c] = stream'[c]]
     /\ stream'[c] \in Seq(Tags) /\ Len(stream'[c]) = Len(stream[c]) - n
     /\ \A k \in 1 .. Len(stream[c]) - n : stream'[c][k] = stream[c][n + k]
     /\ \A k \in DOMAIN stream'[c] : stream'[c][k].conn = c

LEMMA ReceiveFacts ==
  ASSUME BaseInv, NEW t \in Thread, Receive(t)
  PROVE  \E n \in 1 .. Len(stream[sock[t]]) : ReceiveOK(t, n)
<1> DEFINE c == sock[t]
<1>1. pc[t] = "recv" /\ c \in Conn /\ todo[t] = << >>
  BY DEF Receive, BaseInv, TypeOK, ThreadInv
<1>2. PICK n \in 1 .. Len(stream[c]) :
        /\ \E unit \in UnitsSeen(SubSeq(stream[c], 1, n)[1]) :
             todo' = [todo EXCEPT ![t] = Decode(SubSeq(stream[c], 1, n), unit)]
        /\ torn' = IF WholePacket(SubSeq(stream[c], 1, n)) THEN torn ELSE torn \cup {c}
        /\ stream' = [stream EXCEPT ![c] = SubSeq(stream[c], n + 1, Len(stream[c]))]
  BY DEF Receive, LeftAfter
<1>3. /\ stream[c] \in Seq(Tags) /\ Len(stream[c]) \in Nat /\ n \in Nat /\ 1 <= n /\ n <= Len(stream[c])
      /\ \A k \in DOMAIN stream[c] : stream[c][k].conn = c
      /\ stream \in [Conn -> Seq(Tags)] /\ todo \in [Thread -> Seq(Tags)]
  BY <1>1, LenProperties DEF BaseInv, TypeOK, ThreadInv
<1> HIDE DEF c
<1>4. PICK parts : parts = SubSeq(stream[c], 1, n)
  OBVIOUS
<1>5. /\ parts \in Seq(Tags) /\ Len(parts) = n
      /\ \A k \in 1 .. n : parts[k] = stream[c][k]
      /\ \A k \in DOMAIN parts : parts[k].conn = c
  <2>1. /\ parts \in Seq(Tags)
        /\ Len(parts) = IF 1 <= n THEN n - 1 + 1 ELSE 0
        /\ \A i \in 1 .. n - 1 + 1 : parts[i] = stream[c][1 + i - 1]
        /\ \A d : (\A k \in DOMAIN stream[c] : stream[c][k].conn = d)
                     => \A k \in DOMAIN parts : parts[k].conn = d
    BY <1>3, <1>4, SubSeqTags
  <2>2. n - 1 + 1 = n /\ \A i \in 1 .. n : 1 + i - 1 = i
    BY <1>3
  <2> QED BY <1>3, <2>1, <2>2
<1>6. /\ stream'[c] = SubSeq(stream[c], n + 1, Len(stream[c]))
      /\ stream' = [stream EXCEPT ![c] = stream'[c]]
  BY <1>1, <1>2, <1>3 DEF c
<1>7. /\ stream'[c] \in Seq(Tags) /\ Len(stream'[c]) = Len(stream[c]) - n
      /\ \A k \in 1 .. Len(stream[c]) - n : stream'[c][k] = stream[c][n + k]
      /\ \A k \in DOMAIN stream'[c] : stream'[c][k].conn = c
  <2>1. PICK l \in Nat : l = Len(stream[c]) /\ n <= l
    BY <1>3
  <2>2. PICK q : q = SubSeq(stream[c], n + 1, l)
    OBVIOUS
  <2>3. /\ q \in Seq(Tags)
        /\ Len(q) = IF n + 1 <= l THEN l - (n + 1) + 1 ELSE 0
        /\ \A i \in 1 .. l - (n + 1) + 1 : q[i] = stream[c][n + 1 + i - 1]
        /\ \A d : (\A k \in DOMAIN stream[c] : stream[c][k].conn = d)
                     => \A k \in DOMAIN q : q[k].conn = d
    <3>1. n + 1 \in Nat \ {0} /\ l <= Len(stream[c])
      BY <1>3, <2>1
    <3> QED BY <1>3, <2>1, <2>2, <3>1, SubSeqTags
  <2>4. l - (n + 1) + 1 = l - n /\ \A i \in 1 .. l - n : n + 1 + i - 1 = n + i
    BY <1>3, <2>1
  <2>5. Len(q) = l - n
    BY <1>3, <2>1, <2>3
  <2>6. \A k \in 1 .. l - n : q[k] = stream[c][n + k]
    BY <2>3, <2>4
  <2> QED BY <1>3, <1>6, <2>1, <2>2, <2>3, <2>5, <2>6
<1>8. parts # << >> /\ DOMAIN parts = 1 .. Len(parts)
  BY <1>3, <1>5, LenProperties, EmptySeq
<1>9. PICK unit \in UnitsSeen(parts[1]) : todo' = [todo EXCEPT ![t] = Decode(parts, unit)]
  BY <1>2, <1>4
<1>10. todo'[t] = Decode(parts, unit)
  BY <1>3, <1>9
<1>11. todo'[t] \in Seq(Tags) /\ todo'[t] # << >> /\ \A k \in DOMAIN todo'[t] : todo'[t][k].conn = c
  <2>1. c \in Conn /\ \A k \in 1 .. Len(parts) : parts[k].conn = c
    BY <1>1, <1>5, <1>8 DEF c
  <2> QED BY <1>5, <1>8, <1>10, <2>1, DecodeFacts
<1>12. torn' = IF WholePacket(parts) THEN torn ELSE torn \cup {c}
  BY <1>2, <1>4
<1>13. c \in Conn /\ todo[t] = << >> /\ pc[t] = "recv"
  BY <1>1 DEF c
<1>14. ReceiveOK(t, n)
  BY <1>4, <1>5, <1>6, <1>7, <1>9, <1>11, <1>12, <1>13 DEF ReceiveOK, c
<1> QED BY <1>14 DEF c

LEMMA ReceiveKeepsBase ==
  ASSUME BaseInv, NEW t \in Thread, Receive(t)
  PROVE  BaseInv'
<1> DEFINE c == sock[t]
<1>1. PICK n \in 1 .. Len(stream[c]) : ReceiveOK(t, n)
  BY ReceiveFacts
<1>2. /\ c \in Conn /\ pc[t] = "recv"
      /\ todo'[t] \in Seq(Tags) /\ todo'[t] # << >>
      /\ \A k \in DOMAIN todo'[t] : todo'[t][k].conn = c
      /\ torn' \in {torn, torn \cup {c}}
      /\ stream' = [stream EXCEPT ![c] = stream'[c]]
      /\ stream'[c] \in Seq(Tags)
      /\ \A k \in DOMAIN stream'[c] : stream'[c][k].conn = c
  BY <1>1 DEF ReceiveOK
<1>3. todo' = [todo EXCEPT ![t] = todo'[t]]
  BY <1>1 DEF ReceiveOK, BaseInv, TypeOK
<1>4. /\ stream' \in [Conn -> Seq(Tags)]
      /\ \A d \in Conn : \A k \in DOMAIN stream'[d] : stream'[d][k].conn = d
  BY <1>2, StreamsOfConn
<1>5. /\ pc' = [pc EXCEPT ![t] = "write"]
      /\ UNCHANGED <<peerVars, accepted, program, sock, out>>
  BY DEF Receive
<1>6. TypeOK'
  <2>1. todo' \in [Thread -> Seq(Tags)]
    BY <1>2, <1>3 DEF BaseInv, TypeOK
  <2>2. pc' \in [Thread -> {"none", "start", "recv", "write", "done"}]
    BY <1>5 DEF BaseInv, TypeOK
  <2>3. torn' \subseteq Conn
    BY <1>2 DEF BaseInv, TypeOK
  <2> QED BY <1>4, <1>5, <2>1, <2>2, <2>3 DEF BaseInv, TypeOK, peerVars
<1>7. ASSUME NEW u \in Thread
      PROVE  /\ pc'[u] # "none" => u <= Len(accepted)
             /\ pc'[u] \in {"none", "start"} <=> sock[u] = NoConn
             /\ pc'[u] = "write" <=> todo'[u] # << >>
             /\ \A k \in DOMAIN todo'[u] : todo'[u][k].conn = sock[u]
  <2>1. CASE u = t
    <3>1. pc'[u] = "write"
      BY <1>5, <2>1 DEF BaseInv, TypeOK
    <3> QED BY <1>2, <2>1, <3>1 DEF BaseInv, ThreadInv
  <2>2. CASE u # t
    <3>1. pc'[u] = pc[u] /\ todo'[u] = todo[u]
      BY <1>3, <1>5, <2>2 DEF BaseInv, TypeOK
    <3> QED BY <3>1 DEF BaseInv, ThreadInv
  <2> QED BY <2>1, <2>2
<1> QED BY <1>4, <1>5, <1>6, <1>7 DEF BaseInv, ThreadInv

WriteOK(t, n) ==
  LET now == SubSeq(todo[t], 1, n)
  IN /\ sock[t] \in Conn /\ pc[t] = "write"
     /\ n = IF todo[t][1].part = "prefix" THEN 1 ELSE Len(todo[t])
     /\ now \in Seq(Tags) /\ Len(now) = n
     /\ \A k \in 1 .. n : now[k] = todo[t][k] /\ now[k].conn = sock[t]
     /\ out' = out \o now
     /\ todo' = [todo EXCEPT ![t] = todo'[t]]
     /\ todo'[t] = SubSeq(todo[t], n + 1, Len(todo[t]))
     /\ todo'[t] \in Seq(Tags) /\ Len(todo'[t]) = Len(todo[t]) - n
     /\ \A k \in DOMAIN todo'[t] : todo'[t][k].conn = sock[t]
     /\ pc' = [pc EXCEPT ![t] = IF n = Len(todo[t]) THEN "recv" ELSE "write"]

LEMMA WriteFacts ==
  ASSUME BaseInv, NEW t \in Thread, Write(t)
  PROVE  \E n \in 1 .. Len(todo[t]) : WriteOK(t, n)
<1>1. /\ pc[t] = "write" /\ sock[t] \in Conn /\ todo[t] # << >> /\ todo[t] \in Seq(Tags)
      /\ \A k \in DOMAIN todo[t] : todo[t][k].conn = sock[t]
      /\ todo \in [Thread -> Seq(Tags)]
  BY DEF Write, BaseInv, TypeOK, ThreadInv
<1>2. Len(todo[t]) \in Nat \ {0} /\ DOMAIN todo[t] = 1 .. Len(todo[t])
  BY <1>1, EmptySeq, LenProperties
<1>3. PICK n \in 1 .. Len(todo[t]) : n = IF todo[t][1].part = "prefix" THEN 1 ELSE Len(todo[t])
  BY <1>2
<1>4. /\ out' = out \o SubSeq(todo[t], 1, n)
      /\ todo' = [todo EXCEPT ![t] = SubSeq(@, n + 1, Len(@))]
      /\ pc' = [pc EXCEPT ![t] = IF n = Len(todo[t]) THEN "recv" ELSE "write"]
  BY <1>3 DEF Write
<1>5. todo'[t] = SubSeq(todo[t], n + 1, Len(todo[t])) /\ todo' = [todo EXCEPT ![t] = todo'[t]]
  BY <1>1, <1>4
<1>6. PICK l \in Nat : l = Len(todo[t]) /\ n \in 1 .. l
  BY <1>2
<1>7. PICK now : now = SubSeq(todo[t], 1, n)
  OBVIOUS
<1>8. /\ now \in Seq(Tags) /\ Len(now) = n
      /\ \A k \in 1 .. n : now[k] = todo[t][k] /\ now[k].conn = sock[t]
  <2>1. /\ now \in Seq(Tags)
        /\ Len(now) = IF 1 <= n THEN n - 1 + 1 ELSE 0
        /\ \A i \in 1 .. n - 1 + 1 : now[i] = todo[t][1 + i - 1]
    BY <1>1, <1>6, <1>7, SubSeqTags
  <2>2. n - 1 + 1 = n /\ \A i \in 1 .. n : 1 + i - 1 = i /\ i \in 1 .. l
    BY <1>6
  <2>3. \A k \in 1 .. n : now[k] = todo[t][k]
    BY <2>1, <2>2
  <2>4. \A k \in 1 .. n : todo[t][k].conn = sock[t]
    BY <1>1, <1>2, <1>6, <2>2
  <2>5. Len(now) = n
    BY <1>6, <2>1
  <2> QED BY <2>1, <2>3, <2>4, <2>5
<1>9. /\ todo'[t] \in Seq(Tags) /\ Len(todo'[t]) = l - n
      /\ \A k \in DOMAIN todo'[t] : todo'[t][k].conn = sock[t]
  <2>1. PICK q : q = SubSeq(todo[t], n + 1, l)
    OBVIOUS
  <2>2. /\ q \in Seq(Tags)
        /\ Len(q) = IF n + 1 <= l THEN l - (n + 1) + 1 ELSE 0
        /\ \A d : (\A k \in DOMAIN todo[t] : todo[t][k].conn = d)
                     => \A k \in DOMAIN q : q[k].conn = d
    <3>1. n + 1 \in Nat \ {0} /\ l <= Len(todo[t])
      BY <1>6
    <3> QED BY <1>1, <1>6, <2>1, <3>1, SubSeqTags
  <2>3. Len(q) = l - n
    BY <1>6, <2>2
  <2> QED BY <1>1, <1>5, <1>6, <2>1, <2>2, <2>3
<1>10. WriteOK(t, n)
  BY <1>1, <1>3, <1>4, <1>5, <1>6, <1>7, <1>8, <1>9 DEF WriteOK
<1> QED BY <1>10

LEMMA WithoutPieceTags ==
  ASSUME NEW s \in Seq(Tags), s # << >>
  PROVE  /\ WithoutPiece(s) \in Seq(Tags)
         /\ \A d : (\A k \in DOMAIN s : s[k].conn = d)
                     => \A k \in DOMAIN WithoutPiece(s) : WithoutPiece(s)[k].conn = d
<1>1. Len(s) \in Nat \ {0} /\ DOMAIN s = 1 .. Len(s) /\ \A k \in 1 .. Len(s) : s[k] \in Tags
  BY EmptySeq, LenProperties
<1>2. CASE Head(s).part = "head"
  <2>1. PICK p \in Tags : p = s[1]
    BY <1>1
  <2>2. PICK r : r = [p EXCEPT !.part = "rest"]
    OBVIOUS
  <2>3. r \in Tags /\ r.conn = p.conn
    BY <2>2 DEF Tags
  <2>4. PICK q : q = [s EXCEPT ![1] = r]
    OBVIOUS
  <2>5. q \in Seq(Tags) /\ Len(q) = Len(s)
    BY <2>3, <2>4, <1>1, ExceptSeq
  <2>6. DOMAIN q = DOMAIN s /\ q[1] = r /\ \A k \in DOMAIN s : k # 1 => q[k] = s[k]
    BY <1>1, <2>4
  <2>7. WithoutPiece(s) = q
    BY <1>2, <2>1, <2>2, <2>4 DEF WithoutPiece
  <2>8. \A d : (\A k \in DOMAIN s : s[k].conn = d) => \A k \in DOMAIN q : q[k].conn = d
    BY <1>1, <2>1, <2>3, <2>6
  <2> QED BY <2>5, <2>7, <2>8
<1>3. CASE Head(s).part # "head"
  <2>1. PICK q : q = Tail(s)
    OBVIOUS
  <2>2. /\ q \in Seq(Tags) /\ Len(q) = Len(s) - 1
        /\ \A i \in 1 .. Len(q) : q[i] = s[i + 1]
    BY <2>1, HeadTailProperties
  <2>3. DOMAIN q = 1 .. Len(q)
    BY <2>2, LenProperties
  <2>4. \A k \in DOMAIN q : q[k] = s[k + 1] /\ k + 1 \in DOMAIN s
    BY <1>1, <2>2, <2>3
  <2>5. WithoutPiece(s) = q
    BY <1>3, <2>1 DEF WithoutPiece
  <2> QED BY <2>2, <2>4, <2>5
<1> QED BY <1>2, <1>3

(* A recv of too few bytes, or a failing one, that the process survives *)
SurvivesWith(t) ==
  /\ Survives(t) /\ sock[t] \in Conn
  /\ stream' \in [Conn -> Seq(Tags)]
  /\ \A c \in Conn : \A k \in DOMAIN stream'[c] : stream'[c][k].conn = c
  /\ closed' \subseteq Conn /\ resets' \subseteq Conn
  /\ \A c \in Conn : c # sock[t] =>
       stream'[c] = stream[c] /\ (c \in resets' <=> c \in resets)

LEMMA SurvivalFacts ==
  ASSUME BaseInv, NEW t \in Thread, ReceiveTooFew(t) \/ ReceiveFails(t)
  PROVE  ProcessEnds("crashed") \/ SurvivesWith(t)
<1>1. pc[t] = "recv"
  BY DEF ReceiveTooFew, ReceiveFails
<1>2. sock[t] \in Conn
  BY <1>1 DEF BaseInv, TypeOK, ThreadInv
<1>3. CASE Survives(t) /\ ReceiveTooFew(t) /\ ~ProcessEnds("crashed")
  <2>1. PICK c \in Conn : c = sock[t]
    BY <1>2
  <2>2. /\ stream[c] # << >> /\ stream' = [stream EXCEPT ![c] = WithoutPiece(@)]
        /\ UNCHANGED <<closed, resets>>
    BY <1>3, <2>1 DEF ReceiveTooFew
  <2>3. /\ stream[c] \in Seq(Tags) /\ stream \in [Conn -> Seq(Tags)]
        /\ \A k \in DOMAIN stream[c] : stream[c][k].conn = c
    BY DEF BaseInv, TypeOK, ThreadInv
  <2>4. stream'[c] = WithoutPiece(stream[c]) /\ stream' = [stream EXCEPT ![c] = stream'[c]]
    BY <2>2, <2>3
  <2>5. stream'[c] \in Seq(Tags) /\ \A k \in DOMAIN stream'[c] : stream'[c][k].conn = c
    <3>1. PICK s \in Seq(Tags) : s = stream[c]
      BY <2>3
    <3>2. PICK q : q = WithoutPiece(s)
      OBVIOUS
    <3>3. q \in Seq(Tags) /\ ((\A k \in DOMAIN s : s[k].conn = c) => \A k \in DOMAIN q : q[k].conn = c)
      BY <2>2, <3>1, <3>2, WithoutPieceTags
    <3>4. stream'[c] = q
      BY <2>4, <3>1, <3>2
    <3> QED BY <2>3, <3>1, <3>3, <3>4
  <2>6. /\ stream' \in [Conn -> Seq(Tags)]
        /\ \A d \in Conn : \A k \in DOMAIN stream'[d] : stream'[d][k].conn = d
        /\ \A d \in Conn : d # c => stream'[d] = stream[d]
    BY <2>4, <2>5, StreamsOfConn
  <2> QED BY <1>3, <2>1, <2>2, <2>6 DEF SurvivesWith, BaseInv, TypeOK
<1>4. CASE Survives(t) /\ ReceiveFails(t) /\ ~ProcessEnds("crashed")
  BY <1>2, <1>4 DEF ReceiveFails, SurvivesWith, BaseInv, TypeOK, ThreadInv
<1> QED BY <1>3, <1>4 DEF ReceiveTooFew, ReceiveFails

LEMMA SurvivalKeepsBase ==
  ASSUME BaseInv, NEW t \in Thread, SurvivesWith(t)
  PROVE  BaseInv'
BY DEF SurvivesWith, Survives, BaseInv, TypeOK, ThreadInv, threadVars

LEMMA WriteKeepsBase ==
  ASSUME BaseInv, NEW t \in Thread, Write(t)
  PROVE  BaseInv'
<1>1. PICK n \in 1 .. Len(todo[t]) : WriteOK(t, n)
  BY WriteFacts
<1>2. /\ out' \in Seq(Tags)
      /\ todo' = [todo EXCEPT ![t] = todo'[t]] /\ todo'[t] \in Seq(Tags)
      /\ \A k \in DOMAIN todo'[t] : todo'[t][k].conn = sock[t]
      /\ pc' = [pc EXCEPT ![t] = IF n = Len(todo[t]) THEN "recv" ELSE "write"]
      /\ pc[t] = "write"
  BY <1>1, ConcatProperties DEF WriteOK, BaseInv, TypeOK
<1>3. n = Len(todo[t]) <=> todo'[t] = << >>
  <2>1. Len(todo'[t]) = Len(todo[t]) - n /\ Len(todo[t]) \in Nat
    BY <1>1, LenProperties DEF WriteOK, BaseInv, TypeOK
  <2>2. todo'[t] = << >> <=> Len(todo'[t]) = 0
    BY <1>2, EmptySeq
  <2> QED BY <2>1, <2>2
<1>4. UNCHANGED <<peerVars, stream, accepted, program, sock, torn>>
  BY DEF Write
<1>5. TypeOK'
  <2>1. todo' \in [Thread -> Seq(Tags)]
    BY <1>2 DEF BaseInv, TypeOK
  <2>2. pc' \in [Thread -> {"none", "start", "recv", "write", "done"}]
    BY <1>2 DEF BaseInv, TypeOK
  <2> QED BY <1>2, <1>4, <2>1, <2>2 DEF BaseInv, TypeOK, peerVars
<1>6. ASSUME NEW u \in Thread
      PROVE  /\ pc'[u] # "none" => u <= Len(accepted)
             /\ pc'[u] \in {"none", "start"} <=> sock[u] = NoConn
             /\ pc'[u] = "write" <=> todo'[u] # << >>
             /\ \A k \in DOMAIN todo'[u] : todo'[u][k].conn = sock[u]
  <2>1. CASE u = t
    <3>1. pc'[u] = IF n = Len(todo[t]) THEN "recv" ELSE "write"
      BY <1>2, <2>1 DEF BaseInv, TypeOK
    <3> QED BY <1>2, <1>3, <2>1, <3>1 DEF BaseInv, ThreadInv
  <2>2. CASE u # t
    <3>1. pc'[u] = pc[u] /\ todo'[u] = todo[u]
      BY <1>2, <2>2 DEF BaseInv, TypeOK
    <3> QED BY <3>1 DEF BaseInv, ThreadInv
  <2> QED BY <2>1, <2>2
<1> QED BY <1>4, <1>5, <1>6 DEF BaseInv, ThreadInv

LEMMA BaseNext == BaseInv /\ [Next]_vars => BaseInv'
<1> SUFFICES ASSUME BaseInv, [Next]_vars
             PROVE  BaseInv'
  OBVIOUS
<1>1. ASSUME NEW c \in Conn, Accept(c) \/ Peer(c)
      PROVE  BaseInv'
  BY <1>1, AcceptKeepsBase, PeerKeepsBase
<1>2. CASE AcceptFails
  BY <1>2, EndKeepsBase DEF AcceptFails
<1>3. ASSUME NEW t \in Thread, RecvFun(t)
      PROVE  BaseInv'
  <2>1. CASE ReceiveTooFew(t) \/ ReceiveFails(t)
    BY <2>1, SurvivalFacts, EndKeepsBase, SurvivalKeepsBase
  <2>2. CASE ReceiveEnd(t)
    <3>1. /\ pc[t] = "recv" /\ pc' = [pc EXCEPT ![t] = "done"]
          /\ UNCHANGED <<peerVars, stream, accepted, program, sock, todo, out, torn>>
      BY <2>2 DEF ReceiveEnd
    <3>2. TypeOK'
      BY <3>1 DEF BaseInv, TypeOK, peerVars
    <3>3. \A u \in Thread : pc'[u] = pc[u] \/ (u = t /\ pc'[u] = "done" /\ pc[u] = "recv")
      BY <3>1 DEF BaseInv, TypeOK
    <3> QED BY <3>1, <3>2, <3>3 DEF BaseInv, ThreadInv
  <2> QED BY <1>3, <2>1, <2>2, DescriptorKeepsBase, ReceiveKeepsBase, WriteKeepsBase DEF RecvFun
<1>4. CASE UNCHANGED vars
  BY <1>4 DEF vars, peerVars, threadVars, BaseInv, TypeOK, ThreadInv
<1> QED BY <1>1, <1>2, <1>3, <1>4 DEF Next, Main

-----------------------------------------------------------------------------
(* A connection of which every recv returned a packet *)

WithThreads(c, b) == TodoWhole(c, b) /\ OnceEach(c, b) /\ InOrder(c, b)

LEMMA WithThreadsKept ==
  ASSUME NEW c \in Conn, NEW b \in Nat, WithThreads(c, b), UNCHANGED <<sock, todo, out>>
  PROVE  WithThreads(c, b)'
<1>1. \A p : InFile(p)' <=> InFile(p)
  BY DEF InFile
<1>2. \A t, p : Holds(t, p)' <=> Holds(t, p)
  BY DEF Holds
<1>3. Readers(c)' = Readers(c) /\ OutOf(c)' = OutOf(c)
  BY DEF Readers, OutOf
<1>4. TodoWhole(c, b)'
  BY DEF WithThreads, TodoWhole, WholeIn
<1>5. OnceEach(c, b)'
  BY <1>1, <1>2 DEF WithThreads, OnceEach
<1>6. InOrder(c, b)'
  BY <1>3 DEF WithThreads, InOrder
<1> QED BY <1>4, <1>5, <1>6 DEF WithThreads

LEMMA PeerKeepsIntact ==
  ASSUME BaseInv, NEW d \in Conn, Peer(d), NEW c \in Conn, NEW b \in Nat, Intact(c, b)
  PROVE  Intact(c, b)'
<1>0. UNCHANGED <<sock, todo, out>>
  BY DEF Peer, PeerSends, PeerCloses, PeerResets, threadVars
<1>1. WithThreads(c, b)'
  BY <1>0, WithThreadsKept DEF Intact, WithThreads
<1>2. b <= sentTo[c] /\ StreamFrom(c, b) /\ sentTo[c] \in Nat
  BY DEF Intact, BaseInv, TypeOK
<1>3. ASSUME sentTo'[c] = sentTo[c], stream'[c] = stream[c], c \in resets' <=> c \in resets
      PROVE  Intact(c, b)'
  BY <1>1, <1>2, <1>3 DEF Intact, WithThreads, StreamFrom
<1>4. CASE PeerCloses(d)
  BY <1>3, <1>4 DEF PeerCloses
<1>5. CASE c # d
  <2>1. CASE PeerSends(d)
    BY <1>3, <1>5, <2>1 DEF PeerSends, BaseInv, TypeOK
  <2>2. CASE PeerResets(d)
    BY <1>3, <1>5, <2>2 DEF PeerResets, BaseInv, TypeOK
  <2> QED BY <1>4, <2>1, <2>2 DEF Peer
<1>6. CASE c = d /\ PeerSends(d)
  <2>1. c \notin resets /\ sentTo'[c] = sentTo[c] + 1 /\ resets' = resets
    BY <1>6 DEF PeerSends, BaseInv, TypeOK
  <2>2. SentFacts(c)
    BY <1>6, SendFacts DEF BaseInv
  <2>3. PICK m \in Nat : m = sentTo[c] - b
    BY <1>2
  <2>4. Len(stream[c]) = 2 * m
    BY <1>2, <2>1, <2>3 DEF StreamFrom
  <2>5. /\ Len(stream'[c]) = 2 * m + 2 /\ DOMAIN stream'[c] = 1 .. 2 * m + 2
        /\ DOMAIN stream[c] = 1 .. 2 * m
        /\ \A k \in 1 .. 2 * m : stream'[c][k] = stream[c][k]
        /\ stream'[c][2 * m + 1] = HeadOf(c, b + m + 1)
        /\ stream'[c][2 * m + 2] = RestOf(c, b + m + 1)
    <3>1. sentTo[c] + 1 = b + m + 1
      BY <1>2, <2>3
    <3>2. Len(stream'[c]) = 2 * m + 2
      BY <2>2, <2>4 DEF SentFacts
    <3>3. stream[c] \in Seq(Tags) /\ stream'[c] \in Seq(Tags)
      BY <2>2 DEF SentFacts, BaseInv, TypeOK
    <3>4. DOMAIN stream[c] = 1 .. 2 * m /\ DOMAIN stream'[c] = 1 .. 2 * m + 2
      BY <2>4, <3>2, <3>3, LenProperties
    <3> QED BY <2>2, <2>4, <3>1, <3>2, <3>4 DEF SentFacts
  <2>6. ASSUME NEW j \in Nat
        PROVE  /\ 2 * j + 1 \in DOMAIN stream'[c] => stream'[c][2 * j + 1] = HeadOf(c, b + j + 1)
               /\ 2 * j + 2 \in DOMAIN stream'[c] => stream'[c][2 * j + 2] = RestOf(c, b + j + 1)
    <3>1. CASE j < m
      <4>1. 2 * j + 1 \in 1 .. 2 * m /\ 2 * j + 2 \in 1 .. 2 * m
        BY <3>1
      <4> QED BY <1>2, <2>5, <4>1 DEF StreamFrom
    <3>2. CASE j = m
      BY <2>5, <3>2
    <3>3. CASE j > m
      <4>1. 2 * j + 1 \notin 1 .. 2 * m + 2 /\ 2 * j + 2 \notin 1 .. 2 * m + 2
        BY <3>3
      <4> QED BY <2>5, <4>1
    <3> QED BY <3>1, <3>2, <3>3
  <2>7. Len(stream'[c]) = 2 * (sentTo'[c] - b)
    <3>1. sentTo'[c] - b = m + 1 /\ 2 * (m + 1) = 2 * m + 2
      BY <1>2, <2>1, <2>3
    <3> QED BY <2>5, <3>1
  <2>8. StreamFrom(c, b)'
    BY <2>5, <2>6, <2>7 DEF StreamFrom
  <2> QED BY <1>1, <1>2, <2>1, <2>8 DEF Intact, WithThreads
<1>7. CASE c = d /\ PeerResets(d)
  <2>1. resets' = resets \cup {c} /\ sentTo' = sentTo
    BY <1>7 DEF PeerResets
  <2>2. stream[c] \in Seq(Tags) /\ stream \in [Conn -> Seq(Tags)] /\ Len(stream[c]) \in Nat
    BY LenProperties DEF BaseInv, TypeOK
  <2>3. PICK n \in 0 .. Len(stream[c]) : stream'[c] = SubSeq(stream[c], 1, n)
    BY <1>7, <2>2 DEF PeerResets
  <2>4. /\ stream'[c] \in Seq(Tags) /\ Len(stream'[c]) = n
        /\ \A i \in 1 .. n : stream'[c][i] = stream[c][i]
    <3>1. n \in Nat /\ n <= Len(stream[c])
      BY <2>2
    <3>2. PICK q : q = SubSeq(stream[c], 1, n)
      OBVIOUS
    <3>3. /\ q \in Seq(Tags)
          /\ Len(q) = IF 1 <= n THEN n - 1 + 1 ELSE 0
          /\ \A i \in 1 .. n - 1 + 1 : q[i] = stream[c][1 + i - 1]
      BY <2>2, <3>1, <3>2, SubSeqTags
    <3>4. n - 1 + 1 = n /\ \A i \in 1 .. n : 1 + i - 1 = i
      BY <3>1
    <3>5. Len(q) = n
      BY <3>1, <3>3
    <3>6. \A i \in 1 .. n : q[i] = stream[c][i]
      BY <3>3, <3>4
    <3> QED BY <2>3, <3>2, <3>3, <3>5, <3>6
  <2>5. DOMAIN stream'[c] = 1 .. n /\ DOMAIN stream[c] = 1 .. Len(stream[c])
    BY <2>2, <2>4, LenProperties
  <2>6. \A i \in 1 .. n : i \in DOMAIN stream[c] /\ stream'[c][i] = stream[c][i]
    BY <2>2, <2>4, <2>5
  <2>7. \A j \in Nat :
          /\ 2 * j + 1 \in DOMAIN stream'[c] => stream'[c][2 * j + 1] = HeadOf(c, b + j + 1)
          /\ 2 * j + 2 \in DOMAIN stream'[c] => stream'[c][2 * j + 2] = RestOf(c, b + j + 1)
    BY <1>2, <2>5, <2>6 DEF StreamFrom
  <2>8. Len(stream'[c]) <= 2 * (sentTo[c] - b)
    <3>1. PICK x \in Nat : x = 2 * (sentTo[c] - b)
      BY <1>2
    <3>2. Len(stream[c]) <= x
      BY <1>2, <3>1 DEF StreamFrom
    <3>3. n <= x
      BY <2>2, <3>1, <3>2
    <3> QED BY <2>4, <3>1, <3>3
  <2>9. StreamFrom(c, b)'
    BY <2>1, <2>7, <2>8 DEF StreamFrom
  <2> QED BY <1>1, <1>2, <2>1, <2>9 DEF Intact, WithThreads
<1> QED BY <1>4, <1>5, <1>6, <1>7 DEF Peer

LEMMA DescriptorKeepsIntact ==
  ASSUME BaseInv, NEW t \in Thread, ReadDescriptor(t), NEW c \in Conn, NEW b \in Nat, Intact(c, b)
  PROVE  Intact(c, b)'
<1>1. /\ new_fd \in Conn /\ sock[t] = NoConn /\ todo[t] = << >>
      /\ sock' = [sock EXCEPT ![t] = new_fd]
      /\ UNCHANGED <<sentTo, resets, stream, todo, out>>
  BY DescriptorFacts DEF ReadDescriptor, peerVars
<1>2. \A p : InFile(p)' <=> InFile(p)
  BY <1>1 DEF InFile
<1>3. \A u, p : Holds(u, p)' <=> Holds(u, p)
  BY <1>1 DEF Holds
<1>4. sock'[t] = new_fd /\ \A u \in Thread : u # t => sock'[u] = sock[u]
  BY <1>1 DEF BaseInv, TypeOK
<1>5. TodoWhole(c, b)'
  <2>1. \A u \in Thread : WholeIn(u, c, b)' <=> WholeIn(u, c, b)
    BY <1>1 DEF WholeIn
  <2>2. WholeIn(t, c, b)
    BY <1>1 DEF WholeIn
  <2> QED BY <1>4, <2>1, <2>2 DEF Intact, TodoWhole
<1>6. OnceEach(c, b)'
  BY <1>1, <1>2, <1>3 DEF Intact, OnceEach
<1>7. InOrder(c, b)'
  <2>1. OutOf(c)' = OutOf(c)
    BY <1>1 DEF OutOf
  <2>2. t \notin Readers(c)
    BY <1>1, ConnAssumption DEF Readers
  <2>3. Readers(c)' = IF new_fd = c THEN Readers(c) \cup {t} ELSE Readers(c)
    BY <1>1, <1>4, <2>2 DEF Readers
  <2>4. ASSUME NEW u \in Thread, Readers(c)' = {u}
        PROVE  OutOf(c) \o todo[u] = AllWrittenFor(c)[b]
    <3>1. CASE new_fd = c
      <4>1. u = t /\ Readers(c) = {}
        BY <2>2, <2>3, <2>4, <3>1
      <4>2. OutOf(c) = << >> /\ b = 0
        BY <4>1 DEF Intact, InOrder
      <4>3. << >> \o << >> = << >>
        BY EmptySeq, ConcatEmptySeq
      <4>4. AllWrittenFor(c)[0] = << >>
        BY AllWrittenGoesOn
      <4> QED BY <1>1, <4>1, <4>2, <4>3, <4>4
    <3>2. CASE new_fd # c
      BY <2>3, <2>4, <3>2 DEF Intact, InOrder
    <3> QED BY <3>1, <3>2
  <2>5. Readers(c)' = {} => OutOf(c) = << >> /\ b = 0
    BY <2>3 DEF Intact, InOrder
  <2> QED BY <1>1, <2>1, <2>4, <2>5 DEF InOrder
<1> QED BY <1>1, <1>5, <1>6, <1>7 DEF Intact, StreamFrom

(* A step of a thread that reads another connection *)
LEMMA OtherThreadKeeps ==
  ASSUME BaseInv, NEW t \in Thread, NEW c \in Conn, NEW b \in Nat, WithThreads(c, b),
         sock[t] # c, sock' = sock,
         \A u \in Thread : u # t => todo'[u] = todo[u],
         \A k \in DOMAIN todo'[t] : todo'[t][k].conn # c,
         OutOf(c)' = OutOf(c),
         \A k \in DOMAIN out : k \in DOMAIN out' /\ out'[k] = out[k],
         \A k \in DOMAIN out' : out'[k].conn = c => k \in DOMAIN out
  PROVE  WithThreads(c, b)'
<1>1. \A i \in Nat : RestOf(c, i).conn = c
  BY DEF RestOf
<1>2. ASSUME NEW u \in Thread, NEW i \in Nat
      PROVE  Holds(u, RestOf(c, i))' <=> Holds(u, RestOf(c, i))
  <2>1. CASE u = t
    <3>1. ~Holds(t, RestOf(c, i))
      BY <1>1 DEF Holds, BaseInv, ThreadInv
    <3>2. ~Holds(t, RestOf(c, i))'
      BY <1>1 DEF Holds
    <3> QED BY <2>1, <3>1, <3>2
  <2>2. CASE u # t
    BY <2>2 DEF Holds
  <2> QED BY <2>1, <2>2
<1>3. ASSUME NEW i \in Nat
      PROVE  /\ InFile(RestOf(c, i))' <=> InFile(RestOf(c, i))
             /\ \A k \in DOMAIN out' : out'[k] = RestOf(c, i) => k \in DOMAIN out /\ out[k] = RestOf(c, i)
  <2>1. \A k \in DOMAIN out' : out'[k] = RestOf(c, i) => k \in DOMAIN out /\ out[k] = RestOf(c, i)
    BY <1>1
  <2> QED BY <2>1 DEF InFile
<1>4. OnceEach(c, b)'
  BY <1>2, <1>3 DEF WithThreads, OnceEach
<1>5. TodoWhole(c, b)'
  <2>1. \A u \in Thread : u # t => (WholeIn(u, c, b)' <=> WholeIn(u, c, b))
    BY DEF WholeIn
  <2> QED BY <2>1 DEF WithThreads, TodoWhole
<1>6. InOrder(c, b)'
  <2>1. Readers(c)' = Readers(c) /\ t \notin Readers(c)
    BY DEF Readers
  <2> QED BY <2>1 DEF WithThreads, InOrder
<1> QED BY <1>4, <1>5, <1>6 DEF WithThreads

(* What the decoder makes of a packet that recv has returned whole *)
LEMMA DecodePacket ==
  ASSUME NEW c \in Conn, NEW i \in Nat, NEW parts \in Seq(Tags), Len(parts) = 2,
         parts[1] = HeadOf(c, i), parts[2] = RestOf(c, i)
  PROVE  /\ UnitsSeen(parts[1]) = {Unit(c, i)}
         /\ Decode(parts, Unit(c, i)) = WrittenFor(c, i)
<1>1. HeadOf(c, i).part = "head" /\ HeadOf(c, i).conn = c /\ HeadOf(c, i).pkt = i
  BY DEF HeadOf
<1>2. RestOf(c, i).part = "rest"
  BY DEF RestOf
<1>3. UnitsSeen(parts[1]) = {Unit(c, i)}
  BY <1>1 DEF UnitsSeen
<1>4. Prefix(Unit(c, i), parts[1]) = IF Unit(c, i) \in {"single", "start"} THEN <<PrefixOf(c, i)>> ELSE << >>
  BY DEF Prefix, PrefixOf, HeadOf
<1>5. Payload(parts) = <<HeadOf(c, i), RestOf(c, i)>>
  <2>1. DOMAIN parts = 1 .. 2
    BY LenProperties
  <2>2. \A k \in 1 .. 2 : (IF k = 1 /\ parts[k].part = "rest" THEN [parts[k] EXCEPT !.part = "cut"]
                           ELSE IF k > 1 /\ parts[k].part = "head" THEN [parts[k] EXCEPT !.part = "raw"]
                           ELSE parts[k]) = parts[k]
    BY <1>1, <1>2
  <2>3. Payload(parts) = [k \in 1 .. 2 |-> parts[k]]
    BY <2>1, <2>2, Zenon DEF Payload
  <2>4. [k \in 1 .. 2 |-> parts[k]] = parts
    BY <2>1
  <2>5. PICK q \in Seq(Tags) : q = <<HeadOf(c, i), RestOf(c, i)>> /\ Len(q) = 2
                               /\ q[1] = HeadOf(c, i) /\ q[2] = RestOf(c, i)
    BY TagsOf
  <2>6. \A k \in 1 .. 2 : parts[k] = q[k]
    BY <2>5
  <2>7. parts = q
    BY <2>5, <2>6, SeqEqual
  <2> QED BY <2>3, <2>4, <2>5, <2>7
<1> QED BY <1>3, <1>4, <1>5 DEF Decode, WrittenFor, PrefixOf

LEMMA RestIsWritten ==
  ASSUME NEW c \in Conn, NEW i \in Nat, NEW j \in Nat,
         NEW s, s = <<HeadOf(c, i), RestOf(c, i)>> \/ s = <<PrefixOf(c, i), HeadOf(c, i), RestOf(c, i)>>
  PROVE  (\E k \in DOMAIN s : s[k] = RestOf(c, j)) <=> j = i
<1>1. /\ HeadOf(c, i) # RestOf(c, j) /\ PrefixOf(c, i) # RestOf(c, j)
      /\ RestOf(c, i) = RestOf(c, j) <=> i = j
  BY DEF HeadOf, RestOf, PrefixOf
<1>2. CASE s = <<HeadOf(c, i), RestOf(c, i)>>
  <2>1. DOMAIN s = 1 .. 2 /\ s[1] = HeadOf(c, i) /\ s[2] = RestOf(c, i)
    BY <1>2
  <2> QED BY <1>1, <2>1
<1>3. CASE s = <<PrefixOf(c, i), HeadOf(c, i), RestOf(c, i)>>
  <2>1. DOMAIN s = 1 .. 3 /\ s[1] = PrefixOf(c, i) /\ s[2] = HeadOf(c, i) /\ s[3] = RestOf(c, i)
    BY <1>3
  <2> QED BY <1>1, <2>1
<1> QED BY <1>2, <1>3

LEMMA OtherReceiveKeepsIntact ==
  ASSUME BaseInv, NEW t \in Thread, Receive(t), NEW c \in Conn, NEW b \in Nat, Intact(c, b),
         sock[t] # c
  PROVE  Intact(c, b)'
<1>1. PICK n \in 1 .. Len(stream[sock[t]]) : ReceiveOK(t, n)
  BY ReceiveFacts
<1>2. UNCHANGED <<sentTo, resets, sock, out>>
  BY DEF Receive, peerVars
<1>3. \A u \in Thread : u # t => todo'[u] = todo[u]
  BY <1>1 DEF ReceiveOK, BaseInv, TypeOK
<1>4. \A k \in DOMAIN todo'[t] : todo'[t][k].conn # c
  BY <1>1 DEF ReceiveOK
<1>5. OutOf(c)' = OutOf(c)
  BY <1>2 DEF OutOf
<1>6. WithThreads(c, b)'
  BY <1>2, <1>3, <1>4, <1>5, OtherThreadKeeps DEF Intact, WithThreads
<1>7. stream'[c] = stream[c]
  BY <1>1 DEF ReceiveOK, BaseInv, TypeOK
<1>8. StreamFrom(c, b)'
  BY <1>2, <1>7 DEF Intact, StreamFrom
<1> QED BY <1>2, <1>6, <1>8 DEF Intact, WithThreads

(* The packet goes from the stream to the thread *)
LEMMA ReceiveTakesPacket ==
  ASSUME BaseInv, NEW t \in Thread, Receive(t), NEW b \in Nat,
         sock[t] \in Conn, StreamFrom(sock[t], b), b <= sentTo[sock[t]], sock[t] \notin torn'
  PROVE  LET c == sock[t]
         IN /\ todo[t] = << >> /\ todo' = [todo EXCEPT ![t] = WrittenFor(c, b + 1)]
            /\ b + 1 <= sentTo[c]
            /\ StreamFrom(c, b + 1)'
<1> DEFINE c == sock[t]
<1>1. PICK n \in 1 .. Len(stream[c]) : ReceiveOK(t, n)
  BY ReceiveFacts
<1>2. UNCHANGED <<sentTo, resets, sock, out>>
  BY DEF Receive, peerVars
<1>3. PICK parts : parts = SubSeq(stream[c], 1, n)
  OBVIOUS
<1>4. /\ c \in Conn /\ todo[t] = << >>
      /\ parts \in Seq(Tags) /\ Len(parts) = n
      /\ \A k \in 1 .. n : parts[k] = stream[c][k]
      /\ \E unit \in UnitsSeen(parts[1]) : todo' = [todo EXCEPT ![t] = Decode(parts, unit)]
      /\ torn' = IF WholePacket(parts) THEN torn ELSE torn \cup {c}
      /\ stream'[c] \in Seq(Tags) /\ Len(stream'[c]) = Len(stream[c]) - n
      /\ \A k \in 1 .. Len(stream[c]) - n : stream'[c][k] = stream[c][n + k]
  BY <1>1, <1>3 DEF ReceiveOK
<1>5. c \in Conn /\ c \notin torn' /\ StreamFrom(c, b) /\ b <= sentTo[c] /\ sentTo[c] \in Nat
  BY DEF BaseInv, TypeOK
<1>6. stream[c] \in Seq(Tags) /\ Len(stream[c]) \in Nat /\ DOMAIN stream[c] = 1 .. Len(stream[c])
  BY <1>5, LenProperties DEF BaseInv, TypeOK
<1> HIDE DEF c
<1>7. n = 2 /\ parts[1].part = "head"
  BY <1>4, <1>5 DEF WholePacket
<1>8. PICK l \in Nat : l = Len(stream[c]) /\ l >= 2
  BY <1>6, <1>7
<1>9. \A j \in Nat :
        /\ 2 * j + 1 \in 1 .. l => stream[c][2 * j + 1] = HeadOf(c, b + j + 1)
        /\ 2 * j + 2 \in 1 .. l => stream[c][2 * j + 2] = RestOf(c, b + j + 1)
  BY <1>5, <1>6, <1>8 DEF StreamFrom
<1>10. parts[1] = HeadOf(c, b + 1) /\ parts[2] = RestOf(c, b + 1)
  <2>1. 2 * 0 + 1 = 1 /\ 2 * 0 + 2 = 2 /\ b + 0 + 1 = b + 1 /\ 1 \in 1 .. l /\ 2 \in 1 .. l
    BY <1>8
  <2>2. stream[c][1] = HeadOf(c, b + 1) /\ stream[c][2] = RestOf(c, b + 1)
    BY <1>9, <2>1
  <2> QED BY <1>4, <1>7, <2>2
<1>11. todo' = [todo EXCEPT ![t] = WrittenFor(c, b + 1)]
  <2>1. /\ UnitsSeen(parts[1]) = {Unit(c, b + 1)}
        /\ Decode(parts, Unit(c, b + 1)) = WrittenFor(c, b + 1)
    <3>1. PICK i \in Nat : i = b + 1
      OBVIOUS
    <3>2. parts[1] = HeadOf(c, i) /\ parts[2] = RestOf(c, i) /\ Len(parts) = 2
      BY <1>4, <1>7, <1>10, <3>1
    <3>3. UnitsSeen(parts[1]) = {Unit(c, i)} /\ Decode(parts, Unit(c, i)) = WrittenFor(c, i)
      BY <1>4, <1>5, <3>2, DecodePacket
    <3> QED BY <3>1, <3>3
  <2> QED BY <1>4, <2>1
<1>12. /\ l <= 2 * (sentTo[c] - b)
       /\ c \notin resets => l = 2 * (sentTo[c] - b)
  BY <1>5, <1>8 DEF StreamFrom
<1>13. b + 1 <= sentTo[c] /\ sentTo[c] - (b + 1) = sentTo[c] - b - 1
       /\ 2 * (sentTo[c] - b - 1) = 2 * (sentTo[c] - b) - 2
  <2>1. PICK m \in Nat : m = sentTo[c] - b
    BY <1>5
  <2>2. l <= 2 * m
    BY <1>12, <2>1
  <2>3. m >= 1
    BY <1>8, <2>2
  <2> QED BY <1>5, <2>1, <2>3
<1>14. Len(stream'[c]) = l - 2 /\ DOMAIN stream'[c] = 1 .. l - 2
  <2>1. Len(stream'[c]) = l - 2 /\ stream'[c] \in Seq(Tags)
    BY <1>4, <1>7, <1>8
  <2> QED BY <2>1, LenProperties
<1>15. \A k \in 1 .. l - 2 : stream'[c][k] = stream[c][k + 2]
  <2>1. \A k \in 1 .. l - 2 : 2 + k = k + 2
    OBVIOUS
  <2> QED BY <1>4, <1>7, <1>8, <2>1
<1>16. ASSUME NEW j \in Nat
       PROVE  /\ 2 * j + 1 \in 1 .. l - 2 => stream'[c][2 * j + 1] = HeadOf(c, b + 1 + j + 1)
              /\ 2 * j + 2 \in 1 .. l - 2 => stream'[c][2 * j + 2] = RestOf(c, b + 1 + j + 1)
  <2>1. PICK i \in Nat : i = j + 1
    OBVIOUS
  <2>2. 2 * i + 1 = 2 * j + 1 + 2 /\ 2 * i + 2 = 2 * j + 2 + 2 /\ b + i + 1 = b + 1 + j + 1
    BY <2>1
  <2>3. /\ 2 * j + 1 \in 1 .. l - 2 => 2 * j + 1 + 2 \in 1 .. l
        /\ 2 * j + 2 \in 1 .. l - 2 => 2 * j + 2 + 2 \in 1 .. l
    OBVIOUS
  <2>4. /\ 2 * i + 1 \in 1 .. l => stream[c][2 * i + 1] = HeadOf(c, b + i + 1)
        /\ 2 * i + 2 \in 1 .. l => stream[c][2 * i + 2] = RestOf(c, b + i + 1)
    BY <1>9
  <2> QED BY <1>15, <2>2, <2>3, <2>4
<1>17. StreamFrom(c, b + 1)'
  <2>1. c' = c
    BY <1>2 DEF c
  <2>2. /\ Len(stream'[c]) <= 2 * (sentTo[c] - (b + 1))
        /\ c \notin resets => Len(stream'[c]) = 2 * (sentTo[c] - (b + 1))
    BY <1>5, <1>12, <1>13, <1>14
  <2> QED BY <1>2, <1>14, <1>16, <2>1, <2>2 DEF StreamFrom
<1> QED BY <1>4, <1>11, <1>13, <1>17 DEF c

LEMMA OwnReceiveKeepsIntact ==
  ASSUME BaseInv, NEW t \in Thread, Receive(t), NEW b \in Nat,
         sock[t] \in Conn, Intact(sock[t], b), sock[t] \notin torn'
  PROVE  Intact(sock[t], b + 1)'
<1>1. PICK c \in Conn : c = sock[t]
  OBVIOUS
<1>2. UNCHANGED <<sentTo, resets, sock, out>>
  BY DEF Receive, peerVars
<1>3. /\ b <= sentTo[c] /\ StreamFrom(c, b) /\ TodoWhole(c, b) /\ OnceEach(c, b) /\ InOrder(c, b)
  BY <1>1 DEF Intact
<1>4. /\ todo[t] = << >> /\ todo' = [todo EXCEPT ![t] = WrittenFor(c, b + 1)]
      /\ b + 1 <= sentTo[c]
      /\ StreamFrom(c, b + 1)'
  <2>1. c' = c /\ sock'[t] = sock[t]
    BY <1>2
  <2> QED BY <1>1, <1>3, <2>1, ReceiveTakesPacket
<1>5. PICK n \in Nat : n = b + 1
  OBVIOUS
<1>6. PICK w : w = WrittenFor(c, n)
  OBVIOUS
<1>7. todo'[t] = w /\ \A u \in Thread : u # t => todo'[u] = todo[u]
  BY <1>4, <1>5, <1>6 DEF BaseInv, TypeOK
<1>8. w = <<HeadOf(c, n), RestOf(c, n)>> \/ w = <<PrefixOf(c, n), HeadOf(c, n), RestOf(c, n)>>
  BY <1>6, WrittenIsTwoOrThree
<1>9. TodoWhole(c, n)'
  <2>1. n \in 1 .. n /\ \A i \in 1 .. b : i \in 1 .. n
    BY <1>5
  <2>2. ASSUME NEW u \in Thread, sock[u] = c
        PROVE  WholeIn(u, c, n)'
    <3>1. CASE u = t
      BY <1>7, <1>8, <2>1, <3>1 DEF WholeIn
    <3>2. CASE u # t
      <4>1. WholeIn(u, c, b)
        BY <1>3, <2>2 DEF TodoWhole
      <4> QED BY <1>7, <2>1, <3>2, <4>1 DEF WholeIn
    <3> QED BY <3>1, <3>2
  <2> QED BY <1>2, <2>2 DEF TodoWhole
<1>10. OnceEach(c, n)'
  <2>1. \A i \in Nat : Holds(t, RestOf(c, i))' <=> i = n
    BY <1>7, <1>8, RestIsWritten DEF Holds
  <2>2. \A i \in Nat : ~Holds(t, RestOf(c, i))
    BY <1>4 DEF Holds
  <2>3. \A u \in Thread : u # t => \A p : Holds(u, p)' <=> Holds(u, p)
    BY <1>7 DEF Holds
  <2>4. \A p : InFile(p)' <=> InFile(p)
    BY <1>2 DEF InFile
  <2>5. \A i \in Nat : i \in 1 .. n <=> i \in 1 .. b \/ i = n
    BY <1>5
  <2>6. n \notin 1 .. b
    BY <1>5
  <2>7. ASSUME NEW i \in Nat
        PROVE  /\ InFile(RestOf(c, i)) \/ (\E u \in Thread : Holds(u, RestOf(c, i))) <=> i \in 1 .. b
               /\ \A u \in Thread : Holds(u, RestOf(c, i)) =>
                    /\ ~InFile(RestOf(c, i))
                    /\ \A v \in Thread : Holds(v, RestOf(c, i)) => v = u
               /\ \A k, l \in DOMAIN out : out[k] = RestOf(c, i) /\ out[l] = RestOf(c, i) => k = l
    BY <1>3 DEF OnceEach
  <2>8. ASSUME NEW i \in Nat
        PROVE  /\ InFile(RestOf(c, i))' \/ (\E u \in Thread : Holds(u, RestOf(c, i))') <=> i \in 1 .. n
               /\ \A u \in Thread : Holds(u, RestOf(c, i))' =>
                    /\ ~InFile(RestOf(c, i))'
                    /\ \A v \in Thread : Holds(v, RestOf(c, i))' => v = u
    <3>1. CASE i = n
      <4>1. ~InFile(RestOf(c, i)) /\ \A u \in Thread : ~Holds(u, RestOf(c, i))
        BY <2>6, <2>7, <3>1
      <4> QED BY <2>1, <2>3, <2>4, <2>5, <3>1, <4>1
    <3>2. CASE i # n
      <4>1. \A u \in Thread : Holds(u, RestOf(c, i))' <=> Holds(u, RestOf(c, i))
        BY <2>1, <2>2, <2>3, <3>2
      <4> QED BY <2>4, <2>5, <2>7, <3>2, <4>1
    <3> QED BY <3>1, <3>2
  <2> QED BY <1>2, <2>7, <2>8 DEF OnceEach
<1>11. InOrder(c, n)'
  <2>1. Readers(c)' = Readers(c) /\ t \in Readers(c) /\ OutOf(c)' = OutOf(c)
    BY <1>1, <1>2 DEF Readers, OutOf
  <2>2. ASSUME NEW u \in Thread, Readers(c) = {u}
        PROVE  OutOf(c) \o todo'[u] = AllWrittenFor(c)[n]
    <3>1. u = t
      BY <2>1, <2>2
    <3>2. OutOf(c) \o todo[t] = AllWrittenFor(c)[b]
      BY <1>3, <2>2, <3>1 DEF InOrder
    <3>3. OutOf(c) \o << >> = OutOf(c)
      BY PartsOfType, ConcatEmptySeq DEF OutOf, BaseInv, TypeOK
    <3>4. AllWrittenFor(c)[b + 1] = AllWrittenFor(c)[b] \o WrittenFor(c, b + 1)
      BY AllWrittenGoesOn
    <3> QED BY <1>4, <1>5, <1>6, <1>7, <3>1, <3>2, <3>3, <3>4
  <2> QED BY <2>1, <2>2 DEF InOrder
<1>12. Intact(c, n)'
  BY <1>2, <1>4, <1>5, <1>9, <1>10, <1>11 DEF Intact
<1> QED BY <1>1, <1>2, <1>5, <1>12

LEMMA OtherWriteKeepsIntact ==
  ASSUME BaseInv, NEW t \in Thread, Write(t), NEW c \in Conn, NEW b \in Nat, Intact(c, b),
         sock[t] # c
  PROVE  Intact(c, b)'
<1>1. PICK n \in 1 .. Len(todo[t]) : WriteOK(t, n)
  BY WriteFacts
<1>2. UNCHANGED <<sentTo, resets, stream, sock>>
  BY DEF Write, peerVars
<1>3. PICK now \in Seq(Tags) : now = SubSeq(todo[t], 1, n) /\ out' = out \o now
                               /\ \A k \in 1 .. Len(now) : now[k].conn # c
  BY <1>1 DEF WriteOK
<1>4. \A u \in Thread : u # t => todo'[u] = todo[u]
  BY <1>1 DEF WriteOK, BaseInv, TypeOK
<1>5. \A k \in DOMAIN todo'[t] : todo'[t][k].conn # c
  BY <1>1 DEF WriteOK
<1>6. out \in Seq(Tags)
  BY DEF BaseInv, TypeOK
<1>7. OutOf(c)' = OutOf(c)
  BY <1>3, <1>6, PartsOfConcat DEF OutOf
<1>8. PICK m \in Nat : m = Len(out)
  BY <1>6, LenProperties
<1>9. PICK l \in Nat : l = Len(now)
  BY LenProperties
<1>10. /\ DOMAIN out = 1 .. m /\ DOMAIN out' = 1 .. m + l
       /\ \A k \in 1 .. m + l : out'[k] = IF k <= m THEN out[k] ELSE now[k - m]
  <2>1. out' \in Seq(Tags) /\ Len(out') = m + l
        /\ \A k \in 1 .. m + l : out'[k] = IF k <= m THEN out[k] ELSE now[k - m]
    BY <1>3, <1>6, <1>8, <1>9, ConcatProperties
  <2> QED BY <1>6, <1>8, <2>1, LenProperties
<1>11. \A k \in DOMAIN out : k \in DOMAIN out' /\ out'[k] = out[k]
  BY <1>10
<1>12. ASSUME NEW k \in DOMAIN out', out'[k].conn = c
       PROVE  k \in DOMAIN out
  <2>1. CASE k <= m
    BY <1>10, <2>1
  <2>2. CASE ~(k <= m)
    <3>1. k - m \in 1 .. Len(now) /\ out'[k] = now[k - m]
      BY <1>9, <1>10, <2>2
    <3> QED BY <1>3, <1>12, <3>1
  <2> QED BY <2>1, <2>2
<1>13. WithThreads(c, b)'
  BY <1>2, <1>4, <1>5, <1>7, <1>11, <1>12, OtherThreadKeeps DEF Intact, WithThreads
<1> QED BY <1>2, <1>13 DEF Intact, WithThreads, StreamFrom

(* What it writes, and what is left *)
WrittenNow(t, c, i, now) ==
  LET m == Len(out)
  IN /\ now \in Seq(Tags) /\ \A k \in 1 .. Len(now) : now[k].conn = c
     /\ todo'[t] \in Seq(Tags) /\ now \o todo'[t] = todo[t]
     /\ out' = out \o now
     /\ DOMAIN out = 1 .. m
     /\ \A k \in 1 .. m : out'[k] = out[k]
     /\ \/ /\ todo[t] = <<PrefixOf(c, i), HeadOf(c, i), RestOf(c, i)>>
           /\ todo'[t] = <<HeadOf(c, i), RestOf(c, i)>>
           /\ DOMAIN out' = 1 .. m + 1 /\ out'[m + 1] = PrefixOf(c, i)
        \/ /\ todo[t] = <<HeadOf(c, i), RestOf(c, i)>>
           /\ todo'[t] = << >>
           /\ DOMAIN out' = 1 .. m + 2 /\ out'[m + 1] = HeadOf(c, i) /\ out'[m + 2] = RestOf(c, i)

LEMMA OwnWriteFacts ==
  ASSUME BaseInv, NEW t \in Thread, Write(t), NEW b \in Nat,
         sock[t] \in Conn, TodoWhole(sock[t], b)
  PROVE  /\ todo' = [todo EXCEPT ![t] = todo'[t]]
         /\ \E i \in 1 .. b : \E now : WrittenNow(t, sock[t], i, now)
<1>1. PICK c \in Conn : c = sock[t]
  OBVIOUS
<1>2. PICK n \in 1 .. Len(todo[t]) : WriteOK(t, n)
  BY WriteFacts
<1>3. PICK now : now = SubSeq(todo[t], 1, n)
  OBVIOUS
<1>4. /\ n = IF todo[t][1].part = "prefix" THEN 1 ELSE Len(todo[t])
      /\ now \in Seq(Tags) /\ Len(now) = n
      /\ \A k \in 1 .. n : now[k] = todo[t][k] /\ now[k].conn = c
      /\ out' = out \o now
      /\ todo' = [todo EXCEPT ![t] = todo'[t]]
      /\ todo'[t] = SubSeq(todo[t], n + 1, Len(todo[t]))
      /\ todo'[t] \in Seq(Tags) /\ Len(todo'[t]) = Len(todo[t]) - n
  BY <1>1, <1>2, <1>3 DEF WriteOK
<1>5. todo[t] \in Seq(Tags) /\ todo[t] # << >> /\ Len(todo[t]) \in Nat /\ Len(todo[t]) >= 1
  <2>1. todo[t] \in Seq(Tags) /\ todo[t] # << >>
    BY DEF BaseInv, TypeOK, ThreadInv, Write
  <2> QED BY <2>1, LenProperties, EmptySeq
<1>6. PICK i \in 1 .. b : \/ todo[t] = <<HeadOf(c, i), RestOf(c, i)>>
                          \/ todo[t] = <<PrefixOf(c, i), HeadOf(c, i), RestOf(c, i)>>
  BY <1>1, <1>5 DEF TodoWhole, WholeIn
<1>7. now \o todo'[t] = todo[t]
  <2>1. PICK l \in Nat : l = Len(todo[t]) /\ l >= 1 /\ n \in 1 .. l
    BY <1>5
  <2>2. SubSeq(todo[t], 1, n) \o SubSeq(todo[t], n + 1, l) = SubSeq(todo[t], 1, l)
    <3>1. 1 \in 1 .. Len(todo[t]) + 1 /\ n \in 1 - 1 .. Len(todo[t]) /\ l \in n .. Len(todo[t])
      BY <2>1
    <3> QED BY <1>5, <3>1, ConcatAdjacentSubSeq
  <2>3. SubSeq(todo[t], 1, l) = todo[t]
    BY <1>5, <2>1, SubSeqFull
  <2> QED BY <1>3, <1>4, <2>1, <2>2, <2>3
<1>8. PICK m \in Nat : m = Len(out)
  BY LenProperties DEF BaseInv, TypeOK
<1>9. out \in Seq(Tags) /\ DOMAIN out = 1 .. m
  BY <1>8, LenProperties DEF BaseInv, TypeOK
<1>10. /\ DOMAIN out' = 1 .. m + n
       /\ \A k \in 1 .. m + n : out'[k] = IF k <= m THEN out[k] ELSE now[k - m]
  <2>1. now \in Seq(Tags) /\ Len(now) = n /\ out' = out \o now
    BY <1>4
  <2>2. out' \in Seq(Tags) /\ Len(out') = m + n
        /\ \A k \in 1 .. m + n : out'[k] = IF k <= m THEN out[k] ELSE now[k - m]
    BY <1>8, <1>9, <2>1, ConcatProperties
  <2> QED BY <2>2, LenProperties
<1>11. n \in Nat /\ \A k \in 1 .. m : out'[k] = out[k]
  BY <1>4, <1>5, <1>10
<1>12. /\ HeadOf(c, i).part = "head" /\ PrefixOf(c, i).part = "prefix"
       /\ HeadOf(c, i) \in Tags /\ RestOf(c, i) \in Tags /\ PrefixOf(c, i) \in Tags
  BY TagsOf DEF HeadOf, PrefixOf
<1>13. CASE todo[t] = <<HeadOf(c, i), RestOf(c, i)>>
  <2>1. todo[t][1] = HeadOf(c, i) /\ todo[t][2] = RestOf(c, i) /\ Len(todo[t]) = 2
    BY <1>13
  <2>2. n = 2
    BY <1>4, <1>12, <2>1
  <2>3. todo'[t] = << >>
    BY <1>4, <2>1, <2>2, EmptySeq
  <2>4. now[1] = HeadOf(c, i) /\ now[2] = RestOf(c, i)
    BY <1>4, <2>1, <2>2
  <2>5. out'[m + 1] = now[1] /\ out'[m + 2] = now[2] /\ DOMAIN out' = 1 .. m + 2
    BY <1>10, <2>2
  <2>6. WrittenNow(t, c, i, now)
    BY <1>4, <1>7, <1>8, <1>9, <1>11, <1>13, <2>3, <2>4, <2>5 DEF WrittenNow
  <2> QED BY <1>1, <1>4, <2>6
<1>14. CASE todo[t] = <<PrefixOf(c, i), HeadOf(c, i), RestOf(c, i)>>
  <2>1. /\ todo[t][1] = PrefixOf(c, i) /\ todo[t][2] = HeadOf(c, i) /\ todo[t][3] = RestOf(c, i)
        /\ Len(todo[t]) = 3
    BY <1>14
  <2>2. n = 1
    BY <1>4, <1>12, <2>1
  <2>3. todo'[t] = <<HeadOf(c, i), RestOf(c, i)>>
    <3>1. PICK q \in Seq(Tags) : q = <<HeadOf(c, i), RestOf(c, i)>> /\ Len(q) = 2
                                 /\ q[1] = HeadOf(c, i) /\ q[2] = RestOf(c, i)
      <4>1. PICK h \in Tags, r \in Tags : h = HeadOf(c, i) /\ r = RestOf(c, i)
        BY <1>12
      <4>2. <<h, r>> \in Seq(Tags) /\ Len(<<h, r>>) = 2 /\ <<h, r>>[1] = h /\ <<h, r>>[2] = r
        OBVIOUS
      <4> QED BY <4>1, <4>2
    <3>2. PICK s : s = SubSeq(todo[t], 2, 3)
      OBVIOUS
    <3>3. /\ s \in Seq(Tags) /\ Len(s) = IF 2 <= 3 THEN 3 - 2 + 1 ELSE 0
          /\ \A k \in 1 .. 3 - 2 + 1 : s[k] = todo[t][2 + k - 1]
      BY <1>5, <2>1, <3>2, SubSeqTags
    <3>4. Len(s) = 2 /\ s[1] = todo[t][2] /\ s[2] = todo[t][3]
      BY <3>3
    <3>5. \A k \in 1 .. 2 : s[k] = q[k]
      BY <2>1, <3>1, <3>4
    <3>6. s = q
      BY <3>1, <3>3, <3>4, <3>5, SeqEqual
    <3>7. todo'[t] = SubSeq(todo[t], 2, 3)
      <4>1. n + 1 = 2 /\ Len(todo[t]) = 3 /\ todo'[t] = SubSeq(todo[t], n + 1, Len(todo[t]))
        BY <1>4, <2>1, <2>2
      <4> QED BY <4>1
    <3> QED BY <3>1, <3>2, <3>6, <3>7
  <2>4. out'[m + 1] = PrefixOf(c, i) /\ DOMAIN out' = 1 .. m + 1
    <3>1. now[1] = PrefixOf(c, i)
      BY <1>4, <2>1, <2>2
    <3> QED BY <1>10, <2>2, <3>1
  <2>5. WrittenNow(t, c, i, now)
    BY <1>4, <1>7, <1>8, <1>9, <1>11, <1>14, <2>3, <2>4 DEF WrittenNow
  <2> QED BY <1>1, <1>4, <2>5
<1> QED BY <1>6, <1>13, <1>14

LEMMA OwnWriteKeepsIntact ==
  ASSUME BaseInv, NEW t \in Thread, Write(t), NEW b \in Nat,
         sock[t] \in Conn, Intact(sock[t], b)
  PROVE  Intact(sock[t], b)'
<1>1. PICK c \in Conn : c = sock[t]
  OBVIOUS
<1>2. UNCHANGED <<sentTo, resets, stream, sock>>
  BY DEF Write, peerVars
<1>3. TodoWhole(c, b) /\ OnceEach(c, b) /\ InOrder(c, b)
  BY <1>1 DEF Intact
<1>4. PICK i \in 1 .. b : \E now : WrittenNow(t, c, i, now)
  BY <1>1, <1>3, OwnWriteFacts
<1>5. PICK now : WrittenNow(t, c, i, now)
  BY <1>4
<1>6. \A u \in Thread : u # t => todo'[u] = todo[u]
  BY <1>1, <1>3, OwnWriteFacts DEF BaseInv, TypeOK
<1>7. PICK m \in Nat : m = Len(out)
  BY LenProperties DEF BaseInv, TypeOK
<1>8. /\ DOMAIN out = 1 .. m /\ \A k \in 1 .. m : out'[k] = out[k]
      /\ \/ /\ todo[t] = <<PrefixOf(c, i), HeadOf(c, i), RestOf(c, i)>>
            /\ todo'[t] = <<HeadOf(c, i), RestOf(c, i)>>
            /\ DOMAIN out' = 1 .. m + 1 /\ out'[m + 1] = PrefixOf(c, i)
         \/ /\ todo[t] = <<HeadOf(c, i), RestOf(c, i)>>
            /\ todo'[t] = << >>
            /\ DOMAIN out' = 1 .. m + 2 /\ out'[m + 1] = HeadOf(c, i) /\ out'[m + 2] = RestOf(c, i)
  BY <1>5, <1>7 DEF WrittenNow
<1>9. i \in Nat /\ i \in 1 .. b
  OBVIOUS
<1>10. /\ \A j \in Nat : HeadOf(c, i) # RestOf(c, j) /\ PrefixOf(c, i) # RestOf(c, j)
       /\ \A j \in Nat : RestOf(c, i) = RestOf(c, j) <=> i = j
  BY DEF HeadOf, RestOf, PrefixOf
<1>11. TodoWhole(c, b)'
  <2>1. WholeIn(t, c, b)'
    BY <1>8 DEF WholeIn
  <2>2. \A u \in Thread : u # t => (WholeIn(u, c, b)' <=> WholeIn(u, c, b))
    BY <1>6 DEF WholeIn
  <2> QED BY <1>2, <1>3, <2>1, <2>2 DEF TodoWhole
<1>12. OnceEach(c, b)'
  <2>1. \A u \in Thread : u # t => \A p : Holds(u, p)' <=> Holds(u, p)
    BY <1>6 DEF Holds
  <2>2. ASSUME NEW j \in Nat
        PROVE  /\ InFile(RestOf(c, j)) \/ (\E u \in Thread : Holds(u, RestOf(c, j))) <=> j \in 1 .. b
               /\ \A u \in Thread : Holds(u, RestOf(c, j)) =>
                    /\ ~InFile(RestOf(c, j))
                    /\ \A v \in Thread : Holds(v, RestOf(c, j)) => v = u
               /\ \A k, l \in DOMAIN out : out[k] = RestOf(c, j) /\ out[l] = RestOf(c, j) => k = l
    BY <1>3 DEF OnceEach
  <2>3. \A j \in Nat : Holds(t, RestOf(c, j)) <=> j = i
    <3>1. \/ todo[t] = <<HeadOf(c, i), RestOf(c, i)>>
          \/ todo[t] = <<PrefixOf(c, i), HeadOf(c, i), RestOf(c, i)>>
      BY <1>8
    <3>2. PICK q : q = todo[t]
      OBVIOUS
    <3>3. \A j \in Nat : (\E k \in DOMAIN q : q[k] = RestOf(c, j)) <=> j = i
      <4>1. q = <<HeadOf(c, i), RestOf(c, i)>> \/ q = <<PrefixOf(c, i), HeadOf(c, i), RestOf(c, i)>>
        BY <3>1, <3>2
      <4> QED BY <1>9, <4>1, RestIsWritten
    <3> QED BY <3>2, <3>3 DEF Holds
  <2>4. CASE todo'[t] = <<HeadOf(c, i), RestOf(c, i)>>
    <3>1. DOMAIN out' = 1 .. m + 1 /\ out'[m + 1] = PrefixOf(c, i)
      <4>1. <<HeadOf(c, i), RestOf(c, i)>> # << >>
        OBVIOUS
      <4> QED BY <1>8, <2>4, <4>1
    <3>2. \A j \in Nat : Holds(t, RestOf(c, j))' <=> j = i
      BY <2>4, RestIsWritten DEF Holds
    <3>3. \A j \in Nat, u \in Thread : Holds(u, RestOf(c, j))' <=> Holds(u, RestOf(c, j))
      BY <2>1, <2>3, <3>2
    <3>4. ASSUME NEW j \in Nat, NEW k \in DOMAIN out', out'[k] = RestOf(c, j)
          PROVE  k \in DOMAIN out /\ out[k] = RestOf(c, j)
      <4>1. k # m + 1
        BY <1>10, <3>1, <3>4
      <4>2. k \in 1 .. m
        BY <3>1, <4>1
      <4> QED BY <1>8, <3>4, <4>2
    <3>5. \A j \in Nat : InFile(RestOf(c, j))' <=> InFile(RestOf(c, j))
      <4>1. \A k \in DOMAIN out : k \in DOMAIN out' /\ out'[k] = out[k]
        BY <1>8, <3>1
      <4> QED BY <3>4, <4>1 DEF InFile
    <3> QED BY <2>2, <3>3, <3>4, <3>5 DEF OnceEach
  <2>5. CASE todo'[t] = << >>
    <3>1. DOMAIN out' = 1 .. m + 2 /\ out'[m + 1] = HeadOf(c, i) /\ out'[m + 2] = RestOf(c, i)
      <4>1. <<HeadOf(c, i), RestOf(c, i)>> # << >>
        OBVIOUS
      <4> QED BY <1>8, <2>5, <4>1
    <3>2. \A p : ~Holds(t, p)'
      BY <2>5 DEF Holds
    <3>3. ~InFile(RestOf(c, i)) /\ \A u \in Thread : u # t => ~Holds(u, RestOf(c, i))
      BY <1>9, <2>2, <2>3
    <3>4. ASSUME NEW j \in Nat, NEW k \in DOMAIN out', out'[k] = RestOf(c, j)
          PROVE  (k \in DOMAIN out /\ out[k] = RestOf(c, j) /\ j # i) \/ (k = m + 2 /\ j = i)
      <4>1. k # m + 1
        BY <1>10, <3>1, <3>4
      <4>2. CASE k = m + 2
        BY <1>9, <1>10, <3>1, <3>4, <4>2
      <4>3. CASE k # m + 2
        <5>1. k \in DOMAIN out /\ out[k] = RestOf(c, j)
          BY <1>8, <3>1, <3>4, <4>1, <4>3
        <5> QED BY <3>3, <5>1 DEF InFile
      <4> QED BY <4>2, <4>3
    <3>5. \A k \in DOMAIN out : k \in DOMAIN out' /\ out'[k] = out[k]
      BY <1>8, <3>1
    <3>6. \A j \in Nat : InFile(RestOf(c, j))' <=> InFile(RestOf(c, j)) \/ j = i
      <4>1. m + 2 \in DOMAIN out'
        BY <3>1
      <4>2. ASSUME NEW j \in Nat, InFile(RestOf(c, j)) \/ j = i
            PROVE  InFile(RestOf(c, j))'
        BY <3>1, <3>5, <4>1, <4>2 DEF InFile
      <4>3. ASSUME NEW j \in Nat, InFile(RestOf(c, j))'
            PROVE  InFile(RestOf(c, j)) \/ j = i
        BY <3>4, <4>3 DEF InFile
      <4> QED BY <4>2, <4>3
    <3>7. ASSUME NEW j \in Nat
          PROVE  /\ InFile(RestOf(c, j))' \/ (\E u \in Thread : Holds(u, RestOf(c, j))') <=> j \in 1 .. b
                 /\ \A u \in Thread : Holds(u, RestOf(c, j))' =>
                      /\ ~InFile(RestOf(c, j))'
                      /\ \A v \in Thread : Holds(v, RestOf(c, j))' => v = u
      <4>1. CASE j = i
        BY <1>9, <2>1, <3>2, <3>3, <3>6, <4>1
      <4>2. CASE j # i
        <5>1. \A u \in Thread : Holds(u, RestOf(c, j))' <=> Holds(u, RestOf(c, j))
          BY <2>1, <2>3, <3>2, <4>2
        <5> QED BY <2>2, <3>6, <4>2, <5>1
      <4> QED BY <4>1, <4>2
    <3>8. \A j \in Nat : \A k, l \in DOMAIN out' :
            out'[k] = RestOf(c, j) /\ out'[l] = RestOf(c, j) => k = l
      BY <2>2, <3>4
    <3> QED BY <3>7, <3>8 DEF OnceEach
  <2> QED BY <1>8, <2>4, <2>5
<1>13. InOrder(c, b)'
  <2>1. Readers(c)' = Readers(c) /\ t \in Readers(c)
    BY <1>1, <1>2 DEF Readers
  <2>2. /\ now \in Seq(Tags) /\ todo'[t] \in Seq(Tags) /\ now \o todo'[t] = todo[t]
        /\ \A k \in 1 .. Len(now) : now[k].conn = c
        /\ out' = out \o now
    BY <1>5 DEF WrittenNow
  <2>3. out \in Seq(Tags)
    BY DEF BaseInv, TypeOK
  <2>4. OutOf(c)' = OutOf(c) \o now /\ OutOf(c) \in Seq(Tags)
    <3>1. PartsOf(c, out \o now) = PartsOf(c, out) \o now /\ PartsOf(c, out) \in Seq(Tags)
      BY <2>2, <2>3, PartsOfConcat, PartsOfType
    <3>2. OutOf(c)' = PartsOf(c, out \o now)
      BY <2>2 DEF OutOf
    <3>3. OutOf(c) = PartsOf(c, out)
      BY DEF OutOf
    <3> QED BY <3>1, <3>2, <3>3
  <2>5. (OutOf(c) \o now) \o todo'[t] = OutOf(c) \o (now \o todo'[t])
    <3>1. PICK e \in Seq(Tags), r \in Seq(Tags) : e = OutOf(c) /\ r = todo'[t]
      BY <2>2, <2>4
    <3>2. (e \o now) \o r = e \o (now \o r)
      BY <2>2, Regrouped
    <3> QED BY <3>1, <3>2
  <2>6. OutOf(c)' \o todo'[t] = OutOf(c) \o todo[t]
    BY <2>2, <2>4, <2>5
  <2>7. \A u \in Thread : Readers(c) = {u} => u = t
    BY <2>1
  <2> QED BY <1>3, <2>1, <2>6, <2>7 DEF InOrder
<1> QED BY <1>1, <1>2, <1>11, <1>12, <1>13 DEF Intact, StreamFrom

LEMMA InvInit == Init => RtpTcpInv
<1> SUFFICES ASSUME Init
             PROVE  RtpTcpInv
  OBVIOUS
<1>1. BaseInv
  BY BaseInit
<1>2. ASSUME NEW c \in Conn
      PROVE  Intact(c, 0)
  <2>1. sentTo[c] = 0 /\ stream[c] = << >> /\ out = << >>
    BY DEF Init
  <2>2. \A t \in Thread : todo[t] = << >> /\ sock[t] = NoConn
    BY DEF Init
  <2>3. DOMAIN << >> = {} /\ Len(<< >>) = 0
    BY EmptySeq
  <2>4. StreamFrom(c, 0)
    BY <2>1, <2>3 DEF StreamFrom
  <2>5. TodoWhole(c, 0)
    BY <2>2 DEF TodoWhole, WholeIn
  <2>6. OnceEach(c, 0)
    <3>1. \A p : ~InFile(p) /\ \A t \in Thread : ~Holds(t, p)
      BY <2>1, <2>2, <2>3 DEF InFile, Holds
    <3>2. \A i \in Nat : i \notin 1 .. 0
      OBVIOUS
    <3> QED BY <2>1, <2>3, <3>1, <3>2 DEF OnceEach
  <2>7. InOrder(c, 0)
    <3>1. Readers(c) = {}
      BY <2>2, ConnAssumption DEF Readers
    <3>2. OutOf(c) = << >>
      BY <2>1, PartsOfNothing DEF OutOf
    <3> QED BY <3>1, <3>2 DEF InOrder
  <2> QED BY <2>1, <2>4, <2>5, <2>6, <2>7 DEF Intact
<1>3. Running
  BY DEF Init, Running
<1> QED BY <1>1, <1>2, <1>3 DEF BaseInv, RtpTcpInv

(* While the process runs a connection stays intact as long as it is not torn *)
LEMMA IntactNext ==
  ASSUME BaseInv, [Next]_vars, Running', NEW c \in Conn, c \notin torn', NEW b \in Nat, Intact(c, b)
  PROVE  \E n \in Nat : Intact(c, n)'
<1>1. ASSUME NEW d \in Conn, Peer(d)
      PROVE  Intact(c, b)'
  BY <1>1, PeerKeepsIntact
<1>2. ASSUME UNCHANGED <<sentTo, resets, stream, sock, todo, out>>
      PROVE  Intact(c, b)'
  <2>1. WithThreads(c, b)'
    BY <1>2, WithThreadsKept DEF Intact, WithThreads
  <2> QED BY <1>2, <2>1 DEF Intact, WithThreads, StreamFrom
<1>3. ASSUME NEW d \in Conn, Accept(d)
      PROVE  Intact(c, b)'
  BY <1>2, <1>3 DEF Accept, peerVars
<1>4. CASE AcceptFails
  BY <1>4 DEF AcceptFails, ProcessEnds, Running
<1>5. ASSUME NEW t \in Thread, RecvFun(t)
      PROVE  \E n \in Nat : Intact(c, n)'
  <2>1. CASE ReadDescriptor(t)
    BY <2>1, DescriptorKeepsIntact
  <2>2. CASE Receive(t)
    <3>1. CASE sock[t] = c
      <4>1. Intact(c, b + 1)'
        <5>1. sock'[t] = sock[t]
          BY <2>2 DEF Receive
        <5>2. Intact(sock[t], b + 1)'
          BY <2>2, <3>1, OwnReceiveKeepsIntact
        <5> QED BY <3>1, <5>1, <5>2
      <4> QED BY <4>1
    <3>2. CASE sock[t] # c
      BY <2>2, <3>2, OtherReceiveKeepsIntact
    <3> QED BY <3>1, <3>2
  <2>3. CASE ReceiveTooFew(t) \/ ReceiveFails(t)
    <3>1. CASE ProcessEnds("crashed")
      BY <3>1 DEF ProcessEnds, Running
    <3>2. CASE SurvivesWith(t)
      <4>1. c # sock[t] /\ UNCHANGED <<sentTo, sock, todo, out>>
        BY <3>2 DEF SurvivesWith, Survives, threadVars
      <4>2. stream'[c] = stream[c] /\ (c \in resets' <=> c \in resets)
        BY <3>2, <4>1 DEF SurvivesWith
      <4>3. WithThreads(c, b)'
        BY <4>1, WithThreadsKept DEF Intact, WithThreads
      <4>4. StreamFrom(c, b)'
        BY <4>1, <4>2 DEF Intact, StreamFrom
      <4> QED BY <4>1, <4>3, <4>4 DEF Intact, WithThreads
    <3> QED BY <2>3, <3>1, <3>2, SurvivalFacts
  <2>4. CASE ReceiveEnd(t)
    BY <1>2, <2>4 DEF ReceiveEnd, peerVars
  <2>5. CASE Write(t)
    <3>1. CASE sock[t] = c
      <4>1. sock'[t] = sock[t]
        BY <2>5 DEF Write
      <4>2. Intact(sock[t], b)'
        BY <2>5, <3>1, OwnWriteKeepsIntact
      <4> QED BY <3>1, <4>1, <4>2
    <3>2. CASE sock[t] # c
      BY <2>5, <3>2, OtherWriteKeepsIntact
    <3> QED BY <3>1, <3>2
  <2> QED BY <1>5, <2>1, <2>2, <2>3, <2>4, <2>5 DEF RecvFun
<1>6. CASE UNCHANGED vars
  BY <1>2, <1>6 DEF vars, peerVars, threadVars
<1> QED BY <1>1, <1>3, <1>4, <1>5, <1>6 DEF Next, Main

LEMMA InvNext == RtpTcpInv /\ [Next]_vars => RtpTcpInv'
<1> SUFFICES ASSUME RtpTcpInv, [Next]_vars
             PROVE  RtpTcpInv'
  OBVIOUS
<1>1. BaseInv /\ BaseInv'
  BY BaseNext DEF RtpTcpInv, BaseInv
<1>2. torn \subseteq torn'
  <2>1. ASSUME NEW t \in Thread, RecvFun(t)
        PROVE  torn \subseteq torn'
    BY <2>1 DEF RecvFun, ReadDescriptor, Receive, ReceiveTooFew, ReceiveFails,
       Survives, ReceiveEnd, Write, ProcessEnds
  <2>2. ASSUME NEW d \in Conn, Accept(d) \/ Peer(d)
        PROVE  torn \subseteq torn'
    BY <2>2 DEF Accept, Peer, PeerSends, PeerCloses, PeerResets
  <2>3. CASE AcceptFails
    BY <2>3 DEF AcceptFails, ProcessEnds
  <2>4. CASE UNCHANGED vars
    BY <2>4 DEF vars
  <2> QED BY <2>1, <2>2, <2>3, <2>4 DEF Next, Main
<1>3. Running' => Running
  <2>1. Next => Running
    BY DEF Next, Main, Accept, AcceptFails, Peer, PeerSends, PeerCloses, PeerResets, RecvFun,
           ReadDescriptor, Receive, ReceiveTooFew, ReceiveFails, Survives, ReceiveEnd, Write
  <2>2. UNCHANGED vars => (Running' <=> Running)
    BY DEF vars, Running
  <2> QED BY <2>1, <2>2
<1>4. ASSUME ~Running', NEW t \in Thread
      PROVE  sock'[t] = NoConn
  <2>1. CASE UNCHANGED vars
    BY <1>4, <2>1 DEF vars, threadVars, Running, RtpTcpInv
  <2>2. CASE \E how : ProcessEnds(how)
    BY <2>2 DEF ProcessEnds
  <2>3. CASE Running /\ UNCHANGED program
    BY <1>4, <2>3 DEF Running
  <2>4. Next => (\E how : ProcessEnds(how)) \/ (Running /\ UNCHANGED program)
    BY DEF Next, Main, Accept, AcceptFails, Peer, PeerSends, PeerCloses, PeerResets, RecvFun,
           ReadDescriptor, Receive, ReceiveTooFew, ReceiveFails, Survives, ReceiveEnd, Write
  <2> QED BY <2>1, <2>2, <2>3, <2>4
<1>5. ASSUME Running', NEW c \in Conn \ torn'
      PROVE  \E b \in Nat : Intact(c, b)'
  <2>1. PICK b \in Nat : Intact(c, b)
    BY <1>2, <1>3, <1>5 DEF RtpTcpInv
  <2> QED BY <1>1, <1>5, <2>1, IntactNext
<1> QED BY <1>1, <1>4, <1>5 DEF RtpTcpInv, BaseInv

-----------------------------------------------------------------------------
(* What follows from the invariant *)

LEMMA OccursOnce ==
  ASSUME NEW S, NEW q \in Seq(S), NEW p
  PROVE  /\ Occurrences(q, p) \in Nat
         /\ Occurrences(q, p) > 0 <=> \E k \in DOMAIN q : q[k] = p
         /\ (\A k, l \in DOMAIN q : q[k] = p /\ q[l] = p => k = l) => Occurrences(q, p) <= 1
<1> DEFINE At == {i \in DOMAIN q : q[i] = p}
<1>1. IsFiniteSet(DOMAIN q)
  <2>1. DOMAIN q = 1 .. Len(q) /\ Len(q) \in Nat
    BY LenProperties
  <2> QED BY <2>1, FS_Interval
<1>2. At \in SUBSET DOMAIN q
  OBVIOUS
<1>3. IsFiniteSet(At)
  BY <1>1, <1>2, FS_Subset
<1>4. Cardinality(At) \in Nat /\ (Cardinality(At) = 0 <=> At = {})
  BY <1>3, FS_CardinalityType, FS_EmptySet
<1>5. ASSUME \A k, l \in DOMAIN q : q[k] = p /\ q[l] = p => k = l
      PROVE  Cardinality(At) <= 1
  <2>1. CASE At = {}
    BY <1>4, <2>1
  <2>2. CASE At # {}
    <3>1. PICK k : k \in At
      BY <2>2
    <3>2. At = {k}
      BY <1>5, <3>1
    <3>3. Cardinality({k}) = 1
      BY FS_Singleton
    <3> QED BY <3>2, <3>3
  <2> QED BY <2>1, <2>2
<1>6. Occurrences(q, p) = Cardinality(At)
  BY DEF Occurrences
<1>7. At # {} <=> \E k \in DOMAIN q : q[k] = p
  OBVIOUS
<1> HIDE DEF At
<1> QED BY <1>4, <1>5, <1>6, <1>7

LEMMA StreamHasOne ==
  ASSUME BaseInv, NEW c \in Conn, NEW b \in Nat, StreamFrom(c, b), NEW i \in Nat, i >= 1
  PROVE  \A k \in DOMAIN stream[c] :
           stream[c][k] = RestOf(c, i) <=> i > b /\ k = 2 * (i - b)
<1> SUFFICES ASSUME NEW k \in DOMAIN stream[c]
             PROVE  stream[c][k] = RestOf(c, i) <=> i > b /\ k = 2 * (i - b)
  OBVIOUS
<1>1. k \in Nat /\ k >= 1
  BY LenProperties DEF BaseInv, TypeOK
<1>2. PICK j \in Nat : k = 2 * j + 1 \/ k = 2 * j + 2
  <2>1. PICK j \in Nat : j = (k - 1) \div 2
    BY <1>1
  <2>2. k = 2 * j + 1 \/ k = 2 * j + 2
    BY <1>1, <2>1
  <2> QED BY <2>2
<1>3. CASE k = 2 * j + 1
  <2>1. stream[c][k] = HeadOf(c, b + j + 1)
    BY <1>3 DEF StreamFrom
  <2>2. HeadOf(c, b + j + 1) # RestOf(c, i)
    BY DEF HeadOf, RestOf
  <2>3. k # 2 * (i - b)
    BY <1>3
  <2> QED BY <2>1, <2>2, <2>3
<1>4. CASE k = 2 * j + 2
  <2>1. stream[c][k] = RestOf(c, b + j + 1)
    BY <1>4 DEF StreamFrom
  <2>2. RestOf(c, b + j + 1) = RestOf(c, i) <=> b + j + 1 = i
    BY DEF RestOf
  <2>3. b + j + 1 = i <=> i > b /\ k = 2 * (i - b)
    BY <1>4
  <2> QED BY <2>1, <2>2, <2>3
<1> QED BY <1>2, <1>3, <1>4

LEMMA IntactIsOnce ==
  ASSUME BaseInv, NEW c \in Conn, NEW b \in Nat, Intact(c, b), NEW i \in 1 .. sentTo[c]
  PROVE  LET p == RestOf(c, i)
             withThreads == {t \in Thread : Occurrences(todo[t], p) > 0}
             found == Occurrences(stream[c], p) + Occurrences(out, p) + Cardinality(withThreads)
         IN found <= 1 /\ (c \notin resets => found = 1)
<1> DEFINE p == RestOf(c, i)
           W == {t \in Thread : Occurrences(todo[t], p) > 0}
           x == Occurrences(stream[c], p)
           y == Occurrences(out, p)
           z == Cardinality(W)
<1>1. /\ sentTo[c] \in Nat /\ i \in Nat /\ i >= 1 /\ i <= sentTo[c]
      /\ stream[c] \in Seq(Tags) /\ out \in Seq(Tags) /\ \A t \in Thread : todo[t] \in Seq(Tags)
  BY DEF BaseInv, TypeOK
<1>2. /\ InFile(p) \/ (\E t \in Thread : Holds(t, p)) <=> i \in 1 .. b
      /\ \A t \in Thread : Holds(t, p) => ~InFile(p) /\ \A u \in Thread : Holds(u, p) => u = t
      /\ \A k, l \in DOMAIN out : out[k] = p /\ out[l] = p => k = l
  BY <1>1 DEF Intact, OnceEach
<1>3. \A k \in DOMAIN stream[c] : stream[c][k] = p <=> i > b /\ k = 2 * (i - b)
  BY <1>1, StreamHasOne DEF Intact
<1> HIDE DEF p
<1>4. W = {t \in Thread : Holds(t, p)}
  <2>1. ASSUME NEW t \in Thread
        PROVE  Occurrences(todo[t], p) > 0 <=> Holds(t, p)
    <3>1. PICK q \in Seq(Tags) : q = todo[t]
      BY <1>1
    <3>2. Occurrences(q, p) > 0 <=> \E k \in DOMAIN q : q[k] = p
      BY OccursOnce
    <3> QED BY <3>1, <3>2 DEF Holds
  <2> QED BY <2>1
<1>5. y \in Nat /\ y <= 1 /\ (y > 0 <=> InFile(p))
  <2>1. /\ Occurrences(out, p) \in Nat
        /\ Occurrences(out, p) > 0 <=> \E k \in DOMAIN out : out[k] = p
        /\ (\A k, l \in DOMAIN out : out[k] = p /\ out[l] = p => k = l) => Occurrences(out, p) <= 1
    BY <1>1, OccursOnce
  <2> QED BY <1>2, <2>1 DEF InFile
<1>6. x \in Nat /\ x <= 1 /\ (x > 0 <=> \E k \in DOMAIN stream[c] : stream[c][k] = p)
  <2>1. PICK q \in Seq(Tags) : q = stream[c]
    BY <1>1
  <2>2. /\ Occurrences(q, p) \in Nat
        /\ Occurrences(q, p) > 0 <=> \E k \in DOMAIN q : q[k] = p
        /\ (\A k, l \in DOMAIN q : q[k] = p /\ q[l] = p => k = l) => Occurrences(q, p) <= 1
    BY OccursOnce
  <2> QED BY <1>3, <2>1, <2>2
<1>7. z \in {0, 1} /\ (z = 1 <=> \E t \in Thread : Holds(t, p))
  <2>1. CASE W = {}
    BY <1>4, <2>1, FS_EmptySet
  <2>2. CASE W # {}
    <3>1. PICK t \in Thread : t \in W /\ Holds(t, p)
      BY <1>4, <2>2
    <3>2. W = {t}
      BY <1>2, <1>4, <3>1
    <3>3. Cardinality(W) = 1
      BY <3>2, FS_Singleton
    <3> QED BY <3>1, <3>3
  <2> QED BY <2>1, <2>2
<1>8. x > 0 => i > b
  BY <1>3, <1>6
<1>9. i > b /\ c \notin resets => x > 0
  <2> SUFFICES ASSUME i > b, c \notin resets
               PROVE  x > 0
    OBVIOUS
  <2>1. PICK m \in Nat : m = sentTo[c] - b
    BY <1>1
  <2>2. Len(stream[c]) = 2 * m
    BY <2>1 DEF Intact, StreamFrom
  <2>3. DOMAIN stream[c] = 1 .. 2 * m
    BY <1>1, <2>2, LenProperties
  <2>4. 2 * (i - b) \in 1 .. 2 * m
    BY <1>1, <2>1
  <2> QED BY <1>3, <1>6, <2>3, <2>4
<1> HIDE DEF x, y, z
<1>10. x + y + z <= 1 /\ (c \notin resets => x + y + z = 1)
  <2>1. i > b <=> i \notin 1 .. b
    BY <1>1
  <2>2. CASE i > b
    <3>1. y = 0 /\ z = 0
      BY <1>2, <1>5, <1>7, <2>1, <2>2
    <3> QED BY <1>6, <1>9, <2>2, <3>1
  <2>3. CASE ~(i > b)
    <3>1. x = 0
      BY <1>6, <1>8, <2>3
    <3>2. (y = 1 /\ z = 0) \/ (y = 0 /\ z = 1)
      <4>1. InFile(p) \/ \E t \in Thread : Holds(t, p)
        BY <1>2, <2>1, <2>3
      <4>2. ~(InFile(p) /\ \E t \in Thread : Holds(t, p))
        BY <1>2
      <4>3. CASE InFile(p)
        <5>1. y = 1
          BY <1>5, <4>3
        <5>2. z = 0
          BY <1>7, <4>2, <4>3
        <5> QED BY <5>1, <5>2
      <4>4. CASE ~InFile(p)
        <5>1. y = 0
          BY <1>5, <4>4
        <5>2. z = 1
          BY <1>7, <4>1, <4>4
        <5> QED BY <5>1, <5>2
      <4> QED BY <4>3, <4>4
    <3> QED BY <3>1, <3>2
  <2> QED BY <2>2, <2>3
<1> QED BY <1>10 DEF x, y, z, p

LEMMA InvIsOnce == RtpTcpInv => EachPacketOnce
<1> SUFFICES ASSUME RtpTcpInv, Running, NEW c \in Conn \ torn, NEW i \in 1 .. sentTo[c]
             PROVE  LET p == RestOf(c, i)
                        withThreads == {t \in Thread : Occurrences(todo[t], p) > 0}
                        found == Occurrences(stream[c], p) + Occurrences(out, p) + Cardinality(withThreads)
                    IN found <= 1 /\ (c \notin resets => found = 1)
  BY DEF EachPacketOnce
<1>1. PICK b \in Nat : Intact(c, b)
  BY DEF RtpTcpInv
<1> QED BY <1>1, IntactIsOnce DEF RtpTcpInv, BaseInv

LEMMA InvIsInOrder == RtpTcpInv => SoleReaderInOrder
<1> SUFFICES ASSUME RtpTcpInv, NEW c \in Conn \ torn, NEW t \in Thread, Readers(c) = {t}
             PROVE  \E n \in 0 .. sentTo[c] :
                      /\ OutOf(c) \o todo[t] = AllWrittenFor(c)[n]
                      /\ c \notin resets => Len(stream[c]) = 2 * (sentTo[c] - n)
  BY DEF SoleReaderInOrder
<1>1. Running
  <2>1. sock[t] = c
    BY DEF Readers
  <2> QED BY <2>1, ConnAssumption DEF RtpTcpInv
<1>2. PICK b \in Nat : Intact(c, b)
  BY <1>1 DEF RtpTcpInv
<1>3. b \in 0 .. sentTo[c]
  BY <1>2 DEF Intact, RtpTcpInv, TypeOK
<1> QED BY <1>2, <1>3 DEF Intact, InOrder, StreamFrom

LEMMA InvAlways == Spec => []RtpTcpInv
<1> QED BY InvInit, InvNext, PTL DEF Spec

(* The program counters, descriptors, streams and the file keep their types. *)
THEOREM TypeCorrect == Spec => []TypeOK
<1>1. RtpTcpInv => TypeOK
  BY DEF RtpTcpInv
<1> QED BY <1>1, InvAlways, PTL

(* Whichever descriptors the threads got (test_tcp_recv_nal.c:226), a packet of *)
(* a connection on which every recv returned one whole packet is in one place   *)
(* only: on its way, with one thread, or in the file; and nowhere only if the   *)
(* connection was reset.                                                        *)
THEOREM PacketsWrittenOnce == Spec => []EachPacketOnce
<1> QED BY InvIsOnce, InvAlways, PTL

(* If one thread only reads such a connection, what it has written of it and    *)
(* what it still has to write are what the decoder makes of the first packets,  *)
(* in order (test_tcp_recv_nal.c:159), and the others are on their way.         *)
THEOREM SoleReaderWritesAll == Spec => []SoleReaderInOrder
<1> QED BY InvIsInOrder, InvAlways, PTL
=============================================================================
