---------------------------- MODULE StreamProofs ----------------------------
(***************************************************************************)
(* What the guest streams to its clients: the console ring, for every      *)
(* capacity and every stream of output, and the container events, for any  *)
(* number of containers and connections, with the port table they feed.    *)
(***************************************************************************)
EXTENDS ConsoleRelay, PortForwarding, Induction, SequenceTheorems, TLAPS

(* Positions wrap once at most: all sums in the ring are below twice the   *)
(* capacity.                                                               *)
Wrap(k) == IF k < Capacity THEN k ELSE k - Capacity

LEMMA WrapOnce ==
  ASSUME NEW h \in 0..(Capacity - 1), NEW k \in 0..Capacity
  PROVE  (h + k) % Capacity = Wrap(h + k)
  BY CapacityAssumption DEF Wrap

(* What a push does to head and length, and the old index j of byte i.     *)
Moves(h, n, h2, n2, i, j) ==
    /\ n < Capacity => h2 = h /\ n2 = n + 1 /\ j = i
    /\ n = Capacity => h2 = Wrap(h + 1) /\ n2 = n /\ j = i + 1

(* Where byte i of the ring (h2, n2) after a push lies in the ring (h, n)  *)
(* before it: the last one at the old tail, any other where it was.        *)
Lands(h, n, h2, n2, i, j) ==
    /\ i = n2 - 1 \/ i < n2 - 1
    /\ i = n2 - 1 => Wrap(h2 + i) = Wrap(h + n)
    /\ i < n2 - 1 => /\ j \in 0..(n - 1)
                     /\ Wrap(h2 + i) = Wrap(h + j)
                     /\ Wrap(h + j) \in 0..(Capacity - 1)
                     /\ Wrap(h + j) # Wrap(h + n)

LEMMA Positions ==
  ASSUME NEW h \in 0..(Capacity - 1), NEW n \in 0..Capacity,
         NEW h2 \in 0..(Capacity - 1), NEW n2 \in 0..Capacity,
         NEW i \in 0..(n2 - 1), NEW j,
         Moves(h, n, h2, n2, i, j)
  PROVE  Lands(h, n, h2, n2, i, j)
<1>1. CASE n < Capacity  BY <1>1, CapacityAssumption DEF Wrap, Moves, Lands
<1>2. CASE n = Capacity
  <2>1. j \in Nat /\ j = i + 1 /\ h2 = Wrap(h + 1)  BY <1>2 DEF Moves
  <2>. QED  BY <1>2, <2>1, CapacityAssumption DEF Wrap, Moves, Lands
<1>. QED  BY <1>1, <1>2, CapacityAssumption

(* Rings of bytes of any kind.                                             *)
RingOf(B) == [buf : [Slots -> B], head : Slots, len : 0..Capacity]

LEMMA RingOfBytes == Ring = RingOf(Bytes)
  BY DEF Ring, RingOf

(* One byte pushed: the ring keeps its shape ...                           *)
LEMMA PushKeepsShape ==
  ASSUME NEW B, NEW r \in RingOf(B), NEW b \in B
  PROVE  Push(r, b) \in RingOf(B)
<1>1. /\ r.buf \in [Slots -> B] /\ r.head \in 0..(Capacity - 1)
      /\ r.len \in 0..Capacity
  BY DEF RingOf, Slots
<1>2. (r.head + 1) % Capacity \in Slots
  BY <1>1, CapacityAssumption DEF Slots
<1>3. [r.buf EXCEPT ![(r.head + r.len) % Capacity] = b] \in [Slots -> B]
  BY <1>1
<1>. QED  BY <1>1, <1>2, <1>3, CapacityAssumption DEF Push, RingOf, Slots

(* ... and the bytes it stands for grow by that byte.                      *)
LEMMA PushKeepsTail ==
  ASSUME NEW B, NEW r \in RingOf(B), NEW s \in Seq(B), NEW b \in B, Holds(r, s)
  PROVE  Push(r, b) \in RingOf(B) /\ Holds(Push(r, b), Append(s, b))
<1> DEFINE q == Push(r, b)
<1> DEFINE t == Append(s, b)
<1> DEFINE tail == (r.head + r.len) % Capacity
<1> HIDE DEF q, t, tail
<1>1. /\ r.buf \in [Slots -> B] /\ r.head \in 0..(Capacity - 1)
      /\ r.len \in 0..Capacity
  BY DEF RingOf, Slots
<1>2. tail = Wrap(r.head + r.len)  BY <1>1, WrapOnce DEF tail
<1>3. tail \in Slots  BY <1>1, <1>2, CapacityAssumption DEF Slots, Wrap
<1>4. (r.head + 1) % Capacity = Wrap(r.head + 1)
  <2>1. 1 \in 0..Capacity  BY CapacityAssumption
  <2>. QED  BY <2>1, <1>1, WrapOnce
<1>5. /\ q.buf = [r.buf EXCEPT ![tail] = b]
      /\ q.len = IF r.len < Capacity THEN r.len + 1 ELSE r.len
      /\ q.head = IF r.len < Capacity THEN r.head ELSE (r.head + 1) % Capacity
  BY DEF Push, q, tail
<1>6. Wrap(r.head + 1) \in 0..(Capacity - 1)
  BY <1>1, CapacityAssumption DEF Wrap
<1>7. q.buf \in [Slots -> B] /\ q.head \in 0..(Capacity - 1) /\ q.len \in 0..Capacity
  BY <1>1, <1>3, <1>4, <1>5, <1>6, CapacityAssumption
<1>8. q \in RingOf(B)  BY <1>7 DEF Push, RingOf, Slots, q
<1>9. /\ Len(s) \in Nat /\ Len(t) = Len(s) + 1
      /\ t[Len(s) + 1] = b
      /\ \A j \in 1..Len(s) : t[j] = s[j]
  BY DEF t
<1>10. r.len = IF Len(s) < Capacity THEN Len(s) ELSE Capacity  BY DEF Holds
<1>11. q.len = IF Len(t) < Capacity THEN Len(t) ELSE Capacity
  BY <1>1, <1>5, <1>9, <1>10, CapacityAssumption
<1>12. ASSUME NEW i \in 0..(q.len - 1)
       PROVE  q.buf[(q.head + i) % Capacity] = t[Len(t) - q.len + 1 + i]
  <2> DEFINE j == IF r.len < Capacity THEN i ELSE i + 1
  <2>1. /\ r.len < Capacity => q.head = r.head /\ q.len = r.len + 1 /\ j = i
        /\ r.len = Capacity => q.head = Wrap(r.head + 1) /\ q.len = r.len /\ j = i + 1
    BY <1>1, <1>4, <1>5, CapacityAssumption
  <2> HIDE DEF j
  <2>0. Moves(r.head, r.len, q.head, q.len, i, j)  BY <2>1 DEF Moves
  <2>2. Lands(r.head, r.len, q.head, q.len, i, j)
    BY <2>0, <1>1, <1>7, <1>12, Positions
  <2>3. i \in 0..Capacity  BY <1>7, <1>12, CapacityAssumption
  <2>4. (q.head + i) % Capacity = Wrap(q.head + i)  BY <2>3, <1>7, WrapOnce
  <2>5. CASE i = q.len - 1
    <3>1. (q.head + i) % Capacity = tail  BY <2>2, <2>4, <2>5, <1>2 DEF Lands
    <3>2. Len(t) - q.len + 1 + i = Len(s) + 1  BY <2>5, <1>7, <1>9
    <3>. QED  BY <3>1, <3>2, <1>1, <1>3, <1>5, <1>9
  <2>6. CASE i < q.len - 1
    <3>1. j \in 0..(r.len - 1) /\ j \in 0..Capacity  BY <2>2, <2>6, <1>1, CapacityAssumption DEF Lands
    <3>2. (r.head + j) % Capacity = Wrap(r.head + j)  BY <3>1, <1>1, WrapOnce
    <3>3. (q.head + i) % Capacity = (r.head + j) % Capacity
      BY <3>2, <2>2, <2>4, <2>6 DEF Lands
    <3>4. (r.head + j) % Capacity \in Slots /\ (r.head + j) % Capacity # tail
      BY <3>2, <2>2, <2>6, <1>2 DEF Slots, Lands
    <3>5. q.buf[(q.head + i) % Capacity] = r.buf[(r.head + j) % Capacity]
      BY <3>3, <3>4, <1>1, <1>5
    <3>6. r.buf[(r.head + j) % Capacity] = s[Len(s) - r.len + 1 + j]
      BY <3>1 DEF Holds
    <3>7. r.len \in Nat /\ j \in Nat /\ i \in Int /\ q.len \in Int /\ r.len =< Len(s) /\ j =< r.len - 1
      BY <3>1, <1>1, <1>7, <1>9, <1>10, CapacityAssumption
    <3>8. Len(s) - r.len + 1 + j \in 1..Len(s)
      <4>1. \A a, l, k \in Nat : l =< a /\ k =< l - 1 => a - l + 1 + k \in 1..a
        OBVIOUS
      <4>. QED  BY <4>1, <3>7, <1>9
    <3>9. Len(t) - q.len + 1 + i = Len(s) - r.len + 1 + j
      <4> DEFINE a == Len(s)
                 e == Len(t)
                 x == r.len
                 y == q.len
      <4>1. a \in Int /\ e = a + 1 /\ x \in Int /\ j \in Int /\ i \in Int  BY <1>9, <3>7
      <4>2. (y = x + 1 /\ j = i) \/ (y = x /\ j = i + 1)  BY <2>1, <1>1, CapacityAssumption
      <4> HIDE DEF a, e, x, y
      <4>3. e - y + 1 + i = a - x + 1 + j
        <5>1. CASE y = x + 1 /\ j = i  BY <4>1, <5>1
        <5>2. CASE y = x /\ j = i + 1  BY <4>1, <5>2
        <5>. QED  BY <4>2, <5>1, <5>2
      <4>. QED  BY <4>3 DEF a, e, x, y
    <3>. QED  BY <3>5, <3>6, <3>8, <3>9, <1>9
  <2>. QED  BY <2>2, <2>5, <2>6 DEF Lands
<1>. QED  BY <1>8, <1>11, <1>12 DEF Holds, q, t

(* A slice pushed byte by byte: the bytes the ring stands for grow by it.  *)
LEMMA PushAllKeepsTail ==
  ASSUME NEW B, NEW r \in RingOf(B), NEW s \in Seq(B), NEW d \in Seq(B), Holds(r, s)
  PROVE  PushAll(r, d) \in RingOf(B) /\ Holds(PushAll(r, d), s \o d)
<1> DEFINE m == Len(d)
           after[i \in 0..m] == IF i = 0 THEN r ELSE Push(after[i - 1], d[i])
           step == [i \in 1..m |-> [q \in RingOf(B) |-> Push(q, d[i])]]
<1>1. m \in Nat /\ \A i \in 1..m : d[i] \in B  BY LenProperties, ElementOfSeq
<1>2. after = [i \in 0..m |-> IF i = 0 THEN r ELSE Push(after[i - 1], d[i])]
  <2>1. step \in StepsOn(RingOf(B), m)  BY <1>1, PushKeepsShape DEF StepsOn
  <2>2. PICK f : IsRun(f, RingOf(B), r, m, step)
    <3> HIDE DEF step, m, after
    <3>. QED  BY <2>1, <1>1, Iterates
  <2>3. f = [i \in 0..m |-> IF i = 0 THEN r ELSE Push(f[i - 1], d[i])]
    <3>1. ASSUME NEW i \in 0..m PROVE f[i] = IF i = 0 THEN r ELSE Push(f[i - 1], d[i])
      <4>1. CASE i = 0  BY <4>1, <2>2 DEF IsRun
      <4>2. CASE i # 0
        <5>1. i \in 1..m /\ i - 1 \in 0..m  BY <4>2, <1>1
        <5>2. f[i - 1] \in RingOf(B)  BY <5>1, <2>2 DEF IsRun
        <5>. QED  BY <4>2, <5>1, <5>2, <2>2 DEF IsRun
      <4>. QED  BY <4>1, <4>2
    <3>2. f = [i \in 0..m |-> f[i]]  BY <2>2 DEF IsRun
    <3>. QED  BY <3>1, <3>2
  <2>4. \E g : g = [i \in 0..m |-> IF i = 0 THEN r ELSE Push(g[i - 1], d[i])]
    BY <2>3
  <2> HIDE DEF m
  <2>. QED  BY <2>4, Zenon
<1>3. PushAll(r, d) = after[m]  BY DEF PushAll
<1> HIDE DEF m, after, step
<1>4. after[0] = r /\ \A i \in 0..(m - 1) : after[i + 1] = Push(after[i], d[i + 1])
  <2>1. 0 \in 0..m  BY <1>1
  <2>2. ASSUME NEW i \in 0..(m - 1) PROVE after[i + 1] = Push(after[i], d[i + 1])
    <3>1. i + 1 \in 0..m /\ i + 1 # 0 /\ (i + 1) - 1 = i  BY <1>1
    <3>. QED  BY <3>1, <1>2
  <2>. QED  BY <2>1, <2>2, <1>2
<1> DEFINE Done == {i \in 0..m : after[i] \in RingOf(B) /\ Holds(after[i], s \o First(d, i))}
<1>5. 0 \in Done
  <2>1. s \o First(d, 0) = s  BY FirstNone, ConcatEmptySeq
  <2>2. 0 \in 0..m  BY <1>1
  <2>. QED  BY <2>1, <2>2, <1>4, Zenon
<1>6. ASSUME NEW i \in 0..(m - 1), i \in Done PROVE i + 1 \in Done
  <2>1. i + 1 \in 0..m /\ i \in 0..m /\ i + 1 \in 1..m  BY <1>1
  <2>2. d[i + 1] \in B /\ First(d, i) \in Seq(B)  BY <2>1, <1>1, FirstProperties DEF m
  <2>3. s \o First(d, i) \in Seq(B)  BY <2>2, ConcatProperties
  <2>4. s \o First(d, i + 1) = Append(s \o First(d, i), d[i + 1])
    <3>0. i \in 0..(Len(d) - 1)  BY DEF m
    <3>1. First(d, i + 1) = Append(First(d, i), d[i + 1])  BY <3>0, FirstGrows, Zenon
    <3>2. s \o Append(First(d, i), d[i + 1]) = Append(s \o First(d, i), d[i + 1])
      <4> DEFINE p == First(d, i)
                 b == d[i + 1]
      <4>1. p \in Seq(B) /\ b \in B  BY <2>2
      <4> HIDE DEF p, b
      <4>2. s \o Append(p, b) = Append(s \o p, b)  BY <4>1, ConcatAppend
      <4>. QED  BY <4>2 DEF p, b
    <3>. QED  BY <3>1, <3>2, Zenon
  <2>5. after[i + 1] \in RingOf(B) /\ Holds(after[i + 1], Append(s \o First(d, i), d[i + 1]))
    BY <1>4, <1>6, <2>2, <2>3, PushKeepsTail
  <2>. QED  BY <2>1, <2>4, <2>5
<1> HIDE DEF Done
<1>7. m \in Done
  <2>1. \A i \in 0..m : i \in Done  BY <1>1, <1>5, <1>6, UpTo
  <2>. QED  BY <2>1, <1>1
<1>8. First(d, m) = d  BY FirstAll DEF m
<1>. QED  BY <1>3, <1>7, <1>8 DEF Done

(* The last n elements of a sequence.                                      *)
LEMMA LastOfProperties ==
  ASSUME NEW B, NEW s \in Seq(B), NEW n \in Nat, n =< Len(s)
  PROVE  /\ LastOf(s, n) \in Seq(B) /\ Len(LastOf(s, n)) = n
         /\ \A k \in 1..n : LastOf(s, n)[k] = s[Len(s) - n + k]
<1>1. Len(s) \in Nat /\ Len(s) - n + 1 \in Int  BY LenProperties
<1>2. \A i \in (Len(s) - n + 1)..Len(s) : s[i] \in B
  <2> TAKE i \in (Len(s) - n + 1)..Len(s)
  <2>1. i \in 1..Len(s)  BY <1>1
  <2>. QED  BY <2>1, ElementOfSeq
<1> DEFINE m == Len(s) - n + 1
<1>3. /\ SubSeq(s, m, Len(s)) \in Seq(B)
      /\ Len(SubSeq(s, m, Len(s))) = IF m =< Len(s) THEN Len(s) - m + 1 ELSE 0
      /\ \A k \in 1..(Len(s) - m + 1) : SubSeq(s, m, Len(s))[k] = s[m + k - 1]
  <2> HIDE DEF m
  <2>1. m \in Int /\ Len(s) \in Int /\ \A i \in m..Len(s) : s[i] \in B
    BY <1>1, <1>2 DEF m
  <2>. QED  BY <2>1, SubSeqProperties
<1>4. Len(s) - m + 1 = n /\ (IF m =< Len(s) THEN Len(s) - m + 1 ELSE 0) = n  BY <1>1
<1>5. \A k \in 1..n : m + k - 1 = Len(s) - n + k  BY <1>1
<1>. QED  BY <1>3, <1>4, <1>5 DEF LastOf

(* The replay of a ring that holds the tail of s is that tail, whether or  *)
(* not its valid bytes wrap.                                               *)
LEMMA ReplayOfTail ==
  ASSUME NEW B, NEW r \in RingOf(B), NEW s \in Seq(B), Holds(r, s)
  PROVE  replay_to_fd(r) = LastOf(s, r.len) /\ replay_to_fd(r) \in Seq(B)
<1>1. /\ r.buf \in [Slots -> B] /\ r.head \in 0..(Capacity - 1)
      /\ r.len \in 0..Capacity
  BY DEF RingOf, Slots
<1>2. Len(s) \in Nat /\ r.len = IF Len(s) < Capacity THEN Len(s) ELSE Capacity
  BY DEF Holds
<1>3. r.len \in Nat /\ r.len =< Len(s)  BY <1>1, <1>2, CapacityAssumption
<1> DEFINE last == LastOf(s, r.len)
<1>4. /\ last \in Seq(B) /\ Len(last) = r.len
      /\ \A k \in 1..r.len : last[k] = s[Len(s) - r.len + k]
  BY <1>3, LastOfProperties
<1> HIDE DEF last
<1>5. ASSUME NEW k \in 1..r.len
      PROVE  /\ last[k] = r.buf[Wrap(r.head + (k - 1))]
             /\ Wrap(r.head + (k - 1)) \in Slots
  <2>1. k - 1 \in 0..(r.len - 1) /\ k - 1 \in 0..Capacity  BY <1>1, <1>5, CapacityAssumption
  <2>2. r.buf[(r.head + (k - 1)) % Capacity] = s[Len(s) - r.len + 1 + (k - 1)]
    BY <2>1 DEF Holds
  <2>3. Len(s) - r.len + 1 + (k - 1) = Len(s) - r.len + k  BY <1>1, <1>2, CapacityAssumption
  <2>4. (r.head + (k - 1)) % Capacity = Wrap(r.head + (k - 1))  BY <2>1, <1>1, WrapOnce
  <2>5. Wrap(r.head + (k - 1)) \in Slots
    BY <2>1, <1>1, <1>5, CapacityAssumption DEF Wrap, Slots
  <2>. QED  BY <2>2, <2>3, <2>4, <2>5, <1>4
<1>6. CASE r.head + r.len =< Capacity
  <2> DEFINE a == [k \in 1..r.len |-> r.buf[r.head + k - 1]]
  <2>1. \A k \in 1..r.len : a[k] = last[k] /\ a[k] \in B
    <3> TAKE k \in 1..r.len
    <3>1. Wrap(r.head + (k - 1)) = r.head + k - 1
      BY <1>6, <1>1, CapacityAssumption DEF Wrap
    <3>. QED  BY <3>1, <1>5, <1>1
  <2>2. a \in [1..r.len -> B]  BY <2>1
  <2>3. replay_to_fd(r) = a  BY <1>6 DEF replay_to_fd
  <2> HIDE DEF a
  <2>4. a \in Seq(B) /\ Len(a) = r.len  BY <2>2, <1>3, FunctionIsSeq
  <2>5. a = last  BY <2>1, <2>4, <1>4, SeqEqual
  <2>. QED  BY <2>3, <2>4, <2>5 DEF last
<1>7. CASE ~ (r.head + r.len =< Capacity)
  <2> DEFINE n == Capacity - r.head
  <2> DEFINE m == r.len - (Capacity - r.head)
  <2> DEFINE a == [k \in 1..n |-> r.buf[r.head + k - 1]]
  <2> DEFINE b == [k \in 1..m |-> r.buf[k - 1]]
  <2>1. n \in Nat /\ m \in Nat /\ n + m = r.len /\ r.head + n = Capacity
    <3>1. \A h \in 0..(Capacity - 1), l \in 0..Capacity :
             ~ (h + l =< Capacity) =>
               /\ Capacity - h \in Nat /\ l - (Capacity - h) \in Nat
               /\ (Capacity - h) + (l - (Capacity - h)) = l
               /\ h + (Capacity - h) = Capacity
      BY CapacityAssumption
    <3>. QED  BY <3>1, <1>1, <1>7
  <2>2. replay_to_fd(r) = a \o b  BY <1>7 DEF replay_to_fd
  <2>3. \A k \in 1..n : a[k] = r.buf[r.head + k - 1]  OBVIOUS
  <2>4. \A k \in 1..m : b[k] = r.buf[k - 1]  OBVIOUS
  <2>5. DOMAIN a = 1..n /\ DOMAIN b = 1..m /\ a = [k \in 1..n |-> a[k]] /\ b = [k \in 1..m |-> b[k]]
    OBVIOUS
  <2> HIDE DEF a, b, n, m
  <2>6. ASSUME NEW k \in 1..n
        PROVE  a[k] = last[k] /\ a[k] \in B
    <3>1. k \in 1..r.len /\ Wrap(r.head + (k - 1)) = r.head + k - 1
      BY <2>1, <2>6, <1>1, CapacityAssumption DEF Wrap
    <3>. QED  BY <3>1, <2>3, <1>5, <1>1
  <2>7. ASSUME NEW k \in 1..m
        PROVE  b[k] = last[n + k] /\ b[k] \in B
    <3>1. PICK j \in 1..r.len : j = n + k  BY <2>1, <2>7
    <3>2. Wrap(r.head + (j - 1)) = k - 1
      <4>1. r.head + (j - 1) = Capacity + (k - 1)  BY <3>1, <2>1, <1>1, CapacityAssumption
      <4>2. Wrap(Capacity + (k - 1)) = k - 1  BY <2>1, <2>7, CapacityAssumption DEF Wrap
      <4>. QED  BY <4>1, <4>2
    <3>3. last[j] = r.buf[Wrap(r.head + (j - 1))] /\ Wrap(r.head + (j - 1)) \in Slots
      BY <1>5
    <3>. QED  BY <3>1, <3>2, <3>3, <2>4, <2>7, <1>1
  <2>8. a \in Seq(B) /\ Len(a) = n
    <3>1. a \in [1..n -> B]  BY <2>5, <2>6
    <3>. QED  BY <3>1, <2>1, FunctionIsSeq
  <2>9. b \in Seq(B) /\ Len(b) = m
    <3>1. b \in [1..m -> B]  BY <2>5, <2>7
    <3>. QED  BY <3>1, <2>1, FunctionIsSeq
  <2>10. /\ a \o b \in Seq(B) /\ Len(a \o b) = r.len
         /\ \A k \in 1..r.len : (a \o b)[k] = IF k =< n THEN a[k] ELSE b[k - n]
    BY <2>8, <2>9, <2>1, ConcatProperties
  <2>11. ASSUME NEW k \in 1..r.len
         PROVE  (a \o b)[k] = last[k]
    <3>1. CASE k =< n  BY <3>1, <2>1, <2>6, <2>10
    <3>2. CASE ~ (k =< n)
      <4>1. k - n \in 1..m /\ n + (k - n) = k  BY <3>2, <2>1, <2>11
      <4>. QED  BY <4>1, <3>2, <2>7, <2>10
    <3>. QED  BY <3>1, <3>2
  <2>12. a \o b = last  BY <2>10, <2>11, <1>4, SeqEqual
  <2>. QED  BY <2>2, <2>10, <2>12 DEF last
<1>. QED  BY <1>6, <1>7

-----------------------------------------------------------------------------
LEMMA TailFacts ==
  ASSUME NEW q \in Seq(Bytes), q # <<>>
  PROVE  /\ Tail(q) \in Seq(Bytes) /\ Len(q) \in Nat \ {0} /\ Len(Tail(q)) = Len(q) - 1
         /\ Head(q) \in Bytes /\ Head(q) = q[1]
         /\ \A i \in 1..(Len(q) - 1) : Tail(q)[i] = q[i + 1]
<1>1. Head(q) = q[1] /\ Len(q) \in Nat \ {0}  OBVIOUS
<1>. QED  BY <1>1, HeadTailProperties

InputType == [typed : 0..ClientCap, held : BOOLEAN, queued : 0..SockCap]

(* The steps that move the client's input leave everything else alone.     *)
InputStep == ClientTypes \/ RelayReadsInput \/ RelayWritesInput \/ GuestReads

LEMMA InputSteps ==
  ASSUME InputStep, input \in InputType
  PROVE  /\ input' \in InputType
         /\ UNCHANGED <<out, sock, ring, drained, waiting, sessions, attached, toClient, got>>
<1>1. UNCHANGED <<out, sock, ring, drained, waiting, sessions, attached, toClient, got>>
  BY DEF InputStep, ClientTypes, RelayReadsInput, RelayWritesInput, GuestReads
<1>2. /\ \A n \in 0..ClientCap : [input EXCEPT !.typed = n] \in InputType
      /\ \A n \in 0..ClientCap : [input EXCEPT !.typed = n, !.held = TRUE] \in InputType
      /\ \A n \in 0..SockCap : [input EXCEPT !.held = FALSE, !.queued = n] \in InputType
      /\ \A n \in 0..SockCap : [input EXCEPT !.queued = n] \in InputType
  BY DEF InputType
<1>3. input.typed \in 0..ClientCap /\ input.queued \in 0..SockCap  BY DEF InputType
<1>4. CASE ClientTypes
  <2>1. input.typed + 1 \in 0..ClientCap  BY <1>3, <1>4, RelayAssumption DEF ClientTypes
  <2>. QED  BY <1>1, <1>2, <1>4, <2>1 DEF ClientTypes
<1>5. CASE RelayReadsInput
  <2>1. input.typed - 1 \in 0..ClientCap  BY <1>3, <1>5, RelayAssumption DEF RelayReadsInput
  <2>. QED  BY <1>1, <1>2, <1>5, <2>1 DEF RelayReadsInput
<1>6. CASE RelayWritesInput
  <2>1. input.queued + 1 \in 0..SockCap  BY <1>3, <1>6, RelayAssumption DEF RelayWritesInput
  <2>. QED  BY <1>1, <1>2, <1>6, <2>1 DEF RelayWritesInput
<1>7. CASE GuestReads
  <2>1. input.queued - 1 \in 0..SockCap  BY <1>3, <1>7, RelayAssumption DEF GuestReads
  <2>. QED  BY <1>1, <1>2, <1>7, <2>1 DEF GuestReads
<1>. QED  BY <1>4, <1>5, <1>6, <1>7 DEF InputStep

LEMMA InitEstablishesIInv == Init => IInv
<1> SUFFICES ASSUME Init PROVE IInv  OBVIOUS
<1> USE CapacityAssumption, ZeroAssumption, RelayAssumption, BytesAssumption
<1>1. ring \in Ring  BY DEF Init, new, Ring, Slots
<1>2. TypeOK
  <2>1. /\ sock \in Seq(Bytes) /\ Len(sock) = 0 /\ drained \in Seq(Bytes)
        /\ toClient \in Seq(Bytes) /\ got \in Seq(Bytes)
    BY EmptySeq DEF Init
  <2>2. out \in 0..MaxOut /\ waiting \in 0..MaxClients /\ sessions \in 0..MaxClients
    BY DEF Init
  <2>3. Len(sock) =< SockCap  BY <2>1
  <2>4. input \in InputType  BY DEF Init, InputType
  <2>. QED  BY <1>1, <2>1, <2>2, <2>3, <2>4 DEF TypeOK, InputType, Init
<1>3. RingHoldsTail  BY DEF Init, new, RingHoldsTail, Holds
<1>. QED  BY <1>2, <1>3 DEF IInv, Init

(* Drain is the one action that writes the ring; the others move bytes     *)
(* between the sockets and count clients.                                  *)
LEMMA StepKeepsIInv == IInv /\ [Next]_vars => IInv'
<1> SUFFICES ASSUME IInv, [Next]_vars PROVE IInv'  OBVIOUS
<1> USE RelayAssumption, BytesAssumption DEF IInv
<1>0. /\ sock \in Seq(Bytes) /\ Len(sock) =< SockCap /\ toClient \in Seq(Bytes)
      /\ \A q \in Seq(Bytes) : q # <<>> => /\ Head(q) \in Bytes /\ Tail(q) \in Seq(Bytes)
                                          /\ Len(Tail(q)) =< Len(q)
      /\ SockCap \in Nat
  <2>1. \A q \in Seq(Bytes) : q # <<>> => /\ Head(q) \in Bytes /\ Tail(q) \in Seq(Bytes)
                                          /\ Len(Tail(q)) =< Len(q)
    BY TailFacts
  <2>2. sock \in Seq(Bytes) /\ Len(sock) =< SockCap /\ toClient \in Seq(Bytes)
    BY DEF TypeOK
  <2>. QED  BY <2>1, <2>2
<1>1. CASE GuestPrints
  <2>1. out + 1 \in 0..MaxOut /\ out + 1 \in Bytes  BY <1>1 DEF GuestPrints, TypeOK
  <2>2. sock' \in Seq(Bytes) /\ Len(sock') = Len(sock) + 1
    BY <2>1, <1>1 DEF GuestPrints, TypeOK
  <2>3. TypeOK'  BY <2>1, <2>2, <1>1 DEF GuestPrints, TypeOK
  <2>. QED  BY <2>3, <1>1 DEF GuestPrints, RingHoldsTail
<1>2. CASE ClientConnects
  BY <1>2 DEF ClientConnects, TypeOK, RingHoldsTail
<1>3. CASE Drain
  <2>1. Head(sock) \in Bytes /\ Tail(sock) \in Seq(Bytes) /\ Len(Tail(sock)) =< SockCap
    BY <1>0, <1>3, TailFacts DEF Drain
  <2>2. ring' \in Ring /\ Holds(ring', drained')
    BY <2>1, <1>3, PushKeepsTail, RingOfBytes DEF Drain, TypeOK, RingHoldsTail
  <2>3. drained' \in Seq(Bytes)  BY <2>1, <1>3 DEF Drain, TypeOK
  <2>. QED  BY <2>1, <2>2, <2>3, <1>3 DEF Drain, TypeOK, RingHoldsTail
<1>4. CASE Attach
  <2>1. toClient' \in Seq(Bytes)
    BY <1>4, ReplayOfTail, RingOfBytes DEF Attach, TypeOK, RingHoldsTail
  <2>. QED  BY <2>1, <1>4 DEF Attach, TypeOK, RingHoldsTail
<1>5. CASE RelayToClient
  <2>1. Head(sock) \in Bytes /\ Tail(sock) \in Seq(Bytes) /\ Len(Tail(sock)) =< SockCap
    BY <1>0, <1>5, TailFacts DEF RelayToClient
  <2>. QED  BY <2>1, <1>5 DEF RelayToClient, TypeOK, RingHoldsTail
<1>6. CASE ClientReads
  <2>1. Head(toClient) \in Bytes /\ Tail(toClient) \in Seq(Bytes)
    BY <1>0, <1>6 DEF ClientReads
  <2>. QED  BY <2>1, <1>6 DEF ClientReads, TypeOK, RingHoldsTail
<1>7. CASE Detach
  <2>1. input \in InputType  BY DEF TypeOK, InputType
  <2>2. input' = [input EXCEPT !.typed = 0] /\ 0 \in 0..ClientCap  BY <1>7 DEF Detach
  <2>3. input' \in InputType  BY <2>1, <2>2 DEF InputType
  <2>. QED  BY <1>7, <2>3, EmptySeq DEF Detach, TypeOK, InputType, RingHoldsTail
<1>8. CASE UNCHANGED vars
  BY <1>8 DEF vars, TypeOK, RingHoldsTail
<1>9. CASE InputStep
  <2>1. input \in InputType  BY DEF TypeOK, InputType
  <2>. QED  BY <1>9, <2>1, InputSteps DEF TypeOK, InputType, RingHoldsTail
<1>. QED
  BY <1>1, <1>2, <1>3, <1>4, <1>5, <1>6, <1>7, <1>8, <1>9 DEF Next, InputStep

(* The types of the relay and the ring's content are an invariant of the   *)
(* relay, for every capacity of the ring and the sockets.                  *)
THEOREM IInvHolds == Spec => []IInv
<1>. QED  BY InitEstablishesIInv, StepKeepsIInv, PTL DEF Spec

(* Every replay is exactly that tail, in order (replay_to_fd).             *)
THEOREM ReplayIsCorrect == Spec => []ReplayIsTail
<1>1. IInv => ReplayIsTail
  BY ReplayOfTail, RingOfBytes DEF IInv, TypeOK, RingHoldsTail, ReplayIsTail
<1>. QED  BY <1>1, IInvHolds, PTL

-----------------------------------------------------------------------------
(* The replay after a slice: the last bytes of the old replay and of the   *)
(* slice.  A slice longer than the ring leaves nothing of the old replay.  *)
LEMMA SliceLeavesTail ==
  ASSUME NEW B, NEW r \in RingOf(B), NEW s \in Seq(B), NEW data \in Seq(B), Holds(r, s),
         NEW all, all = replay_to_fd(r) \o data
  PROVE  replay_to_fd(push_slice(r, data))
            = IF Len(all) > Capacity THEN LastOf(all, Capacity) ELSE all
<1> DEFINE n == Len(data)
           d == IF n > Capacity THEN LastOf(data, Capacity) ELSE data
           q == PushAll(r, d)
           t == s \o d
           l == r.len
           w == q.len
           old == replay_to_fd(r)
           left == replay_to_fd(q)
           right == IF Len(all) > Capacity THEN LastOf(all, Capacity) ELSE all
           z == Len(s)
<1>1. push_slice(r, data) = q  BY DEF push_slice
<1> HIDE DEF n, d, q, t, l, w, old, left, right, z
<1>2. n \in Nat /\ z \in Nat /\ Capacity \in Nat \ {0}
  BY LenProperties, CapacityAssumption DEF n, z
<1>3. /\ d \in Seq(B) /\ Len(d) = IF n > Capacity THEN Capacity ELSE n
      /\ \A k \in 1..Len(d) : d[k] = data[n - Len(d) + k]
  <2>1. CASE n > Capacity
    <3>1. d = LastOf(data, Capacity) /\ Capacity =< Len(data)  BY <2>1, <1>2 DEF d, n
    <3>2. /\ LastOf(data, Capacity) \in Seq(B) /\ Len(LastOf(data, Capacity)) = Capacity
          /\ \A k \in 1..Capacity :
                LastOf(data, Capacity)[k] = data[Len(data) - Capacity + k]
      BY <3>1, <1>2, LastOfProperties
    <3>. QED  BY <3>1, <3>2, <2>1 DEF n
  <2>2. CASE ~ (n > Capacity)
    <3>1. d = data /\ Len(d) = n  BY <2>2 DEF d, n
    <3>2. \A k \in 1..n : n - n + k = k  BY <1>2
    <3>. QED  BY <3>1, <3>2, <2>2
  <2>. QED  BY <2>1, <2>2
<1>4. q \in RingOf(B) /\ Holds(q, t)  BY <1>3, PushAllKeepsTail DEF q, t
<1>5. /\ t \in Seq(B) /\ Len(t) = z + Len(d)
      /\ \A k \in 1..(z + Len(d)) : t[k] = IF k =< z THEN s[k] ELSE d[k - z]
  BY <1>3, ConcatProperties DEF t, z
<1>6. /\ l = IF z < Capacity THEN z ELSE Capacity
      /\ w = IF Len(t) < Capacity THEN Len(t) ELSE Capacity
  BY <1>4 DEF Holds, l, w, z
<1>7. Len(d) \in Nat /\ l \in Nat /\ w \in Nat /\ l =< z /\ w =< Len(t)
  BY <1>2, <1>3, <1>5, <1>6
<1>8. /\ old = LastOf(s, l) /\ old \in Seq(B) /\ Len(old) = l
      /\ \A k \in 1..l : old[k] = s[z - l + k]
  <2>1. old = LastOf(s, l) /\ old \in Seq(B)  BY ReplayOfTail DEF old, l
  <2>2. /\ Len(LastOf(s, l)) = l
        /\ \A k \in 1..l : LastOf(s, l)[k] = s[Len(s) - l + k]
    <3>1. l =< Len(s)  BY <1>7 DEF z
    <3>. QED  BY <3>1, <1>7, LastOfProperties
  <2>. QED  BY <2>1, <2>2 DEF z
<1>9. /\ left \in Seq(B) /\ Len(left) = w
      /\ \A k \in 1..w : left[k] = t[Len(t) - w + k]
  <2>1. left = LastOf(t, w) /\ left \in Seq(B)  BY <1>4, <1>5, ReplayOfTail DEF left, w
  <2>2. Len(LastOf(t, w)) = w /\ \A k \in 1..w : LastOf(t, w)[k] = t[Len(t) - w + k]
    <3>1. t \in Seq(B) /\ w \in Nat /\ w =< Len(t)  BY <1>5, <1>7
    <3>. QED  BY <3>1, LastOfProperties
  <2>. QED  BY <2>1, <2>2
<1>10. /\ all \in Seq(B) /\ Len(all) = l + n
       /\ \A k \in 1..(l + n) : all[k] = IF k =< l THEN old[k] ELSE data[k - l]
  <2>1. all = old \o data  BY DEF old
  <2>. QED  BY <2>1, <1>8, ConcatProperties DEF n
<1>11. w = IF l + n > Capacity THEN Capacity ELSE l + n
  BY <1>2, <1>3, <1>5, <1>6
<1>12. /\ right \in Seq(B) /\ Len(right) = w
       /\ \A k \in 1..w : right[k] = all[l + n - w + k]
  <2>1. CASE l + n > Capacity
    <3>1. right = LastOf(all, Capacity) /\ w = Capacity /\ Capacity =< Len(all)
      BY <2>1, <1>2, <1>7, <1>10, <1>11 DEF right
    <3>2. /\ LastOf(all, w) \in Seq(B) /\ Len(LastOf(all, w)) = w
          /\ \A k \in 1..w : LastOf(all, w)[k] = all[Len(all) - w + k]
      BY <3>1, <1>7, <1>10, LastOfProperties
    <3>3. right = LastOf(all, w) /\ Len(all) = l + n  BY <3>1, <1>10
    <3>4. ASSUME NEW k \in 1..w PROVE right[k] = all[l + n - w + k]
      <4>1. right[k] = all[Len(all) - w + k]  BY <3>2, <3>3
      <4>2. Len(all) - w + k = l + n - w + k  BY <3>3, <1>2, <1>7
      <4>. QED  BY <4>1, <4>2
    <3>. QED  BY <3>2, <3>3, <3>4
  <2>2. CASE ~ (l + n > Capacity)
    <3>1. right = all /\ w = l + n  BY <2>2, <1>10, <1>11 DEF right
    <3>2. \A k \in 1..w : l + n - w + k = k  BY <3>1, <1>2, <1>7
    <3>. QED  BY <3>1, <3>2, <1>10
  <2>. QED  BY <2>1, <2>2
<1>13. ASSUME NEW k \in 1..w PROVE left[k] = right[k]
  <2> DEFINE c == n - w + k
             x == z + Len(d) - w + k
  <2>0. c = n - w + k /\ x = z + Len(d) - w + k  OBVIOUS
  <2> HIDE DEF c, x
  <2>1. x \in 1..(z + Len(d)) /\ l + c \in 1..(l + n) /\ c \in Int /\ l + n - w + k = l + c
    BY <2>0, <1>2, <1>5, <1>7, <1>11
  <2>2. /\ left[k] = IF x =< z THEN s[x] ELSE d[x - z]
        /\ right[k] = IF l + c =< l THEN old[l + c] ELSE data[(l + c) - l]
    <3>1. left[k] = t[Len(t) - w + k] /\ right[k] = all[l + n - w + k]  BY <1>9, <1>12
    <3>2. Len(t) - w + k = x
      <4>1. Len(t) = z + Len(d)  BY <1>5
      <4>. QED  BY <4>1, <2>0, <1>2, <1>7
    <3>. QED  BY <3>1, <3>2, <2>1, <1>5, <1>10
  <2>3. CASE c =< 0
    <3>1. n =< Capacity /\ Len(d) = n  BY <2>0, <2>3, <1>2, <1>3, <1>7, <1>11
    <3>2. x = z + c /\ x =< z /\ l + c =< l /\ l + c \in 1..l /\ z - l + (l + c) = z + c
      BY <3>1, <2>0, <2>1, <2>3, <1>2, <1>7
    <3>. QED  BY <3>2, <2>2, <1>8
  <2>4. CASE ~ (c =< 0)
    <3>1. x - z \in 1..Len(d) /\ n - Len(d) + (x - z) = c /\ (l + c) - l = c
          /\ ~ (x =< z) /\ ~ (l + c =< l)
      BY <2>0, <2>1, <2>4, <1>2, <1>3, <1>7, <1>11
    <3>. QED  BY <3>1, <2>2, <1>3
  <2>. QED  BY <2>3, <2>4
<1>14. left = right  BY <1>9, <1>12, <1>13, SeqEqual
<1>. QED  BY <1>1, <1>14 DEF left, right

(* Whatever the ring holds, a slice of any length leaves its last bytes,   *)
(* and as many older ones as fit (push_slice, replay_to_fd).               *)
THEOREM SlicesKeepTail == Spec => []SliceKeepsTail
<1>1. ASSUME IInv PROVE SliceKeepsTail
  <2>1. ring \in RingOf(Nat) /\ drained \in Seq(Nat) /\ Holds(ring, drained)
    <3>1. Bytes \subseteq Nat  BY BytesAssumption, RelayAssumption
    <3>2. ring \in RingOf(Bytes) /\ drained \in Seq(Bytes)
      BY <1>1, RingOfBytes DEF IInv, TypeOK
    <3>3. ring \in RingOf(Nat)  BY <3>1, <3>2 DEF RingOf
    <3>4. drained \in Seq(Nat)  BY <3>1, <3>2, SeqMonotonic
    <3>. QED  BY <3>3, <3>4, <1>1 DEF IInv, RingHoldsTail
  <2> SUFFICES ASSUME NEW n \in 0..(2 * Capacity), NEW data, data = [i \in 1..n |-> i],
                      NEW all, all = replay_to_fd(ring) \o data
               PROVE  replay_to_fd(push_slice(ring, data))
                         = IF Len(all) > Capacity THEN LastOf(all, Capacity) ELSE all
    BY DEF SliceKeepsTail
  <2>2. n \in Nat /\ data \in [1..n -> Nat]  BY CapacityAssumption
  <2>3. data \in Seq(Nat)  BY <2>2, FunctionIsSeq
  <2> DEFINE r == ring
             s == drained
             B == Nat
  <2>4. r \in RingOf(B) /\ s \in Seq(B) /\ data \in Seq(B) /\ Holds(r, s)
        /\ all = replay_to_fd(r) \o data
    BY <2>1, <2>3
  <2> HIDE DEF r, s, B
  <2>5. replay_to_fd(push_slice(r, data))
           = IF Len(all) > Capacity THEN LastOf(all, Capacity) ELSE all
    BY <2>4, SliceLeavesTail
  <2>. QED  BY <2>5 DEF r
<1>. QED  BY <1>1, IInvHolds, PTL

-----------------------------------------------------------------------------
(* What the relay has taken off the console socket so far.                 *)
Taken == out - Len(sock)

(* The socket holds the output that comes next, in order.                  *)
SockIsNext ==
    /\ Len(sock) =< out
    /\ \A i \in 1..Len(sock) : sock[i] = Taken + i

(* Until the first client is accepted the ring is fed everything.          *)
NoneYet ==
    sessions = 0
        => /\ ~attached /\ Len(drained) = Taken
           /\ \A i \in 1..Len(drained) : drained[i] = i

(* s is the output that follows the n-th byte.                             *)
From(s, n) == \A k \in 1..Len(s) : s[k] = n + k

(* The first client's stream: what it has read and what is under way to it *)
(* follow the bytes lost to the ring, up to the last byte taken.  The ring *)
(* is not written while a client is there.                                 *)
Lost == Len(drained) - ring.len

FirstStream ==
    attached /\ sessions = 1
        => /\ Lost \in Nat /\ Lost + Len(got) + Len(toClient) = Taken
           /\ From(got, Lost) /\ From(toClient, Lost + Len(got))

StreamInv == IInv /\ SockIsNext /\ NoneYet /\ FirstStream

LEMMA AppendFacts ==
  ASSUME NEW q \in Seq(Bytes), NEW b \in Bytes
  PROVE  /\ Append(q, b) \in Seq(Bytes) /\ Len(q) \in Nat /\ Len(Append(q, b)) = Len(q) + 1
         /\ Append(q, b)[Len(q) + 1] = b
         /\ \A i \in 1..Len(q) : Append(q, b)[i] = q[i]
  BY AppendProperties, LenProperties

(* A stretch of the output grows by the byte that comes next, and loses    *)
(* its first one.                                                          *)
LEMMA FromAppend ==
  ASSUME NEW q \in Seq(Bytes), NEW n \in Nat, NEW b \in Bytes,
         From(q, n), b = n + Len(q) + 1
  PROVE  From(Append(q, b), n)
<1> DEFINE p == Append(q, b)
<1>1. /\ Len(q) \in Nat /\ Len(p) = Len(q) + 1 /\ p[Len(q) + 1] = b
      /\ \A i \in 1..Len(q) : p[i] = q[i]
  BY AppendFacts
<1> HIDE DEF p
<1>2. \A i \in 1..Len(p) : i \in 1..Len(q) \/ i = Len(q) + 1  BY <1>1
<1>3. From(p, n)  BY <1>1, <1>2 DEF From
<1>. QED  BY <1>3 DEF p

LEMMA FromTail ==
  ASSUME NEW q \in Seq(Bytes), NEW n \in Nat, From(q, n), q # <<>>
  PROVE  Head(q) = n + 1 /\ From(Tail(q), n + 1)
<1> DEFINE p == Tail(q)
<1>1. /\ Len(q) \in Nat \ {0} /\ Len(p) = Len(q) - 1 /\ Head(q) = q[1]
      /\ \A i \in 1..(Len(q) - 1) : p[i] = q[i + 1]
  BY TailFacts
<1> HIDE DEF p
<1>2. Head(q) = n + 1  BY <1>1 DEF From
<1>3. \A i \in 1..Len(p) : i + 1 \in 1..Len(q) /\ p[i] = q[i + 1] /\ n + (i + 1) = n + 1 + i
  BY <1>1
<1>4. From(p, n + 1)  BY <1>3 DEF From
<1>. QED  BY <1>2, <1>4 DEF p

(* The types that the stream needs.                                        *)
LEMMA StreamTypes ==
  ASSUME StreamInv
  PROVE  /\ out \in Nat /\ Len(sock) \in Nat /\ Taken \in Nat
         /\ sock \in Seq(Bytes) /\ drained \in Seq(Bytes)
         /\ toClient \in Seq(Bytes) /\ got \in Seq(Bytes) /\ Len(toClient) \in Nat
         /\ Len(got) \in Nat /\ Len(drained) \in Nat /\ sessions \in Nat
         /\ ring \in Ring /\ ring.len \in Nat /\ ring.len =< Len(drained) /\ Lost \in Nat
         /\ From(sock, Taken)
         /\ sessions = 0 => ~attached /\ Len(drained) = Taken /\ From(drained, 0)
<1> USE CapacityAssumption, RelayAssumption
<1>1. /\ out \in Nat /\ sock \in Seq(Bytes) /\ drained \in Seq(Bytes)
      /\ toClient \in Seq(Bytes) /\ got \in Seq(Bytes) /\ sessions \in Nat /\ ring \in Ring
  BY DEF StreamInv, IInv, TypeOK
<1>2. Len(sock) \in Nat /\ Len(drained) \in Nat /\ Len(got) \in Nat /\ Len(toClient) \in Nat
  BY <1>1, LenProperties
<1>3. ring.len \in 0..Capacity /\ ring.len = IF Len(drained) < Capacity THEN Len(drained) ELSE Capacity
  BY <1>1 DEF Ring, StreamInv, IInv, RingHoldsTail, Holds
<1>4. ring.len \in Nat /\ ring.len =< Len(drained) /\ Lost \in Nat  BY <1>2, <1>3 DEF Lost
<1>5. Taken \in Nat  BY <1>1, <1>2 DEF StreamInv, SockIsNext, Taken
<1>6. From(sock, Taken)  BY DEF StreamInv, SockIsNext, From
<1>7. sessions = 0 => ~attached /\ Len(drained) = Taken /\ From(drained, 0)
  <2>1. \A i \in 1..Len(drained) : 0 + i = i  BY <1>2
  <2>. QED  BY <2>1 DEF StreamInv, NoneYet, From
<1>. QED  BY <1>1, <1>2, <1>4, <1>5, <1>6, <1>7

LEMMA InitEstablishesStreamInv == Init => StreamInv
<1> SUFFICES ASSUME Init PROVE StreamInv  OBVIOUS
<1>1. IInv  BY InitEstablishesIInv
<1>2. /\ out = 0 /\ Len(sock) = 0 /\ Len(drained) = 0 /\ ~attached  BY EmptySeq DEF Init
<1>. QED  BY <1>1, <1>2 DEF StreamInv, SockIsNext, NoneYet, FirstStream, Taken

(* The parts of StreamInv hold after a step that leaves them the stretches *)
(* of the output they speak of.                                            *)
LEMMA StepKeepsStreamInv == StreamInv /\ [Next]_vars => StreamInv'
<1> SUFFICES ASSUME StreamInv, [Next]_vars PROVE StreamInv'  OBVIOUS
<1>0. IInv'  BY StepKeepsIInv DEF StreamInv
<1>t. /\ out \in Nat /\ Len(sock) \in Nat /\ Taken \in Nat
      /\ sock \in Seq(Bytes) /\ drained \in Seq(Bytes)
      /\ toClient \in Seq(Bytes) /\ got \in Seq(Bytes) /\ Len(toClient) \in Nat
      /\ Len(got) \in Nat /\ Len(drained) \in Nat /\ sessions \in Nat
      /\ ring \in Ring /\ ring.len \in Nat /\ ring.len =< Len(drained) /\ Lost \in Nat
      /\ From(sock, Taken)
      /\ sessions = 0 => ~attached /\ Len(drained) = Taken /\ From(drained, 0)
  BY StreamTypes
<1>a. Taken = out - Len(sock) /\ Taken' = out' - Len(sock') /\ Len(sock) =< out
  BY DEF Taken, StreamInv, SockIsNext
<1>s. ASSUME Len(sock') =< out', From(sock', Taken')
      PROVE  SockIsNext'
  BY <1>s DEF SockIsNext, From
<1>n. ASSUME sessions' = 0 => ~attached' /\ Len(drained') = Taken' /\ From(drained', 0),
             Len(drained') \in Nat
      PROVE  NoneYet'
  <2>1. \A i \in 1..Len(drained') : 0 + i = i  BY <1>n
  <2>. QED  BY <1>n, <2>1 DEF NoneYet, From
<1>f. attached /\ sessions = 1
      => Lost + Len(got) + Len(toClient) = Taken /\ From(got, Lost) /\ From(toClient, Lost + Len(got))
  BY DEF StreamInv, FirstStream
<1>r. drained' = drained /\ ring' = ring => Lost' = Lost  BY DEF Lost
<1>q. Lost \in Nat /\ Taken \in Nat /\ Lost + Len(got) \in Nat  BY <1>t
<1>1. CASE GuestPrints
  <2> USE <1>1 DEF GuestPrints
  <2>1. out + 1 \in Bytes  BY <1>t, BytesAssumption, RelayAssumption
  <2>2. Len(sock') = Len(sock) + 1  BY <2>1, <1>t, AppendFacts
  <2>3. Taken' = Taken /\ Len(sock') =< out'  BY <2>2, <1>t, <1>a
  <2>4. out + 1 = Taken + Len(sock) + 1  BY <1>t, <1>a
  <2>5. From(sock', Taken')  BY <2>1, <2>3, <2>4, <1>t, FromAppend
  <2>6. SockIsNext'  BY <2>3, <2>5, <1>s
  <2>7. NoneYet'  BY <2>3, <1>n, <1>t
  <2>8. FirstStream'  BY <2>3, <1>f, <1>r, <1>t DEF FirstStream
  <2>. QED  BY <1>0, <2>6, <2>7, <2>8 DEF StreamInv
<1>2. CASE ClientConnects
  <2> USE <1>2 DEF ClientConnects
  <2>1. Taken' = Taken  BY DEF Taken
  <2>2. SockIsNext'  BY <2>1, <1>s, <1>a, <1>t
  <2>3. NoneYet'  BY <2>1, <1>n, <1>t
  <2>4. FirstStream'  BY <2>1, <1>f, <1>r, <1>t DEF FirstStream
  <2>. QED  BY <1>0, <2>2, <2>3, <2>4 DEF StreamInv
<1>3. CASE Drain
  <2> USE <1>3 DEF Drain
  <2>1. Len(sock') = Len(sock) - 1 /\ Len(sock) > 0 /\ Head(sock) \in Bytes  BY <1>t, TailFacts
  <2>2. Taken' = Taken + 1 /\ Len(sock') =< out'  BY <2>1, <1>t, <1>a
  <2>3. Head(sock) = Taken + 1 /\ From(sock', Taken')  BY <2>2, <1>t, FromTail
  <2>4. SockIsNext'  BY <2>2, <2>3, <1>s
  <2>5. Len(drained') = Len(drained) + 1  BY <2>1, <1>t, AppendFacts
  <2>6. sessions' = 0 => From(drained', 0)
    <3>1. sessions = 0 => Head(sock) = 0 + Len(drained) + 1  BY <2>3, <1>t
    <3>. QED  BY <3>1, <2>1, <1>t, FromAppend
  <2>7. NoneYet'  BY <2>2, <2>5, <2>6, <1>n, <1>t
  <2>8. FirstStream'  BY DEF FirstStream
  <2>. QED  BY <1>0, <2>4, <2>7, <2>8 DEF StreamInv
<1>4. CASE Attach
  <2> USE <1>4 DEF Attach
  <2>1. Taken' = Taken /\ Lost' = Lost  BY <1>r DEF Taken
  <2>2. SockIsNext'  BY <2>1, <1>s, <1>a, <1>t
  <2>3. NoneYet'  BY <2>1, <1>n, <1>t
  <2>4. ASSUME sessions' = 1
        PROVE  /\ Lost' + Len(got') + Len(toClient') = Taken'
               /\ From(got', Lost') /\ From(toClient', Lost' + Len(got'))
    <3>1. sessions = 0  BY <2>4, <1>t
    <3>2. toClient' = LastOf(drained, ring.len)
      BY <1>t, ReplayOfTail, RingOfBytes DEF StreamInv, IInv, RingHoldsTail
    <3>3. /\ Len(toClient') = ring.len
          /\ \A k \in 1..ring.len : toClient'[k] = drained[Len(drained) - ring.len + k]
      <4> DEFINE l == LastOf(drained, ring.len)
      <4>1. Len(l) = ring.len /\ \A k \in 1..ring.len : l[k] = drained[Len(drained) - ring.len + k]
        BY <1>t, LastOfProperties
      <4> HIDE DEF l
      <4>2. toClient' = l  BY <3>2 DEF l
      <4>. QED  BY <4>1, <4>2
    <3>4. Len(got') = 0  BY EmptySeq
    <3>5. \A k \in 1..ring.len : Lost + k \in 1..Len(drained) /\ drained[Lost + k] = Lost + k
      <4>1. \A k \in 1..ring.len : Lost + k \in 1..Len(drained)  BY <1>t DEF Lost
      <4>. QED  BY <4>1, <3>1, <1>t DEF From
    <3>6. From(toClient', Lost)  BY <3>3, <3>5 DEF From, Lost
    <3>7. Lost + 0 = Lost /\ Lost + 0 + ring.len = Taken  BY <3>1, <1>t DEF Lost
    <3>8. From(got', Lost)  BY <3>4 DEF From
    <3>. QED  BY <2>1, <3>3, <3>4, <3>6, <3>7, <3>8
  <2>5. FirstStream'  BY <2>1, <2>4, <1>t DEF FirstStream
  <2>. QED  BY <1>0, <2>2, <2>3, <2>5 DEF StreamInv
<1>5. CASE RelayToClient
  <2> USE <1>5 DEF RelayToClient
  <2>1. Len(sock') = Len(sock) - 1 /\ Len(sock) > 0 /\ Head(sock) \in Bytes  BY <1>t, TailFacts
  <2>2. Taken' = Taken + 1 /\ Len(sock') =< out'  BY <2>1, <1>t, <1>a
  <2>3. Head(sock) = Taken + 1 /\ From(sock', Taken')  BY <2>2, <1>t, FromTail
  <2>4. SockIsNext'  BY <2>2, <2>3, <1>s
  <2>5. NoneYet'  BY <1>t DEF NoneYet
  <2>6. Len(toClient') = Len(toClient) + 1  BY <2>1, <1>t, AppendFacts
  <2>7. ASSUME sessions = 1
        PROVE  From(toClient', Lost + Len(got)) /\ Lost + Len(got) + Len(toClient') = Taken'
    <3>1. Lost + Len(got) + Len(toClient) = Taken /\ From(toClient, Lost + Len(got))  BY <2>7, <1>f
    <3>2. Head(sock) = Lost + Len(got) + Len(toClient) + 1  BY <3>1, <2>3
    <3>3. From(toClient', Lost + Len(got))  BY <3>1, <3>2, <2>1, <1>t, <1>q, FromAppend
    <3>. QED  BY <3>1, <3>3, <2>2, <2>6, <1>t
  <2>8. FirstStream'  BY <2>7, <1>f, <1>r, <1>t DEF FirstStream
  <2>. QED  BY <1>0, <2>4, <2>5, <2>8 DEF StreamInv
<1>6. CASE ClientReads
  <2> USE <1>6 DEF ClientReads
  <2>1. Taken' = Taken /\ Lost' = Lost  BY <1>r DEF Taken
  <2>2. SockIsNext'  BY <2>1, <1>s, <1>a, <1>t
  <2>3. NoneYet'  BY <2>1, <1>n, <1>t
  <2>4. Len(toClient') = Len(toClient) - 1 /\ Head(toClient) \in Bytes  BY <1>t, TailFacts
  <2>5. Len(got') = Len(got) + 1  BY <2>4, <1>t, AppendFacts
  <2>6. ASSUME sessions = 1
        PROVE  /\ From(got', Lost) /\ From(toClient', Lost + Len(got'))
               /\ Lost + Len(got') + Len(toClient') = Taken
    <3>1. /\ Lost + Len(got) + Len(toClient) = Taken /\ From(got, Lost)
          /\ From(toClient, Lost + Len(got))
      BY <2>6, <1>f
    <3>2. Head(toClient) = Lost + Len(got) + 1 /\ From(toClient', Lost + Len(got) + 1)
      BY <3>1, <1>t, <1>q, FromTail
    <3>3. From(got', Lost)  BY <3>1, <3>2, <2>4, <1>t, FromAppend
    <3>4. Lost + Len(got) + 1 = Lost + Len(got')  BY <2>5, <1>t
    <3>5. Lost + Len(got') + Len(toClient') = Taken
      <4>1. \A l, g, c \in Nat : l + (g + 1) + (c - 1) = l + g + c  OBVIOUS
      <4>2. Lost + (Len(got) + 1) + (Len(toClient) - 1) = Lost + Len(got) + Len(toClient)
        BY <4>1, <1>t
      <4>. QED  BY <4>2, <3>1, <2>4, <2>5
    <3>. QED  BY <3>2, <3>3, <3>4, <3>5
  <2>7. FirstStream'  BY <2>1, <2>6, <1>t DEF FirstStream
  <2>. QED  BY <1>0, <2>2, <2>3, <2>7 DEF StreamInv
<1>7. CASE Detach
  <2> USE <1>7 DEF Detach
  <2>1. Taken' = Taken  BY DEF Taken
  <2>2. SockIsNext'  BY <2>1, <1>s, <1>a, <1>t
  <2>3. NoneYet'  BY <2>1, <1>n, <1>t
  <2>4. FirstStream'  BY DEF FirstStream
  <2>. QED  BY <1>0, <2>2, <2>3, <2>4 DEF StreamInv
<1>8. CASE UNCHANGED vars
  <2> USE <1>8 DEF vars
  <2>1. Taken' = Taken  BY DEF Taken
  <2>2. SockIsNext'  BY <2>1, <1>s, <1>a, <1>t
  <2>3. NoneYet'  BY <2>1, <1>n, <1>t
  <2>4. FirstStream'  BY <2>1, <1>f, <1>r, <1>t DEF FirstStream
  <2>. QED  BY <1>0, <2>2, <2>3, <2>4 DEF StreamInv
<1>9. CASE InputStep
  <2>0. UNCHANGED <<out, sock, ring, drained, waiting, sessions, attached, toClient, got>>
    BY <1>9, InputSteps DEF StreamInv, IInv, TypeOK, InputType
  <2>1. Taken' = Taken  BY <2>0 DEF Taken
  <2>2. SockIsNext'  BY <2>0, <2>1, <1>s, <1>a, <1>t
  <2>3. NoneYet'  BY <2>0, <2>1, <1>n, <1>t
  <2>4. FirstStream'  BY <2>0, <2>1, <1>f, <1>r, <1>t DEF FirstStream
  <2>. QED  BY <1>0, <2>2, <2>3, <2>4 DEF StreamInv
<1>. QED
  BY <1>1, <1>2, <1>3, <1>4, <1>5, <1>6, <1>7, <1>8, <1>9 DEF Next, InputStep

(* The first client of a daemon sees one gapless stream from the oldest    *)
(* byte the ring had kept, whatever is printed and drained while it        *)
(* connects (console_relay_loop, proxy_console).                           *)
THEOREM FirstClientMissesNothing == Spec => []FirstClientSeesAll
<1>1. Spec => []StreamInv
  BY InitEstablishesStreamInv, StepKeepsStreamInv, PTL DEF Spec
<1>2. ASSUME StreamInv PROVE FirstClientSeesAll
  <2> SUFFICES ASSUME attached /\ sessions = 1
               PROVE  got \o toClient = [i \in 1..(out - Len(sock) - Lost) |-> Lost + i]
    BY DEF FirstClientSeesAll, Lost
  <2> DEFINE s == got \o toClient
  <2> DEFINE n == out - Len(sock) - Lost
  <2>1. /\ got \in Seq(Bytes) /\ toClient \in Seq(Bytes) /\ Len(got) \in Nat
        /\ Len(toClient) \in Nat /\ Taken \in Nat
    BY <1>2, StreamTypes
  <2>2. /\ Lost \in Nat /\ Lost + Len(got) + Len(toClient) = Taken
        /\ From(got, Lost) /\ From(toClient, Lost + Len(got))
    BY <1>2 DEF StreamInv, FirstStream
  <2>3. n = Len(got) + Len(toClient)  BY <2>1, <2>2 DEF Taken
  <2>4. /\ s \in Seq(Bytes) /\ Len(s) = n
        /\ \A k \in 1..n : s[k] = IF k =< Len(got) THEN got[k] ELSE toClient[k - Len(got)]
    BY <2>1, <2>3, ConcatProperties
  <2>5. DOMAIN s = 1..n /\ s = [k \in 1..n |-> s[k]]
    BY <2>4, LenProperties
  <2> HIDE DEF s, n
  <2>6. ASSUME NEW k \in 1..n PROVE s[k] = Lost + k
    <3>1. CASE k =< Len(got)
      <4>1. k \in 1..Len(got)  BY <3>1, <2>1, <2>3
      <4>. QED  BY <3>1, <4>1, <2>2, <2>4 DEF From
    <3>2. CASE ~ (k =< Len(got))
      <4>1. k - Len(got) \in 1..Len(toClient) /\ Lost + Len(got) + (k - Len(got)) = Lost + k
        BY <3>2, <2>1, <2>2, <2>3
      <4>. QED  BY <3>2, <4>1, <2>2, <2>4 DEF From
    <3>. QED  BY <3>1, <3>2
  <2>7. s = [i \in 1..n |-> Lost + i]  BY <2>5, <2>6
  <2>. QED  BY <2>7 DEF s, n
<1>. QED  BY <1>1, <1>2, PTL

-----------------------------------------------------------------------------
(* Container events (GuestEvents, PortForwarding).                         *)

Views == [Names -> Statuses]

(* The client's connection is open, registered with the poller and served. *)
ClientIsServed ==
    client # 0 => /\ client \in subs /\ conn[client].open
                  /\ conn[client].st \in {"registered", "streaming"}

(* Before its snapshot a connection has sent nothing.                      *)
SnapshotIsFirst == \A k \in ConnIds : conn[k].st = "registered" => conn[k].wire = <<>>

(* What waits in the channel of a connection that has sent nothing yet     *)
(* keeps every picture that is right about a container right about it.     *)
SnapshotFits ==
    client # 0 /\ conn[client].st = "registered" /\ ~conn[client].lossy
        => \A v \in Views, n \in Names :
              v[n] = current[n] => Agrees(Seen(v, conn[client].chan \o Pending), current, n)

(* The property itself holds only for statuses the poller gets to see.     *)
StreamFits == EveryStatusSeen => StreamLeadsToSample

EventInv ==
    /\ StreamTypeOK
    /\ poll = "sleeping" => prev = current
    /\ ClientIsServed /\ SnapshotIsFirst /\ SnapshotFits /\ StreamFits

-----------------------------------------------------------------------------
(* What a list of events does to a picture.                                *)
LEMMA ApplyKeepsViews ==
  ASSUME NEW e \in Events, NEW v \in Views
  PROVE  Apply(e, v) \in Views
<1>1. CASE e \in [type : {"snapshot"}, states : [Names -> Statuses]]
  BY <1>1 DEF Apply, Views
<1>2. CASE e \in [type : {"started"}, name : Names, status : {"running", "exited"}]
  <2>1. Apply(e, v) = [v EXCEPT ![e.name] = e.status]  BY <1>2 DEF Apply
  <2>2. e.name \in Names /\ e.status \in Statuses  BY <1>2 DEF Statuses
  <2>. QED  BY <2>1, <2>2 DEF Views
<1>3. CASE e \in [type : {"exited"}, name : Names]
  <2>1. Apply(e, v) = [v EXCEPT ![e.name] = "absent"]  BY <1>3 DEF Apply
  <2>2. e.name \in Names /\ "absent" \in Statuses  BY <1>3 DEF Statuses
  <2>. QED  BY <2>1, <2>2 DEF Views
<1>. QED  BY <1>1, <1>2, <1>3 DEF Events

(* The pictures a subscriber has on its way through a list.                *)
History(g, v, s) ==
    /\ g \in [0..Len(s) -> Views] /\ g[0] = v
    /\ \A i \in 1..Len(s) : g[i] = Apply(s[i], g[i - 1])

LEMMA SeenHasHistory ==
  ASSUME NEW v \in Views, NEW s \in Seq(Events)
  PROVE  \E g : History(g, v, s) /\ Seen(v, s) = g[Len(s)]
<1> DEFINE m == Len(s)
           after[i \in 0..m] == IF i = 0 THEN v ELSE Apply(s[i], after[i - 1])
           step == [i \in 1..m |-> [w \in Views |-> Apply(s[i], w)]]
<1>1. m \in Nat /\ \A i \in 1..m : s[i] \in Events  BY LenProperties, ElementOfSeq
<1>2. step \in StepsOn(Views, m)  BY <1>1, ApplyKeepsViews DEF StepsOn
<1>3. PICK f : IsRun(f, Views, v, m, step)
  <2> HIDE DEF step, m, after
  <2>. QED  BY <1>1, <1>2, Iterates
<1>4. ASSUME NEW i \in 0..m PROVE f[i] = IF i = 0 THEN v ELSE Apply(s[i], f[i - 1])
  <2>1. CASE i = 0  BY <2>1, <1>3 DEF IsRun
  <2>2. CASE i # 0
    <3>1. i \in 1..m /\ i - 1 \in 0..m  BY <2>2, <1>1
    <3>2. f[i - 1] \in Views  BY <3>1, <1>3 DEF IsRun
    <3>. QED  BY <2>2, <3>1, <3>2, <1>3 DEF IsRun
  <2>. QED  BY <2>1, <2>2
<1>5. f = [i \in 0..m |-> IF i = 0 THEN v ELSE Apply(s[i], f[i - 1])]
  <2>1. f = [i \in 0..m |-> f[i]]  BY <1>3 DEF IsRun
  <2>. QED  BY <2>1, <1>4
<1>6. \E g : g = [i \in 0..m |-> IF i = 0 THEN v ELSE Apply(s[i], g[i - 1])]  BY <1>5
<1>7. after = [i \in 0..m |-> IF i = 0 THEN v ELSE Apply(s[i], after[i - 1])]
  <2> HIDE DEF m, step
  <2>. QED  BY <1>6, Zenon
<1>8. Seen(v, s) = after[m]  BY DEF Seen
<1> HIDE DEF m, after, step
<1>9. after[0] = v /\ \A i \in 1..m : after[i] = Apply(s[i], after[i - 1])
  <2>1. 0 \in 0..m /\ \A i \in 1..m : i \in 0..m /\ i # 0  BY <1>1
  <2>. QED  BY <2>1, <1>7
<1> DEFINE Done == {i \in 0..m : after[i] \in Views}
<1>10. 0 \in Done
  <2>1. 0 \in 0..m  BY <1>1
  <2>. QED  BY <2>1, <1>9
<1>11. ASSUME NEW i \in 0..(m - 1), i \in Done PROVE i + 1 \in Done
  <2>1. i + 1 \in 1..m /\ i + 1 \in 0..m /\ (i + 1) - 1 = i  BY <1>1
  <2>2. after[i + 1] = Apply(s[i + 1], after[i])  BY <2>1, <1>9
  <2>. QED  BY <2>1, <2>2, <1>1, <1>11, ApplyKeepsViews
<1> HIDE DEF Done
<1>12. \A i \in 0..m : i \in Done  BY <1>1, <1>10, <1>11, UpTo
<1>13. after \in [0..m -> Views]
  <2>1. after = [i \in 0..m |-> after[i]]
    <3>1. DOMAIN after = 0..m  BY <1>7, Zenon
    <3>2. after = [i \in DOMAIN after |-> after[i]]
      <4> DEFINE F == [i \in 0..m |-> IF i = 0 THEN v ELSE Apply(s[i], after[i - 1])]
      <4>1. F = [i \in DOMAIN F |-> F[i]]  OBVIOUS
      <4>2. after = F  BY <1>7
      <4> HIDE DEF F
      <4>. QED  BY <4>1, <4>2
    <3>. QED  BY <3>1, <3>2
  <2>2. \A i \in 0..m : after[i] \in Views  BY <1>12 DEF Done
  <2>. QED  BY <2>1, <2>2
<1>14. History(after, v, s)  BY <1>9, <1>13 DEF History, m
<1>. QED  BY <1>8, <1>14 DEF m

(* There is only one.                                                      *)
LEMMA HistoryIsSeen ==
  ASSUME NEW v \in Views, NEW s \in Seq(Events), NEW g, History(g, v, s)
  PROVE  Seen(v, s) = g[Len(s)] /\ Seen(v, s) \in Views
<1> DEFINE m == Len(s)
<1>1. PICK h : History(h, v, s) /\ Seen(v, s) = h[m]  BY SeenHasHistory
<1>2. m \in Nat  BY LenProperties
<1> HIDE DEF m
<1> DEFINE Done == {i \in 0..m : g[i] = h[i]}
<1>3. 0 \in Done
  <2>1. 0 \in 0..m  BY <1>2
  <2>. QED  BY <2>1, <1>1 DEF History
<1>4. ASSUME NEW i \in 0..(m - 1), i \in Done PROVE i + 1 \in Done
  <2>1. i + 1 \in 1..m /\ i + 1 \in 0..m /\ (i + 1) - 1 = i  BY <1>2
  <2>2. g[i + 1] = Apply(s[i + 1], g[i]) /\ h[i + 1] = Apply(s[i + 1], h[i])
    BY <2>1, <1>1 DEF History, m
  <2>. QED  BY <2>1, <2>2, <1>4
<1> HIDE DEF Done
<1>5. \A i \in 0..m : i \in Done  BY <1>2, <1>3, <1>4, UpTo
<1>6. m \in 0..m  BY <1>2
<1>7. g[m] = h[m] /\ g[m] \in Views  BY <1>5, <1>6 DEF Done, History, m
<1>. QED  BY <1>1, <1>7 DEF m

LEMMA SeenIsView ==
  ASSUME NEW v \in Views, NEW s \in Seq(Events)
  PROVE  Seen(v, s) \in Views
<1>1. PICK g : History(g, v, s)  BY SeenHasHistory
<1>. QED  BY <1>1, HistoryIsSeen

LEMMA SeenNothing ==
  ASSUME NEW v \in Views
  PROVE  Seen(v, <<>>) = v
<1>1. <<>> \in Seq(Events) /\ Len(<<>>) = 0  BY EmptySeq
<1>2. PICK g : History(g, v, <<>>) /\ Seen(v, <<>>) = g[Len(<<>>)]  BY <1>1, SeenHasHistory
<1>. QED  BY <1>1, <1>2 DEF History

(* One event more.                                                         *)
LEMMA SeenAppend ==
  ASSUME NEW v \in Views, NEW s \in Seq(Events), NEW e \in Events
  PROVE  Seen(v, Append(s, e)) = Apply(e, Seen(v, s))
<1> DEFINE m == Len(s)
           t == Append(s, e)
<1>1. /\ m \in Nat /\ t \in Seq(Events) /\ Len(t) = m + 1 /\ t[m + 1] = e
      /\ \A i \in 1..m : t[i] = s[i]
  BY AppendProperties, LenProperties
<1> HIDE DEF m, t
<1>2. PICK g : History(g, v, t) /\ Seen(v, t) = g[m + 1]  BY <1>1, SeenHasHistory
<1> DEFINE h == [i \in 0..m |-> g[i]]
<1>3. \A i \in 0..m : i \in 0..(m + 1)  BY <1>1
<1>4. h \in [0..m -> Views] /\ h[0] = v
  <2>1. 0 \in 0..m  BY <1>1
  <2>. QED  BY <2>1, <1>1, <1>2, <1>3 DEF History
<1>5. ASSUME NEW i \in 1..m PROVE h[i] = Apply(s[i], h[i - 1])
  <2>1. i \in 0..m /\ i - 1 \in 0..m /\ i \in 1..(m + 1)  BY <1>1
  <2>. QED  BY <2>1, <1>1, <1>2 DEF History
<1>6. h[m] = g[m] /\ g[m + 1] = Apply(e, g[m])
  <2>1. m \in 0..m /\ m + 1 \in 1..(m + 1) /\ (m + 1) - 1 = m  BY <1>1
  <2>. QED  BY <2>1, <1>1, <1>2 DEF History
<1> HIDE DEF h
<1>7. History(h, v, s)  BY <1>4, <1>5 DEF History, m
<1>8. Seen(v, s) = h[m]  BY <1>7, HistoryIsSeen DEF m
<1>. QED  BY <1>2, <1>6, <1>8 DEF t

LEMMA SeenOne ==
  ASSUME NEW v \in Views, NEW e \in Events
  PROVE  Seen(v, <<e>>) = Apply(e, v)
<1>1. <<e>> = Append(<<>>, e) /\ <<>> \in Seq(Events)  OBVIOUS
<1>2. Seen(v, Append(<<>>, e)) = Apply(e, Seen(v, <<>>))  BY <1>1, SeenAppend
<1>. QED  BY <1>1, <1>2, SeenNothing

LEMMA SeenTwo ==
  ASSUME NEW v \in Views, NEW e \in Events, NEW f \in Events
  PROVE  Seen(v, <<e, f>>) = Apply(f, Apply(e, v))
<1>1. <<e, f>> = Append(<<e>>, f) /\ <<e>> \in Seq(Events)  OBVIOUS
<1>2. Seen(v, Append(<<e>>, f)) = Apply(f, Seen(v, <<e>>))  BY <1>1, SeenAppend
<1>. QED  BY <1>1, <1>2, SeenOne

(* One list after the other.                                               *)
LEMMA SeenConcat ==
  ASSUME NEW v \in Views, NEW s \in Seq(Events), NEW d \in Seq(Events)
  PROVE  Seen(v, s \o d) = Seen(Seen(v, s), d)
<1> DEFINE m == Len(d)
           u == Seen(v, s)
           Done == {i \in 0..m : Seen(v, s \o First(d, i)) = Seen(u, First(d, i))}
<1>1. m \in Nat /\ u \in Views  BY LenProperties, SeenIsView
<1> HIDE DEF m, u
<1>2. 0 \in Done
  <2>1. 0 \in 0..m  BY <1>1
  <2>2. First(d, 0) = <<>> /\ s \o <<>> = s  BY FirstNone, ConcatEmptySeq
  <2>3. Seen(v, s) = u /\ Seen(u, <<>>) = u  BY <1>1, SeenNothing DEF u
  <2>. QED  BY <2>1, <2>2, <2>3
<1>3. ASSUME NEW i \in 0..(m - 1), i \in Done PROVE i + 1 \in Done
  <2> DEFINE p == First(d, i)
             e == d[i + 1]
             sp == s \o p
  <2>1. i + 1 \in 1..m /\ i + 1 \in 0..m /\ i \in 0..m  BY <1>1
  <2>2. p \in Seq(Events) /\ e \in Events /\ First(d, i + 1) = Append(p, e)
    <3>1. i \in 0..Len(d) /\ i + 1 \in 1..Len(d) /\ i \in 0..(Len(d) - 1)  BY <2>1 DEF m
    <3>. QED  BY <3>1, FirstProperties, FirstGrows, ElementOfSeq
  <2>3. Seen(v, sp) = Seen(u, p)  BY <1>3
  <2> HIDE DEF p, e
  <2>4. sp \in Seq(Events) /\ s \o Append(p, e) = Append(sp, e)
    BY <2>2, ConcatProperties, ConcatAppend
  <2> HIDE DEF sp
  <2>5. Seen(v, Append(sp, e)) = Apply(e, Seen(v, sp))  BY <2>2, <2>4, SeenAppend
  <2>6. Seen(u, Append(p, e)) = Apply(e, Seen(u, p))  BY <2>2, <1>1, SeenAppend
  <2>. QED  BY <2>1, <2>2, <2>3, <2>4, <2>5, <2>6
<1> HIDE DEF Done
<1>4. \A i \in 0..m : i \in Done  BY <1>1, <1>2, <1>3, UpTo
<1>5. m \in 0..m  BY <1>1
<1>6. First(d, m) = d  BY FirstAll DEF m
<1>. QED  BY <1>4, <1>5, <1>6 DEF Done, u

(* What is received has no other effect than it had on its way.            *)
LEMMA SeenHead ==
  ASSUME NEW v \in Views, NEW s \in Seq(Events), s # <<>>
  PROVE  Seen(v, s) = Seen(Apply(Head(s), v), Tail(s))
<1>1. Head(s) \in Events /\ Tail(s) \in Seq(Events) /\ <<Head(s)>> \in Seq(Events)
  BY HeadTailProperties
<1>2. s = <<Head(s)>> \o Tail(s)  BY <1>1
<1>3. Seen(v, <<Head(s)>> \o Tail(s)) = Seen(Seen(v, <<Head(s)>>), Tail(s))
  BY <1>1, SeenConcat
<1>. QED  BY <1>1, <1>2, <1>3, SeenOne

-----------------------------------------------------------------------------
(* One list per container, joined.                                         *)
Joins(u, lists) ==
    /\ u \in [0..NumNames -> Seq(Events)] /\ u[0] = <<>>
    /\ \A n \in Names : u[n] = u[n - 1] \o lists[n]

LEMMA JoinedJoins ==
  ASSUME NEW lists \in [Names -> Seq(Events)]
  PROVE  \E u : Joins(u, lists) /\ Joined(lists) = u[NumNames]
<1> DEFINE N == NumNames
           S == Seq(Events)
           upTo[n \in 0..N] == IF n = 0 THEN <<>> ELSE upTo[n - 1] \o lists[n]
           step == [n \in 1..N |-> [w \in S |-> w \o lists[n]]]
<1>1. N \in Nat /\ Names = 1..N /\ <<>> \in S  BY GuestEventsAssumption, EmptySeq DEF Names
<1>2. step \in StepsOn(S, N)  BY <1>1, ConcatProperties DEF StepsOn
<1>3. PICK f : IsRun(f, S, <<>>, N, step)
  <2> HIDE DEF step, N, S, upTo
  <2>. QED  BY <1>1, <1>2, Iterates
<1>4. ASSUME NEW n \in 0..N PROVE f[n] = IF n = 0 THEN <<>> ELSE f[n - 1] \o lists[n]
  <2>1. CASE n = 0  BY <2>1, <1>3 DEF IsRun
  <2>2. CASE n # 0
    <3>1. n \in 1..N /\ n - 1 \in 0..N  BY <2>2, <1>1
    <3>2. f[n - 1] \in S  BY <3>1, <1>3 DEF IsRun
    <3>. QED  BY <2>2, <3>1, <3>2, <1>3 DEF IsRun
  <2>. QED  BY <2>1, <2>2
<1>5. f = [n \in 0..N |-> IF n = 0 THEN <<>> ELSE f[n - 1] \o lists[n]]
  <2>1. f = [n \in 0..N |-> f[n]]  BY <1>3 DEF IsRun
  <2>. QED  BY <2>1, <1>4
<1>6. \E g : g = [n \in 0..N |-> IF n = 0 THEN <<>> ELSE g[n - 1] \o lists[n]]  BY <1>5
<1>7. upTo = [n \in 0..N |-> IF n = 0 THEN <<>> ELSE upTo[n - 1] \o lists[n]]
  <2> HIDE DEF N, S, step
  <2>. QED  BY <1>6, Zenon
<1>8. Joined(lists) = upTo[N]  BY DEF Joined
<1> HIDE DEF N, upTo, step
<1>9. upTo[0] = <<>> /\ \A n \in 1..N : upTo[n] = upTo[n - 1] \o lists[n]
  <2>1. 0 \in 0..N /\ \A n \in 1..N : n \in 0..N /\ n # 0  BY <1>1
  <2>. QED  BY <2>1, <1>7
<1> DEFINE Done == {n \in 0..N : upTo[n] \in S}
<1>10. 0 \in Done
  <2>1. 0 \in 0..N  BY <1>1
  <2>. QED  BY <2>1, <1>1, <1>9
<1>11. ASSUME NEW n \in 0..(N - 1), n \in Done PROVE n + 1 \in Done
  <2>1. n + 1 \in 1..N /\ n + 1 \in 0..N /\ (n + 1) - 1 = n  BY <1>1
  <2>2. upTo[n + 1] = upTo[n] \o lists[n + 1]  BY <2>1, <1>9
  <2>3. lists[n + 1] \in S  BY <2>1, <1>1
  <2>4. upTo[n] \in Seq(Events) /\ lists[n + 1] \in Seq(Events)  BY <2>3, <1>11
  <2>5. upTo[n] \o lists[n + 1] \in Seq(Events)  BY <2>4, ConcatProperties, Zenon
  <2>. QED  BY <2>1, <2>2, <2>5
<1> HIDE DEF Done
<1>12. \A n \in 0..N : n \in Done  BY <1>1, <1>10, <1>11, UpTo
<1>13. upTo \in [0..N -> S]
  <2> DEFINE F == [n \in 0..N |-> IF n = 0 THEN <<>> ELSE upTo[n - 1] \o lists[n]]
  <2>1. F = [n \in 0..N |-> F[n]]  OBVIOUS
  <2>2. upTo = F  BY <1>7
  <2> HIDE DEF F
  <2>3. upTo = [n \in 0..N |-> upTo[n]]  BY <2>1, <2>2
  <2>4. \A n \in 0..N : upTo[n] \in S  BY <1>12 DEF Done
  <2>. QED  BY <2>3, <2>4
<1>14. Joins(upTo, lists)  BY <1>1, <1>9, <1>13 DEF Joins, N
<1>. QED  BY <1>8, <1>14 DEF N

LEMMA JoinedIsList ==
  ASSUME NEW lists \in [Names -> Seq(Events)]
  PROVE  Joined(lists) \in Seq(Events)
<1>1. PICK u : Joins(u, lists) /\ Joined(lists) = u[NumNames]  BY JoinedJoins
<1>2. NumNames \in 0..NumNames  BY GuestEventsAssumption
<1>. QED  BY <1>1, <1>2 DEF Joins

(* When no list but n's own speaks of container n, the joined list does to *)
(* it what its own list does.                                              *)
LEMMA JoinedActsAlone ==
  ASSUME NEW lists \in [Names -> Seq(Events)], NEW v \in Views, NEW n \in Names,
         \A m \in Names \ {n} : \A w \in Views : Seen(w, lists[m])[n] = w[n]
  PROVE  \E w \in Views : w[n] = v[n] /\ Seen(v, Joined(lists))[n] = Seen(w, lists[n])[n]
<1> DEFINE N == NumNames
<1>1. PICK u : Joins(u, lists) /\ Joined(lists) = u[N]  BY JoinedJoins
<1>2. N \in Nat /\ Names = 1..N /\ n \in 1..N /\ n - 1 \in 0..N
  BY GuestEventsAssumption DEF Names
<1> HIDE DEF N
<1> DEFINE at == [i \in 0..N |-> Seen(v, u[i])]
           w == at[n - 1]
<1>3. \A i \in 0..N : u[i] \in Seq(Events) /\ at[i] \in Views /\ at[i] = Seen(v, u[i])
  BY <1>1, SeenIsView DEF Joins, N
<1>4. at[0] = v
  <2>1. 0 \in 0..N  BY <1>2
  <2>. QED  BY <2>1, <1>1, <1>3, SeenNothing DEF Joins
<1>5. ASSUME NEW i \in 0..(N - 1) PROVE at[i + 1] = Seen(at[i], lists[i + 1])
  <2>1. i \in 0..N /\ i + 1 \in 0..N /\ i + 1 \in Names /\ (i + 1) - 1 = i  BY <1>2
  <2>2. u[i + 1] = u[i] \o lists[i + 1]  BY <2>1, <1>1 DEF Joins
  <2>3. lists[i + 1] \in Seq(Events)  BY <2>1
  <2>4. Seen(v, u[i] \o lists[i + 1]) = Seen(Seen(v, u[i]), lists[i + 1])
    BY <2>1, <2>3, <1>3, SeenConcat
  <2>. QED  BY <2>1, <2>2, <2>4, <1>3
<1>6. w \in Views  BY <1>2, <1>3
<1>7. at[n] = Seen(w, lists[n])
  <2>1. n - 1 \in 0..(N - 1) /\ (n - 1) + 1 = n  BY <1>2
  <2>. QED  BY <2>1, <1>5
<1> HIDE DEF at, w
<1> DEFINE Done == {i \in 0..N : /\ i < n => at[i][n] = v[n]
                                 /\ i >= n => at[i][n] = at[n][n]}
<1>8. 0 \in Done  BY <1>2, <1>4
<1>9. ASSUME NEW i \in 0..(N - 1), i \in Done PROVE i + 1 \in Done
  <2>1. i \in 0..N /\ i + 1 \in 0..N /\ i + 1 \in Names  BY <1>2
  <2>2. CASE i + 1 = n  BY <2>1, <2>2, <1>2
  <2>3. CASE i + 1 # n
    <3>1. at[i + 1][n] = at[i][n]  BY <2>1, <2>3, <1>3, <1>5
    <3>2. (i + 1 < n => i < n) /\ (i + 1 >= n => i >= n)  BY <2>1, <2>3, <1>2
    <3>. QED  BY <3>1, <3>2, <2>1, <1>9
  <2>. QED  BY <2>2, <2>3
<1> HIDE DEF Done
<1>10. \A i \in 0..N : i \in Done  BY <1>2, <1>8, <1>9, UpTo
<1>11. w[n] = v[n]
  <2>1. n - 1 < n /\ n - 1 \in Done  BY <1>2, <1>10
  <2>. QED  BY <2>1 DEF Done, w
<1>12. at[N][n] = at[n][n]
  <2>1. N >= n /\ N \in Done  BY <1>2, <1>10
  <2>. QED  BY <2>1 DEF Done
<1>13. at[N] = Seen(v, Joined(lists))
  <2>1. N \in 0..N  BY <1>2
  <2>. QED  BY <2>1, <1>1, <1>3
<1>. QED  BY <1>6, <1>7, <1>11, <1>12, <1>13

(* The two halves of a batch, for one container.                           *)
LEMMA EventsOfContainer ==
  ASSUME NEW n \in Names
  PROVE  Started(n, "running") \in Events /\ Started(n, "exited") \in Events /\ Exited(n) \in Events
  BY DEF Started, Exited, Events

LEMMA AppearedActs ==
  ASSUME NEW old \in Views, NEW now \in Views, NEW m \in Names, NEW w \in Views, NEW n \in Names
  PROVE  /\ Appeared(m, old, now) \in Seq(Events)
         /\ m # n => Seen(w, Appeared(m, old, now))[n] = w[n]
         /\ m = n => Seen(w, Appeared(m, old, now))[n]
                        = CASE old[n] # "running" /\ now[n] = "running" -> "running"
                            [] old[n] = "absent" /\ now[n] = "exited" -> "absent"
                            [] OTHER -> w[n]
<1> DEFINE l == Appeared(m, old, now)
<1>1. Started(m, "running") \in Events /\ Started(m, "exited") \in Events /\ Exited(m) \in Events
  BY EventsOfContainer
<1>2. /\ Apply(Started(m, "running"), w) = [w EXCEPT ![m] = "running"]
      /\ Apply(Started(m, "exited"), w) = [w EXCEPT ![m] = "exited"]
      /\ \A x : Apply(Exited(m), x) = [x EXCEPT ![m] = "absent"]
  BY DEF Apply, Started, Exited
<1>3. CASE old[m] # "running" /\ now[m] = "running"
  <2>1. l = <<Started(m, "running")>>  BY <1>3 DEF Appeared
  <2>2. Seen(w, l) = [w EXCEPT ![m] = "running"]  BY <2>1, <1>1, <1>2, SeenOne
  <2>3. l \in Seq(Events)  BY <2>1, <1>1
  <2>. QED  BY <2>2, <2>3, <1>3 DEF Views
<1>4. CASE old[m] = "absent" /\ now[m] = "exited"
  <2>1. l = <<Started(m, "exited"), Exited(m)>>  BY <1>4 DEF Appeared
  <2>2. Seen(w, l) = Apply(Exited(m), Apply(Started(m, "exited"), w))
    BY <2>1, <1>1, SeenTwo
  <2>3. Seen(w, l) = [[w EXCEPT ![m] = "exited"] EXCEPT ![m] = "absent"]
    BY <2>2, <1>2
  <2>4. l \in Seq(Events)  BY <2>1, <1>1
  <2>. QED  BY <2>3, <2>4, <1>4 DEF Views
<1>5. CASE /\ ~ (old[m] # "running" /\ now[m] = "running")
           /\ ~ (old[m] = "absent" /\ now[m] = "exited")
  <2>1. l = <<>>  BY <1>5 DEF Appeared
  <2>2. Seen(w, l) = w /\ l \in Seq(Events)  BY <2>1, SeenNothing, EmptySeq
  <2>. QED  BY <2>2, <1>5
<1>. QED  BY <1>3, <1>4, <1>5

Gone(old, now, n) ==
    \/ old[n] # "absent" /\ now[n] = "absent"
    \/ old[n] = "running" /\ now[n] = "exited"

LEMMA DisappearedActs ==
  ASSUME NEW old \in Views, NEW now \in Views, NEW m \in Names, NEW w \in Views, NEW n \in Names
  PROVE  /\ Disappeared(m, old, now) \in Seq(Events)
         /\ m # n => Seen(w, Disappeared(m, old, now))[n] = w[n]
         /\ m = n => Seen(w, Disappeared(m, old, now))[n]
                        = IF Gone(old, now, n) THEN "absent" ELSE w[n]
<1> DEFINE l == Disappeared(m, old, now)
<1>1. CASE Gone(old, now, m)
  <2>1. l = <<Exited(m)>> /\ Exited(m) \in Events
    BY <1>1, EventsOfContainer DEF Disappeared, Gone
  <2>2. Seen(w, l) = [w EXCEPT ![m] = "absent"]
    BY <2>1, SeenOne DEF Apply, Exited
  <2>3. l \in Seq(Events)  BY <2>1
  <2>. QED  BY <2>2, <2>3, <1>1 DEF Views
<1>2. CASE ~ Gone(old, now, m)
  <2>1. l = <<>>  BY <1>2 DEF Disappeared, Gone
  <2>2. Seen(w, l) = w /\ l \in Seq(Events)  BY <2>1, SeenNothing, EmptySeq
  <2>. QED  BY <2>2, <1>2
<1>. QED  BY <1>1, <1>2

(* A batch leaves the containers alone that have not changed, and tells    *)
(* the truth about the others, whatever was believed before.               *)
LEMMA DiffTellsTruth ==
  ASSUME NEW old \in Views, NEW now \in Views, NEW v \in Views, NEW n \in Names
  PROVE  LET d == diff_container_states(old, now)
         IN  /\ d \in Seq(Events)
             /\ old[n] = now[n] => Seen(v, d)[n] = v[n]
             /\ old[n] # now[n] => Agrees(Seen(v, d), now, n)
<1> DEFINE A == [m \in Names |-> Appeared(m, old, now)]
           B == [m \in Names |-> Disappeared(m, old, now)]
           a == Joined(A)
           b == Joined(B)
           x == Seen(v, a)
<1>1. A \in [Names -> Seq(Events)] /\ B \in [Names -> Seq(Events)]
  BY AppearedActs, DisappearedActs
<1>2. /\ A[n] = Appeared(n, old, now) /\ B[n] = Disappeared(n, old, now)
      /\ \A m \in Names \ {n} : \A w \in Views : Seen(w, A[m])[n] = w[n]
      /\ \A m \in Names \ {n} : \A w \in Views : Seen(w, B[m])[n] = w[n]
  <2>1. ASSUME NEW m \in Names \ {n}, NEW w \in Views
        PROVE  Seen(w, A[m])[n] = w[n] /\ Seen(w, B[m])[n] = w[n]
    <3>1. m \in Names /\ m # n  OBVIOUS
    <3>2. Seen(w, Appeared(m, old, now))[n] = w[n]  BY <3>1, AppearedActs
    <3>3. Seen(w, Disappeared(m, old, now))[n] = w[n]  BY <3>1, DisappearedActs
    <3>4. A[m] = Appeared(m, old, now) /\ B[m] = Disappeared(m, old, now)  BY <3>1
    <3>. QED  BY <3>2, <3>3, <3>4
  <2>. QED  BY <2>1
<1>3. diff_container_states(old, now) = a \o b  BY DEF diff_container_states
<1> HIDE DEF A, B
<1>4. a \in Seq(Events) /\ b \in Seq(Events)  BY <1>1, JoinedIsList
<1>5. PICK w1 \in Views : w1[n] = v[n] /\ x[n] = Seen(w1, A[n])[n]
  BY <1>1, <1>2, JoinedActsAlone
<1>6. x \in Views  BY <1>4, SeenIsView
<1> HIDE DEF x
<1>7. PICK w2 \in Views : w2[n] = x[n] /\ Seen(x, b)[n] = Seen(w2, B[n])[n]
  BY <1>1, <1>2, <1>6, JoinedActsAlone
<1> HIDE DEF a, b
<1>8. a \o b \in Seq(Events) /\ Seen(v, a \o b) = Seen(x, b)
  BY <1>4, ConcatProperties, SeenConcat DEF x
<1>9. x[n] = CASE old[n] # "running" /\ now[n] = "running" -> "running"
               [] old[n] = "absent" /\ now[n] = "exited" -> "absent"
               [] OTHER -> v[n]
  <2>1. x[n] = Seen(w1, Appeared(n, old, now))[n]  BY <1>2, <1>5
  <2>2. Seen(w1, Appeared(n, old, now))[n]
           = CASE old[n] # "running" /\ now[n] = "running" -> "running"
               [] old[n] = "absent" /\ now[n] = "exited" -> "absent"
               [] OTHER -> w1[n]
    BY AppearedActs
  <2>. QED  BY <2>1, <2>2, <1>5
<1>10. Seen(x, b)[n] = IF Gone(old, now, n) THEN "absent" ELSE x[n]
  <2>1. Seen(x, b)[n] = Seen(w2, Disappeared(n, old, now))[n]  BY <1>2, <1>7
  <2>2. Seen(w2, Disappeared(n, old, now))[n] = IF Gone(old, now, n) THEN "absent" ELSE w2[n]
    BY DisappearedActs
  <2>. QED  BY <2>1, <2>2, <1>7
<1>11. old[n] \in Statuses /\ now[n] \in Statuses  BY DEF Views
<1> DEFINE z == Seen(v, a \o b)
<1>12. z[n] = IF Gone(old, now, n) THEN "absent" ELSE x[n]  BY <1>8, <1>10
<1> HIDE DEF z
<1>13. old[n] = now[n] => z[n] = v[n]  BY <1>9, <1>11, <1>12 DEF Gone, Statuses
<1>14. old[n] # now[n] => Agrees(z, now, n)
  BY <1>9, <1>11, <1>12 DEF Gone, Statuses, Agrees
<1>. QED  BY <1>3, <1>8, <1>13, <1>14 DEF z

(* No events, no change.                                                   *)
LEMMA NoEventsNoChange ==
  ASSUME NEW old \in Views, NEW now \in Views, diff_container_states(old, now) = <<>>
  PROVE  old = now
<1>1. ASSUME NEW n \in Names, old[n] # now[n] PROVE FALSE
  <2> DEFINE v == [m \in Names |-> IF now[n] = "running" THEN "absent" ELSE "running"]
  <2>1. v \in Views /\ v[n] = IF now[n] = "running" THEN "absent" ELSE "running"
    BY DEF Views, Statuses
  <2> HIDE DEF v
  <2>2. Agrees(Seen(v, <<>>), now, n)  BY <2>1, <1>1, DiffTellsTruth
  <2>3. Seen(v, <<>>) = v  BY <2>1, SeenNothing
  <2>. QED  BY <2>1, <2>2, <2>3 DEF Agrees
<1>. QED  BY <1>1 DEF Views

-----------------------------------------------------------------------------
(* A list s brings a subscriber that believes v to the sample cur, for the *)
(* containers that are in cur as they are in c.                            *)
LeadsTo(v, s, c, cur) ==
    \A n \in Names : c[n] = cur[n] => Agrees(Seen(v, s), cur, n)

LEMMA StreamIsLeadsTo ==
  StreamFits
    = (EveryStatusSeen /\ client # 0 /\ conn[client].st = "streaming" /\ ~conn[client].lossy
         => LeadsTo(view, OnItsWay(client), containers, current))
  BY DEF StreamFits, StreamLeadsToSample, LeadsTo, Expected

LEMMA FitsIsLeadsTo ==
  SnapshotFits
    = (client # 0 /\ conn[client].st = "registered" /\ ~conn[client].lossy
         => \A v \in Views : LeadsTo(v, conn[client].chan \o Pending, v, current))
  BY DEF SnapshotFits, LeadsTo

(* The next batch brings it to the next sample.                            *)
LEMMA BatchLeadsOn ==
  ASSUME NEW v \in Views, NEW s \in Seq(Events), NEW c \in Views,
         NEW old \in Views, NEW now \in Views, LeadsTo(v, s, c, old)
  PROVE  LeadsTo(v, s \o diff_container_states(old, now), c, now)
<1> SUFFICES ASSUME NEW n \in Names, c[n] = now[n]
             PROVE  Agrees(Seen(v, s \o diff_container_states(old, now)), now, n)
  BY DEF LeadsTo
<1> DEFINE d == diff_container_states(old, now)
           u == Seen(v, s)
<1>1. u \in Views  BY SeenIsView
<1>2. /\ d \in Seq(Events)
      /\ old[n] = now[n] => Seen(u, d)[n] = u[n]
      /\ old[n] # now[n] => Agrees(Seen(u, d), now, n)
  BY <1>1, DiffTellsTruth
<1> HIDE DEF d
<1>3. Seen(v, s \o d) = Seen(u, d)  BY <1>2, SeenConcat
<1>4. CASE old[n] = now[n]
  <2>1. Agrees(u, old, n)  BY <1>4 DEF LeadsTo
  <2>2. Agrees(Seen(u, d), now, n)  BY <2>1, <1>2, <1>4 DEF Agrees
  <2>. QED  BY <2>2, <1>3 DEF d
<1>5. CASE old[n] # now[n]  BY <1>5, <1>2, <1>3 DEF d
<1>. QED  BY <1>4, <1>5

LEMMA NothingLeadsTo ==
  ASSUME NEW v \in Views, NEW cur \in Views
  PROVE  LeadsTo(v, <<>>, v, cur)
  BY SeenNothing DEF LeadsTo, Agrees

LEMMA PendingIsList ==
  ASSUME EventInv
  PROVE  /\ Pending \in Seq(Events) /\ {containers, prev, current, view} \subseteq Views
         /\ conn \in [ConnIds -> Conns] /\ client \in {0} \cup ConnIds
         /\ \A k \in ConnIds : conn[k].chan \in Seq(Events) /\ conn[k].wire \in Seq(Events)
<1>1. {containers, prev, current, view} \subseteq Views  BY DEF EventInv, StreamTypeOK, Views
<1>2. diff_container_states(prev, current) \in Seq(Events)
  <2>1. diff_container_states(prev, current)
           = Joined([n \in Names |-> Appeared(n, prev, current)])
                \o Joined([n \in Names |-> Disappeared(n, prev, current)])
    BY DEF diff_container_states
  <2>2. [n \in Names |-> Appeared(n, prev, current)] \in [Names -> Seq(Events)]
    BY <1>1, AppearedActs
  <2>3. [n \in Names |-> Disappeared(n, prev, current)] \in [Names -> Seq(Events)]
    BY <1>1, DisappearedActs
  <2>4. /\ Joined([n \in Names |-> Appeared(n, prev, current)]) \in Seq(Events)
        /\ Joined([n \in Names |-> Disappeared(n, prev, current)]) \in Seq(Events)
    BY <2>2, <2>3, JoinedIsList
  <2>. QED  BY <2>1, <2>4, ConcatProperties
<1>3. Pending \in Seq(Events)  BY <1>2, EmptySeq DEF Pending
<1>4. \A k \in ConnIds : conn[k].chan \in Seq(Events) /\ conn[k].wire \in Seq(Events)
  BY DEF EventInv, StreamTypeOK, Conns
<1>. QED  BY <1>1, <1>3, <1>4 DEF EventInv, StreamTypeOK

-----------------------------------------------------------------------------
LEMMA InitEstablishesEventInv == StreamInit => EventInv
<1> SUFFICES ASSUME StreamInit PROVE EventInv  OBVIOUS
<1>1. <<>> \in Seq(Events) /\ Len(<<>>) = 0  BY EmptySeq
<1>2. Unused \in Conns /\ Unused.st = "unused" /\ Unused.chan = <<>> /\ Unused.wire = <<>>
  BY <1>1 DEF Unused, Conns
<1>3. conn \in [ConnIds -> Conns] /\ \A k \in ConnIds : conn[k] = Unused
  BY <1>2 DEF StreamInit
<1>4. StreamTypeOK
  BY <1>1, <1>2, <1>3, GuestEventsAssumption DEF StreamInit, StreamTypeOK, Statuses
<1>. QED
  BY <1>2, <1>3, <1>4
  DEF StreamFits, StreamInit, EventInv, ClientIsServed, SnapshotIsFirst, SnapshotFits, StreamLeadsToSample

(* A status changes: the container no longer is as the poller read it.     *)
LEMMA StatusKeepsEventInv ==
  ASSUME EventInv, NEW n \in Names, NEW from, NEW to \in Statuses \ from,
         SetStatus(n, from, to)
  PROVE  EventInv'
<1>1. /\ containers \in [Names -> Statuses] /\ to # containers[n]
      /\ EveryStatusSeen => containers[n] = current[n]
      /\ containers' = [containers EXCEPT ![n] = to]
      /\ UNCHANGED <<prev, current, poll, subs, conn, client, view>>
  BY DEF EventInv, StreamTypeOK, SetStatus, MayChange
<1>2. Pending' = Pending /\ \A k : OnItsWay(k)' = OnItsWay(k)
  BY <1>1 DEF Pending, OnItsWay
<1>3. EveryStatusSeen
         => \A m \in Names : containers'[m] = current'[m] => containers[m] = current[m]
  BY <1>1
<1>4. StreamTypeOK'  BY <1>1 DEF EventInv, StreamTypeOK
<1>5. SnapshotFits'  BY <1>1, <1>2 DEF EventInv, SnapshotFits
<1>6. StreamFits'
  <2>1. \A k : Expected(k)' = Expected(k)  BY <1>1, <1>2 DEF Expected
  <2>. QED  BY <2>1, <1>1, <1>3 DEF StreamFits, EventInv, StreamLeadsToSample
<1>. QED  BY <1>1, <1>4, <1>5, <1>6 DEF EventInv, ClientIsServed, SnapshotIsFirst

(* The poller reads: what it is about to send leads on to what it read.    *)
LEMMA ReadKeepsEventInv ==
  ASSUME EventInv, PollRead
  PROVE  EventInv'
<1> DEFINE d == diff_container_states(prev, containers)
<1>1. /\ poll = "sleeping" /\ prev = current /\ current' = containers
      /\ UNCHANGED <<containers, subs, conn, client, view>>
  BY DEF PollRead, EventInv
<1>2. /\ {containers, prev, current, view} \subseteq Views /\ client \in {0} \cup ConnIds
      /\ \A k \in ConnIds : conn[k].chan \in Seq(Events) /\ conn[k].wire \in Seq(Events)
  BY PendingIsList
<1>3. Pending = <<>>  BY <1>1 DEF Pending
<1>4. CASE d = <<>>
  <2>1. prev = containers /\ prev' = containers /\ poll' = "sleeping"
    BY <1>2, <1>4, NoEventsNoChange DEF PollRead
  <2>2. UNCHANGED streamVars  BY <2>1, <1>1 DEF streamVars
  <2>3. Pending' = Pending /\ \A k : OnItsWay(k)' = OnItsWay(k) /\ Expected(k)' = Expected(k)
    BY <2>2 DEF streamVars, Pending, OnItsWay, Expected
  <2>. QED
    BY <2>2, <2>3
    DEF EventInv, streamVars, StreamTypeOK, ClientIsServed, SnapshotIsFirst, SnapshotFits,
        StreamFits, StreamLeadsToSample
<1>5. CASE d # <<>>
  <2>1. prev' = prev /\ poll' = "diffed"  BY <1>5 DEF PollRead
  <2>2. Pending' = d  BY <2>1, <1>1 DEF Pending
  <2>3. StreamTypeOK'  BY <2>1, <1>1, <1>2 DEF EventInv, StreamTypeOK, Views
  <2>4. SnapshotFits'
    <3> SUFFICES ASSUME client # 0, conn[client].st = "registered", ~conn[client].lossy,
                        NEW v \in Views
                 PROVE  LeadsTo(v, conn[client].chan \o d, v, containers)
      BY <2>2, <1>1 DEF SnapshotFits, LeadsTo
    <3>1. LeadsTo(v, conn[client].chan \o <<>>, v, prev)
      BY <1>1, <1>3, FitsIsLeadsTo DEF EventInv
    <3>2. conn[client].chan \in Seq(Events)  BY <1>2
    <3>3. conn[client].chan \o <<>> = conn[client].chan  BY <3>2, ConcatEmptySeq
    <3>. QED  BY <3>1, <3>2, <3>3, <1>2, BatchLeadsOn
  <2>5. StreamFits'
    <3> DEFINE s == conn[client].wire \o conn[client].chan
    <3> SUFFICES ASSUME EveryStatusSeen, client # 0, conn[client].st = "streaming", ~conn[client].lossy
                 PROVE  LeadsTo(view, s \o d, containers, containers)
      BY <2>2, <1>1 DEF StreamFits, StreamLeadsToSample, LeadsTo, Expected, OnItsWay
    <3>1. s \in Seq(Events)
      <4>1. conn[client].wire \in Seq(Events) /\ conn[client].chan \in Seq(Events)  BY <1>2
      <4>. QED  BY <4>1, ConcatProperties
    <3>2. LeadsTo(view, s \o <<>>, containers, prev)
      BY <1>1, <1>3, StreamIsLeadsTo DEF EventInv, OnItsWay
    <3>3. s \o <<>> = s  BY <3>1, ConcatEmptySeq
    <3> HIDE DEF s, d
    <3>4. LeadsTo(view, s, containers, prev)  BY <3>2, <3>3
    <3>. QED  BY <3>1, <3>4, <1>2, BatchLeadsOn DEF d
  <2>. QED
    BY <2>1, <2>3, <2>4, <2>5, <1>1 DEF EventInv, ClientIsServed, SnapshotIsFirst
<1>. QED  BY <1>4, <1>5

(* A batch sent to one channel, whole or, when it overflows, in part.      *)
LEMMA SentFacts ==
  ASSUME NEW d \in Seq(Events), NEW c \in Conns, Len(c.chan) =< ChanCap
  PROVE  /\ Sent(d, c) \in Conns /\ Len(Sent(d, c).chan) =< ChanCap
         /\ Sent(d, c).st = c.st /\ Sent(d, c).wire = c.wire /\ Sent(d, c).open = c.open
         /\ ~Sent(d, c).lossy => ~c.lossy /\ Sent(d, c).chan = c.chan \o d
<1> DEFINE room == ChanCap - Len(c.chan)
           m == IF Len(d) =< room THEN Len(d) ELSE room
           p == First(d, m)
           q == c.chan \o p
<1>1. c.chan \in Seq(Events) /\ Len(c.chan) \in Nat /\ Len(d) \in Nat /\ ChanCap \in Nat
  BY GuestEventsAssumption, LenProperties DEF Conns
<1>2. room \in Nat /\ m \in 0..Len(d) /\ m =< room
  <2>1. room \in Nat
    <3>1. \A a, b \in Nat : a =< b => b - a \in Nat  OBVIOUS
    <3>. QED  BY <3>1, <1>1
  <2> HIDE DEF room
  <2>. QED  BY <2>1, <1>1
<1>3. Sent(d, c) = [c EXCEPT !.chan = q, !.lossy = c.lossy \/ Len(d) > room]
  BY DEF Sent, First
<1>4. ~ (Len(d) > room) => m = Len(d)  BY <1>1, <1>2
<1> HIDE DEF room, m
<1>5. p \in Seq(Events) /\ Len(p) = m  BY <1>2, FirstProperties
<1>6. q \in Seq(Events) /\ Len(q) = Len(c.chan) + m  BY <1>1, <1>5, ConcatProperties
<1>7. Len(q) =< ChanCap  BY <1>1, <1>2, <1>6 DEF room
<1>8. ~ (Len(d) > room) => q = c.chan \o d  BY <1>4, FirstAll
<1> HIDE DEF p, q
<1>. QED  BY <1>3, <1>6, <1>7, <1>8 DEF Conns

(* The batch moves from the poller to the channels: the client's list      *)
(* stays what it is.                                                       *)
LEMMA BroadcastKeepsEventInv ==
  ASSUME EventInv, PollBroadcast
  PROVE  EventInv'
<1> DEFINE d == diff_container_states(prev, current)
           cs == conn[client]
<1>1. /\ poll = "diffed" /\ poll' = "sleeping" /\ prev' = current
      /\ UNCHANGED <<containers, current, client, view>>
      /\ subs' = {k \in subs : conn[k].st # "ended"}
  BY DEF PollBroadcast
<1>2. /\ {containers, prev, current, view} \subseteq Views /\ client \in {0} \cup ConnIds
      /\ conn \in [ConnIds -> Conns] /\ Pending \in Seq(Events)
      /\ \A k \in ConnIds : conn[k].chan \in Seq(Events) /\ conn[k].wire \in Seq(Events)
  BY PendingIsList
<1>3. Pending = d /\ d \in Seq(Events) /\ Pending' = <<>>  BY <1>1, <1>2 DEF Pending
<1>4. conn' = [k \in ConnIds |-> IF k \in subs /\ conn[k].st # "ended" THEN Sent(d, conn[k]) ELSE conn[k]]
  BY DEF PollBroadcast
<1> HIDE DEF d
<1>5. ASSUME NEW k \in ConnIds
      PROVE  /\ conn'[k] \in Conns /\ Len(conn'[k].chan) =< ChanCap /\ Len(conn'[k].wire) =< WireCap
             /\ conn'[k].st = conn[k].st /\ conn'[k].wire = conn[k].wire
             /\ conn'[k].open = conn[k].open
  <2>1. Len(conn[k].chan) =< ChanCap /\ Len(conn[k].wire) =< WireCap /\ conn[k] \in Conns
    BY <1>2 DEF EventInv, StreamTypeOK
  <2>. QED  BY <2>1, <1>3, <1>4, SentFacts
<1>6. StreamTypeOK'
  <2>1. conn' \in [ConnIds -> Conns]  BY <1>4, <1>5
  <2>2. subs' \subseteq ConnIds  BY <1>1 DEF EventInv, StreamTypeOK
  <2>. QED  BY <2>1, <2>2, <1>1, <1>2, <1>5 DEF EventInv, StreamTypeOK, Views
<1>7. ASSUME client # 0
      PROVE  /\ client \in ConnIds /\ client \in subs' /\ conn'[client].open
             /\ conn'[client].st = cs.st /\ cs.st \in {"registered", "streaming"}
             /\ conn'[client].wire = cs.wire
             /\ ~conn'[client].lossy => ~cs.lossy /\ conn'[client].chan = cs.chan \o d
  <2>1. client \in ConnIds /\ client \in subs /\ cs.open /\ cs.st \in {"registered", "streaming"}
    BY <1>2, <1>7 DEF EventInv, ClientIsServed
  <2>2. conn'[client] = Sent(d, cs) /\ cs \in Conns /\ Len(cs.chan) =< ChanCap
    BY <2>1, <1>2, <1>4 DEF EventInv, StreamTypeOK
  <2> HIDE DEF cs
  <2>3. ~conn'[client].lossy => ~cs.lossy /\ conn'[client].chan = cs.chan \o d
    BY <2>2, <1>3, SentFacts
  <2>. QED  BY <2>1, <2>3, <1>1, <1>5 DEF cs
<1>8. SnapshotFits'
  <2> SUFFICES ASSUME client # 0, conn'[client].st = "registered", ~conn'[client].lossy,
                      NEW v \in Views
               PROVE  LeadsTo(v, conn'[client].chan \o <<>>, v, current)
    BY <1>1, <1>3 DEF SnapshotFits, LeadsTo
  <2>1. cs.chan \in Seq(Events) /\ conn'[client].chan = cs.chan \o d  BY <1>2, <1>7
  <2>2. cs.chan \o d \in Seq(Events)  BY <2>1, <1>3, ConcatProperties
  <2>3. conn'[client].chan \o <<>> = cs.chan \o d  BY <2>1, <2>2, ConcatEmptySeq
  <2>4. LeadsTo(v, cs.chan \o d, v, current)  BY <1>3, <1>7, FitsIsLeadsTo DEF EventInv
  <2>. QED  BY <2>3, <2>4
<1>9. StreamFits'
  <2> SUFFICES ASSUME EveryStatusSeen, client # 0, conn'[client].st = "streaming", ~conn'[client].lossy
               PROVE  LeadsTo(view, conn'[client].wire \o conn'[client].chan \o <<>>, containers, current)
    BY <1>1, <1>3 DEF StreamFits, StreamLeadsToSample, LeadsTo, Expected, OnItsWay
  <2>1. /\ cs.chan \in Seq(Events) /\ cs.wire \in Seq(Events)
        /\ conn'[client].chan = cs.chan \o d /\ conn'[client].wire = cs.wire
    BY <1>2, <1>7
  <2> HIDE DEF cs
  <2>2. cs.wire \o (cs.chan \o d) = cs.wire \o cs.chan \o d
    <3>1. \A a, b, c \in Seq(Events) : a \o (b \o c) = a \o b \o c
      BY ConcatAssociative
    <3>. QED  BY <3>1, <2>1, <1>3
  <2>3. cs.wire \o (cs.chan \o d) \in Seq(Events)  BY <2>1, <1>3, ConcatProperties
  <2>4. conn'[client].wire \o conn'[client].chan \o <<>> = cs.wire \o cs.chan \o d
    BY <2>1, <2>2, <2>3, ConcatEmptySeq
  <2>5. LeadsTo(view, cs.wire \o cs.chan \o d, containers, current)
    BY <1>3, <1>7, StreamIsLeadsTo DEF EventInv, OnItsWay, cs
  <2>. QED  BY <2>4, <2>5
<1>. QED
  BY <1>1, <1>5, <1>6, <1>7, <1>8, <1>9 DEF EventInv, ClientIsServed, SnapshotIsFirst

(* A new connection: its channel is empty, and the batch under way leads   *)
(* any picture to the sample.                                              *)
LEMMA SubscribeKeepsEventInv ==
  ASSUME EventInv, NEW k \in ConnIds, Subscribe(k)
  PROVE  EventInv'
<1> DEFINE c == [Unused EXCEPT !.st = "registered", !.open = TRUE]
<1>1. /\ client' = k /\ conn' = [conn EXCEPT ![k] = c] /\ subs' = subs \cup {k}
      /\ UNCHANGED <<containers, prev, current, poll, view>>
  BY DEF Subscribe
<1>2. /\ {containers, prev, current, view} \subseteq Views /\ conn \in [ConnIds -> Conns]
      /\ Pending \in Seq(Events)
  BY PendingIsList
<1>3. <<>> \in Seq(Events) /\ Len(<<>>) = 0  BY EmptySeq
<1>4. /\ c \in Conns /\ c.st = "registered" /\ c.open /\ c.chan = <<>> /\ c.wire = <<>>
  BY <1>3 DEF Unused, Conns
<1> HIDE DEF c
<1>5. conn' \in [ConnIds -> Conns] /\ conn'[k] = c /\ \A j \in ConnIds \ {k} : conn'[j] = conn[j]
  BY <1>1, <1>2, <1>4
<1>6. k # 0  BY GuestEventsAssumption DEF ConnIds
<1>7. StreamTypeOK'
  <2>1. \A j \in ConnIds : Len(conn'[j].chan) =< ChanCap /\ Len(conn'[j].wire) =< WireCap
    BY <1>3, <1>4, <1>5, GuestEventsAssumption DEF EventInv, StreamTypeOK
  <2>. QED  BY <2>1, <1>1, <1>2, <1>5 DEF EventInv, StreamTypeOK, Views
<1>8. SnapshotFits'
  <2> SUFFICES ASSUME NEW v \in Views PROVE LeadsTo(v, <<>> \o Pending, v, current)
    <3>1. Pending' = Pending  BY <1>1 DEF Pending
    <3>. QED  BY <3>1, <1>1, <1>4, <1>5 DEF SnapshotFits, LeadsTo
  <2>1. <<>> \o Pending = Pending  BY <1>2, ConcatEmptySeq
  <2>2. CASE poll = "diffed"
    <3> DEFINE d == diff_container_states(prev, current)
    <3>1. Pending = d  BY <2>2 DEF Pending
    <3>2. LeadsTo(v, <<>>, v, prev)  BY <1>2, NothingLeadsTo
    <3>3. LeadsTo(v, <<>> \o d, v, current)  BY <3>2, <1>2, <1>3, BatchLeadsOn
    <3>. QED  BY <3>1, <3>3
  <2>3. CASE poll # "diffed"
    <3>1. Pending = <<>>  BY <2>3 DEF Pending
    <3>. QED  BY <2>1, <3>1, <1>2, NothingLeadsTo
  <2>. QED  BY <2>2, <2>3
<1>9. StreamFits'  BY <1>1, <1>4, <1>5 DEF StreamFits, StreamLeadsToSample
<1>. QED
  BY <1>1, <1>4, <1>5, <1>6, <1>7, <1>8, <1>9 DEF EventInv, ClientIsServed, SnapshotIsFirst

(* A handler whose socket is gone ends; the client's socket is open.       *)
LEMMA WriteFailsKeepsEventInv ==
  ASSUME EventInv, NEW k \in ConnIds, WriteFails(k),
         UNCHANGED <<containers, prev, current, poll, subs, client, view>>
  PROVE  EventInv'
<1> DEFINE c == [Unused EXCEPT !.st = "ended"]
<1>1. ~conn[k].open /\ conn' = [conn EXCEPT ![k] = c]  BY DEF WriteFails
<1>2. /\ conn \in [ConnIds -> Conns] /\ client \in {0} \cup ConnIds
      /\ <<>> \in Seq(Events) /\ Len(<<>>) = 0
  BY PendingIsList, EmptySeq
<1>3. c \in Conns /\ c.st = "ended" /\ c.chan = <<>> /\ c.wire = <<>>
  BY <1>2 DEF Unused, Conns
<1> HIDE DEF c
<1>4. conn' \in [ConnIds -> Conns] /\ conn'[k] = c /\ \A j \in ConnIds \ {k} : conn'[j] = conn[j]
  BY <1>1, <1>2, <1>3
<1>5. client # 0 => client \in ConnIds \ {k} /\ conn'[client] = conn[client]
  BY <1>1, <1>2, <1>4 DEF EventInv, ClientIsServed
<1>6. StreamTypeOK'
  <2>1. \A j \in ConnIds : Len(conn'[j].chan) =< ChanCap /\ Len(conn'[j].wire) =< WireCap
    BY <1>2, <1>3, <1>4, GuestEventsAssumption DEF EventInv, StreamTypeOK
  <2>. QED  BY <2>1, <1>4 DEF EventInv, StreamTypeOK
<1>7. Pending' = Pending  BY DEF Pending
<1>8. SnapshotFits'  BY <1>5, <1>7 DEF EventInv, SnapshotFits
<1>9. client # 0 => Expected(client)' = Expected(client)
  BY <1>5, <1>7 DEF Expected, OnItsWay
<1>10. StreamFits'  BY <1>5, <1>9 DEF StreamFits, EventInv, StreamLeadsToSample
<1>. QED
  BY <1>3, <1>4, <1>5, <1>6, <1>8, <1>10 DEF EventInv, ClientIsServed, SnapshotIsFirst

(* The handler's own step on an open socket: the connection k becomes c.   *)
LEMMA HandlerKeepsEventInv ==
  ASSUME EventInv, NEW k \in ConnIds, NEW c \in Conns,
         conn' = [conn EXCEPT ![k] = c],
         UNCHANGED <<containers, prev, current, poll, subs, client, view>>,
         c.open = conn[k].open, c.st = "streaming", c.lossy = conn[k].lossy,
         Len(c.chan) =< ChanCap, Len(c.wire) =< WireCap,
         EveryStatusSeen /\ k = client /\ ~c.lossy
            => LeadsTo(view, c.wire \o c.chan \o Pending, containers, current)
  PROVE  EventInv'
<1>1. conn \in [ConnIds -> Conns] /\ client \in {0} \cup ConnIds  BY PendingIsList
<1>2. conn' \in [ConnIds -> Conns] /\ conn'[k] = c /\ \A j \in ConnIds \ {k} : conn'[j] = conn[j]
  BY <1>1
<1>3. StreamTypeOK'
  <2>1. \A j \in ConnIds : Len(conn'[j].chan) =< ChanCap /\ Len(conn'[j].wire) =< WireCap
    BY <1>2 DEF EventInv, StreamTypeOK
  <2>. QED  BY <2>1, <1>2 DEF EventInv, StreamTypeOK
<1>4. Pending' = Pending  BY DEF Pending
<1>5. SnapshotFits'  BY <1>1, <1>2, <1>4 DEF EventInv, SnapshotFits
<1>6. StreamFits'
  <2>1. CASE client = k
    <3> SUFFICES ASSUME EveryStatusSeen, ~c.lossy
                 PROVE  LeadsTo(view, c.wire \o c.chan \o Pending, containers, current)
      BY <2>1, <1>2, <1>4 DEF StreamFits, StreamLeadsToSample, Expected, OnItsWay, LeadsTo
    <3>. QED  BY <2>1
  <2>2. CASE client # k
    <3>1. client # 0 => conn'[client] = conn[client] /\ Expected(client)' = Expected(client)
      BY <2>2, <1>1, <1>2, <1>4 DEF Expected, OnItsWay
    <3>. QED  BY <3>1 DEF StreamFits, EventInv, StreamLeadsToSample
  <2>. QED  BY <2>1, <2>2
<1>. QED
  BY <1>1, <1>2, <1>3, <1>5, <1>6 DEF EventInv, ClientIsServed, SnapshotIsFirst

(* The snapshot makes the picture what the files say, and what waits in    *)
(* the channel fits to it.                                                 *)
LEMMA SnapshotKeepsEventInv ==
  ASSUME EventInv, NEW k \in ConnIds, SendSnapshot(k)
  PROVE  EventInv'
<1>0. UNCHANGED <<containers, prev, current, poll, subs, client, view>>  BY DEF SendSnapshot
<1>1. CASE WriteFails(k)  BY <1>0, <1>1, WriteFailsKeepsEventInv
<1>2. CASE ~WriteFails(k)
  <2> DEFINE e == [type |-> "snapshot", states |-> containers]
             c == [conn[k] EXCEPT !.st = "streaming", !.wire = Append(<<>>, e)]
  <2>1. /\ {containers, current, view} \subseteq Views /\ conn[k] \in Conns
        /\ Pending \in Seq(Events) /\ conn[k].chan \in Seq(Events)
        /\ conn[k].wire = <<>> /\ conn[k].st = "registered"
        /\ Len(conn[k].chan) =< ChanCap
    BY PendingIsList DEF EventInv, SnapshotIsFirst, SendSnapshot, StreamTypeOK
  <2>2. e \in Events /\ Apply(e, view) = containers  BY <2>1 DEF Events, Views, Apply
  <2>3. conn' = [conn EXCEPT ![k] = c]
    BY <2>1, <1>2 DEF SendSnapshot
  <2> HIDE DEF e
  <2>4. Append(<<>>, e) = <<e>> /\ <<e>> \in Seq(Events) /\ Len(<<e>>) = 1  BY <2>2
  <2>5. /\ c \in Conns /\ c.open = conn[k].open /\ c.st = "streaming" /\ c.lossy = conn[k].lossy
        /\ c.chan = conn[k].chan /\ c.wire = <<e>>
    BY <2>1, <2>4 DEF Conns
  <2> HIDE DEF c
  <2>6. ASSUME EveryStatusSeen, k = client, ~c.lossy
        PROVE  LeadsTo(view, c.wire \o c.chan \o Pending, containers, current)
    <3> DEFINE s == c.chan \o Pending
    <3>0. k # 0  BY GuestEventsAssumption DEF ConnIds
    <3>1. LeadsTo(containers, s, containers, current)
      BY <3>0, <2>1, <2>5, <2>6, FitsIsLeadsTo DEF EventInv
    <3>2. s \in Seq(Events)  BY <2>1, <2>5, ConcatProperties
    <3>3. c.wire \o c.chan \o Pending = <<e>> \o s
      <4>1. \A x, y, z \in Seq(Events) : x \o y \o z = x \o (y \o z)  BY ConcatAssociative
      <4>2. <<e>> \in Seq(Events) /\ c.chan \in Seq(Events) /\ Pending \in Seq(Events)
        BY <2>1, <2>4, <2>5
      <4>3. (<<e>> \o c.chan) \o Pending = <<e>> \o (c.chan \o Pending)  BY <4>1, <4>2, Zenon
      <4>. QED  BY <4>3, <2>5
    <3> HIDE DEF s
    <3>4. Seen(view, <<e>> \o s) = Seen(Seen(view, <<e>>), s)
      BY <3>2, <2>1, <2>4, SeenConcat
    <3>5. Seen(view, <<e>>) = containers  BY <2>1, <2>2, SeenOne
    <3>. QED  BY <3>1, <3>3, <3>4, <3>5 DEF LeadsTo
  <2>7. Len(c.chan) =< ChanCap /\ Len(c.wire) =< WireCap
    BY <2>1, <2>4, <2>5, GuestEventsAssumption
  <2>. QED  BY <2>3, <2>5, <2>6, <2>7, <1>0, HandlerKeepsEventInv
<1>. QED  BY <1>1, <1>2

(* An event moves from the channel to the socket.                          *)
LEMMA ForwardKeepsEventInv ==
  ASSUME EventInv, NEW k \in ConnIds, ForwardEvent(k)
  PROVE  EventInv'
<1>0. UNCHANGED <<containers, prev, current, poll, subs, client, view>>  BY DEF ForwardEvent
<1>1. CASE WriteFails(k)  BY <1>0, <1>1, WriteFailsKeepsEventInv
<1>2. CASE ~WriteFails(k)
  <2> DEFINE w == conn[k].wire
             h == conn[k].chan
             c == [conn[k] EXCEPT !.wire = Append(w, Head(h)), !.chan = Tail(h)]
  <2>1. /\ {containers, current, view} \subseteq Views /\ conn[k] \in Conns
        /\ Pending \in Seq(Events) /\ h \in Seq(Events) /\ w \in Seq(Events)
        /\ conn[k].st = "streaming" /\ h # <<>> /\ Len(w) < WireCap /\ Len(h) =< ChanCap
    BY <1>2, PendingIsList DEF EventInv, ForwardEvent, StreamTypeOK
  <2>2. conn' = [conn EXCEPT ![k] = c]
    BY <1>2 DEF ForwardEvent
  <2>3. c.open = conn[k].open /\ c.st = "streaming" /\ c.lossy = conn[k].lossy
    BY <2>1 DEF Conns
  <2>4. c.wire = Append(w, Head(h)) /\ c.chan = Tail(h)  BY <2>1 DEF Conns
  <2>5. c \in Conns
    <3>1. Append(w, Head(h)) \in Seq(Events) /\ Tail(h) \in Seq(Events)
      BY <2>1, HeadTailProperties, AppendProperties
    <3>. QED  BY <3>1, <2>1 DEF Conns
  <2> HIDE DEF w, h
  <2>6. /\ Head(h) \in Events /\ Tail(h) \in Seq(Events) /\ Len(Tail(h)) = Len(h) - 1
        /\ Len(Append(w, Head(h))) = Len(w) + 1 /\ Len(w) \in Nat /\ Len(h) \in Nat
    BY <2>1, HeadTailProperties, AppendProperties, LenProperties
  <2>7. Append(w, Head(h)) \o Tail(h) = w \o h
    <3>1. Append(w, Head(h)) = w \o <<Head(h)>> /\ <<Head(h)>> \in Seq(Events)
      BY <2>1, <2>6, AppendIsConcat
    <3>2. <<Head(h)>> \o Tail(h) = h  BY <2>1, <2>6
    <3>3. (w \o <<Head(h)>>) \o Tail(h) = w \o (<<Head(h)>> \o Tail(h))
      BY <3>1, <2>1, <2>6, ConcatAssociative
    <3>. QED  BY <3>1, <3>2, <3>3
  <2>8. ASSUME EveryStatusSeen, k = client, ~c.lossy
        PROVE  LeadsTo(view, c.wire \o c.chan \o Pending, containers, current)
    <3>0. k # 0  BY GuestEventsAssumption DEF ConnIds
    <3>1. LeadsTo(view, w \o h \o Pending, containers, current)
      BY <3>0, <2>1, <2>3, <2>8, StreamIsLeadsTo DEF EventInv, OnItsWay, w, h
    <3>. QED  BY <3>1, <2>4, <2>7
  <2> HIDE DEF c
  <2>9. Len(c.chan) =< ChanCap /\ Len(c.wire) =< WireCap
    BY <2>1, <2>4, <2>6, GuestEventsAssumption
  <2>. QED  BY <2>2, <2>3, <2>5, <2>8, <2>9, <1>0, HandlerKeepsEventInv
<1>. QED  BY <1>1, <1>2

LEMMA HeartbeatKeepsEventInv ==
  ASSUME EventInv, NEW k \in ConnIds, HeartbeatFails(k)
  PROVE  EventInv'
  BY WriteFailsKeepsEventInv DEF HeartbeatFails

LEMMA LossKeepsEventInv ==
  ASSUME EventInv, ConnectionLost
  PROVE  EventInv'
<1> DEFINE c == [conn[client] EXCEPT !.open = FALSE, !.wire = <<>>]
<1>1. /\ client' = 0 /\ conn' = [conn EXCEPT ![client] = c]
      /\ UNCHANGED <<containers, prev, current, poll, subs, view>>
  BY DEF ConnectionLost
<1>2. /\ conn \in [ConnIds -> Conns] /\ client \in ConnIds
      /\ <<>> \in Seq(Events) /\ Len(<<>>) = 0
  BY PendingIsList, EmptySeq DEF ConnectionLost
<1>3. c \in Conns /\ c.chan = conn[client].chan /\ c.wire = <<>>
  BY <1>2 DEF Conns
<1> HIDE DEF c
<1>4. /\ conn' \in [ConnIds -> Conns] /\ conn'[client] = c
      /\ \A j \in ConnIds \ {client} : conn'[j] = conn[j]
  BY <1>1, <1>2, <1>3
<1>5. \A j \in ConnIds : Len(conn'[j].chan) =< ChanCap /\ Len(conn'[j].wire) =< WireCap
  BY <1>2, <1>3, <1>4, GuestEventsAssumption DEF EventInv, StreamTypeOK
<1>6. StreamTypeOK'  BY <1>1, <1>4, <1>5 DEF EventInv, StreamTypeOK
<1>7. SnapshotIsFirst'  BY <1>3, <1>4 DEF EventInv, SnapshotIsFirst
<1>. QED
  BY <1>1, <1>6, <1>7 DEF StreamFits, EventInv, ClientIsServed, SnapshotFits, StreamLeadsToSample

(* The client takes an event off the socket and applies it.                *)
LEMMA ReceiveKeepsEventInv ==
  ASSUME EventInv, Receive
  PROVE  EventInv'
<1> DEFINE w == conn[client].wire
           h == conn[client].chan
           c == [conn[client] EXCEPT !.wire = Tail(w)]
<1>1. /\ client # 0 /\ w # <<>> /\ view' = Apply(Head(w), view)
      /\ conn' = [conn EXCEPT ![client] = c]
      /\ UNCHANGED <<containers, prev, current, poll, subs, client>>
  BY DEF Receive
<1>2. /\ {containers, current, view} \subseteq Views /\ conn \in [ConnIds -> Conns]
      /\ Pending \in Seq(Events) /\ client \in ConnIds
      /\ h \in Seq(Events) /\ w \in Seq(Events)
  BY <1>1, PendingIsList
<1>3. /\ Head(w) \in Events /\ Tail(w) \in Seq(Events) /\ Len(Tail(w)) = Len(w) - 1
      /\ Len(w) \in Nat
  BY <1>1, <1>2, HeadTailProperties, LenProperties
<1>4. /\ c \in Conns /\ c.chan = h /\ c.wire = Tail(w) /\ c.st = conn[client].st
      /\ c.open = conn[client].open /\ c.lossy = conn[client].lossy
  BY <1>2, <1>3 DEF Conns
<1> HIDE DEF c
<1>5. /\ conn' \in [ConnIds -> Conns] /\ conn'[client] = c
      /\ \A j \in ConnIds \ {client} : conn'[j] = conn[j]
  BY <1>1, <1>2, <1>4
<1>6. conn[client].st = "streaming"
  BY <1>1, <1>2 DEF EventInv, ClientIsServed, SnapshotIsFirst
<1>7. view' \in Views  BY <1>1, <1>2, <1>3, ApplyKeepsViews
<1>8. \A j \in ConnIds : Len(conn'[j].chan) =< ChanCap /\ Len(conn'[j].wire) =< WireCap
  <2>1. Len(c.chan) =< ChanCap /\ Len(c.wire) =< WireCap
    <3>1. Len(h) =< ChanCap /\ Len(w) =< WireCap  BY <1>2 DEF EventInv, StreamTypeOK
    <3> HIDE DEF h, w
    <3>. QED  BY <3>1, <1>3, <1>4, GuestEventsAssumption
  <2>. QED  BY <2>1, <1>5 DEF EventInv, StreamTypeOK
<1>9. StreamTypeOK'  BY <1>1, <1>5, <1>7, <1>8 DEF EventInv, StreamTypeOK, Views
<1>10. StreamFits'
  <2>1. Pending' = Pending  BY <1>1 DEF Pending
  <2> SUFFICES ASSUME EveryStatusSeen, ~c.lossy
               PROVE  LeadsTo(view', Tail(w) \o h \o Pending, containers, current)
    BY <2>1, <1>1, <1>4, <1>5 DEF StreamFits, StreamLeadsToSample, Expected, OnItsWay, LeadsTo
  <2>2. LeadsTo(view, w \o h \o Pending, containers, current)
    BY <1>1, <1>4, <1>6, StreamIsLeadsTo DEF EventInv, OnItsWay
  <2> DEFINE s == h \o Pending
  <2>3. s \in Seq(Events)  BY <1>2, ConcatProperties
  <2>4. w \o h \o Pending = w \o s /\ Tail(w) \o h \o Pending = Tail(w) \o s
    <3>1. \A x, y, z \in Seq(Events) : x \o y \o z = x \o (y \o z)  BY ConcatAssociative
    <3>. QED  BY <3>1, <1>2, <1>3
  <2> HIDE DEF s, w, h
  <2>5. Seen(view, w \o s) = Seen(Seen(view, w), s)  BY <2>3, <1>2, SeenConcat
  <2>6. Seen(view', Tail(w) \o s) = Seen(Seen(view', Tail(w)), s)
    BY <2>3, <1>3, <1>7, SeenConcat
  <2>7. Seen(view, w) = Seen(view', Tail(w))  BY <1>1, <1>2, SeenHead
  <2>. QED  BY <2>2, <2>4, <2>5, <2>6, <2>7 DEF LeadsTo
<1>. QED
  BY <1>1, <1>4, <1>5, <1>6, <1>9, <1>10
  DEF EventInv, ClientIsServed, SnapshotIsFirst, SnapshotFits

LEMMA StepKeepsEventInv ==
  ASSUME EventInv, [StreamNext]_streamVars
  PROVE  EventInv'
<1>1. CASE Runtime
  <2>1. PICK n \in Names : ContainerStarts(n) \/ ContainerExits(n) \/ ContainerRemoved(n)
    BY <1>1 DEF Runtime
  <2>2. CASE ContainerStarts(n)
    <3>1. "running" \in Statuses \ {"absent", "exited"}  BY DEF Statuses
    <3>. QED  BY <2>2, <3>1, StatusKeepsEventInv DEF ContainerStarts
  <2>3. CASE ContainerExits(n)
    <3>1. "exited" \in Statuses \ {"running"}  BY DEF Statuses
    <3>. QED  BY <2>3, <3>1, StatusKeepsEventInv DEF ContainerExits
  <2>4. CASE ContainerRemoved(n)
    <3>1. "absent" \in Statuses \ {"running", "exited"}  BY DEF Statuses
    <3>. QED  BY <2>4, <3>1, StatusKeepsEventInv DEF ContainerRemoved
  <2>. QED  BY <2>1, <2>2, <2>3, <2>4
<1>2. CASE PollRead  BY <1>2, ReadKeepsEventInv
<1>3. CASE PollBroadcast  BY <1>3, BroadcastKeepsEventInv
<1>4. CASE \E k \in ConnIds : Subscribe(k) \/ Handler(k)
  BY <1>4, SubscribeKeepsEventInv, SnapshotKeepsEventInv, ForwardKeepsEventInv,
     HeartbeatKeepsEventInv DEF Handler
<1>5. CASE ConnectionLost  BY <1>5, LossKeepsEventInv
<1>6. CASE Receive  BY <1>6, ReceiveKeepsEventInv
<1>7. CASE UNCHANGED streamVars
  <2>1. /\ Pending' = Pending
        /\ \A k : OnItsWay(k)' = OnItsWay(k) /\ Expected(k)' = Expected(k)
    BY <1>7 DEF streamVars, Pending, OnItsWay, Expected
  <2>. QED
    BY <2>1, <1>7
    DEF EventInv, streamVars, StreamTypeOK, ClientIsServed, SnapshotIsFirst, SnapshotFits,
        StreamFits, StreamLeadsToSample
<1>. QED  BY <1>1, <1>2, <1>3, <1>4, <1>5, <1>6, <1>7 DEF StreamNext

(* Snapshot and differences fit together, for any number of containers,    *)
(* connections and events in flight, as long as each status lasts until    *)
(* the poller has read it (handle_subscribe, event_poller_loop,            *)
(* broadcast_events).                                                      *)
THEOREM StreamLeads ==
  ASSUME EveryStatusSeen
  PROVE  StreamSpec => []StreamLeadsToSample
<1>1. StreamInit => EventInv  BY InitEstablishesEventInv
<1>2. EventInv /\ [StreamNext]_streamVars => EventInv'  BY StepKeepsEventInv
<1>3. EventInv => StreamLeadsToSample  BY DEF StreamFits, EventInv
<1>. QED  BY <1>1, <1>2, <1>3, PTL DEF StreamSpec

-----------------------------------------------------------------------------
(* Published ports: every step of the whole is a step of the stream or     *)
(* leaves it alone, and a step of the port table or leaves that alone.     *)
LEMMA PortStepIsStreamStep == [PortNext]_allVars => [StreamNext]_streamVars
<1> SUFFICES ASSUME [PortNext]_allVars PROVE [StreamNext]_streamVars  OBVIOUS
<1>1. ASSUME NEW n \in Names,
             \/ \E c \in ContainerPorts, mode \in {"foreground", "detached"} :
                   CliRegisters(n, c, mode)
             \/ CliRunRefused(n) \/ CliUnregisters(n) \/ CliKilled(n)
      PROVE  UNCHANGED streamVars
  BY <1>1 DEF CliRegisters, CliRunRefused, CliUnregisters, CliKilled
<1>2. ASSUME NEW n \in Names, CliRuns(n) \/ ContainerEnds(n) \/ ContainerRestarts(n)
      PROVE  StreamNext
  BY <1>2 DEF CliRuns, ContainerEnds, ContainerRestarts, StreamNext, Runtime
<1>3. CASE WatcherReceives  BY <1>3 DEF WatcherReceives, StreamNext
<1>4. CASE GuestStep  BY <1>4 DEF GuestStep, StreamNext
<1>5. CASE UNCHANGED allVars  BY <1>5 DEF allVars
<1>. QED  BY <1>1, <1>2, <1>3, <1>4, <1>5 DEF PortNext

LEMMA EventInvHolds == PortSpec => []EventInv
<1>1. PortInit => EventInv  BY InitEstablishesEventInv DEF PortInit
<1>2. EventInv /\ [PortNext]_allVars => EventInv'
  BY StepKeepsEventInv, PortStepIsStreamStep
<1>. QED  BY <1>1, <1>2, PTL DEF PortSpec

(* ... and so it is for the watcher, with commands that register ports and *)
(* run containers at the same time.                                        *)
THEOREM WatcherIsLedToSample ==
  ASSUME EveryStatusSeen
  PROVE  PortSpec => []StreamLeadsToSample
<1>1. EventInv => StreamLeadsToSample  BY DEF EventInv, StreamFits
<1>. QED  BY <1>1, EventInvHolds, PTL

(* The port table of the whole, seen without commands and containers, is   *)
(* the table PortBook promises: no step changes it but one of its own.     *)
THEOREM PortsKeepTheBook == PortSpec => Book!Spec
<1>1. PortInit => Book!Init
  BY PublishAssumption DEF PortInit, Book!Init
<1>2. EventInv /\ [PortNext]_allVars => [Book!Next]_Book!vars
  <2> SUFFICES ASSUME EventInv, [PortNext]_allVars PROVE [Book!Next]_Book!vars  OBVIOUS
  <2> USE PublishAssumption
  <2>1. ASSUME NEW n \in Names, NEW c \in ContainerPorts, NEW mode, CliRegisters(n, c, mode)
        PROVE  Book!Next
    BY <2>1 DEF CliRegisters, Book!Next
  <2>2. ASSUME NEW n \in Names, CliRuns(n) \/ CliKilled(n) \/ ContainerEnds(n) \/ ContainerRestarts(n)
        PROVE  UNCHANGED Book!vars
    BY <2>2 DEF CliRuns, CliKilled, ContainerEnds, ContainerRestarts, portVars, Book!vars
  <2>3. ASSUME NEW n \in Names, CliRunRefused(n) \/ CliUnregisters(n)
        PROVE  [Book!Next]_Book!vars
    BY <2>3 DEF CliRunRefused, CliUnregisters, portVars, Book!vars, Book!Next
  <2>4. CASE WatcherReceives
    <3>1. CASE UNCHANGED portVars  BY <3>1 DEF portVars, Book!vars
    <3>2. CASE ~UNCHANGED portVars
      <4> DEFINE e == Head(conn[client].wire)
      <4>1. e.type = "exited" /\ Book!ReleasePorts({Host(e.name)})
        BY <3>2, <2>4 DEF WatcherReceives
      <4>2. e \in Events
        <5>1. conn[client].wire \in Seq(Events) /\ conn[client].wire # <<>>
          BY <2>4, PendingIsList DEF WatcherReceives, Receive
        <5>. QED  BY <5>1, HeadTailProperties
      <4> HIDE DEF e
      <4>3. e.name \in Names  BY <4>1, <4>2 DEF Events
      <4>4. {Host(e.name)} \in SUBSET HostPorts  BY <4>3
      <4>. QED  BY <4>1, <4>4 DEF Book!Next
    <3>. QED  BY <3>1, <3>2
  <2>5. CASE GuestStep  BY <2>5 DEF GuestStep, Book!vars
  <2>6. CASE UNCHANGED allVars  BY <2>6 DEF allVars, Book!vars
  <2>. QED  BY <2>1, <2>2, <2>3, <2>4, <2>5, <2>6 DEF PortNext
<1>. QED  BY <1>1, <1>2, EventInvHolds, PTL DEF PortSpec, Book!Spec
=============================================================================
