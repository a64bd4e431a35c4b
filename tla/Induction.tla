----------------------------- MODULE Induction ------------------------------
(***************************************************************************)
(* Induction over the natural numbers and iteration, stated with sets and  *)
(* functions where NaturalsInduction has operators: what the proofs about  *)
(* lists rest on.                                                          *)
(***************************************************************************)
EXTENDS Integers, Sequences, FiniteSetsExt, SequenceTheorems, WellFoundedInduction, TLAPS

(* The lowest number of a set exists.                                      *)
LEMMA MinIsLowest ==
  ASSUME NEW S \in SUBSET Nat, S # {}
  PROVE  Min(S) \in S /\ \A n \in S : Min(S) =< n
<1>1. PICK m \in S : \A n \in S : ~(<<n, m>> \in OpToRel(<, Nat))
  BY NatLessThanWellFounded, WFMin
<1>2. \A n \in S : m =< n
  <2>1. \A a, b \in Nat : a < b => <<a, b>> \in OpToRel(<, Nat)
    BY Zenon DEF OpToRel
  <2>2. S \subseteq Nat /\ m \in Nat
    OBVIOUS
  <2>3. \A n \in S : ~(n < m)
    BY <1>1, <2>1, <2>2, Zenon
  <2> QED BY <2>2, <2>3
<1> QED BY <1>2 DEF Min

(* A set with 0 and with the successor of each of its members has every    *)
(* number; up to a bound.                                                  *)
LEMMA UpTo ==
  ASSUME NEW N \in Nat, NEW S, 0 \in S, \A n \in 0..(N - 1) : n \in S => n + 1 \in S
  PROVE  \A n \in 0..N : n \in S
<1> DEFINE Out == (0..N) \ S
<1>1. ASSUME Out # {} PROVE FALSE
  <2> DEFINE m == Min(Out)
  <2>1. Out \in SUBSET Nat
    OBVIOUS
  <2>2. m \in Out /\ \A n \in Out : m =< n
    BY <1>1, <2>1, MinIsLowest
  <2> HIDE DEF m
  <2>3. m # 0 /\ m \in 0..N /\ m \notin S
    BY <2>2
  <2>4. m - 1 \in 0..(N - 1) /\ m - 1 \notin Out
    BY <2>2, <2>3
  <2>5. m - 1 \in S
    BY <2>4
  <2> QED BY <2>3, <2>4, <2>5
<1> QED BY <1>1

(* Repeated application of functions of a set into itself.                 *)
StepsOn(S, N) == [1..N -> [S -> S]]

IsRun(f, S, s, N, step) ==
    f \in [0..N -> S] /\ f[0] = s /\ \A i \in 1..N : f[i] = step[i][f[i - 1]]

LEMMA Iterates ==
  ASSUME NEW S, NEW s \in S, NEW N \in Nat, NEW step \in StepsOn(S, N)
  PROVE  \E f : IsRun(f, S, s, N, step)
<1> USE DEF StepsOn, IsRun
<1> DEFINE Good(n) == \E f \in [0..n -> S] : f[0] = s /\ \A i \in 1..n : f[i] = step[i][f[i - 1]]
           Done == {n \in Nat : Good(n)}
<1>1. 0 \in Done
  <2> DEFINE f == [i \in 0..0 |-> s]
  <2>1. f \in [0..0 -> S] /\ f[0] = s /\ \A i \in 1..0 : f[i] = step[i][f[i - 1]]
    OBVIOUS
  <2> QED BY <2>1
<1>2. ASSUME NEW n \in 0..(N - 1), n \in Done PROVE n + 1 \in Done
  <2>1. PICK f \in [0..n -> S] : f[0] = s /\ \A i \in 1..n : f[i] = step[i][f[i - 1]]
    BY <1>2
  <2> DEFINE g == [i \in 0..(n + 1) |-> IF i = n + 1 THEN step[n + 1][f[n]] ELSE f[i]]
  <2>2. n \in 0..n /\ n + 1 \in 1..N /\ f[n] \in S
    BY <2>1
  <2>3. step[n + 1] \in [S -> S]
    BY <2>2
  <2>4. step[n + 1][f[n]] \in S
    BY <2>2, <2>3
  <2>5. g \in [0..(n + 1) -> S]
    BY <2>1, <2>4
  <2>6. g[0] = s
    BY <2>1
  <2>7. ASSUME NEW i \in 1..(n + 1) PROVE g[i] = step[i][g[i - 1]]
    BY <2>1, <2>2
  <2>8. Good(n + 1)
    BY <2>5, <2>6, <2>7
  <2> QED BY <2>8
<1> HIDE DEF Done
<1>3. N \in Done
  <2>1. \A n \in 0..N : n \in Done
    BY <1>1, <1>2, UpTo
  <2> QED BY <2>1
<1> QED BY <1>3 DEF Done
-----------------------------------------------------------------------------
(* A function on 1..n is a sequence of length n.                           *)
LEMMA FunctionIsSeq ==
  ASSUME NEW B, NEW n \in Nat, NEW f \in [1..n -> B]
  PROVE  f \in Seq(B) /\ Len(f) = n
<1>1. f \in Seq(B)  BY SeqDef
<1>2. Len(f) \in Nat /\ DOMAIN f = 1..Len(f) /\ DOMAIN f = 1..n  BY <1>1, LenProperties
<1>. QED  BY <1>1, <1>2

(* The first n elements of a list, and how they grow.                      *)
First(d, n) == SubSeq(d, 1, n)

LEMMA FirstProperties ==
  ASSUME NEW B, NEW d \in Seq(B), NEW n \in 0..Len(d)
  PROVE  /\ First(d, n) \in Seq(B) /\ Len(First(d, n)) = n
         /\ \A k \in 1..n : First(d, n)[k] = d[k]
<1>1. Len(d) \in Nat /\ n \in Int  BY LenProperties
<1>2. \A i \in 1..n : d[i] \in B
  <2> TAKE i \in 1..n
  <2>1. i \in 1..Len(d)  BY <1>1
  <2>. QED  BY <2>1, ElementOfSeq
<1> DEFINE m == 1
<1>3. /\ SubSeq(d, m, n) \in Seq(B)
      /\ Len(SubSeq(d, m, n)) = IF m =< n THEN n - m + 1 ELSE 0
      /\ \A k \in 1..(n - m + 1) : SubSeq(d, m, n)[k] = d[m + k - 1]
  <2> HIDE DEF m
  <2>1. m \in Int /\ m = 1  BY DEF m
  <2>. QED  BY <2>1, <1>1, <1>2, SubSeqProperties
<1>4. (IF m =< n THEN n - m + 1 ELSE 0) = n /\ n - m + 1 = n  BY <1>1
<1>5. \A k \in 1..n : m + k - 1 = k  BY <1>1
<1>. QED  BY <1>3, <1>4, <1>5 DEF First

LEMMA FirstNone ==
  ASSUME NEW B, NEW d \in Seq(B)
  PROVE  First(d, 0) = <<>>
<1>1. 0 \in 0..Len(d)  BY LenProperties
<1>2. First(d, 0) \in Seq(B) /\ Len(First(d, 0)) = 0  BY <1>1, FirstProperties
<1>. QED  BY <1>2, EmptySeq

LEMMA FirstAll ==
  ASSUME NEW B, NEW d \in Seq(B)
  PROVE  First(d, Len(d)) = d
<1>1. Len(d) \in 0..Len(d)  BY LenProperties
<1>2. /\ First(d, Len(d)) \in Seq(B) /\ Len(First(d, Len(d))) = Len(d)
      /\ \A k \in 1..Len(d) : First(d, Len(d))[k] = d[k]
  BY <1>1, FirstProperties
<1>. QED  BY <1>2, SeqEqual

LEMMA FirstGrows ==
  ASSUME NEW B, NEW d \in Seq(B), NEW n \in 0..(Len(d) - 1)
  PROVE  First(d, n + 1) = Append(First(d, n), d[n + 1])
<1>1. Len(d) \in Nat /\ n \in 0..Len(d) /\ n + 1 \in 0..Len(d) /\ n + 1 \in 1..Len(d)
  BY LenProperties
<1>2. d[n + 1] \in B  BY <1>1, ElementOfSeq
<1> DEFINE p == First(d, n)
           q == First(d, n + 1)
           a == Append(p, d[n + 1])
<1>3. p \in Seq(B) /\ Len(p) = n /\ \A k \in 1..n : p[k] = d[k]
  BY <1>1, FirstProperties
<1>4. q \in Seq(B) /\ Len(q) = n + 1 /\ \A k \in 1..(n + 1) : q[k] = d[k]
  BY <1>1, FirstProperties
<1> HIDE DEF p, q
<1>5. a \in Seq(B) /\ Len(a) = n + 1 /\ a[n + 1] = d[n + 1] /\ \A k \in 1..n : a[k] = p[k]
  BY <1>2, <1>3, AppendProperties
<1> HIDE DEF a
<1>6. \A k \in 1..Len(q) : q[k] = a[k]
  <2> TAKE k \in 1..Len(q)
  <2>1. k \in 1..n \/ k = n + 1  BY <1>1, <1>4
  <2>. QED  BY <2>1, <1>1, <1>3, <1>4, <1>5
<1>7. q = a  BY <1>4, <1>5, <1>6, SeqEqual
<1>. QED  BY <1>7 DEF a, p, q

LEMMA ConcatAppend ==
  ASSUME NEW B, NEW s \in Seq(B), NEW d \in Seq(B), NEW b \in B
  PROVE  s \o Append(d, b) = Append(s \o d, b)
<1>1. Append(d, b) \in Seq(B) /\ <<b>> \in Seq(B)  OBVIOUS
<1>2. Append(d, b) = d \o <<b>>  BY AppendIsConcat
<1>3. Append(s \o d, b) = (s \o d) \o <<b>>
  <2>1. s \o d \in Seq(B)  OBVIOUS
  <2>. QED  BY <2>1, AppendIsConcat
<1>. QED  BY <1>1, <1>2, <1>3, ConcatAssociative

(* Induction over lists: a set with the empty list and with every list one *)
(* longer than one of its members has all lists.                           *)
LEMMA ListInduction ==
  ASSUME NEW B, NEW P, <<>> \in P,
         \A s \in Seq(B), b \in B : s \in P => Append(s, b) \in P
  PROVE  \A d \in Seq(B) : d \in P
<1> TAKE d \in Seq(B)
<1> DEFINE G == {n \in 0..Len(d) : First(d, n) \in P}
<1>1. Len(d) \in Nat  BY LenProperties
<1>2. 0 \in G  BY <1>1, FirstNone
<1>3. ASSUME NEW n \in 0..(Len(d) - 1), n \in G PROVE n + 1 \in G
  <2>1. n \in 0..Len(d) /\ n + 1 \in 1..Len(d) /\ n + 1 \in 0..Len(d)  BY <1>1
  <2>2. First(d, n) \in Seq(B) /\ First(d, n) \in P  BY <2>1, <1>3, FirstProperties
  <2>3. d[n + 1] \in B  BY <2>1, ElementOfSeq
  <2>4. Append(First(d, n), d[n + 1]) \in P  BY <2>2, <2>3
  <2>. QED  BY <2>1, <2>4, FirstGrows
<1> HIDE DEF G
<1>4. \A n \in 0..Len(d) : n \in G  BY <1>1, <1>2, <1>3, UpTo
<1>5. Len(d) \in G  BY <1>1, <1>4
<1>. QED  BY <1>5, FirstAll DEF G
=============================================================================
