---------------------------- MODULE DaemonProofs ----------------------------
(***************************************************************************)
(* What the state directory is worth to a careful user (Patience = 3):     *)
(* with one command at a time, each begun when no daemon is starting or    *)
(* shutting down, for any number of commands, daemons, volumes and disks,  *)
(* with failed boots, crashes and deadlines that pass.                     *)
(***************************************************************************)
EXTENDS DaemonLifecycle, Induction, FiniteSetTheorems, TLAPS

-----------------------------------------------------------------------------
(* VOLUMES.  *)
(* The lists that the loops of build_virtiofs_shares build.                *)
InHome(v) == Under(v.host, Home)

Filtered(k, s, S) ==
    /\ k \in [0..Len(s) -> S] /\ k[0] = <<>>
    /\ \A i \in 0..(Len(s) - 1) :
          k[i + 1] = IF InHome(s[i + 1]) THEN k[i] ELSE Append(k[i], s[i + 1])

LEMMA OutsideHomeRuns ==
  ASSUME NEW V, NEW s \in Seq(V)
  PROVE  \E k : Filtered(k, s, Seq(V)) /\ OutsideHome(s) = k[Len(s)]
<1> DEFINE m == Len(s)
           kept[i \in 0..m] == IF i = 0 THEN <<>>
                               ELSE IF Under(s[i].host, Home) THEN kept[i - 1]
                               ELSE Append(kept[i - 1], s[i])
           step == [i \in 1..m |-> [q \in Seq(V) |->
                       IF Under(s[i].host, Home) THEN q ELSE Append(q, s[i])]]
<1>1. m \in Nat /\ \A i \in 1..m : s[i] \in V  BY LenProperties, ElementOfSeq
<1>2. PICK f : IsRun(f, Seq(V), <<>>, m, step)
  <2>1. <<>> \in Seq(V)  OBVIOUS
  <2>2. step \in StepsOn(Seq(V), m)  BY <1>1 DEF StepsOn
  <2> HIDE DEF step, m, kept
  <2>. QED  BY <2>1, <2>2, <1>1, Iterates
<1>3. f = [i \in 0..m |-> IF i = 0 THEN <<>>
                          ELSE IF Under(s[i].host, Home) THEN f[i - 1]
                          ELSE Append(f[i - 1], s[i])]
  <2>1. ASSUME NEW i \in 0..m
        PROVE  f[i] = IF i = 0 THEN <<>>
                      ELSE IF Under(s[i].host, Home) THEN f[i - 1] ELSE Append(f[i - 1], s[i])
    <3>1. CASE i = 0  BY <3>1, <1>2 DEF IsRun
    <3>2. CASE i # 0
      <4>1. i \in 1..m /\ i - 1 \in 0..m  BY <3>2, <1>1
      <4>2. f[i - 1] \in Seq(V)  BY <4>1, <1>2 DEF IsRun
      <4>. QED  BY <3>2, <4>1, <4>2, <1>2 DEF IsRun
    <3>. QED  BY <3>1, <3>2
  <2>2. f = [i \in 0..m |-> f[i]]  BY <1>2 DEF IsRun
  <2>. QED  BY <2>1, <2>2
<1>4. \E g : g = [i \in 0..m |-> IF i = 0 THEN <<>>
                                 ELSE IF Under(s[i].host, Home) THEN g[i - 1]
                                 ELSE Append(g[i - 1], s[i])]
  BY <1>3
<1>5. kept = [i \in 0..m |-> IF i = 0 THEN <<>>
                             ELSE IF Under(s[i].host, Home) THEN kept[i - 1]
                             ELSE Append(kept[i - 1], s[i])]
  <2> HIDE DEF m
  <2>. QED  BY <1>4, Zenon
<1>6. OutsideHome(s) = kept[m]  BY DEF OutsideHome
<1> HIDE DEF m, kept, step
<1>7. kept[0] = <<>>
  <2>1. 0 \in 0..m  BY <1>1
  <2>. QED  BY <2>1, <1>5
<1>8. ASSUME NEW i \in 0..(m - 1)
      PROVE  kept[i + 1] = IF InHome(s[i + 1]) THEN kept[i] ELSE Append(kept[i], s[i + 1])
  <2>1. i + 1 \in 0..m /\ i + 1 # 0 /\ (i + 1) - 1 = i  BY <1>1
  <2>. QED  BY <2>1, <1>5 DEF InHome
<1>9. \A i \in 0..m : i \in {j \in 0..m : kept[j] \in Seq(V)}
  <2> DEFINE G == {j \in 0..m : kept[j] \in Seq(V)}
  <2>1. 0 \in G
    <3>1. 0 \in 0..m /\ <<>> \in Seq(V)  BY <1>1
    <3>. QED  BY <3>1, <1>7
  <2>2. ASSUME NEW i \in 0..(m - 1), i \in G PROVE i + 1 \in G
    <3>1. i + 1 \in 1..m /\ s[i + 1] \in V /\ kept[i] \in Seq(V)  BY <1>1, <2>2
    <3>2. i + 1 \in 0..m /\ Append(kept[i], s[i + 1]) \in Seq(V)  BY <1>1, <3>1
    <3>3. kept[i + 1] = kept[i] \/ kept[i + 1] = Append(kept[i], s[i + 1])  BY <1>8
    <3>. QED  BY <3>1, <3>2, <3>3
  <2> HIDE DEF G
  <2>3. \A i \in 0..m : i \in G  BY <1>1, <2>1, <2>2, UpTo
  <2>. QED  BY <2>3 DEF G
<1>10. kept = [i \in 0..m |-> kept[i]]  BY <1>5
<1>11. kept \in [0..m -> Seq(V)]  BY <1>9, <1>10
<1>12. Filtered(kept, s, Seq(V))  BY <1>7, <1>8, <1>11 DEF Filtered, m
<1>. QED  BY <1>6, <1>12 DEF m

(* Lists that begin alike are filtered alike so far.                       *)
LEMMA FilteredAlike ==
  ASSUME NEW V, NEW s \in Seq(V), NEW t \in Seq(V), NEW S, NEW k, NEW l,
         Filtered(k, s, S), Filtered(l, t, S),
         NEW n \in Nat, n =< Len(s), n =< Len(t), \A i \in 1..n : s[i] = t[i]
  PROVE  k[n] = l[n]
<1> DEFINE G == {j \in 0..n : k[j] = l[j]}
<1>1. Len(s) \in Nat /\ Len(t) \in Nat  BY LenProperties
<1>2. 0 \in G  BY DEF Filtered
<1>3. ASSUME NEW i \in 0..(n - 1), i \in G PROVE i + 1 \in G
  <2>1. i \in 0..(Len(s) - 1) /\ i \in 0..(Len(t) - 1) /\ i + 1 \in 1..n /\ i + 1 \in 0..n
    BY <1>1
  <2>2. s[i + 1] = t[i + 1] /\ k[i] = l[i]  BY <2>1, <1>3
  <2>3. k[i + 1] = IF InHome(s[i + 1]) THEN k[i] ELSE Append(k[i], s[i + 1])
    BY <2>1 DEF Filtered
  <2>4. l[i + 1] = IF InHome(t[i + 1]) THEN l[i] ELSE Append(l[i], t[i + 1])
    BY <2>1 DEF Filtered
  <2>. QED  BY <2>1, <2>2, <2>3, <2>4
<1> HIDE DEF G
<1>4. \A i \in 0..n : i \in G  BY <1>2, <1>3, UpTo
<1>5. n \in 0..n  OBVIOUS
<1>6. n \in G  BY <1>4, <1>5
<1>. QED  BY <1>6 DEF G

LEMMA OutsideHomeIsList ==
  ASSUME NEW V, NEW s \in Seq(V)
  PROVE  OutsideHome(s) \in Seq(V)
<1>1. PICK k : Filtered(k, s, Seq(V)) /\ OutsideHome(s) = k[Len(s)]  BY OutsideHomeRuns
<1>2. Len(s) \in 0..Len(s)  BY LenProperties
<1>. QED  BY <1>1, <1>2 DEF Filtered

LEMMA OutsideHomeOfNone == OutsideHome(<<>>) = <<>>
<1>1. <<>> \in Seq(STRING) /\ Len(<<>>) = 0  OBVIOUS
<1>2. PICK k : Filtered(k, <<>>, Seq(STRING)) /\ OutsideHome(<<>>) = k[Len(<<>>)]
  BY <1>1, OutsideHomeRuns
<1>. QED  BY <1>1, <1>2 DEF Filtered

LEMMA OutsideHomeGrows ==
  ASSUME NEW V, NEW s \in Seq(V), NEW v \in V
  PROVE  OutsideHome(Append(s, v)) = IF InHome(v) THEN OutsideHome(s)
                                     ELSE Append(OutsideHome(s), v)
<1> DEFINE t == Append(s, v)
           n == Len(s)
<1>1. /\ t \in Seq(V) /\ n \in Nat /\ Len(t) = n + 1 /\ t[n + 1] = v
      /\ \A i \in 1..n : t[i] = s[i]
  BY AppendProperties, LenProperties
<1> HIDE DEF t, n
<1>2. PICK k : Filtered(k, s, Seq(V)) /\ OutsideHome(s) = k[n]  BY OutsideHomeRuns DEF n
<1>3. PICK l : Filtered(l, t, Seq(V)) /\ OutsideHome(t) = l[n + 1]  BY <1>1, OutsideHomeRuns
<1>4. k[n] = l[n]
  <2>1. n =< Len(s) /\ n =< Len(t)  BY <1>1 DEF n
  <2>2. \A i \in 1..n : s[i] = t[i]  BY <1>1
  <2>. QED  BY <1>1, <1>2, <1>3, <2>1, <2>2, FilteredAlike
<1>5. n \in 0..(Len(t) - 1)  BY <1>1
<1>6. l[n + 1] = IF InHome(t[n + 1]) THEN l[n] ELSE Append(l[n], t[n + 1])
  BY <1>3, <1>5 DEF Filtered
<1>7. OutsideHome(t) = IF InHome(v) THEN OutsideHome(s) ELSE Append(OutsideHome(s), v)
  BY <1>1, <1>2, <1>3, <1>4, <1>6
<1>. QED  BY <1>7 DEF t

AllOut(s) == \A i \in DOMAIN s : ~InHome(s[i])

(* What is kept is outside $HOME, and no more than there was.              *)
LEMMA OutsideHomeIsOut ==
  ASSUME NEW V, NEW s \in Seq(V)
  PROVE  AllOut(OutsideHome(s))
<1> DEFINE P == {d \in Seq(V) : AllOut(OutsideHome(d))}
<1>1. <<>> \in P
  <2>1. AllOut(<<>>)  BY DEF AllOut
  <2>. QED  BY <2>1, OutsideHomeOfNone
<1>2. ASSUME NEW d \in Seq(V), NEW v \in V, d \in P PROVE Append(d, v) \in P
  <2> DEFINE o == OutsideHome(d)
             q == OutsideHome(Append(d, v))
  <2>1. q = IF InHome(v) THEN o ELSE Append(o, v)  BY OutsideHomeGrows
  <2>2. o \in Seq(V) /\ AllOut(o)  BY <1>2, OutsideHomeIsList
  <2> HIDE DEF o, q
  <2>3. CASE InHome(v)  
    <3>1. AllOut(q)  BY <2>1, <2>2, <2>3
    <3>. QED  BY <3>1 DEF q
  <2>4. CASE ~InHome(v)
    <3>1. /\ Len(o) \in Nat /\ Append(o, v) \in Seq(V) /\ Len(Append(o, v)) = Len(o) + 1
          /\ Append(o, v)[Len(o) + 1] = v /\ \A i \in 1..Len(o) : Append(o, v)[i] = o[i]
      BY <2>2, AppendProperties, LenProperties
    <3>2. DOMAIN o = 1..Len(o) /\ DOMAIN Append(o, v) = 1..(Len(o) + 1)
      BY <2>2, <3>1, LenProperties
    <3>3. ASSUME NEW i \in DOMAIN Append(o, v) PROVE ~InHome(Append(o, v)[i])
      <4>1. i \in 1..Len(o) \/ i = Len(o) + 1  BY <3>1, <3>2
      <4>2. CASE i \in 1..Len(o)
        <5>1. ~InHome(o[i])  BY <4>2, <2>2, <3>2 DEF AllOut
        <5>. QED  BY <4>2, <3>1, <5>1
      <4>. QED  BY <4>1, <4>2, <2>4, <3>1
    <3>4. AllOut(q)  BY <2>1, <2>4, <3>3 DEF AllOut
    <3>. QED  BY <3>4 DEF q
  <2>. QED  BY <2>3, <2>4
<1> HIDE DEF P
<1>3. \A d \in Seq(V) : d \in P  BY <1>1, <1>2, ListInduction
<1>. QED  BY <1>3 DEF P

(* Filtering list by list.                                                 *)
LEMMA OutsideHomeConcat ==
  ASSUME NEW V, NEW s \in Seq(V), NEW t \in Seq(V)
  PROVE  OutsideHome(s \o t) = OutsideHome(s) \o OutsideHome(t)
<1> DEFINE P == {d \in Seq(V) : OutsideHome(s \o d) = OutsideHome(s) \o OutsideHome(d)}
<1>0. OutsideHome(s) \in Seq(V)  BY OutsideHomeIsList
<1>1. <<>> \in P
  <2>1. s \o <<>> = s /\ <<>> \in Seq(V)  BY ConcatEmptySeq
  <2>2. OutsideHome(s) \o <<>> = OutsideHome(s)  BY <1>0, ConcatEmptySeq
  <2>. QED  BY <2>1, <2>2, OutsideHomeOfNone
<1>2. ASSUME NEW d \in Seq(V), NEW v \in V, d \in P PROVE Append(d, v) \in P
  <2> DEFINE o == OutsideHome(s)
             p == OutsideHome(d)
             sd == s \o d
  <2>1. OutsideHome(sd) = o \o p /\ p \in Seq(V) /\ sd \in Seq(V) /\ o \in Seq(V)
    BY <1>0, <1>2, OutsideHomeIsList
  <2>2. s \o Append(d, v) = Append(sd, v)  BY ConcatAppend
  <2>3. OutsideHome(Append(d, v)) = IF InHome(v) THEN p ELSE Append(p, v)  BY OutsideHomeGrows
  <2> HIDE DEF sd, o, p
  <2>4. OutsideHome(Append(sd, v)) = IF InHome(v) THEN OutsideHome(sd) ELSE Append(OutsideHome(sd), v)
    BY <2>1, OutsideHomeGrows
  <2>5. o \o Append(p, v) = Append(o \o p, v)  BY <2>1, ConcatAppend
  <2>6. OutsideHome(s \o Append(d, v)) = o \o OutsideHome(Append(d, v))
    BY <2>1, <2>2, <2>3, <2>4, <2>5
  <2>7. Append(d, v) \in Seq(V)  OBVIOUS
  <2>. QED  BY <2>6, <2>7 DEF o
<1> HIDE DEF P
<1>3. \A d \in Seq(V) : d \in P  BY <1>1, <1>2, ListInduction
<1>. QED  BY <1>3 DEF P

(* A list outside of $HOME is kept as it is.                               *)
LEMMA OutsideHomeKeeps ==
  ASSUME NEW V, NEW s \in Seq(V), AllOut(s)
  PROVE  OutsideHome(s) = s
<1> DEFINE P == {d \in Seq(V) : AllOut(d) => OutsideHome(d) = d}
<1>1. <<>> \in P  BY OutsideHomeOfNone
<1>2. ASSUME NEW d \in Seq(V), NEW v \in V, d \in P PROVE Append(d, v) \in P
  <2>1. Append(d, v) \in Seq(V)  OBVIOUS
  <2>2. ASSUME AllOut(Append(d, v)) PROVE OutsideHome(Append(d, v)) = Append(d, v)
    <3>1. /\ Len(d) \in Nat /\ DOMAIN d = 1..Len(d) /\ DOMAIN Append(d, v) = 1..(Len(d) + 1)
          /\ Append(d, v)[Len(d) + 1] = v /\ \A i \in 1..Len(d) : Append(d, v)[i] = d[i]
      BY <2>1, AppendProperties, LenProperties
    <3>2. Len(d) + 1 \in DOMAIN Append(d, v) /\ DOMAIN d \subseteq DOMAIN Append(d, v)
      BY <3>1
    <3>3. AllOut(d) /\ ~InHome(v)  BY <2>2, <3>1, <3>2 DEF AllOut
    <3>4. OutsideHome(d) = d  BY <1>2, <3>3
    <3>. QED  BY <3>3, <3>4, OutsideHomeGrows
  <2>. QED  BY <2>1, <2>2
<1> HIDE DEF P
<1>3. \A d \in Seq(V) : d \in P  BY <1>1, <1>2, ListInduction
<1>. QED  BY <1>3 DEF P

(* Nothing is kept of a list inside $HOME.                                 *)
LEMMA OutsideHomeDrops ==
  ASSUME NEW V, NEW s \in Seq(V), \A i \in DOMAIN s : InHome(s[i])
  PROVE  OutsideHome(s) = <<>>
<1> DEFINE P == {d \in Seq(V) : (\A i \in DOMAIN d : InHome(d[i])) => OutsideHome(d) = <<>>}
<1>1. <<>> \in P  BY OutsideHomeOfNone
<1>2. ASSUME NEW d \in Seq(V), NEW v \in V, d \in P PROVE Append(d, v) \in P
  <2>1. Append(d, v) \in Seq(V)  OBVIOUS
  <2>2. ASSUME \A i \in DOMAIN Append(d, v) : InHome(Append(d, v)[i])
        PROVE  OutsideHome(Append(d, v)) = <<>>
    <3>1. /\ Len(d) \in Nat /\ DOMAIN d = 1..Len(d) /\ DOMAIN Append(d, v) = 1..(Len(d) + 1)
          /\ Append(d, v)[Len(d) + 1] = v /\ \A i \in 1..Len(d) : Append(d, v)[i] = d[i]
      BY <2>1, AppendProperties, LenProperties
    <3>2. Len(d) + 1 \in DOMAIN Append(d, v) /\ DOMAIN d \subseteq DOMAIN Append(d, v)
      BY <3>1
    <3>3. InHome(v) /\ \A i \in DOMAIN d : InHome(d[i])  BY <2>2, <3>1, <3>2
    <3>4. OutsideHome(d) = <<>>  BY <1>2, <3>3
    <3>. QED  BY <3>3, <3>4, OutsideHomeGrows
  <2>. QED  BY <2>1, <2>2
<1> HIDE DEF P
<1>3. \A d \in Seq(V) : d \in P  BY <1>1, <1>2, ListInduction
<1>. QED  BY <1>3 DEF P

(* An argument outside $HOME is kept.                                      *)
LEMMA OutsideHomeHas ==
  ASSUME NEW V, NEW s \in Seq(V), NEW i \in DOMAIN s, ~InHome(s[i])
  PROVE  \E j \in DOMAIN OutsideHome(s) : OutsideHome(s)[j] = s[i]
<1> DEFINE Has(d, v) == \E j \in DOMAIN d : d[j] = v
           P == {d \in Seq(V) : \A v \in V : Has(d, v) /\ ~InHome(v) => Has(OutsideHome(d), v)}
<1>1. <<>> \in P  OBVIOUS
<1>0. ASSUME NEW d \in Seq(V), NEW v \in V, NEW w \in V
      PROVE  Has(Append(d, v), w) <=> Has(d, w) \/ v = w
  <2>1. Append(d, v) \in Seq(V)  OBVIOUS
  <2>2. /\ Len(d) \in Nat /\ DOMAIN d = 1..Len(d) /\ DOMAIN Append(d, v) = 1..(Len(d) + 1)
        /\ Append(d, v)[Len(d) + 1] = v /\ \A j \in 1..Len(d) : Append(d, v)[j] = d[j]
    BY <2>1, AppendProperties, LenProperties
  <2>3. \A j : j \in 1..(Len(d) + 1) <=> j \in 1..Len(d) \/ j = Len(d) + 1  BY <2>2
  <2>. QED  BY <2>2, <2>3
<1> HIDE DEF Has
<1>2. ASSUME NEW d \in Seq(V), NEW v \in V, d \in P PROVE Append(d, v) \in P
  <2>1. Append(d, v) \in Seq(V) /\ OutsideHome(d) \in Seq(V)  BY OutsideHomeIsList
  <2>2. ASSUME NEW w \in V, Has(Append(d, v), w), ~InHome(w) PROVE Has(OutsideHome(Append(d, v)), w)
    <3>1. Has(d, w) \/ v = w  BY <1>0, <2>2
    <3>2. Has(d, w) => Has(OutsideHome(d), w)  BY <1>2, <2>2
    <3>3. OutsideHome(Append(d, v)) = IF InHome(v) THEN OutsideHome(d) ELSE Append(OutsideHome(d), v)
      BY OutsideHomeGrows
    <3>4. Has(Append(OutsideHome(d), v), w) <=> Has(OutsideHome(d), w) \/ v = w
      BY <1>0, <2>1
    <3>. QED  BY <3>1, <3>2, <3>3, <3>4, <2>2
  <2>. QED  BY <2>1, <2>2
<1> HIDE DEF P
<1>3. \A d \in Seq(V) : d \in P  BY <1>1, <1>2, ListInduction
<1>4. s[i] \in V  BY LenProperties, ElementOfSeq
<1>5. Has(s, s[i])  BY DEF Has
<1>6. Has(OutsideHome(s), s[i])  BY <1>3, <1>4, <1>5 DEF P
<1>. QED  BY <1>6 DEF Has

-----------------------------------------------------------------------------
(* The lists of shares and of --volume arguments, element by element.      *)
(* The provers do not take a string literal for a member of STRING.        *)
Word == STRING \cup {"var", "lib", "pelagos", "volumes"}

V == [host : Seq(Word), at : Seq(Word), ro : BOOLEAN]

LEMMA WordPaths == Home \in Seq(Word) /\ DataDir \in Seq(Word) /\ VolumeArgType \subseteq V
<1>1. STRING \subseteq Word  BY DEF Word
<1>2. \A p \in Seq(STRING) : p \in Seq(Word)  BY <1>1, SeqMonotonic
<1>. QED  BY <1>2, VolumesAssumption DEF V, VolumeArgType

Listed(v) == <<HomeSpec>> \o OutsideHome(v)

LEMMA VolumesHost ==
  LET p == VolumesSpec.host
  IN  /\ p \in Seq(Word) /\ Len(p) = Len(DataDir) + 1
      /\ \A i \in 1..Len(DataDir) : p[i] = DataDir[i]
<1> DEFINE w == "volumes"
           x == <<w>>
<1>1. DataDir \in Seq(Word) /\ Len(DataDir) \in Nat  BY WordPaths, LenProperties
<1>2. w \in Word /\ VolumesSpec.host = DataDir \o x  BY DEF Word, VolumesSpec, VolumeArg
<1> HIDE DEF w
<1>3. x \in Seq(Word) /\ Len(x) = 1  BY <1>2
<1> HIDE DEF x
<1>4. /\ DataDir \o x \in Seq(Word) /\ Len(DataDir \o x) = Len(DataDir) + Len(x)
      /\ \A i \in 1..(Len(DataDir) + Len(x)) :
            (DataDir \o x)[i] = IF i =< Len(DataDir) THEN DataDir[i] ELSE x[i - Len(DataDir)]
  BY <1>1, <1>3, ConcatProperties
<1>5. \A i \in 1..Len(DataDir) : i \in 1..(Len(DataDir) + Len(x)) /\ i =< Len(DataDir)
  BY <1>1, <1>3
<1>. QED  BY <1>2, <1>3, <1>4, <1>5

LEMMA SpecFacts ==
  /\ HomeSpec \in V /\ HomeSpec.host = Home /\ HomeSpec.at = <<>> /\ InHome(HomeSpec)
  /\ VolumesSpec \in V /\ VolumesSpec # HomeSpec
<1>1. Home \in Seq(Word) /\ DataDir \in Seq(Word)  BY WordPaths
<1>2. HomeSpec \in V  BY <1>1 DEF HomeSpec, VolumeArg, V
<1>3. VolumesSpec \in V
  <2>1. VolumesSpec.host \in Seq(Word)  BY VolumesHost
  <2>2. VolumesSpec.at \in Seq(Word)
    <3> DEFINE a == "var" b == "lib" c == "pelagos" d == "volumes"
    <3>1. a \in Word /\ b \in Word /\ c \in Word /\ d \in Word  BY DEF Word
    <3>2. VolumesSpec.at = <<a, b, c, d>>  BY DEF VolumesSpec, VolumeArg
    <3> HIDE DEF a, b, c, d
    <3>. QED  BY <3>1, <3>2
  <2>3. \A p \in Seq(Word), q \in Seq(Word) : VolumeArg(p, q, FALSE) \in V
    BY DEF VolumeArg, V
  <2>4. VolumesSpec = VolumeArg(VolumesSpec.host, VolumesSpec.at, FALSE)
    BY DEF VolumesSpec, VolumeArg
  <2>5. VolumeArg(VolumesSpec.host, VolumesSpec.at, FALSE) \in V  BY <2>1, <2>2, <2>3
  <2>. QED  BY <2>4, <2>5, Zenon
<1>4. HomeSpec.host = Home /\ HomeSpec.at = <<>>  BY DEF HomeSpec, VolumeArg
<1>5. InHome(HomeSpec)
  <2>1. SubSeq(Home, 1, Len(Home)) = Home  BY <1>1, FirstAll DEF First
  <2>2. Len(Home) >= Len(Home)  BY <1>1, LenProperties
  <2>. QED  BY <1>4, <2>1, <2>2 DEF InHome, Under
<1>6. VolumesSpec # HomeSpec
  <2>1. VolumesSpec.at # <<>>  BY DEF VolumesSpec, VolumeArg
  <2>. QED  BY <1>4, <2>1
<1>. QED  BY <1>2, <1>3, <1>4, <1>5, <1>6

(* The volumes directory is inside $HOME where the data directory is.      *)
LEMMA VolumesInHome ==
  ASSUME Under(DataDir, Home)
  PROVE  InHome(VolumesSpec)
<1>1. Home \in Seq(Word) /\ DataDir \in Seq(Word)  BY WordPaths
<1> DEFINE p == VolumesSpec.host
           n == Len(Home)
<1>2. n \in Nat /\ Len(DataDir) \in Nat /\ n =< Len(DataDir) /\ SubSeq(DataDir, 1, n) = Home
  BY <1>1, LenProperties DEF Under
<1>3. /\ p \in Seq(Word) /\ Len(p) = Len(DataDir) + 1
      /\ \A i \in 1..Len(DataDir) : p[i] = DataDir[i]
  BY VolumesHost
<1> HIDE DEF p
<1>4. n \in 0..Len(DataDir) /\ n \in 0..Len(p)  BY <1>2, <1>3
<1>5. First(p, n) \in Seq(Word) /\ Len(First(p, n)) = n /\ \A k \in 1..n : First(p, n)[k] = p[k]
  BY <1>3, <1>4, FirstProperties
<1>6. First(DataDir, n) \in Seq(Word) /\ Len(First(DataDir, n)) = n
      /\ \A k \in 1..n : First(DataDir, n)[k] = DataDir[k]
  BY <1>1, <1>4, FirstProperties
<1> HIDE DEF n
<1>7. \A k \in 1..n : First(p, n)[k] = First(DataDir, n)[k]
  <2> TAKE k \in 1..n
  <2>1. k \in 1..Len(DataDir)  BY <1>2
  <2>. QED  BY <2>1, <1>3, <1>5, <1>6
<1>8. First(p, n) = First(DataDir, n)  BY <1>5, <1>6, <1>7, SeqEqual
<1>9. SubSeq(p, 1, n) = Home  BY <1>2, <1>8 DEF First
<1>10. Len(p) >= n  BY <1>2, <1>3
<1>. QED  BY <1>9, <1>10 DEF InHome, Under, n, p

(* Whether or not the home share leads the list, the rest is the same.     *)
LEMMA BuildIsListed ==
  ASSUME NEW v \in Seq(V)
  PROVE  build_virtiofs_shares(v) = parse_volumes(Listed(v))
<1> DEFINE rest == IF v # <<>> /\ Head(v) = HomeSpec THEN Tail(v) ELSE v
<1>1. OutsideHome(rest) = OutsideHome(v)
  <2>1. CASE v # <<>> /\ Head(v) = HomeSpec
    <3>1. Tail(v) \in Seq(V) /\ v = <<HomeSpec>> \o Tail(v)
      BY <2>1, HeadTailProperties
    <3>2. <<HomeSpec>> \in Seq(V) /\ \A i \in DOMAIN <<HomeSpec>> : InHome(<<HomeSpec>>[i])
      BY SpecFacts
    <3>3. OutsideHome(<<HomeSpec>>) = <<>>  BY <3>2, OutsideHomeDrops
    <3>4. OutsideHome(v) = OutsideHome(<<HomeSpec>>) \o OutsideHome(Tail(v))
      BY <3>1, <3>2, OutsideHomeConcat
    <3>5. OutsideHome(Tail(v)) \in Seq(V)  BY <3>1, OutsideHomeIsList
    <3>6. <<>> \o OutsideHome(Tail(v)) = OutsideHome(Tail(v))  BY <3>5, ConcatEmptySeq
    <3>. QED  BY <2>1, <3>3, <3>4, <3>6
  <2>2. CASE ~(v # <<>> /\ Head(v) = HomeSpec)  BY <2>2
  <2>. QED  BY <2>1, <2>2
<1>. QED  BY <1>1 DEF build_virtiofs_shares, Listed

LEMMA ListedFacts ==
  ASSUME NEW v \in Seq(V)
  PROVE  /\ OutsideHome(v) \in Seq(V) /\ Len(OutsideHome(v)) \in Nat
         /\ Listed(v) \in Seq(V) /\ Len(Listed(v)) = Len(OutsideHome(v)) + 1
         /\ Listed(v)[1] = HomeSpec
         /\ \A i \in 1..Len(OutsideHome(v)) : Listed(v)[i + 1] = OutsideHome(v)[i]
<1> DEFINE o == OutsideHome(v)
           h == <<HomeSpec>>
<1>1. o \in Seq(V) /\ h \in Seq(V) /\ Len(o) \in Nat /\ Len(h) = 1 /\ h[1] = HomeSpec
  BY SpecFacts, OutsideHomeIsList, LenProperties
<1> HIDE DEF o, h
<1>2. /\ h \o o \in Seq(V) /\ Len(h \o o) = Len(h) + Len(o)
      /\ \A i \in 1..(Len(h) + Len(o)) : (h \o o)[i] = IF i =< Len(h) THEN h[i] ELSE o[i - Len(h)]
  BY <1>1, ConcatProperties
<1>3. 1 \in 1..(Len(h) + Len(o)) /\ 1 =< Len(h)  BY <1>1
<1>4. ASSUME NEW i \in 1..Len(o) PROVE (h \o o)[i + 1] = o[i]
  <2>1. i + 1 \in 1..(Len(h) + Len(o)) /\ ~(i + 1 =< Len(h)) /\ (i + 1) - Len(h) = i  BY <1>1
  <2>. QED  BY <2>1, <1>2
<1>5. (h \o o)[1] = HomeSpec  BY <1>1, <1>2, <1>3
<1>6. Len(h \o o) = Len(o) + 1  BY <1>1, <1>2
<1>. QED  BY <1>1, <1>2, <1>4, <1>5, <1>6 DEF Listed, o, h

LEMMA SharesFacts ==
  ASSUME NEW v \in Seq(V)
  PROVE  LET s == daemon_args_from_cli(v)
         IN  /\ DOMAIN s = 1..(Len(Listed(v)) + 1)
             /\ s[1] = Share(VolumesTag, VolumesSpec)
             /\ \A i \in 1..Len(Listed(v)) : s[i + 1] = Share(ShareTag(i - 1), Listed(v)[i])
             /\ \E T : s \in Seq(T)
<1> DEFINE e == Listed(v)
           q == parse_volumes(e)
           x == <<Share(VolumesTag, VolumesSpec)>>
           T == {q[i] : i \in DOMAIN e} \cup {Share(VolumesTag, VolumesSpec)}
<1>1. e \in Seq(V) /\ Len(e) \in Nat /\ DOMAIN e = 1..Len(e)  BY ListedFacts, LenProperties
<1> HIDE DEF e
<1>2. \A i \in 1..Len(e) : q[i] = Share(ShareTag(i - 1), e[i])  BY <1>1 DEF parse_volumes
<1>3. q \in [1..Len(e) -> T]  BY <1>1 DEF parse_volumes
<1> HIDE DEF q
<1>4. q \in Seq(T) /\ Len(q) = Len(e)
  <2> HIDE DEF T
  <2>. QED  BY <1>1, <1>3, FunctionIsSeq
<1>5. x \in Seq(T) /\ Len(x) = 1 /\ x[1] = Share(VolumesTag, VolumesSpec)  OBVIOUS
<1> HIDE DEF x, T
<1>6. /\ x \o q \in Seq(T) /\ Len(x \o q) = Len(x) + Len(q)
      /\ \A i \in 1..(Len(x) + Len(q)) : (x \o q)[i] = IF i =< Len(x) THEN x[i] ELSE q[i - Len(x)]
  BY <1>4, <1>5, ConcatProperties
<1>7. ASSUME NEW i \in 1..Len(e) PROVE (x \o q)[i + 1] = q[i]
  <2>1. i + 1 \in 1..(Len(x) + Len(q)) /\ ~(i + 1 =< Len(x)) /\ (i + 1) - Len(x) = i
    BY <1>1, <1>4, <1>5
  <2>. QED  BY <2>1, <1>6
<1>8. (x \o q)[1] = x[1]
  <2>1. 1 \in 1..(Len(x) + Len(q)) /\ 1 =< Len(x)  BY <1>1, <1>4, <1>5
  <2>. QED  BY <2>1, <1>6
<1>9. DOMAIN (x \o q) = 1..(Len(e) + 1)
  <2>1. Len(x \o q) = Len(e) + 1  BY <1>1, <1>4, <1>5, <1>6
  <2>. QED  BY <2>1, <1>6, LenProperties
<1>10. daemon_args_from_cli(v) = x \o q  BY BuildIsListed DEF daemon_args_from_cli, x, q, e
<1>11. \E S : x \o q \in Seq(S)  BY <1>6
<1>. QED  BY <1>2, <1>5, <1>7, <1>8, <1>9, <1>10, <1>11 DEF e

(* The --volume arguments: the volumes directory, $HOME, and the rest.     *)
LEMMA ArgsFacts ==
  ASSUME NEW v \in Seq(V)
  PROVE  daemon_subprocess_args(daemon_args_from_cli(v)) = <<VolumesSpec>> \o Listed(v)
<1> DEFINE e == Listed(v)
           s == daemon_args_from_cli(v)
           a == daemon_subprocess_args(s)
           x == <<VolumesSpec>>
           n == Len(e)
<1>1. e \in Seq(V) /\ n \in Nat /\ \A i \in 1..n : e[i] \in V
  BY ListedFacts, LenProperties, ElementOfSeq
<1>2. /\ DOMAIN s = 1..(n + 1) /\ s[1] = Share(VolumesTag, VolumesSpec)
      /\ \A i \in 1..n : s[i + 1] = Share(ShareTag(i - 1), e[i])
  BY SharesFacts
<1> HIDE DEF e, s, n
<1>3. x \in Seq(V) /\ Len(x) = 1 /\ x[1] = VolumesSpec  BY SpecFacts
<1> HIDE DEF x
<1>4. /\ x \o e \in Seq(V) /\ Len(x \o e) = Len(x) + n
      /\ \A i \in 1..(Len(x) + n) : (x \o e)[i] = IF i =< Len(x) THEN x[i] ELSE e[i - Len(x)]
  BY <1>1, <1>3, ConcatProperties DEF n
<1>5. \A t : \A w \in V : VolumeArg(Share(t, w).host, Share(t, w).at, Share(t, w).ro) = w
  BY DEF VolumeArg, Share, V
<1>6. a = [i \in 1..(n + 1) |-> VolumeArg(s[i].host, s[i].at, s[i].ro)]
  BY <1>2 DEF daemon_subprocess_args
<1> HIDE DEF a
<1>7. ASSUME NEW i \in 1..(n + 1) PROVE a[i] = (x \o e)[i] /\ a[i] \in V
  <2>1. CASE i = 1
    <3>1. a[1] = VolumesSpec  BY <1>2, <1>5, <1>6, <2>1, SpecFacts
    <3>2. 1 \in 1..(Len(x) + n) /\ 1 =< Len(x)  BY <1>1, <1>3
    <3>3. (x \o e)[1] = VolumesSpec  BY <3>2, <1>3, <1>4
    <3>. QED  BY <2>1, <3>1, <3>3, SpecFacts
  <2>2. CASE i # 1
    <3>1. i - 1 \in 1..n /\ (i - 1) + 1 = i  BY <1>1, <2>2
    <3>2. s[i] = Share(ShareTag((i - 1) - 1), e[i - 1]) /\ e[i - 1] \in V  BY <1>1, <1>2, <3>1
    <3>3. a[i] = e[i - 1]  BY <1>5, <1>6, <3>2
    <3>4. i \in 1..(Len(x) + n) /\ ~(i =< Len(x)) /\ i - Len(x) = i - 1  BY <1>1, <1>3, <2>2
    <3>5. (x \o e)[i] = e[i - 1]  BY <1>4, <3>4
    <3>. QED  BY <3>2, <3>3, <3>5
  <2>. QED  BY <2>1, <2>2
<1>8. a \in Seq(V) /\ Len(a) = n + 1
  <2>1. a \in [1..(n + 1) -> V]  BY <1>6, <1>7
  <2>2. n + 1 \in Nat  BY <1>1
  <2>. QED  BY <2>1, <2>2, FunctionIsSeq
<1>9. Len(x \o e) = n + 1  BY <1>1, <1>3, <1>4
<1>10. a = x \o e  BY <1>4, <1>7, <1>8, <1>9, SeqEqual
<1>. QED  BY <1>10 DEF a, s, x, e

(* With the data directory in $HOME the daemon keeps what its command did. *)
LEMMA SameOutsideHome ==
  ASSUME NEW v \in Seq(V), Under(DataDir, Home)
  PROVE  LET a == <<VolumesSpec>> \o Listed(v)
         IN  /\ a \in Seq(V) /\ Tail(a) = Listed(v)
             /\ OutsideHome(a) = OutsideHome(Listed(v))
             /\ OutsideHome(a) = OutsideHome(v)
<1> DEFINE o == OutsideHome(v)
           h == <<HomeSpec>>
           x == <<VolumesSpec>>
           e == Listed(v)
<1>1. o \in Seq(V) /\ h \in Seq(V) /\ x \in Seq(V) /\ e \in Seq(V)  BY SpecFacts, ListedFacts
<1>2. OutsideHome(h) = <<>>
  <2>1. \A i \in DOMAIN h : InHome(h[i])  BY SpecFacts
  <2> HIDE DEF h
  <2>. QED  BY <1>1, <2>1, OutsideHomeDrops
<1>3. OutsideHome(x) = <<>>
  <2>1. \A i \in DOMAIN x : InHome(x[i])  BY VolumesInHome
  <2> HIDE DEF x
  <2>. QED  BY <1>1, <2>1, OutsideHomeDrops
<1>4. OutsideHome(o) = o  BY <1>1, OutsideHomeIsOut, OutsideHomeKeeps
<1>5. e = h \o o  BY DEF Listed
<1>6. Tail(x \o e) = e /\ x \o e \in Seq(V)
  <2> HIDE DEF e
  <2>. QED  BY <1>1
<1> HIDE DEF o, h, x, e
<1>7. OutsideHome(e) = OutsideHome(h) \o OutsideHome(o)  BY <1>1, <1>5, OutsideHomeConcat
<1>8. OutsideHome(x \o e) = OutsideHome(x) \o OutsideHome(e)  BY <1>1, OutsideHomeConcat
<1>9. <<>> \o o = o  BY <1>1, ConcatEmptySeq
<1>10. OutsideHome(e) = o  BY <1>2, <1>4, <1>7, <1>9
<1>11. OutsideHome(x \o e) = o  BY <1>3, <1>8, <1>9, <1>10
<1>. QED  BY <1>6, <1>10, <1>11 DEF o, x, e

LEMMA ArgLists == \A v \in VolumeArgs : v \in Seq(V)
<1>1. \A v \in VolumeArgs : v \in Seq(VolumeArgType)  BY LifecycleAssumption
<1>. QED  BY <1>1, WordPaths, SeqMonotonic

(* The daemon parses the --volume arguments it is started with back into   *)
(* the share list of its command.                                          *)
LEMMA RoundTrip ==
  ASSUME NEW v \in Seq(V), Under(DataDir, Home)
  PROVE  daemon_args_from_cli(daemon_subprocess_args(daemon_args_from_cli(v)))
         = daemon_args_from_cli(v)
<1> DEFINE a == <<VolumesSpec>> \o Listed(v)
<1>1. daemon_subprocess_args(daemon_args_from_cli(v)) = a  BY ArgsFacts
<1>2. a \in Seq(V) /\ OutsideHome(a) = OutsideHome(v)  BY SameOutsideHome
<1> HIDE DEF a
<1>3. build_virtiofs_shares(a) = parse_volumes(Listed(a))  BY <1>2, BuildIsListed
<1>4. build_virtiofs_shares(v) = parse_volumes(Listed(v))  BY BuildIsListed
<1>5. Listed(a) = Listed(v)  BY <1>2 DEF Listed
<1>. QED  BY <1>1, <1>3, <1>4, <1>5 DEF daemon_args_from_cli

-----------------------------------------------------------------------------
(* Digits is what its recursive definition says: there are tables of it up *)
(* to every number, and they agree.                                        *)
Table(g, n) ==
    g = [i \in 0..n |-> IF i < Base THEN <<i>> ELSE Append(g[i \div Base], i % Base)]

LEMMA DivIsLess ==
  ASSUME NEW n \in Nat, n >= Base
  PROVE  n \div Base \in 0..(n - 1) /\ n % Base \in 0..(Base - 1)
         /\ n = Base * (n \div Base) + (n % Base)
<1>1. Base \in Nat /\ Base >= 2  BY VolumesAssumption
<1> DEFINE q == n \div Base
           r == n % Base
<1>2. q \in Int /\ r \in 0..(Base - 1) /\ n = Base * q + r  BY <1>1
<1> HIDE DEF q, r
<1>3. q >= 0
  <2>1. ASSUME q =< -1 PROVE FALSE
    <3>1. Base * q =< -Base  BY <1>1, <1>2, <2>1
    <3>. QED  BY <1>1, <1>2, <3>1
  <2>. QED  BY <1>2, <2>1
<1>4. Base * q >= 2 * q  BY <1>1, <1>2, <1>3
<1>5. q < n  BY <1>1, <1>2, <1>3, <1>4
<1>. QED  BY <1>2, <1>3, <1>5 DEF q, r

LEMMA TablesExist ==
  ASSUME NEW N \in Nat
  PROVE  \E g : Table(g, N)
<1> DEFINE G == {n \in Nat : \E g : Table(g, n)}
<1>0. Base \in Nat /\ Base >= 2  BY VolumesAssumption
<1>1. 0 \in G
  <2>1. Table([i \in 0..0 |-> <<i>>], 0)  BY <1>0 DEF Table
  <2>. QED  BY <2>1
<1>2. ASSUME NEW n \in 0..(N - 1), n \in G PROVE n + 1 \in G
  <2>1. PICK g : Table(g, n)  BY <1>2
  <2> DEFINE m == n + 1
             h == [i \in 0..m |-> IF i < Base THEN <<i>> ELSE Append(g[i \div Base], i % Base)]
  <2>2. ASSUME NEW i \in 0..n PROVE g[i] = h[i]
    <3>1. g[i] = IF i < Base THEN <<i>> ELSE Append(g[i \div Base], i % Base)  BY <2>1 DEF Table
    <3>2. i \in 0..m  OBVIOUS
    <3>. QED  BY <3>1, <3>2
  <2>3. ASSUME NEW i \in 0..m, ~(i < Base) PROVE g[i \div Base] = h[i \div Base]
    <3>1. i \in Nat /\ i >= Base  BY <1>0, <2>3
    <3>2. i \div Base \in 0..(i - 1)  BY <3>1, DivIsLess
    <3>3. i \div Base \in 0..n
      <4> DEFINE d == i \div Base
      <4>1. d \in 0..(i - 1)  BY <3>2
      <4> HIDE DEF d
      <4>2. d \in 0..n  BY <4>1
      <4>. QED  BY <4>2 DEF d
    <3>. QED  BY <3>3, <2>2
  <2>4. h = [i \in 0..m |-> IF i < Base THEN <<i>> ELSE Append(h[i \div Base], i % Base)]
    BY <2>3
  <2>5. Table(h, m)  BY <2>4 DEF Table
  <2>. QED  BY <2>5
<1> HIDE DEF G
<1>3. \A n \in 0..N : n \in G  BY <1>1, <1>2, UpTo
<1>4. N \in G  BY <1>3
<1>. QED  BY <1>4 DEF G

LEMMA TablesAgree ==
  ASSUME NEW n \in Nat, NEW m \in Nat, NEW g, NEW h, Table(g, n), Table(h, m),
         NEW k \in Nat, k =< n, k =< m
  PROVE  g[k] = h[k]
<1> DEFINE Out == {i \in Nat : i =< n /\ i =< m /\ g[i] # h[i]}
<1>0. Base \in Nat /\ Base >= 2  BY VolumesAssumption
<1>1. ASSUME Out # {} PROVE FALSE
  <2> DEFINE i == Min(Out)
  <2>1. i \in Out /\ \A j \in Out : i =< j
    <3>1. Out \in SUBSET Nat  OBVIOUS
    <3> HIDE DEF Out
    <3>. QED  BY <1>1, <3>1, MinIsLowest
  <2> HIDE DEF i
  <2>2. i \in Nat /\ i \in 0..n /\ i \in 0..m /\ g[i] # h[i]  BY <2>1
  <2>3. g[i] = IF i < Base THEN <<i>> ELSE Append(g[i \div Base], i % Base)
    BY <2>2 DEF Table
  <2>4. h[i] = IF i < Base THEN <<i>> ELSE Append(h[i \div Base], i % Base)
    BY <2>2 DEF Table
  <2>5. i >= Base /\ ~(i < Base)  BY <1>0, <2>2, <2>3, <2>4
  <2> DEFINE d == i \div Base
  <2>6. d \in 0..(i - 1)  BY <2>2, <2>5, DivIsLess
  <2>7. g[d] # h[d]  BY <2>2, <2>3, <2>4, <2>5
  <2> HIDE DEF d
  <2>8. d \in Out  BY <2>2, <2>6, <2>7
  <2>9. d < i  BY <2>2, <2>6
  <2> HIDE DEF Out
  <2>. QED  BY <2>1, <2>2, <2>6, <2>8, <2>9
<1>. QED  BY <1>1

LEMMA DigitsIs ==
  ASSUME NEW n \in Nat
  PROVE  Digits[n] = IF n < Base THEN <<n>> ELSE Append(Digits[n \div Base], n % Base)
<1> DEFINE T(i) == CHOOSE g : Table(g, i)
           D == [i \in Nat |-> T(i)[i]]
<1>0. Base \in Nat /\ Base >= 2  BY VolumesAssumption
<1>1. \A i \in Nat : Table(T(i), i)  BY TablesExist, Zenon
<1> HIDE DEF T
<1>2. ASSUME NEW i \in Nat
      PROVE  D[i] = IF i < Base THEN <<i>> ELSE Append(D[i \div Base], i % Base)
  <2>1. T(i)[i] = IF i < Base THEN <<i>> ELSE Append(T(i)[i \div Base], i % Base)
    <3>1. i \in 0..i /\ Table(T(i), i)  BY <1>1
    <3>. QED  BY <3>1 DEF Table
  <2>2. CASE i < Base  BY <2>1, <2>2
  <2>3. CASE ~(i < Base)
    <3> DEFINE d == i \div Base
    <3>1. d \in 0..(i - 1)  BY <1>0, <2>3, DivIsLess
    <3> HIDE DEF d
    <3>2. d \in Nat /\ d =< d /\ d =< i  BY <3>1
    <3>3. T(i)[d] = T(d)[d]  BY <1>1, <3>2, TablesAgree
    <3>4. D[d] = T(i)[d] /\ D[i] = T(i)[i]  BY <3>2, <3>3
    <3>. QED  BY <2>1, <2>3, <3>4 DEF d
  <2>. QED  BY <2>2, <2>3
<1>3. D = [i \in Nat |-> IF i < Base THEN <<i>> ELSE Append(D[i \div Base], i % Base)]
  <2>1. D = [i \in Nat |-> D[i]]  OBVIOUS
  <2> HIDE DEF D
  <2>. QED  BY <1>2, <2>1
<1>4. \E g : g = [i \in Nat |-> IF i < Base THEN <<i>> ELSE Append(g[i \div Base], i % Base)]
  BY <1>3
<1>5. Digits = [i \in Nat |-> IF i < Base THEN <<i>> ELSE Append(Digits[i \div Base], i % Base)]
  BY <1>4, Zenon DEF Digits
<1>. QED  BY <1>5

(* A number has digits, and no two numbers have the same.                  *)
LEMMA DigitsFacts ==
  /\ \A n \in Nat : Digits[n] \in Seq(Nat) /\ Digits[n] # <<>>
  /\ \A m, n \in Nat : Digits[m] = Digits[n] => m = n
<1>0. Base \in Nat /\ Base >= 2  BY VolumesAssumption
<1>a. \A s \in Seq(Nat), i \in Nat : Append(s, i) \in Seq(Nat) /\ Append(s, i) # <<>>
  BY AppendProperties
<1>b. \A s, t \in Seq(Nat), i, j \in Nat : Append(s, i) = Append(t, j) => s = t /\ i = j
  BY AppendInjective
<1>1. ASSUME NEW n \in Nat PROVE Digits[n] \in Seq(Nat) /\ Digits[n] # <<>>
  <2> DEFINE Out == {i \in Nat : ~(Digits[i] \in Seq(Nat) /\ Digits[i] # <<>>)}
  <2>1. ASSUME Out # {} PROVE FALSE
    <3> DEFINE i == Min(Out)
    <3>1. i \in Out /\ \A j \in Out : i =< j
      <4>1. Out \in SUBSET Nat  OBVIOUS
      <4> HIDE DEF Out
      <4>. QED  BY <2>1, <4>1, MinIsLowest
    <3> HIDE DEF i
    <3>2. i \in Nat  BY <3>1
    <3>3. CASE i < Base
      <4>1. Digits[i] = <<i>>  BY <3>2, <3>3, DigitsIs
      <4>2. <<i>> \in Seq(Nat) /\ <<i>> # <<>>  BY <3>2
      <4>. QED  BY <3>1, <4>1, <4>2
    <3>4. CASE ~(i < Base)
      <4> DEFINE d == i \div Base
                 r == i % Base
      <4>1. d \in 0..(i - 1) /\ r \in 0..(Base - 1)  BY <1>0, <3>2, <3>4, DivIsLess
      <4>2. Digits[i] = Append(Digits[d], r)  BY <3>2, <3>4, DigitsIs
      <4> HIDE DEF d, r
      <4>3. d \in Nat /\ d < i /\ r \in Nat  BY <1>0, <3>2, <4>1
      <4>4. d \notin Out
        <5> HIDE DEF Out
        <5>. QED  BY <3>1, <3>2, <4>3
      <4>5. Digits[d] \in Seq(Nat)  BY <4>3, <4>4
      <4>6. Append(Digits[d], r) \in Seq(Nat) /\ Append(Digits[d], r) # <<>>
        BY <4>3, <4>5, <1>a, Zenon
      <4>. QED  BY <3>1, <4>2, <4>6
    <3>. QED  BY <3>3, <3>4
  <2>. QED  BY <2>1
<1>2. ASSUME NEW a \in Nat, NEW b \in Nat, Digits[a] = Digits[b], a < Base PROVE a = b
  <2>1. Digits[a] = <<a>>  BY <1>2, DigitsIs
  <2>2. CASE b < Base
    <3>1. Digits[b] = <<b>>  BY <2>2, DigitsIs
    <3>2. <<a>> = <<b>>  BY <1>2, <2>1, <3>1
    <3>. QED  BY <3>2
  <2>3. CASE ~(b < Base)
    <3> DEFINE d == b \div Base
               r == b % Base
    <3>1. d \in 0..(b - 1) /\ r \in 0..(Base - 1)  BY <1>0, <2>3, DivIsLess
    <3>2. Digits[b] = Append(Digits[d], r)  BY <2>3, DigitsIs
    <3> HIDE DEF d, r
    <3>3. d \in Nat /\ r \in Nat  BY <1>0, <3>1
    <3> DEFINE t == Digits[d]
    <3>4. t \in Seq(Nat) /\ t # <<>> /\ Len(t) \in Nat  BY <1>1, <3>3, LenProperties
    <3>5. Len(t) # 0  BY <3>4, EmptySeq
    <3>6. Len(Append(t, r)) = Len(t) + 1  BY <3>3, <3>4, AppendProperties
    <3>7. Append(t, r) = <<a>>  BY <1>2, <2>1, <3>2
    <3> HIDE DEF t
    <3>8. Len(<<a>>) = 1  OBVIOUS
    <3>. QED  BY <3>4, <3>5, <3>6, <3>7, <3>8
  <2>. QED  BY <2>2, <2>3
<1>3. ASSUME NEW m \in Nat, NEW n \in Nat, Digits[m] = Digits[n] PROVE m = n
  <2> DEFINE Out == {i \in Nat : \E j \in Nat : Digits[i] = Digits[j] /\ i # j}
  <2>1. ASSUME Out # {} PROVE FALSE
    <3> DEFINE a == Min(Out)
    <3>1. a \in Out /\ \A j \in Out : a =< j
      <4>1. Out \in SUBSET Nat  OBVIOUS
      <4> HIDE DEF Out
      <4>. QED  BY <2>1, <4>1, MinIsLowest
    <3> HIDE DEF a
    <3>2. PICK b \in Nat : Digits[a] = Digits[b] /\ a # b  BY <3>1
    <3>3. a \in Nat /\ ~(a < Base) /\ ~(b < Base)
      <4>1. a \in Nat  BY <3>1
      <4>. QED  BY <1>2, <3>2, <4>1
    <3> DEFINE c == a \div Base
               d == b \div Base
               q == a % Base
               r == b % Base
    <3>4. /\ c \in 0..(a - 1) /\ q \in 0..(Base - 1) /\ a = Base * c + q
          /\ d \in 0..(b - 1) /\ r \in 0..(Base - 1) /\ b = Base * d + r
      <4>1. a >= Base /\ b >= Base  BY <1>0, <3>3
      <4>2. c \in 0..(a - 1) /\ q \in 0..(Base - 1) /\ a = Base * c + q
        BY <3>3, <4>1, DivIsLess, Zenon
      <4>3. d \in 0..(b - 1) /\ r \in 0..(Base - 1) /\ b = Base * d + r
        BY <4>1, DivIsLess, Zenon
      <4>. QED  BY <4>2, <4>3, Zenon
    <3>5. Digits[a] = Append(Digits[c], q) /\ Digits[b] = Append(Digits[d], r)
      BY <3>3, DigitsIs
    <3> HIDE DEF c, d, q, r
    <3>6. c \in Nat /\ d \in Nat /\ q \in Nat /\ r \in Nat /\ c < a  BY <1>0, <3>3, <3>4
    <3>7. Digits[c] \in Seq(Nat) /\ Digits[d] \in Seq(Nat)  BY <1>1, <3>6
    <3>8. Digits[c] = Digits[d] /\ q = r
      <4> DEFINE s == Digits[c]
                 t == Digits[d]
      <4>1. s \in Seq(Nat) /\ t \in Seq(Nat) /\ Append(s, q) = Append(t, r)
        BY <3>2, <3>5, <3>7, Zenon
      <4> HIDE DEF s, t, Out
      <4>2. s = t /\ q = r  BY <3>6, <4>1, <1>b
      <4>. QED  BY <4>2 DEF s, t
    <3>9. c \notin Out
      <4> HIDE DEF Out
      <4>. QED  BY <3>1, <3>3, <3>6
    <3>10. c = d  BY <3>6, <3>8, <3>9
    <3>. QED  BY <3>2, <3>4, <3>8, <3>10
  <2>. QED  BY <2>1, <1>3
<1>. QED  BY <1>1, <1>3

(* Tags.                                                                   *)
Mark == {"share", "pelagos-volumes"} \cup Nat

LEMMA TagFacts ==
  /\ VolumesTag \in Seq(Mark) /\ Len(VolumesTag) = 1 /\ VolumesTag[1] = "pelagos-volumes"
  /\ \A n \in Nat : /\ ShareTag(n) \in Seq(Mark) /\ ShareTag(n)[1] = "share"
                    /\ Len(ShareTag(n)) = Len(Digits[n]) + 1
  /\ \A m, n \in Nat : ShareTag(m) = ShareTag(n) => m = n
<1> DEFINE p == "pelagos-volumes"
           h == "share"
           x == <<h>>
<1>1. p \in Mark /\ h \in Mark /\ VolumesTag = <<p>>  BY DEF Mark, VolumesTag
<1>2. \A n \in Nat : ShareTag(n) = x \o Digits[n]  BY DEF ShareTag
<1>3. VolumesTag \in Seq(Mark) /\ Len(VolumesTag) = 1 /\ VolumesTag[1] = p
  <2> HIDE DEF p
  <2>. QED  BY <1>1
<1>4. x \in Seq(Mark) /\ Len(x) = 1 /\ x[1] = h
  <2> HIDE DEF h
  <2>. QED  BY <1>1
<1> HIDE DEF x, h, p
<1>5. ASSUME NEW n \in Nat PROVE Digits[n] \in Seq(Mark) /\ Len(Digits[n]) \in Nat
  <2>1. Nat \subseteq Mark  BY DEF Mark
  <2>2. Digits[n] \in Seq(Nat)  BY DigitsFacts
  <2>3. Digits[n] \in Seq(Mark)  BY <2>1, <2>2, SeqMonotonic
  <2>. QED  BY <2>3, LenProperties
<1>6. ASSUME NEW n \in Nat
      PROVE  /\ ShareTag(n) \in Seq(Mark) /\ ShareTag(n)[1] = h
             /\ Len(ShareTag(n)) = Len(Digits[n]) + 1
  <2> DEFINE d == Digits[n]
  <2>1. d \in Seq(Mark) /\ Len(d) \in Nat  BY <1>5
  <2> HIDE DEF d
  <2>2. /\ x \o d \in Seq(Mark) /\ Len(x \o d) = Len(x) + Len(d)
        /\ \A i \in 1..(Len(x) + Len(d)) : (x \o d)[i] = IF i =< Len(x) THEN x[i] ELSE d[i - Len(x)]
    BY <1>4, <2>1, ConcatProperties
  <2>3. 1 \in 1..(Len(x) + Len(d)) /\ 1 =< Len(x)  BY <1>4, <2>1
  <2>4. (x \o d)[1] = h  BY <1>4, <2>2, <2>3
  <2>5. Len(x \o d) = Len(d) + 1  BY <1>4, <2>1, <2>2
  <2>. QED  BY <1>2, <2>2, <2>4, <2>5 DEF d
<1>7. ASSUME NEW m \in Nat, NEW n \in Nat, ShareTag(m) = ShareTag(n) PROVE m = n
  <2>1. x \o Digits[m] = x \o Digits[n]  BY <1>2, <1>7
  <2>2. Digits[m] = Digits[n]  BY <1>4, <1>5, <2>1, ConcatSimplifications
  <2>. QED  BY <2>2, DigitsFacts
<1>. QED  BY <1>3, <1>6, <1>7 DEF h, p

-----------------------------------------------------------------------------
LEMMA ShareFields ==
  ASSUME NEW v \in Seq(V)
  PROVE  LET s == daemon_args_from_cli(v)
         IN  /\ DOMAIN s = 1..(Len(Listed(v)) + 1)
             /\ s[1].tag = VolumesTag /\ s[1].host = VolumesSpec.host
             /\ \A i \in 1..Len(Listed(v)) :
                   s[i + 1].tag = ShareTag(i - 1) /\ s[i + 1].host = Listed(v)[i].host
<1> DEFINE s == daemon_args_from_cli(v)
           e == Listed(v)
<1>1. \A t, w : Share(t, w).tag = t /\ Share(t, w).host = w.host  BY DEF Share
<1>2. /\ DOMAIN s = 1..(Len(e) + 1) /\ s[1] = Share(VolumesTag, VolumesSpec)
      /\ \A i \in 1..Len(e) : s[i + 1] = Share(ShareTag(i - 1), e[i])
  BY SharesFacts
<1> HIDE DEF s, e
<1>3. s[1].tag = VolumesTag /\ s[1].host = VolumesSpec.host  BY <1>1, <1>2
<1>4. ASSUME NEW i \in 1..Len(e)
      PROVE  s[i + 1].tag = ShareTag(i - 1) /\ s[i + 1].host = e[i].host
  BY <1>1, <1>2
<1>. QED  BY <1>2, <1>3, <1>4 DEF s, e

(* What a -v argument of `run` is bound to: the k-th of the listed shares. *)
MountedAt(m, v, k, p) ==
    /\ k \in 1..Len(Listed(v)) /\ m.tag = ShareTag(k - 1) /\ m.sub \in Seq(Word)
    /\ Listed(v)[k].host \o m.sub = p

LEMMA MountHasPlace ==
  ASSUME NEW v \in Seq(V), NEW i \in DOMAIN v, Under(DataDir, Home)
  PROVE  \E k : MountedAt(GuestMount(v[i], daemon_args_from_cli(v)), v, k, v[i].host)
<1> DEFINE s == daemon_args_from_cli(v)
           e == Listed(v)
           n == Len(e)
           p == v[i].host
           m == GuestMount(v[i], s)
<1>1. /\ e \in Seq(V) /\ n \in Nat /\ n >= 1 /\ e[1] = HomeSpec
      /\ \A j \in 1..n : e[j] \in V
  BY ListedFacts, LenProperties, ElementOfSeq
<1>2. p \in Seq(Word)
  <2>1. v[i] \in V  BY LenProperties, ElementOfSeq
  <2>. QED  BY <2>1 DEF V
<1>3. /\ DOMAIN s = 1..(n + 1) /\ s[1].tag = VolumesTag /\ s[1].host = VolumesSpec.host
      /\ \A j \in 1..n : s[j + 1].tag = ShareTag(j - 1) /\ s[j + 1].host = e[j].host
  BY ShareFields, Zenon
<1> HIDE DEF s, n, e
<1>4. CASE Under(p, Home)
  <2> DEFINE b == Below(p, Home)
             h == Len(Home)
             l == Len(p)
  <2>1. h \in Nat /\ l \in Nat /\ h =< l /\ SubSeq(p, 1, h) = Home
    BY <1>2, <1>4, WordPaths, LenProperties DEF Under
  <2>2. m.tag = ShareTag(0) /\ m.sub = b  BY <1>4 DEF GuestMount
  <2>3. b = SubSeq(p, h + 1, l)  BY DEF Below
  <2>4. SubSeq(p, 1, h) \o SubSeq(p, h + 1, l) = p
    <3>1. 1 \in 1..(l + 1) /\ h \in (1 - 1)..l /\ l \in h..l  BY <2>1
    <3>2. SubSeq(p, 1, l) = p  BY <1>2, SubSeqFull
    <3>3. SubSeq(p, 1, h) \o SubSeq(p, h + 1, l) = SubSeq(p, 1, l)
      <4> DEFINE one == 1
      <4>1. one \in 1..(l + 1) /\ h \in (one - 1)..l  BY <3>1
      <4> HIDE DEF one, p
      <4>2. SubSeq(p, one, h) \o SubSeq(p, h + 1, l) = SubSeq(p, one, l)
        BY <1>2, <3>1, <4>1, ConcatAdjacentSubSeq
      <4>. QED  BY <4>2 DEF one
    <3>. QED  BY <3>2, <3>3
  <2>5. b \in Seq(Word)
    <3> HIDE DEF p, b
    <3> DEFINE f == h + 1
    <3>1. f \in Int /\ l \in Int /\ \A j \in f..l : j \in 1..l  BY <2>1
    <3>2. \A j \in f..l : p[j] \in Word  BY <1>2, <3>1, ElementOfSeq
    <3> HIDE DEF f, l
    <3>3. SubSeq(p, f, l) \in Seq(Word)  BY <3>1, <3>2, SubSeqProperties
    <3>. QED  BY <2>3, <3>3 DEF f
  <2>6. e[1].host = Home  BY <1>1, SpecFacts
  <2>7. e[1].host \o b = p  BY <2>1, <2>3, <2>4, <2>6
  <2>8. 1 \in 1..n /\ 1 - 1 = 0  BY <1>1
  <2>9. MountedAt(m, v, 1, p)
    <3> HIDE DEF b, m, p
    <3>. QED  BY <2>2, <2>5, <2>7, <2>8 DEF MountedAt, n, e
  <2>. QED  BY <2>9 DEF s
<1>5. CASE ~Under(p, Home)
  <2> DEFINE P == SharesOf(p, s)
             f == CHOOSE j \in P : \A k \in P : j =< k
  <2>1. P = {j \in 1..(n + 1) : s[j].host = p}  BY <1>3 DEF SharesOf
  <2>2. P # {}
    <3>1. PICK j \in DOMAIN OutsideHome(v) : OutsideHome(v)[j] = v[i]
      BY <1>5, OutsideHomeHas DEF InHome
    <3>2. j \in 1..Len(OutsideHome(v)) /\ n = Len(OutsideHome(v)) + 1
          /\ Len(OutsideHome(v)) \in Nat /\ e[j + 1] = v[i]
      BY <3>1, ListedFacts, LenProperties DEF n, e
    <3>3. j + 1 \in 1..n /\ j \in Nat  BY <3>2
    <3>4. s[(j + 1) + 1].host = p  BY <1>3, <3>2, <3>3
    <3>5. (j + 1) + 1 \in 1..(n + 1)  BY <1>1, <3>3
    <3>. QED  BY <2>1, <3>4, <3>5
  <2>3. f \in P
    <3>1. P \in SUBSET Nat  BY <1>1, <2>1
    <3> HIDE DEF P
    <3>2. \E j \in P : \A k \in P : j =< k  BY <2>2, <3>1, MinIsLowest
    <3>. QED  BY <3>2
  <2>4. m.tag = s[f].tag /\ m.sub = <<>>  BY <1>5 DEF GuestMount, FirstShare
  <2> HIDE DEF f
  <2>5. f \in 1..(n + 1) /\ s[f].host = p  BY <2>1, <2>3
  <2>6. f # 1
    <3>1. s[1].host = VolumesSpec.host  BY <1>3
    <3>. QED  BY <1>5, <2>5, <3>1, VolumesInHome DEF InHome
  <2> DEFINE k == f - 1
  <2>7. k \in 1..n /\ k + 1 = f  BY <1>1, <2>5, <2>6
  <2> HIDE DEF k
  <2>8. s[f].tag = ShareTag(k - 1) /\ s[f].host = e[k].host  BY <1>3, <2>7
  <2>9. m.tag = ShareTag(k - 1) /\ e[k].host = p  BY <2>4, <2>5, <2>8
  <2>10. p \o <<>> = p /\ <<>> \in Seq(Word)  BY <1>2, ConcatEmptySeq
  <2>11. MountedAt(m, v, k, p)
    <3> HIDE DEF m, p
    <3>. QED  BY <2>4, <2>7, <2>9, <2>10 DEF MountedAt, n, e
  <2>. QED  BY <2>11 DEF s
<1>. QED  BY <1>4, <1>5

(* Only that share has the tag, so only its directory is there.            *)
LEMMA MountShowsHost ==
  ASSUME NEW v \in Seq(V), NEW m, NEW k, NEW p, MountedAt(m, v, k, p)
  PROVE  HostPaths(m, daemon_args_from_cli(v)) = {p}
<1> DEFINE s == daemon_args_from_cli(v)
           n == Len(Listed(v))
<1>1. /\ DOMAIN s = 1..(n + 1) /\ s[1].tag = VolumesTag /\ s[1].host = VolumesSpec.host
      /\ \A j \in 1..n : s[j + 1].tag = ShareTag(j - 1) /\ s[j + 1].host = Listed(v)[j].host
  BY ShareFields, Zenon
<1>2. n \in Nat /\ k \in 1..n /\ m.tag = ShareTag(k - 1) /\ Listed(v)[k].host \o m.sub = p
  BY ListedFacts DEF MountedAt
<1> HIDE DEF s, n
<1>3. s[k + 1].tag = m.tag /\ s[k + 1].host \o m.sub = p  BY <1>1, <1>2
<1>4. ASSUME NEW j \in DOMAIN s, s[j].tag = m.tag PROVE j = k + 1
  <2>1. k - 1 \in Nat  BY <1>2
  <2>2. CASE j = 1
    <3>1. VolumesTag = ShareTag(k - 1)  BY <1>1, <1>2, <1>4, <2>2
    <3>2. "pelagos-volumes" = "share"  BY <2>1, <3>1, TagFacts
    <3>. QED  BY <3>2
  <2>3. CASE j # 1
    <3> DEFINE i == j - 1
    <3>0. n \in Nat /\ j \in 1..(n + 1)  BY <1>1, <1>2
    <3>1. i \in 1..n /\ i + 1 = j /\ i - 1 \in Nat  BY <3>0, <2>3
    <3> HIDE DEF i
    <3>2. s[j].tag = ShareTag(i - 1)  BY <1>1, <3>1
    <3>3. i - 1 = k - 1  BY <1>2, <1>4, <2>1, <3>1, <3>2, TagFacts
    <3>. QED  BY <1>2, <3>1, <3>3
  <2>. QED  BY <2>2, <2>3
<1>5. k + 1 \in DOMAIN s  BY <1>1, <1>2
<1>6. {j \in DOMAIN s : s[j].tag = m.tag} = {k + 1}  BY <1>3, <1>4, <1>5
<1>7. HostPaths(m, s) = {s[j].host \o m.sub : j \in {k + 1}}  BY <1>6 DEF HostPaths
<1>. QED  BY <1>3, <1>7 DEF s

(* As long as a tag has one digit no tag is the beginning of another.      *)
LEMMA MountIsShown ==
  ASSUME NEW v \in Seq(V), NEW m, NEW k, NEW p, MountedAt(m, v, k, p),
         Len(OutsideHome(v)) < Base
  PROVE  translate_volume_spec(m, daemon_args_from_cli(v)) = p
<1> DEFINE s == daemon_args_from_cli(v)
           n == Len(Listed(v))
           t == m.tag
           P == {j \in DOMAIN s : Under(t, s[j].tag)}
<1>1. /\ DOMAIN s = 1..(n + 1) /\ s[1].tag = VolumesTag /\ s[1].host = VolumesSpec.host
      /\ \A j \in 1..n : s[j + 1].tag = ShareTag(j - 1) /\ s[j + 1].host = Listed(v)[j].host
  BY ShareFields, Zenon
<1>2. /\ n \in Nat /\ k \in 1..n /\ t = ShareTag(k - 1) /\ n =< Base /\ Base \in Nat
      /\ Listed(v)[k].host \o m.sub = p
  BY ListedFacts, VolumesAssumption DEF MountedAt
<1>3. Listed(v)[k].host \in Seq(Word)
  <2>1. Listed(v)[k] \in V  BY <1>2, ListedFacts, ElementOfSeq
  <2>. QED  BY <2>1 DEF V
<1> HIDE DEF s, n
<1>4. \A j \in 1..n : ShareTag(j - 1) \in Seq(Mark) /\ Len(ShareTag(j - 1)) = 2
  <2> TAKE j \in 1..n
  <2>1. j - 1 \in Nat /\ j - 1 < Base  BY <1>2
  <2>2. Digits[j - 1] = <<j - 1>>  BY <2>1, DigitsIs
  <2>3. Len(<<j - 1>>) = 1  OBVIOUS
  <2>4. ShareTag(j - 1) \in Seq(Mark) /\ Len(ShareTag(j - 1)) = Len(Digits[j - 1]) + 1
    BY <2>1, TagFacts
  <2>. QED  BY <2>2, <2>3, <2>4
<1>5. t \in Seq(Mark) /\ Len(t) = 2 /\ t[1] = "share"
  <2>1. k - 1 \in Nat  BY <1>2
  <2>. QED  BY <1>2, <1>4, <2>1, TagFacts
<1> HIDE DEF t
<1>6. SubSeq(t, 1, 2) = t
  <2>1. SubSeq(t, 1, Len(t)) = t  BY <1>5, SubSeqFull
  <2>. QED  BY <1>5, <2>1
<1>7. ASSUME NEW j \in P PROVE j = k + 1
  <2>1. j \in 1..(n + 1) /\ Under(t, s[j].tag)  BY <1>1
  <2>2. CASE j = 1
    <3>1. Under(t, VolumesTag)  BY <1>1, <2>1, <2>2
    <3>2. First(t, 1) = VolumesTag  BY <3>1, TagFacts DEF Under, First
    <3>3. 1 \in 0..Len(t) /\ 1 \in 1..1  BY <1>5
    <3>4. First(t, 1)[1] = t[1]
      <4> DEFINE one == 1
      <4>1. one \in 0..Len(t) /\ one \in 1..one  BY <3>3
      <4> HIDE DEF one
      <4>2. First(t, one)[one] = t[one]  BY <1>5, <4>1, FirstProperties
      <4>. QED  BY <4>2 DEF one
    <3>5. "pelagos-volumes" = "share"  BY <1>5, <3>2, <3>4, TagFacts
    <3>. QED  BY <3>5
  <2>3. CASE j # 1
    <3> DEFINE i == j - 1
    <3>0. n \in Nat /\ j \in 1..(n + 1) /\ k \in 1..n  BY <1>2, <2>1
    <3>1. i \in 1..n /\ i + 1 = j /\ i - 1 \in Nat /\ k - 1 \in Nat  BY <3>0, <2>3
    <3> HIDE DEF i
    <3>2. s[j].tag = ShareTag(i - 1)  BY <1>1, <3>1
    <3>3. SubSeq(t, 1, 2) = ShareTag(i - 1)  BY <1>4, <2>1, <3>1, <3>2 DEF Under
    <3>4. ShareTag(k - 1) = ShareTag(i - 1)  BY <1>2, <1>6, <3>3
    <3>5. k - 1 = i - 1  BY <3>1, <3>4, TagFacts
    <3>. QED  BY <3>0, <3>1, <3>5
  <2>. QED  BY <2>2, <2>3
<1>8. s[k + 1].tag = t /\ s[k + 1].host = Listed(v)[k].host  BY <1>1, <1>2 DEF t
<1>9. k + 1 \in P
  <2>1. Under(t, t)  BY <1>5, <1>6 DEF Under
  <2>2. k + 1 \in DOMAIN s  BY <1>1, <1>2
  <2>. QED  BY <1>8, <2>1, <2>2
<1>10. P = {k + 1}  BY <1>7, <1>9
<1> HIDE DEF P
<1>11. FirstShare(s, P) = s[k + 1]
  <2>1. k + 1 =< k + 1  BY <1>2
  <2>2. \A j \in P : (\A i \in P : j =< i) <=> j = k + 1  BY <1>10, <2>1
  <2>3. (CHOOSE j \in P : \A i \in P : j =< i) = k + 1  BY <1>9, <2>2
  <2>. QED  BY <2>3 DEF FirstShare
<1>12. Below(t, t) = <<>>
  <2>1. Len(t) + 1 \in Int /\ Len(t) \in Int /\ Len(t) < Len(t) + 1  BY <1>5
  <2>. QED  BY <2>1, SubSeqEmpty DEF Below
<1>13. Listed(v)[k].host \o <<>> = Listed(v)[k].host  BY <1>3, ConcatEmptySeq
<1>14. translate_volume_spec(m, s) = s[k + 1].host \o Below(t, s[k + 1].tag) \o m.sub
  BY <1>11 DEF translate_volume_spec, P, t
<1>. QED  BY <1>2, <1>8, <1>12, <1>13, <1>14 DEF s

(* A command's share list is never empty: the volumes directory is in it.  *)
LEMMA SharesAreSome ==
  ASSUME NEW v \in Seq(V)
  PROVE  daemon_args_from_cli(v) # <<>>
<1> DEFINE s == daemon_args_from_cli(v)
<1>1. DOMAIN s = 1..(Len(Listed(v)) + 1) /\ Len(Listed(v)) \in Nat
  BY ShareFields, ListedFacts, LenProperties
<1>2. 1 \in DOMAIN s
  BY <1>1
<1> HIDE DEF s
<1>3. s # <<>>
  BY <1>2
<1> QED BY <1>3 DEF s

-----------------------------------------------------------------------------
(* THE STATE DIRECTORY.  *)

DaemonType == [pc : Booting \cup Ending \cup {"unborn", "serving", "gone"},
               vols : {<<>>} \cup {DaemonArgs(v) : v \in VolumeArgs}, disks : Disks,
               step : DOMAIN FileOrder, term : BOOLEAN, vm : BOOLEAN]

CommandType == [pc : {"idle"} \cup Returned \cup Busy, vols : VolumeArgs, disks : Disks,
                step : DOMAIN FileOrder, target : 0..MaxDaemons]

-----------------------------------------------------------------------------
(* The inductive invariant.  At most one command is at work and at most    *)
(* one daemon process is there.                                            *)
OneBusy ==
    \A b, c \in Commands : cmd[b].pc \in Busy /\ cmd[c].pc \in Busy => b = c

OneAlive == \A d, e \in Daemons : Alive(d) /\ Alive(e) => d = e

(* Where a daemon's VM runs, and where its unlink counter counts.          *)
WithVm == {"bind_sock", "bind_console", "write_pid", "write_mounts", "write_extra",
           "handler", "serving", "stop_vm"}
Clearing == {"final_clear", "stuck_clear"}

Shape(r) ==
    /\ r.vm => r.pc \in WithVm \cup {"stuck_clear"}
    /\ r.pc \in {"guard", "boot", "serving"} \cup WithVm => r.step = 1

(* The places of daemon::run at which a file is there.                     *)
Holds(r, f) ==
    \/ f = "sock" /\ r.pc \in WithVm \ {"bind_sock"}
    \/ f = "console" /\ r.pc \in WithVm \ {"bind_sock", "bind_console"}
    \/ f = "pid" /\ r.pc \in {"write_mounts", "write_extra", "handler", "serving", "stop_vm"}
    \/ f = "mounts" /\ r.pc \in {"write_extra", "handler", "serving", "stop_vm"}
    \/ f = "extra" /\ r.pc \in {"handler", "serving", "stop_vm"}
    \/ r.pc \in Clearing /\ \E i \in r.step..5 : f = FileOrder[i]

(* While a daemon lives the state directory is its own, but for the files  *)
(* that it could not write.                                                *)
FileFits(x, d, r, f) ==
    x = (IF Holds(r, f) THEN d ELSE 0) \/ (f \in WriteFaults /\ x = 0)

FilesOf(d) == \A f \in FileNames : FileFits(files[f], d, daemon[d], f)

NoneAlive == \A d \in Daemons : ~Alive(d)

Calm == \A d \in Daemons : Alive(d) => daemon[d].pc = "serving" /\ ~daemon[d].term

(* What a command knows, from what it has read.                            *)
Fits(r) ==
    /\ r.pc \in {"check", "read_mounts", "read_extra", "find_pid", "init_guard", "init_force"}
       => Calm
    /\ r.pc = "check" => r.step = 1
    /\ r.pc \in {"read_mounts", "read_extra", "poll"}
       => r.target \in Daemons /\ daemon[r.target].pc # "unborn"
    /\ r.pc = "read_extra"
       => \A d \in Daemons :
             Alive(d) => daemon_args_from_cli(daemon[d].vols) = daemon_args_from_cli(r.vols)
    /\ r.pc \in {"clear", "spawn"} => NoneAlive
    /\ r.pc = "clear" => \A i \in DOMAIN FileOrder : i < r.step => files[FileOrder[i]] = 0
    /\ r.pc = "spawn" => \A f \in FileNames : files[f] = 0
    /\ r.pc = "poll"
       => /\ \A d \in Daemons :
                Alive(d) => daemon[d].vols = DaemonArgs(r.vols) /\ daemon[d].disks = r.disks
          /\ \A d \in Daemons : Alive(d) => d = r.target
          /\ files["sock"] \in {0, r.target}
    /\ r.pc \in {"await_exit", "init_await"}
       => \A d \in Daemons : Alive(d) => daemon[d].pc \notin Booting
    /\ r.pc \in {"init_fresh", "init_over"}
       => \A d \in Daemons : Alive(d) => daemon[d].pc \in Clearing

IInv ==
    /\ "pid" \notin WriteFaults
    /\ TypeOK
    /\ OneBusy
    /\ OneAlive
    /\ \A d \in Daemons : Shape(daemon[d]) /\ (Alive(d) => FilesOf(d))
    /\ \A c \in Commands : Fits(cmd[c])

-----------------------------------------------------------------------------
LEMMA FileFacts ==
  /\ DOMAIN FileOrder = 1..5 /\ Len(FileOrder) = 5
  /\ FileOrder[1] = "pid" /\ FileOrder[2] = "sock" /\ FileOrder[3] = "console"
  /\ FileOrder[4] = "mounts" /\ FileOrder[5] = "extra"
  /\ FileNames = {"pid", "sock", "console", "mounts", "extra"}
  /\ \A i \in 1..5 : FileOrder[i] \in FileNames
  /\ "sock" \notin WriteFaults /\ "console" \notin WriteFaults
<1>1. /\ DOMAIN FileOrder = 1..5 /\ Len(FileOrder) = 5
      /\ FileOrder[1] = "pid" /\ FileOrder[2] = "sock" /\ FileOrder[3] = "console"
      /\ FileOrder[4] = "mounts" /\ FileOrder[5] = "extra"
  BY DEF FileOrder
<1>2. \A i \in 1..5 : i = 1 \/ i = 2 \/ i = 3 \/ i = 4 \/ i = 5
  OBVIOUS
<1>3. "sock" \notin WriteFaults /\ "console" \notin WriteFaults
  BY LifecycleAssumption
<1> QED BY <1>1, <1>2, <1>3 DEF FileNames

LEMMA Types ==
  ASSUME IInv
  PROVE  /\ files \in [FileNames -> 0..MaxDaemons]
         /\ daemon \in [Daemons -> DaemonType]
         /\ cmd \in [Commands -> CommandType]
         /\ \A d \in Daemons : d # 0 /\ d \in 0..MaxDaemons
  BY LifecycleAssumption DEF IInv, TypeOK, DaemonType, CommandType, Daemons

(* A daemon that has announced itself is the one that running_pid finds,   *)
(* and running_pid finds nothing else.                                     *)
LEMMA RunningPidFacts ==
  ASSUME IInv
  PROVE  /\ RunningPid # 0 => RunningPid \in Daemons /\ Alive(RunningPid)
         /\ \A d \in Daemons : Alive(d) /\ Holds(daemon[d], "pid") => RunningPid = d
         /\ \A d \in Daemons : Alive(d) /\ RunningPid # 0 => RunningPid = d
<1>1. files["pid"] \in 0..MaxDaemons
  BY Types, FileFacts
<1>2. files["pid"] # 0 => files["pid"] \in Daemons
  BY <1>1, LifecycleAssumption DEF Daemons
<1>3. \A d \in Daemons : Alive(d) => files["pid"] = IF Holds(daemon[d], "pid") THEN d ELSE 0
  BY FileFacts DEF IInv, FilesOf, FileFits
<1>4. \A d, e \in Daemons : Alive(d) /\ Alive(e) => d = e
  BY DEF IInv, OneAlive
<1> QED BY <1>2, <1>3, <1>4, Types DEF RunningPid

(* A calm state has a serving daemon that all files name, or none at all.  *)
LEMMA CalmFacts ==
  ASSUME IInv, Calm
  PROVE  /\ RunningPid = 0 => NoneAlive
         /\ \A d \in Daemons :
               Alive(d) => /\ RunningPid = d
                           /\ \A f \in FileNames : files[f] = d \/ (f \in WriteFaults /\ files[f] = 0)
<1>1. \A d \in Daemons : Alive(d) => daemon[d].pc = "serving"
  BY DEF Calm
<1>2. \A d \in Daemons : Alive(d) => \A f \in FileNames : Holds(daemon[d], f)
  BY <1>1, FileFacts DEF Holds, WithVm
<1>3. \A d \in Daemons : Alive(d) => FilesOf(d)
  BY DEF IInv
<1>4. "pid" \in FileNames
  BY FileFacts
<1>5. \A d \in Daemons : Alive(d) => RunningPid = d
  BY <1>2, <1>4, RunningPidFacts
<1> QED BY <1>2, <1>3, <1>5, Types DEF FilesOf, FileFits, NoneAlive

(* A step of a command that changes nothing but its own record.            *)
LEMMA CommandStep ==
  ASSUME IInv, NEW c \in Commands, NEW r \in CommandType,
         cmd[c].pc \in Busy \/ \A b \in Commands : cmd[b].pc \notin Busy,
         cmd' = [cmd EXCEPT ![c] = r]
  PROVE  /\ cmd' \in [Commands -> CommandType] /\ cmd'[c] = r
         /\ \A b \in Commands \ {c} : cmd'[b] = cmd[b] /\ cmd[b].pc \notin Busy
         /\ OneBusy'
<1>1. /\ cmd' \in [Commands -> CommandType] /\ cmd'[c] = r
      /\ \A b \in Commands \ {c} : cmd'[b] = cmd[b]
  BY Types
<1>2. \A b \in Commands \ {c} : cmd[b].pc \notin Busy
  BY DEF IInv, OneBusy
<1> QED BY <1>1, <1>2 DEF OneBusy

LEMMA IdleFits ==
  ASSUME NEW r, r.pc \notin Busy
  PROVE  Fits(r)
  BY DEF Fits, Busy

LEMMA CommandKeeps ==
  ASSUME IInv, NEW c \in Commands, NEW r \in CommandType,
         cmd[c].pc \in Busy \/ \A b \in Commands : cmd[b].pc \notin Busy,
         cmd' = [cmd EXCEPT ![c] = r], UNCHANGED <<files, daemon>>, Fits(r)
  PROVE  IInv'
<1>1. /\ cmd' \in [Commands -> CommandType] /\ cmd'[c] = r /\ OneBusy'
      /\ \A b \in Commands \ {c} : cmd'[b] = cmd[b]
  BY CommandStep
<1>2. \A b \in Commands : Fits(cmd'[b])
  BY <1>1 DEF IInv
<1>3. (\A b \in Commands : Fits(cmd[b]))'
  BY <1>2 DEF Fits, Calm, NoneAlive, Alive
<1>4. TypeOK'
  BY <1>1 DEF IInv, TypeOK, CommandType
<1>5. OneAlive' /\ (\A d \in Daemons : Shape(daemon[d]) /\ (Alive(d) => FilesOf(d)))'
  BY DEF IInv, OneAlive, Shape, Alive, FilesOf, FileFits, Holds
<1> QED BY <1>1, <1>3, <1>4, <1>5 DEF IInv

(* What the step of a living daemon must show: its new record r, and that  *)
(* the files that are there fit it.                                        *)
LEMMA DaemonKeeps ==
  ASSUME IInv, NEW d \in Daemons, Alive(d), NEW r \in DaemonType,
         daemon' = [daemon EXCEPT ![d] = r], UNCHANGED cmd,
         files' \in [FileNames -> 0..MaxDaemons],
         Shape(r), r.pc # "unborn", r.vols = daemon[d].vols, r.disks = daemon[d].disks,
         r.pc # "gone" => \A f \in FileNames : FileFits(files'[f], d, r, f),
         files'["sock"] \in {0, d, files["sock"]},
         \/ \A c \in Commands : cmd[c].pc \notin Busy
         \/ r.pc = "gone" /\ UNCHANGED files
         \/ /\ daemon[d].pc # "serving" \/ daemon[d].term
            /\ daemon[d].pc \in Booting \/ r.pc \notin Booting
            /\ daemon[d].pc \in Clearing => r.pc \in Clearing \cup {"gone"}
  PROVE  IInv'
<1>1. /\ daemon' \in [Daemons -> DaemonType] /\ daemon'[d] = r
      /\ \A e \in Daemons \ {d} : daemon'[e] = daemon[e] /\ ~Alive(e)
  BY Types DEF IInv, OneAlive
<1>2. TypeOK' /\ OneBusy'
  BY <1>1 DEF IInv, TypeOK, DaemonType, OneBusy
<1>3. \A e \in Daemons : Alive(e)' => e = d /\ r.pc # "gone"
  BY <1>1 DEF Alive
<1>4. OneAlive'
  BY <1>3 DEF OneAlive
<1>5. ASSUME NEW e \in Daemons
      PROVE  Shape(daemon[e])' /\ (Alive(e)' => FilesOf(e)')
  <2>1. Shape(daemon'[e])
    BY <1>1 DEF IInv
  <2>2. Shape(daemon[e])'
    BY <2>1 DEF Shape
  <2>3. ASSUME Alive(e)' PROVE FilesOf(e)'
    <3>1. e = d /\ daemon'[e] = r /\ r.pc # "gone"
      BY <1>1, <1>3, <2>3
    <3>2. \A f \in FileNames : FileFits(files'[f], e, daemon'[e], f)
      BY <3>1
    <3> QED BY <3>2 DEF FilesOf, FileFits, Holds
  <2> QED BY <2>2, <2>3
<1>6. ASSUME NEW c \in Commands PROVE Fits(cmd[c])'
  <2>1. CASE cmd[c].pc \notin Busy
    BY <2>1 DEF Fits, Busy
  <2>2. CASE cmd[c].pc \in Busy
    <3>1. Fits(cmd[c]) /\ cmd'[c] = cmd[c]
      BY DEF IInv
    <3>2. /\ \A e \in Daemons : daemon[e].pc # "unborn" => daemon'[e].pc # "unborn"
          /\ files'["sock"] \in {0, d, files["sock"]}
      BY <1>1
    <3>3. CASE r.pc = "gone" /\ UNCHANGED files
      <4>1. NoneAlive'
        BY <1>3, <3>3 DEF NoneAlive
      <4>2. Calm'
        BY <4>1 DEF NoneAlive, Calm
      <4> QED BY <3>1, <3>2, <3>3, <4>1, <4>2 DEF Fits, NoneAlive
    <3>4. CASE /\ daemon[d].pc # "serving" \/ daemon[d].term
               /\ daemon[d].pc \in Booting \/ r.pc \notin Booting
               /\ daemon[d].pc \in Clearing => r.pc \in Clearing \cup {"gone"}
      <4>1. ~Calm /\ ~NoneAlive
        BY <3>4 DEF Calm, NoneAlive
      <4>2. cmd[c].pc \notin {"check", "read_mounts", "read_extra", "find_pid", "init_guard",
                              "init_force", "clear", "spawn"}
        BY <3>1, <4>1 DEF Fits
      <4>3. /\ cmd[c].pc = "poll"
               => /\ daemon[d].vols = DaemonArgs(cmd[c].vols) /\ daemon[d].disks = cmd[c].disks
                  /\ d = cmd[c].target /\ files'["sock"] \in {0, cmd[c].target}
                  /\ cmd[c].target \in Daemons /\ daemon'[cmd[c].target].pc # "unborn"
            /\ cmd[c].pc \in {"await_exit", "init_await"} => daemon[d].pc \notin Booting
            /\ cmd[c].pc \in {"init_fresh", "init_over"} => daemon[d].pc \in Clearing
        BY <3>1, <3>2 DEF Fits
      <4>4. /\ cmd[c].pc \in {"await_exit", "init_await"} => r.pc \notin Booting
            /\ cmd[c].pc \in {"init_fresh", "init_over"} => r.pc \in Clearing \cup {"gone"}
        BY <3>4, <4>3
      <4> QED BY <1>1, <1>3, <3>1, <4>2, <4>3, <4>4 DEF Fits
    <3> QED BY <2>2, <3>3, <3>4
  <2> QED BY <2>1, <2>2
<1> QED BY <1>2, <1>4, <1>5, <1>6 DEF IInv

-----------------------------------------------------------------------------
(* daemon::run *)

(* Steps that touch no file.                                               *)
LEMMA DaemonRunsKeeps ==
  ASSUME Patience = 3, IInv, NEW d \in Daemons,
         \/ DaemonGuard(d) \/ DaemonBoot(d) \/ DaemonHandler(d) \/ DaemonShutdown(d)
         \/ DaemonStopVm(d) \/ BinaryRemoved(d) \/ DaemonCrash(d)
  PROVE  IInv'
<1>0. /\ UNCHANGED <<files, cmd>> /\ Alive(d) /\ daemon[d] \in DaemonType /\ Shape(daemon[d])
      /\ files \in [FileNames -> 0..MaxDaemons] /\ "sock" \in FileNames /\ "pid" \in FileNames
      /\ \A f \in FileNames : FileFits(files[f], d, daemon[d], f)
  BY Types, FileFacts
     DEF DaemonGuard, DaemonBoot, DaemonHandler, DaemonShutdown, DaemonStopVm, BinaryRemoved,
         DaemonCrash, Alive, IInv, FilesOf
<1> DEFINE Keeps(r) == daemon' = [daemon EXCEPT ![d] = r] => IInv'
<1>1. Keeps(Ended(d)) \/ ~(DaemonCrash(d) \/ DaemonGuard(d) \/ DaemonBoot(d))
  <2> DEFINE r == Ended(d)
  <2> SUFFICES ASSUME DaemonCrash(d) \/ DaemonGuard(d) \/ DaemonBoot(d),
                      daemon' = [daemon EXCEPT ![d] = r]
               PROVE  IInv'
    OBVIOUS
  <2>1. /\ r \in DaemonType /\ r.pc = "gone" /\ r.vols = daemon[d].vols
        /\ r.disks = daemon[d].disks /\ Shape(r)
    BY <1>0 DEF Ended, DaemonType, Shape, WithVm
  <2> HIDE DEF r
  <2> QED BY <1>0, <2>1, DaemonKeeps
<1>2. CASE DaemonGuard(d)
  <2>1. CASE is_daemon_alive
    BY <1>1, <1>2, <2>1 DEF DaemonGuard, Exit
  <2>2. CASE ~is_daemon_alive
    <3> DEFINE r == [daemon[d] EXCEPT !.pc = "clear"]
    <3>1. /\ daemon[d].pc = "guard" /\ daemon' = [daemon EXCEPT ![d] = r]
      BY <1>2, <2>2 DEF DaemonGuard, Advance
    <3>2. /\ r \in DaemonType /\ r.pc = "clear" /\ r.vols = daemon[d].vols
          /\ r.disks = daemon[d].disks /\ Shape(r)
      BY <1>0, <3>1 DEF DaemonType, Shape, WithVm, Booting
    <3> HIDE DEF r
    <3>3. \A f \in FileNames : FileFits(files'[f], d, r, f)
      BY <1>0, <3>1, <3>2 DEF FileFits, Holds, WithVm, Clearing
    <3> QED BY <1>0, <3>1, <3>2, <3>3, DaemonKeeps DEF Booting, Clearing
  <2> QED BY <2>1, <2>2
<1>3. CASE DaemonBoot(d)
  <2>1. CASE Exit(d)
    BY <1>1, <1>3, <2>1 DEF Exit
  <2>2. CASE daemon' = [daemon EXCEPT ![d].pc = "bind_sock", ![d].vm = TRUE]
    <3> DEFINE r == [daemon[d] EXCEPT !.pc = "bind_sock", !.vm = TRUE]
    <3>1. daemon[d].pc = "boot" /\ daemon' = [daemon EXCEPT ![d] = r]
      BY <1>0, <1>3, <2>2, Types DEF DaemonBoot
    <3>2. /\ r \in DaemonType /\ r.pc = "bind_sock" /\ r.vols = daemon[d].vols
          /\ r.disks = daemon[d].disks /\ Shape(r)
      BY <1>0, <3>1 DEF DaemonType, Shape, WithVm, Booting
    <3> HIDE DEF r
    <3>3. \A f \in FileNames : FileFits(files'[f], d, r, f)
      BY <1>0, <3>1, <3>2 DEF FileFits, Holds, WithVm, Clearing
    <3> QED BY <1>0, <3>1, <3>2, <3>3, DaemonKeeps DEF Booting, Clearing
  <2> QED BY <1>3, <2>1, <2>2 DEF DaemonBoot
<1>4. CASE DaemonHandler(d)
  <2> DEFINE r == [daemon[d] EXCEPT !.pc = "serving"]
  <2>1. daemon[d].pc = "handler" /\ daemon' = [daemon EXCEPT ![d] = r]
    BY <1>4 DEF DaemonHandler, Advance
  <2>2. /\ r \in DaemonType /\ r.pc = "serving" /\ r.vols = daemon[d].vols
        /\ r.disks = daemon[d].disks /\ Shape(r)
    BY <1>0, <2>1 DEF DaemonType, Shape, WithVm
  <2> HIDE DEF r
  <2>3. \A f \in FileNames : FileFits(files'[f], d, r, f)
    BY <1>0, <2>1, <2>2 DEF FileFits, Holds, WithVm, Clearing
  <2> QED BY <1>0, <2>1, <2>2, <2>3, DaemonKeeps DEF Booting, Clearing
<1>5. CASE DaemonShutdown(d)
  <2> DEFINE r == [daemon[d] EXCEPT !.pc = "stop_vm"]
  <2>1. daemon[d].pc = "serving" /\ daemon[d].term /\ daemon' = [daemon EXCEPT ![d] = r]
    BY <1>5 DEF DaemonShutdown, Advance
  <2>2. /\ r \in DaemonType /\ r.pc = "stop_vm" /\ r.vols = daemon[d].vols
        /\ r.disks = daemon[d].disks /\ Shape(r)
    BY <1>0, <2>1 DEF DaemonType, Shape, WithVm, Ending
  <2> HIDE DEF r
  <2>3. \A f \in FileNames : FileFits(files'[f], d, r, f)
    BY <1>0, <2>1, <2>2 DEF FileFits, Holds, WithVm, Clearing
  <2> QED BY <1>0, <2>1, <2>2, <2>3, DaemonKeeps DEF Booting, Clearing
<1>6. CASE DaemonStopVm(d)
  <2>1. PICK r \in {[daemon[d] EXCEPT !.pc = "final_clear", !.vm = FALSE],
                    [daemon[d] EXCEPT !.pc = "stuck_clear"]} :
          daemon[d].pc = "stop_vm" /\ daemon' = [daemon EXCEPT ![d] = r]
    BY <1>0, <1>6, Types DEF DaemonStopVm, Advance
  <2>2. /\ r \in DaemonType /\ r.pc \in Clearing /\ r.vols = daemon[d].vols
        /\ r.disks = daemon[d].disks /\ Shape(r) /\ r.step = 1
    BY <1>0, <2>1 DEF DaemonType, Shape, WithVm, Ending, Clearing
  <2>3. \A f \in FileNames : Holds(r, f)
    BY <2>2, FileFacts DEF Holds
  <2>4. \A f \in FileNames : Holds(daemon[d], f)
    BY <1>0, <2>1, FileFacts DEF Holds, WithVm
  <2>5. \A f \in FileNames : FileFits(files'[f], d, r, f)
    BY <1>0, <2>3, <2>4 DEF FileFits
  <2> QED BY <1>0, <2>1, <2>2, <2>5, DaemonKeeps DEF Booting, Clearing
<1>7. CASE BinaryRemoved(d)
  <2> DEFINE r == [daemon[d] EXCEPT !.term = TRUE]
  <2>1. /\ \A c \in Commands : cmd[c].pc \notin Busy
        /\ daemon[d].pc = "serving" /\ daemon' = [daemon EXCEPT ![d] = r]
    BY <1>7 DEF BinaryRemoved, UserMayAct
  <2>2. /\ r \in DaemonType /\ r.pc = "serving" /\ r.vols = daemon[d].vols
        /\ r.disks = daemon[d].disks /\ Shape(r)
    BY <1>0, <2>1 DEF DaemonType, Shape, WithVm
  <2> HIDE DEF r
  <2>3. \A f \in FileNames : FileFits(files'[f], d, r, f)
    BY <1>0, <2>1, <2>2 DEF FileFits, Holds, WithVm, Clearing
  <2> QED BY <1>0, <2>1, <2>2, <2>3, DaemonKeeps
<1>8. CASE DaemonCrash(d)
  BY <1>1, <1>8 DEF DaemonCrash, Exit
<1> QED BY <1>2, <1>3, <1>4, <1>5, <1>6, <1>7, <1>8

(* Bindings and writes: the daemon's next file, at its place.              *)
LEMMA DaemonAnnouncesKeeps ==
  ASSUME IInv, NEW d \in Daemons,
         \/ DaemonBindSock(d) \/ DaemonBindConsole(d)
         \/ DaemonWritePid(d) \/ DaemonWriteMounts(d) \/ DaemonWriteExtra(d)
  PROVE  IInv'
<1>0. /\ UNCHANGED cmd /\ Alive(d) /\ daemon[d] \in DaemonType /\ Shape(daemon[d])
      /\ files \in [FileNames -> 0..MaxDaemons] /\ d \in 0..MaxDaemons
      /\ \A f \in FileNames : FileFits(files[f], d, daemon[d], f)
  BY Types
     DEF DaemonBindSock, DaemonBindConsole, DaemonWritePid, DaemonWriteMounts, DaemonWriteExtra,
         Bind, Write, Alive, IInv, FilesOf
<1> DEFINE Step(pc, f, next) ==
             /\ daemon[d].pc = pc /\ Advance(d, next)
             /\ files' = [files EXCEPT ![f] = d] \/ (f \in WriteFaults /\ UNCHANGED files)
<1>1. \/ Step("bind_sock", "sock", "bind_console")
      \/ Step("bind_console", "console", "write_pid")
      \/ Step("write_pid", "pid", "write_mounts")
      \/ Step("write_mounts", "mounts", "write_extra")
      \/ Step("write_extra", "extra", "handler")
      \/ Exit(d) /\ UNCHANGED files
  BY DEF DaemonBindSock, DaemonBindConsole, DaemonWritePid, DaemonWriteMounts,
         DaemonWriteExtra, Bind, Write
<1>8. CASE Exit(d) /\ UNCHANGED files
  <2> DEFINE r == Ended(d)
  <2>1. /\ r \in DaemonType /\ r.pc = "gone" /\ r.vols = daemon[d].vols
        /\ r.disks = daemon[d].disks /\ Shape(r) /\ daemon' = [daemon EXCEPT ![d] = r]
    BY <1>0, <1>8 DEF Ended, DaemonType, Shape, WithVm, Exit
  <2> HIDE DEF r
  <2> QED BY <1>0, <1>8, <2>1, DaemonKeeps
<1>2. ASSUME NEW pc \in Booting, NEW f \in FileNames, NEW next \in Booting \cap WithVm,
             Step(pc, f, next), pc \in WithVm,
             \A g \in FileNames, r \in DaemonType :
                r.pc = next => (Holds(r, g) <=> Holds(daemon[d], g) \/ g = f)
      PROVE  IInv'
  <2> DEFINE r == [daemon[d] EXCEPT !.pc = next]
  <2>1. daemon[d].pc \in WithVm /\ daemon' = [daemon EXCEPT ![d] = r]
    BY <1>2 DEF Advance
  <2>2. /\ r \in DaemonType /\ r.pc = next /\ r.vols = daemon[d].vols
        /\ r.disks = daemon[d].disks /\ Shape(r)
    BY <1>0, <1>2, <2>1 DEF DaemonType, Shape
  <2> HIDE DEF r
  <2>3. /\ files' \in [FileNames -> 0..MaxDaemons]
        /\ \A g \in FileNames :
              files'[g] = (IF g = f THEN d ELSE files[g]) \/ (f \in WriteFaults /\ files'[g] = files[g])
    <3>1. CASE files' = [files EXCEPT ![f] = d]
      BY <1>0, <3>1
    <3>2. CASE f \in WriteFaults /\ UNCHANGED files
      BY <1>0, <3>2
    <3> QED BY <1>2, <3>1, <3>2
  <2>4. ASSUME NEW g \in FileNames PROVE FileFits(files'[g], d, r, g)
    <3>1. FileFits(files[g], d, daemon[d], g) /\ (Holds(r, g) <=> Holds(daemon[d], g) \/ g = f)
      BY <1>0, <1>2, <2>2
    <3> QED BY <2>3, <3>1 DEF FileFits
  <2>5. r.pc \in Booting /\ r.pc \notin {"gone", "unborn"} /\ daemon[d].pc # "serving"
        /\ daemon[d].pc \in Booting /\ daemon[d].pc \notin Clearing
    BY <1>2, <2>1, <2>2 DEF Booting, WithVm, Clearing
  <2>6. files'["sock"] \in {0, d, files["sock"]}
    BY <2>3, FileFacts
  <2> QED BY <1>0, <2>1, <2>2, <2>3, <2>4, <2>5, <2>6, DaemonKeeps
<1>3. CASE Step("bind_sock", "sock", "bind_console")
  BY <1>2, <1>3, FileFacts DEF Holds, WithVm, Booting, Clearing
<1>4. CASE Step("bind_console", "console", "write_pid")
  BY <1>2, <1>4, FileFacts DEF Holds, WithVm, Booting, Clearing
<1>5. CASE Step("write_pid", "pid", "write_mounts")
  BY <1>2, <1>5, FileFacts DEF Holds, WithVm, Booting, Clearing
<1>6. CASE Step("write_mounts", "mounts", "write_extra")
  BY <1>2, <1>6, FileFacts DEF Holds, WithVm, Booting, Clearing
<1>7. CASE Step("write_extra", "extra", "handler")
  BY <1>2, <1>7, FileFacts DEF Holds, WithVm, Booting, Clearing
<1> QED BY <1>1, <1>3, <1>4, <1>5, <1>6, <1>7, <1>8

(* One unlink at a time: of files that are not there yet, and of the       *)
(* daemon's own at its end.                                                *)
LEMMA DaemonClearsKeeps ==
  ASSUME IInv, NEW d \in Daemons, DaemonClear(d) \/ DaemonFinalClear(d)
  PROVE  IInv'
<1> DEFINE i == daemon[d].step
<1>0. /\ UNCHANGED cmd /\ Alive(d) /\ daemon[d] \in DaemonType /\ Shape(daemon[d])
      /\ files \in [FileNames -> 0..MaxDaemons] /\ i \in 1..5
      /\ \A f \in FileNames : FileFits(files[f], d, daemon[d], f)
      /\ files' = [files EXCEPT ![FileOrder[i]] = 0] /\ FileOrder[i] \in FileNames
  BY Types, FileFacts DEF DaemonClear, DaemonFinalClear, ClearStep, Alive, IInv, FilesOf, DaemonType
<1>1. /\ files' \in [FileNames -> 0..MaxDaemons]
      /\ \A f \in FileNames : files'[f] = IF f = FileOrder[i] THEN 0 ELSE files[f]
  BY <1>0, LifecycleAssumption
<1>2. CASE i < 5
  <2> DEFINE r == [daemon[d] EXCEPT !.step = i + 1]
  <2>1. daemon' = [daemon EXCEPT ![d] = r] /\ daemon[d].pc \in {"clear"} \cup Clearing
    BY <1>2, FileFacts DEF DaemonClear, DaemonFinalClear, ClearStep, Clearing
  <2>2. /\ r \in DaemonType /\ r.pc = daemon[d].pc /\ r.vols = daemon[d].vols
        /\ r.disks = daemon[d].disks /\ r.step = i + 1 /\ r.vm = daemon[d].vm
    BY <1>0, <1>2, FileFacts DEF DaemonType
  <2> HIDE DEF r
  <2>3. Shape(r)
    BY <1>0, <2>1, <2>2 DEF Shape, WithVm, Clearing
  <2>4. \A f \in FileNames : FileFits(files'[f], d, r, f)
    <3>1. CASE daemon[d].pc = "clear"
      BY <1>0, <1>1, <2>2, <3>1 DEF FileFits, Holds, WithVm, Clearing
    <3>2. CASE daemon[d].pc \in Clearing
      <4>1. \A f \in FileNames : Holds(daemon[d], f) <=> \E j \in i..5 : f = FileOrder[j]
        BY <3>2 DEF Holds, WithVm, Clearing
      <4>2. \A f \in FileNames : Holds(r, f) <=> \E j \in (i + 1)..5 : f = FileOrder[j]
        BY <2>2, <3>2 DEF Holds, WithVm, Clearing
      <4>3. \A f \in FileNames : Holds(r, f) <=> Holds(daemon[d], f) /\ f # FileOrder[i]
        <5>1. \A j, k \in 1..5 : FileOrder[j] = FileOrder[k] => j = k
          BY FileFacts
        <5>2. \A j : j \in i..5 <=> j = i \/ j \in (i + 1)..5
          BY <1>0
        <5>3. \A j \in (i + 1)..5 : j \in 1..5 /\ j # i
          BY <1>0
        <5> QED BY <1>0, <4>1, <4>2, <5>1, <5>2, <5>3
      <4> QED BY <1>0, <1>1, <4>3 DEF FileFits
    <3> QED BY <2>1, <3>1, <3>2
  <2>5. files'["sock"] \in {0, files["sock"]}
    BY <1>1, FileFacts
  <2> QED BY <1>0, <1>1, <2>1, <2>2, <2>3, <2>4, <2>5, DaemonKeeps DEF Booting, Clearing
<1>3. CASE i = 5 /\ DaemonClear(d)
  <2> DEFINE r == [daemon[d] EXCEPT !.pc = "boot", !.step = 1]
  <2>1. daemon' = [daemon EXCEPT ![d] = r] /\ daemon[d].pc = "clear"
    BY <1>3, FileFacts DEF DaemonClear, ClearStep
  <2>2. /\ r \in DaemonType /\ r.pc = "boot" /\ r.vols = daemon[d].vols
        /\ r.disks = daemon[d].disks /\ r.step = 1 /\ r.vm = daemon[d].vm
    <3>1. 1 \in DOMAIN FileOrder
      BY FileFacts
    <3> QED BY <1>0, <3>1 DEF DaemonType, Booting
  <2> HIDE DEF r
  <2>3. Shape(r)
    BY <1>0, <2>1, <2>2 DEF Shape, WithVm
  <2>4. \A f \in FileNames : FileFits(files'[f], d, r, f)
    BY <1>0, <1>1, <2>1, <2>2 DEF FileFits, Holds, WithVm, Clearing
  <2>5. files'["sock"] \in {0, files["sock"]}
    BY <1>1, FileFacts
  <2> QED BY <1>0, <1>1, <2>1, <2>2, <2>3, <2>4, <2>5, DaemonKeeps DEF Booting, Clearing
<1>4. CASE i = 5 /\ DaemonFinalClear(d)
  <2> DEFINE r == Ended(d)
  <2>1. daemon' = [daemon EXCEPT ![d] = r] /\ daemon[d].pc \in Clearing
    BY <1>4, FileFacts DEF DaemonFinalClear, ClearStep, Clearing
  <2>2. /\ r \in DaemonType /\ r.pc = "gone" /\ r.vols = daemon[d].vols
        /\ r.disks = daemon[d].disks /\ Shape(r)
    BY <1>0 DEF Ended, DaemonType, Shape, WithVm
  <2> HIDE DEF r
  <2>3. files'["sock"] \in {0, files["sock"]}
    BY <1>1, FileFacts
  <2> QED BY <1>0, <1>1, <2>1, <2>2, <2>3, DaemonKeeps DEF Booting, Clearing
<1> QED BY <1>0, <1>2, <1>3, <1>4

-----------------------------------------------------------------------------
(* The commands *)

LEMMA GotoKeeps ==
  ASSUME IInv, NEW c \in Commands, cmd[c].pc \in Busy,
         NEW pc \in Returned \cup Busy, Goto(c, pc), UNCHANGED <<files, daemon>>,
         pc \notin Returned => Fits([cmd[c] EXCEPT !.pc = pc])
  PROVE  IInv'
<1> DEFINE r == [cmd[c] EXCEPT !.pc = pc]
<1>1. r \in CommandType /\ r.pc = pc /\ cmd' = [cmd EXCEPT ![c] = r]
  BY Types DEF CommandType, Goto
<1> HIDE DEF r
<1>2. pc \in Returned => pc \notin Busy
  BY DEF Returned, Busy
<1>3. Fits(r)
  BY <1>1, <1>2, IdleFits DEF r
<1> QED BY <1>1, <1>3, CommandKeeps

LEMMA BeginKeeps ==
  ASSUME Patience = 3, IInv, NEW c \in Commands, NEW v \in VolumeArgs, NEW x \in Disks,
         NEW pc \in {"check", "find_pid", "init_guard", "init_force"}, Begin(c, pc, v, x)
  PROVE  IInv'
<1> DEFINE r == [pc |-> pc, vols |-> v, disks |-> x, step |-> 1, target |-> 0]
<1>1. /\ cmd' = [cmd EXCEPT ![c] = r] /\ UNCHANGED <<files, daemon>>
      /\ \A b \in Commands : cmd[b].pc \notin Busy
      /\ \A d \in Daemons : daemon[d].pc \notin Booting \cup Ending /\ ~daemon[d].term
  BY DEF Begin, UserMayAct
<1>2. r \in CommandType /\ r.pc = pc /\ r.step = 1
  <2>1. 1 \in DOMAIN FileOrder /\ 0 \in 0..MaxDaemons /\ pc \in Busy
    BY FileFacts, LifecycleAssumption DEF Busy
  <2> QED BY <2>1 DEF CommandType
<1> HIDE DEF r
<1>3. Calm
  <2>1. \A d \in Daemons : daemon[d].pc \in Booting \cup Ending \cup {"unborn", "serving", "gone"}
    BY Types DEF DaemonType
  <2> QED BY <1>1, <2>1 DEF Calm, Alive
<1>4. Fits(r)
  BY <1>2, <1>3 DEF Fits
<1> QED BY <1>1, <1>2, <1>4, CommandKeeps

(* ensure_running up to its answer, or to clear().                         *)
LEMMA EnsureReadsKeeps ==
  ASSUME IInv, NEW c \in Commands,
         \/ EnsureCheck(c) \/ EnsureReadMounts(c) \/ EnsureReadExtra(c)
         \/ EnsurePoll(c) \/ EnsureTimeout(c)
  PROVE  IInv'
<1>0. cmd[c].pc \in Busy /\ UNCHANGED <<files, daemon>> /\ Fits(cmd[c]) /\ cmd[c] \in CommandType
  BY Types
     DEF EnsureCheck, EnsureReadMounts, EnsureReadExtra, EnsurePoll, EnsureTimeout, Busy, IInv
<1>1. CASE EnsureCheck(c)
  <2>1. cmd[c].pc = "check" /\ Calm
    BY <1>0, <1>1 DEF EnsureCheck, Fits
  <2> DEFINE pc == IF is_daemon_alive THEN "read_mounts" ELSE "clear"
             r == [cmd[c] EXCEPT !.pc = pc, !.target = RunningPid]
  <2>2. /\ cmd' = [cmd EXCEPT ![c] = r] /\ pc \in Busy
        /\ RunningPid \in 0..MaxDaemons
    <3>1. RunningPid # 0 => RunningPid \in Daemons /\ RunningPid \in 0..MaxDaemons
      BY RunningPidFacts, Types
    <3>2. 0 \in 0..MaxDaemons
      BY LifecycleAssumption
    <3> QED BY <1>1, <3>1, <3>2 DEF EnsureCheck, GotoWith, Busy
  <2>3. /\ r \in CommandType /\ r.pc = pc /\ r.step = 1 /\ r.target = RunningPid
    BY <1>0, <2>1, <2>2 DEF CommandType, Fits
  <2> HIDE DEF r
  <2>4. CASE is_daemon_alive
    <3>1. RunningPid \in Daemons /\ daemon[RunningPid].pc # "unborn"
      BY <2>4, RunningPidFacts DEF is_daemon_alive, Alive
    <3>2. Fits(r)
      BY <2>1, <2>3, <2>4, <3>1 DEF Fits
    <3> QED BY <1>0, <2>2, <2>3, <3>2, CommandKeeps
  <2>5. CASE ~is_daemon_alive
    <3>1. NoneAlive
      BY <2>1, <2>5, CalmFacts DEF is_daemon_alive
    <3>2. \A i \in DOMAIN FileOrder : ~(i < 1)
      BY FileFacts
    <3>3. Fits(r)
      BY <2>3, <2>5, <3>1, <3>2 DEF Fits
    <3> QED BY <1>0, <2>2, <2>3, <3>3, CommandKeeps
  <2> QED BY <2>4, <2>5
<1>2. CASE EnsureReadMounts(c) /\ ~Goto(c, "err")
  <2>1. /\ cmd[c].pc = "read_mounts" /\ Calm
        /\ cmd[c].target \in Daemons /\ daemon[cmd[c].target].pc # "unborn"
    BY <1>0, <1>2 DEF EnsureReadMounts, Fits
  <2>2. Goto(c, "read_extra")
        /\ (IF files["mounts"] = 0 THEN <<>> ELSE daemon_args_from_cli(daemon[files["mounts"]].vols))
           = daemon_args_from_cli(cmd[c].vols)
    BY <1>2, Zenon DEF EnsureReadMounts
  <2>6. daemon_args_from_cli(cmd[c].vols) # <<>>
    BY <1>0, SharesAreSome, ArgLists DEF CommandType
  <2>3. \A d \in Daemons : Alive(d) => files["mounts"] = d /\ d # 0
    BY <2>1, <2>2, <2>6, CalmFacts, FileFacts, Types
  <2> DEFINE r == [cmd[c] EXCEPT !.pc = "read_extra"]
  <2>4. /\ r.pc = "read_extra" /\ r.vols = cmd[c].vols /\ r.target = cmd[c].target
        /\ "read_extra" \in Busy
    BY <1>0 DEF CommandType, Busy
  <2> HIDE DEF r
  <2>5. Fits(r)
    BY <2>1, <2>2, <2>3, <2>4 DEF Fits
  <2> QED BY <1>0, <2>2, <2>4, <2>5, GotoKeeps DEF r
<1>3. ASSUME Goto(c, "ok") \/ Goto(c, "err") PROVE IInv'
  <2>1. "ok" \in Returned /\ "err" \in Returned
    BY DEF Returned
  <2> QED BY <1>0, <1>3, <2>1, GotoKeeps
<1>4. EnsureReadExtra(c) \/ EnsurePoll(c) \/ EnsureTimeout(c) => Goto(c, "ok") \/ Goto(c, "err")
  BY DEF EnsureReadExtra, EnsurePoll, EnsureTimeout
<1> QED BY <1>1, <1>2, <1>3, <1>4

(* clear() of ensure_running: nobody lives, and the files go one by one.   *)
LEMMA EnsureClearKeeps ==
  ASSUME IInv, NEW c \in Commands, EnsureClear(c)
  PROVE  IInv'
<1> DEFINE i == cmd[c].step
           r == IF i < Len(FileOrder) THEN [cmd[c] EXCEPT !.step = i + 1]
                ELSE [cmd[c] EXCEPT !.pc = "spawn", !.step = 1]
<1>1. /\ cmd[c].pc = "clear" /\ cmd[c] \in CommandType /\ i \in 1..5 /\ NoneAlive
      /\ cmd' = [cmd EXCEPT ![c] = r] /\ UNCHANGED daemon
      /\ files' = [files EXCEPT ![FileOrder[i]] = 0] /\ FileOrder[i] \in FileNames
      /\ files \in [FileNames -> 0..MaxDaemons]
      /\ \A j \in DOMAIN FileOrder : j < i => files[FileOrder[j]] = 0
  BY Types, FileFacts DEF EnsureClear, IInv, Fits, CommandType
<1>2. /\ r \in CommandType /\ r.pc = IF i < 5 THEN "clear" ELSE "spawn"
      /\ i < 5 => r.step = i + 1
  <2>1. 1 \in DOMAIN FileOrder /\ Len(FileOrder) = 5 /\ "spawn" \in Busy
        /\ (i < 5 => i + 1 \in DOMAIN FileOrder)
    BY <1>1, FileFacts DEF Busy
  <2> QED BY <1>1, <2>1 DEF CommandType
<1> HIDE DEF r
<1>3. /\ cmd' \in [Commands -> CommandType] /\ cmd'[c] = r /\ OneBusy'
      /\ \A b \in Commands \ {c} : cmd'[b] = cmd[b] /\ cmd[b].pc \notin Busy
  <2>1. cmd[c].pc \in Busy
    BY <1>1 DEF Busy
  <2> QED BY <1>1, <1>2, <2>1, CommandStep
<1>4. /\ files' \in [FileNames -> 0..MaxDaemons]
      /\ \A f \in FileNames : files'[f] = IF f = FileOrder[i] THEN 0 ELSE files[f]
  BY <1>1, LifecycleAssumption
<1>5. TypeOK' /\ OneAlive' /\ NoneAlive'
  BY <1>1, <1>3, <1>4 DEF IInv, TypeOK, CommandType, OneAlive, Alive, NoneAlive
<1>6. (\A d \in Daemons : Shape(daemon[d]) /\ (Alive(d) => FilesOf(d)))'
  BY <1>1, <1>5 DEF IInv, NoneAlive, Shape
<1>7. \A j \in DOMAIN FileOrder : j =< i => files'[FileOrder[j]] = 0
  <2>1. \A j \in DOMAIN FileOrder : FileOrder[j] \in FileNames /\ j \in Int
    BY FileFacts
  <2>2. \A j \in DOMAIN FileOrder : j =< i => j = i \/ j < i
    BY <1>1, <2>1
  <2> QED BY <1>1, <1>4, <2>1, <2>2
<1>8. ASSUME NEW b \in Commands PROVE Fits(cmd[b])'
  <2>1. CASE b # c
    BY <1>3, <2>1 DEF Fits, Busy
  <2>2. CASE b = c /\ i < 5
    <3>1. cmd'[b].pc = "clear" /\ cmd'[b].step = i + 1
      BY <1>2, <1>3, <2>2
    <3>2. \A j \in DOMAIN FileOrder : j < i + 1 => files'[FileOrder[j]] = 0
      BY <1>1, <1>7, FileFacts
    <3> QED BY <1>5, <3>1, <3>2 DEF Fits
  <2>3. CASE b = c /\ ~(i < 5)
    <3>1. cmd'[b].pc = "spawn"
      BY <1>2, <1>3, <2>3
    <3>2. \A f \in FileNames : files'[f] = 0
      <4>1. \A j \in DOMAIN FileOrder : files'[FileOrder[j]] = 0
        BY <1>1, <1>7, <2>3, FileFacts
      <4> QED BY <4>1 DEF FileNames
    <3> QED BY <1>5, <3>1, <3>2 DEF Fits
  <2> QED BY <2>1, <2>2, <2>3
<1> QED BY <1>3, <1>5, <1>6, <1>8 DEF IInv

(* The new daemon finds an empty state directory.                          *)
LEMMA EnsureSpawnKeeps ==
  ASSUME IInv, NEW c \in Commands, EnsureSpawn(c)
  PROVE  IInv'
<1>1. /\ cmd[c].pc = "spawn" /\ cmd[c] \in CommandType /\ NoneAlive /\ UNCHANGED files
      /\ \A f \in FileNames : files[f] = 0
  BY Types DEF EnsureSpawn, IInv, Fits
<1> DEFINE x == [NotBorn EXCEPT !.pc = "guard", !.vols = DaemonArgs(cmd[c].vols),
                                !.disks = cmd[c].disks]
<1>2. PICK d \in Daemons : /\ daemon[d].pc = "unborn" /\ daemon' = [daemon EXCEPT ![d] = x]
                            /\ GotoWith(c, "poll", d)
  BY DEF EnsureSpawn
<1> DEFINE r == [cmd[c] EXCEPT !.pc = "poll", !.target = d]
<1>3. /\ r \in CommandType /\ r.pc = "poll" /\ r.vols = cmd[c].vols /\ r.disks = cmd[c].disks
      /\ r.target = d /\ cmd' = [cmd EXCEPT ![c] = r] /\ cmd[c].pc \in Busy
  BY <1>1, <1>2, Types DEF CommandType, GotoWith, Busy
<1>4. /\ x \in DaemonType /\ x.pc = "guard" /\ x.vols = DaemonArgs(cmd[c].vols)
      /\ x.disks = cmd[c].disks /\ Shape(x)
  <2>1. 1 \in DOMAIN FileOrder /\ "guard" \in Booting
    BY FileFacts DEF Booting
  <2>2. DaemonArgs(cmd[c].vols) \in {DaemonArgs(v) : v \in VolumeArgs} /\ cmd[c].disks \in Disks
    BY <1>1 DEF CommandType
  <2> QED BY <2>1, <2>2 DEF DaemonType, NotBorn, Shape
<1> HIDE DEF r, x
<1>5. /\ cmd' \in [Commands -> CommandType] /\ cmd'[c] = r /\ OneBusy'
      /\ \A b \in Commands \ {c} : cmd'[b] = cmd[b] /\ cmd[b].pc \notin Busy
  BY <1>3, CommandStep
<1>6. /\ daemon' \in [Daemons -> DaemonType] /\ daemon'[d] = x
      /\ \A e \in Daemons \ {d} : daemon'[e] = daemon[e]
  BY <1>2, <1>4, Types
<1>7. \A e \in Daemons : Alive(e)' <=> e = d
  BY <1>1, <1>4, <1>6 DEF Alive, NoneAlive
<1>8. TypeOK' /\ OneAlive'
  BY <1>1, <1>5, <1>6, <1>7 DEF IInv, TypeOK, CommandType, DaemonType, OneAlive
<1>9. ASSUME NEW e \in Daemons PROVE Shape(daemon[e])' /\ (Alive(e)' => FilesOf(e)')
  <2>1. Shape(daemon'[e])
    BY <1>4, <1>6 DEF IInv
  <2>2. Shape(daemon[e])'
    BY <2>1 DEF Shape
  <2>3. ASSUME Alive(e)' PROVE FilesOf(e)'
    <3>1. daemon'[e].pc = "guard"
      BY <1>4, <1>6, <1>7, <2>3
    <3> QED BY <1>1, <3>1 DEF FilesOf, FileFits, Holds, WithVm, Clearing
  <2> QED BY <2>2, <2>3
<1>10. ASSUME NEW b \in Commands PROVE Fits(cmd[b])'
  <2>1. CASE b # c
    BY <1>5, <2>1 DEF Fits, Busy
  <2>2. CASE b = c
    <3>1. /\ cmd'[b].pc = "poll" /\ cmd'[b].vols = cmd[c].vols /\ cmd'[b].disks = cmd[c].disks
          /\ cmd'[b].target = d
      BY <1>3, <1>5, <2>2
    <3>2. \A e \in Daemons :
             Alive(e)' => daemon'[e].vols = DaemonArgs(cmd[c].vols) /\ daemon'[e].disks = cmd[c].disks
      BY <1>4, <1>6, <1>7
    <3>3. daemon'[d].pc # "unborn" /\ files'["sock"] = 0
      BY <1>1, <1>4, <1>6, FileFacts
    <3> QED BY <1>7, <3>1, <3>2, <3>3 DEF Fits
  <2> QED BY <2>1, <2>2
<1> QED BY <1>5, <1>8, <1>9, <1>10 DEF IInv

(* SIGTERM reaches a daemon that serves: its flag is set, and the command  *)
(* waits.                                                                  *)
LEMMA TerminateKeeps ==
  ASSUME IInv, NEW c \in Commands, cmd[c].pc \in {"find_pid", "init_force"},
         NEW pc \in {"await_exit", "init_await"}, Terminate(c, pc), UNCHANGED files
  PROVE  IInv'
<1> DEFINE p == RunningPid
           r == [cmd[c] EXCEPT !.pc = pc, !.target = p]
           x == [daemon[p] EXCEPT !.term = TRUE]
<1>1. Calm /\ cmd[c] \in CommandType /\ cmd[c].pc \in Busy /\ pc \in Busy
  BY Types DEF IInv, Fits, Busy
<1>2. p \in Daemons /\ Alive(p) /\ p \in 0..MaxDaemons
  BY RunningPidFacts, Types DEF Terminate
<1>3. daemon[p].pc = "serving" /\ daemon[p] \in DaemonType /\ Shape(daemon[p]) /\ FilesOf(p)
  BY <1>1, <1>2, Types DEF Calm, IInv
<1>4. daemon' = [daemon EXCEPT ![p] = x]
  BY <1>3 DEF Terminate, Booting
<1>5. cmd' = [cmd EXCEPT ![c] = r]
  BY DEF Terminate, GotoWith
<1>6. r \in CommandType /\ r.pc = pc
  BY <1>1, <1>2 DEF CommandType
<1>7. x \in DaemonType /\ x.pc = "serving" /\ Shape(x)
  BY <1>3 DEF DaemonType, Shape
<1> HIDE DEF p, r, x
<1>8. /\ cmd' \in [Commands -> CommandType] /\ cmd'[c] = r /\ OneBusy'
      /\ \A b \in Commands \ {c} : cmd'[b] = cmd[b] /\ cmd[b].pc \notin Busy
  BY <1>1, <1>5, <1>6, CommandStep
<1>9. /\ daemon' \in [Daemons -> DaemonType] /\ daemon'[p] = x
      /\ \A e \in Daemons \ {p} : daemon'[e] = daemon[e] /\ ~Alive(e)
  BY <1>2, <1>4, <1>7, Types DEF IInv, OneAlive
<1>10. \A e \in Daemons : Alive(e)' => e = p
  BY <1>9 DEF Alive
<1>11. TypeOK' /\ OneAlive'
  BY <1>8, <1>9, <1>10 DEF IInv, TypeOK, CommandType, DaemonType, OneAlive
<1>12. ASSUME NEW e \in Daemons PROVE Shape(daemon[e])' /\ (Alive(e)' => FilesOf(e)')
  <2>1. Shape(daemon'[e])
    BY <1>7, <1>9 DEF IInv
  <2>2. Shape(daemon[e])'
    BY <2>1 DEF Shape
  <2>3. ASSUME Alive(e)' PROVE FilesOf(e)'
    <3>1. e = p /\ daemon'[e].pc = "serving"
      BY <1>7, <1>9, <1>10, <2>3
    <3>2. \A f \in FileNames : Holds(daemon[p], f) /\ FileFits(files[f], p, daemon[p], f)
      BY <1>2, <1>3, FileFacts DEF FilesOf, Holds, WithVm
    <3>3. \A f \in FileNames : Holds(daemon'[e], f)
      BY <3>1, FileFacts DEF Holds, WithVm
    <3>4. \A f \in FileNames : FileFits(files'[f], e, daemon'[e], f)
      BY <3>1, <3>2, <3>3 DEF FileFits
    <3> QED BY <3>4 DEF FilesOf, FileFits, Holds
  <2> QED BY <2>2, <2>3
<1>13. ASSUME NEW b \in Commands PROVE Fits(cmd[b])'
  <2>1. CASE b # c
    BY <1>8, <2>1 DEF Fits, Busy
  <2>2. CASE b = c
    <3>1. cmd'[b].pc \in {"await_exit", "init_await"}
      BY <1>6, <1>8, <2>2
    <3>2. \A e \in Daemons : Alive(e)' => daemon'[e].pc \notin Booting
      BY <1>7, <1>9, <1>10 DEF Booting
    <3> QED BY <3>1, <3>2 DEF Fits
  <2> QED BY <2>1, <2>2
<1> QED BY <1>8, <1>11, <1>12, <1>13 DEF IInv

(* When the PID file no longer names a living process, the daemon that is  *)
(* shutting down has stopped its VM.                                       *)
LEMMA AwaitFacts ==
  ASSUME IInv, NEW c \in Commands, cmd[c].pc \in {"await_exit", "init_await"}, ~is_daemon_alive
  PROVE  \A d \in Daemons : Alive(d) => daemon[d].pc \in Clearing
<1> SUFFICES ASSUME NEW d \in Daemons, Alive(d) PROVE daemon[d].pc \in Clearing
  OBVIOUS
<1>1. daemon[d].pc \notin Booting
  BY DEF IInv, Fits
<1>2. ~Holds(daemon[d], "pid")
  BY RunningPidFacts, Types DEF is_daemon_alive
<1>3. daemon[d].pc \notin {"serving", "stop_vm"}
  BY <1>2 DEF Holds
<1>4. daemon[d].pc \in Booting \cup Ending \cup {"unborn", "serving", "gone"}
  BY Types DEF DaemonType
<1> QED BY <1>1, <1>3, <1>4 DEF Ending, Alive, Clearing

LEMMA StopKeeps ==
  ASSUME IInv, NEW c \in Commands, Stop(c)
  PROVE  IInv'
<1>1. CASE StopSignal(c) /\ ~Goto(c, "no_vm")
  BY <1>1, TerminateKeeps DEF StopSignal
<1>2. CASE \E pc \in {"no_vm", "stopped", "timed_out"} : Goto(c, pc)
  <2>1. \A pc \in {"no_vm", "stopped", "timed_out"} : pc \in Returned
    BY DEF Returned
  <2>2. cmd[c].pc \in Busy
    BY DEF Stop, StopSignal, StopAwait, StopTimeout, Busy
  <2>3. UNCHANGED <<files, daemon>>
    <3>1. ASSUME Terminate(c, "await_exit") PROVE FALSE
      <4>1. cmd'[c].pc = "await_exit"
        BY <3>1, Types DEF Terminate, GotoWith, CommandType
      <4>2. cmd'[c].pc \in {"no_vm", "stopped", "timed_out"}
        BY <1>2, Types DEF Goto, CommandType
      <4> QED BY <4>1, <4>2
    <3> QED BY <3>1 DEF Stop, StopSignal, StopAwait, StopTimeout
  <2> QED BY <1>2, <2>1, <2>2, <2>3, GotoKeeps
<1> QED BY <1>1, <1>2 DEF Stop, StopSignal, StopAwait, StopTimeout

LEMMA VmInitKeeps ==
  ASSUME IInv, NEW c \in Commands, VmInit(c)
  PROVE  IInv'
<1>0. cmd[c] \in CommandType /\ Fits(cmd[c]) /\ cmd[c].pc \in Busy
  BY Types DEF IInv, VmInit, InitGuard, InitForce, InitAwait, InitTimeout, InitCopy, Busy
<1>1. ASSUME NEW pc \in {"init_fresh", "init_over", "init_late"}, Goto(c, pc),
             UNCHANGED <<files, daemon>>,
             pc # "init_late" => \A d \in Daemons : Alive(d) => daemon[d].pc \in Clearing
      PROVE  IInv'
  <2> DEFINE r == [cmd[c] EXCEPT !.pc = pc]
  <2>1. r.pc = pc /\ pc \in Busy
    BY <1>0 DEF CommandType, Busy
  <2> HIDE DEF r
  <2>2. Fits(r)
    BY <1>1, <2>1 DEF Fits
  <2> QED BY <1>0, <1>1, <2>1, <2>2, GotoKeeps DEF r
<1>2. ASSUME NEW pc \in {"err", "copied", "kept"}, Goto(c, pc), UNCHANGED <<files, daemon>>
      PROVE  IInv'
  <2>1. pc \in Returned
    BY DEF Returned
  <2> QED BY <1>0, <1>2, <2>1, GotoKeeps
<1>3. CASE InitGuard(c)
  <2>1. Calm
    BY <1>0, <1>3 DEF InitGuard, Fits
  <2>2. RunningPid = 0 => NoneAlive
    BY <2>1, CalmFacts
  <2> QED BY <1>1, <1>2, <1>3, <2>2 DEF InitGuard, NoneAlive
<1>4. CASE InitForce(c)
  <2>1. cmd[c].pc = "init_force" /\ Calm /\ UNCHANGED files
    BY <1>0, <1>4 DEF InitForce, Fits
  <2>2. RunningPid = 0 => NoneAlive
    BY <2>1, CalmFacts
  <2>3. CASE Terminate(c, "init_await")
    BY <2>1, <2>3, TerminateKeeps
  <2>4. CASE RunningPid = 0 /\ Goto(c, "init_over") /\ UNCHANGED daemon
    BY <1>1, <2>1, <2>2, <2>4 DEF NoneAlive
  <2>5. CASE Goto(c, "err") /\ UNCHANGED daemon
    BY <1>2, <2>1, <2>5
  <2> QED BY <1>4, <2>3, <2>4, <2>5 DEF InitForce
<1>5. CASE InitAwait(c)
  BY <1>1, <1>5, AwaitFacts DEF InitAwait
<1>6. CASE InitTimeout(c)
  BY <1>1, <1>6 DEF InitTimeout
<1>7. CASE InitCopy(c)
  BY <1>2, <1>7 DEF InitCopy
<1> QED BY <1>3, <1>4, <1>5, <1>6, <1>7 DEF VmInit

LEMMA InvInit ==
  ASSUME "pid" \notin WriteFaults
  PROVE  Init => IInv
<1> SUFFICES ASSUME Init PROVE IInv
  OBVIOUS
<1>1. 1 \in DOMAIN FileOrder /\ 0 \in 0..MaxDaemons
  BY FileFacts, LifecycleAssumption
<1>2. TypeOK
  BY <1>1, LifecycleAssumption DEF Init, TypeOK, NotBorn
<1>3. /\ \A d \in Daemons : daemon[d].pc = "unborn" /\ ~daemon[d].vm
      /\ \A c \in Commands : cmd[c].pc = "idle"
  BY DEF Init, NotBorn
<1> QED BY <1>2, <1>3 DEF IInv, OneBusy, OneAlive, Alive, Shape, WithVm, Fits, Busy

LEMMA InvNext ==
  ASSUME Patience = 3
  PROVE  IInv /\ [Next]_vars => IInv'
<1> SUFFICES ASSUME IInv, [Next]_vars PROVE IInv'
  OBVIOUS
<1>1. ASSUME NEW c \in Commands, NEW v \in VolumeArgs, NEW x \in Disks, EnsureBegin(c, v, x)
      PROVE  IInv'
  BY <1>1, BeginKeeps DEF EnsureBegin
<1>2. ASSUME NEW c \in Commands, NEW force \in BOOLEAN, InitBegin(c, force) \/ StopBegin(c)
      PROVE  IInv'
  BY <1>2, BeginKeeps, LifecycleAssumption DEF InitBegin, StopBegin
<1>3. ASSUME NEW c \in Commands, Ensure(c) \/ Stop(c) \/ VmInit(c) PROVE IInv'
  BY <1>3, EnsureReadsKeeps, EnsureClearKeeps, EnsureSpawnKeeps, StopKeeps, VmInitKeeps DEF Ensure
<1>4. ASSUME NEW d \in Daemons, DaemonRun(d) \/ BinaryRemoved(d) \/ DaemonCrash(d) PROVE IInv'
  BY <1>4, DaemonRunsKeeps, DaemonAnnouncesKeeps, DaemonClearsKeeps DEF DaemonRun
<1>5. CASE UNCHANGED vars
  BY <1>5 DEF vars, IInv, TypeOK, OneBusy, OneAlive, Alive, Shape, FilesOf, FileFits, Holds, Fits,
              Calm, NoneAlive
<1> QED BY <1>1, <1>2, <1>3, <1>4, <1>5 DEF Next

-----------------------------------------------------------------------------
(* Where a command's answer comes from.                                    *)
LEMMA AnswerComesFrom ==
  ASSUME IInv, Next, NEW c \in Commands, cmd'[c].pc \in Returned, cmd'[c].pc # cmd[c].pc
  PROVE  Ensure(c) \/ Stop(c) \/ VmInit(c)
<1>1. ASSUME NEW b \in Commands, Ensure(b) \/ Stop(b) \/ VmInit(b) PROVE b = c
  <2>1. PICK r : cmd' = [cmd EXCEPT ![b] = r]
    <3>1. ASSUME NEW pc, Goto(b, pc) PROVE cmd' = [cmd EXCEPT ![b] = [cmd[b] EXCEPT !.pc = pc]]
      BY <3>1 DEF Goto
    <3>2. ASSUME NEW pc, Terminate(b, pc)
          PROVE  cmd' = [cmd EXCEPT ![b] = [cmd[b] EXCEPT !.pc = pc, !.target = RunningPid]]
      BY <3>2 DEF Terminate, GotoWith
    <3>6. ASSUME NEW pc, NEW d, GotoWith(b, pc, d)
          PROVE  cmd' = [cmd EXCEPT ![b] = [cmd[b] EXCEPT !.pc = pc, !.target = d]]
      BY <3>6 DEF GotoWith
    <3>3. CASE Ensure(b)
      BY <3>1, <3>3, <3>6 DEF Ensure, EnsureCheck, EnsureReadMounts, EnsureReadExtra, EnsureClear,
                        EnsureSpawn, EnsurePoll, EnsureTimeout
    <3>4. CASE Stop(b)
      BY <3>1, <3>2, <3>4 DEF Stop, StopSignal, StopAwait, StopTimeout
    <3>5. CASE VmInit(b)
      BY <3>1, <3>2, <3>5 DEF VmInit, InitGuard, InitForce, InitAwait, InitTimeout, InitCopy
    <3> QED BY <1>1, <3>3, <3>4, <3>5
  <2> QED BY <2>1, Types
<1>2. ASSUME NEW b \in Commands, NEW pc \in Busy, NEW v, NEW x, Begin(b, pc, v, x) PROVE FALSE
  <2>1. cmd' = [cmd EXCEPT ![b] = [pc |-> pc, vols |-> v, disks |-> x, step |-> 1, target |-> 0]]
    BY <1>2 DEF Begin
  <2>2. cmd'[c].pc = cmd[c].pc \/ cmd'[c].pc = pc
    BY <2>1, Types
  <2> QED BY <2>2 DEF Returned, Busy
<1>3. ASSUME NEW d \in Daemons, DaemonRun(d) \/ BinaryRemoved(d) \/ DaemonCrash(d)
      PROVE  UNCHANGED cmd
  BY <1>3 DEF DaemonRun, BinaryRemoved, DaemonCrash, DaemonGuard, DaemonClear, DaemonBoot,
              DaemonBindSock, DaemonBindConsole, DaemonWritePid, DaemonWriteMounts,
              DaemonWriteExtra, DaemonHandler, DaemonShutdown, DaemonStopVm, DaemonFinalClear,
              ClearStep, Bind, Write
<1>4. "check" \in Busy /\ "find_pid" \in Busy /\ "init_force" \in Busy /\ "init_guard" \in Busy
  BY DEF Busy
<1> QED BY <1>1, <1>2, <1>3, <1>4 DEF Next, EnsureBegin, InitBegin, StopBegin

(* The places where an action of c leaves it.                              *)
LEMMA GotoFacts ==
  ASSUME IInv, NEW c \in Commands
  PROVE  /\ \A pc : Goto(c, pc) => cmd'[c].pc = pc
         /\ \A pc, d : GotoWith(c, pc, d) => cmd'[c].pc = pc
         /\ \A pc : Terminate(c, pc) => cmd'[c].pc = pc
         /\ EnsureClear(c) => cmd'[c].pc \in {"clear", "spawn"}
<1>1. cmd[c] \in CommandType /\ cmd \in [Commands -> CommandType]
  BY Types
<1>2. \A pc : Goto(c, pc) => cmd'[c].pc = pc
  BY <1>1 DEF Goto, CommandType
<1>3. \A pc : Terminate(c, pc) => cmd'[c].pc = pc
  BY <1>1 DEF Terminate, GotoWith, CommandType
<1>4. EnsureClear(c) => cmd'[c].pc \in {"clear", "spawn"}
  BY <1>1 DEF EnsureClear, CommandType
<1>5. \A pc, d : GotoWith(c, pc, d) => cmd'[c].pc = pc
  BY <1>1 DEF GotoWith, CommandType
<1> QED BY <1>2, <1>3, <1>4, <1>5

LEMMA OkComesFrom ==
  ASSUME IInv, Next, NEW c \in Commands, Returns(c, {"ok"})
  PROVE  EnsureReadExtra(c) \/ EnsurePoll(c)
<1>1. Ensure(c) \/ Stop(c) \/ VmInit(c)
  BY AnswerComesFrom DEF Returns, Returned
<1>2. cmd'[c].pc = "ok"
  BY DEF Returns
<1> QED BY <1>1, <1>2, GotoFacts
        DEF Ensure, EnsureCheck, EnsureReadMounts, EnsureSpawn, EnsureTimeout,
            Stop, StopSignal, StopAwait, StopTimeout,
            VmInit, InitGuard, InitForce, InitAwait, InitTimeout, InitCopy

LEMMA StoppedComesFrom ==
  ASSUME IInv, Next, NEW c \in Commands, Returns(c, {"stopped", "no_vm"})
  PROVE  /\ StopSignal(c) \/ StopAwait(c)
         /\ UNCHANGED daemon
         /\ StopSignal(c) => RunningPid = 0
<1>1. Ensure(c) \/ Stop(c) \/ VmInit(c)
  BY AnswerComesFrom DEF Returns, Returned
<1>2. cmd'[c].pc \in {"stopped", "no_vm"}
  BY DEF Returns
<1>3. StopSignal(c) \/ StopAwait(c)
  BY <1>1, <1>2, GotoFacts
     DEF Ensure, EnsureCheck, EnsureReadMounts, EnsureReadExtra, EnsureSpawn, EnsurePoll,
         EnsureTimeout, Stop, StopTimeout,
         VmInit, InitGuard, InitForce, InitAwait, InitTimeout, InitCopy
<1>4. StopSignal(c) => RunningPid = 0 /\ UNCHANGED daemon
  BY <1>2, GotoFacts DEF StopSignal
<1> QED BY <1>3, <1>4 DEF StopAwait

LEMMA CopiedComesFrom ==
  ASSUME IInv, Next, NEW c \in Commands, Returns(c, {"copied"})
  PROVE  cmd[c].pc \in {"init_fresh", "init_over", "init_late"}
<1>1. Ensure(c) \/ Stop(c) \/ VmInit(c)
  BY AnswerComesFrom DEF Returns, Returned
<1>2. cmd'[c].pc = "copied"
  BY DEF Returns
<1> QED BY <1>1, <1>2, GotoFacts
        DEF Ensure, EnsureCheck, EnsureReadMounts, EnsureReadExtra, EnsureSpawn, EnsurePoll,
            EnsureTimeout, Stop, StopSignal, StopAwait, StopTimeout,
            VmInit, InitGuard, InitForce, InitAwait, InitTimeout, InitCopy

(* When ensure_running gives its Ok, the daemon it has found or started    *)
(* owns vm.sock, or has died.                                              *)
LEMMA OkIsBehindSock ==
  ASSUME IInv, NEW c \in Commands, EnsureReadExtra(c) \/ EnsurePoll(c)
  PROVE  files["sock"] = cmd[c].target \/ daemon[cmd[c].target].pc = "gone"
<1> DEFINE t == cmd[c].target
<1>1. Fits(cmd[c]) /\ "sock" \in FileNames /\ "sock" \notin WriteFaults
  BY FileFacts DEF IInv
<1>2. CASE EnsureReadExtra(c)
  <2>1. Calm /\ t \in Daemons /\ daemon[t].pc # "unborn"
    BY <1>1, <1>2 DEF EnsureReadExtra, Fits
  <2> QED BY <1>1, <2>1, CalmFacts DEF Alive
<1>3. CASE EnsurePoll(c)
  BY <1>1, <1>3 DEF EnsurePoll, Fits
<1> QED BY <1>2, <1>3

LEMMA OffUnlessOn ==
  ASSUME IInv, \A d \in Daemons : Alive(d) => daemon[d].pc \in Clearing
  PROVE  VmsAreOff
  BY DEF IInv, Shape, WithVm, Alive, Clearing, VmsAreOff

-----------------------------------------------------------------------------
(* Two VMs of one profile never run at the same time, for a user who lets  *)
(* a daemon finish starting and finish shutting down before the next       *)
(* command, where the PID file can be written (ensure_running's check, the *)
(* guard of daemon::run).                                                  *)
THEOREM OnlyOneVm ==
  ASSUME Patience = 3, "pid" \notin WriteFaults
  PROVE  Spec => []OneVm
<1>1. ASSUME IInv PROVE OneVm
  <2> DEFINE S == {d \in Daemons : daemon[d].vm}
  <2>1. \A d, e \in S : d = e
    BY <1>1 DEF IInv, OneAlive, Shape, WithVm, Alive
  <2>2. CASE S = {}
    BY <2>2, FS_EmptySet DEF OneVm
  <2>3. CASE S # {}
    <3>1. PICK d : S = {d}
      BY <2>1, <2>3
    <3> HIDE DEF S
    <3>2. Cardinality(S) = 1
      BY <3>1, FS_Singleton, Zenon
    <3>3. Cardinality(S) =< 1
      BY <3>2
    <3> QED BY <3>3 DEF OneVm, S
  <2> QED BY <2>2, <2>3
<1> QED BY <1>1, InvInit, InvNext, PTL DEF Spec

(* ensure_running "returns Ok(()) once vm.sock is connectable": vm.sock is *)
(* that of the daemon which the command has found or started, unless it    *)
(* has died since, whatever crashed or timed-out predecessors have left in *)
(* the state directory and wherever a daemon dies.                         *)
THEOREM OkIsConnectable ==
  ASSUME Patience = 3, "pid" \notin WriteFaults
  PROVE  Spec => OkMeansConnectable
<1> DEFINE Good(c) == files'["sock"] = cmd[c].target \/ daemon[cmd[c].target].pc = "gone"
<1>1. ASSUME IInv, Next, NEW c \in Commands, Returns(c, {"ok"}) PROVE Good(c)
  <2>1. EnsureReadExtra(c) \/ EnsurePoll(c)
    BY <1>1, OkComesFrom
  <2>2. UNCHANGED files
    BY <2>1 DEF EnsureReadExtra, EnsurePoll
  <2>3. files["sock"] = cmd[c].target \/ daemon[cmd[c].target].pc = "gone"
    BY <1>1, <2>1, OkIsBehindSock
  <2> QED BY <2>2, <2>3
<1>2. IInv /\ [Next]_vars
      => [\A c \in Commands : Returns(c, {"ok"}) => Good(c)]_vars
  BY <1>1
<1> QED BY <1>2, InvInit, InvNext, PTL DEF Spec, OkMeansConnectable

(* The daemon behind vm.sock at an Ok was booted with what was asked for.  *)
LEMMA OkIsSame ==
  ASSUME IInv, Next, Under(DataDir, Home), NEW c \in Commands, Returns(c, {"ok"}), Connectable'
  PROVE  /\ Asked(c) = Booted'
         /\ \/ daemon'[files'["sock"]].disks = cmd[c].disks
            \/ files["extra"] = 0 /\ cmd[c].pc = "read_extra"
<1>1. EnsureReadExtra(c) \/ EnsurePoll(c)
  BY OkComesFrom
<1>3. UNCHANGED <<files, daemon>> /\ Fits(cmd[c]) /\ cmd[c] \in CommandType
  BY <1>1, Types DEF EnsureReadExtra, EnsurePoll, IInv
<1>2. PICK d \in Daemons : Alive(d) /\ files["sock"] = d
  <2>1. Connectable /\ files["sock"] \in 0..MaxDaemons
    BY <1>3, Types, FileFacts DEF Connectable, Alive
  <2> QED BY <2>1, LifecycleAssumption DEF Connectable, Daemons
<1>4. CASE EnsureReadExtra(c)
  <2>1. cmd[c].pc = "read_extra" /\ Calm
        /\ daemon_args_from_cli(daemon[d].vols) = daemon_args_from_cli(cmd[c].vols)
    BY <1>2, <1>3, <1>4 DEF EnsureReadExtra, Fits
  <2>2. files["extra"] \in {0, d} /\ d # 0
    BY <1>2, <2>1, CalmFacts, FileFacts, Types
  <2>3. ~Goto(c, "err")
    BY Types DEF Goto, Returns, CommandType
  <2>4. files["extra"] = 0 \/ daemon[d].disks = cmd[c].disks
    BY <1>4, <2>2, <2>3 DEF EnsureReadExtra
  <2> QED BY <1>2, <1>3, <2>1, <2>4 DEF Asked, Booted
<1>5. CASE EnsurePoll(c)
  <2>1. daemon[d].vols = DaemonArgs(cmd[c].vols) /\ daemon[d].disks = cmd[c].disks
    BY <1>2, <1>3, <1>5 DEF EnsurePoll, Fits
  <2>2. daemon_args_from_cli(DaemonArgs(cmd[c].vols)) = daemon_args_from_cli(cmd[c].vols)
    BY <1>3, RoundTrip, ArgLists DEF CommandType, DaemonArgs
  <2> QED BY <1>2, <1>3, <2>1, <2>2 DEF Asked, Booted
<1> QED BY <1>1, <1>4, <1>5

(* An Ok is never given for another set of shares or disks than the daemon *)
(* behind vm.sock was booted with, whoever has booted it, where the data   *)
(* directory (with the volumes directory in it) is under $HOME.            *)
THEOREM OkIsSameConfig ==
  ASSUME Patience = 3, "pid" \notin WriteFaults, Under(DataDir, Home)
  PROVE  Spec => OkMeansSameConfig
<1> DEFINE Same(c) ==
             Returns(c, {"ok"}) /\ Connectable'
             => /\ Asked(c) = Booted'
                /\ \/ daemon'[files'["sock"]].disks = cmd[c].disks
                   \/ files["extra"] = 0 /\ cmd[c].pc = "read_extra"
<1>1. ASSUME IInv, Next, NEW c \in Commands PROVE Same(c)
  BY <1>1, OkIsSame
<1>2. IInv /\ [Next]_vars => [\A c \in Commands : Same(c)]_vars
  BY <1>1
<1> QED BY <1>2, InvInit, InvNext, PTL DEF Spec, OkMeansSameConfig

(* What `run` binds for the i-th -v of c is the directory that it names,   *)
(* and no other, however many volumes there are: no two shares have a tag  *)
(* in common.                                                              *)
MountIsBound(c, i) ==
    HostPaths(GuestMount(cmd[c].vols[i], Asked(c)), Booted') = {cmd[c].vols[i].host}

THEOREM MountsAreBound ==
  ASSUME Patience = 3, "pid" \notin WriteFaults, Under(DataDir, Home)
  PROVE  Spec => [][\A c \in Commands : Returns(c, {"ok"}) /\ Connectable'
                       => \A i \in DOMAIN cmd[c].vols : MountIsBound(c, i)]_vars
<1>1. ASSUME IInv, Next, NEW c \in Commands, Returns(c, {"ok"}), Connectable',
             NEW i \in DOMAIN cmd[c].vols
      PROVE  MountIsBound(c, i)
  <2> DEFINE v == cmd[c].vols
             m == GuestMount(v[i], Asked(c))
  <2>1. v \in Seq(V)
    BY <1>1, Types, ArgLists DEF CommandType
  <2>2. Booted' = Asked(c) /\ Asked(c) = daemon_args_from_cli(v)
    BY <1>1, OkIsSame DEF Asked
  <2>3. PICK k : MountedAt(m, v, k, v[i].host)
    BY <1>1, <2>1, <2>2, MountHasPlace
  <2> HIDE DEF m
  <2>4. HostPaths(m, daemon_args_from_cli(v)) = {v[i].host}
    BY <2>1, <2>3, MountShowsHost
  <2>5. HostPaths(m, Booted') = {v[i].host}
    BY <2>2, <2>4
  <2> QED BY <2>5 DEF MountIsBound, m
<1>2. IInv /\ [Next]_vars
      => [\A c \in Commands : Returns(c, {"ok"}) /\ Connectable'
             => \A i \in DOMAIN cmd[c].vols : MountIsBound(c, i)]_vars
  BY <1>1
<1> QED BY <1>2, InvInit, InvNext, PTL DEF Spec

(* After an Ok, `run` binds the directory that each -v names and `docker   *)
(* inspect` shows it, as long as the shares can be numbered with one digit *)
(* each: with more of them translate_volume_spec takes /mnt/share10 for    *)
(* /mnt/share1.                                                            *)
THEOREM MountsReach ==
  ASSUME Patience = 3, "pid" \notin WriteFaults, Under(DataDir, Home), \A v \in VolumeArgs : Len(OutsideHome(v)) < Base
  PROVE  Spec => MountsReachHost
<1> DEFINE Reach(c) ==
             Returns(c, {"ok"}) /\ Connectable'
             => \A i \in DOMAIN cmd[c].vols :
                   LET mount == GuestMount(cmd[c].vols[i], Asked(c))
                   IN  /\ HostPaths(mount, Booted') = {cmd[c].vols[i].host}
                       /\ translate_volume_spec(mount, Booted') = cmd[c].vols[i].host
<1>1. ASSUME IInv, Next, NEW c \in Commands PROVE Reach(c)
  <2> SUFFICES ASSUME Returns(c, {"ok"}), Connectable', NEW i \in DOMAIN cmd[c].vols
               PROVE  LET mount == GuestMount(cmd[c].vols[i], Asked(c))
                      IN  /\ HostPaths(mount, Booted') = {cmd[c].vols[i].host}
                          /\ translate_volume_spec(mount, Booted') = cmd[c].vols[i].host
    OBVIOUS
  <2> DEFINE v == cmd[c].vols
             m == GuestMount(v[i], Asked(c))
  <2>1. v \in Seq(V) /\ v \in VolumeArgs
    BY <1>1, Types, ArgLists DEF CommandType
  <2>2. Booted' = Asked(c) /\ Asked(c) = daemon_args_from_cli(v)
    BY <1>1, OkIsSame DEF Asked
  <2>3. PICK k : MountedAt(m, v, k, v[i].host)
    BY <1>1, <2>1, <2>2, MountHasPlace
  <2>4. Len(OutsideHome(v)) < Base
    BY <2>1
  <2> HIDE DEF m
  <2>5. HostPaths(m, daemon_args_from_cli(v)) = {v[i].host}
    BY <2>1, <2>3, MountShowsHost
  <2>6. translate_volume_spec(m, daemon_args_from_cli(v)) = v[i].host
    BY <2>1, <2>3, <2>4, MountIsShown
  <2>7. HostPaths(m, Booted') = {v[i].host} /\ translate_volume_spec(m, Booted') = v[i].host
    BY <2>2, <2>5, <2>6
  <2> QED BY <2>7 DEF m
<1>2. IInv /\ [Next]_vars => [\A c \in Commands : Reach(c)]_vars
  BY <1>1
<1> QED BY <1>2, InvInit, InvNext, PTL DEF Spec, MountsReachHost

(* vm_stop tells the truth: when it says "stopped" or that there is no VM, *)
(* none runs, though the PID file is the first that a daemon removes; but  *)
(* for a VM that its daemon has tried in vain to stop.                     *)
THEOREM StoppedIsOff ==
  ASSUME Patience = 3, "pid" \notin WriteFaults
  PROVE  Spec => StopMeansVmOff
<1>1. ASSUME IInv, Next, NEW c \in Commands, Returns(c, {"stopped", "no_vm"})
      PROVE  VmsAreOff'
  <2>1. /\ StopSignal(c) \/ StopAwait(c)
        /\ UNCHANGED daemon
        /\ StopSignal(c) => RunningPid = 0
    BY <1>1, StoppedComesFrom
  <2>2. \A d \in Daemons : Alive(d) => daemon[d].pc \in Clearing
    <3>1. CASE StopSignal(c)
      BY <1>1, <2>1, <3>1, CalmFacts DEF StopSignal, IInv, Fits, NoneAlive
    <3>2. CASE StopAwait(c)
      BY <1>1, <3>2, AwaitFacts DEF StopAwait
    <3> QED BY <2>1, <3>1, <3>2
  <2>3. VmsAreOff
    BY <1>1, <2>2, OffUnlessOn
  <2> QED BY <2>1, <2>3 DEF VmsAreOff
<1>2. IInv /\ [Next]_vars
      => [\A c \in Commands : Returns(c, {"stopped", "no_vm"}) => VmsAreOff']_vars
  BY <1>1
<1> QED BY <1>2, InvInit, InvNext, PTL DEF Spec, StopMeansVmOff

(* vm_init: "Refuse to overwrite root.img while the VM is running": the    *)
(* disk is copied over only when no VM runs, unless vm_init has warned     *)
(* that its wait for the daemon has timed out, or the daemon could not     *)
(* stop its VM.                                                            *)
THEOREM DiskIsKept ==
  ASSUME Patience = 3, "pid" \notin WriteFaults
  PROVE  Spec => DiskIsNotOverwritten
<1>1. ASSUME IInv, Next, NEW c \in Commands, Returns(c, {"copied"}), cmd[c].pc # "init_late"
      PROVE  VmsAreOff
  <2>1. cmd[c].pc \in {"init_fresh", "init_over"}
    BY <1>1, CopiedComesFrom
  <2>2. \A d \in Daemons : Alive(d) => daemon[d].pc \in Clearing
    BY <1>1, <2>1 DEF IInv, Fits
  <2> QED BY <1>1, <2>2, OffUnlessOn
<1>2. IInv /\ [Next]_vars
      => [\A c \in Commands : Returns(c, {"copied"}) /\ cmd[c].pc # "init_late" => VmsAreOff]_vars
  BY <1>1
<1> QED BY <1>2, InvInit, InvNext, PTL DEF Spec, DiskIsNotOverwritten

-----------------------------------------------------------------------------
(* TYPES, and what needs no more than them: at any Patience, with any      *)
(* number of commands and daemons at the same time.                        *)
LEMMA TypesOf ==
  ASSUME TypeOK
  PROVE  /\ files \in [FileNames -> 0..MaxDaemons]
         /\ daemon \in [Daemons -> DaemonType]
         /\ cmd \in [Commands -> CommandType]
         /\ RunningPid \in 0..MaxDaemons
         /\ RunningPid # 0 => RunningPid \in Daemons
<1>1. /\ files \in [FileNames -> 0..MaxDaemons] /\ daemon \in [Daemons -> DaemonType]
      /\ cmd \in [Commands -> CommandType]
  BY DEF TypeOK, DaemonType, CommandType
<1>2. files["pid"] \in 0..MaxDaemons /\ MaxDaemons \in Nat
  BY <1>1, FileFacts, LifecycleAssumption
<1>3. RunningPid \in {0, files["pid"]}
  BY DEF RunningPid
<1>4. \A i \in 0..MaxDaemons : i # 0 => i \in Daemons
  BY <1>2 DEF Daemons
<1> QED BY <1>1, <1>2, <1>3, <1>4

LEMMA TypesFrom ==
  ASSUME files' \in [FileNames -> 0..MaxDaemons], daemon' \in [Daemons -> DaemonType],
         cmd' \in [Commands -> CommandType]
  PROVE  TypeOK'
  BY DEF TypeOK, DaemonType, CommandType

DaemonPlaces == Booting \cup Ending \cup {"unborn", "serving", "gone"}
CommandPlaces == {"idle"} \cup Returned \cup Busy

LEMMA DaemonRecords ==
  ASSUME TypeOK, NEW d \in Daemons
  PROVE  /\ \A pc \in DaemonPlaces : [daemon[d] EXCEPT !.pc = pc] \in DaemonType
         /\ \A pc \in DaemonPlaces, vm \in BOOLEAN :
               [daemon[d] EXCEPT !.pc = pc, !.vm = vm] \in DaemonType
         /\ \A i \in 1..5 : [daemon[d] EXCEPT !.step = i] \in DaemonType
         /\ [daemon[d] EXCEPT !.pc = "boot", !.step = 1] \in DaemonType
         /\ [daemon[d] EXCEPT !.term = TRUE] \in DaemonType
         /\ Ended(d) \in DaemonType
<1>1. daemon[d] \in DaemonType /\ DOMAIN FileOrder = 1..5
  BY TypesOf, FileFacts
<1>2. "boot" \in DaemonPlaces /\ "gone" \in DaemonPlaces /\ 1 \in 1..5
  BY DEF DaemonPlaces, Booting
<1> QED BY <1>1, <1>2 DEF DaemonType, DaemonPlaces, Ended

LEMMA CommandRecords ==
  ASSUME TypeOK, NEW c \in Commands
  PROVE  /\ \A pc \in CommandPlaces : [cmd[c] EXCEPT !.pc = pc] \in CommandType
         /\ \A pc \in CommandPlaces, t \in 0..MaxDaemons :
               [cmd[c] EXCEPT !.pc = pc, !.target = t] \in CommandType
         /\ \A i \in 1..5 : [cmd[c] EXCEPT !.step = i] \in CommandType
         /\ [cmd[c] EXCEPT !.pc = "spawn", !.step = 1] \in CommandType
         /\ \A pc \in CommandPlaces, v \in VolumeArgs, x \in Disks :
               [pc |-> pc, vols |-> v, disks |-> x, step |-> 1, target |-> 0] \in CommandType
<1>1. cmd[c] \in CommandType /\ DOMAIN FileOrder = 1..5
  BY TypesOf, FileFacts
<1>2. "spawn" \in CommandPlaces /\ 1 \in 1..5 /\ 0 \in 0..MaxDaemons
  BY LifecycleAssumption DEF CommandPlaces, Busy
<1> QED BY <1>1, <1>2 DEF CommandType, CommandPlaces

(* A command goes to a place that there is.                                *)
LEMMA GotoTypes ==
  ASSUME TypeOK, NEW c \in Commands
  PROVE  /\ \A pc \in CommandPlaces : Goto(c, pc) => cmd' \in [Commands -> CommandType]
         /\ \A pc \in CommandPlaces, d \in 0..MaxDaemons :
               GotoWith(c, pc, d) => cmd' \in [Commands -> CommandType]
         /\ \A pc \in CommandPlaces :
               Terminate(c, pc) => /\ cmd' \in [Commands -> CommandType]
                                   /\ daemon' \in [Daemons -> DaemonType]
<1>1. cmd \in [Commands -> CommandType] /\ daemon \in [Daemons -> DaemonType]
  BY TypesOf
<1>2. ASSUME NEW pc \in CommandPlaces, Goto(c, pc) PROVE cmd' \in [Commands -> CommandType]
  <2>1. cmd' = [cmd EXCEPT ![c] = [cmd[c] EXCEPT !.pc = pc]]
    BY <1>2 DEF Goto
  <2>2. [cmd[c] EXCEPT !.pc = pc] \in CommandType
    BY CommandRecords
  <2> QED BY <1>1, <2>1, <2>2
<1>3. ASSUME NEW pc \in CommandPlaces, Terminate(c, pc)
      PROVE  cmd' \in [Commands -> CommandType] /\ daemon' \in [Daemons -> DaemonType]
  <2> DEFINE p == RunningPid
             r == IF daemon[p].pc \in Booting THEN Ended(p) ELSE [daemon[p] EXCEPT !.term = TRUE]
  <2>1. p \in Daemons /\ p \in 0..MaxDaemons
    BY <1>3, TypesOf DEF Terminate
  <2>2. cmd' = [cmd EXCEPT ![c] = [cmd[c] EXCEPT !.pc = pc, !.target = p]]
    BY <1>3 DEF Terminate, GotoWith
  <2>3. daemon' = [daemon EXCEPT ![p] = r]
    BY <1>3 DEF Terminate
  <2> HIDE DEF p
  <2>4. [cmd[c] EXCEPT !.pc = pc, !.target = p] \in CommandType
    BY <2>1, CommandRecords
  <2>5. r \in DaemonType
    BY <2>1, DaemonRecords
  <2> QED BY <1>1, <2>1, <2>2, <2>3, <2>4, <2>5
<1>4. ASSUME NEW pc \in CommandPlaces, NEW d \in 0..MaxDaemons, GotoWith(c, pc, d)
      PROVE  cmd' \in [Commands -> CommandType]
  <2>1. [cmd[c] EXCEPT !.pc = pc, !.target = d] \in CommandType
    BY CommandRecords
  <2> QED BY <1>1, <1>4, <2>1 DEF GotoWith
<1> QED BY <1>2, <1>3, <1>4

LEMMA CommandTypes ==
  ASSUME TypeOK, NEW c \in Commands, Ensure(c) \/ Stop(c) \/ VmInit(c)
  PROVE  TypeOK'
<1> USE FileFacts
<1>1. /\ files \in [FileNames -> 0..MaxDaemons] /\ daemon \in [Daemons -> DaemonType]
      /\ cmd \in [Commands -> CommandType] /\ cmd[c] \in CommandType
  BY TypesOf
<1>2. /\ \A pc \in CommandPlaces : Goto(c, pc) => cmd' \in [Commands -> CommandType]
      /\ \A pc \in CommandPlaces, d \in 0..MaxDaemons :
            GotoWith(c, pc, d) => cmd' \in [Commands -> CommandType]
      /\ \A pc \in CommandPlaces :
            Terminate(c, pc) => /\ cmd' \in [Commands -> CommandType]
                                /\ daemon' \in [Daemons -> DaemonType]
  BY GotoTypes
<1>3. Busy \subseteq CommandPlaces /\ Returned \subseteq CommandPlaces
  BY DEF CommandPlaces
<1>4. CASE EnsureClear(c)
  <2>1. cmd[c].step \in 1..5
    BY <1>1 DEF CommandType
  <2>2. files' \in [FileNames -> 0..MaxDaemons]
    BY <1>1, <1>4, <2>1, LifecycleAssumption DEF EnsureClear
  <2>3. cmd' \in [Commands -> CommandType]
    <3> DEFINE r == IF cmd[c].step < Len(FileOrder)
                    THEN [cmd[c] EXCEPT !.step = cmd[c].step + 1]
                    ELSE [cmd[c] EXCEPT !.pc = "spawn", !.step = 1]
    <3>1. cmd' = [cmd EXCEPT ![c] = r]
      BY <1>4 DEF EnsureClear
    <3>2. cmd[c].step < Len(FileOrder) => cmd[c].step + 1 \in 1..5
      BY <2>1
    <3>3. r \in CommandType
      BY <3>2, CommandRecords
    <3> QED BY <1>1, <3>1, <3>3
  <2>4. UNCHANGED daemon
    BY <1>4 DEF EnsureClear
  <2> QED BY <1>1, <2>2, <2>3, <2>4, TypesFrom
<1>5. CASE EnsureSpawn(c)
  <2>1. PICK d \in Daemons :
          /\ daemon' = [daemon EXCEPT ![d] = [NotBorn EXCEPT !.pc = "guard",
                           !.vols = DaemonArgs(cmd[c].vols), !.disks = cmd[c].disks]]
          /\ GotoWith(c, "poll", d)
    BY <1>5 DEF EnsureSpawn
  <2>2. [NotBorn EXCEPT !.pc = "guard", !.vols = DaemonArgs(cmd[c].vols), !.disks = cmd[c].disks]
        \in DaemonType
    <3> DEFINE a == DaemonArgs(cmd[c].vols)
               x == cmd[c].disks
    <3>1. a \in {DaemonArgs(v) : v \in VolumeArgs} /\ x \in Disks
      BY <1>1 DEF CommandType
    <3> HIDE DEF a, x
    <3>2. "guard" \in Booting /\ 1 \in DOMAIN FileOrder
      BY DEF Booting
    <3>3. [NotBorn EXCEPT !.pc = "guard", !.vols = a, !.disks = x] \in DaemonType
      BY <3>1, <3>2 DEF DaemonType, NotBorn
    <3> QED BY <3>3 DEF a, x
  <2>3. UNCHANGED files /\ "poll" \in Busy /\ d \in 0..MaxDaemons
    BY <1>5, LifecycleAssumption DEF EnsureSpawn, Busy, Daemons
  <2>4. cmd' \in [Commands -> CommandType]
    BY <1>2, <1>3, <2>1, <2>3
  <2>5. daemon' \in [Daemons -> DaemonType]
    BY <1>1, <2>1, <2>2
  <2> QED BY <1>1, <2>3, <2>4, <2>5, TypesFrom
<1>6. CASE \/ EnsureCheck(c) \/ EnsureReadMounts(c) \/ EnsureReadExtra(c) \/ EnsurePoll(c)
           \/ EnsureTimeout(c)
  <2>1. /\ UNCHANGED <<files, daemon>>
        /\ \E pc \in Busy \cup Returned : Goto(c, pc) \/ GotoWith(c, pc, RunningPid)
    BY <1>6 DEF EnsureCheck, EnsureReadMounts, EnsureReadExtra, EnsurePoll, EnsureTimeout, Busy,
                Returned
  <2>2. RunningPid \in 0..MaxDaemons
    BY TypesOf
  <2> QED BY <1>1, <1>2, <1>3, <2>1, <2>2, TypesFrom
<1>7. CASE Stop(c)
  <2>1. /\ UNCHANGED files
        /\ \E pc \in Busy \cup Returned : (Goto(c, pc) /\ UNCHANGED daemon) \/ Terminate(c, pc)
    BY <1>7 DEF Stop, StopSignal, StopAwait, StopTimeout, Busy, Returned
  <2> QED BY <1>1, <1>2, <1>3, <2>1, TypesFrom
<1>8. CASE VmInit(c)
  <2>1. /\ UNCHANGED files
        /\ \E pc \in Busy \cup Returned : (Goto(c, pc) /\ UNCHANGED daemon) \/ Terminate(c, pc)
    BY <1>8 DEF VmInit, InitGuard, InitForce, InitAwait, InitTimeout, InitCopy, Busy, Returned
  <2> QED BY <1>1, <1>2, <1>3, <2>1, TypesFrom
<1> QED BY <1>4, <1>5, <1>6, <1>7, <1>8 DEF Ensure

LEMMA BeginTypes ==
  ASSUME TypeOK, NEW c \in Commands, NEW pc \in Busy, NEW v \in VolumeArgs, NEW x \in Disks,
         Begin(c, pc, v, x)
  PROVE  TypeOK'
<1>1. [pc |-> pc, vols |-> v, disks |-> x, step |-> 1, target |-> 0] \in CommandType
  BY CommandRecords DEF CommandPlaces
<1> QED BY <1>1, TypesOf, TypesFrom DEF Begin

LEMMA DaemonTypes ==
  ASSUME TypeOK, NEW d \in Daemons, DaemonRun(d) \/ BinaryRemoved(d) \/ DaemonCrash(d)
  PROVE  TypeOK'
<1> USE FileFacts
<1>1. /\ files \in [FileNames -> 0..MaxDaemons] /\ daemon \in [Daemons -> DaemonType]
      /\ cmd \in [Commands -> CommandType] /\ daemon[d] \in DaemonType /\ d \in 0..MaxDaemons
  BY TypesOf, LifecycleAssumption DEF Daemons
<1>2. UNCHANGED cmd
  BY DEF DaemonRun, BinaryRemoved, DaemonCrash, DaemonGuard, DaemonClear, DaemonBoot,
         DaemonBindSock, DaemonBindConsole, DaemonWritePid, DaemonWriteMounts,
         DaemonWriteExtra, DaemonHandler, DaemonShutdown, DaemonStopVm, DaemonFinalClear,
         ClearStep, Bind, Write
<1>0. \A r \in DaemonType : [daemon EXCEPT ![d] = r] \in [Daemons -> DaemonType]
  BY <1>1
<1>3. \A pc \in DaemonPlaces : Advance(d, pc) => daemon' \in [Daemons -> DaemonType]
  <2> TAKE pc \in DaemonPlaces
  <2>1. Advance(d, pc) => daemon' = [daemon EXCEPT ![d] = [daemon[d] EXCEPT !.pc = pc]]
    BY DEF Advance
  <2>2. [daemon[d] EXCEPT !.pc = pc] \in DaemonType
    BY DaemonRecords
  <2> QED BY <1>0, <2>1, <2>2
<1>4. Exit(d) => daemon' \in [Daemons -> DaemonType]
  BY <1>1, DaemonRecords DEF Exit
<1>5. /\ \A f \in FileNames : [files EXCEPT ![f] = d] \in [FileNames -> 0..MaxDaemons]
      /\ \A f \in FileNames : [files EXCEPT ![f] = 0] \in [FileNames -> 0..MaxDaemons]
  BY <1>1, LifecycleAssumption
<1>6. ASSUME NEW pc, NEW next \in DaemonType, ClearStep(d, pc, next) PROVE TypeOK'
  <2>1. daemon[d].step \in 1..5
    BY <1>1 DEF DaemonType
  <2>2. files' = [files EXCEPT ![FileOrder[daemon[d].step]] = 0]
    BY <1>6 DEF ClearStep
  <2>3. files' \in [FileNames -> 0..MaxDaemons]
    BY <1>5, <2>1, <2>2
  <2> DEFINE r == IF daemon[d].step < Len(FileOrder)
                  THEN [daemon[d] EXCEPT !.step = daemon[d].step + 1] ELSE next
  <2>4. daemon' = [daemon EXCEPT ![d] = r]
    BY <1>6 DEF ClearStep
  <2>5. daemon[d].step < Len(FileOrder) => daemon[d].step + 1 \in 1..5
    BY <2>1
  <2>6. r \in DaemonType
    BY <1>6, <2>5, DaemonRecords
  <2>7. daemon' \in [Daemons -> DaemonType]
    BY <1>1, <2>4, <2>6
  <2> QED BY <1>1, <1>2, <2>3, <2>7, TypesFrom
<1>7. CASE DaemonClear(d) \/ DaemonFinalClear(d)
  BY <1>6, <1>7, DaemonRecords DEF DaemonClear, DaemonFinalClear
<1>8. CASE \/ DaemonGuard(d) \/ DaemonHandler(d) \/ DaemonShutdown(d) \/ DaemonCrash(d)
  <2>1. /\ UNCHANGED files
        /\ Exit(d) \/ \E pc \in DaemonPlaces : Advance(d, pc)
    BY <1>8 DEF DaemonGuard, DaemonHandler, DaemonShutdown, DaemonCrash, DaemonPlaces, Booting,
                Ending
  <2> QED BY <1>1, <1>2, <1>3, <1>4, <2>1, TypesFrom
<1>9. CASE DaemonBindSock(d) \/ DaemonBindConsole(d)
  <2>1. /\ UNCHANGED files \/ \E f \in FileNames : files' = [files EXCEPT ![f] = d]
        /\ Exit(d) \/ \E pc \in DaemonPlaces : Advance(d, pc)
    BY <1>9 DEF DaemonBindSock, DaemonBindConsole, Bind, DaemonPlaces, Booting
  <2>2. files' \in [FileNames -> 0..MaxDaemons]
    <3>1. CASE UNCHANGED files
      BY <1>1, <3>1
    <3>2. CASE \E f \in FileNames : files' = [files EXCEPT ![f] = d]
      BY <1>5, <3>2
    <3> QED BY <2>1, <3>1, <3>2
  <2>3. daemon' \in [Daemons -> DaemonType]
    BY <1>3, <1>4, <2>1
  <2> QED BY <1>1, <1>2, <2>2, <2>3, TypesFrom
<1>10. CASE DaemonWritePid(d) \/ DaemonWriteMounts(d) \/ DaemonWriteExtra(d)
  <2>1. /\ UNCHANGED files \/ \E f \in FileNames : files' = [files EXCEPT ![f] = d]
        /\ \E pc \in DaemonPlaces : Advance(d, pc)
    BY <1>10 DEF DaemonWritePid, DaemonWriteMounts, DaemonWriteExtra, Write, DaemonPlaces, Booting
  <2>2. files' \in [FileNames -> 0..MaxDaemons]
    <3>1. CASE UNCHANGED files
      BY <1>1, <3>1
    <3>2. CASE \E f \in FileNames : files' = [files EXCEPT ![f] = d]
      BY <1>5, <3>2
    <3> QED BY <2>1, <3>1, <3>2
  <2>3. daemon' \in [Daemons -> DaemonType]
    BY <1>3, <2>1
  <2> QED BY <1>1, <1>2, <2>2, <2>3, TypesFrom
<1>11. CASE DaemonBoot(d) \/ DaemonStopVm(d)
  <2>1. /\ UNCHANGED files
        /\ \/ Exit(d)
           \/ Advance(d, "stuck_clear")
           \/ \E pc \in DaemonPlaces, vm \in BOOLEAN :
                 daemon' = [daemon EXCEPT ![d] = [daemon[d] EXCEPT !.pc = pc, !.vm = vm]]
    <3>1. "bind_sock" \in DaemonPlaces /\ "final_clear" \in DaemonPlaces
      BY DEF DaemonPlaces, Booting, Ending
    <3>2. \A pc, vm : [daemon EXCEPT ![d].pc = pc, ![d].vm = vm]
                      = [daemon EXCEPT ![d] = [daemon[d] EXCEPT !.pc = pc, !.vm = vm]]
      BY <1>1
    <3> QED BY <1>11, <3>1, <3>2 DEF DaemonBoot, DaemonStopVm
  <2>2. \A pc \in DaemonPlaces, vm \in BOOLEAN :
           [daemon EXCEPT ![d] = [daemon[d] EXCEPT !.pc = pc, !.vm = vm]] \in [Daemons -> DaemonType]
    BY <1>0, DaemonRecords
  <2>4. "stuck_clear" \in DaemonPlaces
    BY DEF DaemonPlaces, Ending
  <2>3. daemon' \in [Daemons -> DaemonType]
    <3>1. CASE Exit(d)
      BY <1>4, <3>1
    <3>2. CASE Advance(d, "stuck_clear")
      BY <1>3, <2>4, <3>2
    <3>3. CASE \E pc \in DaemonPlaces, vm \in BOOLEAN :
                 daemon' = [daemon EXCEPT ![d] = [daemon[d] EXCEPT !.pc = pc, !.vm = vm]]
      <4>1. PICK pc \in DaemonPlaces, vm \in BOOLEAN :
                   daemon' = [daemon EXCEPT ![d] = [daemon[d] EXCEPT !.pc = pc, !.vm = vm]]
        BY <3>3
      <4>2. [daemon EXCEPT ![d] = [daemon[d] EXCEPT !.pc = pc, !.vm = vm]] \in [Daemons -> DaemonType]
        BY <2>2, Zenon
      <4> QED BY <4>1, <4>2, Zenon
    <3> QED BY <2>1, <3>1, <3>2, <3>3
  <2> QED BY <1>1, <1>2, <2>1, <2>3, TypesFrom
<1>12. CASE BinaryRemoved(d)
  <2>1. UNCHANGED files /\ daemon' = [daemon EXCEPT ![d] = [daemon[d] EXCEPT !.term = TRUE]]
    BY <1>12 DEF BinaryRemoved
  <2>2. daemon' \in [Daemons -> DaemonType]
    BY <1>1, <2>1, DaemonRecords
  <2> QED BY <1>1, <1>2, <2>1, <2>2, TypesFrom
<1> QED BY <1>7, <1>8, <1>9, <1>10, <1>11, <1>12 DEF DaemonRun

(* Types are kept whatever the user does.                                  *)
LEMMA TypesHold == Spec => []TypeOK
<1>1. Init => TypeOK
  <2>1. NotBorn \in DaemonType
    BY FileFacts, LifecycleAssumption DEF NotBorn, DaemonType
  <2> QED BY <2>1, FileFacts, LifecycleAssumption DEF Init, TypeOK, DaemonType
<1>2. TypeOK /\ [Next]_vars => TypeOK'
  <2> SUFFICES ASSUME TypeOK, [Next]_vars PROVE TypeOK'
    OBVIOUS
  <2>1. "check" \in Busy /\ "find_pid" \in Busy /\ "init_force" \in Busy /\ "init_guard" \in Busy
    BY DEF Busy
  <2>2. <<>> \in VolumeArgs /\ NoDisks \in Disks
    BY LifecycleAssumption
  <2>3. ASSUME NEW c \in Commands, NEW v \in VolumeArgs, NEW x \in Disks, EnsureBegin(c, v, x)
        PROVE  TypeOK'
    BY <2>1, <2>3, BeginTypes DEF EnsureBegin
  <2>4. ASSUME NEW c \in Commands, NEW force \in BOOLEAN, InitBegin(c, force) \/ StopBegin(c)
        PROVE  TypeOK'
    <3>1. \E pc \in Busy : Begin(c, pc, <<>>, NoDisks)
      BY <2>1, <2>4 DEF InitBegin, StopBegin
    <3> QED BY <2>2, <3>1, BeginTypes
  <2>5. ASSUME NEW c \in Commands, Ensure(c) \/ Stop(c) \/ VmInit(c) PROVE TypeOK'
    BY <2>5, CommandTypes
  <2>6. ASSUME NEW d \in Daemons, DaemonRun(d) \/ BinaryRemoved(d) \/ DaemonCrash(d)
        PROVE  TypeOK'
    BY <2>6, DaemonTypes
  <2>7. CASE UNCHANGED vars
    BY <2>7 DEF vars, TypeOK
  <2> QED BY <2>3, <2>4, <2>5, <2>6, <2>7 DEF Next
<1> QED BY <1>1, <1>2, PTL DEF Spec

(* Who leaves a command at "err" that was reading vm.mounts.               *)
LEMMA ErrComesFrom ==
  ASSUME TypeOK, Next, NEW c \in Commands, cmd[c].pc = "read_mounts", cmd'[c].pc = "err"
  PROVE  EnsureReadMounts(c)
<1>1. cmd \in [Commands -> CommandType]
  BY TypesOf
<1>2. ASSUME NEW b \in Commands, NEW r, cmd' = [cmd EXCEPT ![b] = r] PROVE b = c
  BY <1>1, <1>2
<1>3. ASSUME NEW b \in Commands, Ensure(b) \/ Stop(b) \/ VmInit(b) PROVE b = c
  <2>1. PICK r : cmd' = [cmd EXCEPT ![b] = r]
    <3>1. ASSUME NEW pc, Goto(b, pc) PROVE cmd' = [cmd EXCEPT ![b] = [cmd[b] EXCEPT !.pc = pc]]
      BY <3>1 DEF Goto
    <3>2. ASSUME NEW pc, Terminate(b, pc)
          PROVE  cmd' = [cmd EXCEPT ![b] = [cmd[b] EXCEPT !.pc = pc, !.target = RunningPid]]
      BY <3>2 DEF Terminate, GotoWith
    <3>6. ASSUME NEW pc, NEW d, GotoWith(b, pc, d)
          PROVE  cmd' = [cmd EXCEPT ![b] = [cmd[b] EXCEPT !.pc = pc, !.target = d]]
      BY <3>6 DEF GotoWith
    <3>3. CASE Ensure(b)
      BY <3>1, <3>3, <3>6 DEF Ensure, EnsureCheck, EnsureReadMounts, EnsureReadExtra, EnsureClear,
                        EnsureSpawn, EnsurePoll, EnsureTimeout
    <3>4. CASE Stop(b)
      BY <3>1, <3>2, <3>4 DEF Stop, StopSignal, StopAwait, StopTimeout
    <3>5. CASE VmInit(b)
      BY <3>1, <3>2, <3>5 DEF VmInit, InitGuard, InitForce, InitAwait, InitTimeout, InitCopy
    <3> QED BY <1>3, <3>3, <3>4, <3>5
  <2> QED BY <1>2, <2>1
<1>4. ASSUME NEW b \in Commands, NEW pc, NEW v, NEW x, Begin(b, pc, v, x) PROVE FALSE
  <2>1. b = c
    BY <1>2, <1>4 DEF Begin
  <2> QED BY <1>4, <2>1 DEF Begin, Returned
<1>5. ASSUME NEW d \in Daemons, DaemonRun(d) \/ BinaryRemoved(d) \/ DaemonCrash(d) PROVE FALSE
  <2>1. UNCHANGED cmd
    BY <1>5 DEF DaemonRun, BinaryRemoved, DaemonCrash, DaemonGuard, DaemonClear, DaemonBoot,
                DaemonBindSock, DaemonBindConsole, DaemonWritePid, DaemonWriteMounts,
                DaemonWriteExtra, DaemonHandler, DaemonShutdown, DaemonStopVm, DaemonFinalClear,
                ClearStep, Bind, Write
  <2> QED BY <2>1
<1>6. Ensure(c) \/ Stop(c) \/ VmInit(c)
  BY <1>3, <1>4, <1>5 DEF Next, EnsureBegin, InitBegin, StopBegin
<1> QED BY <1>6 DEF Ensure, EnsureCheck, EnsureReadExtra, EnsureClear, EnsureSpawn, EnsurePoll,
                    EnsureTimeout, Stop, StopSignal, StopAwait, StopTimeout,
                    VmInit, InitGuard, InitForce, InitAwait, InitTimeout, InitCopy

(* Two lists with nothing outside $HOME give the same shares.              *)
LEMMA HomeSharesAreSame ==
  ASSUME NEW v \in Seq(V), HomeOnly(v), Under(DataDir, Home),
         NEW w \in VolumeArgs, NEW a, a = <<>> \/ (a = DaemonArgs(w) /\ HomeOnly(Tail(a)))
  PROVE  daemon_args_from_cli(a) = daemon_args_from_cli(v)
<1>1. \A s : s \in Seq(V) /\ HomeOnly(s) => OutsideHome(s) = <<>>
  BY OutsideHomeDrops DEF HomeOnly, InHome
<1>2. OutsideHome(a) = <<>> /\ a \in Seq(V)
  <2>1. CASE a = <<>>
    <3>1. <<>> \in Seq(V)
      OBVIOUS
    <3> QED BY <2>1, <3>1, OutsideHomeOfNone
  <2>2. CASE a = DaemonArgs(w) /\ HomeOnly(Tail(a))
    <3>1. w \in Seq(V)
      BY ArgLists
    <3>2. a = <<VolumesSpec>> \o Listed(w)
      BY <2>2, <3>1, ArgsFacts DEF DaemonArgs
    <3>3. a \in Seq(V) /\ Tail(a) = Listed(w) /\ OutsideHome(a) = OutsideHome(Listed(w))
      BY <3>1, <3>2, SameOutsideHome
    <3>4. Listed(w) \in Seq(V)
      BY <3>1, ListedFacts
    <3> QED BY <1>1, <2>2, <3>3, <3>4
  <2> QED BY <2>1, <2>2
<1>3. OutsideHome(v) = <<>>
  BY <1>1
<1>4. Listed(a) = Listed(v)
  BY <1>2, <1>3 DEF Listed
<1>5. build_virtiofs_shares(a) = build_virtiofs_shares(v)
  BY <1>2, <1>4, BuildIsListed
<1> QED BY <1>5 DEF daemon_args_from_cli

(* A command that names only directories under $HOME is never refused for  *)
(* a daemon whose list it has read and whose command did so too, at any    *)
(* Patience: however many commands and daemons are at work.                *)
THEOREM HomeMountsAccepted ==
  ASSUME Under(DataDir, Home)
  PROVE  Spec => HomeMountsAreAccepted
<1> DEFINE Accepted(c) ==
             cmd[c].pc = "read_mounts" /\ cmd'[c].pc = "err" /\ files["mounts"] # 0
             => ~HomeOnly(cmd[c].vols) \/ ~HomeOnly(Tail(daemon[files["mounts"]].vols))
<1>1. ASSUME TypeOK, Next, NEW c \in Commands PROVE Accepted(c)
  <2> SUFFICES ASSUME cmd[c].pc = "read_mounts", cmd'[c].pc = "err", files["mounts"] # 0,
                      HomeOnly(cmd[c].vols), HomeOnly(Tail(daemon[files["mounts"]].vols))
               PROVE  FALSE
    OBVIOUS
  <2> DEFINE d == files["mounts"]
             a == daemon[d].vols
             v == cmd[c].vols
  <2>1. EnsureReadMounts(c)
    BY <1>1, ErrComesFrom
  <2>2. d \in Daemons
    <3>1. d \in 0..MaxDaemons
      BY <1>1, TypesOf, FileFacts
    <3> QED BY <3>1, LifecycleAssumption DEF Daemons
  <2>3. cmd[c] \in CommandType /\ daemon[d] \in DaemonType
    BY <1>1, <2>2, TypesOf
  <2>4. v \in VolumeArgs /\ a \in {<<>>} \cup {DaemonArgs(w) : w \in VolumeArgs}
    BY <2>3 DEF CommandType, DaemonType
  <2>5. PICK w \in VolumeArgs : a = <<>> \/ a = DaemonArgs(w)
    BY <2>4, LifecycleAssumption
  <2>6. v \in Seq(V)
    BY <2>4, ArgLists
  <2>7. daemon_args_from_cli(a) = daemon_args_from_cli(v)
    <3> HIDE DEF d
    <3> QED BY <2>5, <2>6, HomeSharesAreSame DEF d
  <2>8. Goto(c, "read_extra")
    BY <2>1, <2>7 DEF EnsureReadMounts
  <2>9. cmd'[c].pc = "read_extra"
    BY <1>1, <2>8, TypesOf DEF Goto, CommandType
  <2> QED BY <2>9
<1>2. TypeOK /\ [Next]_vars => [\A c \in Commands : Accepted(c)]_vars
  BY <1>1
<1> QED BY <1>2, TypesHold, PTL DEF Spec, HomeMountsAreAccepted
=============================================================================
