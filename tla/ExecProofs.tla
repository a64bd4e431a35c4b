----------------------------- MODULE ExecProofs -----------------------------
(***************************************************************************)
(* What passes through an interactive command, in both directions, for     *)
(* any amount of input, any capacity of the sockets and pipes and any exit *)
(* code, with the VM stopped, the daemon gone or the CLI killed at any     *)
(* moment.                                                                 *)
(*                                                                         *)
(* The two sockets that a frame passes through on its way down are one     *)
(* queue to the proof, and so are the two on the way up: the relay moves   *)
(* a frame within the queue.                                               *)
(***************************************************************************)
EXTENDS ExecSession, Integers, SequenceTheorems, TLAPS

DownQueue == cliDown \o vmDown
UpQueue == vmUp \o cliUp

Down == [kind : {"ready", "error", "out", "err", "exit"}, n : Int]
Up == [kind : {"in", "eof"}, n : Int]

InputType == [read : Nat, ended : BOOLEAN]
ChildType == [st : {"none", "running", "exited"}, owes : 0..1, code : Int, heir : BOOLEAN]
PipeType == [{"in"} \cup Streams -> Int]
ThreadType == [{"in"} \cup Streams -> {"off", "reading", "blocked", "ended"}]
RelayType == [Threads -> {"off", "copying", "ended"}]

Types ==
    /\ cli \in {"waiting", "running", "done", "failed", "killed"}
    /\ input \in InputType
    /\ shown \in [Streams -> Int] /\ wrote \in [Streams -> Int]
    /\ vmDown \in Seq(Down) /\ cliDown \in Seq(Down)
    /\ vmUp \in Seq(Up) /\ cliUp \in Seq(Up)
    /\ relay \in RelayType
    /\ main \in {"off", "starting", "serving", "closed", "stopped"}
    /\ thread \in ThreadType
    /\ child \in ChildType
    /\ pipe \in PipeType

(* Before the guest serves nothing has been read or written, and before    *)
(* the daemon has connected nothing was sent; once the VM is stopped       *)
(* nothing runs in it.                                                     *)
Early ==
    /\ relay["A"] = "off" => /\ relay["B"] = "off" /\ main \in {"off", "stopped"}
                             /\ vmDown = <<>> /\ cliDown = <<>>
    /\ main \in {"off", "starting"} =>
          /\ child.st = "none" /\ \A s \in Streams : wrote[s] = 0
          /\ \A t \in {"in"} \cup Streams : thread[t] = "off" /\ pipe[t] = 0
    /\ main = "stopped" =>
          /\ child.st = "exited" /\ \A t \in {"in"} \cup Streams : thread[t] \in {"off", "ended"}
    /\ main = "closed" =>
          /\ child.st # "running" /\ \A s \in Streams : thread[s] \in {"off", "ended"}
    /\ child.heir => child.st = "exited" /\ main \in {"serving", "closed"}

Basics == Types /\ Early

-----------------------------------------------------------------------------
(* The way down *)

(* Chunks of a stream that have left the child's pipe.                     *)
Left(s) == wrote[s] - pipe[s]

(* The CLI has printed the first n chunks of s and no other is under way,  *)
(* or the last one under way is the n-th.                                  *)
Flow(q, s, printed, n) ==
    /\ (\A i \in 1..Len(q) : q[i].kind # s) => printed = n
    /\ \A i \in 1..Len(q) :
          q[i].kind = s /\ (\A j \in (i + 1)..Len(q) : q[j].kind # s) => q[i].n = n

(* The exit frame is the last one.                                         *)
HasExit(q) == \E i \in 1..Len(q) : q[i].kind = "exit"
ExitIsLast(q, n) == \A i \in 1..Len(q) : q[i].kind = "exit" => i = Len(q) /\ q[i].n = n

Drained == \A s \in Streams : HostOpen /\ thread[s] \in {"off", "ended"} => pipe[s] = 0

Over == child.st = "exited" /\ main \in {"closed", "stopped"}

(* The exit code that the guest sends.                                     *)
Reported == IF thread["out"] = "off" THEN 1 ELSE child.code

Delivery ==
    /\ HasExit(DownQueue) => Over /\ \A s \in Streams : pipe[s] = 0
    /\ ExitIsLast(DownQueue, Reported)
    /\ HasExit(DownQueue) \/ (HostOpen /\ main # "stopped")
       => \A s \in Streams : Flow(DownQueue, s, shown[s], Left(s))

OutInv ==
    /\ Basics
    /\ Drained
    /\ CliOpen => Delivery
    /\ cli = "done" => Over /\ shown = wrote /\ code = Reported

-----------------------------------------------------------------------------
(* The way up *)

(* The chunks that follow the n-th, up to the last one read, in order, and *)
(* the end of the input after them.                                        *)
Follows(q, n, read, ended) ==
    \/ /\ read = n + Len(q)
       /\ \A i \in 1..Len(q) : q[i] = Data(n + i)
    \/ /\ ended /\ Len(q) > 0 /\ q[Len(q)] = Eof
       /\ read = n + Len(q) - 1
       /\ \A i \in 1..(Len(q) - 1) : q[i] = Data(n + i)

InInv ==
    /\ Basics
    /\ thread["in"] = "blocked" => main \in {"closed", "stopped"}
    /\ main \in {"off", "starting", "serving"} /\ child.st # "exited"
       => Follows(UpQueue, Reached, input.read, input.ended)
    /\ thread["in"] = "ended" /\ child.st = "running" /\ HostOpen /\ main = "serving"
       => input.ended /\ UpQueue = <<>>

-----------------------------------------------------------------------------
(* Two sockets as one queue *)

LEMMA QueueMove ==
  ASSUME NEW S, NEW s \in Seq(S), NEW t \in Seq(S), s # <<>>
  PROVE  Append(t, Head(s)) \o Tail(s) = t \o s
<1> DEFINE a == Append(t, Head(s))
           l == a \o Tail(s)
           r == t \o s
<1>0. Head(s) = s[1]
  OBVIOUS
<1>1. /\ Head(s) \in S /\ Tail(s) \in Seq(S) /\ Len(Tail(s)) = Len(s) - 1
      /\ \A i \in 1..Len(Tail(s)) : Tail(s)[i] = s[i + 1]
  BY HeadTailProperties, Zenon
<1>2. /\ a \in Seq(S) /\ Len(a) = Len(t) + 1 /\ a[Len(t) + 1] = Head(s)
      /\ \A i \in 1..Len(t) : a[i] = t[i]
  BY <1>1, AppendProperties
<1>3. Len(s) \in Nat /\ Len(t) \in Nat
  BY LenProperties
<1> HIDE DEF a
<1>4. /\ l \in Seq(S) /\ Len(l) = Len(t) + Len(s)
      /\ \A i \in 1..Len(t) + Len(s) :
            l[i] = IF i <= Len(t) + 1 THEN a[i] ELSE Tail(s)[i - (Len(t) + 1)]
  <2>1. /\ l \in Seq(S) /\ Len(l) = Len(a) + Len(Tail(s))
        /\ \A i \in 1..Len(a) + Len(Tail(s)) :
              l[i] = IF i <= Len(a) THEN a[i] ELSE Tail(s)[i - Len(a)]
    BY <1>1, <1>2, ConcatProperties
  <2>2. Len(a) + Len(Tail(s)) = Len(t) + Len(s)
    BY <1>1, <1>2, <1>3
  <2> QED BY <1>2, <2>1, <2>2
<1>5. /\ r \in Seq(S) /\ Len(r) = Len(t) + Len(s)
      /\ \A i \in 1..Len(t) + Len(s) : r[i] = IF i <= Len(t) THEN t[i] ELSE s[i - Len(t)]
  BY <1>3, ConcatProperties
<1> HIDE DEF l, r
<1>6. ASSUME NEW i \in 1..Len(l) PROVE l[i] = r[i]
  <2>1. CASE i <= Len(t)
    BY <1>2, <1>3, <1>4, <1>5, <2>1
  <2>2. CASE i = Len(t) + 1
    BY <1>0, <1>2, <1>3, <1>4, <1>5, <2>2
  <2>3. CASE i > Len(t) + 1
    <3> DEFINE k == i - (Len(t) + 1)
    <3>1. k \in 1..Len(Tail(s)) /\ k + 1 = i - Len(t) /\ i \in 1..Len(t) + Len(s)
      BY <1>1, <1>3, <1>4, <2>3
    <3>2. l[i] = Tail(s)[k] /\ r[i] = s[i - Len(t)]
      BY <1>3, <1>4, <1>5, <2>3, <3>1
    <3> QED BY <1>1, <3>1, <3>2
  <2> QED BY <1>3, <1>4, <2>1, <2>2, <2>3
<1>7. l = r
  BY <1>4, <1>5, <1>6, SeqEqual
<1> QED BY <1>7 DEF l, r, a

LEMMA QueueSend ==
  ASSUME NEW S, NEW s \in Seq(S), NEW t \in Seq(S), NEW f \in S
  PROVE  t \o Append(s, f) = Append(t \o s, f) /\ t \o s \in Seq(S)
<1>1. t \o s \in Seq(S) /\ <<f>> \in Seq(S)
  BY ConcatProperties
<1>2. Append(s, f) = s \o <<f>> /\ Append(t \o s, f) = (t \o s) \o <<f>>
  BY <1>1, AppendIsConcat
<1>3. (t \o s) \o <<f>> = t \o (s \o <<f>>)
  BY <1>1, ConcatAssociative
<1> QED BY <1>1, <1>2, <1>3

LEMMA QueueTake ==
  ASSUME NEW S, NEW s \in Seq(S), NEW t \in Seq(S), t # <<>>
  PROVE  /\ t \o s \in Seq(S) /\ t \o s # <<>> /\ Head(t \o s) = Head(t)
         /\ Tail(t \o s) = Tail(t) \o s
<1> DEFINE q == t \o s
           l == Tail(q)
           r == Tail(t) \o s
<1>1. /\ q \in Seq(S) /\ Len(q) = Len(t) + Len(s)
      /\ \A i \in 1..Len(t) + Len(s) : q[i] = IF i <= Len(t) THEN t[i] ELSE s[i - Len(t)]
  BY ConcatProperties
<1>2. Len(t) \in Nat \ {0} /\ Len(s) \in Nat
  BY LenProperties, EmptySeq
<1> HIDE DEF q
<1>3. q # <<>> /\ Head(q) = q[1] /\ Head(t) = t[1] /\ q[1] = t[1]
  BY <1>1, <1>2
<1>4. /\ l \in Seq(S) /\ Len(l) = Len(t) + Len(s) - 1
      /\ \A i \in 1..Len(l) : l[i] = q[i + 1]
  BY <1>1, <1>3, HeadTailProperties
<1>5. /\ Tail(t) \in Seq(S) /\ Len(Tail(t)) = Len(t) - 1
      /\ \A i \in 1..Len(Tail(t)) : Tail(t)[i] = t[i + 1]
  BY HeadTailProperties
<1>6. /\ r \in Seq(S) /\ Len(r) = Len(t) - 1 + Len(s)
      /\ \A i \in 1..Len(t) - 1 + Len(s) :
            r[i] = IF i <= Len(t) - 1 THEN Tail(t)[i] ELSE s[i - (Len(t) - 1)]
  BY <1>2, <1>5, ConcatProperties
<1> HIDE DEF l, r
<1>7. ASSUME NEW i \in 1..Len(l) PROVE l[i] = r[i]
  <2>1. CASE i <= Len(t) - 1
    BY <1>1, <1>2, <1>4, <1>5, <1>6, <2>1
  <2>2. CASE i > Len(t) - 1
    BY <1>1, <1>2, <1>4, <1>5, <1>6, <2>2
  <2> QED BY <1>2, <1>4, <2>1, <2>2
<1>8. l = r
  BY <1>2, <1>4, <1>6, <1>7, SeqEqual
<1> QED BY <1>1, <1>3, <1>8 DEF q, l, r

(* The members of a queue that gets a frame, and of one that gives one.    *)
LEMMA AppendFacts ==
  ASSUME NEW S, NEW q \in Seq(S), NEW f \in S
  PROVE  /\ Append(q, f) \in Seq(S) /\ Len(q) \in Nat /\ Len(Append(q, f)) = Len(q) + 1
         /\ Append(q, f)[Len(q) + 1] = f
         /\ \A i \in 1..Len(q) : Append(q, f)[i] = q[i]
  BY AppendProperties, LenProperties

LEMMA TailFacts ==
  ASSUME NEW S, NEW q \in Seq(S), q # <<>>
  PROVE  /\ Tail(q) \in Seq(S) /\ Len(q) \in Nat \ {0} /\ Len(Tail(q)) = Len(q) - 1
         /\ Head(q) \in S /\ Head(q) = q[1]
         /\ \A i \in 1..(Len(q) - 1) : Tail(q)[i] = q[i + 1]
<1>1. Head(q) = q[1] /\ Len(q) \in Nat \ {0}
  OBVIOUS
<1> QED BY <1>1, HeadTailProperties

(* What is sent and what is received, for the two parts of OutInv.         *)
LEMMA FlowSent ==
  ASSUME NEW q \in Seq(Down), NEW f \in Down, NEW s, NEW printed, NEW n, NEW m,
         f.kind = s => m = f.n,
         f.kind # s => m = n /\ Flow(q, s, printed, n)
  PROVE  Flow(Append(q, f), s, printed, m)
<1> DEFINE p == Append(q, f)
<1>1. /\ Len(q) \in Nat /\ Len(p) = Len(q) + 1 /\ p[Len(q) + 1] = f
      /\ \A i \in 1..Len(q) : p[i] = q[i]
  BY AppendFacts
<1> HIDE DEF p
<1>2. \A i : i \in 1..Len(p) <=> i \in 1..Len(q) \/ i = Len(q) + 1
  BY <1>1
<1>3. CASE f.kind = s
  <2>1. ~(\A i \in 1..Len(p) : p[i].kind # s)
    BY <1>1, <1>2, <1>3
  <2>2. ASSUME NEW i \in 1..Len(p), p[i].kind = s, \A j \in (i + 1)..Len(p) : p[j].kind # s
        PROVE  p[i].n = m
    <3>1. i = Len(q) + 1
      BY <1>1, <1>3, <2>2
    <3> QED BY <1>1, <1>3, <3>1
  <2>3. Flow(p, s, printed, m)
    BY <2>1, <2>2 DEF Flow
  <2> QED BY <2>3 DEF p
<1>4. CASE f.kind # s
  <2>1. (\A i \in 1..Len(p) : p[i].kind # s) => printed = m
    BY <1>1, <1>2, <1>4 DEF Flow
  <2>2. ASSUME NEW i \in 1..Len(p), p[i].kind = s, \A j \in (i + 1)..Len(p) : p[j].kind # s
        PROVE  p[i].n = m
    <3>1. i \in 1..Len(q) /\ p[i] = q[i]
      BY <1>1, <1>2, <1>4, <2>2
    <3>2. \A j \in (i + 1)..Len(q) : q[j].kind # s
      <4>1. \A j \in (i + 1)..Len(q) : j \in (i + 1)..Len(p) /\ j \in 1..Len(q)
        BY <1>1, <3>1
      <4> QED BY <1>1, <2>2, <4>1
    <3> QED BY <1>4, <2>2, <3>1, <3>2 DEF Flow
  <2>3. Flow(p, s, printed, m)
    BY <2>1, <2>2 DEF Flow
  <2> QED BY <2>3 DEF p
<1> QED BY <1>3, <1>4

LEMMA FlowReceived ==
  ASSUME NEW q \in Seq(Down), q # <<>>, NEW s, NEW printed, NEW n, Flow(q, s, printed, n)
  PROVE  Flow(Tail(q), s, IF Head(q).kind = s THEN Head(q).n ELSE printed, n)
<1> DEFINE p == Tail(q)
           now == IF Head(q).kind = s THEN Head(q).n ELSE printed
<1>1. /\ Len(q) \in Nat \ {0} /\ Len(p) = Len(q) - 1 /\ Head(q) = q[1]
      /\ \A i \in 1..(Len(q) - 1) : p[i] = q[i + 1]
  BY TailFacts
<1> HIDE DEF p
<1>2. (\A i \in 1..Len(p) : p[i].kind # s) => now = n
  <2> SUFFICES ASSUME \A i \in 1..Len(p) : p[i].kind # s PROVE now = n
    OBVIOUS
  <2>1. \A j \in 2..Len(q) : j - 1 \in 1..Len(p) /\ q[j] = p[j - 1]
    BY <1>1
  <2>2. \A j \in 2..Len(q) : q[j].kind # s
    BY <2>1
  <2>3. \A j \in 1..Len(q) : j = 1 \/ j \in 2..Len(q)
    BY <1>1
  <2>4. 1 \in 1..Len(q) /\ 1 + 1 = 2
    BY <1>1
  <2>5. CASE q[1].kind = s
    BY <1>1, <2>2, <2>4, <2>5 DEF Flow
  <2>6. CASE q[1].kind # s
    BY <1>1, <2>2, <2>3, <2>6 DEF Flow
  <2> QED BY <2>5, <2>6
<1>3. ASSUME NEW i \in 1..Len(p), p[i].kind = s, \A j \in (i + 1)..Len(p) : p[j].kind # s
      PROVE  p[i].n = n
  <2>1. i + 1 \in 1..Len(q) /\ p[i] = q[i + 1]
    BY <1>1
  <2>2. \A j \in (i + 1 + 1)..Len(q) : q[j].kind # s
    <3>1. \A j \in (i + 1 + 1)..Len(q) : j - 1 \in (i + 1)..Len(p) /\ q[j] = p[j - 1]
      BY <1>1
    <3> QED BY <1>3, <3>1
  <2> QED BY <1>3, <2>1, <2>2 DEF Flow
<1>4. Flow(p, s, now, n)
  BY <1>2, <1>3 DEF Flow
<1> QED BY <1>4 DEF p

LEMMA ExitSent ==
  ASSUME NEW q \in Seq(Down), NEW f \in Down, NEW n, ~HasExit(q)
  PROVE  /\ HasExit(Append(q, f)) <=> f.kind = "exit"
         /\ (f.kind = "exit" => f.n = n) => ExitIsLast(Append(q, f), n)
<1> DEFINE p == Append(q, f)
<1>1. /\ Len(q) \in Nat /\ Len(p) = Len(q) + 1 /\ p[Len(q) + 1] = f
      /\ \A i \in 1..Len(q) : p[i] = q[i]
  BY AppendFacts
<1> HIDE DEF p
<1>2. \A i : i \in 1..Len(p) <=> i \in 1..Len(q) \/ i = Len(q) + 1
  BY <1>1
<1>3. /\ HasExit(p) <=> f.kind = "exit"
      /\ (f.kind = "exit" => f.n = n) => ExitIsLast(p, n)
  BY <1>1, <1>2 DEF HasExit, ExitIsLast
<1> QED BY <1>3 DEF p

LEMMA ExitReceived ==
  ASSUME NEW q \in Seq(Down), q # <<>>, NEW n, ExitIsLast(q, n)
  PROVE  /\ ExitIsLast(Tail(q), n)
         /\ HasExit(Tail(q)) => HasExit(q)
         /\ HasExit(q) /\ Head(q).kind # "exit" => HasExit(Tail(q))
         /\ Head(q).kind = "exit" => Tail(q) = <<>> /\ Len(q) = 1 /\ Head(q).n = n /\ HasExit(q)
<1> DEFINE p == Tail(q)
<1>1. /\ Len(q) \in Nat \ {0} /\ Len(p) = Len(q) - 1 /\ Head(q) = q[1] /\ p \in Seq(Down)
      /\ \A i \in 1..(Len(q) - 1) : p[i] = q[i + 1]
  BY TailFacts
<1> HIDE DEF p
<1>2. /\ \A i \in 1..Len(p) : i + 1 \in 1..Len(q) /\ p[i] = q[i + 1] /\ (i + 1 = Len(q) => i = Len(p))
      /\ \A i \in 1..Len(q) : i = 1 \/ (i - 1 \in 1..Len(p) /\ p[i - 1] = q[i])
  BY <1>1
<1>3. ExitIsLast(p, n)
  BY <1>2 DEF ExitIsLast
<1>4. HasExit(p) => HasExit(q)
  BY <1>2 DEF HasExit
<1>5. HasExit(q) /\ Head(q).kind # "exit" => HasExit(p)
  BY <1>1, <1>2 DEF HasExit
<1>6. Head(q).kind = "exit" => Len(q) = 1 /\ Head(q).n = n /\ HasExit(q)
  BY <1>1 DEF ExitIsLast, HasExit
<1>7. Len(q) = 1 => p = <<>>
  BY <1>1
<1> QED BY <1>3, <1>4, <1>5, <1>6, <1>7 DEF p

(* The same for InInv.                                                     *)
LEMMA InputSent ==
  ASSUME NEW q \in Seq(Up), NEW n \in Int, NEW read \in Int, Follows(q, n, read, FALSE)
  PROVE  /\ Follows(Append(q, Data(read + 1)), n, read + 1, FALSE)
         /\ Follows(Append(q, Eof), n, read, TRUE)
         /\ Follows(q, n, read, TRUE)
<1>1. /\ Len(q) \in Nat /\ read = n + Len(q)
      /\ \A i \in 1..Len(q) : q[i] = Data(n + i)
  BY LenProperties DEF Follows
<1>2. Follows(Append(q, Data(read + 1)), n, read + 1, FALSE)
  <2> DEFINE p == Append(q, Data(read + 1))
  <2>1. Data(read + 1) \in Up
    BY DEF Up, Data, Frame
  <2>2. /\ Len(p) = Len(q) + 1 /\ p[Len(q) + 1] = Data(read + 1)
        /\ \A i \in 1..Len(q) : p[i] = q[i]
    BY <2>1, AppendFacts
  <2> HIDE DEF p
  <2>3. \A i \in 1..Len(p) : p[i] = Data(n + i)
    <3>1. \A i \in 1..Len(p) : i \in 1..Len(q) \/ i = Len(q) + 1
      BY <1>1, <2>2
    <3>2. n + (Len(q) + 1) = read + 1
      BY <1>1
    <3> QED BY <1>1, <2>2, <3>1, <3>2
  <2>4. read + 1 = n + Len(p)
    BY <1>1, <2>2
  <2>5. Follows(p, n, read + 1, FALSE)
    BY <2>3, <2>4 DEF Follows
  <2> QED BY <2>5 DEF p
<1>3. Follows(Append(q, Eof), n, read, TRUE)
  <2> DEFINE p == Append(q, Eof)
  <2>1. Eof \in Up
    BY DEF Up, Eof, Frame
  <2>2. /\ Len(p) = Len(q) + 1 /\ p[Len(q) + 1] = Eof
        /\ \A i \in 1..Len(q) : p[i] = q[i]
    BY <2>1, AppendFacts
  <2> HIDE DEF p
  <2>3. /\ Len(p) > 0 /\ p[Len(p)] = Eof /\ read = n + Len(p) - 1
        /\ \A i \in 1..(Len(p) - 1) : p[i] = Data(n + i)
    BY <1>1, <2>2
  <2>4. Follows(p, n, read, TRUE)
    BY <2>3 DEF Follows
  <2> QED BY <2>4 DEF p
<1>4. Follows(q, n, read, TRUE)
  BY <1>1 DEF Follows
<1> QED BY <1>2, <1>3, <1>4

LEMMA InputTaken ==
  ASSUME NEW q \in Seq(Up), q # <<>>, NEW n \in Int, NEW read \in Int, NEW ended \in BOOLEAN,
         Follows(q, n, read, ended)
  PROVE  /\ Head(q).kind = "in" => Follows(Tail(q), n + 1, read, ended)
         /\ Head(q).kind = "eof" => ended /\ Tail(q) = <<>> /\ Follows(Tail(q), n, read, ended)
<1> DEFINE p == Tail(q)
<1>1. /\ Len(q) \in Nat \ {0} /\ Len(p) = Len(q) - 1 /\ Head(q) = q[1] /\ p \in Seq(Up)
      /\ \A i \in 1..(Len(q) - 1) : p[i] = q[i + 1]
  BY TailFacts
<1> HIDE DEF p
<1>2. /\ \A i : Data(i).kind = "in"
      /\ Eof.kind = "eof"
  BY DEF Data, Eof, Frame
<1>3. CASE read = n + Len(q) /\ \A i \in 1..Len(q) : q[i] = Data(n + i)
  <2>1. Head(q).kind = "in"
    BY <1>1, <1>2, <1>3
  <2>2. read = n + 1 + Len(p)
    BY <1>1, <1>3
  <2>3. \A i \in 1..Len(p) : p[i] = Data(n + 1 + i)
    <3>1. \A i \in 1..Len(p) : i + 1 \in 1..Len(q) /\ p[i] = q[i + 1] /\ n + (i + 1) = n + 1 + i
      BY <1>1
    <3>2. \A i \in 1..Len(p) : q[i + 1] = Data(n + (i + 1))
      BY <1>3, <3>1
    <3> QED BY <3>1, <3>2
  <2>4. Follows(p, n + 1, read, ended)
    BY <2>2, <2>3 DEF Follows
  <2> QED BY <2>1, <2>4 DEF p
<1>4. CASE /\ ended /\ Len(q) > 0 /\ q[Len(q)] = Eof /\ read = n + Len(q) - 1
           /\ \A i \in 1..(Len(q) - 1) : q[i] = Data(n + i)
  <2>1. CASE Len(q) = 1
    <3>1. Head(q).kind = "eof" /\ Len(p) = 0 /\ read = n + Len(p)
      BY <1>1, <1>2, <1>4, <2>1
    <3>2. p = <<>>
      BY <1>1, <3>1
    <3>3. Follows(p, n, read, ended)
      BY <3>1 DEF Follows
    <3> QED BY <1>4, <3>1, <3>2, <3>3 DEF p
  <2>2. CASE Len(q) > 1
    <3>1. Head(q).kind = "in"
      BY <1>1, <1>2, <1>4, <2>2
    <3>2. Len(p) > 0 /\ p[Len(p)] = q[Len(q)] /\ read = n + 1 + Len(p) - 1
      BY <1>1, <1>4, <2>2
    <3>3. \A i \in 1..(Len(p) - 1) : p[i] = Data(n + 1 + i)
      <4>1. \A i \in 1..(Len(p) - 1) :
               /\ i + 1 \in 1..(Len(q) - 1) /\ i \in 1..(Len(q) - 1)
               /\ n + (i + 1) = n + 1 + i
        BY <1>1
      <4>2. \A i \in 1..(Len(p) - 1) : q[i + 1] = Data(n + (i + 1))
        BY <1>4, <4>1
      <4> QED BY <1>1, <4>1, <4>2
    <3>4. Follows(p, n + 1, read, ended)
      BY <1>4, <3>2, <3>3 DEF Follows
    <3> QED BY <3>1, <3>4 DEF p
  <2> QED BY <1>1, <2>1, <2>2
<1> QED BY <1>3, <1>4 DEF Follows

-----------------------------------------------------------------------------
(* Types, and what holds before the guest serves.                          *)
LEMMA BasicsInit == Init => Basics
  BY DEF Init, ProxyInit, Basics, Types, Early, Streams, Threads, InputType, ChildType, PipeType,
         ThreadType, RelayType

LEMMA TypesNext ==
  ASSUME Basics, Next
  PROVE  Types'
<1>0. Types
  BY DEF Basics
<1>1. /\ Frame("error", 0) \in Down /\ Frame("ready", 0) \in Down
      /\ \A n \in Int : Frame("exit", n) \in Down /\ \A s \in Streams : Frame(s, n) \in Down
      /\ \A n \in Int : Data(n) \in Up
      /\ Eof \in Up
  BY DEF Down, Up, Frame, Data, Eof, Streams
<1>2. /\ \A q \in Seq(Down), f \in Down : Append(q, f) \in Seq(Down)
      /\ \A q \in Seq(Up), f \in Up : Append(q, f) \in Seq(Up)
      /\ \A q \in Seq(Down) : q # <<>> => Head(q) \in Down /\ Tail(q) \in Seq(Down)
      /\ \A q \in Seq(Up) : q # <<>> => Head(q) \in Up /\ Tail(q) \in Seq(Up)
      /\ <<>> \in Seq(Down) /\ <<>> \in Seq(Up)
  BY AppendFacts, TailFacts
<1>3. ASSUME UNCHANGED <<cli, input, shown, wrote, relay, main, thread, child, pipe>>,
             vmUp' \in Seq(Up), cliUp' \in Seq(Up), vmDown' \in Seq(Down), cliDown' \in Seq(Down)
      PROVE  Types'
  BY <1>0, <1>3 DEF Types
<1>4. vmUp \in Seq(Up) /\ cliUp \in Seq(Up) /\ vmDown \in Seq(Down) /\ cliDown \in Seq(Down)
  BY <1>0 DEF Types
<1>5. \A f \in Down : Send(f) => vmDown' \in Seq(Down)
  BY <1>2, <1>4 DEF Send
<1>6. child \in ChildType /\ pipe \in PipeType /\ thread \in ThreadType /\ relay \in RelayType
      /\ input \in InputType /\ wrote \in [Streams -> Int]
  BY <1>0 DEF Types
<1>7. /\ \A st \in {"none", "running", "exited"} : [child EXCEPT !.st = st] \in ChildType
      /\ [child EXCEPT !.owes = 0] \in ChildType /\ [child EXCEPT !.owes = 1] \in ChildType
      /\ [child EXCEPT !.st = "exited", !.heir = FALSE] \in ChildType
      /\ [child EXCEPT !.heir = FALSE] \in ChildType
      /\ \A c \in Codes, h \in BOOLEAN :
            [child EXCEPT !.st = "exited", !.code = c, !.heir = h] \in ChildType
      /\ child.code \in Int /\ 1 \in Int
  <2>1. Codes \subseteq Int /\ child \in ChildType
    BY <1>6, ExecAssumption
  <2>2. \A st \in {"none", "running", "exited"} : [child EXCEPT !.st = st] \in ChildType
    BY <2>1 DEF ChildType
  <2>3. [child EXCEPT !.owes = 0] \in ChildType /\ [child EXCEPT !.owes = 1] \in ChildType
    BY <2>1 DEF ChildType
  <2>4. child.code \in Int /\ 1 \in Int
    BY <2>1 DEF ChildType
  <2>5. \A h \in BOOLEAN : [child EXCEPT !.heir = h] \in ChildType
    BY <2>1 DEF ChildType
  <2>6. \A h \in BOOLEAN : [child EXCEPT !.st = "exited", !.heir = h] \in ChildType
    BY <2>1 DEF ChildType
  <2>7. ASSUME NEW c \in Codes, NEW h \in BOOLEAN
        PROVE  [child EXCEPT !.st = "exited", !.code = c, !.heir = h] \in ChildType
    BY <2>1 DEF ChildType
  <2> QED BY <2>2, <2>3, <2>4, <2>5, <2>6, <2>7
<1>8. /\ \A t \in {"in"} \cup Streams :
            /\ [pipe EXCEPT ![t] = pipe[t] + 1] \in PipeType
            /\ [pipe EXCEPT ![t] = pipe[t] - 1] \in PipeType
            /\ [pipe EXCEPT ![t] = 1] \in PipeType
      /\ [t \in DOMAIN pipe |-> 0] \in PipeType
  BY <1>6 DEF PipeType
<1>9. /\ \A s \in Streams : wrote[s] - pipe[s] + 1 \in Int
      /\ \A s \in Streams : [wrote EXCEPT ![s] = wrote[s] + 1] \in [Streams -> Int]
  <2>1. \A s \in Streams : wrote[s] - pipe[s] + 1 \in Int
    BY <1>6 DEF PipeType
  <2>2. \A s \in Streams : wrote[s] + 1 \in Int
    BY <1>6
  <2>3. \A s \in Streams : [wrote EXCEPT ![s] = wrote[s] + 1] \in [Streams -> Int]
    BY <1>6, <2>2
  <2> QED BY <2>1, <2>3
<1>10. /\ \A t \in {"in"} \cup Streams, st \in {"off", "reading", "blocked", "ended"} :
             [thread EXCEPT ![t] = st] \in ThreadType
       /\ \A S : [t \in DOMAIN thread |-> IF t \in S THEN "reading" ELSE "ended"] \in ThreadType
       /\ [t \in DOMAIN thread |-> IF t = "err" THEN "reading" ELSE "ended"] \in ThreadType
       /\ [t \in DOMAIN thread |-> IF thread[t] = "off" THEN "off" ELSE "ended"] \in ThreadType
  BY <1>6 DEF ThreadType
<1>11. /\ \A t \in Threads : [relay EXCEPT ![t] = "ended"] \in RelayType
       /\ [t \in Threads |-> "copying"] \in RelayType /\ [t \in Threads |-> "ended"] \in RelayType
       /\ "A" \in Threads /\ "B" \in Threads
  BY <1>6 DEF RelayType, Threads
<1>12. CASE DaemonConnects \/ DaemonRefuses
  <2>1. cliDown' \in Seq(Down)
    BY <1>1, <1>2, <1>4, <1>12 DEF DaemonConnects, DaemonRefuses, host
  <2>2. relay' \in RelayType
    BY <1>11, <1>12 DEF DaemonConnects, DaemonRefuses
  <2> QED BY <1>0, <1>12, <2>1, <2>2 DEF Types, DaemonConnects, DaemonRefuses, host
<1>13. CASE RelayUp \/ RelayDown
  <2>1. \/ CopyUp(CliOpen, GuestOpen) \/ CopyDown(CliOpen, GuestOpen)
    BY <1>13 DEF RelayUp, RelayDown
  <2>2. vmUp' \in Seq(Up) /\ cliUp' \in Seq(Up)
    <3>1. cliUp # <<>> => Head(cliUp) \in Up
      BY <1>2, <1>4
    <3>2. cliUp # <<>> => Append(vmUp, Head(cliUp)) \in Seq(Up) /\ Tail(cliUp) \in Seq(Up)
      BY <1>2, <1>4, <3>1
    <3> QED BY <1>4, <2>1, <3>2 DEF CopyUp, CopyDown
  <2>3. vmDown' \in Seq(Down) /\ cliDown' \in Seq(Down)
    <3>1. vmDown # <<>> => Head(vmDown) \in Down
      BY <1>2, <1>4
    <3>2. vmDown # <<>> => Append(cliDown, Head(vmDown)) \in Seq(Down) /\ Tail(vmDown) \in Seq(Down)
      BY <1>2, <1>4, <3>1
    <3> QED BY <1>4, <2>1, <3>2 DEF CopyUp, CopyDown
  <2>4. relay' \in RelayType
    BY <1>6, <1>11, <2>1 DEF CopyUp, CopyDown
  <2> QED BY <1>0, <1>13, <2>2, <2>3, <2>4 DEF Types, RelayUp, RelayDown, guest
<1>14. CASE VmStops
  BY <1>0, <1>2, <1>7, <1>8, <1>10, <1>14 DEF Types, VmStops, host
<1>15. CASE DaemonExits
  BY <1>0, <1>2, <1>11, <1>15 DEF Types, DaemonExits, CopyingEnds, guest
<1>16. CASE CliReadsStdin
  <2>1. Data(input.read + 1) \in Up
    BY <1>1, <1>6 DEF InputType
  <2>2. cliUp' \in Seq(Up)
    BY <1>1, <1>2, <1>4, <1>16, <2>1 DEF CliReadsStdin
  <2>3. [input EXCEPT !.read = input.read + 1] \in InputType
    BY <1>6 DEF InputType
  <2>4. [input EXCEPT !.ended = TRUE] \in InputType
    BY <1>6 DEF InputType
  <2> QED BY <1>0, <1>16, <2>2, <2>3, <2>4 DEF Types, CliReadsStdin, guest
<1>17. CASE CliReceives
  <2>1. Head(cliDown) \in Down /\ Tail(cliDown) \in Seq(Down)
    BY <1>2, <1>4, <1>17 DEF CliReceives
  <2>2. Head(cliDown).n \in Int
    BY <2>1 DEF Down
  <2>3. shown' \in [Streams -> Int] /\ cli' \in {"waiting", "running", "done", "failed", "killed"}
    BY <1>0, <1>17, <2>2 DEF Types, CliReceives
  <2> QED BY <1>0, <1>17, <2>1, <2>3 DEF Types, CliReceives, guest
<1>18. CASE CliSeesEnd \/ CliKilled
  BY <1>0, <1>2, <1>18 DEF Types, CliSeesEnd, CliKilled, guest, sockets
<1>19. CASE ExecRefused
  BY <1>0, <1>1, <1>5, <1>19 DEF Types, ExecRefused, host
<1>20. CASE ExecStarts
  BY <1>0, <1>1, <1>5, <1>7, <1>10, <1>20 DEF Types, ExecStarts, host
<1>20a. CASE ExecDupFails
  BY <1>0, <1>1, <1>5, <1>7, <1>20a DEF Types, ExecDupFails, host
<1>21. CASE ExecSpawnFails
  <2>1. pipe' \in PipeType /\ child' \in ChildType /\ thread' \in ThreadType
    BY <1>7, <1>8, <1>10, <1>21 DEF ExecSpawnFails, Streams
  <2>2. wrote' \in [Streams -> Int]
    <3>1. wrote' = [wrote EXCEPT !["err"] = 1]
      BY <1>21 DEF ExecSpawnFails
    <3>2. "err" \in Streams /\ wrote \in [Streams -> Int] /\ 1 \in Int
      BY <1>6 DEF Streams
    <3> QED BY <3>1, <3>2
  <2> QED BY <1>0, <1>1, <1>5, <1>21, <2>1, <2>2 DEF Types, ExecSpawnFails, host
<1>22. CASE StdinForward
  <2>1. vmUp' \in Seq(Up)
    BY <1>2, <1>4, <1>22 DEF StdinForward
  <2>2. pipe' \in PipeType
    <3>1. pipe' \in {pipe, [pipe EXCEPT !["in"] = pipe["in"] + 1]}
      BY <1>22 DEF StdinForward
    <3>2. [pipe EXCEPT !["in"] = pipe["in"] + 1] \in PipeType
      BY <1>6 DEF PipeType
    <3> QED BY <1>6, <3>1, <3>2
  <2>3. thread' \in ThreadType
    BY <1>10, <1>22 DEF StdinForward
  <2> QED BY <1>0, <1>22, <2>1, <2>2, <2>3 DEF Types, StdinForward, host
<1>23. CASE StdinLost
  BY <1>0, <1>10, <1>23 DEF Types, StdinLost, host
<1>24. ASSUME NEW s \in Streams, OutForward(s) \/ OutEnds(s) PROVE Types'
  <2>1. Append(vmDown, Frame(s, wrote[s] - pipe[s] + 1)) \in Seq(Down)
    BY <1>1, <1>2, <1>4, <1>9
  <2>2. vmDown' \in Seq(Down)
    BY <1>4, <1>24, <2>1 DEF OutForward, OutEnds
  <2>3. pipe' \in PipeType
    BY <1>6, <1>8, <1>24 DEF OutForward, OutEnds
  <2>4. thread' \in ThreadType
    BY <1>6, <1>10, <1>24 DEF OutForward, OutEnds
  <2> QED BY <1>0, <1>24, <2>2, <2>3, <2>4 DEF Types, OutForward, OutEnds, host
<1>25. CASE ExecEnds
  <2>1. vmDown' \in Seq(Down)
    <3>1. (IF Deaf THEN 1 ELSE child.code) \in Int
      BY <1>7
    <3> QED BY <1>1, <1>5, <1>25, <3>1 DEF ExecEnds, ExitAndClose
  <2>2. thread' \in ThreadType
    <3>1. \A st \in {"blocked", "ended"} : [thread EXCEPT !["in"] = st] \in ThreadType
      BY <1>10
    <3> QED BY <1>6, <1>25, <3>1 DEF ExecEnds, ExitAndClose
  <2> QED BY <1>0, <1>25, <2>1, <2>2 DEF Types, ExecEnds, ExitAndClose, host
<1>26. CASE ChildReads
  BY <1>0, <1>7, <1>8, <1>26 DEF Types, ChildReads, host
<1>27. CASE ChildWrites
  <2>1. PICK s \in Streams : /\ pipe' = [pipe EXCEPT ![s] = pipe[s] + 1]
                             /\ wrote' = [wrote EXCEPT ![s] = wrote[s] + 1]
    BY <1>27 DEF ChildWrites, Outputs, Streams
  <2>2. pipe' \in PipeType /\ wrote' \in [Streams -> Int]
    BY <1>8, <1>9, <2>1
  <2>3. child' \in ChildType
    BY <1>7, <1>27 DEF ChildWrites
  <2> QED BY <1>0, <1>27, <2>2, <2>3 DEF Types, ChildWrites, host
<1>28. CASE ChildExits
  <2>1. child' \in ChildType
    <3>1. PICK c \in Codes, h \in BOOLEAN :
             child' = [child EXCEPT !.st = "exited", !.code = c, !.heir = h]
      BY <1>28 DEF ChildExits
    <3> QED BY <1>7, <3>1
  <2> QED BY <1>0, <1>28, <2>1 DEF Types, ChildExits, host
<1>29. CASE HeirWrites
  <2>1. PICK s \in Streams : /\ pipe' = [pipe EXCEPT ![s] = pipe[s] + 1]
                             /\ wrote' = [wrote EXCEPT ![s] = wrote[s] + 1]
    BY <1>29 DEF HeirWrites, Outputs, Streams
  <2>2. pipe' \in PipeType /\ wrote' \in [Streams -> Int]
    BY <1>8, <1>9, <2>1
  <2> QED BY <1>0, <1>29, <2>2 DEF Types, HeirWrites, host
<1>30. CASE HeirReads
  BY <1>0, <1>8, <1>30 DEF Types, HeirReads, host
<1>31. CASE HeirEnds
  BY <1>0, <1>7, <1>31 DEF Types, HeirEnds, host
<1> QED BY <1>12, <1>13, <1>14, <1>15, <1>16, <1>17, <1>18, <1>19, <1>20, <1>20a, <1>21, <1>22, <1>23,
           <1>24, <1>25, <1>26, <1>27, <1>28, <1>29, <1>30, <1>31 DEF Next

LEMMA EarlyNext ==
  ASSUME Basics, Next
  PROVE  Early'
<1>0. /\ Early /\ relay \in RelayType /\ thread \in ThreadType /\ pipe \in PipeType
      /\ child \in ChildType /\ "in" \in {"in"} \cup Streams
  BY DEF Basics, Types
<1>1. ASSUME relay["A"] = "off"
      PROVE  \A t \in {"in"} \cup Streams : thread[t] \in {"off", "ended"}
  BY <1>0, <1>1 DEF Early
<1>2. CASE DaemonConnects
  BY <1>0, <1>2 DEF Early, DaemonConnects, Threads
<1>3. CASE DaemonRefuses
  BY <1>0, <1>3 DEF Early, DaemonRefuses, Threads
<1>4. CASE RelayUp \/ RelayDown
  <2>1. relay'["A"] = "off" => relay["A"] = "off"
    BY <1>0, <1>4 DEF RelayUp, RelayDown, CopyUp, CopyDown, RelayType, Threads
  <2>2. relay["A"] # "off"
    BY <1>0, <1>4 DEF Early, RelayUp, RelayDown, CopyUp, CopyDown
  <2> QED BY <1>0, <1>4, <2>1, <2>2 DEF Early, RelayUp, RelayDown, guest
<1>5. CASE VmStops
  <2>1. child'.st = "exited" /\ child'.heir = FALSE
    BY <1>0, <1>5 DEF VmStops, ChildType
  <2>2. main' = "stopped" /\ UNCHANGED <<relay, vmDown, cliDown>>
    BY <1>5 DEF VmStops, host
  <2>3. \A t \in {"in"} \cup Streams : thread'[t] \in {"off", "ended"}
    BY <1>0, <1>5 DEF VmStops, ThreadType
  <2> QED BY <1>0, <2>1, <2>2, <2>3 DEF Early
<1>6. CASE DaemonExits
  BY <1>0, <1>6 DEF Early, DaemonExits, CopyingEnds, guest, Threads
<1>7. CASE CliReadsStdin \/ CliReceives \/ CliSeesEnd \/ CliKilled
  <2>1. UNCHANGED <<relay, main, thread, child, pipe, wrote, vmDown>>
    BY <1>7 DEF CliReadsStdin, CliReceives, CliSeesEnd, CliKilled, guest, sockets
  <2>2. cliDown = <<>> => cliDown' = <<>>
    BY <1>7 DEF CliReadsStdin, CliReceives, CliSeesEnd, CliKilled, sockets
  <2> QED BY <1>0, <2>1, <2>2 DEF Early
<1>8. CASE ExecRefused \/ ExecStarts \/ ExecDupFails \/ ExecSpawnFails
  <2>1. UNCHANGED relay /\ main = "starting" /\ main' \in {"closed", "serving"}
        /\ (main' = "closed" => UNCHANGED thread)
    BY <1>8 DEF ExecRefused, ExecStarts, ExecDupFails, ExecSpawnFails
  <2>2. child'.heir = child.heir
    BY <1>0, <1>8 DEF ExecRefused, ExecStarts, ExecDupFails, ExecSpawnFails, ChildType
  <2>3. main' = "closed" => UNCHANGED child
    BY <1>8 DEF ExecRefused, ExecStarts, ExecDupFails, ExecSpawnFails
  <2> QED BY <1>0, <2>1, <2>2, <2>3 DEF Early
<1>9. CASE StdinForward \/ StdinLost
  <2>1. UNCHANGED <<relay, main, child, wrote, vmDown, cliDown>> /\ thread["in"] \in {"reading", "blocked"}
    BY <1>9 DEF StdinForward, StdinLost, host
  <2>2. main \notin {"off", "starting", "stopped"} /\ relay["A"] # "off"
    BY <1>0, <1>1, <2>1 DEF Early
  <2>3. \A s \in Streams : thread'[s] = thread[s]
    BY <1>0, <1>9 DEF StdinForward, StdinLost, ThreadType, Streams
  <2> QED BY <1>0, <2>1, <2>2, <2>3 DEF Early
<1>10. ASSUME NEW s \in Streams, OutForward(s) \/ OutEnds(s) PROVE Early'
  <2>1. UNCHANGED <<relay, main, child>> /\ thread[s] = "reading"
    BY <1>10 DEF OutForward, OutEnds
  <2>2. main \notin {"off", "starting", "stopped", "closed"} /\ relay["A"] # "off"
    BY <1>0, <1>1, <2>1 DEF Early
  <2> QED BY <1>0, <2>1, <2>2 DEF Early
<1>11. CASE ExecEnds
  <2>1. UNCHANGED <<relay, child>> /\ main = "serving" /\ main' = "closed"
        /\ child.st = "exited" /\ \A s \in Streams : thread[s] \in {"off", "ended"}
    BY <1>11 DEF ExecEnds, ExitAndClose
  <2>2. \A s \in Streams : thread'[s] = thread[s]
    BY <1>0, <1>11 DEF ExecEnds, ExitAndClose, ThreadType, Streams
  <2> QED BY <1>0, <2>1, <2>2 DEF Early
<1>12. CASE ChildReads \/ ChildWrites \/ ChildExits
  <2>1. UNCHANGED <<relay, main, thread, vmDown, cliDown>> /\ child.st = "running"
    BY <1>12 DEF ChildReads, ChildWrites, ChildExits, host
  <2>2. main \notin {"off", "starting", "stopped", "closed"} /\ relay["A"] # "off"
    BY <1>0, <2>1 DEF Early
  <2>3. main = "serving"
    BY <2>2 DEF Basics, Types
  <2>4. child'.heir => child'.st = "exited"
    BY <1>0, <1>12, <2>1 DEF ChildReads, ChildWrites, ChildExits, ChildType, Early
  <2> QED BY <2>1, <2>2, <2>3, <2>4 DEF Early
<1>13. CASE HeirWrites \/ HeirReads \/ HeirEnds
  <2>1. UNCHANGED <<relay, main, thread, vmDown, cliDown>> /\ child.heir
    BY <1>13 DEF HeirWrites, HeirReads, HeirEnds, host
  <2>2. main \in {"serving", "closed"} /\ child.st = "exited" /\ relay["A"] # "off"
    BY <1>0, <2>1 DEF Early
  <2>3. child'.st = child.st
    BY <1>0, <1>13 DEF HeirWrites, HeirReads, HeirEnds, ChildType
  <2> QED BY <1>0, <2>1, <2>2, <2>3 DEF Early
<1> QED BY <1>2, <1>3, <1>4, <1>5, <1>6, <1>7, <1>8, <1>9, <1>10, <1>11, <1>12, <1>13 DEF Next

LEMMA BasicsNext ==
  ASSUME Basics, [Next]_vars
  PROVE  Basics'
<1>1. CASE Next
  BY <1>1, TypesNext, EarlyNext DEF Basics
<1>2. CASE UNCHANGED vars
  BY <1>2 DEF vars, Basics, Types, Early
<1> QED BY <1>1, <1>2

(* The daemon does not come back.                                          *)
LEMMA HostStaysClosed ==
  ASSUME Basics, Next, HostOpen'
  PROVE  HostOpen
<1>0. Early /\ relay \in RelayType
  BY DEF Basics, Types
<1>1. CASE UNCHANGED relay
  BY <1>1 DEF HostOpen
<1>2. CASE RelayUp \/ RelayDown
  BY <1>0, <1>2 DEF RelayUp, RelayDown, CopyUp, CopyDown, HostOpen, RelayType, Threads
<1>3. CASE DaemonConnects \/ DaemonRefuses \/ DaemonExits
  BY <1>0, <1>3 DEF DaemonConnects, DaemonRefuses, DaemonExits, CopyingEnds, HostOpen
<1> QED BY <1>1, <1>2, <1>3
        DEF Next, VmStops, CliReadsStdin, CliReceives, CliSeesEnd, CliKilled, ExecRefused, ExecStarts,
            ExecDupFails, ExecSpawnFails, StdinForward, StdinLost, OutForward, OutEnds, ExecEnds,
            ExitAndClose, ChildReads, ChildWrites, ChildExits, HeirWrites, HeirReads, HeirEnds

-----------------------------------------------------------------------------
(* The way up *)

LEMMA InInvInit == Init => InInv
<1> SUFFICES ASSUME Init PROVE InInv
  OBVIOUS
<1>1. Basics
  BY BasicsInit
<1>2. thread["in"] = "off"
  BY DEF Init
<1>3. UpQueue = <<>> /\ Len(UpQueue) = 0
  BY DEF Init, ProxyInit, UpQueue
<1>4. Reached = 0 /\ input.read = 0
  BY DEF Init, Reached, Streams
<1>5. Follows(UpQueue, Reached, input.read, input.ended)
  BY <1>3, <1>4 DEF Follows
<1> QED BY <1>1, <1>2, <1>5 DEF InInv

(* The guest's stdin thread is within reach of the user's input.           *)
Region == main \in {"off", "starting", "serving"} /\ child.st # "exited"

LEMMA InTypes ==
  ASSUME Basics
  PROVE  /\ vmUp \in Seq(Up) /\ cliUp \in Seq(Up) /\ UpQueue \in Seq(Up)
         /\ input \in InputType /\ input.read \in Int /\ input.ended \in BOOLEAN
         /\ Reached \in Int
         /\ thread \in ThreadType /\ pipe \in PipeType /\ child \in ChildType
<1>1. /\ vmUp \in Seq(Up) /\ cliUp \in Seq(Up) /\ input \in InputType
      /\ thread \in ThreadType /\ pipe \in PipeType /\ child \in ChildType
      /\ wrote \in [Streams -> Int]
  BY DEF Basics, Types
<1>2. UpQueue \in Seq(Up)
  BY <1>1, ConcatProperties DEF UpQueue
<1>3. input.read \in Int /\ input.ended \in BOOLEAN
  BY <1>1 DEF InputType
<1>4. wrote["out"] \in Int /\ wrote["err"] \in Int /\ pipe["in"] \in Int /\ child.owes \in Int
  BY <1>1 DEF Streams, PipeType, ChildType
<1>5. Reached \in Int
  BY <1>4 DEF Reached
<1> QED BY <1>1, <1>2, <1>3, <1>5

LEMMA InInvNext == InInv /\ [Next]_vars => InInv'
<1> SUFFICES ASSUME InInv, [Next]_vars PROVE InInv'
  OBVIOUS
<1> DEFINE Still == UNCHANGED <<vmUp, cliUp, input, wrote, child>> /\ pipe'["in"] = pipe["in"]
<1>0. Basics /\ Basics' /\ Early
  BY BasicsNext DEF InInv, Basics
<1>1. /\ thread["in"] = "blocked" => main \in {"closed", "stopped"}
      /\ Region => Follows(UpQueue, Reached, input.read, input.ended)
      /\ thread["in"] = "ended" /\ child.st = "running" /\ HostOpen /\ main = "serving"
         => input.ended /\ UpQueue = <<>>
  BY DEF InInv, Region
<1>2. ASSUME /\ thread'["in"] = "blocked" => main' \in {"closed", "stopped"}
             /\ Region' => Follows(UpQueue', Reached', input'.read, input'.ended)
             /\ thread'["in"] = "ended" /\ child'.st = "running" /\ HostOpen' /\ main' = "serving"
                => input'.ended /\ UpQueue' = <<>>
      PROVE  InInv'
  BY <1>0, <1>2 DEF InInv, Region, Follows
<1>3. ASSUME Still, Next, thread'["in"] = thread["in"], main' = main
      PROVE  InInv'
  <2>1. HostOpen' => HostOpen
    BY <1>0, <1>3, HostStaysClosed
  <2>2. UpQueue' = UpQueue /\ Reached' = Reached /\ (Region' <=> Region)
    BY <1>3 DEF UpQueue, Reached, Region
  <2> QED BY <1>1, <1>2, <1>3, <2>1, <2>2
<1>4. CASE DaemonConnects \/ DaemonRefuses \/ ExecRefused
  <2>1. Still /\ thread' = thread /\ main' \in {"starting", "closed", "stopped"} \cup {main}
    BY <1>4 DEF DaemonConnects, DaemonRefuses, ExecRefused, host
  <2>2. main \in {"off", "starting"} \/ main' = main
    BY <1>4 DEF DaemonConnects, DaemonRefuses, ExecRefused
  <2>3. CASE main' = main
    BY <1>3, <1>4, <2>1, <2>3 DEF Next
  <2>4. CASE main \in {"off", "starting"}
    <3>1. UpQueue' = UpQueue /\ Reached' = Reached /\ (Region' => Region) /\ thread["in"] = "off"
      BY <1>0, <2>1, <2>4 DEF UpQueue, Reached, Region, Early
    <3> QED BY <1>1, <1>2, <2>1, <3>1
  <2> QED BY <2>2, <2>3, <2>4
<1>5. CASE RelayDown \/ DaemonExits \/ CliReceives \/ CliSeesEnd \/ CliKilled
  <2>1. Still /\ thread' = thread /\ main' = main
    BY <1>5 DEF RelayDown, CopyDown, DaemonExits, CopyingEnds, CliReceives, CliSeesEnd, CliKilled,
                guest, sockets
  <2> QED BY <1>3, <1>5, <2>1 DEF Next
<1>6. CASE RelayUp
  <2>1. /\ UNCHANGED <<main, thread, child, pipe, wrote, input>>
        /\ CopyUp(CliOpen, GuestOpen)
    BY <1>6 DEF RelayUp, guest
  <2>2. CASE ~GuestOpen
    <3>1. main \in {"closed", "stopped"}
      BY <2>2 DEF GuestOpen
    <3> QED BY <1>2, <2>1, <3>1 DEF Region
  <2>3. CASE GuestOpen
    <3>1. UpQueue' = UpQueue
      <4>1. vmUp' \o cliUp' = vmUp \o cliUp
        <5>1. CASE cliUp # <<>>
          BY <1>0, <2>1, <2>3, <5>1, QueueMove, InTypes DEF CopyUp
        <5>2. CASE cliUp = <<>>
          BY <2>1, <5>2 DEF CopyUp
        <5> QED BY <5>1, <5>2
      <4> QED BY <4>1 DEF UpQueue
    <3>2. Reached' = Reached /\ (Region' <=> Region)
      BY <2>1 DEF Reached, Region
    <3>3. HostOpen' => HostOpen
      BY <1>0, <1>6, HostStaysClosed DEF Next
    <3> QED BY <1>1, <1>2, <2>1, <3>1, <3>2, <3>3
  <2> QED BY <2>2, <2>3
<1>7. CASE VmStops
  BY <1>2, <1>7 DEF VmStops, Region
<1>8. CASE CliReadsStdin
  <2>1. /\ UNCHANGED <<main, thread, child, pipe, wrote, relay, vmUp>> /\ ~input.ended
    BY <1>8 DEF CliReadsStdin, guest
  <2>2. /\ Reached' = Reached /\ (Region' <=> Region) /\ (HostOpen' <=> HostOpen)
        /\ ~(thread["in"] = "ended" /\ child.st = "running" /\ HostOpen /\ main = "serving")
    BY <1>1, <2>1 DEF Reached, Region, HostOpen
  <2>3. ASSUME Region PROVE Follows(UpQueue', Reached, input'.read, input'.ended)
    <3>0. /\ UpQueue \in Seq(Up) /\ Reached \in Int /\ input.read \in Int /\ input \in InputType
          /\ vmUp \in Seq(Up) /\ cliUp \in Seq(Up)
      BY <1>0, InTypes
    <3>1. Follows(UpQueue, Reached, input.read, FALSE)
      BY <1>1, <2>1, <2>3 DEF Follows
    <3>2. /\ Follows(Append(UpQueue, Data(input.read + 1)), Reached, input.read + 1, FALSE)
          /\ Follows(Append(UpQueue, Eof), Reached, input.read, TRUE)
          /\ Follows(UpQueue, Reached, input.read, TRUE)
      BY <3>0, <3>1, InputSent
    <3>3. CASE /\ input' = [input EXCEPT !.read = input.read + 1]
               /\ cliUp' = Append(cliUp, Data(input.read + 1))
      <4>1. Data(input.read + 1) \in Up
        BY <3>0 DEF Data, Frame, Up
      <4>2. UpQueue' = Append(UpQueue, Data(input.read + 1))
        BY <2>1, <3>0, <3>3, <4>1, QueueSend DEF UpQueue
      <4>3. input'.read = input.read + 1 /\ input'.ended = input.ended
        BY <3>0, <3>3 DEF InputType
      <4> QED BY <2>1, <3>2, <4>2, <4>3 DEF Follows
    <3>4. CASE input' = [input EXCEPT !.ended = TRUE] /\ cliUp' = Append(cliUp, Eof)
      <4>1. Eof \in Up
        BY DEF Eof, Frame, Up
      <4>2. UpQueue' = Append(UpQueue, Eof)
        BY <2>1, <3>0, <3>4, <4>1, QueueSend DEF UpQueue
      <4>3. input'.read = input.read /\ input'.ended = TRUE
        BY <3>0, <3>4 DEF InputType
      <4> QED BY <3>2, <4>2, <4>3
    <3>5. CASE input' = [input EXCEPT !.ended = TRUE] /\ UNCHANGED cliUp
      <4>1. UpQueue' = UpQueue
        BY <2>1, <3>5 DEF UpQueue
      <4>2. input'.read = input.read /\ input'.ended = TRUE
        BY <3>0, <3>5 DEF InputType
      <4> QED BY <3>2, <4>1, <4>2
    <3> QED BY <1>8, <3>3, <3>4, <3>5 DEF CliReadsStdin
  <2> QED BY <1>1, <1>2, <2>1, <2>2, <2>3
<1>9. CASE ExecStarts
  <2>1. /\ UNCHANGED <<vmUp, cliUp, input, pipe, wrote>> /\ main = "starting" /\ main' = "serving"
        /\ thread'["in"] = "reading" /\ child'.owes = child.owes
    BY <1>0, <1>9, InTypes DEF ExecStarts, host, ThreadType, ChildType
  <2>2. Region
    BY <1>0, <2>1 DEF Early, Region
  <2>3. UpQueue' = UpQueue /\ Reached' = Reached
    BY <2>1 DEF UpQueue, Reached
  <2> QED BY <1>1, <1>2, <2>1, <2>2, <2>3
<1>9a. CASE ExecDupFails
  <2>1. /\ UNCHANGED <<vmUp, cliUp, input, pipe, wrote, thread>> /\ main = "starting"
        /\ main' = "serving" /\ child'.owes = child.owes
    BY <1>0, <1>9a, InTypes DEF ExecDupFails, host, ChildType
  <2>2. Region /\ thread["in"] = "off"
    BY <1>0, <2>1 DEF Early, Region
  <2>3. UpQueue' = UpQueue /\ Reached' = Reached
    BY <2>1 DEF UpQueue, Reached
  <2> QED BY <1>1, <1>2, <2>1, <2>2, <2>3
<1>10. CASE ExecSpawnFails
  <2>1. child'.st = "exited" /\ thread'["in"] = "ended"
    BY <1>0, <1>10, InTypes DEF ExecSpawnFails, ThreadType, ChildType
  <2> QED BY <1>2, <2>1 DEF Region
<1>11. CASE StdinForward
  <2> DEFINE f == Head(vmUp)
  <2>1. /\ UNCHANGED <<cliUp, input, main, child, wrote, relay>> /\ vmUp # <<>> /\ vmUp' = Tail(vmUp)
        /\ thread["in"] \in {"reading", "blocked"}
    BY <1>11 DEF StdinForward, host
  <2>2. /\ f = Head(UpQueue) /\ UpQueue # <<>> /\ UpQueue' = Tail(UpQueue) /\ UpQueue \in Seq(Up)
    BY <1>0, <2>1, InTypes, QueueTake DEF UpQueue
  <2>3. /\ Region' <=> Region
        /\ HostOpen' <=> HostOpen
    BY <2>1 DEF Region, HostOpen
  <2>4. thread'["in"] \in {"reading", "ended"}
    BY <1>0, <1>11, InTypes DEF StdinForward, ThreadType
  <2>5. ASSUME Region
        PROVE  /\ Follows(UpQueue', Reached', input'.read, input'.ended)
               /\ thread'["in"] = "ended" => input'.ended /\ UpQueue' = <<>>
    <3>0. /\ Reached \in Int /\ input.read \in Int /\ input.ended \in BOOLEAN
          /\ Follows(UpQueue, Reached, input.read, input.ended)
      BY <1>0, <1>1, <2>5, InTypes
    <3>1. thread["in"] = "reading"
      BY <1>1, <2>1, <2>5 DEF Region
    <3>2. /\ f.kind = "in" => Follows(UpQueue', Reached + 1, input.read, input.ended)
          /\ f.kind = "eof" => /\ input.ended /\ UpQueue' = <<>>
                               /\ Follows(UpQueue', Reached, input.read, input.ended)
      BY <2>2, <3>0, InputTaken
    <3>3. CASE f.kind = "in"
      <4>1. pipe' = [pipe EXCEPT !["in"] = pipe["in"] + 1] /\ thread'["in"] = "reading"
        BY <1>0, <1>11, <2>5, <3>1, <3>3, InTypes DEF StdinForward, Region, ThreadType
      <4>2. pipe'["in"] = pipe["in"] + 1 /\ pipe["in"] \in Int
        BY <1>0, <4>1, InTypes DEF PipeType
      <4>3. wrote["out"] \in Int /\ wrote["err"] \in Int /\ child.owes \in Int
        BY <1>0, InTypes DEF Basics, Types, Streams, ChildType
      <4>4. Reached' = Reached + 1
        BY <2>1, <4>2, <4>3 DEF Reached
      <4> QED BY <2>1, <3>2, <3>3, <4>1, <4>4
    <3>4. CASE f.kind = "eof"
      <4>1. UNCHANGED pipe
        BY <1>11, <3>4 DEF StdinForward
      <4>2. Reached' = Reached
        BY <2>1, <4>1 DEF Reached
      <4> QED BY <2>1, <3>2, <3>4, <4>2
    <3>5. f.kind \in {"in", "eof"}
      BY <1>11 DEF StdinForward
    <3> QED BY <3>3, <3>4, <3>5
  <2> QED BY <1>2, <2>1, <2>3, <2>4, <2>5 DEF Region
<1>12. CASE StdinLost
  <2>1. Still /\ main' = main /\ ~HostOpen /\ relay' = relay /\ thread'["in"] = "ended"
    BY <1>0, <1>12, InTypes DEF StdinLost, host, ThreadType
  <2>2. UpQueue' = UpQueue /\ Reached' = Reached /\ (Region' <=> Region) /\ ~HostOpen'
    BY <2>1 DEF UpQueue, Reached, Region, HostOpen
  <2> QED BY <1>1, <1>2, <2>1, <2>2
<1>13. ASSUME NEW s \in Streams, OutForward(s) \/ OutEnds(s) PROVE InInv'
  <2>1. UNCHANGED <<vmUp, cliUp, input, wrote, child, main>>
    BY <1>13 DEF OutForward, OutEnds, host
  <2>2. pipe'["in"] = pipe["in"] /\ thread'["in"] = thread["in"]
    BY <1>0, <1>13, InTypes DEF OutForward, OutEnds, PipeType, ThreadType, Streams
  <2> QED BY <1>3, <1>13, <2>1, <2>2 DEF Next
<1>14. CASE ExecEnds
  BY <1>2, <1>14 DEF ExecEnds, ExitAndClose, Region
<1>15. CASE ChildReads \/ ChildWrites
  <2>1. UNCHANGED <<vmUp, cliUp, input, main, thread, relay>> /\ child.st = "running"
    BY <1>15 DEF ChildReads, ChildWrites, host
  <2>2. /\ wrote["out"] \in Int /\ wrote["err"] \in Int /\ child.owes \in Int /\ pipe["in"] \in Int
        /\ wrote \in [Streams -> Int]
    <3>1. wrote \in [Streams -> Int]
      BY <1>0 DEF Basics, Types
    <3>2. pipe["in"] \in Int /\ child.owes \in Int
      BY <1>0, InTypes DEF ChildType, PipeType
    <3> QED BY <3>1, <3>2 DEF Streams
  <2>3. child'.st = child.st
    BY <1>0, <1>15, InTypes DEF ChildReads, ChildWrites, ChildType
  <2>4. CASE ChildReads
    <3>1. child.owes = 0 /\ child'.owes = 1 /\ pipe'["in"] = pipe["in"] - 1 /\ wrote' = wrote
      BY <1>0, <2>4, InTypes DEF ChildReads, ChildType, PipeType
    <3>2. Reached' = Reached
      BY <2>2, <3>1 DEF Reached
    <3>3. UpQueue' = UpQueue /\ (Region' <=> Region) /\ (HostOpen' <=> HostOpen)
      BY <2>1, <2>3 DEF UpQueue, Region, HostOpen
    <3> QED BY <1>1, <1>2, <2>1, <2>3, <3>2, <3>3
  <2>5. CASE ChildWrites
    <3>1. child.owes = 1 /\ child'.owes = 0
      BY <1>0, <2>5, InTypes DEF ChildWrites, ChildType
    <3>2. PICK s \in Streams : /\ pipe' = [pipe EXCEPT ![s] = pipe[s] + 1]
                               /\ wrote' = [wrote EXCEPT ![s] = wrote[s] + 1]
      BY <2>5 DEF ChildWrites, Outputs, Streams
    <3>3. pipe'["in"] = pipe["in"]
      BY <1>0, <3>2, InTypes DEF PipeType, Streams
    <3>4. wrote'["out"] + wrote'["err"] = wrote["out"] + wrote["err"] + 1
      BY <2>2, <3>2 DEF Streams
    <3>5. wrote'["out"] \in Int /\ wrote'["err"] \in Int
      BY <1>0 DEF Basics, Types, Streams
    <3>6. Reached' = Reached
      BY <2>2, <3>1, <3>3, <3>4, <3>5 DEF Reached
    <3>7. UpQueue' = UpQueue /\ (Region' <=> Region) /\ (HostOpen' <=> HostOpen)
      BY <2>1, <2>3 DEF UpQueue, Region, HostOpen
    <3> QED BY <1>1, <1>2, <2>1, <2>3, <3>6, <3>7
  <2> QED BY <1>15, <2>4, <2>5
<1>16. CASE ChildExits
  <2>1. child'.st = "exited" /\ UNCHANGED <<main, thread>>
    BY <1>0, <1>16, InTypes DEF ChildExits, ChildType
  <2> QED BY <1>1, <1>2, <2>1 DEF Region
<1>16a. CASE HeirWrites \/ HeirReads \/ HeirEnds
  <2>1. UNCHANGED <<main, thread>> /\ child.heir
    BY <1>16a DEF HeirWrites, HeirReads, HeirEnds
  <2>2. child.st = "exited"
    BY <1>0, <2>1 DEF Early
  <2>3. child'.st = "exited"
    BY <1>0, <1>16a, <2>2, InTypes DEF HeirWrites, HeirReads, HeirEnds, ChildType
  <2> QED BY <1>1, <1>2, <2>1, <2>3 DEF Region
<1>17. CASE UNCHANGED vars
  BY <1>0, <1>17 DEF vars, InInv, UpQueue, Reached, Follows, HostOpen
<1> QED BY <1>4, <1>5, <1>6, <1>7, <1>8, <1>9, <1>9a, <1>16a, <1>10, <1>11, <1>12, <1>13, <1>14, <1>15, <1>16,
           <1>17 DEF Next

-----------------------------------------------------------------------------
(* The way down *)

LEMMA OutTypes ==
  ASSUME Basics
  PROVE  /\ vmDown \in Seq(Down) /\ cliDown \in Seq(Down) /\ DownQueue \in Seq(Down)
         /\ shown \in [Streams -> Int] /\ wrote \in [Streams -> Int]
         /\ thread \in ThreadType /\ pipe \in PipeType /\ child \in ChildType
         /\ Reported \in Int /\ \A s \in Streams : pipe[s] \in Int /\ wrote[s] \in Int
<1>1. /\ vmDown \in Seq(Down) /\ cliDown \in Seq(Down)
      /\ shown \in [Streams -> Int] /\ wrote \in [Streams -> Int]
      /\ thread \in ThreadType /\ pipe \in PipeType /\ child \in ChildType
  BY DEF Basics, Types
<1>2. DownQueue \in Seq(Down)
  BY <1>1, ConcatProperties DEF DownQueue
<1>3. Reported \in Int /\ \A s \in Streams : pipe[s] \in Int /\ wrote[s] \in Int
  BY <1>1 DEF PipeType, ChildType, Reported
<1> QED BY <1>1, <1>2, <1>3

LEMMA OutInvInit == Init => OutInv
<1> SUFFICES ASSUME Init PROVE OutInv
  OBVIOUS
<1>1. Basics /\ cli = "waiting"
  BY BasicsInit DEF Init
<1>2. DownQueue = <<>> /\ Len(DownQueue) = 0
  BY DEF Init, ProxyInit, DownQueue
<1>3. \A s \in Streams : pipe[s] = 0 /\ wrote[s] = 0 /\ shown[s] = 0
  BY DEF Init
<1>4. \A s \in Streams : Left(s) = 0
  BY <1>3 DEF Left
<1>5. Delivery /\ Drained
  BY <1>2, <1>3, <1>4 DEF Delivery, Drained, HasExit, ExitIsLast, Flow
<1> QED BY <1>1, <1>5 DEF OutInv

(* A step that sends f, which is not the exit frame, or that cannot.       *)
LEMMA SendKeeps ==
  ASSUME OutInv, Next, CliOpen, NEW f \in Down, f.kind # "exit", Send(f), ~HasExit(DownQueue),
         UNCHANGED <<cliDown, shown, relay>>, main' # "stopped" => main # "stopped",
         \A s \in Streams : f.kind # s /\ Left(s)' = Left(s)
  PROVE  Delivery'
<1>0. Basics /\ Delivery
  BY DEF OutInv
<1>1. HostOpen' <=> HostOpen
  BY DEF HostOpen
<1>2. CASE HostOpen
  <2>1. DownQueue' = Append(DownQueue, f) /\ DownQueue \in Seq(Down)
    BY <1>0, <1>2, OutTypes, QueueSend DEF Send, DownQueue
  <2>2. ~HasExit(DownQueue') /\ ExitIsLast(DownQueue', Reported')
    BY <2>1, ExitSent
  <2>3. ASSUME HostOpen', main' # "stopped", NEW s \in Streams
        PROVE  Flow(DownQueue', s, shown'[s], Left(s)')
    <3>1. Flow(DownQueue, s, shown[s], Left(s))
      BY <1>0, <1>1, <2>3 DEF Delivery
    <3> QED BY <2>1, <2>3, <3>1, FlowSent
  <2> QED BY <2>2, <2>3 DEF Delivery, HasExit, ExitIsLast, Flow
<1>3. CASE ~HostOpen
  <2>1. DownQueue' = DownQueue
    BY <1>3 DEF Send, DownQueue
  <2>2. ~HasExit(DownQueue') /\ ExitIsLast(DownQueue', Reported')
    BY <2>1 DEF HasExit, ExitIsLast
  <2> QED BY <1>1, <1>3, <2>2 DEF Delivery, HasExit, ExitIsLast
<1> QED BY <1>2, <1>3

LEMMA OutInvNext == OutInv /\ [Next]_vars => OutInv'
<1> SUFFICES ASSUME OutInv, [Next]_vars PROVE OutInv'
  OBVIOUS
<1>0. Basics /\ Basics' /\ Early /\ Drained /\ (CliOpen => Delivery)
      /\ (cli = "done" => Over /\ shown = wrote /\ code = Reported)
  BY BasicsNext DEF OutInv, Basics
<1>1. CliOpen /\ (child.st # "exited" \/ main \in {"off", "starting", "serving"})
      => ~HasExit(DownQueue)
  BY <1>0 DEF Delivery, Over
<1>2. ASSUME Next, UNCHANGED <<vmDown, cliDown, shown, wrote, cli, code, main>>,
             child'.st = child.st, child'.code = child.code,
             \A s \in Streams : pipe'[s] = pipe[s] /\ thread'[s] = thread[s]
      PROVE  OutInv'
  <2>1. HostOpen' => HostOpen
    BY <1>0, <1>2, HostStaysClosed
  <2>2. DownQueue' = DownQueue /\ (CliOpen' <=> CliOpen) /\ (Over' <=> Over)
        /\ Reported' = Reported /\ \A s \in Streams : Left(s)' = Left(s)
    BY <1>2 DEF DownQueue, CliOpen, Over, Left, Reported, Streams
  <2>3. Drained'
    BY <1>0, <1>2, <2>1 DEF Drained
  <2>4. CliOpen => Delivery'
    BY <1>0, <1>2, <2>1, <2>2 DEF Delivery, HasExit, ExitIsLast, Flow
  <2> QED BY <1>0, <1>2, <2>2, <2>3, <2>4 DEF OutInv
<1>3. CASE DaemonConnects
  <2>1. /\ UNCHANGED <<vmDown, cliDown, shown, wrote, cli, code, child, pipe, thread>>
        /\ main = "off" /\ main' = "starting" /\ HostOpen
    BY <1>3 DEF DaemonConnects, host, HostOpen
  <2>2. DownQueue' = DownQueue /\ (CliOpen' <=> CliOpen) /\ cli # "done"
        /\ Reported' = Reported /\ \A s \in Streams : Left(s)' = Left(s)
    BY <1>0, <2>1 DEF DownQueue, CliOpen, Over, Left, Reported
  <2>3. Drained'
    BY <1>0, <2>1 DEF Drained
  <2>4. CliOpen => Delivery'
    BY <1>0, <1>1, <2>1, <2>2 DEF Delivery, HasExit, ExitIsLast, Flow
  <2> QED BY <1>0, <2>1, <2>2, <2>3, <2>4 DEF OutInv
<1>4. CASE DaemonRefuses
  <2>1. /\ vmDown = <<>> /\ cliDown = <<>> /\ main \in {"off", "stopped"}
        /\ vmDown' = <<>> /\ cliDown' = Append(<<>>, Frame("error", 0))
        /\ ~HostOpen' /\ UNCHANGED <<cli, code, shown, wrote, child, thread>>
        /\ main = "stopped" => main' = "stopped"
    BY <1>0, <1>4 DEF Early, DaemonRefuses, HostOpen, Threads
  <2>2. ~HasExit(DownQueue') /\ ExitIsLast(DownQueue', Reported')
    <3>1. Frame("error", 0) \in Down /\ Frame("error", 0).kind # "exit" /\ <<>> \in Seq(Down)
      BY DEF Down, Frame
    <3>2. ~HasExit(<<>>)
      BY DEF HasExit
    <3>3. DownQueue' = Append(<<>>, Frame("error", 0))
      BY <2>1, <3>1, AppendFacts, ConcatEmptySeq DEF DownQueue
    <3> QED BY <3>1, <3>2, <3>3, ExitSent
  <2>3. Delivery' /\ Drained'
    BY <2>1, <2>2 DEF Delivery, Drained, HasExit, ExitIsLast
  <2>4. (cli = "done" => Over') /\ Reported' = Reported
    BY <1>0, <2>1 DEF Over, Reported
  <2> QED BY <1>0, <2>1, <2>3, <2>4 DEF OutInv
<1>5. CASE RelayUp \/ CliReadsStdin
  <2>1. UNCHANGED <<vmDown, cliDown, shown, cli, code, guest>>
    BY <1>5 DEF RelayUp, CopyUp, CliReadsStdin
  <2> QED BY <1>2, <1>5, <2>1 DEF guest, Next
<1>6. CASE RelayDown
  <2>1. UNCHANGED <<shown, cli, code, guest>> /\ CopyDown(CliOpen, GuestOpen)
    BY <1>6 DEF RelayDown
  <2>2. HostOpen' => HostOpen
    BY <1>0, <1>6, HostStaysClosed DEF Next
  <2>3. /\ Drained' /\ (CliOpen' <=> CliOpen) /\ (Over' <=> Over) /\ Reported' = Reported
        /\ \A s \in Streams : Left(s)' = Left(s)
    BY <1>0, <2>1, <2>2 DEF Drained, CliOpen, Over, Left, Reported, guest
  <2>4. ASSUME CliOpen PROVE Delivery'
    <3>1. DownQueue' = DownQueue
      <4>1. CASE vmDown # <<>>
        <5>1. cliDown' = Append(cliDown, Head(vmDown)) /\ vmDown' = Tail(vmDown)
          BY <2>1, <2>4, <4>1 DEF CopyDown
        <5>2. Append(cliDown, Head(vmDown)) \o Tail(vmDown) = cliDown \o vmDown
          BY <1>0, <4>1, OutTypes, QueueMove
        <5> QED BY <5>1, <5>2 DEF DownQueue
      <4>2. CASE vmDown = <<>>
        BY <2>1, <4>2 DEF CopyDown, DownQueue
      <4> QED BY <4>1, <4>2
    <3> QED BY <1>0, <2>1, <2>2, <2>3, <2>4, <3>1 DEF Delivery, HasExit, ExitIsLast, Flow, guest
  <2> QED BY <1>0, <2>1, <2>3, <2>4 DEF OutInv, guest
<1>7. CASE VmStops
  <2>1. /\ UNCHANGED <<vmDown, cliDown, shown, wrote, cli, code>> /\ main' = "stopped"
        /\ child'.st = "exited" /\ child'.code = child.code
        /\ \A s \in Streams : pipe'[s] = 0
    BY <1>0, <1>7, OutTypes DEF VmStops, host, PipeType, ChildType
  <2>1a. Reported' = Reported
    <3>1. thread'["out"] = "off" <=> thread["out"] = "off"
      BY <1>0, <1>7, OutTypes DEF VmStops, ThreadType, Streams
    <3> QED BY <2>1, <3>1 DEF Reported
  <2>2. DownQueue' = DownQueue /\ (CliOpen' <=> CliOpen) /\ Over' /\ Drained'
    BY <2>1 DEF DownQueue, CliOpen, Over, Drained
  <2>3. ASSUME CliOpen PROVE Delivery'
    <3>1. HasExit(DownQueue) => \A s \in Streams : Left(s)' = Left(s)
      BY <1>0, <2>1, <2>3 DEF Delivery, Left
    <3> QED BY <1>0, <2>1, <2>1a, <2>2, <2>3, <3>1 DEF Delivery, HasExit, ExitIsLast, Flow
  <2> QED BY <1>0, <2>1, <2>1a, <2>2, <2>3 DEF OutInv
<1>8. CASE DaemonExits
  <2>1. UNCHANGED <<cliDown, shown, cli, code, guest>> /\ vmDown' = <<>> /\ ~HostOpen'
    BY <1>8 DEF DaemonExits, CopyingEnds, HostOpen, Threads
  <2>2. /\ Drained' /\ (CliOpen' <=> CliOpen) /\ (Over' <=> Over) /\ Reported' = Reported
        /\ \A s \in Streams : Left(s)' = Left(s)
    BY <2>1 DEF Drained, CliOpen, Over, Left, Reported, guest
  <2>3. DownQueue' = cliDown
    BY <1>0, <2>1, OutTypes, ConcatEmptySeq DEF DownQueue
  <2>4. ASSUME CliOpen PROVE Delivery'
    <3>1. CASE ~HasExit(cliDown)
      BY <2>1, <2>3, <3>1 DEF Delivery, HasExit, ExitIsLast
    <3>2. CASE HasExit(cliDown)
      <4>1. PICK i \in 1..Len(cliDown) : cliDown[i].kind = "exit"
        BY <3>2 DEF HasExit
      <4>2. /\ Len(cliDown) \in Nat /\ Len(vmDown) \in Nat
            /\ Len(DownQueue) = Len(cliDown) + Len(vmDown)
            /\ \A j \in 1..Len(cliDown) + Len(vmDown) :
                  DownQueue[j] = IF j <= Len(cliDown) THEN cliDown[j] ELSE vmDown[j - Len(cliDown)]
        BY <1>0, OutTypes, ConcatProperties, LenProperties DEF DownQueue
      <4>3. i \in 1..Len(DownQueue) /\ DownQueue[i].kind = "exit"
        BY <4>1, <4>2
      <4>4. i = Len(DownQueue)
        BY <1>0, <2>4, <4>3 DEF Delivery, ExitIsLast
      <4>5. Len(vmDown) = 0
        BY <4>1, <4>2, <4>4
      <4>6. vmDown = <<>>
        BY <1>0, <4>5, OutTypes
      <4>7. DownQueue' = DownQueue
        BY <2>1, <4>6 DEF DownQueue
      <4> QED BY <1>0, <2>1, <2>2, <2>4, <4>7 DEF Delivery, HasExit, ExitIsLast, Flow, guest
    <3> QED BY <3>1, <3>2
  <2> QED BY <1>0, <2>1, <2>2, <2>4 DEF OutInv, guest
<1>9. CASE CliReceives
  <2> DEFINE f == Head(cliDown)
  <2>1. UNCHANGED <<vmDown, relay, guest>> /\ CliOpen /\ cliDown # <<>> /\ cliDown' = Tail(cliDown)
    BY <1>9 DEF CliReceives
  <2>2. /\ DownQueue \in Seq(Down) /\ DownQueue # <<>> /\ f = Head(DownQueue)
        /\ DownQueue' = Tail(DownQueue)
    BY <1>0, <2>1, OutTypes, QueueTake DEF DownQueue
  <2>3. /\ Drained' /\ (Over' <=> Over) /\ (HostOpen' <=> HostOpen) /\ Reported' = Reported
        /\ \A s \in Streams : Left(s)' = Left(s)
    BY <1>0, <2>1 DEF Drained, Over, Left, Reported, HostOpen, guest
  <2>4. /\ ExitIsLast(DownQueue', Reported)
        /\ HasExit(DownQueue') => HasExit(DownQueue)
        /\ HasExit(DownQueue) /\ f.kind # "exit" => HasExit(DownQueue')
        /\ f.kind = "exit" => /\ DownQueue' = <<>> /\ Len(DownQueue) = 1
                              /\ f.n = Reported /\ HasExit(DownQueue)
    BY <1>0, <2>1, <2>2, ExitReceived DEF Delivery
  <2>5. ASSUME f.kind # "exit",
               \A s \in Streams : shown'[s] = IF f.kind = s THEN f.n ELSE shown[s]
        PROVE  Delivery'
    <3>1. ASSUME HasExit(DownQueue') \/ (HostOpen' /\ main' # "stopped"), NEW s \in Streams
          PROVE  Flow(DownQueue', s, shown'[s], Left(s)')
      <4>1. Flow(DownQueue, s, shown[s], Left(s))
        BY <1>0, <2>1, <2>3, <2>4, <3>1 DEF Delivery, guest
      <4>2. Flow(Tail(DownQueue), s, IF f.kind = s THEN f.n ELSE shown[s], Left(s))
        BY <2>2, <4>1, FlowReceived
      <4> QED BY <2>2, <2>3, <2>5, <4>2
    <3>2. HasExit(DownQueue') => Over' /\ \A s \in Streams : pipe'[s] = 0
      BY <1>0, <2>1, <2>3, <2>4 DEF Delivery, guest
    <3>3. ExitIsLast(DownQueue', Reported')
      BY <2>3, <2>4
    <3> QED BY <3>1, <3>2, <3>3 DEF Delivery, HasExit, ExitIsLast, Flow
  <2>6. CASE f.kind \in {"ready", "error"} /\ UNCHANGED shown /\ cli' # "done"
    <3>1. Delivery'
      BY <2>5, <2>6 DEF Streams
    <3> QED BY <1>0, <2>3, <2>6, <3>1 DEF OutInv
  <2>7. CASE f.kind \in Streams /\ shown' = [shown EXCEPT ![f.kind] = f.n] /\ UNCHANGED cli
    <3>1. f.kind # "exit" /\ \A s \in Streams : shown'[s] = IF f.kind = s THEN f.n ELSE shown[s]
      BY <1>0, <2>7, OutTypes DEF Streams
    <3>2. Delivery' /\ cli' # "done"
      BY <2>1, <2>5, <2>7, <3>1 DEF CliOpen
    <3> QED BY <1>0, <2>3, <3>2 DEF OutInv
  <2>8. CASE f.kind = "exit" /\ cli' = "done" /\ code' = f.n /\ UNCHANGED shown
    <3>1. Over /\ \A s \in Streams : pipe[s] = 0
      BY <1>0, <2>1, <2>4, <2>8 DEF Delivery
    <3>2. \A s \in Streams : shown[s] = wrote[s]
      <4>1. \A s \in Streams : Flow(DownQueue, s, shown[s], Left(s))
        BY <1>0, <2>1, <2>4, <2>8 DEF Delivery
      <4>2. DownQueue[1] = f /\ \A i \in 1..Len(DownQueue) : i = 1
        BY <2>2, <2>4, <2>8
      <4>3. \A s \in Streams, i \in 1..Len(DownQueue) : DownQueue[i].kind # s
        BY <2>8, <4>2 DEF Streams
      <4>4. \A s \in Streams : shown[s] = Left(s)
        BY <4>1, <4>3 DEF Flow
      <4>5. \A s \in Streams : wrote[s] \in Int
        BY <1>0, OutTypes
      <4> QED BY <3>1, <4>4, <4>5 DEF Left
    <3>3. shown = wrote
      BY <1>0, <3>2, OutTypes
    <3>4. Over' /\ shown' = wrote' /\ code' = Reported'
      BY <2>1, <2>3, <2>4, <2>8, <3>1, <3>3 DEF guest
    <3> QED BY <1>0, <2>3, <2>8, <3>4 DEF OutInv, CliOpen
  <2> QED BY <1>9, <2>6, <2>7, <2>8 DEF CliReceives
<1>10. CASE CliSeesEnd \/ CliKilled
  <2>1. cli' \in {"failed", "killed"} /\ UNCHANGED <<relay, guest>>
    BY <1>10 DEF CliSeesEnd, CliKilled
  <2>2. Drained' /\ ~CliOpen' /\ cli' # "done"
    BY <1>0, <2>1 DEF Drained, CliOpen, HostOpen, guest
  <2> QED BY <1>0, <2>2 DEF OutInv
<1>11. ASSUME main = "starting", main' # "stopped", UNCHANGED <<cli, code, shown, cliDown, relay>>,
              Next, NEW f \in Down, f.kind \in {"ready", "error"}, Send(f),
              \A s \in Streams : Left(s)' = Left(s), Drained'
       PROVE  OutInv'
  <2>1. cli # "done" /\ cli' # "done" /\ (CliOpen' <=> CliOpen) /\ (CliOpen => ~HasExit(DownQueue))
    BY <1>0, <1>1, <1>11 DEF Over, CliOpen
  <2>2. \A s \in Streams : f.kind # s
    BY <1>11 DEF Streams
  <2>3. CliOpen => Delivery'
    BY <1>11, <2>1, <2>2, SendKeeps
  <2> QED BY <1>0, <1>11, <2>1, <2>3 DEF OutInv
<1>12. \A k \in {"ready", "error"} : Frame(k, 0) \in Down /\ Frame(k, 0).kind = k
  BY DEF Frame, Down
<1>13. CASE ExecRefused
  <2>1. /\ main = "starting" /\ main' = "closed" /\ Send(Frame("error", 0))
        /\ UNCHANGED <<cli, code, shown, cliDown, relay, pipe, thread, wrote>>
    BY <1>13 DEF ExecRefused, host
  <2>2. Drained' /\ \A s \in Streams : Left(s)' = Left(s)
    BY <1>0, <2>1 DEF Drained, Left, HostOpen
  <2> QED BY <1>11, <1>12, <1>13, <2>1, <2>2 DEF Next
<1>14. CASE ExecStarts
  <2>1. /\ main = "starting" /\ main' = "serving" /\ Send(Frame("ready", 0))
        /\ UNCHANGED <<cli, code, shown, cliDown, relay, pipe, wrote>>
    BY <1>14 DEF ExecStarts, host
  <2>2. Drained' /\ \A s \in Streams : Left(s)' = Left(s)
    BY <1>0, <2>1 DEF Early, Drained, Left
  <2> QED BY <1>11, <1>12, <1>14, <2>1, <2>2 DEF Next
<1>14a. CASE ExecDupFails
  <2>1. /\ main = "starting" /\ main' = "serving" /\ Send(Frame("ready", 0))
        /\ UNCHANGED <<cli, code, shown, cliDown, relay, pipe, wrote>>
    BY <1>14a DEF ExecDupFails, host
  <2>2. Drained' /\ \A s \in Streams : Left(s)' = Left(s)
    BY <1>0, <2>1 DEF Early, Drained, Left
  <2> QED BY <1>11, <1>12, <1>14a, <2>1, <2>2 DEF Next
<1>15. CASE ExecSpawnFails
  <2>1. /\ main = "starting" /\ main' = "serving" /\ Send(Frame("ready", 0))
        /\ UNCHANGED <<cli, code, shown, cliDown, relay>>
        /\ pipe' = [pipe EXCEPT !["err"] = 1] /\ wrote' = [wrote EXCEPT !["err"] = 1]
    BY <1>15 DEF ExecSpawnFails, host
  <2>2. \A s \in Streams : pipe[s] = 0 /\ wrote[s] = 0
    BY <1>0, <2>1 DEF Early
  <2>3. /\ pipe'["out"] = 0 /\ wrote'["out"] = 0 /\ pipe'["err"] = 1 /\ wrote'["err"] = 1
        /\ thread'["err"] = "reading"
    BY <1>0, <1>15, <2>1, <2>2, OutTypes DEF ExecSpawnFails, PipeType, ThreadType, Streams
  <2>4. Drained' /\ \A s \in Streams : Left(s)' = Left(s)
    BY <2>2, <2>3 DEF Drained, Left, Streams
  <2> QED BY <1>11, <1>12, <1>15, <2>1, <2>4 DEF Next
<1>16. CASE StdinForward \/ StdinLost
  <2>1. UNCHANGED <<vmDown, cliDown, shown, wrote, cli, code, main, child>>
    BY <1>16 DEF StdinForward, StdinLost, host
  <2>2. \A s \in Streams : pipe'[s] = pipe[s] /\ thread'[s] = thread[s]
    BY <1>0, <1>16, OutTypes DEF StdinForward, StdinLost, PipeType, ThreadType, Streams
  <2> QED BY <1>2, <1>16, <2>1, <2>2 DEF Next
<1>17. ASSUME NEW s \in Streams, OutForward(s) PROVE OutInv'
  <2>1. /\ UNCHANGED <<cliDown, shown, wrote, cli, code, main, child, relay>>
        /\ thread[s] = "reading" /\ pipe[s] > 0 /\ pipe' = [pipe EXCEPT ![s] = pipe[s] - 1]
    BY <1>17 DEF OutForward, host
  <2>2. /\ pipe'[s] = pipe[s] - 1
        /\ \A x \in Streams \ {s} : pipe'[x] = pipe[x] /\ Left(x)' = Left(x)
    BY <1>0, <2>1, OutTypes DEF PipeType, Left
  <2>3. Left(s)' = Left(s) + 1 /\ Left(s) + 1 \in Int
    BY <1>0, <2>1, <2>2, OutTypes DEF Left
  <2>4. CliOpen => ~HasExit(DownQueue)
    BY <1>0, <2>1 DEF Delivery
  <2>5. /\ (CliOpen' <=> CliOpen) /\ (Over' <=> Over) /\ (HostOpen' <=> HostOpen)
        /\ Reported' = Reported
    <3>1. thread'["out"] = "off" <=> thread["out"] = "off"
      BY <1>0, <1>17, <2>1, OutTypes DEF OutForward, ThreadType, Streams
    <3> QED BY <2>1, <3>1 DEF CliOpen, Over, HostOpen, Reported
  <2>6. CASE HostOpen
    <3> DEFINE f == Frame(s, Left(s) + 1)
    <3>1. vmDown' = Append(vmDown, f) /\ UNCHANGED thread
      <4>1. wrote[s] - pipe[s] + 1 = Left(s) + 1
        BY DEF Left
      <4> QED BY <1>17, <2>6, <4>1 DEF OutForward
    <3>2. f \in Down /\ f.kind = s /\ f.kind # "exit" /\ f.n = Left(s) + 1
      BY <2>3 DEF Frame, Down, Streams
    <3> HIDE DEF f
    <3>3. DownQueue' = Append(DownQueue, f) /\ DownQueue \in Seq(Down)
      BY <1>0, <2>1, <3>1, <3>2, OutTypes, QueueSend DEF DownQueue
    <3>4. Drained'
      BY <1>0, <2>1, <2>2, <2>5, <3>1 DEF Drained
    <3>5. ASSUME CliOpen PROVE Delivery'
      <4>1. ~HasExit(DownQueue') /\ ExitIsLast(DownQueue', Reported')
        BY <2>4, <3>2, <3>3, <3>5, ExitSent
      <4>2. ASSUME main' # "stopped", NEW x \in Streams PROVE Flow(DownQueue', x, shown'[x], Left(x)')
        <5>1. Flow(DownQueue, x, shown[x], Left(x))
          BY <1>0, <2>1, <2>6, <3>5, <4>2 DEF Delivery
        <5>2. CASE x = s
          BY <2>1, <2>3, <3>2, <3>3, <5>2, FlowSent
        <5>3. CASE x # s
          BY <2>1, <2>2, <3>2, <3>3, <5>1, <5>3, FlowSent
        <5> QED BY <5>2, <5>3
      <4> QED BY <4>1, <4>2 DEF Delivery, HasExit, ExitIsLast, Flow
    <3> QED BY <1>0, <2>1, <2>5, <3>4, <3>5 DEF OutInv
  <2>7. CASE ~HostOpen
    <3>1. UNCHANGED vmDown
      BY <1>17, <2>7 DEF OutForward
    <3>2. DownQueue' = DownQueue /\ Drained'
      BY <2>1, <2>5, <2>7, <3>1 DEF DownQueue, Drained
    <3>3. CliOpen => Delivery'
      BY <1>0, <2>1, <2>4, <2>5, <2>7, <3>2 DEF Delivery, HasExit, ExitIsLast
    <3> QED BY <1>0, <2>1, <2>5, <3>2, <3>3 DEF OutInv
  <2> QED BY <2>6, <2>7
<1>18. ASSUME NEW s \in Streams, OutEnds(s) PROVE OutInv'
  <2>1. /\ UNCHANGED <<vmDown, cliDown, shown, wrote, cli, code, main, child, relay, pipe>>
        /\ pipe[s] = 0 /\ \A x \in Streams \ {s} : thread'[x] = thread[x]
        /\ thread[s] = "reading" /\ thread'[s] = "ended"
    BY <1>0, <1>18, OutTypes DEF OutEnds, host, ThreadType
  <2>2. /\ (CliOpen' <=> CliOpen) /\ (Over' <=> Over) /\ (HostOpen' <=> HostOpen)
        /\ DownQueue' = DownQueue /\ \A x \in Streams : Left(x)' = Left(x)
    BY <2>1 DEF CliOpen, Over, HostOpen, DownQueue, Left
  <2>2a. Reported' = Reported
    BY <2>1 DEF Reported, Streams
  <2>3. Drained'
    BY <1>0, <2>1, <2>2 DEF Drained
  <2>4. CliOpen => Delivery'
    BY <1>0, <2>1, <2>2, <2>2a DEF Delivery, HasExit, ExitIsLast, Flow
  <2> QED BY <1>0, <2>1, <2>2, <2>2a, <2>3, <2>4 DEF OutInv
<1>19. CASE ExecEnds
  <2> DEFINE f == Frame("exit", Reported)
  <2>1. /\ UNCHANGED <<cliDown, shown, wrote, cli, code, child, relay, pipe>> /\ main' = "closed"
        /\ main = "serving" /\ child.st = "exited" /\ Send(f)
        /\ \A s \in Streams : thread[s] \in {"off", "ended"}
    BY <1>19 DEF ExecEnds, ExitAndClose, host, Deaf, Reported
  <2>2. \A s \in Streams : thread'[s] = thread[s]
    BY <1>0, <1>19, <2>1, OutTypes DEF ExecEnds, ExitAndClose, ThreadType, Streams
  <2>2a. Reported' = Reported
    BY <2>1, <2>2 DEF Reported, Streams
  <2>3. /\ (CliOpen' <=> CliOpen) /\ Over' /\ (HostOpen' <=> HostOpen) /\ cli # "done"
        /\ \A s \in Streams : Left(s)' = Left(s)
    BY <1>0, <2>1 DEF CliOpen, Over, HostOpen, Left
  <2>4. HostOpen => \A s \in Streams : pipe[s] = 0
    BY <1>0, <2>1 DEF Drained
  <2>5. Drained'
    BY <2>1, <2>3, <2>4 DEF Drained
  <2>6. f \in Down /\ f.kind = "exit" /\ f.n = Reported
    BY <1>0, OutTypes DEF Frame, Down
  <2> HIDE DEF f
  <2>7. ASSUME CliOpen PROVE Delivery'
    <3>1. ~HasExit(DownQueue)
      BY <1>1, <2>1, <2>7
    <3>2. CASE HostOpen
      <4>1. DownQueue' = Append(DownQueue, f) /\ DownQueue \in Seq(Down)
        BY <1>0, <2>1, <2>6, <3>2, OutTypes, QueueSend DEF Send, DownQueue
      <4>2. ExitIsLast(DownQueue', Reported')
        BY <2>1, <2>2a, <2>6, <3>1, <4>1, ExitSent
      <4>3. \A s \in Streams : Flow(DownQueue', s, shown'[s], Left(s)')
        <5>1. \A s \in Streams : Flow(DownQueue, s, shown[s], Left(s)) /\ f.kind # s
          BY <1>0, <2>1, <2>6, <2>7, <3>2 DEF Delivery, Streams
        <5> QED BY <2>1, <2>3, <2>6, <4>1, <5>1, FlowSent
      <4> QED BY <2>1, <2>3, <2>4, <3>2, <4>2, <4>3 DEF Delivery, ExitIsLast, Flow
    <3>3. CASE ~HostOpen
      <4>1. DownQueue' = DownQueue
        BY <2>1, <3>3 DEF Send, DownQueue
      <4> QED BY <2>3, <3>1, <3>3, <4>1 DEF Delivery, HasExit, ExitIsLast
    <3> QED BY <3>2, <3>3
  <2> QED BY <1>0, <2>1, <2>3, <2>5, <2>7 DEF OutInv
<1>20. CASE ChildReads
  <2>1. /\ UNCHANGED <<vmDown, cliDown, shown, wrote, cli, code, main, thread>>
        /\ child'.st = child.st /\ child'.code = child.code
    BY <1>0, <1>20, OutTypes DEF ChildReads, host, ChildType
  <2>2. \A s \in Streams : pipe'[s] = pipe[s]
    BY <1>0, <1>20, OutTypes DEF ChildReads, PipeType, Streams
  <2> QED BY <1>2, <1>20, <2>1, <2>2 DEF Next
<1>21. CASE ChildWrites \/ ChildExits
  <2>1. UNCHANGED <<vmDown, cliDown, shown, cli, code, main, thread, relay>> /\ child.st = "running"
    BY <1>21 DEF ChildWrites, ChildExits, host
  <2>2. /\ (CliOpen' <=> CliOpen) /\ (HostOpen' <=> HostOpen) /\ DownQueue' = DownQueue
        /\ cli # "done" /\ (CliOpen => ~HasExit(DownQueue))
    BY <1>0, <1>1, <2>1 DEF CliOpen, Over, HostOpen, DownQueue
  <2>3. Drained' /\ \A s \in Streams : Left(s)' = Left(s)
    <3>1. CASE ChildExits
      BY <1>0, <2>2, <3>1 DEF ChildExits, Drained, Left
    <3>2. CASE ChildWrites
      <4>1. PICK s \in Streams : /\ pipe' = [pipe EXCEPT ![s] = pipe[s] + 1]
                                 /\ wrote' = [wrote EXCEPT ![s] = wrote[s] + 1]
                                 /\ thread[s] = "reading"
        BY <3>2 DEF ChildWrites, Outputs, Streams
      <4>2. /\ pipe'[s] = pipe[s] + 1 /\ wrote'[s] = wrote[s] + 1
            /\ \A x \in Streams \ {s} : pipe'[x] = pipe[x] /\ wrote'[x] = wrote[x]
        BY <1>0, <4>1, OutTypes DEF PipeType
      <4>3. Drained'
        BY <1>0, <2>1, <2>2, <4>1, <4>2 DEF Drained
      <4>4. wrote'[s] - pipe'[s] = wrote[s] - pipe[s]
        <5>1. pipe[s] \in Int /\ wrote[s] \in Int
          BY <1>0, OutTypes
        <5> QED BY <4>2, <5>1
      <4> QED BY <4>2, <4>3, <4>4 DEF Left
    <3> QED BY <1>21, <3>1, <3>2
  <2>4. CliOpen => Delivery'
    BY <1>0, <2>1, <2>2, <2>3 DEF Delivery, HasExit, ExitIsLast, Flow
  <2> QED BY <1>0, <2>1, <2>2, <2>3, <2>4 DEF OutInv
<1>21a. CASE HeirWrites
  <2>1. UNCHANGED <<vmDown, cliDown, shown, cli, code, main, thread, child, relay>>
    BY <1>21a DEF HeirWrites, host
  <2>2. PICK s \in Streams : /\ pipe' = [pipe EXCEPT ![s] = pipe[s] + 1]
                             /\ wrote' = [wrote EXCEPT ![s] = wrote[s] + 1]
                             /\ thread[s] = "reading"
    BY <1>21a DEF HeirWrites, Outputs, Streams
  <2>3. main \notin {"closed", "stopped"}
    BY <1>0, <2>2 DEF Early
  <2>4. /\ (CliOpen' <=> CliOpen) /\ (HostOpen' <=> HostOpen) /\ DownQueue' = DownQueue
        /\ cli # "done" /\ (CliOpen => ~HasExit(DownQueue))
    BY <1>0, <2>1, <2>3 DEF CliOpen, Over, HostOpen, DownQueue, Delivery
  <2>5. /\ pipe'[s] = pipe[s] + 1 /\ wrote'[s] = wrote[s] + 1
        /\ \A x \in Streams \ {s} : pipe'[x] = pipe[x] /\ wrote'[x] = wrote[x]
    BY <1>0, <2>2, OutTypes DEF PipeType
  <2>6. Drained'
    BY <1>0, <2>1, <2>2, <2>4, <2>5 DEF Drained
  <2>7. wrote'[s] - pipe'[s] = wrote[s] - pipe[s]
    <3>1. pipe[s] \in Int /\ wrote[s] \in Int
      BY <1>0, OutTypes
    <3> QED BY <2>5, <3>1
  <2>8. \A x \in Streams : Left(x)' = Left(x)
    BY <2>5, <2>7 DEF Left
  <2>9. CliOpen => Delivery'
    BY <1>0, <2>1, <2>4, <2>8 DEF Delivery, HasExit, ExitIsLast, Flow
  <2> QED BY <1>0, <2>1, <2>4, <2>6, <2>9 DEF OutInv
<1>21b. CASE HeirReads \/ HeirEnds
  <2>1. /\ UNCHANGED <<vmDown, cliDown, shown, wrote, cli, code, main, thread>>
        /\ child'.st = child.st /\ child'.code = child.code
    BY <1>0, <1>21b, OutTypes DEF HeirReads, HeirEnds, host, ChildType
  <2>2. \A s \in Streams : pipe'[s] = pipe[s]
    BY <1>0, <1>21b, OutTypes DEF HeirReads, HeirEnds, PipeType, Streams
  <2> QED BY <1>2, <1>21b, <2>1, <2>2 DEF Next
<1>22. CASE UNCHANGED vars
  BY <1>0, <1>22 DEF vars, OutInv, Drained, CliOpen, Delivery, Over, DownQueue, HasExit, ExitIsLast,
                     Flow, Left, HostOpen, Reported
<1> QED BY <1>3, <1>4, <1>5, <1>6, <1>7, <1>8, <1>9, <1>10, <1>13, <1>14, <1>14a, <1>15, <1>16,
           <1>17, <1>18, <1>19, <1>20, <1>21, <1>21a, <1>21b, <1>22 DEF Next

-----------------------------------------------------------------------------
(* When exec_command returns the child's exit code, everything the child   *)
(* and its descendants wrote has been printed, on both streams (the exit   *)
(* frame of handle_exec_piped and handle_exec_tty follows both output      *)
(* threads); a pseudo-TTY that could not be duplicated gives code 1.       *)
THEOREM AllOutputIsShown == Spec => []OutputIsComplete
<1>1. OutInv => OutputIsComplete
  BY DEF OutInv, OutputIsComplete, Reported
<1> QED BY <1>1, OutInvInit, OutInvNext, PTL DEF Spec

(* The child finds the end of its input only when it has all of the user's *)
(* input, or the connection is gone: no chunk is left in any of the five   *)
(* places it passes through.                                               *)
THEOREM AllInputArrives == Spec => []EofMeansAllInput
<1>1. InInv => EofMeansAllInput
  <2> SUFFICES ASSUME InInv, thread["in"] = "ended", child.st = "running", HostOpen,
                      main = "serving"
               PROVE  input.ended /\ Reached = input.read
    BY DEF EofMeansAllInput
  <2>1. input.ended /\ UpQueue = <<>> /\ Follows(UpQueue, Reached, input.read, input.ended)
    BY DEF InInv
  <2>2. Len(UpQueue) = 0 /\ Reached \in Int
    BY <2>1, InTypes DEF InInv
  <2> QED BY <2>1, <2>2 DEF Follows
<1> QED BY <1>1, InInvInit, InInvNext, PTL DEF Spec
=============================================================================
