---------------------------- MODULE CommandProofs ---------------------------
(***************************************************************************)
(* A non-interactive command, for any number of lines, chunks and attempts *)
(* to reach the guest and any capacity of the sockets and pipes, with the  *)
(* CLI killed, the VM stopped, the daemon gone or a handler failing at any *)
(* moment: no exit code overtakes the output, the archive or the context   *)
(* it is about.                                                            *)
(***************************************************************************)
EXTENDS GuestCommand, Integers, FiniteSetTheorems, FunctionTheorems,
        SequenceTheorems, TLAPS

Message == [kind : {"command", "chunk", "line", "raw", "exit", "answer", "error"}, n : Int]

CliType == [at : {"packing", "header", "sending", "reading", "unpacking",
                  "done", "failed", "killed"},
            sent : Int, got : Int, temp : BOOLEAN, code : Int]
TarType == [unread : Int, printed : Int, owes : BOOLEAN, failed : BOOLEAN]
ChildType == [st : {"none", "running", "exited"}, code : Int, cut : BOOLEAN]
ReaderType == [Streams -> [pipe : Int, on : BOOLEAN]]
RelayType == [Threads -> {"off", "copying", "ended"}]
ChanType == Seq({"line", "done"})

Types ==
    /\ kind \in Kinds
    /\ cli \in CliType
    /\ shown \in Int /\ wrote \in Int /\ body \in Int /\ dir \in BOOLEAN
    /\ cliUp \in Seq(Message) /\ vmUp \in Seq(Message)
    /\ vmDown \in Seq(Message) /\ cliDown \in Seq(Message)
    /\ relay \in RelayType
    /\ main \in {"idle", "handling", "printing", "receiving", "reporting", "feeding",
                 "pulling", "streaming", "sending", "closed", "dropped", "stopped"}
    /\ tar \in TarType
    /\ child \in ChildType
    /\ reader \in ReaderType
    /\ chan \in ChanType

-----------------------------------------------------------------------------
(* Where the handler is, and what that says about the rest of the guest.   *)

Busy == {"handling", "printing", "receiving", "reporting", "feeding",
         "pulling", "streaming", "sending"}

MainFits ==
    /\ main = "printing" => kind = "plain"
    /\ main = "receiving" => kind \in Uploads
    /\ main = "reporting" => kind \in {"plain", "cp_to"}
    /\ main = "feeding" => kind = "login"
    /\ main = "pulling" => kind \in {"plain", "build"}
    /\ main = "streaming" => kind \in {"plain", "login", "build"}
    /\ main = "sending" => kind = "cp_from"

(* The directory and the archive of an upload.                             *)
Context ==
    /\ kind = "build" /\ main \in {"receiving", "pulling", "streaming"} => dir
    /\ kind \in Uploads /\ main \in {"pulling", "streaming"} => body = BodyLen /\ ~tar.failed
    /\ kind \in Uploads /\ main = "reporting" => body = BodyLen \/ ~HostOpen

(* The process and its threads.                                            *)
NoThreads == chan = <<>> /\ \A s \in Streams : ~reader[s].on
NoProcess == child.st = "none" /\ NoThreads /\ \A s \in Streams : reader[s].pipe = 0

Process ==
    /\ main \in Busy \ {"feeding", "streaming"} => NoProcess
    /\ main = "feeding" => NoThreads
    /\ main = "streaming" => \A s \in Streams : ~reader[s].on => reader[s].pipe = 0

(* A command that the guest has still to read.  For one without an archive *)
(* the connection may be idle again, but then no command is under way.     *)
Pending == Len(vmUp) + Len(cliUp)
Unstarted == main = "idle" /\ (kind \in Uploads \/ Pending > 0 \/ cli.at = "header")

Early ==
    /\ relay["A"] = "off" => /\ relay["B"] = "off" /\ main \in {"idle", "stopped"}
                             /\ vmUp = <<>> /\ vmDown = <<>> /\ cliDown = <<>>
    /\ cli.at \in {"packing", "sending"} => kind \in Uploads
    /\ kind \notin Uploads =>
          /\ Pending =< 1
          /\ cli.at = "header" => Pending = 0
          /\ main \in Busy => Pending = 0 /\ cli.at # "header"
    /\ Unstarted => NoProcess
    /\ Unstarted \/ main = "handling" =>
          /\ vmDown = <<>> /\ cliDown = <<>> /\ wrote = 0 /\ shown = 0
          /\ cli.got = 0 /\ cli.at \notin {"unpacking", "done"}

(* Lines and archives do not come in one answer.                           *)
Carries(q) ==
    \A i \in 1..Len(q) :
        /\ q[i].kind = "raw" => kind = "cp_from"
        /\ q[i].kind = "line" => kind # "cp_from"

Contents ==
    /\ Carries(cliDown) /\ Carries(vmDown)
    /\ cli.at = "unpacking" => kind = "cp_from"

Shape == Types /\ MainFits /\ Context /\ Process /\ Early /\ Contents

-----------------------------------------------------------------------------
(* The lines under way, and the message after which nothing is sent.       *)

LinesIn(q) == {i \in 1..Len(q) : q[i].kind = "line"}
Lines(q) == Cardinality(LinesIn(q))
ChanLinesIn(c) == {i \in 1..Len(c) : c[i] = "line"}
ChanLines(c) == Cardinality(ChanLinesIn(c))

Final(m) == m.kind \in {"exit", "answer"}
HasFinal(q) == \E i \in 1..Len(q) : Final(q[i])
EndsAtFinal(q) == \A i \in 1..Len(q) : Final(q[i]) => i = Len(q)
Answered == HasFinal(cliDown) \/ HasFinal(vmDown)

(* The handler is through with the command, and an upload was whole.       *)
Over ==
    /\ main \in {"idle", "closed", "stopped"} /\ ~Unstarted
    /\ child.st # "running"
    /\ kind \in Uploads => body = BodyLen

Sent == shown + Lines(cliDown) + Lines(vmDown)
InGuest == ChanLines(chan) + reader["out"].pipe + reader["err"].pipe

Delivery ==
    /\ EndsAtFinal(cliDown) /\ EndsAtFinal(vmDown)
    /\ HasFinal(cliDown) => vmDown = <<>>
    /\ Answered => Over /\ (child.cut \/ wrote = Sent)
    /\ HostOpen /\ main \in Busy => child.cut \/ wrote = Sent + InGuest

Answers ==
    /\ CliOpen => Delivery
    /\ cli.at = "done" => Over /\ (child.cut \/ shown = wrote)

-----------------------------------------------------------------------------
(* The answer to cp_from: the announcement, the chunks, the exit code.     *)

(* Messages of it that the CLI has taken.                                  *)
Consumed ==
    IF cli.at = "unpacking" THEN 1 + cli.got
    ELSE IF cli.got = BodyLen THEN 1 + BodyLen ELSE 0

Placed(q, before) ==
    \A i \in 1..Len(q) :
        /\ q[i].kind = "raw" => before + i = 1
        /\ q[i].kind = "exit" => before + i = BodyLen + 2
        /\ q[i].kind # "answer"

GotFits ==
    /\ cli.at = "unpacking" => cli.got \in 0..(BodyLen - 1)
    /\ cli.at \in {"header", "reading"} => cli.got \in {0, BodyLen}
    /\ cli.at = "done" => cli.got = BodyLen

InPlace == Placed(cliDown, Consumed) /\ Placed(vmDown, Consumed + Len(cliDown))

SentFits ==
    HostOpen /\ main = "sending" =>
        body \in 0..BodyLen /\ Consumed + Len(cliDown) + Len(vmDown) = 1 + body

Archive == kind = "cp_from" => GotFits /\ (CliOpen => InPlace /\ SentFits)

-----------------------------------------------------------------------------
(* A failure of tar rules a code 0 out.  It comes at a time when nothing   *)
(* has been answered yet.                                                  *)

Zero(m) == m.kind = "answer" \/ (m.kind = "exit" /\ m.n = 0)
NoZero(q) == \A i \in 1..Len(q) : ~Zero(q[i])

Unanswered == vmDown = <<>> /\ cliDown = <<>> /\ cli.at # "done"

Honest ==
    /\ main = "receiving" => Unanswered
    /\ kind \in Uploads /\ tar.failed =>
          NoZero(cliDown) /\ NoZero(vmDown) /\ (cli.at = "done" => cli.code # 0)

(* The inductive invariant.                                                *)
IInv == Shape /\ Answers /\ Archive /\ Honest

-----------------------------------------------------------------------------
(* The members of a queue that gets a message, and of one that gives one.  *)
LEMMA AppendFacts ==
  ASSUME NEW S, NEW q \in Seq(S), NEW f \in S
  PROVE  /\ Append(q, f) \in Seq(S) /\ Len(q) \in Nat /\ Len(Append(q, f)) = Len(q) + 1
         /\ Append(q, f)[Len(q) + 1] = f
         /\ \A i \in 1..Len(q) : Append(q, f)[i] = q[i]
  BY AppendProperties, LenProperties

LEMMA TailFacts ==
  ASSUME NEW S, NEW q \in Seq(S), q # <<>>
  PROVE  /\ Tail(q) \in Seq(S) /\ Len(q) \in Nat \ {0} /\ Len(Tail(q)) = Len(q) - 1
         /\ Head(q) \in S /\ Head(q) = q[1]
         /\ \A i \in 1..(Len(q) - 1) : Tail(q)[i] = q[i + 1]
<1>1. Head(q) = q[1] /\ Len(q) \in Nat \ {0}
  OBVIOUS
<1> QED BY <1>1, HeadTailProperties

(* Positions in a queue: a new last one, and all moved up by one.          *)
LEMMA CountAdded ==
  ASSUME NEW n \in Nat, NEW S \in SUBSET (1..n)
  PROVE  /\ IsFiniteSet(S) /\ Cardinality(S) \in Nat
         /\ Cardinality(S \cup {n + 1}) = Cardinality(S) + 1
<1>1. IsFiniteSet(1..n)
  BY FS_Interval
<1>2. IsFiniteSet(S) /\ Cardinality(S) \in Nat
  BY <1>1, FS_Subset, FS_CardinalityType
<1>3. n + 1 \notin S
  OBVIOUS
<1> QED BY <1>2, <1>3, FS_AddElement

LEMMA CountMoved ==
  ASSUME NEW n \in Nat, NEW S \in SUBSET (1..(n + 1))
  PROVE  Cardinality({i \in 1..n : i + 1 \in S}) =
            IF 1 \in S THEN Cardinality(S) - 1 ELSE Cardinality(S)
<1> DEFINE R == S \ {1}
           T == {i \in 1..n : i + 1 \in S}
           f == [i \in R |-> i - 1]
<1>1. IsFiniteSet(S) /\ Cardinality(S) \in Nat
  <2>1. n + 1 \in Nat
    OBVIOUS
  <2> QED BY <2>1, CountAdded
<1>2. IsFiniteSet(R) /\ Cardinality(R) = IF 1 \in S THEN Cardinality(S) - 1 ELSE Cardinality(S)
  BY <1>1, FS_RemoveElement
<1>3. \A i \in R : i \in Int /\ i - 1 \in T /\ i - 1 + 1 = i
  OBVIOUS
<1>4. \A j \in T : j + 1 \in R /\ j + 1 - 1 = j
  OBVIOUS
<1>5. f \in Bijection(R, T)
  <2>1. f \in [R -> T]
    BY <1>3
  <2>2. \A a, b \in R : f[a] = f[b] => a = b
    BY <1>3
  <2>3. \A t \in T : \E s \in R : f[s] = t
    BY <1>4
  <2> HIDE DEF f, R, T
  <2> QED BY <2>1, <2>2, <2>3, Fun_IsBij
<1>6. Cardinality(T) = Cardinality(R)
  <2> HIDE DEF f, R, T
  <2> QED BY <1>2, <1>5, FS_Bijection DEF ExistsBijection
<1> QED BY <1>2, <1>6

(* Lines in a queue.                                                       *)
LEMMA LinesSent ==
  ASSUME NEW q \in Seq(Message), NEW f \in Message
  PROVE  /\ Lines(q) \in Nat
         /\ Lines(Append(q, f)) = IF f.kind = "line" THEN Lines(q) + 1 ELSE Lines(q)
<1> DEFINE p == Append(q, f)
<1>1. /\ Len(q) \in Nat /\ Len(p) = Len(q) + 1 /\ p[Len(q) + 1] = f
      /\ \A i \in 1..Len(q) : p[i] = q[i]
  BY AppendFacts
<1> HIDE DEF p
<1>2. LinesIn(q) \in SUBSET (1..Len(q))
  BY DEF LinesIn
<1>3. LinesIn(p) = IF f.kind = "line" THEN LinesIn(q) \cup {Len(q) + 1} ELSE LinesIn(q)
  <2>1. \A i : i \in 1..Len(p) <=> i \in 1..Len(q) \/ i = Len(q) + 1
    BY <1>1
  <2> QED BY <1>1, <2>1 DEF LinesIn
<1>4. Lines(q) \in Nat /\ Lines(p) = IF f.kind = "line" THEN Lines(q) + 1 ELSE Lines(q)
  BY <1>1, <1>2, <1>3, CountAdded DEF Lines
<1> QED BY <1>4 DEF p

LEMMA LinesTaken ==
  ASSUME NEW q \in Seq(Message), q # <<>>
  PROVE  Lines(Tail(q)) = IF Head(q).kind = "line" THEN Lines(q) - 1 ELSE Lines(q)
<1> DEFINE p == Tail(q)
           n == Len(q) - 1
<1>1. /\ n \in Nat /\ Len(q) = n + 1 /\ Len(p) = n /\ Head(q) = q[1]
      /\ \A i \in 1..n : p[i] = q[i + 1]
  BY TailFacts
<1> HIDE DEF p, n
<1>2. LinesIn(q) \in SUBSET (1..(n + 1)) /\ (1 \in LinesIn(q) <=> Head(q).kind = "line")
  BY <1>1 DEF LinesIn
<1>3. LinesIn(p) = {i \in 1..n : i + 1 \in LinesIn(q)}
  <2>1. \A i \in 1..n : i + 1 \in 1..Len(q)
    BY <1>1
  <2> QED BY <1>1, <2>1 DEF LinesIn
<1>4. Lines(p) = IF Head(q).kind = "line" THEN Lines(q) - 1 ELSE Lines(q)
  BY <1>1, <1>2, <1>3, CountMoved DEF Lines
<1> QED BY <1>4 DEF p

LEMMA ChanSent ==
  ASSUME NEW c \in ChanType, NEW m \in {"line", "done"}
  PROVE  /\ ChanLines(c) \in Nat /\ Append(c, m) \in ChanType
         /\ ChanLines(Append(c, m)) = IF m = "line" THEN ChanLines(c) + 1 ELSE ChanLines(c)
<1> DEFINE p == Append(c, m)
<1>1. /\ Len(c) \in Nat /\ Len(p) = Len(c) + 1 /\ p[Len(c) + 1] = m /\ p \in ChanType
      /\ \A i \in 1..Len(c) : p[i] = c[i]
  BY AppendFacts DEF ChanType
<1> HIDE DEF p
<1>2. ChanLinesIn(c) \in SUBSET (1..Len(c))
  BY DEF ChanLinesIn
<1>3. ChanLinesIn(p) = IF m = "line" THEN ChanLinesIn(c) \cup {Len(c) + 1} ELSE ChanLinesIn(c)
  <2>1. \A i : i \in 1..Len(p) <=> i \in 1..Len(c) \/ i = Len(c) + 1
    BY <1>1
  <2> QED BY <1>1, <2>1 DEF ChanLinesIn
<1>4. ChanLines(c) \in Nat /\ ChanLines(p) = IF m = "line" THEN ChanLines(c) + 1 ELSE ChanLines(c)
  BY <1>1, <1>2, <1>3, CountAdded DEF ChanLines
<1> QED BY <1>1, <1>4 DEF p

LEMMA ChanTaken ==
  ASSUME NEW c \in ChanType, c # <<>>
  PROVE  /\ Tail(c) \in ChanType
         /\ ChanLines(Tail(c)) = IF Head(c) = "line" THEN ChanLines(c) - 1 ELSE ChanLines(c)
<1> DEFINE p == Tail(c)
           n == Len(c) - 1
<1>1. /\ n \in Nat /\ Len(c) = n + 1 /\ Len(p) = n /\ Head(c) = c[1] /\ p \in ChanType
      /\ \A i \in 1..n : p[i] = c[i + 1]
  BY TailFacts DEF ChanType
<1> HIDE DEF p, n
<1>2. ChanLinesIn(c) \in SUBSET (1..(n + 1)) /\ (1 \in ChanLinesIn(c) <=> Head(c) = "line")
  BY <1>1 DEF ChanLinesIn
<1>3. ChanLinesIn(p) = {i \in 1..n : i + 1 \in ChanLinesIn(c)}
  <2>1. \A i \in 1..n : i + 1 \in 1..Len(c)
    BY <1>1
  <2> QED BY <1>1, <2>1 DEF ChanLinesIn
<1>4. ChanLines(p) = IF Head(c) = "line" THEN ChanLines(c) - 1 ELSE ChanLines(c)
  BY <1>1, <1>2, <1>3, CountMoved DEF ChanLines
<1> QED BY <1>1, <1>4 DEF p

LEMMA NoLines ==
  /\ Lines(<<>>) = 0 /\ ~HasFinal(<<>>) /\ EndsAtFinal(<<>>)
  /\ ChanLines(<<>>) = 0 /\ ChanLines(<<"done">>) = 0
<1>1. LinesIn(<<>>) = {} /\ ChanLinesIn(<<>>) = {} /\ ChanLinesIn(<<"done">>) = {}
  BY DEF LinesIn, ChanLinesIn
<1>2. Cardinality({}) = 0
  BY FS_EmptySet
<1>3. ~HasFinal(<<>>) /\ EndsAtFinal(<<>>)
  BY DEF HasFinal, EndsAtFinal
<1> QED BY <1>1, <1>2, <1>3 DEF Lines, ChanLines

(* The last message of an answer.                                          *)
LEMMA FinalSent ==
  ASSUME NEW q \in Seq(Message), NEW f \in Message, ~HasFinal(q)
  PROVE  (HasFinal(Append(q, f)) <=> Final(f)) /\ EndsAtFinal(Append(q, f))
<1> DEFINE p == Append(q, f)
<1>1. /\ Len(q) \in Nat /\ Len(p) = Len(q) + 1 /\ p[Len(q) + 1] = f
      /\ \A i \in 1..Len(q) : p[i] = q[i]
  BY AppendFacts
<1> HIDE DEF p
<1>2. \A i : i \in 1..Len(p) <=> i \in 1..Len(q) \/ i = Len(q) + 1
  BY <1>1
<1>3. (HasFinal(p) <=> Final(f)) /\ EndsAtFinal(p)
  BY <1>1, <1>2 DEF HasFinal, EndsAtFinal
<1> QED BY <1>3 DEF p

LEMMA FinalTaken ==
  ASSUME NEW q \in Seq(Message), q # <<>>, EndsAtFinal(q)
  PROVE  /\ EndsAtFinal(Tail(q))
         /\ HasFinal(q) <=> Final(Head(q)) \/ HasFinal(Tail(q))
         /\ Final(Head(q)) => Tail(q) = <<>>
<1> DEFINE p == Tail(q)
<1>1. /\ Len(q) \in Nat \ {0} /\ Len(p) = Len(q) - 1 /\ Head(q) = q[1] /\ p \in Seq(Message)
      /\ \A i \in 1..(Len(q) - 1) : p[i] = q[i + 1]
  BY TailFacts
<1> HIDE DEF p
<1>2. /\ \A i \in 1..Len(p) : i + 1 \in 1..Len(q) /\ p[i] = q[i + 1] /\ (i + 1 = Len(q) => i = Len(p))
      /\ \A i \in 1..Len(q) : i = 1 \/ (i - 1 \in 1..Len(p) /\ p[i - 1] = q[i])
  BY <1>1
<1>3. EndsAtFinal(p)
  BY <1>2 DEF EndsAtFinal
<1>4. HasFinal(p) => HasFinal(q)
  BY <1>2 DEF HasFinal
<1>5. HasFinal(q) => Final(Head(q)) \/ HasFinal(p)
  BY <1>1, <1>2 DEF HasFinal
<1>6. Final(Head(q)) => HasFinal(q) /\ Len(q) = 1
  BY <1>1 DEF HasFinal, EndsAtFinal
<1>7. Len(q) = 1 => p = <<>>
  BY <1>1
<1> QED BY <1>3, <1>4, <1>5, <1>6, <1>7 DEF p

(* Places in the answer to cp_from.                                        *)
LEMMA PlacedSent ==
  ASSUME NEW q \in Seq(Message), NEW f \in Message, NEW n \in Int, Placed(q, n),
         f.kind = "raw" => n + Len(q) = 0,
         f.kind = "exit" => n + Len(q) = BodyLen + 1,
         f.kind # "answer"
  PROVE  Placed(Append(q, f), n)
<1> DEFINE p == Append(q, f)
<1>1. /\ Len(q) \in Nat /\ Len(p) = Len(q) + 1 /\ p[Len(q) + 1] = f
      /\ \A i \in 1..Len(q) : p[i] = q[i]
  BY AppendFacts
<1> HIDE DEF p
<1>2. \A i \in 1..Len(p) : i \in 1..Len(q) \/ i = Len(q) + 1
  BY <1>1
<1>3. BodyLen \in Int
  BY CommandAssumption
<1>4. Placed(p, n)
  BY <1>1, <1>2, <1>3 DEF Placed
<1> QED BY <1>4 DEF p

LEMMA PlacedTaken ==
  ASSUME NEW q \in Seq(Message), q # <<>>, NEW n \in Int, Placed(q, n)
  PROVE  /\ Placed(Tail(q), n + 1)
         /\ Head(q).kind = "raw" => n = 0
         /\ Head(q).kind = "exit" => n = BodyLen + 1
         /\ Head(q).kind # "answer"
<1> DEFINE p == Tail(q)
<1>1. /\ Len(q) \in Nat \ {0} /\ Len(p) = Len(q) - 1 /\ Head(q) = q[1]
      /\ \A i \in 1..(Len(q) - 1) : p[i] = q[i + 1]
  BY TailFacts
<1> HIDE DEF p
<1>2. \A i \in 1..Len(p) : i + 1 \in 1..Len(q) /\ p[i] = q[i + 1] /\ n + (i + 1) = n + 1 + i
  BY <1>1
<1>3. BodyLen \in Int
  BY CommandAssumption
<1>4. Placed(p, n + 1)
  BY <1>2 DEF Placed
<1>5. 1 \in 1..Len(q)
  BY <1>1
<1> QED BY <1>1, <1>3, <1>4, <1>5 DEF Placed, p

-----------------------------------------------------------------------------
(* What the actions make of the records.                                   *)

LEMMA CliEnding ==
  ASSUME cli \in CliType, NEW a \in {"done", "failed"}, NEW c \in Int, CliEnds(a, c)
  PROVE  cli' \in CliType /\ cli'.at = a /\ cli'.got = cli.got /\ cli'.code = c
  BY DEF CliType, CliEnds

LEMMA CliSteps ==
  ASSUME cli \in CliType, cliDown \in Seq(Message)
  PROVE  /\ CliPacks => /\ cli' \in CliType /\ cli'.got = cli.got
                        /\ cli'.at \in {"header", "failed"}
         /\ CliSendsHeader => /\ cli' \in CliType /\ cli'.got = cli.got
                              /\ \/ /\ cliUp' = Append(cliUp, Msg("command", 0))
                                    /\ cli'.at = IF kind \in Uploads THEN "sending" ELSE "reading"
                                 \/ cli'.at = "failed" /\ cliUp' = cliUp
         /\ CliSendsBody => /\ cli' \in CliType /\ cli'.got = cli.got
                            /\ \/ /\ cliUp' = Append(cliUp, Msg("chunk", cli.sent + 1))
                                  /\ cli'.at \in {"sending", "reading"}
                               \/ cli'.at = "failed" /\ cliUp' = cliUp
         /\ CliCannotRead \/ CliSeesEnd =>
               cli' \in CliType /\ cli'.got = cli.got /\ cli'.at = "failed"
         /\ CliUnpacks => /\ cli' \in CliType
                          /\ \/ /\ cli'.got = cli.got + 1
                                /\ cli'.at = IF cli.got + 1 < BodyLen THEN "unpacking" ELSE "reading"
                             \/ cli'.at = "failed"
         /\ CliKilled => cli' \in CliType /\ cli'.got = cli.got /\ cli'.at = "killed"
<1>0. 0 \in Int /\ 1 \in Int /\ cli.sent + 1 \in Int /\ cli.got + 1 \in Int
  BY DEF CliType
<1>1. CliPacks => cli' \in CliType /\ cli'.got = cli.got /\ cli'.at \in {"header", "failed"}
  BY DEF CliType, CliPacks
<1>2. ASSUME CliSendsHeader
      PROVE  /\ cli' \in CliType /\ cli'.got = cli.got
             /\ \/ /\ cliUp' = Append(cliUp, Msg("command", 0))
                   /\ cli'.at = IF kind \in Uploads THEN "sending" ELSE "reading"
                \/ cli'.at = "failed" /\ cliUp' = cliUp
  <2>1. CASE CliEnds("failed", 1) /\ UNCHANGED cliUp
    BY <1>0, <2>1, CliEnding
  <2>2. CASE /\ cliUp' = Append(cliUp, Msg("command", 0))
             /\ cli' = [cli EXCEPT !.at = IF kind \in Uploads THEN "sending" ELSE "reading"]
    BY <2>2 DEF CliType
  <2> QED BY <1>2, <2>1, <2>2 DEF CliSendsHeader
<1>3. ASSUME CliSendsBody
      PROVE  /\ cli' \in CliType /\ cli'.got = cli.got
             /\ \/ /\ cliUp' = Append(cliUp, Msg("chunk", cli.sent + 1))
                   /\ cli'.at \in {"sending", "reading"}
                \/ cli'.at = "failed" /\ cliUp' = cliUp
  <2>1. CASE CliEnds("failed", 1) /\ UNCHANGED cliUp
    BY <1>0, <2>1, CliEnding
  <2>2. CASE /\ cliUp' = Append(cliUp, Msg("chunk", cli.sent + 1))
             /\ cli' = [cli EXCEPT !.sent = cli.sent + 1]
    BY <1>0, <1>3, <2>2 DEF CliType, CliSendsBody
  <2>3. CASE /\ cliUp' = Append(cliUp, Msg("chunk", cli.sent + 1))
             /\ cli' = [cli EXCEPT !.sent = cli.sent + 1, !.at = "reading", !.temp = FALSE]
    BY <1>0, <2>3 DEF CliType
  <2> QED BY <1>3, <2>1, <2>2, <2>3 DEF CliSendsBody
<1>4. CliCannotRead \/ CliSeesEnd => cli' \in CliType /\ cli'.got = cli.got /\ cli'.at = "failed"
  BY <1>0, CliEnding DEF CliCannotRead, CliSeesEnd
<1>5. ASSUME CliUnpacks
      PROVE  /\ cli' \in CliType
             /\ \/ /\ cli'.got = cli.got + 1
                   /\ cli'.at = IF cli.got + 1 < BodyLen THEN "unpacking" ELSE "reading"
                \/ cli'.at = "failed"
  <2>1. CASE CliEnds("failed", 1)
    BY <1>0, <2>1, CliEnding
  <2>2. CASE cli' = [cli EXCEPT !.got = cli.got + 1,
                                !.at = IF cli.got + 1 < BodyLen THEN "unpacking" ELSE "reading"]
    <3> DEFINE a == IF cli.got + 1 < BodyLen THEN "unpacking" ELSE "reading"
               g == cli.got + 1
    <3>1. a \in {"unpacking", "reading"} /\ g \in Int
      BY <1>0
    <3>2. cli' = [cli EXCEPT !.got = g, !.at = a]
      BY <2>2
    <3> HIDE DEF a, g
    <3>3. cli' \in CliType /\ cli'.got = g /\ cli'.at = a
      BY <3>1, <3>2 DEF CliType
    <3> QED BY <3>3 DEF a, g
  <2> QED BY <1>5, <2>1, <2>2 DEF CliUnpacks
<1>6. CliKilled => cli' \in CliType /\ cli'.got = cli.got /\ cli'.at = "killed"
  BY DEF CliType, CliKilled
<1> QED BY <1>1, <1>2, <1>3, <1>4, <1>5, <1>6

(* The five answers the CLI may read.                                      *)
CliTakes(m) ==
    /\ cli' \in CliType /\ cli'.got = cli.got
    /\ \/ m.kind = "line" /\ shown' = shown + 1 /\ cli' = cli
       \/ m.kind = "raw" /\ cli'.at = "unpacking" /\ shown' = shown
       \/ /\ m.kind \in {"exit", "answer"} /\ cli'.at = "done" /\ shown' = shown
          /\ m.kind = "exit" => cli'.code = m.n
       \/ m.kind \in {"error", "raw"} /\ cli'.at = "failed" /\ shown' = shown

LEMMA CliReading ==
  ASSUME cli \in CliType, cliDown \in Seq(Message), CliReads
  PROVE  Head(cliDown) \in Message /\ CliTakes(Head(cliDown))
<1> DEFINE m == Head(cliDown)
<1>1. cliDown # <<>>
  BY DEF CliReads
<1>2. m \in Message
  BY <1>1, TailFacts
<1>3. m.n \in Int /\ 0 \in Int /\ 1 \in Int
  BY <1>2 DEF Message
<1>4. \/ m.kind = "line" /\ shown' = shown + 1 /\ UNCHANGED cli
      \/ m.kind = "raw" /\ cli' = [cli EXCEPT !.at = "unpacking"] /\ UNCHANGED shown
      \/ m.kind = "exit" /\ CliEnds("done", m.n) /\ UNCHANGED shown
      \/ m.kind = "answer" /\ CliEnds("done", 0) /\ UNCHANGED shown
      \/ m.kind \in {"error", "raw"} /\ CliEnds("failed", 1) /\ UNCHANGED shown
  BY DEF CliReads
<1> HIDE DEF m
<1>5. cli' = [cli EXCEPT !.at = "unpacking"]
      => cli' \in CliType /\ cli'.at = "unpacking" /\ cli'.got = cli.got
  BY DEF CliType
<1>6. CliTakes(m)
  BY <1>3, <1>4, <1>5, CliEnding DEF CliTakes
<1> QED BY <1>2, <1>6 DEF m

LEMMA ChildSteps ==
  ASSUME child \in ChildType
  PROVE  /\ \A st \in {"running", "exited"} :
               LET r == [child EXCEPT !.st = st]
               IN  r \in ChildType /\ r.st = st /\ r.cut = child.cut /\ r.code = child.code
         /\ \A c \in Int :
               LET r == [child EXCEPT !.st = "exited", !.code = c]
               IN  r \in ChildType /\ r.st = "exited" /\ r.cut = child.cut
         /\ LET r == [child EXCEPT !.cut = TRUE]
            IN  r \in ChildType /\ r.st = child.st /\ r.cut = TRUE
         /\ child.code \in Int /\ child.cut \in BOOLEAN
<1>1. \A st \in {"running", "exited"} :
         LET r == [child EXCEPT !.st = st]
         IN  r \in ChildType /\ r.st = st /\ r.cut = child.cut /\ r.code = child.code
  BY DEF ChildType
<1>2. \A c \in Int :
         LET r == [child EXCEPT !.st = "exited", !.code = c]
         IN  r \in ChildType /\ r.st = "exited" /\ r.cut = child.cut
  BY DEF ChildType
<1>3. LET r == [child EXCEPT !.cut = TRUE]
      IN  r \in ChildType /\ r.st = child.st /\ r.cut = TRUE
  BY DEF ChildType
<1>4. child.code \in Int /\ child.cut \in BOOLEAN
  BY DEF ChildType
<1> QED BY <1>1, <1>2, <1>3, <1>4

(* A stream's pipe and thread; the other stream's are left alone.          *)
Sets(s, n, on) ==
    /\ reader' \in ReaderType
    /\ reader'[s].pipe = n /\ reader'[s].on = on
    /\ \A t \in Streams : t # s => reader'[t] = reader[t]

LEMMA ReaderSteps ==
  ASSUME reader \in ReaderType, NEW s \in Streams
  PROVE  /\ reader[s].pipe \in Int /\ reader[s].on \in BOOLEAN
         /\ \A n \in Int : reader' = [reader EXCEPT ![s].pipe = n] => Sets(s, n, reader[s].on)
         /\ \A n \in Int, on \in BOOLEAN :
               reader' = [reader EXCEPT ![s] = [pipe |-> n, on |-> on]] => Sets(s, n, on)
         /\ reader' = [reader EXCEPT ![s].on = FALSE] => Sets(s, reader[s].pipe, FALSE)
<1>1. reader[s].pipe \in Int /\ reader[s].on \in BOOLEAN
  BY DEF ReaderType
<1>2. \A n \in Int : reader' = [reader EXCEPT ![s].pipe = n] => Sets(s, n, reader[s].on)
  BY DEF ReaderType, Sets
<1>3. \A n \in Int, on \in BOOLEAN :
         reader' = [reader EXCEPT ![s] = [pipe |-> n, on |-> on]] => Sets(s, n, on)
  BY DEF ReaderType, Sets
<1>4. reader' = [reader EXCEPT ![s].on = FALSE] => Sets(s, reader[s].pipe, FALSE)
  BY DEF ReaderType, Sets
<1> QED BY <1>1, <1>2, <1>3, <1>4

LEMMA ReaderStarts ==
  ASSUME reader \in ReaderType
  PROVE  /\ reader' = [s \in Streams |-> [pipe |-> 0, on |-> TRUE]]
            => reader' \in ReaderType /\ \A s \in Streams : reader'[s].pipe = 0 /\ reader'[s].on
         /\ reader' = [s \in Streams |-> [reader[s] EXCEPT !.on = TRUE]]
            => /\ reader' \in ReaderType
               /\ \A s \in Streams : reader'[s].pipe = reader[s].pipe /\ reader'[s].on
<1>1. reader' = [s \in Streams |-> [pipe |-> 0, on |-> TRUE]]
      => reader' \in ReaderType /\ \A s \in Streams : reader'[s].pipe = 0 /\ reader'[s].on
  BY DEF ReaderType
<1>2. reader' = [s \in Streams |-> [reader[s] EXCEPT !.on = TRUE]]
      => /\ reader' \in ReaderType
         /\ \A s \in Streams : reader'[s].pipe = reader[s].pipe /\ reader'[s].on
  BY DEF ReaderType
<1> QED BY <1>1, <1>2

-----------------------------------------------------------------------------
LEMMA TypesInit == Init => Types
<1> SUFFICES ASSUME Init PROVE Types
  OBVIOUS
<1>1. cli \in CliType
  BY DEF Init, CliType
<1>2. tar \in TarType /\ child \in ChildType
  BY DEF Init, TarType, ChildType
<1>3. reader \in ReaderType
  BY DEF Init, ReaderType
<1>4. relay \in RelayType
  BY DEF Init, ProxyInit, RelayType
<1>5. /\ <<>> \in Seq(Message) /\ <<>> \in ChanType
  BY DEF ChanType
<1>6. /\ cliUp = <<>> /\ vmUp = <<>> /\ vmDown = <<>> /\ cliDown = <<>> /\ chan = <<>>
  BY DEF Init, ProxyInit
<1>7. shown = 0 /\ wrote = 0 /\ body = 0 /\ dir = FALSE /\ main = "idle" /\ kind \in Kinds
  BY Zenon DEF Init
<1>8. dir \in BOOLEAN
  BY <1>7, Zenon
<1> QED BY <1>1, <1>2, <1>3, <1>4, <1>5, <1>6, <1>7, <1>8 DEF Types

LEMMA Parts ==
  ASSUME Types
  PROVE  /\ cli \in CliType /\ child \in ChildType /\ reader \in ReaderType /\ relay \in RelayType
         /\ chan \in ChanType /\ tar \in TarType
         /\ cliUp \in Seq(Message) /\ vmUp \in Seq(Message)
         /\ vmDown \in Seq(Message) /\ cliDown \in Seq(Message)
         /\ shown \in Int /\ wrote \in Int /\ body \in Int /\ kind \in Kinds
         /\ \A k \in {"command", "chunk", "line", "raw", "exit", "answer", "error"}, n \in Int :
               Msg(k, n) \in Message /\ Msg(k, n).kind = k /\ Msg(k, n).n = n
         /\ Error \in Message /\ Error.kind = "error"
  BY DEF Types, Message, Msg, Error

LEMMA TypesNext ==
  ASSUME Types, Next
  PROVE  Types'
<1>0. /\ cli \in CliType /\ child \in ChildType /\ reader \in ReaderType /\ relay \in RelayType
      /\ chan \in ChanType /\ tar \in TarType
      /\ cliUp \in Seq(Message) /\ vmUp \in Seq(Message)
      /\ vmDown \in Seq(Message) /\ cliDown \in Seq(Message)
      /\ shown \in Int /\ wrote \in Int /\ body \in Int
      /\ \A k \in {"command", "chunk", "line", "raw", "exit", "answer", "error"}, n \in Int :
            Msg(k, n) \in Message
      /\ Error \in Message
  BY Parts
<1>1. /\ \A q \in Seq(Message), f \in Message : Append(q, f) \in Seq(Message)
      /\ \A q \in Seq(Message) : q # <<>> => Head(q) \in Message /\ Tail(q) \in Seq(Message)
      /\ <<>> \in Seq(Message)
      /\ \A f \in Message : <<f>> \in Seq(Message)
  BY AppendFacts, TailFacts
<1>2. \A f \in Message : Send(f) => vmDown' \in Seq(Message)
  BY <1>0, <1>1 DEF Send
<1>3. /\ \A t \in Threads : [relay EXCEPT ![t] = "ended"] \in RelayType
      /\ [t \in Threads |-> "copying"] \in RelayType /\ [t \in Threads |-> "ended"] \in RelayType
      /\ "A" \in Threads /\ "B" \in Threads
  BY <1>0 DEF RelayType, Threads
<1>4. wrote + 1 \in Int /\ body + 1 \in Int /\ shown + 1 \in Int /\ BodyLen \in Int /\ After \in {"idle", "closed"}
  BY <1>0, CommandAssumption DEF After
<1> USE DEF onHost, inGuest, sockets, onHostSide, process
<1>5. CASE CliPacks \/ CliSeesEnd \/ CliCannotRead \/ CliKilled
  <2>1. cli' \in CliType
    BY <1>0, <1>5, CliSteps
  <2> QED BY <1>1, <1>5, <2>1 DEF Types, CliPacks, CliSeesEnd, CliCannotRead, CliKilled
<1>6. CASE CliSendsHeader \/ CliSendsBody
  <2>1. cli.sent + 1 \in Int
    BY <1>0 DEF CliType
  <2>2. Msg("command", 0) \in Message /\ Msg("chunk", cli.sent + 1) \in Message
    BY <1>0, <2>1
  <2>3. cli' \in CliType
    <3>1. CASE CliSendsHeader
      BY <1>0, <3>1, CliSteps
    <3>2. CASE CliSendsBody
      BY <1>0, <3>2, CliSteps
    <3> QED BY <1>6, <3>1, <3>2
  <2>4. cliUp' \in Seq(Message)
    <3>1. \/ cliUp' = cliUp \/ cliUp' = Append(cliUp, Msg("command", 0))
          \/ cliUp' = Append(cliUp, Msg("chunk", cli.sent + 1))
      BY <1>6 DEF CliSendsHeader, CliSendsBody
    <3> QED BY <1>0, <1>1, <2>2, <3>1
  <2> QED BY <1>6, <2>3, <2>4 DEF Types, CliSendsHeader, CliSendsBody
<1>7. CASE CliReads
  <2>1. CliTakes(Head(cliDown))
    BY <1>0, <1>7, CliReading
  <2>2. cli' \in CliType /\ shown' \in Int
    BY <1>0, <1>4, <2>1 DEF CliTakes
  <2>3. cliDown' \in Seq(Message)
    BY <1>0, <1>1, <1>7 DEF CliReads
  <2> QED BY <1>7, <2>2, <2>3 DEF Types, CliReads
<1>8. CASE CliUnpacks
  <2>1. cli' \in CliType /\ cliDown' \in Seq(Message)
    BY <1>0, <1>1, <1>8, CliSteps DEF CliUnpacks
  <2> QED BY <1>8, <2>1 DEF Types, CliUnpacks
<1>9. CASE DaemonConnects
  <2>1. vmUp' \in Seq(Message) /\ cliUp' \in Seq(Message)
    BY <1>0, <1>1, <1>9 DEF DaemonConnects, Dialling
  <2> QED BY <1>3, <1>9, <2>1 DEF Types, DaemonConnects
<1>10. CASE DialFails \/ DialCompletesLate
  BY <1>10 DEF Types, DialFails, DialCompletesLate
<1>11. CASE DaemonGivesUp
  <2>1. cliDown' \in Seq(Message)
    BY <1>0, <1>1, <1>11 DEF DaemonGivesUp
  <2> QED BY <1>3, <1>11, <2>1 DEF Types, DaemonGivesUp
<1>12. CASE RelayUp
  <2>1. CopyUp(CliOpen, GuestOpen)
    BY <1>12 DEF RelayUp
  <2>2. cliUp # <<>> => Append(vmUp, Head(cliUp)) \in Seq(Message) /\ Tail(cliUp) \in Seq(Message)
    BY <1>0, <1>1
  <2>3. vmUp' \in Seq(Message) /\ cliUp' \in Seq(Message)
    BY <1>0, <2>1, <2>2 DEF CopyUp
  <2>4. relay' \in RelayType
    BY <1>0, <1>3, <2>1 DEF CopyUp
  <2> QED BY <1>12, <2>3, <2>4 DEF Types, RelayUp, CopyUp
<1>13. CASE RelayDown
  <2>1. CopyDown(CliOpen, GuestOpen)
    BY <1>13 DEF RelayDown
  <2>2. vmDown # <<>> => Append(cliDown, Head(vmDown)) \in Seq(Message) /\ Tail(vmDown) \in Seq(Message)
    BY <1>0, <1>1
  <2>3. vmDown' \in Seq(Message) /\ cliDown' \in Seq(Message)
    BY <1>0, <2>1, <2>2 DEF CopyDown
  <2>4. relay' \in RelayType
    BY <1>0, <1>3, <2>1 DEF CopyDown
  <2> QED BY <1>13, <2>3, <2>4 DEF Types, RelayDown, CopyDown
<1>14. CASE VmStops
  <2>1. child' \in ChildType
    BY <1>0, <1>14, ChildSteps DEF VmStops
  <2> QED BY <1>1, <1>14, <2>1 DEF Types, VmStops
<1>15. CASE DaemonExits
  BY <1>1, <1>3, <1>15 DEF Types, DaemonExits, CopyingEnds
<1>16. CASE GuestReadsCommand \/ GuestSeesEnd
  <2>1. vmUp' \in Seq(Message)
    BY <1>0, <1>1, <1>16 DEF GuestReadsCommand, GuestSeesEnd
  <2> QED BY <1>16, <2>1 DEF Types, GuestReadsCommand, GuestSeesEnd
<1>17. CASE GuestRefuses \/ GuestDrops \/ GuestAnswers
  <2>1. vmDown' \in Seq(Message)
    BY <1>0, <1>2, <1>17 DEF GuestRefuses, GuestDrops, GuestAnswers
  <2>2. dir' \in BOOLEAN
    BY <1>17 DEF Types, GuestRefuses, GuestDrops, GuestAnswers
  <2> QED BY <1>4, <1>17, <2>1, <2>2 DEF Types, GuestRefuses, GuestDrops, GuestAnswers
<1>18. CASE HandlerPrints \/ PullProgress \/ RunDetached
  <2>1. vmDown' \in Seq(Message)
    BY <1>0, <1>2, <1>18 DEF HandlerPrints, PullProgress, RunDetached
  <2>2. wrote' \in Int
    BY <1>0, <1>4, <1>18 DEF HandlerPrints, PullProgress, RunDetached
  <2>3. main' \in {"idle", "closed", "printing", "pulling", "reporting"}
    BY <1>4, <1>18 DEF HandlerPrints, PullProgress, RunDetached
  <2> QED BY <1>18, <2>1, <2>2, <2>3 DEF Types, HandlerPrints, PullProgress, RunDetached
<1>19. CASE StartReceiving \/ StartPull \/ Received
  BY <1>19 DEF Types, StartReceiving, StartPull, Received
<1>20. CASE ReceiveChunk
  <2>1. vmUp' \in Seq(Message) /\ body' \in Int
    BY <1>0, <1>1, <1>4, <1>20 DEF ReceiveChunk
  <2>2. tar' \in TarType
    <3>1. PICK complains \in BOOLEAN, fails \in BOOLEAN :
             tar' = [tar EXCEPT !.owes = complains, !.failed = tar.failed \/ fails]
      BY <1>20 DEF ReceiveChunk
    <3>2. PICK f \in BOOLEAN : f = (tar.failed \/ fails)
      OBVIOUS
    <3>3. tar' = [tar EXCEPT !.owes = complains, !.failed = f]
      BY <3>1, <3>2
    <3> QED BY <1>0, <3>3 DEF TarType
  <2> QED BY <1>20, <2>1, <2>2 DEF Types, ReceiveChunk
<1>21. CASE TarComplains
  <2>1. tar.printed + 1 \in Int /\ tar.unread + 1 \in Int
    BY <1>0 DEF TarType
  <2>2. tar' \in TarType
    <3>1. \A n \in Int : [tar EXCEPT !.owes = FALSE, !.printed = n] \in TarType
      BY <1>0 DEF TarType
    <3>2. \A n, m \in Int : [tar EXCEPT !.owes = FALSE, !.printed = n, !.unread = m] \in TarType
      BY <1>0 DEF TarType
    <3> QED BY <1>21, <2>1, <3>1, <3>2 DEF TarComplains
  <2> QED BY <1>21, <2>2 DEF Types, TarComplains
<1>22. CASE Report
  <2>1. vmDown' \in Seq(Message)
    BY <1>0, <1>2, <1>22 DEF Report
  <2>2. tar' \in TarType
    <3>1. \A n \in Int : [tar EXCEPT !.unread = n] \in TarType
      BY <1>0 DEF TarType
    <3>2. 0 \in Int
      OBVIOUS
    <3> QED BY <1>0, <1>22, <3>1, <3>2 DEF Report
  <2>3. wrote' \in Int /\ main' \in {"idle", "closed", "reporting"}
    BY <1>0, <1>4, <1>22 DEF Report
  <2> QED BY <1>22, <2>1, <2>2, <2>3 DEF Types, Report
<1>23. CASE StartStreaming \/ StartFeeding
  <2>1. child' \in ChildType
    BY <1>0, <1>23, ChildSteps DEF StartStreaming, StartFeeding
  <2>2. reader' \in ReaderType
    BY <1>0, <1>23, ReaderStarts DEF StartStreaming, StartFeeding
  <2> QED BY <1>23, <2>1, <2>2 DEF Types, StartStreaming, StartFeeding
<1>24. CASE Feed
  <2>1. reader' \in ReaderType
    BY <1>0, <1>24, ReaderStarts DEF Feed
  <2> QED BY <1>24, <2>1 DEF Types, Feed
<1>25. ASSUME NEW s \in Streams, ReaderReads(s) \/ ReaderEnds(s) PROVE Types'
  <2>1. chan' \in ChanType
    BY <1>0, <1>25, ChanSent DEF ReaderReads, ReaderEnds
  <2>2. child' \in ChildType
    BY <1>0, <1>25, ChildSteps DEF ReaderReads, ReaderEnds
  <2>3. reader[s].pipe \in Int /\ reader[s].pipe - 1 \in Int /\ 0 \in Int /\ FALSE \in BOOLEAN
    BY <1>0 DEF ReaderType
  <2>4. reader' \in ReaderType
    BY <1>0, <1>25, <2>3, ReaderSteps DEF ReaderReads, ReaderEnds, Sets
  <2> QED BY <1>25, <2>1, <2>2, <2>4 DEF Types, ReaderReads, ReaderEnds
<1>26. CASE StreamLine \/ StreamDone
  <2>1. vmDown' \in Seq(Message)
    BY <1>0, <1>2, <1>26 DEF StreamLine, StreamDone
  <2>2. chan' \in ChanType
    BY <1>0, <1>26, ChanTaken DEF StreamLine, StreamDone
  <2>3. dir' \in BOOLEAN
    BY <1>26 DEF Types, StreamLine, StreamDone
  <2> QED BY <1>26, <2>1, <2>2, <2>3 DEF Types, StreamLine, StreamDone
<1>27. CASE StreamEnds
  <2>1. vmDown' \in Seq(Message)
    BY <1>0, <1>2, <1>27, ChildSteps DEF StreamEnds
  <2>2. chan' \in ChanType
    BY <1>27 DEF StreamEnds, ChanType
  <2> QED BY <1>4, <1>27, <2>1, <2>2 DEF Types, StreamEnds
<1>28. CASE SendArchive
  <2>1. vmDown' \in Seq(Message)
    BY <1>0, <1>2, <1>4, <1>28 DEF SendArchive
  <2>2. body' \in Int
    BY <1>0, <1>4, <1>28 DEF SendArchive
  <2> QED BY <1>28, <2>1, <2>2 DEF Types, SendArchive
<1>29. CASE ChildWrites
  <2>1. reader' \in ReaderType
    <3>1. PICK s \in Streams : reader' = [reader EXCEPT ![s].pipe = reader[s].pipe + 1]
      BY <1>29 DEF ChildWrites
    <3>2. reader[s].pipe + 1 \in Int
      BY <1>0 DEF ReaderType
    <3> QED BY <1>0, <3>1, <3>2, ReaderSteps DEF Sets
  <2> QED BY <1>4, <1>29, <2>1 DEF Types, ChildWrites
<1>30. CASE ChildExits
  <2>1. child' \in ChildType
    <3>1. PICK c \in 0..1 : child' = [child EXCEPT !.st = "exited", !.code = c]
      BY <1>30 DEF ChildExits
    <3>2. c \in Int
      OBVIOUS
    <3> QED BY <1>0, <3>1, <3>2 DEF ChildType
  <2> QED BY <1>30, <2>1 DEF Types, ChildExits
<1> QED BY <1>5, <1>6, <1>7, <1>8, <1>9, <1>10, <1>11, <1>12, <1>13, <1>14, <1>15, <1>16, <1>17,
           <1>18, <1>19, <1>20, <1>21, <1>22, <1>23, <1>24, <1>25, <1>26, <1>27, <1>28, <1>29, <1>30
        DEF Next, Cli, Daemon, Handler

-----------------------------------------------------------------------------
(* The daemon does not come back.                                          *)
LEMMA ClosedStays ==
  ASSUME Types, Next
  PROVE  HostOpen' => HostOpen
<1> USE DEF onHost, inGuest, sockets, onHostSide, process, HostOpen
<1>0. relay \in RelayType
  BY DEF Types
<1>1. CASE UNCHANGED relay
  BY <1>1
<1>2. CASE Cli \/ CliKilled \/ CliCannotRead
  BY <1>1, <1>2 DEF Cli, CliPacks, CliSendsHeader, CliSendsBody, CliReads, CliUnpacks, CliSeesEnd,
                    CliKilled, CliCannotRead
<1>3. CASE RelayUp \/ RelayDown
  BY <1>0, <1>3 DEF RelayUp, RelayDown, CopyUp, CopyDown, RelayType, Threads
<1>4. CASE DaemonConnects \/ DaemonGivesUp \/ DaemonExits
  BY <1>0, <1>4 DEF DaemonConnects, Dialling, DaemonGivesUp, DaemonExits, CopyingEnds
<1>5. CASE DialFails \/ DialCompletesLate \/ VmStops \/ GuestRefuses \/ GuestDrops \/ Handler \/ TarComplains
  BY <1>1, <1>5 DEF DialFails, DialCompletesLate, VmStops, GuestRefuses, GuestDrops, TarComplains, Handler,
        GuestReadsCommand, GuestSeesEnd, GuestAnswers, HandlerPrints, StartFeeding, Feed, StartReceiving,
        ReceiveChunk, Received, Report, PullProgress, StartPull, StartStreaming, RunDetached, StreamLine,
        StreamDone, StreamEnds, SendArchive
<1>6. CASE (\E s \in Streams : ReaderReads(s) \/ ReaderEnds(s)) \/ ChildWrites \/ ChildExits
  BY <1>1, <1>6 DEF ReaderReads, ReaderEnds, ChildWrites, ChildExits
<1> QED BY <1>2, <1>3, <1>4, <1>5, <1>6 DEF Next, Daemon

(* Only a chunk makes tar fail.                                            *)
LEMMA TarKept ==
  ASSUME Types, Next, ~ReceiveChunk
  PROVE  tar'.failed = tar.failed
<1> USE DEF onHost, inGuest, sockets, onHostSide, process
<1>0. tar \in TarType
  BY DEF Types
<1>1. CASE UNCHANGED tar
  BY <1>1
<1>2. CASE Cli \/ CliKilled \/ CliCannotRead
  BY <1>1, <1>2 DEF Cli, CliPacks, CliSendsHeader, CliSendsBody, CliReads, CliUnpacks, CliSeesEnd,
                    CliKilled, CliCannotRead
<1>3. CASE RelayUp \/ RelayDown \/ Daemon \/ DaemonExits
  BY <1>1, <1>3 DEF RelayUp, RelayDown, Daemon, DaemonConnects, DialFails, DaemonGivesUp, DaemonExits
<1>4. CASE DialCompletesLate \/ VmStops \/ GuestRefuses \/ GuestDrops
  BY <1>1, <1>4 DEF DialCompletesLate, VmStops, GuestRefuses, GuestDrops
<1>5. CASE TarComplains
  BY <1>0, <1>5 DEF TarComplains, TarType
<1>6. CASE Report
  BY <1>0, <1>6 DEF Report, TarType
<1>7. CASE Handler /\ ~Report
  BY <1>1, <1>7 DEF Handler, GuestReadsCommand, GuestSeesEnd, GuestAnswers, HandlerPrints, StartFeeding, Feed,
        StartReceiving, Received, PullProgress, StartPull, StartStreaming, RunDetached, StreamLine, StreamDone,
        StreamEnds, SendArchive
<1>8. CASE (\E s \in Streams : ReaderReads(s) \/ ReaderEnds(s)) \/ ChildWrites \/ ChildExits
  BY <1>1, <1>8 DEF ReaderReads, ReaderEnds, ChildWrites, ChildExits
<1> QED BY <1>2, <1>3, <1>4, <1>5, <1>6, <1>7, <1>8 DEF Next

LEMMA FitsNext ==
  ASSUME Types, MainFits, Context, Next
  PROVE  MainFits' /\ Context' /\ kind' = kind
<1> USE DEF onHost, inGuest, sockets, onHostSide, process, MainFits, Context, Uploads, Questions
<1>0. kind \in Kinds
  BY DEF Types
<1>h. HostOpen' => HostOpen
  BY ClosedStays
<1>f. ~ReceiveChunk => tar'.failed = tar.failed
  BY TarKept
<1>1. CASE UNCHANGED <<kind, main, dir, body, tar>>
  BY <1>1, <1>h
<1>2. CASE Cli \/ CliKilled \/ CliCannotRead
  BY <1>1, <1>2 DEF Cli, CliPacks, CliSendsHeader, CliSendsBody, CliReads, CliUnpacks, CliSeesEnd,
                    CliKilled, CliCannotRead
<1>3. CASE DaemonConnects \/ DialFails \/ DialCompletesLate \/ RelayUp \/ RelayDown \/ DaemonExits
  BY <1>1, <1>3 DEF DaemonConnects, DialFails, DialCompletesLate, RelayUp, RelayDown, DaemonExits
<1>4. CASE DaemonGivesUp \/ VmStops
  BY <1>4 DEF DaemonGivesUp, VmStops
<1>5. CASE GuestReadsCommand \/ GuestSeesEnd \/ GuestDrops \/ GuestAnswers
  BY <1>5 DEF GuestReadsCommand, GuestSeesEnd, GuestDrops, GuestAnswers, After
<1>6. CASE GuestRefuses
  BY <1>6 DEF GuestRefuses, After
<1>7. CASE HandlerPrints \/ PullProgress \/ RunDetached
  BY <1>7 DEF HandlerPrints, PullProgress, RunDetached, After
<1>8. CASE StartReceiving \/ StartPull \/ Received \/ ReceiveChunk \/ TarComplains
  BY <1>h, <1>8 DEF StartReceiving, StartPull, Received, Copied, TarSucceeds, ReceiveChunk, TarComplains
<1>9. CASE Report
  BY <1>h, <1>9 DEF Report, After
<1>10. CASE StartStreaming \/ StartFeeding \/ Feed
  BY <1>10 DEF StartStreaming, StartFeeding, Feed
<1>11. CASE StreamLine \/ StreamDone \/ StreamEnds
  BY <1>11 DEF StreamLine, StreamDone, StreamEnds, After
<1>12. CASE SendArchive
  BY <1>12 DEF SendArchive
<1>13. CASE (\E s \in Streams : ReaderReads(s) \/ ReaderEnds(s)) \/ ChildWrites \/ ChildExits
  BY <1>1, <1>13 DEF ReaderReads, ReaderEnds, ChildWrites, ChildExits
<1> QED BY <1>2, <1>3, <1>4, <1>5, <1>6, <1>7, <1>8, <1>9, <1>10, <1>11, <1>12, <1>13
        DEF Next, Daemon, Handler

LEMMA ProcessNext ==
  ASSUME Shape, Next
  PROVE  Process'
<1> USE DEF onHost, inGuest, sockets, onHostSide, process, Busy
<1>0. Types /\ MainFits /\ Process /\ Early /\ reader \in ReaderType /\ child \in ChildType
  BY DEF Shape, Types
<1>1. CASE UNCHANGED <<main, child, reader, chan>>
  BY <1>0, <1>1 DEF Process, NoProcess, NoThreads
<1>2. CASE Cli \/ CliKilled \/ CliCannotRead
  BY <1>1, <1>2 DEF Cli, CliPacks, CliSendsHeader, CliSendsBody, CliReads, CliUnpacks, CliSeesEnd,
                    CliKilled, CliCannotRead
<1>3. CASE DaemonConnects \/ DialFails \/ DialCompletesLate \/ RelayUp \/ RelayDown \/ DaemonExits
  BY <1>1, <1>3 DEF DaemonConnects, DialFails, DialCompletesLate, RelayUp, RelayDown, DaemonExits
<1>4. CASE main' \in {"idle", "closed", "dropped", "stopped"}
  BY <1>4 DEF Process
<1>5. CASE DaemonGivesUp \/ VmStops \/ GuestSeesEnd \/ GuestDrops \/ GuestAnswers \/ GuestRefuses \/ StreamEnds
  BY <1>4, <1>5 DEF DaemonGivesUp, VmStops, GuestSeesEnd, GuestDrops, GuestAnswers, GuestRefuses,
                    StreamEnds, After
<1>6. CASE GuestReadsCommand
  <2>1. Len(vmUp) \in Nat \ {0} /\ Len(cliUp) \in Nat /\ main = "idle"
    BY <1>0, <1>6, TailFacts, LenProperties DEF GuestReadsCommand, Types
  <2>2. Unstarted
    BY <2>1 DEF Unstarted, Pending
  <2>3. NoProcess
    BY <1>0, <2>2 DEF Early
  <2> QED BY <1>6, <2>3 DEF GuestReadsCommand, Process, NoProcess, NoThreads
<1>7. CASE HandlerPrints \/ PullProgress \/ RunDetached \/ StartReceiving \/ StartPull \/ Received
           \/ ReceiveChunk \/ TarComplains \/ Report \/ SendArchive
  <2>1. UNCHANGED <<child, reader, chan>>
    BY <1>7 DEF HandlerPrints, PullProgress, RunDetached, StartReceiving, StartPull, Received,
                ReceiveChunk, TarComplains, Report, SendArchive
  <2>2. main \in Busy \ {"feeding", "streaming"}
    BY <1>7 DEF HandlerPrints, PullProgress, RunDetached, StartReceiving, StartPull, Received,
                ReceiveChunk, TarComplains, Report, SendArchive
  <2>3. main' \notin {"feeding", "streaming"}
    BY <1>7, <2>2 DEF HandlerPrints, PullProgress, RunDetached, StartReceiving, StartPull, Received,
                      ReceiveChunk, TarComplains, Report, SendArchive, After
  <2>4. NoProcess
    BY <1>0, <2>2 DEF Process
  <2> QED BY <2>1, <2>3, <2>4 DEF Process, NoProcess, NoThreads
<1>8. CASE StartStreaming
  BY <1>0, <1>8, ReaderStarts DEF StartStreaming, Process
<1>9. CASE StartFeeding
  <2>1. NoProcess
    BY <1>0, <1>9 DEF Process, StartFeeding
  <2> QED BY <1>9, <2>1 DEF StartFeeding, Process, NoProcess, NoThreads
<1>10. CASE Feed
  <2>1. CASE main' = "streaming" /\ reader' = [s \in Streams |-> [reader[s] EXCEPT !.on = TRUE]]
    BY <1>0, <2>1, ReaderStarts DEF Process
  <2> QED BY <1>4, <1>10, <2>1 DEF Feed
<1>11. CASE StreamLine \/ StreamDone
  <2>1. UNCHANGED <<child, reader>> /\ main = "streaming" /\ main' \in {"streaming", "closed"}
    BY <1>11 DEF StreamLine, StreamDone
  <2> QED BY <1>0, <2>1 DEF Process
<1>12. ASSUME NEW s \in Streams, ReaderReads(s) \/ ReaderEnds(s) PROVE Process'
  <2>1. reader[s].on /\ main' = main
    BY <1>12 DEF ReaderReads, ReaderEnds
  <2>2. main \notin Busy \/ main = "streaming"
    BY <1>0, <2>1 DEF Process, NoProcess, NoThreads
  <2>3. reader[s].pipe \in Int /\ reader[s].pipe - 1 \in Int /\ 0 \in Int /\ FALSE \in BOOLEAN
    BY <1>0 DEF ReaderType
  <2>4. \/ Sets(s, reader[s].pipe - 1, reader[s].on)
        \/ Sets(s, 0, FALSE)
        \/ Sets(s, reader[s].pipe, FALSE) /\ reader[s].pipe = 0
    <3>1. \/ reader' = [reader EXCEPT ![s].pipe = reader[s].pipe - 1]
          \/ reader' = [reader EXCEPT ![s] = [pipe |-> 0, on |-> FALSE]]
          \/ reader' = [reader EXCEPT ![s].on = FALSE] /\ reader[s].pipe = 0
      BY <1>12 DEF ReaderReads, ReaderEnds
    <3> QED BY <1>0, <2>3, <3>1, ReaderSteps
  <2>5. main = "streaming" => \A t \in Streams : ~reader'[t].on => reader'[t].pipe = 0
    BY <1>0, <2>1, <2>4 DEF Process, Sets
  <2> QED BY <2>1, <2>2, <2>5 DEF Process
<1>13. CASE ChildWrites
  <2>1. PICK s \in Streams : /\ reader[s].on \/ main = "feeding"
                             /\ reader' = [reader EXCEPT ![s].pipe = reader[s].pipe + 1]
    BY <1>13 DEF ChildWrites
  <2>2. child.st = "running" /\ main' = main /\ chan' = chan
    BY <1>13 DEF ChildWrites
  <2>3. main \notin Busy \/ main \in {"feeding", "streaming"}
    BY <1>0, <2>2 DEF Process, NoProcess
  <2>4. reader[s].pipe + 1 \in Int
    BY <1>0 DEF ReaderType
  <2>5. Sets(s, reader[s].pipe + 1, reader[s].on)
    BY <1>0, <2>1, <2>4, ReaderSteps
  <2>6. main = "feeding" => \A t \in Streams : ~reader'[t].on
    BY <1>0, <2>5 DEF Process, NoThreads, Sets
  <2>7. main = "streaming" => \A t \in Streams : ~reader'[t].on => reader'[t].pipe = 0
    BY <1>0, <2>1, <2>5 DEF Process, Sets
  <2>8. main = "feeding" => chan' = <<>>
    BY <1>0, <2>2 DEF Process, NoThreads
  <2> QED BY <2>2, <2>3, <2>6, <2>7, <2>8 DEF Process, NoThreads
<1>14. CASE ChildExits
  <2>1. child.st = "running" /\ UNCHANGED <<main, reader, chan>>
    BY <1>14 DEF ChildExits
  <2>2. main \notin Busy \/ main \in {"feeding", "streaming"}
    BY <1>0, <2>1 DEF Process, NoProcess
  <2> QED BY <1>0, <2>1, <2>2 DEF Process, NoThreads
<1> QED BY <1>2, <1>3, <1>5, <1>6, <1>7, <1>8, <1>9, <1>10, <1>11, <1>12, <1>13, <1>14
        DEF Next, Daemon, Handler

(* A handler at work: it has read its command, and when it returns to the  *)
(* loop no other one is under way.                                         *)
LEMMA HandlerAtWork ==
  ASSUME Shape, main \in Busy, UNCHANGED <<onHost, relay, cliUp, cliDown>>,
         vmUp' \in Seq(Message), Len(vmUp') =< Len(vmUp), main' # "handling",
         main' = "idle" => kind \notin Uploads
  PROVE  Early' /\ ~Unstarted'
<1>0. Early /\ cli \in CliType
  BY DEF Shape, Types
<1>1. relay["A"] # "off" /\ relay' = relay /\ cli' = cli /\ kind' = kind
  BY <1>0 DEF Early, Busy, onHost
<1>2. Len(vmUp) \in Nat /\ Len(cliUp) \in Nat /\ Len(vmUp') \in Nat /\ cliUp' = cliUp
  BY LenProperties DEF Shape, Types
<1>3. kind \notin Uploads => Pending = 0 /\ cli.at # "header" /\ Pending' = 0
  BY <1>0, <1>2 DEF Early, Pending
<1>4. ~Unstarted'
  BY <1>1, <1>3 DEF Unstarted
<1> QED BY <1>0, <1>1, <1>3, <1>4 DEF Early

(* A command that was started is not unstarted again.                      *)
LEMMA EarlyNext ==
  ASSUME Shape, Next
  PROVE  Early' /\ (Unstarted' => Unstarted)
<1> USE DEF onHost, inGuest, sockets, onHostSide, process
<1>0. /\ Types /\ MainFits /\ Process /\ Early /\ reader \in ReaderType /\ child \in ChildType
      /\ cli \in CliType /\ relay \in RelayType
  BY DEF Shape, Types
<1>t. Types' /\ kind' = kind
  BY <1>0, TypesNext, FitsNext DEF Shape
<1>1. /\ Len(vmUp) \in Nat /\ Len(cliUp) \in Nat /\ Len(vmUp') \in Nat /\ Len(cliUp') \in Nat
      /\ cliUp \in Seq(Message) /\ vmUp \in Seq(Message) /\ vmUp' \in Seq(Message)
      /\ cliDown \in Seq(Message) /\ vmDown \in Seq(Message)
  BY <1>0, <1>t, LenProperties DEF Types
<1>2. CASE CliPacks
  <2>1. cli.at = "packing" /\ cli'.at \in {"header", "failed"} /\ cli'.got = cli.got
    BY <1>0, <1>1, <1>2, CliSteps DEF CliPacks, Types
  <2>2. kind \in Uploads
    BY <1>0, <2>1 DEF Early
  <2> QED BY <1>0, <1>2, <1>t, <2>1, <2>2 DEF CliPacks, Early, Unstarted, Pending, NoProcess, NoThreads
<1>3. CASE CliSendsHeader
  <2>1. /\ cli.at = "header" /\ cli'.got = cli.got
        /\ cli'.at \in {IF kind \in Uploads THEN "sending" ELSE "reading", "failed"}
        /\ cliUp' = cliUp \/ cliUp' = Append(cliUp, Msg("command", 0))
    BY <1>0, <1>1, <1>3, CliSteps DEF CliSendsHeader
  <2>2. Msg("command", 0) \in Message
    BY <1>0, Parts
  <2>3. Len(cliUp') = Len(cliUp) \/ Len(cliUp') = Len(cliUp) + 1
    BY <1>1, <2>1, <2>2, AppendFacts
  <2>4. UNCHANGED <<main, vmUp, vmDown, cliDown, relay, wrote, shown, child, reader, chan>>
    BY <1>3 DEF CliSendsHeader
  <2>5. Pending' \in {Pending, Pending + 1} /\ Pending \in Nat
    <3>1. Pending = Len(vmUp) + Len(cliUp) /\ Pending' = Len(vmUp) + Len(cliUp')
      BY <2>4 DEF Pending
    <3>2. Pending' = Pending \/ Pending' = Pending + 1
      BY <1>1, <2>3, <3>1
    <3> QED BY <1>1, <3>1, <3>2
  <2>6. kind \notin Uploads => Pending = 0 /\ main \notin Busy
    BY <1>0, <2>1 DEF Early
  <2>7. Unstarted' => Unstarted
    BY <2>1, <2>4 DEF Unstarted
  <2> QED BY <1>0, <1>t, <2>1, <2>4, <2>5, <2>6, <2>7 DEF Early, NoProcess, NoThreads
<1>4. CASE CliSendsBody \/ CliCannotRead
  <2>1. cli.at = "sending" /\ cli'.at \in {"sending", "reading", "failed"} /\ cli'.got = cli.got
    BY <1>0, <1>1, <1>4, CliSteps DEF CliSendsBody, CliCannotRead
  <2>2. kind \in Uploads
    BY <1>0, <2>1 DEF Early
  <2>3. UNCHANGED <<main, vmUp, vmDown, cliDown, relay, wrote, shown, child, reader, chan>>
    BY <1>4 DEF CliSendsBody, CliCannotRead
  <2>4. Unstarted' => Unstarted
    BY <1>t, <2>1, <2>2, <2>3 DEF Unstarted
  <2> QED BY <1>0, <1>t, <2>1, <2>2, <2>3, <2>4 DEF Early, NoProcess, NoThreads
<1>5. CASE CliReads \/ CliUnpacks
  <2>1. cliDown # <<>> /\ cli.at \in {"reading", "unpacking"}
    BY <1>5 DEF CliReads, CliUnpacks
  <2>2. cli'.at \in {"reading", "unpacking", "done", "failed"}
    <3>1. CASE CliReads
      BY <1>0, <1>1, <2>1, <3>1, CliReading DEF CliTakes
    <3>2. CASE CliUnpacks
      BY <1>0, <1>1, <3>2, CliSteps
    <3> QED BY <1>5, <3>1, <3>2
  <2>3. UNCHANGED <<main, vmUp, cliUp, vmDown, relay>>
    BY <1>5 DEF CliReads, CliUnpacks
  <2>4. relay["A"] # "off" /\ ~Unstarted /\ main # "handling"
    BY <1>0, <2>1 DEF Early
  <2>5. Pending' = Pending /\ ~Unstarted'
    BY <1>t, <2>2, <2>3, <2>4 DEF Pending, Unstarted
  <2> QED BY <1>0, <1>t, <2>2, <2>3, <2>4, <2>5 DEF Early
<1>6. CASE CliSeesEnd \/ CliKilled
  <2>1. cli'.at \in {"failed", "killed"} /\ cli'.got = cli.got
    <3>1. CASE CliSeesEnd
      BY <1>0, <1>1, <3>1, CliSteps
    <3>2. CASE CliKilled
      BY <1>0, <1>1, <3>2, CliSteps
    <3> QED BY <1>6, <3>1, <3>2
  <2>2. /\ UNCHANGED <<main, vmUp, cliUp, vmDown, relay, wrote, shown, child, reader, chan>>
        /\ cliDown' \in {cliDown, <<>>}
    BY <1>6 DEF CliSeesEnd, CliKilled
  <2>3. Pending' = Pending /\ (Unstarted' => Unstarted)
    BY <1>t, <2>1, <2>2 DEF Pending, Unstarted
  <2> QED BY <1>0, <1>t, <2>1, <2>2, <2>3 DEF Early, NoProcess, NoThreads
<1>7. CASE DaemonConnects
  <2>1. /\ relay["A"] = "off" /\ cliUp # <<>> /\ relay'["A"] = "copying"
        /\ vmUp' = <<Head(cliUp)>> /\ cliUp' = Tail(cliUp)
        /\ UNCHANGED <<cli, main, vmDown, cliDown, wrote, shown, child, reader, chan>>
    BY <1>7 DEF DaemonConnects, Dialling, Threads
  <2>2. vmUp = <<>> /\ Len(vmUp) = 0 /\ Len(vmUp') = 1
    BY <1>0, <2>1 DEF Early
  <2>3. Len(cliUp') = Len(cliUp) - 1
    BY <1>1, <2>1, TailFacts
  <2>4. Pending' = Pending /\ (Unstarted' <=> Unstarted)
    <3>1. Pending' = Pending
      BY <1>1, <2>2, <2>3 DEF Pending
    <3> QED BY <1>t, <2>1, <3>1 DEF Unstarted
  <2> QED BY <1>0, <1>t, <2>1, <2>4 DEF Early, NoProcess, NoThreads
<1>8. CASE DialFails \/ DialCompletesLate
  BY <1>0, <1>8, <1>t DEF DialFails, DialCompletesLate, Early, Unstarted, Pending, NoProcess, NoThreads
<1>9. CASE DaemonGivesUp
  <2>1. /\ relay["A"] = "off" /\ relay'["A"] = "ended" /\ UNCHANGED <<cli, cliUp, vmUp>>
        /\ main' \in {"closed", "stopped"}
    BY <1>9 DEF DaemonGivesUp, Threads
  <2>2. Pending' = Pending /\ ~Unstarted'
    BY <2>1 DEF Pending, Unstarted
  <2> QED BY <1>0, <1>t, <2>1, <2>2 DEF Early, Busy
<1>10. CASE RelayUp
  <2>1. /\ relay["A"] = "copying" /\ relay'["A"] # "off"
        /\ UNCHANGED <<cli, main, vmDown, cliDown, wrote, shown, child, reader, chan>>
    BY <1>0, <1>10 DEF RelayUp, CopyUp, RelayType, Threads
  <2>2. Pending' \in {Pending, Pending - 1}
    <3>1. CASE cliUp # <<>> /\ cliUp' = Tail(cliUp) /\ vmUp' \in {vmUp, Append(vmUp, Head(cliUp))}
      <4>1. Len(cliUp') = Len(cliUp) - 1 /\ Head(cliUp) \in Message
        BY <1>1, <3>1, TailFacts
      <4>2. Len(vmUp') = Len(vmUp) \/ Len(vmUp') = Len(vmUp) + 1
        BY <1>1, <3>1, <4>1, AppendFacts
      <4>3. Pending = Len(vmUp) + Len(cliUp) /\ Pending' = Len(vmUp') + Len(cliUp')
        BY DEF Pending
      <4>4. Pending' = Pending - 1 \/ Pending' = Pending
        BY <1>1, <4>1, <4>2, <4>3
      <4> QED BY <4>4
    <3>2. CASE UNCHANGED <<cliUp, vmUp>>
      BY <1>1, <3>2 DEF Pending
    <3> QED BY <1>10, <3>1, <3>2 DEF RelayUp, CopyUp
  <2>3. Pending \in Nat /\ Pending' \in Nat
    BY <1>1 DEF Pending
  <2>4. Unstarted' => Unstarted
    BY <1>t, <2>1, <2>2, <2>3 DEF Unstarted
  <2> QED BY <1>0, <1>t, <2>1, <2>2, <2>3, <2>4 DEF Early, NoProcess, NoThreads
<1>11. CASE RelayDown
  <2>1. /\ relay["B"] = "copying" /\ relay'["A"] = relay["A"]
        /\ UNCHANGED <<cli, cliUp, vmUp, main, wrote, shown, child, reader, chan>>
    BY <1>0, <1>11 DEF RelayDown, CopyDown, RelayType, Threads
  <2>2. relay["A"] # "off"
    BY <1>0, <2>1 DEF Early
  <2>3. Pending' = Pending /\ (Unstarted' <=> Unstarted)
    BY <1>t, <2>1 DEF Pending, Unstarted
  <2>4. vmDown = <<>> => vmDown' = vmDown /\ cliDown' = cliDown
    BY <1>11 DEF RelayDown, CopyDown
  <2> QED BY <1>0, <1>t, <2>1, <2>2, <2>3, <2>4 DEF Early, NoProcess, NoThreads
<1>12. CASE VmStops
  <2>1. main' = "stopped" /\ vmUp' = <<>> /\ UNCHANGED <<cli, relay, cliUp, vmDown, cliDown>>
    BY <1>12 DEF VmStops
  <2>2. Pending' =< Pending /\ Pending' \in Nat /\ Pending \in Nat
    BY <1>1, <2>1 DEF Pending
  <2> QED BY <1>0, <1>t, <2>1, <2>2 DEF Early, Unstarted, Busy
<1>13. CASE DaemonExits
  <2>1. main = "stopped" /\ main' = main /\ relay'["A"] = "ended" /\ UNCHANGED <<cli, cliUp, vmUp>>
    BY <1>13 DEF DaemonExits, CopyingEnds, Threads
  <2> QED BY <1>0, <1>t, <2>1 DEF Early, Unstarted, Busy, Pending
<1>14. CASE GuestReadsCommand
  <2>1. /\ main = "idle" /\ main' = "handling" /\ vmUp # <<>> /\ vmUp' = Tail(vmUp)
        /\ UNCHANGED <<cli, relay, cliUp, vmDown, cliDown, wrote, shown>>
    BY <1>14 DEF GuestReadsCommand
  <2>2. Len(vmUp') = Len(vmUp) - 1 /\ Len(vmUp) > 0
    BY <1>1, <2>1, TailFacts
  <2>3. Pending' = Pending - 1 /\ Pending > 0 /\ Pending \in Nat
    BY <1>1, <2>1, <2>2 DEF Pending
  <2>4. Unstarted /\ relay["A"] # "off" /\ ~Unstarted'
    BY <1>0, <2>1, <2>3 DEF Unstarted, Early
  <2>5. kind \notin Uploads => Pending' = 0 /\ cli.at # "header"
    BY <1>0, <2>3 DEF Early
  <2> QED BY <1>0, <1>t, <2>1, <2>4, <2>5 DEF Early
<1>15. CASE GuestSeesEnd
  <2>1. /\ ~HostOpen /\ main' = "closed" /\ UNCHANGED <<cli, relay, cliUp, vmUp>>
    BY <1>15 DEF GuestSeesEnd
  <2> QED BY <1>0, <1>t, <2>1 DEF Early, Unstarted, Busy, HostOpen, Pending
<1>16. CASE GuestRefuses \/ GuestDrops \/ GuestAnswers \/ HandlerPrints \/ StartReceiving
            \/ ReceiveChunk \/ TarComplains \/ Received \/ Report \/ PullProgress
  <2>1. UNCHANGED <<onHost, relay, cliUp, cliDown>>
    BY <1>16 DEF GuestRefuses, GuestDrops, GuestAnswers, HandlerPrints, StartReceiving, ReceiveChunk,
                 TarComplains, Received, Report, PullProgress
  <2>2. /\ main \in Busy /\ main' # "handling"
        /\ main' = "idle" => kind \notin Uploads
    BY <1>16 DEF GuestRefuses, GuestDrops, GuestAnswers, HandlerPrints, StartReceiving, ReceiveChunk,
                 TarComplains, Received, Report, PullProgress, After, Busy, Uploads, Questions
  <2>3. vmUp' = vmUp \/ (vmUp # <<>> /\ vmUp' = Tail(vmUp))
    BY <1>16 DEF GuestRefuses, GuestDrops, GuestAnswers, HandlerPrints, StartReceiving, ReceiveChunk,
                 TarComplains, Received, Report, PullProgress
  <2>4. Len(vmUp') =< Len(vmUp)
    <3>1. vmUp # <<>> => Len(Tail(vmUp)) = Len(vmUp) - 1
      BY <1>1, TailFacts
    <3> QED BY <1>1, <2>3, <3>1
  <2> QED BY <1>1, <2>1, <2>2, <2>4, HandlerAtWork
<1>17. CASE StartPull \/ StartStreaming \/ StartFeeding \/ Feed \/ RunDetached \/ StreamLine
            \/ StreamDone \/ StreamEnds \/ SendArchive
  <2>1. UNCHANGED <<onHost, relay, cliUp, cliDown, vmUp>>
    BY <1>17 DEF StartPull, StartStreaming, StartFeeding, Feed, RunDetached, StreamLine, StreamDone,
                 StreamEnds, SendArchive
  <2>2. /\ main \in Busy /\ main' # "handling"
        /\ main' = "idle" => kind \notin Uploads
    BY <1>17 DEF StartPull, StartStreaming, StartFeeding, Feed, RunDetached, StreamLine, StreamDone,
                 StreamEnds, SendArchive, After, Busy, Uploads
  <2> QED BY <1>1, <2>1, <2>2, HandlerAtWork
<1>18. CASE (\E s \in Streams : ReaderReads(s) \/ ReaderEnds(s)) \/ ChildWrites \/ ChildExits
  <2>1. child.st = "running" \/ \E s \in Streams : reader[s].on
    BY <1>18 DEF ReaderReads, ReaderEnds, ChildWrites, ChildExits
  <2>2. UNCHANGED <<cli, relay, cliUp, vmUp, vmDown, cliDown, main>>
    BY <1>18 DEF ReaderReads, ReaderEnds, ChildWrites, ChildExits
  <2>3. ~NoProcess
    BY <2>1 DEF NoProcess, NoThreads
  <2>4. ~Unstarted /\ main # "handling"
    BY <1>0, <2>3 DEF Early, Process, Busy
  <2>5. Pending' = Pending /\ ~Unstarted'
    BY <1>t, <2>2, <2>4 DEF Pending, Unstarted
  <2> QED BY <1>0, <1>t, <2>2, <2>4, <2>5 DEF Early
<1> QED BY <1>2, <1>3, <1>4, <1>5, <1>6, <1>7, <1>8, <1>9, <1>10, <1>11, <1>12, <1>13, <1>14,
           <1>15, <1>16, <1>17, <1>18
        DEF Next, Cli, Daemon, Handler

LEMMA CarriesSent ==
  ASSUME NEW q \in Seq(Message), NEW f \in Message, kind' = kind, Carries(q),
         f.kind = "raw" => kind = "cp_from",
         f.kind = "line" => kind # "cp_from"
  PROVE  LET p == Append(q, f)
         IN  \A i \in 1..Len(p) : /\ p[i].kind = "raw" => kind = "cp_from"
                                  /\ p[i].kind = "line" => kind # "cp_from"
<1> DEFINE p == Append(q, f)
<1>1. /\ Len(q) \in Nat /\ Len(p) = Len(q) + 1 /\ p[Len(q) + 1] = f
      /\ \A i \in 1..Len(q) : p[i] = q[i]
  BY AppendFacts
<1> HIDE DEF p
<1>2. \A i \in 1..Len(p) : i \in 1..Len(q) \/ i = Len(q) + 1
  BY <1>1
<1>3. \A i \in 1..Len(p) : /\ p[i].kind = "raw" => kind = "cp_from"
                           /\ p[i].kind = "line" => kind # "cp_from"
  BY <1>1, <1>2 DEF Carries
<1> QED BY <1>3 DEF p

LEMMA CarriesTaken ==
  ASSUME NEW q \in Seq(Message), q # <<>>, Carries(q)
  PROVE  /\ Head(q).kind = "raw" => kind = "cp_from"
         /\ Head(q).kind = "line" => kind # "cp_from"
         /\ LET p == Tail(q)
            IN  \A i \in 1..Len(p) : /\ p[i].kind = "raw" => kind = "cp_from"
                                     /\ p[i].kind = "line" => kind # "cp_from"
<1> DEFINE p == Tail(q)
<1>1. /\ Len(q) \in Nat \ {0} /\ Len(p) = Len(q) - 1 /\ Head(q) = q[1]
      /\ \A i \in 1..(Len(q) - 1) : p[i] = q[i + 1]
  BY TailFacts
<1> HIDE DEF p
<1>2. 1 \in 1..Len(q) /\ \A i \in 1..Len(p) : i + 1 \in 1..Len(q) /\ p[i] = q[i + 1]
  BY <1>1
<1>3. \A i \in 1..Len(p) : /\ p[i].kind = "raw" => kind = "cp_from"
                           /\ p[i].kind = "line" => kind # "cp_from"
  BY <1>2 DEF Carries
<1>4. /\ Head(q).kind = "raw" => kind = "cp_from"
      /\ Head(q).kind = "line" => kind # "cp_from"
  BY <1>1, <1>2 DEF Carries
<1> QED BY <1>3, <1>4 DEF p

LEMMA ContentsNext ==
  ASSUME Shape, Next
  PROVE  Contents'
<1> USE DEF onHost, inGuest, sockets, onHostSide, process
<1>0. /\ Types /\ MainFits /\ Contents /\ cli \in CliType
      /\ vmDown \in Seq(Message) /\ cliDown \in Seq(Message)
  BY DEF Shape, Types
<1>1. kind' = kind /\ kind \in Kinds
  BY <1>0, FitsNext DEF Shape, Types
<1> DEFINE Fine(q) == \A i \in 1..Len(q) : /\ q[i].kind = "raw" => kind = "cp_from"
                                           /\ q[i].kind = "line" => kind # "cp_from"
<1>2. Fine(cliDown) /\ Fine(vmDown) /\ Fine(<<>>)
  BY <1>0 DEF Contents, Carries
<1>3. \A q \in Seq(Message), f \in Message :
         Fine(q) /\ (f.kind = "raw" => kind = "cp_from") /\ (f.kind = "line" => kind # "cp_from")
         => Fine(Append(q, f))
  BY <1>1, CarriesSent DEF Carries
<1>4. \A q \in Seq(Message) :
         q # <<>> /\ Fine(q) => /\ Fine(Tail(q)) /\ Head(q) \in Message
                                /\ Head(q).kind = "raw" => kind = "cp_from"
                                /\ Head(q).kind = "line" => kind # "cp_from"
  BY CarriesTaken, TailFacts DEF Carries
<1> HIDE DEF Fine
<1>5. ASSUME Fine(cliDown'), Fine(vmDown'), cli'.at = "unpacking" => kind = "cp_from" PROVE Contents'
  BY <1>1, <1>5 DEF Fine, Contents, Carries
<1>6. cli.at = "unpacking" => kind = "cp_from"
  BY <1>0 DEF Contents
<1>7. CASE UNCHANGED <<cli, cliDown, vmDown>>
  BY <1>2, <1>5, <1>6, <1>7
<1>8. CASE CliPacks \/ CliSendsHeader \/ CliSendsBody \/ CliSeesEnd \/ CliKilled \/ CliCannotRead
  <2>1. vmDown' = vmDown /\ cliDown' \in {cliDown, <<>>}
    BY <1>8 DEF CliPacks, CliSendsHeader, CliSendsBody, CliSeesEnd, CliKilled, CliCannotRead
  <2>2. cli'.at # "unpacking"
    <3>1. CASE CliPacks \/ CliSendsHeader
      BY <1>0, <3>1, CliSteps
    <3>2. CASE CliSendsBody \/ CliSeesEnd
      BY <1>0, <3>2, CliSteps
    <3>3. CASE CliKilled \/ CliCannotRead
      BY <1>0, <3>3, CliSteps
    <3> QED BY <1>8, <3>1, <3>2, <3>3
  <2> QED BY <1>2, <1>5, <2>1, <2>2
<1>9. CASE CliReads \/ CliUnpacks
  <2>1. vmDown' = vmDown /\ cliDown # <<>> /\ cliDown' = Tail(cliDown)
    BY <1>9 DEF CliReads, CliUnpacks
  <2>2. cli'.at = "unpacking" => kind = "cp_from"
    <3>1. CASE CliUnpacks
      BY <1>6, <3>1 DEF CliUnpacks
    <3>2. CASE CliReads
      <4>1. CliTakes(Head(cliDown))
        BY <1>0, <3>2, CliReading
      <4> QED BY <1>0, <1>2, <1>4, <1>6, <2>1, <4>1 DEF CliTakes
    <3> QED BY <1>9, <3>1, <3>2
  <2> QED BY <1>0, <1>2, <1>4, <1>5, <2>1, <2>2
<1>10. CASE DaemonConnects \/ DialFails \/ DialCompletesLate \/ RelayUp \/ VmStops
  BY <1>7, <1>10 DEF DaemonConnects, DialFails, DialCompletesLate, RelayUp, CopyUp, VmStops
<1>11. CASE DaemonGivesUp
  <2>1. Error \in Message /\ Error.kind = "error"
    BY <1>0, Parts
  <2>2. Fine(Append(cliDown, Error))
    BY <1>0, <1>2, <1>3, <2>1
  <2> QED BY <1>2, <1>5, <1>6, <1>11, <2>2 DEF DaemonGivesUp
<1>12. CASE RelayDown
  <2>1. vmDown # <<>> => Fine(Append(cliDown, Head(vmDown))) /\ Fine(Tail(vmDown))
    BY <1>0, <1>2, <1>3, <1>4
  <2> QED BY <1>2, <1>5, <1>6, <1>12, <2>1 DEF RelayDown, CopyDown
<1>13. CASE DaemonExits
  BY <1>2, <1>5, <1>6, <1>13 DEF DaemonExits, CopyingEnds
<1>14. ASSUME NEW f \in Message, Send(f), f.kind = "raw" => kind = "cp_from",
              f.kind = "line" => kind # "cp_from", UNCHANGED <<cli, cliDown>>
       PROVE  Contents'
  <2>1. Fine(vmDown')
    BY <1>0, <1>2, <1>3, <1>14 DEF Send
  <2> QED BY <1>2, <1>5, <1>6, <1>14, <2>1
<1>15. /\ \A k \in {"command", "chunk", "line", "raw", "exit", "answer", "error"}, n \in Int :
             Msg(k, n) \in Message /\ Msg(k, n).kind = k
       /\ Error \in Message /\ Error.kind = "error"
       /\ body + 1 \in Int /\ child.code \in Int /\ BodyLen \in Int /\ 0 \in Int /\ 1 \in Int
  <2>1. /\ \A k \in {"command", "chunk", "line", "raw", "exit", "answer", "error"}, n \in Int :
              Msg(k, n) \in Message /\ Msg(k, n).kind = k
        /\ Error \in Message /\ Error.kind = "error"
    BY <1>0, Parts
  <2>2. body \in Int /\ child.code \in Int
    BY <1>0 DEF Types, ChildType
  <2>3. BodyLen \in Int
    BY CommandAssumption
  <2> QED BY <2>1, <2>2, <2>3
<1>16. CASE GuestRefuses \/ GuestAnswers
  BY <1>14, <1>15, <1>16 DEF GuestRefuses, GuestAnswers
<1>17. CASE HandlerPrints \/ PullProgress \/ RunDetached \/ StreamLine
  <2>1. kind # "cp_from"
    BY <1>0, <1>17 DEF HandlerPrints, PullProgress, RunDetached, StreamLine, MainFits
  <2>2. UNCHANGED <<cli, cliDown>> /\ (Send(Msg("line", 1)) \/ Send(Msg("exit", 0)) \/ vmDown' = vmDown)
    BY <1>17 DEF HandlerPrints, PullProgress, RunDetached, StreamLine
  <2> QED BY <1>7, <1>14, <1>15, <2>1, <2>2
<1>18. CASE Report
  <2>1. kind # "cp_from"
    BY <1>0, <1>18 DEF Report, MainFits
  <2>2. UNCHANGED <<cli, cliDown>> /\ (Send(Msg("line", 1)) \/ \E c \in 0..1 : Send(Msg("exit", c)))
    BY <1>18 DEF Report
  <2>3. \A c \in 0..1 : c \in Int
    OBVIOUS
  <2> QED BY <1>14, <1>15, <2>1, <2>2, <2>3
<1>19. CASE StreamEnds
  BY <1>14, <1>15, <1>19 DEF StreamEnds
<1>20. CASE SendArchive
  <2>1. /\ kind = "cp_from" /\ UNCHANGED <<cli, cliDown>>
        /\ Send(Msg("raw", BodyLen)) \/ Send(Msg("chunk", body + 1)) \/ Send(Msg("exit", 0))
    BY <1>20 DEF SendArchive
  <2> QED BY <1>14, <1>15, <2>1
<1>21. CASE GuestReadsCommand \/ GuestSeesEnd \/ GuestDrops \/ StartReceiving \/ ReceiveChunk
            \/ TarComplains \/ Received \/ StartPull \/ StartStreaming \/ StartFeeding \/ Feed
            \/ StreamDone
  BY <1>7, <1>21 DEF GuestReadsCommand, GuestSeesEnd, GuestDrops, StartReceiving, ReceiveChunk,
                     TarComplains, Received, StartPull, StartStreaming, StartFeeding, Feed, StreamDone
<1>22. CASE (\E s \in Streams : ReaderReads(s) \/ ReaderEnds(s)) \/ ChildWrites \/ ChildExits
  BY <1>7, <1>22 DEF ReaderReads, ReaderEnds, ChildWrites, ChildExits
<1> QED BY <1>8, <1>9, <1>10, <1>11, <1>12, <1>13, <1>16, <1>17, <1>18, <1>19, <1>20, <1>21, <1>22
        DEF Next, Cli, Daemon, Handler

LEMMA ShapeInit == Init => Shape
<1> SUFFICES ASSUME Init PROVE Shape
  OBVIOUS
<1>1. Types
  BY TypesInit
<1>2. /\ main = "idle" /\ wrote = 0 /\ shown = 0 /\ chan = <<>> /\ child.st = "none"
      /\ cliUp = <<>> /\ vmUp = <<>> /\ vmDown = <<>> /\ cliDown = <<>>
      /\ cli.got = 0 /\ cli.at = IF kind \in Uploads THEN "packing" ELSE "header"
  BY DEF Init, ProxyInit
<1>3. NoProcess
  BY <1>2 DEF Init, NoProcess, NoThreads
<1>4. relay["B"] = "off"
  BY DEF Init, ProxyInit, Threads
<1>5. MainFits /\ Context /\ Process
  BY <1>2 DEF MainFits, Context, Process, Busy
<1>6. Pending = 0
  BY <1>2 DEF Pending
<1>7. Early
  BY <1>2, <1>3, <1>4, <1>6 DEF Early, Busy
<1>8. Contents
  BY <1>2 DEF Contents, Carries
<1> QED BY <1>1, <1>5, <1>7, <1>8 DEF Shape

LEMMA ShapeNext == Shape /\ Next => Shape'
  BY TypesNext, FitsNext, ProcessNext, EarlyNext, ContentsNext DEF Shape

-----------------------------------------------------------------------------
(* The answers *)

(* The daemon does not come back, and neither does the CLI.                *)
LEMMA EndsStay ==
  ASSUME Shape, Next
  PROVE  /\ HostOpen' => HostOpen
         /\ cli.at = "done" => cli' = cli /\ shown' = shown
         /\ CliOpen' => CliOpen
<1> USE DEF onHost, inGuest, sockets, onHostSide, process
<1>0. cli \in CliType /\ relay \in RelayType /\ cliDown \in Seq(Message)
  BY DEF Shape, Types
<1>1. CASE UNCHANGED <<cli, shown, relay>>
  BY <1>1 DEF HostOpen, CliOpen
<1>2. CASE Cli \/ CliKilled \/ CliCannotRead
  <2>1. UNCHANGED relay
    BY <1>2 DEF Cli, CliPacks, CliSendsHeader, CliSendsBody, CliReads, CliUnpacks, CliSeesEnd,
                CliKilled, CliCannotRead
  <2>2. CliOpen
    BY <1>2 DEF Cli, CliPacks, CliSendsHeader, CliSendsBody, CliReads, CliUnpacks, CliSeesEnd,
                CliKilled, CliCannotRead, CliOpen
  <2> QED BY <2>1, <2>2 DEF HostOpen, CliOpen
<1>3. CASE RelayUp \/ RelayDown
  BY <1>0, <1>3 DEF RelayUp, RelayDown, CopyUp, CopyDown, HostOpen, RelayType, Threads, CliOpen
<1>4. CASE DaemonConnects \/ DaemonGivesUp \/ DaemonExits
  BY <1>0, <1>4 DEF DaemonConnects, Dialling, DaemonGivesUp, DaemonExits, CopyingEnds, HostOpen, CliOpen
<1>5. CASE DialFails \/ DialCompletesLate \/ VmStops \/ GuestRefuses \/ GuestDrops \/ Handler \/ TarComplains
  BY <1>1, <1>5 DEF DialFails, DialCompletesLate, VmStops, GuestRefuses, GuestDrops, TarComplains, Handler,
        GuestReadsCommand, GuestSeesEnd, GuestAnswers, HandlerPrints, StartFeeding, Feed, StartReceiving,
        ReceiveChunk, Received, Report, PullProgress, StartPull, StartStreaming, RunDetached, StreamLine,
        StreamDone, StreamEnds, SendArchive
<1>6. CASE (\E s \in Streams : ReaderReads(s) \/ ReaderEnds(s)) \/ ChildWrites \/ ChildExits
  BY <1>1, <1>6 DEF ReaderReads, ReaderEnds, ChildWrites, ChildExits
<1> QED BY <1>2, <1>3, <1>4, <1>5, <1>6 DEF Next, Daemon

(* Once the handler is through, nothing is written any more.               *)
LEMMA OverStays ==
  ASSUME Shape, Next, Over
  PROVE  Over' /\ wrote' = wrote /\ (child.cut => child'.cut)
<1> USE DEF onHost, inGuest, sockets, onHostSide, process
<1>0. /\ child \in ChildType /\ main \in {"idle", "closed", "stopped"} /\ ~Unstarted
      /\ child.st # "running" /\ kind' = kind /\ (kind \in Uploads => body = BodyLen)
  BY FitsNext DEF Shape, Types, Over
<1>1. ~Unstarted'
  BY <1>0, EarlyNext
<1>2. CASE UNCHANGED <<main, child, body, wrote>>
  BY <1>0, <1>1, <1>2 DEF Over
<1>3. CASE Cli \/ CliKilled \/ CliCannotRead \/ DaemonConnects \/ DialFails \/ DialCompletesLate
           \/ RelayUp \/ RelayDown \/ DaemonExits
  BY <1>2, <1>3 DEF Cli, CliPacks, CliSendsHeader, CliSendsBody, CliReads, CliUnpacks, CliSeesEnd,
        CliKilled, CliCannotRead, DaemonConnects, DialFails, DialCompletesLate, RelayUp, RelayDown, DaemonExits
<1>4. CASE DaemonGivesUp
  BY <1>0, <1>1, <1>4 DEF DaemonGivesUp, Over
<1>5. CASE VmStops
  <2>1. child'.st = "exited" /\ child'.cut = child.cut
    BY <1>0, <1>5, ChildSteps DEF VmStops
  <2> QED BY <1>0, <1>1, <1>5, <2>1 DEF VmStops, Over
<1>6. CASE GuestReadsCommand
  <2>1. vmUp # <<>> /\ vmUp \in Seq(Message) /\ cliUp \in Seq(Message)
    BY <1>6 DEF GuestReadsCommand, Shape, Types
  <2>2. Len(vmUp) \in Nat \ {0} /\ Len(cliUp) \in Nat
    BY <2>1, TailFacts, LenProperties
  <2>3. Unstarted
    BY <1>6, <2>2 DEF GuestReadsCommand, Unstarted, Pending
  <2> QED BY <1>0, <2>3
<1>7. CASE GuestSeesEnd
  BY <1>0, <1>1, <1>7 DEF GuestSeesEnd, Over
<1>8. ASSUME NEW s \in Streams, ReaderReads(s) \/ ReaderEnds(s)
      PROVE  Over' /\ wrote' = wrote /\ (child.cut => child'.cut)
  <2>1. child'.st = child.st /\ (child.cut => child'.cut)
    BY <1>0, <1>8, ChildSteps DEF ReaderReads, ReaderEnds
  <2> QED BY <1>0, <1>1, <1>8, <2>1 DEF ReaderReads, ReaderEnds, Over
<1>9. ~(GuestAnswers \/ HandlerPrints \/ StartFeeding \/ Feed \/ StartReceiving \/ ReceiveChunk \/ Received
        \/ Report \/ PullProgress \/ StartPull \/ StartStreaming \/ RunDetached \/ StreamLine \/ StreamDone
        \/ StreamEnds \/ SendArchive \/ GuestRefuses \/ GuestDrops \/ TarComplains)
  BY <1>0 DEF GuestAnswers, HandlerPrints, StartFeeding, Feed, StartReceiving, ReceiveChunk, Received,
        Report, PullProgress, StartPull, StartStreaming, RunDetached, StreamLine, StreamDone, StreamEnds,
        SendArchive, GuestRefuses, GuestDrops, TarComplains
<1>10. ~(ChildWrites \/ ChildExits)
  BY <1>0 DEF ChildWrites, ChildExits
<1> QED BY <1>3, <1>4, <1>5, <1>6, <1>7, <1>8, <1>9, <1>10 DEF Next, Daemon, Handler

(* The lines counted are whole numbers.                                    *)
LEMMA CountTypes ==
  ASSUME NEW q \in Seq(Message), NEW c \in ChanType, NEW r \in ReaderType
  PROVE  /\ Lines(q) \in Nat /\ ChanLines(c) \in Nat /\ r["out"].pipe \in Int /\ r["err"].pipe \in Int
         /\ ChanLines(c) + r["out"].pipe + r["err"].pipe \in Int
<1>1. Msg("error", 0) \in Message
  BY DEF Message, Msg
<1>2. Lines(q) \in Nat /\ ChanLines(c) \in Nat
  BY <1>1, LinesSent, ChanSent
<1>3. "out" \in Streams /\ "err" \in Streams
  BY DEF Streams
<1>4. r["out"].pipe \in Int /\ r["err"].pipe \in Int
  BY <1>3 DEF ReaderType
<1> QED BY <1>2, <1>4

LEMMA Counts ==
  ASSUME Shape
  PROVE  /\ Lines(cliDown) \in Nat /\ Lines(vmDown) \in Nat /\ ChanLines(chan) \in Nat
         /\ reader["out"].pipe \in Int /\ reader["err"].pipe \in Int
         /\ shown \in Int /\ wrote \in Int /\ Sent \in Int /\ InGuest \in Int
         /\ NoProcess => InGuest = 0
<1>1. /\ cliDown \in Seq(Message) /\ vmDown \in Seq(Message) /\ chan \in ChanType
      /\ shown \in Int /\ wrote \in Int /\ reader \in ReaderType
  BY Parts DEF Shape
<1>2. /\ Lines(cliDown) \in Nat /\ Lines(vmDown) \in Nat /\ ChanLines(chan) \in Nat
      /\ reader["out"].pipe \in Int /\ reader["err"].pipe \in Int /\ InGuest \in Int
  BY <1>1, CountTypes DEF InGuest
<1>3. Sent \in Int
  BY <1>1, <1>2 DEF Sent
<1>4. "out" \in Streams /\ "err" \in Streams
  BY DEF Streams
<1>5. NoProcess => ChanLines(chan) = 0 /\ reader["out"].pipe = 0 /\ reader["err"].pipe = 0
  BY <1>4, NoLines DEF NoProcess, NoThreads
<1>6. NoProcess => InGuest = 0
  BY <1>5 DEF InGuest
<1> QED BY <1>1, <1>2, <1>3, <1>6

LEMMA CountsNext ==
  ASSUME Shape, Next
  PROVE  /\ wrote' \in Int /\ InGuest' \in Int /\ Lines(cliDown') \in Nat /\ Lines(vmDown') \in Nat
         /\ ChanLines(chan') \in Nat
<1>1. /\ cliDown' \in Seq(Message) /\ vmDown' \in Seq(Message) /\ chan' \in ChanType
      /\ wrote' \in Int /\ reader' \in ReaderType
  BY TypesNext DEF Shape, Types
<1>2. InGuest' = ChanLines(chan') + reader'["out"].pipe + reader'["err"].pipe
  BY DEF InGuest
<1> QED BY <1>1, <1>2, CountTypes

(* A step that moves a line on within the guest, or makes one.             *)
Balanced == \A n \in Int : wrote = n + InGuest => wrote' = n + InGuest'

(* A step that sends the CLI nothing.                                      *)
LEMMA DeliveryKept ==
  ASSUME Shape, Next, Delivery, UNCHANGED <<cliDown, vmDown, shown>>,
         HostOpen' /\ main' \in Busy
         => \/ child'.cut
            \/ wrote' = Sent + InGuest'
            \/ /\ main \in Busy /\ (child.cut => child'.cut) /\ Balanced
  PROVE  Delivery'
<1>1. Sent' = Sent /\ Answered' = Answered
  BY DEF Sent, Answered
<1>2. Answered' => Over' /\ (child'.cut \/ wrote' = Sent')
  BY <1>1, OverStays DEF Delivery
<1>3. /\ wrote \in Int /\ Sent \in Int /\ InGuest \in Int /\ wrote' \in Int /\ InGuest' \in Int
  BY Counts, CountsNext
<1>4. HostOpen' => HostOpen
  BY EndsStay
<1>5. HostOpen' /\ main' \in Busy => child'.cut \/ wrote' = Sent' + InGuest'
  <2>1. wrote' = Sent + InGuest' => wrote' = Sent' + InGuest'
    BY <1>1
  <2>2. Balanced /\ wrote = Sent + InGuest => wrote' = Sent + InGuest'
    BY <1>3 DEF Balanced
  <2>3. HostOpen /\ main \in Busy => child.cut \/ wrote = Sent + InGuest
    BY DEF Delivery
  <2> QED BY <1>4, <2>1, <2>2, <2>3
<1>6. EndsAtFinal(cliDown') /\ EndsAtFinal(vmDown') /\ (HasFinal(cliDown') => vmDown' = <<>>)
  BY DEF Delivery
<1> QED BY <1>2, <1>5, <1>6 DEF Delivery

(* A message that a handler sends.                                         *)
LEMMA DeliverySent ==
  ASSUME Shape, Next, Delivery, NEW f \in Message, Send(f), UNCHANGED <<cliDown, shown>>, main \in Busy,
         Final(f) /\ HostOpen => Over' /\ (child'.cut \/ wrote' = Sent),
         ~Final(f) /\ HostOpen /\ main' \in Busy =>
            child'.cut \/ wrote' = Sent + InGuest' + IF f.kind = "line" THEN 1 ELSE 0
  PROVE  Delivery'
<1>1. CASE ~HostOpen
  <2>1. vmDown' = vmDown /\ ~HostOpen'
    BY <1>1, EndsStay DEF Send
  <2> QED BY <2>1, DeliveryKept
<1>2. CASE HostOpen
  <2>0. vmDown \in Seq(Message) /\ vmDown' = Append(vmDown, f)
    BY <1>2 DEF Shape, Types, Send
  <2>1. ~Answered
    BY DEF Delivery, Over, Busy
  <2>2. Final(f) => f.kind # "line"
    BY DEF Final
  <2>3. Lines(vmDown') = IF f.kind = "line" THEN Lines(vmDown) + 1 ELSE Lines(vmDown)
    BY <2>0, LinesSent
  <2>4. /\ Lines(cliDown) \in Nat /\ Lines(vmDown) \in Nat /\ shown \in Int /\ Sent \in Int
        /\ InGuest' \in Int /\ wrote' \in Int
    BY Counts, CountsNext
  <2>5. Sent' = Sent + IF f.kind = "line" THEN 1 ELSE 0
    <3>1. Sent' = shown + Lines(cliDown) + Lines(vmDown') /\ Sent = shown + Lines(cliDown) + Lines(vmDown)
      BY DEF Sent
    <3> QED BY <2>3, <2>4, <3>1
  <2>6. (HasFinal(vmDown') <=> Final(f)) /\ EndsAtFinal(vmDown')
    BY <2>0, <2>1, FinalSent DEF Answered
  <2>7. ~HasFinal(cliDown') /\ EndsAtFinal(cliDown')
    BY <2>1 DEF Answered, Delivery
  <2>8. Final(f) => (wrote' = Sent => wrote' = Sent')
    BY <2>2, <2>4, <2>5
  <2>9. Answered' => Over' /\ (child'.cut \/ wrote' = Sent')
    BY <1>2, <2>6, <2>7, <2>8 DEF Answered
  <2>10. HostOpen' /\ main' \in Busy => child'.cut \/ wrote' = Sent' + InGuest'
    <3> SUFFICES ASSUME HostOpen', main' \in Busy PROVE child'.cut \/ wrote' = Sent' + InGuest'
      OBVIOUS
    <3>1. ~Final(f)
      BY <1>2 DEF Over, Busy
    <3>2. child'.cut \/ wrote' = Sent + InGuest' + IF f.kind = "line" THEN 1 ELSE 0
      BY <1>2, <3>1
    <3>3. wrote' = Sent + InGuest' + (IF f.kind = "line" THEN 1 ELSE 0) => wrote' = Sent' + InGuest'
      BY <2>4, <2>5
    <3> QED BY <3>2, <3>3
  <2> QED BY <2>6, <2>7, <2>9, <2>10 DEF Delivery
<1> QED BY <1>1, <1>2

(* Steps that send the CLI nothing: of the CLI and the daemon.             *)
LEMMA DeliveryHost ==
  ASSUME Shape, Next, Delivery, CliOpen',
         \/ CliPacks \/ CliSendsHeader \/ CliSendsBody \/ CliSeesEnd \/ CliKilled \/ CliCannotRead
         \/ DaemonConnects \/ DialFails \/ DialCompletesLate \/ RelayUp \/ VmStops
  PROVE  Delivery'
<1> USE DEF onHost, inGuest, sockets, onHostSide, process
<1>0. cli \in CliType /\ cliDown \in Seq(Message) /\ child \in ChildType
  BY DEF Shape, Types
<1>1. ~CliSeesEnd /\ ~CliKilled /\ ~CliCannotRead
  BY <1>0, CliSteps DEF CliOpen
<1>2. CASE VmStops
  <2>1. main' = "stopped" /\ UNCHANGED <<cliDown, vmDown, shown>>
    BY <1>2 DEF VmStops
  <2>2. main' \notin Busy
    BY <2>1 DEF Busy
  <2> QED BY <2>1, <2>2, DeliveryKept
<1>3. ASSUME UNCHANGED <<cliDown, vmDown, shown, main, child, reader, chan, wrote>> PROVE Delivery'
  <2>1. InGuest' = InGuest
    BY <1>3 DEF InGuest
  <2>2. Balanced
    BY <1>3, <2>1 DEF Balanced
  <2> QED BY <1>3, <2>2, DeliveryKept
<1>4. CASE CliPacks \/ CliSendsHeader \/ CliSendsBody
  BY <1>3, <1>4 DEF CliPacks, CliSendsHeader, CliSendsBody
<1>5. CASE DaemonConnects \/ DialFails \/ DialCompletesLate \/ RelayUp
  BY <1>3, <1>5 DEF DaemonConnects, DialFails, DialCompletesLate, RelayUp, CopyUp
<1> QED BY <1>1, <1>2, <1>4, <1>5

(* The lines that are in the guest.                                        *)
LEMMA GuestLines ==
  ASSUME Shape, Next
  PROVE  /\ InGuest = ChanLines(chan) + reader["out"].pipe + reader["err"].pipe
         /\ InGuest' = ChanLines(chan') + reader'["out"].pipe + reader'["err"].pipe
         /\ ChanLines(chan) \in Int /\ reader["out"].pipe \in Int /\ reader["err"].pipe \in Int
         /\ ChanLines(chan') \in Int /\ wrote \in Int
         /\ "out" \in Streams /\ "err" \in Streams /\ Streams = {"out", "err"}
         /\ chan \in ChanType /\ reader \in ReaderType
  BY Counts, CountsNext DEF InGuest, Streams, Shape, Types

(* A thread that adds k to what it has read and takes it out of its pipe,  *)
(* and a process that writes w lines.                                      *)
LEMMA LineMoves ==
  ASSUME Shape, Next, NEW s \in Streams, NEW k \in Int, NEW w \in Int, NEW on,
         Sets(s, reader[s].pipe + w - k, on),
         ChanLines(chan') = ChanLines(chan) + k, wrote' = wrote + w
  PROVE  Balanced
<1>1. reader'[s].pipe = reader[s].pipe + w - k /\ \A t \in Streams : t # s => reader'[t] = reader[t]
  BY DEF Sets
<1>2. InGuest' = InGuest + w
  <2>1. CASE s = "out"
    <3>1. reader'["err"] = reader["err"]
      BY <1>1, <2>1, GuestLines
    <3> QED BY <1>1, <2>1, <3>1, GuestLines
  <2>2. CASE s = "err"
    <3>1. reader'["out"] = reader["out"]
      BY <1>1, <2>2, GuestLines
    <3> QED BY <1>1, <2>2, <3>1, GuestLines
  <2> QED BY <2>1, <2>2 DEF Streams
<1>3. InGuest \in Int /\ wrote \in Int
  BY Counts
<1> QED BY <1>2, <1>3 DEF Balanced

(* Steps that send the CLI nothing: of the guest's handler.                *)
LEMMA DeliveryInside ==
  ASSUME Shape, Next, Delivery,
         \/ GuestReadsCommand \/ GuestSeesEnd \/ GuestDrops \/ StartReceiving \/ ReceiveChunk
         \/ TarComplains \/ Received \/ StartPull \/ StartStreaming \/ StartFeeding \/ Feed \/ StreamDone
  PROVE  Delivery'
<1> USE DEF onHost, inGuest, sockets, onHostSide, process
<1>0. child \in ChildType /\ Process /\ Early
  BY DEF Shape, Types
<1>1. UNCHANGED <<cliDown, vmDown, shown, wrote>>
  BY DEF GuestReadsCommand, GuestSeesEnd, GuestDrops, StartReceiving, ReceiveChunk, TarComplains, Received,
         StartPull, StartStreaming, StartFeeding, Feed, StreamDone
<1>2. ASSUME main \in Busy, InGuest' = InGuest, child'.cut = child.cut PROVE Delivery'
  <2>1. Balanced
    BY <1>1, <1>2 DEF Balanced
  <2> QED BY <1>1, <1>2, <2>1, DeliveryKept
<1>3. CASE GuestReadsCommand
  <2>1. vmUp # <<>> /\ vmUp \in Seq(Message) /\ cliUp \in Seq(Message) /\ UNCHANGED <<chan, reader>>
    BY <1>3 DEF GuestReadsCommand, Shape, Types
  <2>2. Len(vmUp) \in Nat \ {0} /\ Len(cliUp) \in Nat
    BY <2>1, TailFacts, LenProperties
  <2>3. Unstarted
    BY <1>3, <2>2 DEF GuestReadsCommand, Unstarted, Pending
  <2>4. NoProcess /\ vmDown = <<>> /\ cliDown = <<>> /\ wrote = 0 /\ shown = 0
    BY <1>0, <2>3 DEF Early
  <2>5. Sent = 0
    BY <2>4, NoLines DEF Sent
  <2>6. InGuest' = InGuest /\ InGuest = 0
    BY <2>1, <2>4, Counts DEF InGuest
  <2>7. wrote' = Sent + InGuest'
    BY <1>1, <2>4, <2>5, <2>6
  <2> QED BY <1>1, <2>7, DeliveryKept
<1>4. CASE GuestSeesEnd \/ GuestDrops
  <2>1. main' \notin Busy
    BY <1>4 DEF GuestSeesEnd, GuestDrops, Busy
  <2> QED BY <1>1, <2>1, DeliveryKept
<1>5. CASE StartReceiving \/ ReceiveChunk \/ TarComplains \/ Received \/ StartPull
  <2>1. main \in Busy /\ UNCHANGED <<chan, reader, child>>
    BY <1>5 DEF StartReceiving, ReceiveChunk, TarComplains, Received, StartPull, Busy
  <2> QED BY <1>2, <2>1 DEF InGuest
<1>6. CASE StartStreaming
  <2>1. main \in Busy \ {"feeding", "streaming"} /\ child' = [child EXCEPT !.st = "running"]
        /\ reader' = [s \in Streams |-> [pipe |-> 0, on |-> TRUE]] /\ chan' = chan
    BY <1>6 DEF StartStreaming, Busy
  <2>2. NoProcess
    BY <1>0, <2>1 DEF Process
  <2>3. chan = <<>> /\ reader["out"].pipe = 0 /\ reader["err"].pipe = 0
    BY <2>2, GuestLines DEF NoProcess, NoThreads
  <2>4. reader'["out"].pipe = 0 /\ reader'["err"].pipe = 0
    BY <2>1, GuestLines
  <2>5. InGuest' = InGuest
    BY <2>1, <2>3, <2>4, GuestLines
  <2> QED BY <1>0, <1>2, <2>1, <2>5, ChildSteps
<1>7. CASE StartFeeding
  <2>1. main \in Busy /\ child' = [child EXCEPT !.st = "running"] /\ UNCHANGED <<chan, reader>>
    BY <1>7 DEF StartFeeding, Busy
  <2> QED BY <1>0, <1>2, <2>1, ChildSteps DEF InGuest
<1>8. CASE Feed
  <2>1. main \in Busy /\ UNCHANGED <<chan, child>>
    BY <1>8 DEF Feed, Busy
  <2>2. CASE reader' = reader
    BY <1>2, <2>1, <2>2 DEF InGuest
  <2>3. CASE reader' = [s \in Streams |-> [reader[s] EXCEPT !.on = TRUE]]
    <3>1. reader'["out"].pipe = reader["out"].pipe /\ reader'["err"].pipe = reader["err"].pipe
      BY <2>3, ReaderStarts, GuestLines
    <3>2. InGuest' = InGuest
      BY <2>1, <3>1, GuestLines
    <3> QED BY <1>2, <2>1, <3>2
  <2> QED BY <1>8, <2>2, <2>3 DEF Feed
<1>9. CASE StreamDone
  <2>1. /\ main \in Busy /\ UNCHANGED <<child, reader>>
        /\ chan # <<>> /\ Head(chan) = "done" /\ chan' = Tail(chan)
    BY <1>9 DEF StreamDone, Busy
  <2>2. ChanLines(chan') = ChanLines(chan)
    BY <2>1, ChanTaken, GuestLines
  <2>3. InGuest' = InGuest
    BY <2>1, <2>2, GuestLines
  <2> QED BY <1>2, <2>1, <2>3
<1> QED BY <1>3, <1>4, <1>5, <1>6, <1>7, <1>8, <1>9

(* Steps of the command's process and of the threads that read its output. *)
LEMMA DeliveryProcess ==
  ASSUME Shape, Next, Delivery,
         (\E s \in Streams : ReaderReads(s) \/ ReaderEnds(s)) \/ ChildWrites \/ ChildExits
  PROVE  Delivery'
<1> USE DEF onHost, inGuest, sockets, onHostSide, process
<1>0. child \in ChildType /\ chan \in ChanType /\ reader \in ReaderType /\ wrote \in Int
  BY DEF Shape, Types
<1>1. UNCHANGED <<cliDown, vmDown, shown, main>>
  BY DEF ReaderReads, ReaderEnds, ChildWrites, ChildExits
<1>2. ASSUME Balanced, child'.cut = child.cut PROVE Delivery'
  BY <1>1, <1>2, DeliveryKept
<1>3. ASSUME child'.cut PROVE Delivery'
  BY <1>1, <1>3, DeliveryKept
<1>4. \A m \in {"line", "done"} :
         chan' = Append(chan, m) => ChanLines(chan') = ChanLines(chan) + IF m = "line" THEN 1 ELSE 0
  BY <1>0, ChanSent
<1>5. ASSUME NEW s \in Streams, ReaderReads(s) PROVE Delivery'
  <2>1. CASE /\ chan' = Append(chan, "line") /\ UNCHANGED child
             /\ reader' = [reader EXCEPT ![s].pipe = reader[s].pipe - 1]
    <3>1. reader[s].pipe \in Int
      BY <1>0, ReaderSteps
    <3>2. reader[s].pipe - 1 \in Int /\ reader[s].pipe - 1 = reader[s].pipe + 0 - 1
      BY <3>1
    <3>3. Sets(s, reader[s].pipe + 0 - 1, reader[s].on)
      BY <1>0, <2>1, <3>2, ReaderSteps
    <3>4. ChanLines(chan') = ChanLines(chan) + 1
      BY <1>4, <2>1
    <3>5. wrote' = wrote + 0
      BY <1>0, <1>5 DEF ReaderReads
    <3>6. Balanced
      BY <3>3, <3>4, <3>5, LineMoves
    <3> QED BY <1>2, <2>1, <3>6
  <2>2. CASE child' = [child EXCEPT !.cut = TRUE]
    BY <1>0, <1>3, <2>2, ChildSteps
  <2> QED BY <1>5, <2>1, <2>2 DEF ReaderReads
<1>6. ASSUME NEW s \in Streams, ReaderEnds(s) PROVE Delivery'
  <2>1. reader[s].pipe \in Int /\ Sets(s, reader[s].pipe, FALSE)
    BY <1>0, <1>6, ReaderSteps DEF ReaderEnds
  <2>2. reader[s].pipe = reader[s].pipe + 0 - 0
    BY <2>1
  <2>3. PICK on : Sets(s, reader[s].pipe + 0 - 0, on)
    BY <2>1, <2>2
  <2>4. ChanLines(chan') = ChanLines(chan) + 0
    BY <1>4, <1>6 DEF ReaderEnds
  <2>5. wrote' = wrote + 0 /\ child' = child
    BY <1>0, <1>6 DEF ReaderEnds
  <2>6. Balanced
    BY <2>3, <2>4, <2>5, LineMoves
  <2> QED BY <1>2, <2>5, <2>6
<1>7. CASE ChildWrites
  <2>1. PICK s \in Streams : reader' = [reader EXCEPT ![s].pipe = reader[s].pipe + 1]
    BY <1>7 DEF ChildWrites
  <2>2. reader[s].pipe \in Int
    BY <1>0, ReaderSteps
  <2>3. reader[s].pipe + 1 \in Int /\ reader[s].pipe + 1 = reader[s].pipe + 1 - 0
    BY <2>2
  <2>4. Sets(s, reader[s].pipe + 1 - 0, reader[s].on)
    BY <1>0, <2>1, <2>3, ReaderSteps
  <2>5. wrote' = wrote + 1 /\ child' = child /\ chan' = chan
    BY <1>7 DEF ChildWrites
  <2>6. ChanLines(chan') = ChanLines(chan) + 0
    BY <2>5, GuestLines
  <2>7. Balanced
    BY <2>4, <2>5, <2>6, LineMoves
  <2> QED BY <1>2, <2>5, <2>7
<1>8. CASE ChildExits
  <2>1. PICK c \in 0..1 : child' = [child EXCEPT !.st = "exited", !.code = c]
    BY <1>8 DEF ChildExits
  <2>2. child'.cut = child.cut
    <3>1. c \in Int
      OBVIOUS
    <3> QED BY <1>0, <2>1, <3>1, ChildSteps
  <2>3. UNCHANGED <<reader, chan, wrote>>
    BY <1>8 DEF ChildExits
  <2>4. InGuest' = InGuest
    BY <2>3 DEF InGuest
  <2>5. Balanced
    BY <2>3, <2>4 DEF Balanced
  <2> QED BY <1>2, <2>2, <2>5
<1> QED BY <1>5, <1>6, <1>7, <1>8

(* The last message of a handler that is through.                          *)
LEMMA DeliveryLast ==
  ASSUME Shape, Next, Delivery, NEW f \in Message, Send(f), Final(f), UNCHANGED <<cliDown, shown>>,
         main \in Busy, main' \in {"idle", "closed"}, UNCHANGED <<child, wrote, body>>,
         child.st # "running", InGuest = 0, HostOpen /\ kind \in Uploads => body = BodyLen
  PROVE  Delivery'
<1>1. HostOpen => child.cut \/ wrote = Sent + InGuest
  BY DEF Delivery
<1>2. wrote \in Int /\ Sent \in Int
  BY Counts
<1>3. wrote = Sent + InGuest => wrote' = Sent
  BY <1>2
<1>4. HostOpen => child'.cut \/ wrote' = Sent
  BY <1>1, <1>3
<1>5. ~Unstarted'
  BY EarlyNext DEF Unstarted, Busy
<1>6. kind' = kind
  BY FitsNext DEF Shape
<1>7. HostOpen => Over'
  BY <1>5, <1>6 DEF Over
<1> QED BY <1>4, <1>7, DeliverySent

(* A line of output.                                                       *)
LEMMA DeliveryLine ==
  ASSUME Shape, Next, Delivery, Send(Msg("line", 1)), UNCHANGED <<cliDown, shown, child>>, main \in Busy,
         \A n \in Int : wrote = n + InGuest => wrote' = n + InGuest' + 1
  PROVE  Delivery'
<1>1. Msg("line", 1) \in Message /\ Msg("line", 1).kind = "line" /\ ~Final(Msg("line", 1))
  BY DEF Message, Msg, Final
<1>2. HostOpen => child.cut \/ wrote = Sent + InGuest
  BY DEF Delivery
<1>3. Sent \in Int
  BY Counts
<1>4. HostOpen => child'.cut \/ wrote' = Sent + InGuest' + 1
  BY <1>2, <1>3
<1>5. HostOpen => child'.cut \/ wrote' = Sent + InGuest' + IF Msg("line", 1).kind = "line" THEN 1 ELSE 0
  BY <1>1, <1>4
<1> HIDE DEF Msg
<1> QED BY <1>1, <1>5, DeliverySent

(* An error, an announcement, a chunk.                                     *)
LEMMA DeliveryOther ==
  ASSUME Shape, Next, Delivery, NEW f \in Message, Send(f), ~Final(f), f.kind # "line",
         UNCHANGED <<cliDown, shown, child, wrote, chan, reader>>, main \in Busy
  PROVE  Delivery'
<1>1. HostOpen => child.cut \/ wrote = Sent + InGuest
  BY DEF Delivery
<1>2. InGuest' = InGuest /\ Sent \in Int /\ InGuest \in Int
  BY Counts DEF InGuest
<1>3. wrote = Sent + InGuest => wrote' = Sent + InGuest' + IF f.kind = "line" THEN 1 ELSE 0
  BY <1>2
<1>4. HostOpen => child'.cut \/ wrote' = Sent + InGuest' + IF f.kind = "line" THEN 1 ELSE 0
  BY <1>1, <1>3
<1> QED BY <1>4, DeliverySent

LEMMA DeliveryAnswer ==
  ASSUME Shape, Next, Delivery,
         \/ GuestRefuses \/ GuestAnswers \/ HandlerPrints \/ Report \/ PullProgress \/ RunDetached
         \/ StreamLine \/ StreamEnds \/ SendArchive
  PROVE  Delivery'
<1> USE DEF onHost, inGuest, sockets, onHostSide, process
<1>0. MainFits /\ Context /\ Process /\ kind \in Kinds
  BY DEF Shape, Types
<1>1. UNCHANGED <<cliDown, shown, child, reader>> /\ main \in Busy
  BY DEF GuestRefuses, GuestAnswers, HandlerPrints, Report, PullProgress, RunDetached, StreamLine, StreamEnds,
         SendArchive, Busy
<1>2. /\ \A k \in {"command", "chunk", "line", "raw", "exit", "answer", "error"}, n \in Int :
            Msg(k, n) \in Message /\ Msg(k, n).kind = k
      /\ Error \in Message /\ Error.kind = "error"
      /\ body + 1 \in Int /\ child.code \in Int /\ BodyLen \in Int /\ 0 \in Int /\ 1 \in Int
  <2>1. /\ \A k \in {"command", "chunk", "line", "raw", "exit", "answer", "error"}, n \in Int :
              Msg(k, n) \in Message /\ Msg(k, n).kind = k
        /\ Error \in Message /\ Error.kind = "error"
    BY Parts DEF Shape
  <2>2. body \in Int /\ child.code \in Int
    BY DEF Shape, Types, ChildType
  <2>3. BodyLen \in Int
    BY CommandAssumption
  <2> QED BY <2>1, <2>2, <2>3
<1>3. After \in {"idle", "closed"}
  BY DEF After
<1>4. InGuest \in Int /\ wrote \in Int
  BY Counts
<1>5. main \notin {"feeding", "streaming"} => child.st # "running" /\ InGuest = 0
  BY <1>0, <1>1, Counts DEF Process, NoProcess
<1>6. ASSUME NEW f \in Message, f.kind \in {"exit", "answer"}, Send(f), main \notin {"feeding", "streaming"},
             main' \in {"idle", "closed"}, UNCHANGED <<wrote, body>>,
             HostOpen /\ kind \in Uploads => body = BodyLen
      PROVE  Delivery'
  BY <1>1, <1>5, <1>6, DeliveryLast DEF Final
<1>7. ASSUME Send(Msg("line", 1)), wrote' = wrote + 1, chan' = chan PROVE Delivery'
  <2>1. InGuest' = InGuest
    BY <1>1, <1>7 DEF InGuest
  <2>2. \A n \in Int : wrote = n + InGuest => wrote' = n + InGuest' + 1
    BY <1>4, <1>7, <2>1
  <2> QED BY <1>1, <1>7, <2>2, DeliveryLine
<1>8. ASSUME NEW f \in Message, f.kind \in {"error", "raw", "chunk"}, Send(f), UNCHANGED <<wrote, chan>>
      PROVE  Delivery'
  BY <1>1, <1>8, DeliveryOther DEF Final
<1>9. CASE GuestRefuses
  BY <1>2, <1>8, <1>9 DEF GuestRefuses
<1>10. CASE GuestAnswers
  <2>1. /\ Send(Msg("answer", 0)) /\ main = "handling" /\ main' \in {"idle", "closed"}
        /\ UNCHANGED <<wrote, body>> /\ kind \notin Uploads
    BY <1>3, <1>10 DEF GuestAnswers, Questions, Uploads
  <2> QED BY <1>2, <1>6, <2>1
<1>11. CASE HandlerPrints
  <2>1. CASE Send(Msg("line", 1)) /\ wrote' = wrote + 1
    BY <1>7, <1>11, <2>1 DEF HandlerPrints
  <2>2. CASE Send(Msg("exit", 0)) /\ UNCHANGED wrote /\ main' = IF HostOpen THEN After ELSE "closed"
    <3>1. main \in {"printing", "handling"} /\ kind = "plain" /\ body' = body
      BY <1>0, <1>11 DEF HandlerPrints, MainFits
    <3>2. kind \notin Uploads /\ main' \in {"idle", "closed"}
      BY <1>3, <2>2, <3>1 DEF Uploads
    <3> QED BY <1>2, <1>6, <2>2, <3>1, <3>2
  <2> QED BY <1>11, <2>1, <2>2 DEF HandlerPrints
<1>12. CASE Report
  <2>1. main = "reporting" /\ body' = body /\ chan' = chan
    BY <1>12 DEF Report
  <2>2. CASE Send(Msg("line", 1)) /\ wrote' = wrote + 1
    BY <1>7, <2>1, <2>2
  <2>3. CASE (\E c \in 0..1 : Send(Msg("exit", c))) /\ main' = After /\ wrote' = wrote
    <3>1. PICK c \in 0..1 : Send(Msg("exit", c))
      BY <2>3
    <3>2. c \in Int
      OBVIOUS
    <3>3. HostOpen /\ kind \in Uploads => body = BodyLen
      BY <1>0, <2>1 DEF Context
    <3> QED BY <1>2, <1>3, <1>6, <2>1, <2>3, <3>1, <3>2, <3>3
  <2> QED BY <1>12, <2>2, <2>3 DEF Report
<1>13. CASE PullProgress
  BY <1>7, <1>13 DEF PullProgress
<1>14. CASE RunDetached
  <2>1. CASE Send(Msg("line", 1)) /\ wrote' = wrote + 1
    BY <1>7, <1>14, <2>1 DEF RunDetached
  <2>2. CASE UNCHANGED <<vmDown, wrote>>
    <3>1. chan' = chan
      BY <1>14 DEF RunDetached
    <3>2. InGuest' = InGuest
      BY <1>1, <3>1 DEF InGuest
    <3>3. Balanced
      BY <2>2, <3>2 DEF Balanced
    <3> QED BY <1>1, <2>2, <3>3, DeliveryKept
  <2> QED BY <1>14, <2>1, <2>2 DEF RunDetached
<1>15. CASE StreamLine
  <2>1. /\ chan # <<>> /\ Head(chan) = "line" /\ chan' = Tail(chan) /\ wrote' = wrote
        /\ Send(Msg("line", 1))
    BY <1>15 DEF StreamLine
  <2>2. ChanLines(chan') = ChanLines(chan) - 1
    BY <2>1, ChanTaken, GuestLines
  <2>3. InGuest' = InGuest - 1
    BY <1>1, <2>2, GuestLines
  <2>4. \A n \in Int : wrote = n + InGuest => wrote' = n + InGuest' + 1
    BY <1>4, <2>1, <2>3
  <2> QED BY <1>1, <2>1, <2>4, DeliveryLine
<1>16. CASE StreamEnds
  <2>1. /\ main = "streaming" /\ chan = <<"done">> /\ (\A s \in Streams : ~reader[s].on)
        /\ child.st = "exited" /\ Send(Msg("exit", child.code)) /\ main' \in {"idle", "closed"}
        /\ UNCHANGED <<wrote, body>>
    BY <1>3, <1>16 DEF StreamEnds
  <2>2. kind \in Uploads => body = BodyLen
    BY <1>0, <2>1 DEF Context
  <2>3. reader["out"].pipe = 0 /\ reader["err"].pipe = 0
    BY <1>0, <2>1, GuestLines DEF Process
  <2>4. InGuest = 0
    BY <2>1, <2>3, NoLines, GuestLines
  <2>5. Final(Msg("exit", child.code)) /\ Msg("exit", child.code) \in Message
    BY <1>2 DEF Final
  <2> QED BY <1>1, <2>1, <2>2, <2>4, <2>5, DeliveryLast
<1>17. CASE SendArchive
  <2>1. kind \notin Uploads /\ UNCHANGED <<wrote, chan>>
    BY <1>17 DEF SendArchive, Uploads
  <2>2. CASE Send(Msg("raw", BodyLen)) \/ Send(Msg("chunk", body + 1))
    BY <1>2, <1>8, <2>1, <2>2
  <2>3. CASE main = "sending" /\ body = BodyLen /\ Send(Msg("exit", 0)) /\ UNCHANGED body
    <3>1. main' = "closed"
      BY <1>17, <2>3 DEF SendArchive
    <3> QED BY <1>2, <1>6, <2>1, <2>3, <3>1
  <2> QED BY <1>17, <2>2, <2>3 DEF SendArchive
<1> QED BY <1>9, <1>10, <1>11, <1>12, <1>13, <1>14, <1>15, <1>16, <1>17

(* A message that moves on, or that the CLI takes.                         *)
LEMMA DeliveryMoved ==
  ASSUME Shape, Next, Delivery, EndsAtFinal(cliDown'), EndsAtFinal(vmDown'),
         HasFinal(cliDown') => vmDown' = <<>>, Answered' => Answered, Sent' = Sent,
         UNCHANGED <<main, child, wrote, chan, reader>>
  PROVE  Delivery'
<1>1. Answered' => Over' /\ (child'.cut \/ wrote' = Sent')
  BY OverStays DEF Delivery
<1>2. HostOpen' => HostOpen
  BY EndsStay
<1>3. InGuest' = InGuest
  BY DEF InGuest
<1>4. HostOpen' /\ main' \in Busy => child'.cut \/ wrote' = Sent' + InGuest'
  BY <1>2, <1>3 DEF Delivery
<1> QED BY <1>1, <1>4 DEF Delivery

LEMMA DeliveryTaken ==
  ASSUME Shape, Next, Delivery, CliOpen', CliReads \/ CliUnpacks
  PROVE  Delivery'
<1> USE DEF onHost, inGuest, sockets, onHostSide, process
<1> DEFINE m == Head(cliDown)
<1>0. /\ cli \in CliType /\ cliDown \in Seq(Message) /\ Contents
      /\ shown \in Int /\ Lines(cliDown) \in Nat /\ Lines(vmDown) \in Nat
  BY Counts DEF Shape, Types
<1>1. /\ cliDown # <<>> /\ cliDown' = Tail(cliDown)
      /\ UNCHANGED <<vmDown, main, child, wrote, chan, reader>>
  BY DEF CliReads, CliUnpacks
<1>2. /\ EndsAtFinal(cliDown') /\ (HasFinal(cliDown') => HasFinal(cliDown))
      /\ Lines(cliDown') = IF m.kind = "line" THEN Lines(cliDown) - 1 ELSE Lines(cliDown)
  BY <1>0, <1>1, FinalTaken, LinesTaken DEF Delivery
<1>3. shown' = shown + IF m.kind = "line" THEN 1 ELSE 0
  <2>1. CASE CliUnpacks
    <3>1. shown' = shown /\ kind = "cp_from"
      BY <1>0, <2>1 DEF CliUnpacks, Contents
    <3>2. m.kind # "line"
      BY <1>0, <1>1, <3>1, CarriesTaken DEF Contents
    <3> QED BY <1>0, <3>1, <3>2
  <2>2. CASE CliReads
    <3>1. CliTakes(m)
      BY <1>0, <2>2, CliReading
    <3> HIDE DEF m
    <3> QED BY <1>0, <3>1 DEF CliTakes, CliOpen
  <2> QED BY <2>1, <2>2
<1> HIDE DEF m
<1>4. Sent' = shown' + Lines(cliDown') + Lines(vmDown)
  BY <1>1 DEF Sent
<1>5. Sent' = Sent
  BY <1>0, <1>2, <1>3, <1>4 DEF Sent
<1>6. EndsAtFinal(vmDown') /\ (HasFinal(cliDown') => vmDown' = <<>>) /\ (Answered' => Answered)
  BY <1>1, <1>2 DEF Delivery, Answered
<1> QED BY <1>1, <1>2, <1>5, <1>6, DeliveryMoved

LEMMA DeliveryRelayed ==
  ASSUME Shape, Next, Delivery, CliOpen, RelayDown
  PROVE  Delivery'
<1> USE DEF onHost, inGuest
<1> DEFINE m == Head(vmDown)
<1>0. /\ cliDown \in Seq(Message) /\ vmDown \in Seq(Message)
      /\ shown \in Int /\ Lines(cliDown) \in Nat /\ Lines(vmDown) \in Nat
  BY Counts DEF Shape, Types
<1>1. UNCHANGED <<shown, main, child, wrote, chan, reader>>
  BY DEF RelayDown
<1>2. CASE UNCHANGED <<vmDown, cliDown>>
  BY <1>1, <1>2, DeliveryMoved DEF Delivery, Answered, Sent
<1>3. CASE vmDown # <<>> /\ cliDown' = Append(cliDown, m) /\ vmDown' = Tail(vmDown)
  <2>1. m \in Message
    BY <1>0, <1>3, TailFacts
  <2>2. ~HasFinal(cliDown) /\ EndsAtFinal(vmDown)
    BY <1>3 DEF Delivery
  <2>3. /\ EndsAtFinal(cliDown') /\ (HasFinal(cliDown') <=> Final(m))
        /\ Lines(cliDown') = IF m.kind = "line" THEN Lines(cliDown) + 1 ELSE Lines(cliDown)
    <3> HIDE DEF m
    <3> QED BY <1>0, <1>3, <2>1, <2>2, FinalSent, LinesSent
  <2>4. /\ EndsAtFinal(vmDown') /\ (HasFinal(vmDown) <=> Final(m) \/ HasFinal(vmDown'))
        /\ (Final(m) => vmDown' = <<>>)
        /\ Lines(vmDown') = IF m.kind = "line" THEN Lines(vmDown) - 1 ELSE Lines(vmDown)
    BY <1>0, <1>3, <2>2, FinalTaken, LinesTaken
  <2> HIDE DEF m
  <2>5. Sent' = shown + Lines(cliDown') + Lines(vmDown')
    BY <1>1 DEF Sent
  <2>6. Sent' = Sent
    BY <1>0, <2>3, <2>4, <2>5 DEF Sent
  <2>7. (HasFinal(cliDown') => vmDown' = <<>>) /\ (Answered' => Answered)
    BY <2>3, <2>4 DEF Answered
  <2> QED BY <1>1, <2>3, <2>4, <2>6, <2>7, DeliveryMoved
<1> QED BY <1>2, <1>3 DEF RelayDown, CopyDown

(* The daemon gives up, or ends.                                           *)
LEMMA DeliveryEnded ==
  ASSUME Shape, Next, Delivery, DaemonGivesUp \/ DaemonExits
  PROVE  Delivery'
<1> USE DEF onHost, inGuest
<1>1. CASE DaemonGivesUp
  <2>1. /\ vmDown = <<>> /\ cliDown = <<>> /\ main \in {"idle", "stopped"}
        /\ vmDown' = vmDown /\ cliDown' \in {cliDown, Append(cliDown, Error)}
        /\ main' \in {"closed", "stopped"}
    BY <1>1 DEF DaemonGivesUp, Shape, Early
  <2>2. Error \in Message /\ ~Final(Error) /\ <<>> \in Seq(Message)
    BY DEF Message, Error, Msg, Final
  <2>3. EndsAtFinal(cliDown') /\ ~HasFinal(cliDown') /\ EndsAtFinal(vmDown') /\ ~HasFinal(vmDown')
    <3>1. CASE cliDown' = cliDown
      BY <2>1, <3>1, NoLines
    <3>2. CASE cliDown' = Append(cliDown, Error)
      BY <2>1, <2>2, <3>2, NoLines, FinalSent
    <3> QED BY <2>1, <3>1, <3>2
  <2>4. main' \notin Busy
    BY <2>1 DEF Busy
  <2> QED BY <2>3, <2>4 DEF Delivery, Answered
<1>2. CASE DaemonExits
  <2>1. main = "stopped" /\ vmDown' = <<>> /\ UNCHANGED <<cliDown, shown, main, child, wrote>>
    BY <1>2 DEF DaemonExits, CopyingEnds
  <2>2. main' \notin Busy /\ EndsAtFinal(vmDown') /\ ~HasFinal(vmDown')
    BY <2>1, NoLines DEF Busy
  <2>3. HasFinal(cliDown) => Answered /\ Sent' = Sent
    BY <2>1 DEF Delivery, Answered, Sent
  <2>4. Answered => Over' /\ (child'.cut \/ wrote' = Sent)
    BY <2>1, OverStays DEF Delivery
  <2>5. Answered' => Over' /\ (child'.cut \/ wrote' = Sent')
    BY <2>1, <2>2, <2>3, <2>4 DEF Answered
  <2> QED BY <2>1, <2>2, <2>5 DEF Delivery
<1> QED BY <1>1, <1>2

LEMMA AnswersInit == Init => Answers
<1> SUFFICES ASSUME Init PROVE Answers
  OBVIOUS
<1>1. /\ main = "idle" /\ vmDown = <<>> /\ cliDown = <<>> /\ cli.at \in {"packing", "header"}
  BY DEF Init, ProxyInit
<1>2. main \notin Busy
  BY <1>1 DEF Busy
<1>3. Delivery
  BY <1>1, <1>2, NoLines DEF Delivery, Answered
<1> QED BY <1>1, <1>3 DEF Answers

(* The CLI ends well only by reading an answer.                            *)
LEMMA OnlyReads ==
  ASSUME Shape, Next, cli'.at # cli.at, cli'.at \in {"done", "unpacking"}
  PROVE  CliReads
<1> USE DEF onHost, inGuest, sockets, onHostSide, process
<1>0. cli \in CliType /\ cliDown \in Seq(Message)
  BY DEF Shape, Types
<1>1. ~(CliPacks \/ CliSendsHeader)
  BY <1>0, CliSteps
<1>2. ~(CliSendsBody \/ CliSeesEnd)
  BY <1>0, CliSteps
<1>3. ~(CliKilled \/ CliCannotRead)
  BY <1>0, CliSteps
<1>4. ~CliUnpacks
  <2>1. CliUnpacks => cli'.at \in {"unpacking", "reading", "failed"} /\ cli.at = "unpacking"
    BY <1>0, CliSteps DEF CliUnpacks
  <2> QED BY <2>1
<1>5. CASE Cli \/ CliKilled \/ CliCannotRead
  BY <1>1, <1>2, <1>3, <1>4, <1>5 DEF Cli
<1>6. CASE Daemon \/ DialCompletesLate \/ RelayUp \/ RelayDown \/ VmStops \/ DaemonExits
  BY <1>6 DEF Daemon, DaemonConnects, DialFails, DaemonGivesUp, DialCompletesLate, RelayUp, RelayDown,
              VmStops, DaemonExits
<1>7. CASE GuestRefuses \/ GuestDrops \/ Handler \/ TarComplains
  BY <1>7 DEF GuestRefuses, GuestDrops, TarComplains, Handler, GuestReadsCommand, GuestSeesEnd, GuestAnswers,
        HandlerPrints, StartFeeding, Feed, StartReceiving, ReceiveChunk, Received, Report, PullProgress,
        StartPull, StartStreaming, RunDetached, StreamLine, StreamDone, StreamEnds, SendArchive
<1>8. CASE (\E s \in Streams : ReaderReads(s) \/ ReaderEnds(s)) \/ ChildWrites \/ ChildExits
  BY <1>8 DEF ReaderReads, ReaderEnds, ChildWrites, ChildExits
<1> QED BY <1>5, <1>6, <1>7, <1>8 DEF Next

LEMMA AnswersNext ==
  ASSUME Shape, Answers, Next
  PROVE  Answers'
<1>1. CliOpen' => Delivery'
  <2> SUFFICES ASSUME CliOpen' PROVE Delivery'
    OBVIOUS
  <2>1. CliOpen /\ Delivery
    BY EndsStay DEF Answers
  <2>2. CASE \/ CliPacks \/ CliSendsHeader \/ CliSendsBody \/ CliSeesEnd \/ CliKilled \/ CliCannotRead
             \/ DaemonConnects \/ DialFails \/ DialCompletesLate \/ RelayUp \/ VmStops
    BY <2>1, <2>2, DeliveryHost
  <2>3. CASE CliReads \/ CliUnpacks
    BY <2>1, <2>3, DeliveryTaken
  <2>4. CASE RelayDown
    BY <2>1, <2>4, DeliveryRelayed
  <2>5. CASE DaemonGivesUp \/ DaemonExits
    BY <2>1, <2>5, DeliveryEnded
  <2>6. CASE \/ GuestReadsCommand \/ GuestSeesEnd \/ GuestDrops \/ StartReceiving \/ ReceiveChunk
             \/ TarComplains \/ Received \/ StartPull \/ StartStreaming \/ StartFeeding \/ Feed \/ StreamDone
    BY <2>1, <2>6, DeliveryInside
  <2>7. CASE \/ GuestRefuses \/ GuestAnswers \/ HandlerPrints \/ Report \/ PullProgress \/ RunDetached
             \/ StreamLine \/ StreamEnds \/ SendArchive
    BY <2>1, <2>7, DeliveryAnswer
  <2>8. CASE (\E s \in Streams : ReaderReads(s) \/ ReaderEnds(s)) \/ ChildWrites \/ ChildExits
    BY <2>1, <2>8, DeliveryProcess
  <2> QED BY <2>2, <2>3, <2>4, <2>5, <2>6, <2>7, <2>8 DEF Next, Cli, Daemon, Handler
<1>2. cli'.at = "done" => Over' /\ (child'.cut \/ shown' = wrote')
  <2> SUFFICES ASSUME cli'.at = "done" PROVE Over' /\ (child'.cut \/ shown' = wrote')
    OBVIOUS
  <2>1. CASE cli.at = "done"
    <3>1. Over /\ (child.cut \/ shown = wrote) /\ shown' = shown
      BY <2>1, EndsStay DEF Answers
    <3> QED BY <3>1, OverStays
  <2>2. CASE cli.at # "done"
    <3>1. CliReads /\ cli.at = "reading" /\ cliDown # <<>>
      BY <2>2, OnlyReads DEF CliReads
    <3>2. cliDown \in Seq(Message) /\ cli \in CliType /\ Delivery
      BY <3>1 DEF Shape, Types, Answers, CliOpen
    <3>3. Final(Head(cliDown)) /\ Head(cliDown).kind # "line" /\ shown' = shown
      BY <3>1, <3>2, CliReading DEF CliTakes, Final
    <3>4. HasFinal(cliDown) /\ Tail(cliDown) = <<>>
      BY <3>1, <3>2, <3>3, FinalTaken DEF Delivery
    <3>5. vmDown = <<>> /\ Over /\ (child.cut \/ wrote = Sent)
      BY <3>2, <3>4 DEF Delivery, Answered
    <3>6. Lines(cliDown) = 0 /\ Lines(vmDown) = 0
      BY <3>1, <3>2, <3>3, <3>4, <3>5, LinesTaken, NoLines
    <3>7. Sent = shown
      BY <3>6, Counts DEF Sent
    <3> QED BY <3>3, <3>5, <3>7, OverStays
  <2> QED BY <2>1, <2>2
<1> QED BY <1>1, <1>2 DEF Answers

-----------------------------------------------------------------------------
(* The answer to cp_from *)

LEMMA Positions ==
  ASSUME Shape
  PROVE  /\ Consumed \in Int /\ Len(cliDown) \in Nat /\ Len(vmDown) \in Nat /\ BodyLen \in Nat \ {0}
         /\ cliDown \in Seq(Message) /\ vmDown \in Seq(Message) /\ cli \in CliType
         /\ cli.got \in Int /\ body \in Int
<1>1. /\ cliDown \in Seq(Message) /\ vmDown \in Seq(Message) /\ cli \in CliType /\ body \in Int
      /\ cli.got \in Int
  BY DEF Shape, Types, CliType
<1>2. BodyLen \in Nat \ {0}
  BY CommandAssumption
<1>3. Consumed \in Int
  BY <1>1, <1>2 DEF Consumed
<1> QED BY <1>1, <1>2, <1>3, LenProperties

LEMMA NothingPlaced == \A n : Placed(<<>>, n)
  BY DEF Placed

LEMMA ArchiveInit == Init => Archive
<1> SUFFICES ASSUME Init, kind = "cp_from" PROVE Archive
  BY DEF Archive
<1>1. main = "idle" /\ vmDown = <<>> /\ cliDown = <<>> /\ cli.at \in {"packing", "header"} /\ cli.got = 0
  BY DEF Init, ProxyInit
<1> QED BY <1>1, NothingPlaced DEF Archive, GotFits, InPlace, SentFits

(* A step that leaves the answer alone.                                    *)
LEMMA ArchiveKept ==
  ASSUME Shape, Next, Archive, UNCHANGED <<cli, cliDown, vmDown>>,
         main' = "sending" => main = "sending" /\ body' = body
  PROVE  Archive'
<1>1. kind' = kind /\ (HostOpen' => HostOpen)
  BY FitsNext, EndsStay DEF Shape
<1>2. Consumed' = Consumed /\ CliOpen' = CliOpen
  BY DEF Consumed, CliOpen
<1>3. GotFits => GotFits'
  BY DEF GotFits
<1>4. InPlace => InPlace'
  BY <1>2 DEF InPlace, Placed
<1>5. SentFits => SentFits'
  BY <1>1, <1>2 DEF SentFits
<1> QED BY <1>1, <1>2, <1>3, <1>4, <1>5 DEF Archive

(* Steps of the CLI.                                                       *)
LEMMA ArchiveCli ==
  ASSUME Shape, Next, Archive, Cli \/ CliKilled \/ CliCannotRead
  PROVE  Archive'
<1> USE DEF onHost, inGuest, sockets
<1>0. /\ cli \in CliType /\ cliDown \in Seq(Message) /\ kind' = kind /\ (HostOpen' => HostOpen) /\ Early
      /\ (CliOpen' => CliOpen)
  BY FitsNext, EndsStay DEF Shape, Types
<1> SUFFICES ASSUME kind = "cp_from" PROVE GotFits' /\ (CliOpen' => InPlace' /\ SentFits')
  BY <1>0 DEF Archive
<1>1. GotFits /\ (CliOpen => InPlace /\ SentFits)
  BY DEF Archive
<1>2. UNCHANGED <<main, body>>
  BY DEF Cli, CliPacks, CliSendsHeader, CliSendsBody, CliReads, CliUnpacks, CliSeesEnd, CliKilled, CliCannotRead
<1>3. ASSUME cli'.at \in {"failed", "killed"} PROVE GotFits' /\ (CliOpen' => InPlace' /\ SentFits')
  BY <1>3 DEF GotFits, CliOpen
<1>4. ~CliPacks /\ ~CliSendsBody /\ ~CliCannotRead
  BY <1>0 DEF CliPacks, CliSendsBody, CliCannotRead, Early, Uploads
<1>5. CASE CliKilled \/ CliSeesEnd
  BY <1>0, <1>3, <1>5, CliSteps
<1>6. CASE CliSendsHeader
  <2>1. /\ cli.at = "header" /\ cli'.got = cli.got /\ cli'.at \in {"reading", "failed"}
        /\ UNCHANGED <<vmDown, cliDown>>
    BY <1>0, <1>6, CliSteps DEF CliSendsHeader, Uploads
  <2>2. CASE cli'.at = "reading"
    <3>1. Consumed' = Consumed
      BY <2>1, <2>2 DEF Consumed
    <3>2. CliOpen /\ GotFits'
      BY <1>1, <2>1, <2>2 DEF CliOpen, GotFits
    <3>3. InPlace'
      BY <1>1, <2>1, <3>1, <3>2 DEF InPlace, Placed
    <3>4. SentFits'
      BY <1>0, <1>1, <1>2, <2>1, <3>1, <3>2 DEF SentFits
    <3> QED BY <3>2, <3>3, <3>4
  <2> QED BY <1>3, <2>1, <2>2
<1>7. ASSUME CliReads \/ CliUnpacks, GotFits', CliOpen' => Consumed' = Consumed + 1
      PROVE  GotFits' /\ (CliOpen' => InPlace' /\ SentFits')
  <2> SUFFICES ASSUME CliOpen' PROVE InPlace' /\ SentFits'
    BY <1>7
  <2>1. cliDown # <<>> /\ cliDown' = Tail(cliDown) /\ vmDown' = vmDown /\ InPlace /\ SentFits
    BY <1>0, <1>1, <1>7 DEF CliReads, CliUnpacks
  <2>2. Len(cliDown) \in Nat \ {0} /\ Len(cliDown') = Len(cliDown) - 1
    BY <1>0, <2>1, TailFacts
  <2>3. Placed(cliDown', Consumed + 1)
    BY <2>1, Positions, PlacedTaken DEF InPlace
  <2>4. Consumed' = Consumed + 1 /\ Consumed' + Len(cliDown') = Consumed + Len(cliDown)
    BY <1>7, <2>2, Positions
  <2>5. InPlace'
    BY <2>1, <2>3, <2>4 DEF InPlace, Placed
  <2>6. SentFits'
    BY <1>0, <1>2, <2>1, <2>4 DEF SentFits
  <2> QED BY <2>5, <2>6
<1>8. CASE CliReads
  <2> DEFINE m == Head(cliDown)
  <2>1. cli.at = "reading" /\ cliDown # <<>> /\ CliTakes(m) /\ InPlace
    BY <1>0, <1>1, <1>8, CliReading DEF CliReads, CliOpen
  <2>2. /\ m.kind = "raw" => Consumed = 0
        /\ m.kind = "exit" => Consumed = BodyLen + 1
        /\ m.kind # "answer"
    BY <2>1, Positions, PlacedTaken DEF InPlace
  <2>3. m.kind # "line"
    BY <1>0, <2>1, CarriesTaken DEF Shape, Contents
  <2> HIDE DEF m
  <2>4. cli.got \in {0, BodyLen} /\ (Consumed = IF cli.got = BodyLen THEN 1 + BodyLen ELSE 0)
    BY <1>1, <2>1 DEF GotFits, Consumed
  <2>5. CASE m.kind = "raw" /\ cli'.at = "unpacking"
    <3>1. cli.got = 0 /\ cli'.got = 0 /\ Consumed = 0
      BY <2>1, <2>2, <2>4, <2>5, Positions DEF CliTakes
    <3>2. GotFits' /\ Consumed' = Consumed + 1
      BY <2>5, <3>1, Positions DEF GotFits, Consumed
    <3> QED BY <1>7, <1>8, <3>2
  <2>6. CASE m.kind = "exit" /\ cli'.at = "done"
    <3>1. cli'.got = BodyLen
      BY <2>1, <2>2, <2>4, <2>6, Positions DEF CliTakes
    <3> QED BY <2>6, <3>1 DEF GotFits, CliOpen
  <2>7. CASE cli'.at = "failed"
    BY <1>3, <2>7
  <2> QED BY <2>1, <2>2, <2>3, <2>5, <2>6, <2>7 DEF CliTakes
<1>9. CASE CliUnpacks
  <2>1. cli.at = "unpacking" /\ cli.got \in 0..(BodyLen - 1) /\ Consumed = 1 + cli.got
    BY <1>1, <1>9 DEF CliUnpacks, GotFits, Consumed
  <2>2. CASE /\ cli'.got = cli.got + 1
             /\ cli'.at = IF cli.got + 1 < BodyLen THEN "unpacking" ELSE "reading"
    <3>1. CASE cli.got + 1 < BodyLen
      BY <1>7, <1>9, <2>1, <2>2, <3>1, Positions DEF GotFits, Consumed
    <3>2. CASE cli.got + 1 = BodyLen
      <4>1. cli'.at = "reading" /\ cli'.got = BodyLen
        BY <2>2, <3>2, Positions
      <4> QED BY <1>7, <1>9, <2>1, <3>2, <4>1, Positions DEF GotFits, Consumed
    <3> QED BY <2>1, <3>1, <3>2, Positions
  <2> QED BY <1>0, <1>3, <1>9, <2>2, CliSteps
<1> QED BY <1>4, <1>5, <1>6, <1>8, <1>9 DEF Cli

(* Steps of the daemon.                                                    *)
LEMMA ArchiveDaemon ==
  ASSUME Shape, Next, Archive, RelayDown \/ DaemonGivesUp \/ DaemonExits
  PROVE  Archive'
<1> USE DEF onHost, inGuest
<1>0. /\ UNCHANGED cli /\ kind' = kind /\ (HostOpen' => HostOpen)
  BY FitsNext, EndsStay DEF Shape, RelayDown, DaemonGivesUp, DaemonExits
<1>1. Consumed' = Consumed /\ CliOpen' = CliOpen /\ (GotFits => GotFits')
  BY <1>0 DEF Consumed, CliOpen, GotFits
<1> SUFFICES ASSUME kind = "cp_from", CliOpen PROVE InPlace' /\ SentFits'
  BY <1>0, <1>1 DEF Archive
<1>2. InPlace /\ SentFits
  BY DEF Archive
<1>3. CASE RelayDown /\ UNCHANGED <<vmDown, cliDown>>
  <2>1. UNCHANGED <<main, body>>
    BY <1>3 DEF RelayDown
  <2>2. InPlace'
    BY <1>1, <1>2, <1>3 DEF InPlace, Placed
  <2>3. SentFits'
    BY <1>0, <1>1, <1>2, <1>3, <2>1 DEF SentFits
  <2> QED BY <2>2, <2>3
<1>4. CASE RelayDown /\ vmDown # <<>> /\ cliDown' = Append(cliDown, Head(vmDown)) /\ vmDown' = Tail(vmDown)
  <2> DEFINE m == Head(vmDown)
             n == Consumed + Len(cliDown)
  <2>1. n \in Int /\ Placed(cliDown, Consumed) /\ Placed(vmDown, n) /\ UNCHANGED <<main, body>>
    BY <1>2, <1>4, Positions DEF InPlace, RelayDown
  <2> HIDE DEF n
  <2>2. /\ m \in Message /\ Len(vmDown') = Len(vmDown) - 1
        /\ Placed(vmDown', n + 1)
        /\ m.kind = "raw" => n = 0
        /\ m.kind = "exit" => n = BodyLen + 1
        /\ m.kind # "answer"
    BY <1>4, <2>1, Positions, TailFacts, PlacedTaken
  <2>3. cliDown' = Append(cliDown, m)
    BY <1>4
  <2> HIDE DEF m
  <2>4. Len(cliDown') = Len(cliDown) + 1
    BY <2>2, <2>3, Positions, AppendFacts
  <2>5. Placed(cliDown', Consumed)
    BY <2>1, <2>2, <2>3, Positions, PlacedSent DEF n
  <2>6. Consumed' + Len(cliDown') = n + 1
    BY <1>1, <2>4, Positions DEF n
  <2>7. InPlace'
    BY <1>1, <2>2, <2>5, <2>6 DEF InPlace, Placed
  <2>8. Consumed' + Len(cliDown') + Len(vmDown') = Consumed + Len(cliDown) + Len(vmDown)
    BY <2>2, <2>6, Positions DEF n
  <2>9. SentFits'
    BY <1>0, <1>2, <2>1, <2>8 DEF SentFits
  <2> QED BY <2>7, <2>9
<1>5. CASE DaemonGivesUp
  <2>1. /\ vmDown' = <<>> /\ cliDown = <<>> /\ main' \in {"closed", "stopped"}
        /\ cliDown' \in {cliDown, Append(cliDown, Error)}
    BY <1>5 DEF DaemonGivesUp, Shape, Early
  <2>2. Error \in Message /\ Error.kind = "error"
    BY DEF Message, Error, Msg
  <2>3. Placed(Append(cliDown, Error), Consumed)
    BY <1>2, <2>2, Positions, PlacedSent DEF InPlace
  <2>4. Placed(cliDown', Consumed)
    BY <1>2, <2>1, <2>3 DEF InPlace
  <2>5. InPlace'
    BY <1>1, <2>1, <2>4, NothingPlaced DEF InPlace, Placed
  <2> QED BY <2>1, <2>5 DEF SentFits
<1>6. CASE DaemonExits
  <2>1. vmDown' = <<>> /\ cliDown' = cliDown /\ main' = "stopped"
    BY <1>6 DEF DaemonExits, CopyingEnds
  <2>2. InPlace'
    BY <1>1, <1>2, <2>1, NothingPlaced DEF InPlace, Placed
  <2> QED BY <2>1, <2>2 DEF SentFits
<1> QED BY <1>3, <1>4, <1>5, <1>6 DEF RelayDown, CopyDown

(* handle_cp_from sends its answer, or an error.                           *)
LEMMA ArchiveSent ==
  ASSUME Shape, Next, Archive, kind = "cp_from", SendArchive \/ GuestRefuses
  PROVE  Archive'
<1> USE DEF onHost, onHostSide
<1>0. UNCHANGED <<cli, cliDown, relay>> /\ kind' = kind
  BY FitsNext DEF Shape, SendArchive, GuestRefuses
<1>1. Consumed' = Consumed /\ CliOpen' = CliOpen /\ (GotFits => GotFits') /\ HostOpen' = HostOpen
  BY <1>0 DEF Consumed, CliOpen, GotFits, HostOpen
<1> SUFFICES ASSUME CliOpen PROVE InPlace' /\ SentFits'
  BY <1>0, <1>1 DEF Archive
<1>2. InPlace /\ SentFits
  BY DEF Archive
<1>3. CASE ~HostOpen
  <2>1. vmDown' = vmDown
    BY <1>3 DEF SendArchive, GuestRefuses, Send
  <2>2. InPlace'
    BY <1>0, <1>1, <1>2, <2>1 DEF InPlace, Placed
  <2> QED BY <1>1, <1>3, <2>2 DEF SentFits
<1>4. ASSUME HostOpen, NEW f \in Message, Send(f),
             f.kind = "raw" => Consumed + Len(cliDown) + Len(vmDown) = 0,
             f.kind = "exit" => Consumed + Len(cliDown) + Len(vmDown) = BodyLen + 1,
             f.kind # "answer"
      PROVE  InPlace' /\ Len(vmDown') = Len(vmDown) + 1
  <2>1. vmDown' = Append(vmDown, f)
    BY <1>4 DEF Send
  <2>2. Consumed + Len(cliDown) \in Int
    BY Positions
  <2>3. Placed(vmDown', Consumed + Len(cliDown)) /\ Len(vmDown') = Len(vmDown) + 1
    BY <1>2, <1>4, <2>1, <2>2, Positions, PlacedSent, AppendFacts DEF InPlace
  <2> QED BY <1>0, <1>1, <1>2, <2>3 DEF InPlace, Placed
<1>5. CASE HostOpen /\ GuestRefuses
  <2>1. Error \in Message /\ Error.kind = "error" /\ Send(Error) /\ main' \in {"idle", "closed"}
    BY <1>5 DEF GuestRefuses, Message, Error, Msg, After
  <2>2. InPlace'
    BY <1>4, <1>5, <2>1
  <2> QED BY <2>1, <2>2 DEF SentFits
<1>6. CASE HostOpen /\ SendArchive
  <2>0. body + 1 \in Int /\ BodyLen \in Int
    BY Positions
  <2>1. CASE main = "handling" /\ Send(Msg("raw", BodyLen)) /\ body' = 0
    <3>1. Msg("raw", BodyLen) \in Message /\ Msg("raw", BodyLen).kind = "raw"
      BY <2>0 DEF Message, Msg
    <3>2. vmDown = <<>> /\ cliDown = <<>> /\ cli.got = 0 /\ cli.at # "unpacking"
      BY <2>1 DEF Shape, Early
    <3>3. Consumed = 0 /\ Len(cliDown) = 0 /\ Len(vmDown) = 0
      BY <3>2, Positions DEF Consumed
    <3>4. InPlace' /\ Len(vmDown') = Len(vmDown) + 1
      BY <1>4, <1>6, <2>1, <3>1, <3>3
    <3>5. SentFits'
      BY <1>0, <1>1, <2>1, <3>3, <3>4, Positions DEF SentFits
    <3> QED BY <3>4, <3>5
  <2>2. CASE main = "sending" /\ body < BodyLen /\ Send(Msg("chunk", body + 1)) /\ body' = body + 1
    <3>1. Msg("chunk", body + 1) \in Message /\ Msg("chunk", body + 1).kind = "chunk"
      BY <2>0 DEF Message, Msg
    <3>2. InPlace' /\ Len(vmDown') = Len(vmDown) + 1
      BY <1>4, <1>6, <2>2, <3>1
    <3>3. body \in 0..BodyLen /\ Consumed + Len(cliDown) + Len(vmDown) = 1 + body
      BY <1>2, <1>6, <2>2 DEF SentFits
    <3>4. body' \in 0..BodyLen /\ Consumed' + Len(cliDown') + Len(vmDown') = 1 + body'
      BY <1>0, <1>1, <2>2, <3>2, <3>3, Positions
    <3> QED BY <3>2, <3>4 DEF SentFits
  <2>3. CASE main = "sending" /\ body = BodyLen /\ Send(Msg("exit", 0)) /\ UNCHANGED body
    <3>1. Msg("exit", 0) \in Message /\ Msg("exit", 0).kind = "exit"
      BY DEF Message, Msg
    <3>2. Consumed + Len(cliDown) + Len(vmDown) = BodyLen + 1
      BY <1>2, <1>6, <2>3, Positions DEF SentFits
    <3>3. InPlace'
      BY <1>4, <1>6, <2>3, <3>1, <3>2
    <3>4. main' = "closed"
      BY <1>6, <2>3 DEF SendArchive
    <3> QED BY <3>3, <3>4 DEF SentFits
  <2> QED BY <1>6, <2>1, <2>2, <2>3 DEF SendArchive
<1> QED BY <1>3, <1>5, <1>6

LEMMA ArchiveNext ==
  ASSUME Shape, Archive, Next
  PROVE  Archive'
<1> USE DEF onHost, inGuest, sockets, onHostSide, process
<1>0. kind' = kind /\ MainFits
  BY FitsNext DEF Shape
<1>1. CASE kind # "cp_from"
  BY <1>0, <1>1 DEF Archive
<1>2. CASE kind = "cp_from"
  <2>1. CASE Cli \/ CliKilled \/ CliCannotRead
    BY <2>1, ArchiveCli
  <2>2. CASE RelayDown \/ DaemonGivesUp \/ DaemonExits
    BY <2>2, ArchiveDaemon
  <2>3. CASE SendArchive \/ GuestRefuses
    BY <1>2, <2>3, ArchiveSent
  <2>4. CASE DaemonConnects \/ DialFails \/ DialCompletesLate \/ RelayUp \/ VmStops
    BY <2>4, ArchiveKept DEF DaemonConnects, DialFails, DialCompletesLate, RelayUp, CopyUp, VmStops
  <2>5. CASE \/ GuestReadsCommand \/ GuestSeesEnd \/ GuestDrops \/ StartReceiving \/ ReceiveChunk
             \/ TarComplains \/ Received \/ StartPull \/ StartStreaming \/ StartFeeding \/ Feed \/ StreamDone
    <3>1. /\ UNCHANGED <<cli, cliDown, vmDown>>
          /\ main' = "sending" => main = "sending" /\ body' = body
      BY <2>5 DEF GuestReadsCommand, GuestSeesEnd, GuestDrops, StartReceiving, ReceiveChunk, TarComplains,
                  Received, StartPull, StartStreaming, StartFeeding, Feed, StreamDone
    <3> QED BY <3>1, ArchiveKept
  <2>6. CASE (\E s \in Streams : ReaderReads(s) \/ ReaderEnds(s)) \/ ChildWrites \/ ChildExits
    BY <2>6, ArchiveKept DEF ReaderReads, ReaderEnds, ChildWrites, ChildExits
  <2>7. ~(GuestAnswers \/ HandlerPrints \/ Report \/ PullProgress \/ RunDetached \/ StreamLine \/ StreamEnds)
    BY <1>0, <1>2 DEF GuestAnswers, HandlerPrints, Report, PullProgress, RunDetached, StreamLine, StreamEnds,
                      MainFits, Questions
  <2> QED BY <2>1, <2>2, <2>3, <2>4, <2>5, <2>6, <2>7 DEF Next, Daemon, Handler
<1> QED BY <1>1, <1>2

-----------------------------------------------------------------------------
(* Queues without a code 0.                                                *)
LEMMA NoZeroSent ==
  ASSUME NEW q \in Seq(Message), NEW f \in Message, NoZero(q), ~Zero(f)
  PROVE  NoZero(Append(q, f))
<1> DEFINE p == Append(q, f)
<1>1. /\ Len(q) \in Nat /\ Len(p) = Len(q) + 1 /\ p[Len(q) + 1] = f
      /\ \A i \in 1..Len(q) : p[i] = q[i]
  BY AppendFacts
<1> HIDE DEF p
<1>2. \A i \in 1..Len(p) : i \in 1..Len(q) \/ i = Len(q) + 1
  BY <1>1
<1>3. NoZero(p)
  BY <1>1, <1>2 DEF NoZero
<1> QED BY <1>3 DEF p

LEMMA NoZeroTaken ==
  ASSUME NEW q \in Seq(Message), q # <<>>, NoZero(q)
  PROVE  ~Zero(Head(q)) /\ NoZero(Tail(q))
<1> DEFINE p == Tail(q)
<1>1. /\ Len(q) \in Nat \ {0} /\ Len(p) = Len(q) - 1 /\ Head(q) = q[1]
      /\ \A i \in 1..(Len(q) - 1) : p[i] = q[i + 1]
  BY TailFacts
<1> HIDE DEF p
<1>2. 1 \in 1..Len(q) /\ \A i \in 1..Len(p) : i + 1 \in 1..Len(q) /\ p[i] = q[i + 1]
  BY <1>1
<1>3. NoZero(p) /\ ~Zero(Head(q))
  BY <1>1, <1>2 DEF NoZero
<1> QED BY <1>3 DEF p

(* Nothing is answered while an archive is received.                       *)
LEMMA UnansweredNext ==
  ASSUME Shape, Next, Honest, main' = "receiving"
  PROVE  Unanswered'
<1> USE DEF onHost, inGuest, sockets, onHostSide, process
<1>0. /\ cli \in CliType /\ cliDown \in Seq(Message)
      /\ relay["A"] = "off" => main \in {"idle", "stopped"}
  BY DEF Shape, Types, Early
<1>1. main \in {"handling", "receiving"} => Unanswered
  BY DEF Shape, Early, Honest, Unanswered
<1>2. CASE main = "receiving" /\ UNCHANGED <<vmDown, cliDown, cli>>
  BY <1>1, <1>2 DEF Unanswered
<1>3. CASE CliPacks \/ CliSendsHeader \/ CliSendsBody \/ CliSeesEnd \/ CliKilled \/ CliCannotRead
  <2>1. main' = main /\ vmDown' = vmDown /\ cliDown' \in {cliDown, <<>>}
    BY <1>3 DEF CliPacks, CliSendsHeader, CliSendsBody, CliSeesEnd, CliKilled, CliCannotRead
  <2>2. cli'.at # "done"
    <3>1. CASE CliPacks \/ CliSendsHeader
      BY <1>0, <3>1, CliSteps
    <3>2. CASE CliSendsBody \/ CliSeesEnd
      BY <1>0, <3>2, CliSteps
    <3>3. CASE CliKilled \/ CliCannotRead
      BY <1>0, <3>3, CliSteps
    <3> QED BY <1>3, <3>1, <3>2, <3>3
  <2> QED BY <1>1, <2>1, <2>2 DEF Unanswered
<1>4. ~(CliReads \/ CliUnpacks)
  <2>1. CliReads \/ CliUnpacks => main' = main /\ cliDown # <<>>
    BY DEF CliReads, CliUnpacks
  <2> QED BY <1>1, <2>1 DEF Unanswered
<1>5. CASE DaemonConnects \/ DialFails \/ DialCompletesLate \/ RelayUp
  BY <1>2, <1>5 DEF DaemonConnects, DialFails, DialCompletesLate, RelayUp, CopyUp
<1>6. ~(DaemonGivesUp \/ VmStops \/ DaemonExits)
  BY <1>0 DEF DaemonGivesUp, VmStops, DaemonExits
<1>7. CASE RelayDown
  BY <1>1, <1>2, <1>7 DEF RelayDown, CopyDown, Unanswered
<1>8. CASE StartReceiving
  BY <1>1, <1>8 DEF StartReceiving, Unanswered
<1>9. CASE ReceiveChunk \/ TarComplains
  BY <1>2, <1>9 DEF ReceiveChunk, TarComplains
<1>10. ~(GuestRefuses \/ GuestDrops \/ (Handler /\ ~StartReceiving /\ ~ReceiveChunk))
  BY DEF Handler, GuestRefuses, GuestDrops, GuestReadsCommand, GuestSeesEnd, GuestAnswers, HandlerPrints,
        StartFeeding, Feed, Received, Report, PullProgress, StartPull, StartStreaming, RunDetached, StreamLine,
        StreamDone, StreamEnds, SendArchive, After
<1>11. CASE (\E s \in Streams : ReaderReads(s) \/ ReaderEnds(s)) \/ ChildWrites \/ ChildExits
  BY <1>2, <1>11 DEF ReaderReads, ReaderEnds, ChildWrites, ChildExits
<1> QED BY <1>3, <1>4, <1>5, <1>6, <1>7, <1>8, <1>9, <1>10, <1>11 DEF Next, Cli, Daemon

(* After a failure of tar no code 0 is sent: handle_cp_to sends tar's own  *)
(* status, handle_build has checked it before it runs pelagos build.       *)
LEMMA HonestStays ==
  ASSUME Shape, Next, Honest, kind \in Uploads, tar.failed
  PROVE  NoZero(cliDown') /\ NoZero(vmDown') /\ (cli'.at = "done" => cli'.code # 0)
<1> USE DEF onHost, inGuest, sockets, onHostSide, process
<1>0. /\ Types /\ cli \in CliType /\ cliDown \in Seq(Message) /\ vmDown \in Seq(Message)
      /\ MainFits /\ Context
  BY DEF Shape, Types
<1>1. NoZero(cliDown) /\ NoZero(vmDown) /\ (cli.at = "done" => cli.code # 0) /\ NoZero(<<>>)
  BY DEF Honest, NoZero
<1>2. CASE UNCHANGED <<vmDown, cliDown, cli>>
  BY <1>1, <1>2
<1>3. CASE CliPacks \/ CliSendsHeader \/ CliSendsBody \/ CliSeesEnd \/ CliKilled \/ CliCannotRead
  <2>1. vmDown' = vmDown /\ cliDown' \in {cliDown, <<>>}
    BY <1>3 DEF CliPacks, CliSendsHeader, CliSendsBody, CliSeesEnd, CliKilled, CliCannotRead
  <2>2. cli'.at # "done"
    <3>1. CASE CliPacks \/ CliSendsHeader
      BY <1>0, <3>1, CliSteps
    <3>2. CASE CliSendsBody \/ CliSeesEnd
      BY <1>0, <3>2, CliSteps
    <3>3. CASE CliKilled \/ CliCannotRead
      BY <1>0, <3>3, CliSteps
    <3> QED BY <1>3, <3>1, <3>2, <3>3
  <2> QED BY <1>1, <2>1, <2>2
<1>4. CASE CliReads
  <2>1. vmDown' = vmDown /\ cliDown # <<>> /\ cliDown' = Tail(cliDown)
    BY <1>4 DEF CliReads
  <2>2. ~Zero(Head(cliDown)) /\ NoZero(cliDown')
    BY <1>0, <1>1, <2>1, NoZeroTaken
  <2>3. CliTakes(Head(cliDown))
    BY <1>0, <1>4, CliReading
  <2>4. cli'.at = "done" => cli'.code # 0
    BY <1>1, <2>2, <2>3 DEF CliTakes, Zero
  <2> QED BY <1>1, <2>1, <2>2, <2>4
<1>5. CASE CliUnpacks
  <2>1. vmDown' = vmDown /\ cliDown # <<>> /\ cliDown' = Tail(cliDown)
    BY <1>5 DEF CliUnpacks
  <2>2. NoZero(cliDown')
    BY <1>0, <1>1, <2>1, NoZeroTaken
  <2>3. cli'.at # "done"
    BY <1>0, <1>5, CliSteps
  <2> QED BY <1>1, <2>1, <2>2, <2>3
<1>6. CASE DaemonConnects \/ DialFails \/ DialCompletesLate \/ RelayUp \/ VmStops
  BY <1>2, <1>6 DEF DaemonConnects, DialFails, DialCompletesLate, RelayUp, CopyUp, VmStops
<1>7. /\ \A k \in {"command", "chunk", "line", "raw", "exit", "answer", "error"}, n \in Int :
            Msg(k, n) \in Message /\ Msg(k, n).kind = k /\ Msg(k, n).n = n
      /\ Error \in Message /\ Error.kind = "error"
  BY DEF Msg, Error, Message
<1>8. CASE DaemonGivesUp
  <2>1. ~Zero(Error)
    BY <1>7 DEF Zero
  <2>2. NoZero(Append(cliDown, Error))
    BY <1>0, <1>1, <1>7, <2>1, NoZeroSent
  <2> QED BY <1>1, <1>8, <2>2 DEF DaemonGivesUp
<1>9. CASE RelayDown
  <2>1. vmDown # <<>> => NoZero(Tail(vmDown)) /\ ~Zero(Head(vmDown)) /\ Head(vmDown) \in Message
    BY <1>0, <1>1, NoZeroTaken, TailFacts
  <2>2. vmDown # <<>> => NoZero(Append(cliDown, Head(vmDown)))
    BY <1>0, <1>1, <2>1, NoZeroSent
  <2> QED BY <1>1, <1>9, <2>1, <2>2 DEF RelayDown, CopyDown
<1>10. CASE DaemonExits
  BY <1>1, <1>10 DEF DaemonExits, CopyingEnds
<1>11. ASSUME NEW f \in Message, Send(f), ~Zero(f), UNCHANGED <<cli, cliDown>>
       PROVE  NoZero(cliDown') /\ NoZero(vmDown') /\ (cli'.at = "done" => cli'.code # 0)
  BY <1>0, <1>1, <1>11, NoZeroSent DEF Send
<1>12. 1 \in Int /\ ~Zero(Error) /\ ~Zero(Msg("line", 1)) /\ ~Zero(Msg("exit", 1))
  BY <1>7 DEF Zero
<1>13. CASE GuestRefuses
  BY <1>7, <1>11, <1>12, <1>13 DEF GuestRefuses
<1>14. CASE PullProgress \/ StreamLine
  BY <1>7, <1>11, <1>12, <1>14 DEF PullProgress, StreamLine
<1>15. CASE Report
  <2>1. kind = "cp_to" /\ ~TarSucceeds
    BY <1>0, <1>15 DEF Report, MainFits, Uploads, TarSucceeds
  <2>2. UNCHANGED <<cli, cliDown>> /\ (Send(Msg("line", 1)) \/ Send(Msg("exit", 1)))
    BY <1>15, <2>1 DEF Report
  <2> QED BY <1>7, <1>11, <1>12, <2>2
<1>16. ~(GuestAnswers \/ HandlerPrints \/ RunDetached \/ StreamEnds \/ SendArchive)
  BY <1>0 DEF GuestAnswers, HandlerPrints, RunDetached, StreamEnds, SendArchive, MainFits, Context,
              Uploads, Questions
<1>17. CASE GuestReadsCommand \/ GuestSeesEnd \/ GuestDrops \/ StartReceiving \/ ReceiveChunk
            \/ TarComplains \/ Received \/ StartPull \/ StartStreaming \/ StartFeeding \/ Feed
            \/ StreamDone
  BY <1>2, <1>17 DEF GuestReadsCommand, GuestSeesEnd, GuestDrops, StartReceiving, ReceiveChunk,
                     TarComplains, Received, StartPull, StartStreaming, StartFeeding, Feed, StreamDone
<1>18. CASE (\E s \in Streams : ReaderReads(s) \/ ReaderEnds(s)) \/ ChildWrites \/ ChildExits
  BY <1>2, <1>18 DEF ReaderReads, ReaderEnds, ChildWrites, ChildExits
<1> QED BY <1>3, <1>4, <1>5, <1>6, <1>8, <1>9, <1>10, <1>13, <1>14, <1>15, <1>16, <1>17, <1>18
        DEF Next, Cli, Daemon, Handler

LEMMA HonestNext == Shape /\ Next /\ Honest => Honest'
<1> SUFFICES ASSUME Shape, Next, Honest PROVE Honest'
  OBVIOUS
<1>0. Types /\ kind' = kind
  BY FitsNext DEF Shape
<1>1. main' = "receiving" => Unanswered'
  BY UnansweredNext
<1>2. ASSUME kind' \in Uploads, tar'.failed
      PROVE  NoZero(cliDown') /\ NoZero(vmDown') /\ (cli'.at = "done" => cli'.code # 0)
  <2>1. CASE tar.failed
    BY <1>0, <1>2, <2>1, HonestStays
  <2>2. CASE ~tar.failed
    <3>1. ReceiveChunk
      BY <1>0, <1>2, <2>2, TarKept
    <3>2. main' = "receiving"
      BY <3>1 DEF ReceiveChunk
    <3> QED BY <1>1, <3>2 DEF Unanswered, NoZero
  <2> QED BY <2>1, <2>2
<1> QED BY <1>1, <1>2 DEF Honest, NoZero

LEMMA HonestInit == Init => Honest
  BY DEF Init, ProxyInit, Honest

-----------------------------------------------------------------------------
LEMMA Unmoved ==
  ASSUME IInv, UNCHANGED vars
  PROVE  IInv'
<1> USE DEF vars, onHost, inGuest, sockets
<1>1. Types'
  BY DEF IInv, Shape, Types
<1>2. MainFits' /\ Context' /\ Process' /\ Early' /\ Contents'
  BY DEF IInv, Shape, MainFits, Context, Process, NoProcess, NoThreads, Early, Unstarted, Pending,
         Contents, Carries, HostOpen
<1>3. Answers'
  BY DEF IInv, Answers, CliOpen, Delivery, EndsAtFinal, HasFinal, Answered, Over, Unstarted, Pending,
         Sent, InGuest, Lines, LinesIn, ChanLines, ChanLinesIn, HostOpen
<1>4. Archive'
  BY DEF IInv, Archive, GotFits, CliOpen, InPlace, Placed, Consumed, SentFits, HostOpen
<1>5. Honest'
  BY DEF IInv, Honest, NoZero, Unanswered
<1> QED BY <1>1, <1>2, <1>3, <1>4, <1>5 DEF IInv, Shape

LEMMA Inductive == Spec => []IInv
<1>1. Init => IInv
  BY ShapeInit, AnswersInit, ArchiveInit, HonestInit DEF IInv
<1>2. IInv /\ [Next]_vars => IInv'
  <2>1. IInv /\ Next => IInv'
    BY ShapeNext, AnswersNext, ArchiveNext, HonestNext DEF IInv
  <2> QED BY <2>1, Unmoved
<1> QED BY <1>1, <1>2, PTL DEF Spec

-----------------------------------------------------------------------------
(* pelagos build runs on the whole context, which is still there:          *)
(* handle_build starts it, or the pull before it, only after the copy and  *)
(* a look at tar's status, and removes the directory only when it has      *)
(* returned from spawn_and_stream or answers with an error.                *)
THEOREM WholeContext == Spec => []BuildHasWholeContext
<1>1. IInv => BuildHasWholeContext
  BY DEF IInv, Shape, Context, BuildHasWholeContext, Uploads
<1> QED BY <1>1, Inductive, PTL

(* A CLI that reads the exit code has printed all of the command's output: *)
(* spawn_and_stream sends the code when both reader threads have reported  *)
(* their end, behind every line they sent, and thread B of the proxy keeps *)
(* the order.  A line that is not UTF-8 is the one exception.              *)
THEOREM AllLinesShown == Spec => []OutputIsComplete
<1>1. IInv => OutputIsComplete
  BY DEF IInv, Answers, OutputIsComplete
<1> QED BY <1>1, Inductive, PTL

(* A code 0 is never about a part of an archive, nor about one that tar    *)
(* could not unpack: build and cp_to answer with 0 only after BodyLen      *)
(* chunks and a tar that succeeded, and cp_from_command, which takes       *)
(* exactly the announced bytes for tar, finds the code right behind them.  *)
THEOREM ZeroIsWhole == Spec => []ZeroMeansWhole
<1>1. IInv => ZeroMeansWhole
  BY DEF IInv, Answers, Over, Archive, GotFits, Honest, ZeroMeansWhole
<1> QED BY <1>1, Inductive, PTL
=============================================================================
