---------------------------- MODULE ExecSession -----------------------------
(***************************************************************************)
(* One interactive command (exec, run -i, shell) from the user's terminal  *)
(* to a process in the VM and back: exec_command and read_guest_frames of  *)
(* the CLI (pelagos-mac/src/main.rs), handle_connection and the two        *)
(* copying threads of proxy in the daemon (pelagos-mac/src/daemon.rs), and *)
(* handle_exec_piped or handle_exec_tty in the guest                       *)
(* (pelagos-guest/src/main.rs) with their threads.                         *)
(*                                                                         *)
(*   CLI ==> Proxy ==> stdin thread --pipe--> child                        *)
(*   CLI <== Proxy <== out, err threads <--pipes-- child                   *)
(*                                                                         *)
(* Every stage is bounded.  The child is a filter: it prints something     *)
(* first, then answers each chunk of input with a chunk of output, and may *)
(* exit at any moment; a descendant of it may then still have its streams. *)
(* Resize frames do not touch any of this.                                 *)
(***************************************************************************)
EXTENDS Proxy

CONSTANTS
    MaxIn,     \* bound: chunks the user types
    Codes      \* exit codes of the child

ASSUME ExecAssumption == MaxIn \in Nat /\ Codes \subseteq Nat

VARIABLES
    tty,      \* whether the guest runs the child on a pseudo-TTY
    cli,      \* where exec_command is
    code,     \* what it returned
    input,    \* user's stdin: chunks read, and whether the end was read
    shown,    \* stream -> chunks the CLI has printed
    main,     \* guest: the connection's own thread
    thread,   \* guest: its threads for stdin, stdout and stderr
    child,    \* guest: the process; whether a descendant has its streams
    pipe,     \* guest: chunks in its pipes (or in the pseudo-TTY)
    wrote     \* stream -> chunks written into a stream that the guest reads

vars == <<tty, cli, code, input, shown, cliUp, vmUp, vmDown, cliDown,
          relay, main, thread, child, pipe, wrote>>
host == <<tty, cli, code, input, shown, cliUp, cliDown>>
guest == <<main, thread, child, pipe, wrote>>

Streams == {"out", "err"}
Outputs == IF tty THEN {"out"} ELSE Streams

Frame(kind, n) == [kind |-> kind, n |-> n]
Data(n) == Frame("in", n)
Eof == Frame("eof", 0)

(* read_guest_frames returned ("done"), exec_command gave up ("failed").   *)
CliOpen == cli \in {"waiting", "running"}

(* The guest's end of the connection is released when its descriptor is    *)
(* closed and no thread is still in a read() on it.                        *)
GuestOpen == main \notin {"closed", "stopped"} \/ thread["in"] \in {"reading", "blocked"}

TypeOK ==
    /\ tty \in BOOLEAN
    /\ cli \in {"waiting", "running", "done", "failed", "killed"}
    /\ code \in Codes \cup {0, 1}
    /\ input \in [read : 0..MaxIn, ended : BOOLEAN]
    /\ shown \in [Streams -> 0..MaxIn + 1] /\ wrote \in [Streams -> 0..MaxIn + 1]
    /\ ProxyTypeOK
    /\ main \in {"off", "starting", "serving", "closed", "stopped"}
    /\ thread \in [{"in"} \cup Streams -> {"off", "reading", "blocked", "ended"}]
    /\ child \in [st : {"none", "running", "exited"}, owes : 0..1, code : Codes \cup {1},
                  heir : BOOLEAN]
    /\ pipe \in [{"in"} \cup Streams -> 0..Capacity]

Init ==
    /\ tty \in BOOLEAN
    /\ cli = "waiting" /\ code = 0
    /\ input = [read |-> 0, ended |-> FALSE]
    /\ shown = [s \in Streams |-> 0] /\ wrote = [s \in Streams |-> 0]
    /\ ProxyInit
    /\ main = "off"
    /\ thread = [t \in {"in"} \cup Streams |-> "off"]
    /\ child = [st |-> "none", owes |-> 1, code |-> 1, heir |-> FALSE]
    /\ pipe = [t \in {"in"} \cup Streams |-> 0]

-----------------------------------------------------------------------------
(* The daemon *)

(* handle_connection: the first line is not a DaemonCmd, the guest is      *)
(* reached and the line replayed.                                          *)
DaemonConnects ==
    /\ relay["A"] = "off" /\ main = "off"
    /\ relay' = [t \in Threads |-> "copying"]
    /\ main' = "starting"
    /\ UNCHANGED <<host, vmUp, vmDown, thread, child, pipe, wrote>>

(* The guest cannot be reached: an error for the CLI, and the end.         *)
DaemonRefuses ==
    /\ relay["A"] = "off"
    /\ relay' = [t \in Threads |-> "ended"]
    /\ main' = IF main = "off" THEN "closed" ELSE main
    /\ cliDown' = Append(cliDown, Frame("error", 0))
    /\ UNCHANGED <<tty, cli, code, input, shown, cliUp, vmUp, vmDown, thread, child, pipe, wrote>>

RelayUp == CopyUp(CliOpen, GuestOpen) /\ UNCHANGED <<tty, cli, code, input, shown, guest>>
RelayDown == CopyDown(CliOpen, GuestOpen) /\ UNCHANGED <<tty, cli, code, input, shown, guest>>

(* The daemon shuts down while the command runs: Vm::stop takes the guest  *)
(* and all its processes away ...                                          *)
VmStops ==
    /\ HostOpen /\ main # "stopped"
    /\ main' = "stopped"
    /\ thread' = [t \in DOMAIN thread |-> IF thread[t] = "off" THEN "off" ELSE "ended"]
    /\ child' = [child EXCEPT !.st = "exited", !.heir = FALSE]
    /\ pipe' = [t \in DOMAIN pipe |-> 0]
    /\ vmUp' = <<>>
    /\ UNCHANGED <<host, vmDown, relay, wrote>>

(* ... and exit(0) ends the copying threads wherever they are.             *)
DaemonExits ==
    /\ main = "stopped" /\ CopyingEnds
    /\ UNCHANGED <<tty, cli, code, input, shown, guest>>

-----------------------------------------------------------------------------
(* The CLI *)

(* Broken variant: a buffered stdin reads a chunk it does not hand on.     *)
CliReadsStdinBuffered ==
    /\ cli = "running" /\ ~input.ended
    /\ Len(cliUp) < Capacity
    /\ \/ /\ input.read < MaxIn
          /\ input' = [input EXCEPT !.read = input.read + 1]
          /\ cliUp' = IF input.read = 0 THEN cliUp ELSE Append(cliUp, Data(input.read))
       \/ /\ input' = [input EXCEPT !.ended = TRUE]
          /\ cliUp' = Append(cliUp, Eof)
    /\ UNCHANGED <<tty, cli, code, shown, vmUp, vmDown, cliDown, relay, guest>>

(* The stdin thread: a chunk, or the end of the user's input.  It stops at *)
(* a chunk the daemon is no longer there to take.                          *)
CliReadsStdin ==
    /\ cli = "running" /\ ~input.ended
    /\ \/ /\ input.read < MaxIn /\ HostOpen /\ Len(cliUp) < Capacity
          /\ input' = [input EXCEPT !.read = input.read + 1]
          /\ cliUp' = Append(cliUp, Data(input.read + 1))
       \/ /\ HostOpen /\ Len(cliUp) < Capacity
          /\ input' = [input EXCEPT !.ended = TRUE]
          /\ cliUp' = Append(cliUp, Eof)
       \/ /\ ~HostOpen
          /\ input' = [input EXCEPT !.ended = TRUE] /\ UNCHANGED cliUp
    /\ UNCHANGED <<tty, cli, code, shown, vmUp, vmDown, cliDown, relay, guest>>

(* The wait for the ready line, and read_guest_frames.                     *)
CliReceives ==
    /\ CliOpen /\ cliDown # <<>>
    /\ cliDown' = Tail(cliDown)
    /\ LET f == Head(cliDown) IN
          \/ /\ f.kind = "ready" /\ cli = "waiting"
             /\ cli' = "running" /\ UNCHANGED <<code, shown>>
          \/ /\ f.kind = "error" /\ cli = "waiting"
             /\ cli' = "failed" /\ code' = 1 /\ UNCHANGED shown
          \/ /\ f.kind \in Streams
             /\ shown' = [shown EXCEPT ![f.kind] = f.n] /\ UNCHANGED <<cli, code>>
          \/ /\ f.kind = "exit" /\ cli = "running"
             /\ cli' = "done" /\ code' = f.n /\ UNCHANGED shown
    /\ UNCHANGED <<tty, input, cliUp, vmUp, vmDown, relay, guest>>

(* Both of the daemon's descriptors of the socket are closed.              *)
CliSeesEnd ==
    /\ CliOpen /\ cliDown = <<>>
    /\ ~HostOpen
    /\ cli' = "failed" /\ code' = 1
    /\ UNCHANGED <<tty, input, shown, sockets, relay, guest>>

CliKilled ==
    /\ CliOpen
    /\ cli' = "killed" /\ cliDown' = <<>>
    /\ UNCHANGED <<tty, code, input, shown, cliUp, vmUp, vmDown, relay, guest>>

-----------------------------------------------------------------------------
(* The guest *)

(* handle_exec, handle_exec_into: the image cannot be pulled, or there is  *)
(* no command: an error, and the descriptor is closed.                     *)
ExecRefused ==
    /\ main = "starting" /\ Sendable
    /\ Send(Frame("error", 0))
    /\ main' = "closed"
    /\ UNCHANGED <<host, vmUp, relay, thread, child, pipe, wrote>>

(* The ready line and the spawn; the threads start.                        *)
ExecStarts ==
    /\ main = "starting" /\ Sendable
    /\ Send(Frame("ready", 0))
    /\ main' = "serving"
    /\ child' = [child EXCEPT !.st = "running"]
    /\ thread' = [t \in DOMAIN thread |->
                    IF t \in {"in"} \cup Outputs THEN "reading" ELSE "ended"]
    /\ UNCHANGED <<host, vmUp, relay, pipe, wrote>>

(* The pseudo-TTY cannot be duplicated: the child's terminal is closed, no *)
(* thread is started and the child waited for.                             *)
ExecDupFails ==
    /\ main = "starting" /\ tty /\ Sendable
    /\ Send(Frame("ready", 0))
    /\ main' = "serving"
    /\ child' = [child EXCEPT !.st = "running"]
    /\ UNCHANGED <<host, vmUp, relay, thread, pipe, wrote>>

Deaf == main = "serving" /\ thread["out"] = "off"

(* The spawn fails: a message as if from the child's stderr, and code 1.   *)
ExecSpawnFails ==
    /\ main = "starting" /\ Sendable
    /\ Send(Frame("ready", 0))
    /\ main' = "serving"
    /\ child' = [child EXCEPT !.st = "exited"]
    /\ thread' = [t \in DOMAIN thread |-> IF t = "err" THEN "reading" ELSE "ended"]
    /\ pipe' = [pipe EXCEPT !["err"] = 1] /\ wrote' = [wrote EXCEPT !["err"] = 1]
    /\ UNCHANGED <<host, vmUp, relay>>

(* The stdin thread: input goes to the child; the empty frame ends the     *)
(* child's input when that is a pipe and is nothing on a pseudo-TTY, where *)
(* the thread goes on.  A child that is gone, and no descendant with its   *)
(* stdin, ends the thread.  Once the descriptor is closed ("blocked") the  *)
(* next read fails.                                                        *)
StdinForward ==
    /\ thread["in"] \in {"reading", "blocked"} /\ vmUp # <<>>
    /\ LET f == Head(vmUp)
           after == IF thread["in"] = "blocked" THEN "ended" ELSE "reading" IN
          \/ /\ f.kind = "in" /\ (child.st = "running" \/ child.heir) /\ pipe["in"] < Capacity
             /\ pipe' = [pipe EXCEPT !["in"] = pipe["in"] + 1]
             /\ thread' = [thread EXCEPT !["in"] = after]
          \/ /\ f.kind = "in" /\ child.st = "exited" /\ ~child.heir
             /\ thread' = [thread EXCEPT !["in"] = "ended"] /\ UNCHANGED pipe
          \/ /\ f.kind = "eof"
             /\ thread' = [thread EXCEPT !["in"] = IF tty THEN after ELSE "ended"]
             /\ UNCHANGED pipe
    /\ vmUp' = Tail(vmUp)
    /\ UNCHANGED <<host, vmDown, relay, main, child, wrote>>

(* recv_frame fails: the host has closed both of its descriptors.          *)
StdinLost ==
    /\ thread["in"] \in {"reading", "blocked"} /\ vmUp = <<>>
    /\ ~HostOpen
    /\ thread' = [thread EXCEPT !["in"] = "ended"]
    /\ UNCHANGED <<host, vmUp, vmDown, relay, main, child, pipe, wrote>>

(* Broken variant: the stdin thread holds the writer's lock while it waits *)
(* for room in the child's stdin.                                          *)
OutForwardLocked(s) ==
    /\ thread[s] = "reading" /\ pipe[s] > 0
    /\ ~(vmUp # <<>> /\ Head(vmUp).kind = "in" /\ pipe["in"] = Capacity)
    /\ HostOpen /\ Len(vmDown) < Capacity
    /\ pipe' = [pipe EXCEPT ![s] = pipe[s] - 1]
    /\ vmDown' = Append(vmDown, Frame(s, wrote[s] - pipe[s] + 1))
    /\ UNCHANGED <<host, vmUp, relay, main, thread, child, wrote>>

(* The stdout and stderr threads: a chunk is sent, or cannot be.           *)
OutForward(s) ==
    /\ thread[s] = "reading" /\ pipe[s] > 0
    /\ pipe' = [pipe EXCEPT ![s] = pipe[s] - 1]
    /\ \/ /\ HostOpen /\ Len(vmDown) < Capacity
          /\ vmDown' = Append(vmDown, Frame(s, wrote[s] - pipe[s] + 1))
          /\ UNCHANGED thread
       \/ /\ ~HostOpen
          /\ thread' = [thread EXCEPT ![s] = "ended"] /\ UNCHANGED vmDown
    /\ UNCHANGED <<host, vmUp, relay, main, child, wrote>>

(* The end of the stream: the last process that has it is gone.            *)
OutEnds(s) ==
    /\ thread[s] = "reading" /\ pipe[s] = 0 /\ child.st = "exited" /\ ~child.heir
    /\ thread' = [thread EXCEPT ![s] = "ended"]
    /\ UNCHANGED <<host, vmUp, vmDown, relay, main, child, pipe, wrote>>

(* The exit frame goes out and ConnFd closes the descriptor.  That does    *)
(* not wake a stdin thread that is in a read(); one that is not finds the  *)
(* descriptor closed.                                                      *)
ExitAndClose ==
    /\ Sendable
    /\ Send(Frame("exit", IF Deaf THEN 1 ELSE child.code))
    /\ main' = "closed"
    /\ IF thread["in"] = "reading"
       THEN \E st \in {"blocked", "ended"} : thread' = [thread EXCEPT !["in"] = st]
       ELSE UNCHANGED thread
    /\ UNCHANGED <<host, vmUp, relay, child, pipe, wrote>>

(* Broken variants: the exit frame does not wait for the output, or it     *)
(* waits for the stdin thread too.                                         *)
ExecEndsAtOnce == main = "serving" /\ child.st = "exited" /\ ExitAndClose
ExecEndsAfterStdin ==
    /\ main = "serving" /\ child.st = "exited"
    /\ \A t \in DOMAIN thread : thread[t] = "ended"
    /\ ExitAndClose

(* Output drained and the child reaped (in either order).                  *)
ExecEnds ==
    /\ main = "serving" /\ child.st = "exited"
    /\ \A s \in Streams : thread[s] \in {"off", "ended"}
    /\ ExitAndClose

-----------------------------------------------------------------------------
(* The child *)

ChildReads ==
    /\ child.st = "running" /\ child.owes = 0 /\ pipe["in"] > 0
    /\ child' = [child EXCEPT !.owes = 1]
    /\ pipe' = [pipe EXCEPT !["in"] = pipe["in"] - 1]
    /\ UNCHANGED <<host, vmUp, vmDown, relay, main, thread, wrote>>

ChildWrites ==
    /\ child.st = "running" /\ child.owes = 1
    /\ \E s \in Outputs :
          /\ thread[s] = "reading" /\ pipe[s] < Capacity
          /\ pipe' = [pipe EXCEPT ![s] = pipe[s] + 1]
          /\ wrote' = [wrote EXCEPT ![s] = wrote[s] + 1]
    /\ child' = [child EXCEPT !.owes = 0]
    /\ UNCHANGED <<host, vmUp, vmDown, relay, main, thread>>

ChildExits ==
    /\ child.st = "running"
    /\ \E c \in Codes, h \in BOOLEAN :
          child' = [child EXCEPT !.st = "exited", !.code = c, !.heir = h]
    /\ UNCHANGED <<host, vmUp, vmDown, relay, main, thread, pipe, wrote>>

(* A descendant with the child's streams: it may write, read, and end.     *)
HeirWrites ==
    /\ child.heir /\ wrote["out"] + wrote["err"] < MaxIn + 1
    /\ \E s \in Outputs :
          /\ thread[s] = "reading" /\ pipe[s] < Capacity
          /\ pipe' = [pipe EXCEPT ![s] = pipe[s] + 1]
          /\ wrote' = [wrote EXCEPT ![s] = wrote[s] + 1]
    /\ UNCHANGED <<host, vmUp, vmDown, relay, main, thread, child>>

HeirReads ==
    /\ child.heir /\ pipe["in"] > 0
    /\ pipe' = [pipe EXCEPT !["in"] = pipe["in"] - 1]
    /\ UNCHANGED <<host, vmUp, vmDown, relay, main, thread, child, wrote>>

HeirEnds ==
    /\ child.heir
    /\ child' = [child EXCEPT !.heir = FALSE]
    /\ UNCHANGED <<host, vmUp, vmDown, relay, main, thread, pipe, wrote>>

Next ==
    \/ DaemonConnects \/ DaemonRefuses \/ RelayUp \/ RelayDown
    \/ VmStops \/ DaemonExits
    \/ CliReadsStdin \/ CliReceives \/ CliSeesEnd \/ CliKilled
    \/ ExecRefused \/ ExecStarts \/ ExecDupFails \/ ExecSpawnFails \/ StdinForward \/ StdinLost
    \/ \E s \in Streams : OutForward(s) \/ OutEnds(s)
    \/ ExecEnds
    \/ ChildReads \/ ChildWrites \/ ChildExits \/ HeirWrites \/ HeirReads \/ HeirEnds

(* Threads and processes are scheduled; the user need not type and nothing *)
(* need exit or stop.  The child keeps up its reading and writing.         *)
Fairness ==
    /\ WF_vars(DaemonConnects \/ DaemonRefuses) /\ WF_vars(RelayUp) /\ WF_vars(RelayDown)
    /\ WF_vars(DaemonExits)
    /\ WF_vars(CliReceives) /\ WF_vars(CliSeesEnd)
    /\ WF_vars(ExecRefused \/ ExecStarts \/ ExecDupFails \/ ExecSpawnFails)
    /\ WF_vars(StdinForward) /\ WF_vars(StdinLost)
    /\ \A s \in Streams : WF_vars(OutForward(s)) /\ WF_vars(OutEnds(s))
    /\ WF_vars(ExecEnds) /\ WF_vars(ChildReads) /\ WF_vars(ChildWrites)

Spec == Init /\ [][Next]_vars /\ Fairness

-----------------------------------------------------------------------------
(* PROPERTIES *)

(* When exec_command returns the child's exit code, everything that the    *)
(* child, and a descendant with its streams, wrote has been printed        *)
(* (handle_exec_piped, handle_exec_tty: the exit frame comes after both    *)
(* output threads).  A pseudo-TTY that could not be duplicated takes the   *)
(* output with it; the code is 1 then.                                     *)
OutputIsComplete ==
    cli = "done" => /\ shown = wrote
                    /\ code = IF thread["out"] = "off" THEN 1 ELSE child.code

(* The child finds the end of its input only when it has all of the user's *)
(* input, or the connection is gone: no chunk is stranded in any of the    *)
(* five places it passes through (exec_command's stdin thread).            *)
Reached == wrote["out"] + wrote["err"] + child.owes - 1 + pipe["in"]
EofMeansAllInput ==
    (thread["in"] = "ended" /\ child.st = "running" /\ HostOpen /\ main = "serving")
        => input.ended /\ Reached = input.read

(* The CLI returns once the child has exited, with no descendant left that *)
(* has its streams, or the VM was stopped, even with the user's input      *)
(* still open (handle_exec_piped does not wait for its stdin thread; the   *)
(* daemon's exit ends the connection).                                     *)
CliReturns == (child.st = "exited" /\ ~child.heir) ~> ~CliOpen

(* Nobody waits for everybody: with every buffer bounded and full in both  *)
(* directions each chunk the CLI has read is still answered, as long as    *)
(* the child runs, with its terminal, and the CLI is there (proxy has a    *)
(* thread per direction, and so have the two ends).                        *)
InputIsAnswered ==
    \A n \in 1..MaxIn :
        (input.read >= n)
            ~> (shown["out"] + shown["err"] >= n + 1 \/ child.st = "exited" \/ Deaf \/ ~CliOpen)

(* Claimed by proxy ("Returns when either side closes") and                *)
(* handle_exec_piped ("fd close will unblock it"): once the CLI has        *)
(* returned, the daemon's threads end.  Fails: A closes one of two         *)
(* descriptors, the guest's stdin thread stays in its read(), so neither   *)
(* end of the vsock connection is ever closed.                             *)
ConnectionEnds == (cli = "done") ~> (relay["A"] = "ended" /\ relay["B"] = "ended")
=============================================================================
