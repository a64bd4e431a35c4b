---------------------------- MODULE GuestCommand ----------------------------
(***************************************************************************)
(* One non-interactive command through the daemon to the guest and back:   *)
(*                                                                         *)
(*   plain    ps, logs, run, volume, ... : passthrough_command, answered   *)
(*            by spawn_and_stream (for run after pull_image)               *)
(*   login    image_login_command: likewise, with a password for stdin     *)
(*   ask      ping, version (which ends with 0 in any case): one line is   *)
(*            the answer                                                   *)
(*   status   kubernetes status: likewise, and the connection stays        *)
(*   build    build_command, handle_build: an archive follows the command  *)
(*   cp_to    cp_to_command, handle_cp_to: likewise                        *)
(*   cp_from  cp_from_command, handle_cp_from: an archive in the answer    *)
(*                                                                         *)
(* (pelagos-mac/src/main.rs, pelagos-guest/src/main.rs).  Commands and     *)
(* answers are lines of JSON, an archive is raw bytes whose number the     *)
(* line before it gives; here a line or a chunk of bytes is a message.     *)
(***************************************************************************)
EXTENDS Proxy

CONSTANTS
    BodyLen,   \* chunks in an archive
    MaxLines,  \* bound: lines of output and progress
    MaxErr,    \* bound: messages tar prints while it unpacks
    MaxTries   \* attempts of connect_vsock to reach the guest

ASSUME CommandAssumption ==
    {BodyLen, MaxTries} \subseteq Nat \ {0} /\ {MaxLines, MaxErr} \subseteq Nat

VARIABLES
    kind,   \* the command
    cli,    \* at: where the CLI is; sent, got: chunks; temp: its archive file; code
    shown,  \* lines the CLI has printed
    dial,   \* daemon: attempts that failed; those of them that are not answered
            \* yet; connections that nobody uses
    main,   \* guest: where handle_connection and the handler it called are
    body,   \* guest: chunks of the archive unpacked, or sent
    dir,    \* guest: the build context's directory exists
    tar,    \* guest: tar's unread messages, all it printed, one it is printing;
            \* whether it has failed to unpack something
    child,  \* guest: the pelagos process
    reader, \* guest: stream -> lines in the pipe; whether the thread still reads
    chan,   \* guest: the channel of spawn_and_stream
    wrote   \* lines the command has produced

onHost == <<kind, cli, shown, dial>>
inGuest == <<main, body, dir, tar, child, reader, chan, wrote>>
vars == <<onHost, sockets, relay, inGuest>>

Kinds == {"plain", "login", "ask", "status", "build", "cp_to", "cp_from"}
Uploads == {"build", "cp_to"}
Questions == {"ask", "status"}
Streams == {"out", "err"}

Msg(k, n) == [kind |-> k, n |-> n]
Error == Msg("error", 0)

CliOpen == cli.at \in {"packing", "header", "sending", "reading", "unpacking"}
GuestOpen == main \notin {"closed", "dropped", "stopped"}

TypeOK ==
    /\ kind \in Kinds
    /\ cli \in [at : {"packing", "header", "sending", "reading", "unpacking",
                      "done", "failed", "killed"},
                sent : 0..BodyLen, got : 0..BodyLen, temp : BOOLEAN, code : 0..1]
    /\ shown \in 0..MaxLines + 1 /\ wrote \in 0..MaxLines + 1
    /\ dial \in [tries : 0..MaxTries, late : 0..MaxTries, stray : 0..MaxTries]
    /\ ProxyTypeOK
    /\ main \in {"idle", "handling", "printing", "receiving", "reporting", "feeding",
                 "pulling", "streaming", "sending", "closed", "dropped", "stopped"}
    /\ body \in 0..BodyLen /\ dir \in BOOLEAN
    /\ tar \in [unread : 0..Capacity, printed : 0..MaxErr, owes : BOOLEAN, failed : BOOLEAN]
    /\ child \in [st : {"none", "running", "exited"}, code : 0..1, cut : BOOLEAN]
    /\ reader \in [Streams -> [pipe : 0..Capacity, on : BOOLEAN]]
    /\ chan \in Seq({"line", "done"})

Init ==
    /\ kind \in Kinds
    /\ cli = [at |-> IF kind \in Uploads THEN "packing" ELSE "header",
              sent |-> 0, got |-> 0, temp |-> FALSE, code |-> 1]
    /\ shown = 0 /\ wrote = 0
    /\ dial = [tries |-> 0, late |-> 0, stray |-> 0]
    /\ ProxyInit
    /\ main = "idle" /\ body = 0 /\ dir = FALSE
    /\ tar = [unread |-> 0, printed |-> 0, owes |-> FALSE, failed |-> FALSE]
    /\ child = [st |-> "none", code |-> 0, cut |-> FALSE]
    /\ reader = [s \in Streams |-> [pipe |-> 0, on |-> FALSE]]
    /\ chan = <<>>

-----------------------------------------------------------------------------
(* The CLI *)

CliEnds(at, c) == cli' = [cli EXCEPT !.at = at, !.code = c, !.temp = FALSE]

(* build_command, cp_to_command: tar into a temporary file, for its size.  *)
(* A tar that fails may leave the file.                                    *)
CliPacks ==
    /\ cli.at = "packing"
    /\ \/ cli' = [cli EXCEPT !.at = "header", !.temp = TRUE]
       \/ \E left \in BOOLEAN : cli' = [cli EXCEPT !.at = "failed", !.temp = left]
    /\ UNCHANGED <<kind, dial, shown, sockets, relay, inGuest>>

CliSendsHeader ==
    /\ cli.at = "header"
    /\ \/ /\ HostOpen /\ Len(cliUp) < Capacity
          /\ cliUp' = Append(cliUp, Msg("command", 0))
          /\ cli' = [cli EXCEPT !.at = IF kind \in Uploads THEN "sending" ELSE "reading"]
       \/ /\ ~HostOpen
          /\ CliEnds("failed", 1) /\ UNCHANGED cliUp
    /\ UNCHANGED <<kind, dial, shown, vmUp, vmDown, cliDown, relay, inGuest>>

(* The archive follows the command at once; then the file is removed.      *)
(* Nothing is read meanwhile: an answer that comes early has to wait.      *)
CliSendsBody ==
    /\ cli.at = "sending"
    /\ \/ /\ HostOpen /\ Len(cliUp) < Capacity
          /\ cliUp' = Append(cliUp, Msg("chunk", cli.sent + 1))
          /\ cli' = IF cli.sent + 1 < BodyLen
                    THEN [cli EXCEPT !.sent = cli.sent + 1]
                    ELSE [cli EXCEPT !.sent = cli.sent + 1, !.at = "reading", !.temp = FALSE]
       \/ /\ ~HostOpen
          /\ CliEnds("failed", 1) /\ UNCHANGED cliUp
    /\ UNCHANGED <<kind, dial, shown, vmUp, vmDown, cliDown, relay, inGuest>>

(* The archive's file cannot be opened or read.                            *)
CliCannotRead ==
    /\ cli.at = "sending" /\ CliEnds("failed", 1)
    /\ UNCHANGED <<kind, dial, shown, sockets, relay, inGuest>>

(* The answers: output, an archive to come (tar may fail to start), the    *)
(* exit code, an error; the one line that answers a question.              *)
CliReads ==
    /\ cli.at = "reading" /\ cliDown # <<>>
    /\ cliDown' = Tail(cliDown)
    /\ LET m == Head(cliDown) IN
          \/ m.kind = "line" /\ shown' = shown + 1 /\ UNCHANGED cli
          \/ m.kind = "raw" /\ cli' = [cli EXCEPT !.at = "unpacking"] /\ UNCHANGED shown
          \/ m.kind = "exit" /\ CliEnds("done", m.n) /\ UNCHANGED shown
          \/ m.kind = "answer" /\ CliEnds("done", 0) /\ UNCHANGED shown
          \/ m.kind \in {"error", "raw"} /\ CliEnds("failed", 1) /\ UNCHANGED shown
    /\ UNCHANGED <<kind, dial, cliUp, vmUp, vmDown, relay, inGuest>>

(* cp_from_command: exactly the announced bytes go to tar, which may fail. *)
CliUnpacks ==
    /\ cli.at = "unpacking" /\ cliDown # <<>>
    /\ cliDown' = Tail(cliDown)
    /\ \/ cli' = [cli EXCEPT !.got = cli.got + 1,
                             !.at = IF cli.got + 1 < BodyLen THEN "unpacking" ELSE "reading"]
       \/ CliEnds("failed", 1)
    /\ UNCHANGED <<kind, dial, shown, cliUp, vmUp, vmDown, relay, inGuest>>

(* End of the stream: code 1, also when tar is content with a part.        *)
CliSeesEnd ==
    /\ cli.at \in {"reading", "unpacking"} /\ cliDown = <<>> /\ ~HostOpen
    /\ CliEnds("failed", 1)
    /\ UNCHANGED <<kind, dial, shown, sockets, relay, inGuest>>

CliKilled ==
    /\ CliOpen
    /\ cli' = [cli EXCEPT !.at = "killed"] /\ cliDown' = <<>>
    /\ UNCHANGED <<kind, dial, shown, cliUp, vmUp, vmDown, relay, inGuest>>

-----------------------------------------------------------------------------
(* The daemon *)

Dialling == relay["A"] = "off" /\ cliUp # <<>>

(* Broken variant: a buffered read of the first line takes bytes that      *)
(* follow it.                                                              *)
DaemonConnectsBuffered ==
    /\ Dialling /\ dial.tries < MaxTries /\ main # "stopped"
    /\ relay' = [t \in Threads |-> "copying"]
    /\ vmUp' = <<Head(cliUp)>> /\ cliUp' = <<>>
    /\ UNCHANGED <<onHost, vmDown, cliDown, inGuest>>

(* handle_connection: the first line is read byte by byte, the guest is    *)
(* reached and the line replayed.                                          *)
DaemonConnects ==
    /\ Dialling /\ dial.tries < MaxTries /\ main # "stopped"
    /\ relay' = [t \in Threads |-> "copying"]
    /\ vmUp' = <<Head(cliUp)>> /\ cliUp' = Tail(cliUp)
    /\ UNCHANGED <<onHost, vmDown, cliDown, inGuest>>

(* An attempt fails: with an error, or as the guest has not accepted the   *)
(* connection in time.  Such an attempt is not called off.                 *)
DialFails ==
    /\ Dialling /\ dial.tries < MaxTries
    /\ \E unanswered \in {0, 1} :
          dial' = [dial EXCEPT !.tries = dial.tries + 1, !.late = dial.late + unanswered]
    /\ UNCHANGED <<kind, cli, shown, sockets, relay, inGuest>>

(* The guest accepts it later: its completion handler duplicates the       *)
(* descriptor into a result that nobody takes any more.                    *)
DialCompletesLate ==
    /\ dial.late > 0 /\ main # "stopped"
    /\ dial' = [dial EXCEPT !.late = dial.late - 1, !.stray = dial.stray + 1]
    /\ UNCHANGED <<kind, cli, shown, sockets, relay, inGuest>>

(* The guest cannot be reached (an error), the line cannot be replayed or  *)
(* the CLI has gone before it sent one (nothing).                          *)
DaemonGivesUp ==
    /\ relay["A"] = "off" /\ (cliUp # <<>> \/ ~CliOpen)
    /\ relay' = [t \in Threads |-> "ended"]
    /\ \/ dial.tries = MaxTries /\ cliUp # <<>> /\ cliDown' = Append(cliDown, Error)
       \/ dial.tries < MaxTries /\ UNCHANGED cliDown
    /\ main' = IF main = "stopped" THEN main ELSE "closed"
    /\ UNCHANGED <<onHost, cliUp, vmUp, vmDown, body, dir, tar, child, reader, chan, wrote>>

RelayUp == CopyUp(CliOpen, GuestOpen) /\ UNCHANGED <<onHost, inGuest>>
RelayDown == CopyDown(CliOpen, GuestOpen) /\ UNCHANGED <<onHost, inGuest>>

(* The daemon shuts down: Vm::stop, then exit(0).                          *)
VmStops ==
    /\ HostOpen /\ main # "stopped"
    /\ main' = "stopped" /\ vmUp' = <<>>
    /\ child' = [child EXCEPT !.st = "exited"]
    /\ UNCHANGED <<onHost, cliUp, vmDown, cliDown, relay, body, dir, tar, reader, chan, wrote>>

DaemonExits == main = "stopped" /\ CopyingEnds /\ UNCHANGED <<onHost, inGuest>>

-----------------------------------------------------------------------------
(* The guest *)

onHostSide == <<onHost, cliUp, cliDown, relay>>
process == <<child, reader, chan>>

(* handle_connection reads a command.  It serves most commands in a loop   *)
(* and waits for the next one; it returns after ping, version and those    *)
(* with an archive.                                                        *)
GuestReadsCommand ==
    /\ main = "idle" /\ vmUp # <<>>
    /\ vmUp' = Tail(vmUp)
    /\ main' = "handling"
    /\ UNCHANGED <<onHostSide, vmDown, body, dir, tar, process, wrote>>

GuestSeesEnd ==
    /\ main = "idle" /\ vmUp = <<>> /\ ~HostOpen
    /\ main' = "closed"
    /\ UNCHANGED <<onHostSide, vmUp, vmDown, body, dir, tar, process, wrote>>

After == IF kind \in {"plain", "login", "status"} THEN "idle" ELSE "closed"

(* An error line: nothing could be spawned, no such container, tar failed, *)
(* an image could not be pulled.  The build context is removed, but for a  *)
(* pull's error that cannot be written.                                    *)
GuestRefuses ==
    /\ main \in {"handling", "receiving", "pulling"} /\ kind \notin Questions /\ Sendable
    /\ Send(Error)
    /\ main' = After /\ dir' = (dir /\ main = "pulling" /\ ~HostOpen)
    /\ UNCHANGED <<onHostSide, vmUp, body, tar, process, wrote>>

(* handle_build cannot create its directory, or a handler cannot wait for  *)
(* tar: Err, and the connection is closed without an answer.               *)
GuestDrops ==
    /\ main = "receiving" \/ (main = "handling" /\ kind = "build")
    /\ main' = "dropped"
    /\ UNCHANGED <<onHostSide, vmUp, vmDown, body, dir, tar, process, wrote>>

(* ping, version, kubernetes status.                                       *)
GuestAnswers ==
    /\ main = "handling" /\ kind \in Questions /\ Sendable
    /\ Send(Msg("answer", 0))
    /\ main' = IF HostOpen THEN After ELSE "closed"
    /\ UNCHANGED <<onHostSide, vmUp, body, dir, tar, process, wrote>>

(* container prune, kubernetes start and stop write their own lines.       *)
HandlerPrints ==
    /\ main = "printing" \/ (main = "handling" /\ kind = "plain")
    /\ Sendable
    /\ \/ /\ wrote < MaxLines
          /\ Send(Msg("line", 1)) /\ wrote' = wrote + 1
          /\ main' = IF HostOpen THEN "printing" ELSE "closed"
       \/ /\ Send(Msg("exit", 0)) /\ UNCHANGED wrote
          /\ main' = IF HostOpen THEN After ELSE "closed"
    /\ UNCHANGED <<onHostSide, vmUp, body, dir, tar, process>>

StartReceiving ==
    /\ main = "handling" /\ kind \in Uploads
    /\ main' = "receiving" /\ dir' = (kind = "build")
    /\ UNCHANGED <<onHostSide, vmUp, vmDown, body, tar, process, wrote>>

(* A chunk goes to tar, unless that is held up over a message.  tar may    *)
(* fail to unpack it (a full disk) and read on.  An archive that breaks    *)
(* off is not noticed: thread B keeps the connection open.                 *)
ReceiveChunk ==
    /\ main = "receiving" /\ body < BodyLen /\ vmUp # <<>> /\ ~tar.owes
    /\ vmUp' = Tail(vmUp) /\ body' = body + 1
    /\ \E complains, fails \in BOOLEAN :
          /\ complains => tar.printed < MaxErr
          /\ tar' = [tar EXCEPT !.owes = complains, !.failed = tar.failed \/ fails]
    /\ UNCHANGED <<onHostSide, vmDown, main, dir, process, wrote>>

(* handle_build reads tar's messages while it copies, handle_cp_to when it *)
(* has copied everything: they must fit into the pipe.                     *)
TarComplains ==
    /\ main = "receiving" /\ tar.owes
    /\ \/ /\ kind = "build"
          /\ tar' = [tar EXCEPT !.owes = FALSE, !.printed = tar.printed + 1]
       \/ /\ kind = "cp_to" /\ tar.unread < Capacity
          /\ tar' = [tar EXCEPT !.owes = FALSE, !.printed = tar.printed + 1,
                                !.unread = tar.unread + 1]
    /\ UNCHANGED <<onHostSide, vmUp, vmDown, main, body, dir, process, wrote>>

(* io::copy is through, without an error: all the bytes it was told of, or *)
(* the end of the stream before that.                                      *)
Copied == body = BodyLen \/ (vmUp = <<>> /\ ~HostOpen)

(* tar's exit status is 0: it had a whole archive and has unpacked it.     *)
TarSucceeds == body = BodyLen /\ ~tar.failed

(* Broken variant: tar's status is not looked at.                          *)
ReceivedUnchecked ==
    /\ main = "receiving" /\ Copied /\ ~tar.owes
    /\ main' = IF kind = "build" THEN "pulling" ELSE "reporting"
    /\ UNCHANGED <<onHostSide, vmUp, vmDown, body, dir, tar, process, wrote>>

(* The copy is through and tar has ended, for a build well.  If not, or if *)
(* tar ended before the copy (a broken pipe), GuestRefuses is next.        *)
Received ==
    /\ main = "receiving" /\ Copied /\ ~tar.owes
    /\ \/ kind = "build" /\ TarSucceeds /\ main' = "pulling"
       \/ kind = "cp_to" /\ main' = "reporting"
    /\ UNCHANGED <<onHostSide, vmUp, vmDown, body, dir, tar, process, wrote>>

(* Broken variant: the code says that the copy is through, whatever tar's  *)
(* status.                                                                 *)
ReportCopied ==
    /\ main = "reporting" /\ Sendable
    /\ Send(Msg("exit", 0))
    /\ main' = After
    /\ UNCHANGED <<onHostSide, vmUp, body, dir, tar, process, wrote>>

(* handle_cp_to: tar's messages, as one line, then its exit code (which    *)
(* run_detached sends too).                                                *)
Report ==
    /\ main = "reporting" /\ Sendable
    /\ \/ /\ tar.unread > 0
          /\ Send(Msg("line", 1)) /\ wrote' = wrote + 1
          /\ tar' = [tar EXCEPT !.unread = 0]
          /\ main' = IF HostOpen THEN main ELSE "closed"
       \/ /\ tar.unread = 0
          /\ \E c \in 0..1 : /\ kind = "cp_to" => (c = 0 <=> TarSucceeds)
                            /\ Send(Msg("exit", c))
          /\ main' = After /\ UNCHANGED <<tar, wrote>>
    /\ UNCHANGED <<onHostSide, vmUp, body, dir, process>>

(* pull_image: progress, a line at a time.  A write that fails ends the    *)
(* handler, with the context's directory left behind.                      *)
PullProgress ==
    /\ main = "pulling" /\ wrote < MaxLines /\ Sendable
    /\ Send(Msg("line", 1)) /\ wrote' = wrote + 1
    /\ main' = IF HostOpen THEN main ELSE "closed"
    /\ UNCHANGED <<onHostSide, vmUp, body, dir, tar, process>>

StartPull ==
    /\ main = "handling" /\ kind = "plain"
    /\ main' = "pulling"
    /\ UNCHANGED <<onHostSide, vmUp, vmDown, body, dir, tar, process, wrote>>

(* spawn_and_stream: the process and a thread for each of its streams.     *)
StartStreaming ==
    /\ main = "pulling" \/ (main = "handling" /\ kind = "plain")
    /\ main' = "streaming"
    /\ child' = [child EXCEPT !.st = "running"]
    /\ reader' = [s \in Streams |-> [pipe |-> 0, on |-> TRUE]]
    /\ UNCHANGED <<onHostSide, vmUp, vmDown, body, dir, tar, chan, wrote>>

(* spawn_and_stream_with_stdin: the password goes into the process's stdin *)
(* before anybody reads its output.  If it has ended by then, the write    *)
(* fails: Err, and the connection is closed without an answer.             *)
StartFeeding ==
    /\ main = "handling" /\ kind = "login"
    /\ main' = "feeding"
    /\ child' = [child EXCEPT !.st = "running"]
    /\ UNCHANGED <<onHostSide, vmUp, vmDown, body, dir, tar, reader, chan, wrote>>

Feed ==
    /\ main = "feeding"
    /\ \/ /\ child.st = "running" /\ main' = "streaming"
          /\ reader' = [s \in Streams |-> [reader[s] EXCEPT !.on = TRUE]]
       \/ child.st = "exited" /\ main' = "dropped" /\ UNCHANGED reader
    /\ UNCHANGED <<onHostSide, vmUp, vmDown, body, dir, tar, child, chan, wrote>>

(* run_detached: the container's name, if there is one, and no more of the *)
(* output.                                                                 *)
RunDetached ==
    /\ main = "pulling" /\ kind = "plain"
    /\ \/ /\ Sendable /\ Send(Msg("line", 1)) /\ wrote' = wrote + 1
          /\ main' = IF HostOpen THEN "reporting" ELSE "closed"
       \/ main' = "reporting" /\ UNCHANGED <<vmDown, wrote>>
    /\ UNCHANGED <<onHostSide, vmUp, body, dir, tar, process>>

(* A thread passes a line on; it stops at the end of its stream, or at a   *)
(* line that is not UTF-8.                                                 *)
ReaderReads(s) ==
    /\ reader[s].on /\ reader[s].pipe > 0
    /\ \/ /\ chan' = Append(chan, "line")
          /\ reader' = [reader EXCEPT ![s].pipe = reader[s].pipe - 1]
          /\ UNCHANGED child
       \/ /\ chan' = Append(chan, "done")
          /\ reader' = [reader EXCEPT ![s] = [pipe |-> 0, on |-> FALSE]]
          /\ child' = [child EXCEPT !.cut = TRUE]
    /\ UNCHANGED <<onHostSide, vmUp, vmDown, main, body, dir, tar, wrote>>

ReaderEnds(s) ==
    /\ reader[s].on /\ reader[s].pipe = 0 /\ child.st = "exited"
    /\ chan' = Append(chan, "done")
    /\ reader' = [reader EXCEPT ![s].on = FALSE]
    /\ UNCHANGED <<onHostSide, vmUp, vmDown, main, body, dir, tar, child, wrote>>

StreamLine ==
    /\ main = "streaming" /\ chan # <<>> /\ Head(chan) = "line" /\ Sendable
    /\ Send(Msg("line", 1))
    /\ chan' = Tail(chan)
    /\ main' = IF HostOpen THEN main ELSE "closed"
    /\ dir' = (dir /\ HostOpen)
    /\ UNCHANGED <<onHostSide, vmUp, body, tar, child, reader, wrote>>

(* Broken variant: the end of one stream is taken for the end of both.     *)
StreamEndsEarly ==
    /\ main = "streaming" /\ chan # <<>> /\ Head(chan) = "done" /\ Sendable
    /\ child.st = "exited"
    /\ Send(Msg("exit", child.code))
    /\ main' = After /\ dir' = FALSE /\ chan' = <<>>
    /\ UNCHANGED <<onHostSide, vmUp, body, tar, child, reader, wrote>>

(* Both threads are done, the process is reaped: its exit code.            *)
StreamEnds ==
    /\ main = "streaming" /\ chan # <<>> /\ Head(chan) = "done" /\ Sendable
    /\ chan = <<"done">> /\ \A s \in Streams : ~reader[s].on
    /\ child.st = "exited"
    /\ Send(Msg("exit", child.code))
    /\ main' = After /\ dir' = FALSE /\ chan' = <<>>
    /\ UNCHANGED <<onHostSide, vmUp, body, tar, child, reader, wrote>>

StreamDone ==
    /\ main = "streaming" /\ chan # <<>> /\ Head(chan) = "done"
    /\ chan # <<"done">> \/ \E s \in Streams : reader[s].on
    /\ chan' = Tail(chan)
    /\ UNCHANGED <<onHostSide, vmUp, vmDown, main, body, dir, tar, child, reader, wrote>>

(* handle_cp_from: tar's whole output is there; its size, its bytes, exit. *)
SendArchive ==
    /\ kind = "cp_from" /\ Sendable
    /\ \/ main = "handling" /\ Send(Msg("raw", BodyLen)) /\ body' = 0
       \/ main = "sending" /\ body < BodyLen /\ Send(Msg("chunk", body + 1)) /\ body' = body + 1
       \/ main = "sending" /\ body = BodyLen /\ Send(Msg("exit", 0)) /\ UNCHANGED body
    /\ main' = IF HostOpen /\ ~(main = "sending" /\ body = BodyLen) THEN "sending" ELSE "closed"
    /\ UNCHANGED <<onHostSide, vmUp, dir, tar, process, wrote>>

(* The process the command runs; one that writes into a pipe nobody reads  *)
(* is ended by that.                                                       *)
ChildWrites ==
    /\ child.st = "running" /\ wrote < MaxLines
    /\ \E s \in Streams :
          /\ reader[s].on \/ main = "feeding"
          /\ reader[s].pipe < Capacity
          /\ reader' = [reader EXCEPT ![s].pipe = reader[s].pipe + 1]
    /\ wrote' = wrote + 1
    /\ UNCHANGED <<onHostSide, vmUp, vmDown, main, body, dir, tar, child, chan>>

ChildExits ==
    /\ child.st = "running"
    /\ \E c \in 0..1 : child' = [child EXCEPT !.st = "exited", !.code = c]
    /\ UNCHANGED <<onHostSide, vmUp, vmDown, main, body, dir, tar, reader, chan, wrote>>

-----------------------------------------------------------------------------
Cli == CliPacks \/ CliSendsHeader \/ CliSendsBody \/ CliReads \/ CliUnpacks \/ CliSeesEnd
Daemon == DaemonConnects \/ DialFails \/ DaemonGivesUp
Handler ==
    \/ GuestReadsCommand \/ GuestSeesEnd
    \/ GuestAnswers \/ HandlerPrints \/ StartFeeding \/ Feed
    \/ StartReceiving \/ ReceiveChunk \/ Received \/ Report
    \/ PullProgress \/ StartPull \/ StartStreaming \/ RunDetached
    \/ StreamLine \/ StreamDone \/ StreamEnds \/ SendArchive

Next ==
    \/ Cli \/ CliKilled \/ CliCannotRead \/ GuestRefuses \/ GuestDrops
    \/ Daemon \/ DialCompletesLate \/ RelayUp \/ RelayDown \/ VmStops \/ DaemonExits
    \/ Handler \/ TarComplains
    \/ \E s \in Streams : ReaderReads(s) \/ ReaderEnds(s)
    \/ ChildWrites \/ ChildExits

(* Every process and thread is scheduled; the command's process ends at    *)
(* some time, and a handler whose tar has failed says so.  Nothing needs   *)
(* to fail, be killed or stopped.                                          *)
Fairness ==
    /\ WF_vars(Cli) /\ WF_vars(Daemon) /\ WF_vars(RelayUp) /\ WF_vars(RelayDown)
    /\ WF_vars(DaemonExits) /\ WF_vars(Handler) /\ WF_vars(TarComplains)
    /\ WF_vars(Copied /\ ~TarSucceeds /\ GuestRefuses)
    /\ \A s \in Streams : WF_vars(ReaderReads(s)) /\ WF_vars(ReaderEnds(s))
    /\ WF_vars(ChildExits)

Spec == Init /\ [][Next]_vars /\ Fairness

-----------------------------------------------------------------------------
(* PROPERTIES *)

(* Exit code 0 means that the archive arrived whole on the other side and, *)
(* for build and cp_to, that tar there has unpacked all of it, whatever    *)
(* ended or failed on the way (build_command, cp_to_command,               *)
(* cp_from_command and their handlers agree on where the bytes end).       *)
ZeroMeansWhole ==
    cli.at = "done" /\ cli.code = 0
        => /\ kind \in Uploads => body = BodyLen /\ ~tar.failed
           /\ kind = "cp_from" => cli.got = BodyLen

(* A CLI that has the exit code has printed every line before it           *)
(* (spawn_and_stream counts both of its threads), but for output that is   *)
(* not UTF-8.                                                              *)
OutputIsComplete ==
    cli.at = "done" => child.cut \/ shown = wrote

(* pelagos build never runs on a part of the context, on one that tar      *)
(* could not unpack, nor on one that was removed (handle_build).           *)
BuildHasWholeContext ==
    kind = "build" /\ main \in {"pulling", "streaming"} => body = BodyLen /\ ~tar.failed /\ dir

(* Every command comes back, with early errors, shutdowns, attempts to     *)
(* reach the guest that time out and complete later, and tar's messages,   *)
(* unless a handler drops the connection (proxy, handle_connection: no     *)
(* byte after the first line is lost; connect_vsock ends).                 *)
CommandReturns == <>(~CliOpen \/ main = "dropped")

(* Claimed by proxy ("Returns when either side closes"): when one side has *)
(* closed the connection, both threads end.  Fails: after a plain command  *)
(* the guest waits for the next one, thread B waits for the guest, and the *)
(* descriptor of thread B keeps the connection open; after a dropped       *)
(* connection thread A keeps the CLI waiting.                              *)
ConnectionEnds == [](~CliOpen \/ ~GuestOpen => <>~HostOpen)

(* What try_connect_vsock opens is used or closed.  Fails: the descriptor  *)
(* of an attempt that timed out and then completed is neither.             *)
NoStrayConnection == dial.stray = 0
=============================================================================
