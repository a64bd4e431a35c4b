---------------------------- MODULE ConsoleRelay ----------------------------
(***************************************************************************)
(* The serial console relay (console_relay_loop and proxy_console,         *)
(* pelagos-mac/src/daemon.rs).  One thread either drains the guest's       *)
(* console output into the ring, or serves one client: it replays the ring *)
(* and then copies live output to the client and what the client types to  *)
(* the guest.  Further clients wait in the listen queue.                   *)
(*                                                                         *)
(* The thread reads up to 4096 bytes at a time; one byte at a time leads   *)
(* to the same rings and streams.                                          *)
(***************************************************************************)
EXTENDS ConsoleRing

CONSTANTS
    SockCap,     \* bytes the console socketpair holds, each way, before a writer blocks
    ClientCap,   \* bytes a client's socket holds, each way, before a writer blocks
    MaxOut,      \* bound: bytes the guest prints
    MaxClients   \* bound: clients that connect

ASSUME RelayAssumption == {SockCap, ClientCap, MaxOut, MaxClients} \subseteq Nat \ {0}
ASSUME BytesAssumption == Bytes = 0..MaxOut /\ Zero = 0

VARIABLES
    out,       \* bytes printed by the guest; the n-th byte is the number n
    sock,      \* printed and not yet read by the relay
    ring,      \* the ring buffer
    drained,   \* everything ever pushed into the ring
    waiting,   \* clients in the listen queue
    sessions,  \* clients accepted so far
    attached,  \* whether proxy_console is running
    toClient,  \* written to the client's socket and not yet read by it
    got,       \* what the client of this session has read
    input      \* how much input is in the client's socket (typed) and in the
               \* guest's (queued), and whether the relay has some in between (held)

vars == <<out, sock, ring, drained, waiting, sessions, attached, toClient, got, input>>

TypeOK ==
    /\ out \in 0..MaxOut
    /\ sock \in Seq(Bytes) /\ Len(sock) =< SockCap
    /\ ring \in Ring
    /\ drained \in Seq(Bytes)
    /\ waiting \in 0..MaxClients /\ sessions \in 0..MaxClients
    /\ attached \in BOOLEAN
    /\ toClient \in Seq(Bytes) /\ got \in Seq(Bytes)
    /\ input \in [typed : 0..ClientCap, held : BOOLEAN, queued : 0..SockCap]

-----------------------------------------------------------------------------
Init ==
    /\ out = 0 /\ sock = <<>>
    /\ ring = new /\ drained = <<>>
    /\ waiting = 0 /\ sessions = 0
    /\ attached = FALSE /\ toClient = <<>> /\ got = <<>>
    /\ input = [typed |-> 0, held |-> FALSE, queued |-> 0]

(* hvc_write in the guest: blocks while the socketpair is full.            *)
GuestPrints ==
    /\ out < MaxOut
    /\ Len(sock) < SockCap
    /\ out' = out + 1
    /\ sock' = Append(sock, out + 1)
    /\ UNCHANGED <<ring, drained, waiting, sessions, attached, toClient, got, input>>

ClientConnects ==
    /\ waiting + sessions < MaxClients
    /\ waiting' = waiting + 1
    /\ UNCHANGED <<out, sock, ring, drained, sessions, attached, toClient, got, input>>

(* Broken variant: the relay waits for a client and reads nothing.         *)
DrainNothing ==
    /\ ~attached /\ FALSE
    /\ UNCHANGED vars

(* Nobody attached: the relay drains the socket into the ring.             *)
Drain ==
    /\ ~attached
    /\ sock # <<>>
    /\ ring' = Push(ring, Head(sock))
    /\ drained' = Append(drained, Head(sock))
    /\ sock' = Tail(sock)
    /\ UNCHANGED <<out, waiting, sessions, attached, toClient, got, input>>

(* Broken variant: the ring is not replayed.                               *)
AttachWithoutReplay ==
    /\ ~attached
    /\ waiting > 0
    /\ waiting' = waiting - 1
    /\ sessions' = sessions + 1
    /\ attached' = TRUE
    /\ UNCHANGED <<out, sock, ring, drained, toClient, got, input>>

(* A client is accepted and sent the ring, which keeps its content.        *)
Attach ==
    /\ ~attached
    /\ waiting > 0
    /\ waiting' = waiting - 1
    /\ sessions' = sessions + 1
    /\ attached' = TRUE
    /\ toClient' = replay_to_fd(ring)
    /\ got' = <<>>
    /\ UNCHANGED <<out, sock, ring, drained, input>>

(* proxy_console copies live output; the write blocks while the client's   *)
(* socket is full, as does the replay of a ring larger than it.            *)
RelayToClient ==
    /\ attached /\ ~input.held
    /\ sock # <<>>
    /\ Len(toClient) < ClientCap
    /\ toClient' = Append(toClient, Head(sock))
    /\ sock' = Tail(sock)
    /\ UNCHANGED <<out, ring, drained, waiting, sessions, attached, got, input>>

ClientReads ==
    /\ attached
    /\ toClient # <<>>
    /\ got' = Append(got, Head(toClient))
    /\ toClient' = Tail(toClient)
    /\ UNCHANGED <<out, sock, ring, drained, waiting, sessions, attached, input>>

ClientTypes ==
    /\ attached
    /\ input.typed < ClientCap
    /\ input' = [input EXCEPT !.typed = input.typed + 1]
    /\ UNCHANGED <<out, sock, ring, drained, waiting, sessions, attached, toClient, got>>

(* proxy_console reads the client's input ...                              *)
RelayReadsInput ==
    /\ attached /\ ~input.held
    /\ input.typed > 0
    /\ input' = [input EXCEPT !.typed = input.typed - 1, !.held = TRUE]
    /\ UNCHANGED <<out, sock, ring, drained, waiting, sessions, attached, toClient, got>>

(* ... and, before anything else, writes it to the guest, which blocks     *)
(* while the guest's side of the socketpair is full.                       *)
RelayWritesInput ==
    /\ input.held
    /\ input.queued < SockCap
    /\ input' = [input EXCEPT !.held = FALSE, !.queued = input.queued + 1]
    /\ UNCHANGED <<out, sock, ring, drained, waiting, sessions, attached, toClient, got>>

GuestReads ==
    /\ input.queued > 0
    /\ input' = [input EXCEPT !.queued = input.queued - 1]
    /\ UNCHANGED <<out, sock, ring, drained, waiting, sessions, attached, toClient, got>>

(* The client goes away; the relay, once out of its write to the guest,    *)
(* returns to its loop.                                                    *)
Detach ==
    /\ attached /\ ~input.held
    /\ attached' = FALSE
    /\ toClient' = <<>>
    /\ got' = <<>>
    /\ input' = [input EXCEPT !.typed = 0]
    /\ UNCHANGED <<out, sock, ring, drained, waiting, sessions>>

Next ==
    \/ GuestPrints \/ ClientConnects
    \/ Drain \/ Attach \/ RelayToClient
    \/ ClientReads \/ ClientTypes \/ Detach
    \/ RelayReadsInput \/ RelayWritesInput \/ GuestReads

Spec == Init /\ [][Next]_vars

(* The relay thread runs, each of proxy_console's rounds looks at both     *)
(* directions, and an attached client reads what it is sent.               *)
FairSpec ==
    /\ Spec
    /\ WF_vars(Drain) /\ WF_vars(Attach)
    /\ SF_vars(RelayToClient) /\ WF_vars(RelayReadsInput) /\ WF_vars(RelayWritesInput)
    /\ WF_vars(ClientReads)

-----------------------------------------------------------------------------
(* PROPERTIES *)

(* The ring is the tail of what was drained, however often it has wrapped  *)
(* (push_slice, "overwriting the oldest bytes when full").                 *)
RingHoldsTail == Holds(ring, drained)

(* The inductive invariant: the listen queue's bound joins the two.        *)
IInv == TypeOK /\ waiting + sessions =< MaxClients /\ RingHoldsTail

(* A client is replayed exactly the last bytes drained, in order           *)
(* (replay_to_fd, "in chronological order").                               *)
ReplayIsTail ==
    replay_to_fd(ring) = LastOf(drained, ring.len)

(* A slice of any length leaves its last bytes, and as many older ones as  *)
(* fit, to be replayed: also one longer than the ring, which push_slice    *)
(* cuts, and wherever the head is.                                         *)
SliceKeepsTail ==
    \A n \in 0..(2 * Capacity) :
        LET data == [i \in 1..n |-> i]
            all  == replay_to_fd(ring) \o data
        IN  replay_to_fd(push_slice(ring, data))
                = IF Len(all) > Capacity THEN LastOf(all, Capacity) ELSE all

(* The first client of a daemon sees the replay and the live output as one *)
(* gapless stream, from the oldest byte the ring had kept up to where the  *)
(* relay has got to, although output is drained while it connects          *)
(* (console_relay_loop).                                                   *)
FirstClientSeesAll ==
    attached /\ sessions = 1
        => LET lost == Len(drained) - ring.len
           IN  got \o toClient = [i \in 1..(out - Len(sock) - lost) |-> lost + i]

(* The guest is never held up for good: a full console socket is drained   *)
(* into the ring or read by the client (console_relay_loop: "we must       *)
(* continuously drain console output").  This needs a guest that does not  *)
(* leave the relay in its write of the client's input for good: the thread *)
(* that is in that write copies no output.                                 *)
GuestIsNeverHeldUp ==
    []<>~input.held => (Len(sock) = SockCap ~> Len(sock) < SockCap)

(* Consecutive output, with nothing left out and nothing twice.            *)
Consecutive(s) == \A i \in 1..(Len(s) - 1) : s[i + 1] = s[i] + 1

(* Claimed by console_relay_loop ("so late-connecting clients can replay   *)
(* everything they missed"): what a client sees has no gaps.  Fails for    *)
(* the second client: output copied to the first one never reaches the     *)
(* ring.                                                                   *)
EveryClientSeesAll == attached => Consecutive(got \o toClient)
=============================================================================
