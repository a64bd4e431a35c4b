---------------------------- MODULE GuestEvents -----------------------------
(***************************************************************************)
(* Container events from the guest to a subscriber: the event poller, the  *)
(* subscriber registry and one handler thread per Subscribe connection     *)
(* (pelagos-guest/src/main.rs), and the subscriber that reads the stream,  *)
(* the daemon's subscription watcher (pelagos-mac/src/daemon.rs).          *)
(*                                                                         *)
(* The poller samples the state files every 250 ms and broadcasts the      *)
(* difference between two samples.  A new subscriber is registered first   *)
(* and sent its own sample of the files afterwards, so its snapshot and    *)
(* the differences that follow it come from different instants.            *)
(*                                                                         *)
(* A scan of the state directory reads one file after the other.  It is    *)
(* one step here: differences are taken container by container, so a       *)
(* change of one container during the scan of another is the same as a     *)
(* change before or after the scan.                                        *)
(***************************************************************************)
EXTENDS Naturals, Sequences

CONSTANTS
    NumNames,         \* containers are named 1..NumNames, in sorting order
    ChanCap,          \* capacity of a subscriber's channel (256 in the code)
    WireCap,          \* bound: events in flight between handler and subscriber
    MaxConns,         \* bound: Subscribe connections in one run
    EveryStatusSeen   \* assume each status lasts until the poller has read it

ASSUME GuestEventsAssumption ==
    /\ NumNames \in Nat /\ ChanCap \in Nat \ {0} /\ WireCap \in Nat \ {0}
    /\ MaxConns \in Nat /\ EveryStatusSeen \in BOOLEAN

Names == 1..NumNames
ConnIds == 1..MaxConns

VARIABLES
    containers,  \* /run/pelagos/containers: name -> status ("absent": no file)
    prev,        \* event_poller_loop: the sample that was last broadcast
    current,     \* event_poller_loop: the last sample read
    poll,        \* "sleeping", or "diffed" between reading and broadcasting
    subs,        \* subscriber_list(): the connections with a sender in it
    conn,        \* connection -> its handle_subscribe thread and its socket
    client,      \* the subscriber's connection, or 0
    view         \* what the subscriber makes of the stream it has read

guestVars == <<containers, prev, current, poll>>
streamVars == <<containers, prev, current, poll, subs, conn, client, view>>

Statuses == {"absent", "running", "exited"}

Events ==
    [type : {"snapshot"}, states : [Names -> Statuses]]
        \cup [type : {"started"}, name : Names, status : {"running", "exited"}]
        \cup [type : {"exited"}, name : Names]

(* open: the subscriber's end of the socket; lossy: a batch was dropped.   *)
Conns ==
    [st : {"unused", "registered", "streaming", "ended"}, chan : Seq(Events),
     wire : Seq(Events), open : BOOLEAN, lossy : BOOLEAN]

Unused == [st |-> "unused", chan |-> <<>>, wire |-> <<>>, open |-> FALSE, lossy |-> FALSE]

StreamTypeOK ==
    /\ {containers, prev, current} \subseteq [Names -> Statuses]
    /\ poll \in {"sleeping", "diffed"}
    /\ subs \subseteq ConnIds
    /\ client \in {0} \cup ConnIds
    /\ view \in [Names -> Statuses]
    /\ conn \in [ConnIds -> Conns]
    /\ \A k \in ConnIds : Len(conn[k].chan) =< ChanCap /\ Len(conn[k].wire) =< WireCap

Started(n, status) == [type |-> "started", name |-> n, status |-> status]
Exited(n) == [type |-> "exited", name |-> n]

-----------------------------------------------------------------------------
(* diff_container_states: first the containers that appeared or came to    *)
(* run, in name order, then those that disappeared or stopped running.     *)

Appeared(n, old, new) ==
    CASE old[n] # "running" /\ new[n] = "running" -> <<Started(n, "running")>>
      [] old[n] = "absent" /\ new[n] = "exited" -> <<Started(n, "exited"), Exited(n)>>
      [] OTHER -> <<>>

Disappeared(n, old, new) ==
    IF \/ old[n] # "absent" /\ new[n] = "absent"
       \/ old[n] = "running" /\ new[n] = "exited"
    THEN <<Exited(n)>> ELSE <<>>

(* One list per container, joined in name order.                           *)
Joined(lists) ==
    LET upTo[n \in 0..NumNames] == IF n = 0 THEN <<>> ELSE upTo[n - 1] \o lists[n]
    IN  upTo[NumNames]

diff_container_states(old, new) ==
    Joined([n \in Names |-> Appeared(n, old, new)])
        \o Joined([n \in Names |-> Disappeared(n, old, new)])

-----------------------------------------------------------------------------
StreamInit ==
    /\ containers \in [Names -> Statuses]
    /\ prev = containers
    /\ current = containers
    /\ poll = "sleeping"
    /\ subs = {}
    /\ conn = [k \in ConnIds |-> Unused]
    /\ client = 0
    /\ view = [n \in Names |-> "absent"]

(* The container runtime inside the VM writes the state files.             *)
MayChange(n) == EveryStatusSeen => containers[n] = current[n]

SetStatus(n, from, to) ==
    /\ MayChange(n)
    /\ containers[n] \in from
    /\ containers' = [containers EXCEPT ![n] = to]
    /\ UNCHANGED <<prev, current, poll, subs, conn, client, view>>

ContainerStarts(n) == SetStatus(n, {"absent", "exited"}, "running")
ContainerExits(n)  == SetStatus(n, {"running"}, "exited")
ContainerRemoved(n) == SetStatus(n, {"running", "exited"}, "absent")

(* event_poller_loop wakes and reads the state files ...                   *)
PollRead ==
    /\ poll = "sleeping"
    /\ current' = containers
    /\ IF diff_container_states(prev, containers) = <<>>
       THEN prev' = containers /\ poll' = "sleeping"
       ELSE prev' = prev /\ poll' = "diffed"
    /\ UNCHANGED <<containers, subs, conn, client, view>>

(* try_send of a batch to one channel: what does not fit is dropped, and   *)
(* the rest of the batch with it.                                          *)
Sent(events, c) ==
    LET room == ChanCap - Len(c.chan)
    IN  [c EXCEPT !.chan = @ \o SubSeq(events, 1, IF Len(events) =< room THEN Len(events) ELSE room),
                  !.lossy = @ \/ Len(events) > room]

(* Broken variant: the files are read again for the next comparison.       *)
PollBroadcastRereads ==
    /\ poll = "diffed"
    /\ conn' = [k \in ConnIds |->
                   IF k \in subs /\ conn[k].st # "ended"
                   THEN Sent(diff_container_states(prev, current), conn[k])
                   ELSE conn[k]]
    /\ subs' = {k \in subs : conn[k].st # "ended"}
    /\ prev' = containers
    /\ poll' = "sleeping"
    /\ UNCHANGED <<containers, current, client, view>>

(* ... and broadcast_events, under the registry's lock, sends the          *)
(* differences to every sender and prunes those whose handler has returned.*)
PollBroadcast ==
    /\ poll = "diffed"
    /\ conn' = [k \in ConnIds |->
                   IF k \in subs /\ conn[k].st # "ended"
                   THEN Sent(diff_container_states(prev, current), conn[k])
                   ELSE conn[k]]
    /\ subs' = {k \in subs : conn[k].st # "ended"}
    /\ prev' = current
    /\ poll' = "sleeping"
    /\ UNCHANGED <<containers, current, client, view>>

(* The subscriber connects, and handle_subscribe registers its channel.    *)
Subscribe(k) ==
    /\ client = 0
    /\ conn[k].st = "unused"
    /\ \A j \in ConnIds : j < k => conn[j].st # "unused"
    /\ client' = k
    /\ conn' = [conn EXCEPT ![k] = [Unused EXCEPT !.st = "registered", !.open = TRUE]]
    /\ subs' = subs \cup {k}
    /\ UNCHANGED <<containers, prev, current, poll, view>>

(* A write to a socket whose other end is gone ends the handler.           *)
WriteFails(k) ==
    /\ ~conn[k].open
    /\ conn' = [conn EXCEPT ![k] = [Unused EXCEPT !.st = "ended"]]

(* handle_subscribe sends its own sample of the state files first.         *)
SendSnapshot(k) ==
    /\ conn[k].st = "registered"
    /\ \/ WriteFails(k)
       \/ /\ conn[k].open
          /\ conn' = [conn EXCEPT ![k].st = "streaming",
                         ![k].wire = Append(@, [type |-> "snapshot", states |-> containers])]
    /\ UNCHANGED <<containers, prev, current, poll, subs, client, view>>

(* handle_subscribe's loop: recv_timeout returned an event.                *)
ForwardEvent(k) ==
    /\ conn[k].st = "streaming"
    /\ conn[k].chan # <<>>
    /\ \/ WriteFails(k)
       \/ /\ conn[k].open
          /\ Len(conn[k].wire) < WireCap
          /\ conn' = [conn EXCEPT ![k].wire = Append(@, Head(conn[k].chan)),
                                  ![k].chan = Tail(@)]
    /\ UNCHANGED <<containers, prev, current, poll, subs, client, view>>

(* recv_timeout ran out: the heartbeat finds a subscriber that is gone.    *)
(* A heartbeat that arrives changes nothing at the subscriber.             *)
HeartbeatFails(k) ==
    /\ conn[k].st = "streaming"
    /\ conn[k].chan = <<>>
    /\ WriteFails(k)
    /\ UNCHANGED <<containers, prev, current, poll, subs, client, view>>

(* The connection breaks, or the subscriber is stopped: what was in flight *)
(* is lost.  The subscriber keeps what it knew until its next snapshot.    *)
(* (Bound: the last of MaxConns connections stays.)                        *)
ConnectionLost ==
    /\ client \notin {0, MaxConns}
    /\ conn' = [conn EXCEPT ![client].open = FALSE, ![client].wire = <<>>]
    /\ client' = 0
    /\ UNCHANGED <<containers, prev, current, poll, subs, view>>

(* What one event does to the subscriber's picture.  The daemon's watcher  *)
(* keeps only its domain, the names that are not "absent" (container_ports).*)
Apply(e, v) ==
    CASE e.type = "snapshot" -> e.states
      [] e.type = "started"  -> [v EXCEPT ![e.name] = e.status]
      [] e.type = "exited"   -> [v EXCEPT ![e.name] = "absent"]

(* The picture after a list of events.                                     *)
Seen(v, s) ==
    LET after[i \in 0..Len(s)] == IF i = 0 THEN v ELSE Apply(s[i], after[i - 1])
    IN  after[Len(s)]

Receive ==
    /\ client # 0
    /\ conn[client].wire # <<>>
    /\ view' = Apply(Head(conn[client].wire), view)
    /\ conn' = [conn EXCEPT ![client].wire = Tail(@)]
    /\ UNCHANGED <<containers, prev, current, poll, subs, client>>

-----------------------------------------------------------------------------
Runtime == \E n \in Names : ContainerStarts(n) \/ ContainerExits(n) \/ ContainerRemoved(n)

Handler(k) == SendSnapshot(k) \/ ForwardEvent(k) \/ HeartbeatFails(k)

StreamNext ==
    \/ Runtime
    \/ PollRead \/ PollBroadcast
    \/ \E k \in ConnIds : Subscribe(k) \/ Handler(k)
    \/ ConnectionLost
    \/ Receive

StreamSpec == StreamInit /\ [][StreamNext]_streamVars

-----------------------------------------------------------------------------
(* PROPERTIES *)

(* What the subscriber will believe once it has read what is on its way.   *)
Pending == IF poll = "diffed" THEN diff_container_states(prev, current) ELSE <<>>

OnItsWay(k) == conn[k].wire \o conn[k].chan \o Pending

Expected(k) == Seen(view, OnItsWay(k))

Agrees(v, s, n) == (v[n] = "running") = (s[n] = "running") /\ (s[n] = "absent" => v[n] = "absent")

(* Snapshot and differences fit together although they are taken at        *)
(* different instants: whatever is still on its way, the stream of a       *)
(* connection leads its subscriber to the poller's sample, for every       *)
(* container that has not changed since, unless the channel overflowed     *)
(* (handle_subscribe, event_poller_loop, broadcast_events).                *)
StreamLeadsToSample ==
    client # 0 /\ conn[client].st = "streaming" /\ ~conn[client].lossy
        => \A n \in Names :
              containers[n] = current[n] => Agrees(Expected(client), current, n)

(* Claimed by diff_container_states (the TUI can track its final state     *)
(* "rather than leaving it stuck in ContainerStarted"): once the poller    *)
(* has caught up and the stream is drained, nobody is believed to run who  *)
(* does not.  Fails for a status that lasts less than a poll interval and  *)
(* falls on the snapshot.                                                  *)
Settled ==
    /\ poll = "sleeping" /\ current = containers
    /\ client # 0 /\ conn[client].st = "streaming"
    /\ conn[client].chan = <<>> /\ conn[client].wire = <<>>

NobodyIsStuck ==
    Settled /\ ~conn[client].lossy
        => \A n \in Names : view[n] = "running" => containers[n] = "running"
=============================================================================
