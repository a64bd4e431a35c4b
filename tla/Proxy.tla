------------------------------- MODULE Proxy --------------------------------
(***************************************************************************)
(* One connection through the daemon (pelagos-mac/src/daemon.rs): proxy    *)
(* copies what the CLI writes to the guest (thread A) and what the guest   *)
(* writes to the CLI (thread B).                                           *)
(*                                                                         *)
(*   CLI --cliUp--> thread A --vmUp--> guest                               *)
(*   CLI <-cliDown- thread B <-vmDown- guest                               *)
(*                                                                         *)
(* Each thread has a descriptor of its own for both sockets (dup,          *)
(* try_clone) and drops it when it ends; a socket is closed when the last  *)
(* of its descriptors is.  The modules that extend this one say when the   *)
(* CLI and the guest are there.                                            *)
(***************************************************************************)
EXTENDS Naturals, Sequences

CONSTANT Capacity  \* messages a socket or pipe holds

ASSUME CapacityAssumption == Capacity \in Nat \ {0}

VARIABLES
    cliUp, vmUp, vmDown, cliDown,  \* messages in the sockets
    relay                          \* thread -> "off", "copying" or "ended"

sockets == <<cliUp, vmUp, vmDown, cliDown>>

Threads == {"A", "B"}
HostOpen == relay["A"] # "ended" \/ relay["B"] # "ended"

ProxyTypeOK ==
    /\ \A q \in {cliUp, vmUp, vmDown, cliDown} : Len(q) <= Capacity
    /\ relay \in [Threads -> {"off", "copying", "ended"}]

ProxyInit ==
    /\ cliUp = <<>> /\ vmUp = <<>> /\ vmDown = <<>> /\ cliDown = <<>>
    /\ relay = [t \in Threads |-> "off"]

(* Thread A ends at the CLI's end, or when the guest's end is gone.        *)
CopyUp(cliOpen, guestOpen) ==
    /\ relay["A"] = "copying"
    /\ \/ /\ cliUp # <<>> /\ guestOpen /\ Len(vmUp) < Capacity
          /\ vmUp' = Append(vmUp, Head(cliUp)) /\ cliUp' = Tail(cliUp)
          /\ UNCHANGED relay
       \/ /\ cliUp # <<>> /\ ~guestOpen
          /\ relay' = [relay EXCEPT !["A"] = "ended"]
          /\ cliUp' = Tail(cliUp) /\ UNCHANGED vmUp
       \/ /\ cliUp = <<>> /\ ~cliOpen
          /\ relay' = [relay EXCEPT !["A"] = "ended"]
          /\ UNCHANGED <<cliUp, vmUp>>
    /\ UNCHANGED <<vmDown, cliDown>>

(* Thread B ends at the guest's end, or when the CLI is gone.              *)
CopyDown(cliOpen, guestOpen) ==
    /\ relay["B"] = "copying"
    /\ \/ /\ vmDown # <<>> /\ cliOpen /\ Len(cliDown) < Capacity
          /\ cliDown' = Append(cliDown, Head(vmDown)) /\ vmDown' = Tail(vmDown)
          /\ UNCHANGED relay
       \/ /\ vmDown # <<>> /\ ~cliOpen
          /\ relay' = [relay EXCEPT !["B"] = "ended"]
          /\ vmDown' = Tail(vmDown) /\ UNCHANGED cliDown
       \/ /\ vmDown = <<>> /\ ~guestOpen
          /\ relay' = [relay EXCEPT !["B"] = "ended"]
          /\ UNCHANGED <<vmDown, cliDown>>
    /\ UNCHANGED <<cliUp, vmUp>>

(* The daemon's exit(0) ends both threads wherever they are.               *)
CopyingEnds ==
    /\ HostOpen
    /\ relay' = [t \in Threads |-> "ended"]
    /\ vmDown' = <<>>
    /\ UNCHANGED <<cliUp, vmUp, cliDown>>

(* The guest writes until the host's end is gone, then to nowhere.         *)
Sendable == ~HostOpen \/ Len(vmDown) < Capacity
Send(f) == vmDown' = IF HostOpen THEN Append(vmDown, f) ELSE vmDown
=============================================================================
