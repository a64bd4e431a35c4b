----------------------------- MODULE VmNetwork ------------------------------
(***************************************************************************)
(* The network of the VMs: the utun relay each daemon starts with its VM   *)
(* (pelagos-vz/src/tun_relay.rs, start_vm in pelagos-vz/src/vm.rs), the    *)
(* privileged helper all daemons share (pelagos-pfctl/src/main.rs), and    *)
(* the kernel state the helper sets: NAT rules, forwarding and routes.     *)
(*                                                                         *)
(* The helper serves one request after the other and keeps what it knows   *)
(* in memory only; the kernel's state outlives it.  A daemon that ends by  *)
(* itself does not ask for the teardown: the watcher thread still holds    *)
(* the Vm, so exiting never drops it.                                      *)
(***************************************************************************)
EXTENDS Naturals

CONSTANTS
    Profiles,   \* VM profiles, each on a subnet of its own (SubnetAlloc)
    NoProfile,
    MaxUtuns,   \* bound: utun interfaces created
    HasPrefix   \* whether the host has a global IPv6 prefix

ASSUME NetworkAssumption ==
    /\ MaxUtuns \in Nat /\ HasPrefix \in BOOLEAN /\ NoProfile \notin Profiles

VARIABLES
    relay,    \* utun interface -> the relay and the VM behind it
    utuns,    \* helper: active_utuns
    aliases,  \* helper: ipv6_aliases, by interface
    nat,      \* kernel: the profiles whose subnet has its rules in the anchor
    fwd,      \* kernel: IP forwarding
    route4,   \* kernel: profile -> interface of the route to its guest, or 0
    route6    \* kernel: interfaces with a route for their VM's global address

vars == <<relay, utuns, aliases, nat, fwd, route4, route6>>
kernel == <<nat, fwd, route4, route6>>

Utuns == 1..MaxUtuns

(* "dropping": start_vm failed after the relay was up and drops it.        *)
Stages == {"unused", "created", "booting", "running", "dropping",
           "failed", "stopped", "crashed"}

(* slaac: how far the VM is with its global address.                       *)
Unused == [st |-> "unused", vm |-> NoProfile, mac |-> FALSE, slaac |-> "none", gua |-> FALSE]

Relays == [st : Stages, vm : Profiles \cup {NoProfile}, mac : BOOLEAN,
           slaac : {"none", "tentative", "probing", "preferred", "failed"},
           gua : BOOLEAN]

TypeOK ==
    /\ relay \in [Utuns -> Relays]
    /\ utuns \subseteq Utuns /\ aliases \subseteq Utuns /\ route6 \subseteq Utuns
    /\ nat \subseteq Profiles
    /\ fwd \in BOOLEAN
    /\ route4 \in [Profiles -> 0..MaxUtuns]

SetUp(i) == relay[i].st \in {"booting", "running", "dropping"}
Live(i) == relay[i].st = "created" \/ SetUp(i)

Become(i, st) == relay' = [relay EXCEPT ![i].st = st]

-----------------------------------------------------------------------------
Init ==
    /\ relay = [i \in Utuns |-> Unused]
    /\ utuns = {} /\ aliases = {} /\ nat = {} /\ route6 = {}
    /\ fwd \in BOOLEAN
    /\ route4 = [v \in Profiles |-> 0]

(* tun_relay::start: the helper creates the next interface and passes its  *)
(* descriptor on.                                                          *)
CreateUtun(v) ==
    /\ \A i \in Utuns : Live(i) => relay[i].vm # v
    /\ \E i \in Utuns :
          /\ relay[i].st = "unused"
          /\ \A j \in Utuns : j < i => relay[j].st # "unused"
          /\ relay' = [relay EXCEPT ![i] = [Unused EXCEPT !.st = "created", !.vm = v]]
    /\ UNCHANGED <<utuns, aliases, kernel>>

(* No default route: start fails before the helper is asked again.         *)
NoEgress(i) ==
    /\ relay[i].st = "created"
    /\ Become(i, "failed")
    /\ UNCHANGED <<utuns, aliases, kernel>>

Subnets(S) == {relay[i].vm : i \in S}

(* The guest's route after `route delete` and `ifconfig up`: it moves to   *)
(* this interface, unless the old one could not be deleted, an error that  *)
(* is ignored and leaves the route where it was.                           *)
MoveRoute(i) ==
    \/ route4' = [route4 EXCEPT ![relay[i].vm] = i]
    \/ route4[relay[i].vm] # 0 /\ UNCHANGED route4

(* handle_setup_utun: the guest's route moves to this interface,           *)
(* forwarding goes on, and the anchor is loaded with all active subnets.   *)
(* Whether pf itself is on (`pfctl -e`, whose error is ignored: it is one  *)
(* when pf is on already) is no part of `nat`, the rules in the anchor.    *)
SetupUtun(i) ==
    /\ relay[i].st = "created"
    /\ MoveRoute(i)
    /\ fwd' = TRUE
    /\ utuns' = utuns \cup {i}
    /\ nat' = Subnets(utuns \cup {i})
    /\ Become(i, "booting")
    /\ UNCHANGED <<aliases, route6>>

(* One of its commands fails.  The old route is gone by then, or could not *)
(* be deleted; the ones after it may have been carried out, and if only    *)
(* the anchor did not load the relay stays in active_utuns.                *)
SetupFails(i) ==
    /\ relay[i].st = "created"
    /\ \/ /\ route4' \in {route4, [route4 EXCEPT ![relay[i].vm] = 0]}
          /\ UNCHANGED <<fwd, utuns>>
       \/ /\ MoveRoute(i)
          /\ fwd' \in {fwd, TRUE} /\ UNCHANGED utuns
       \/ /\ MoveRoute(i)
          /\ fwd' = TRUE /\ utuns' = utuns \cup {i}
    /\ Become(i, "failed")
    /\ UNCHANGED <<aliases, nat, route6>>

(* The rest of start_vm; when it fails the relay handle is dropped.        *)
BootVm(i) ==
    /\ relay[i].st = "booting"
    /\ Become(i, "running") \/ Become(i, "dropping")
    /\ UNCHANGED <<utuns, aliases, kernel>>

(* Broken variant: rules and forwarding are taken down for everybody.      *)
TeardownAll(i) ==
    /\ relay[i].st = "dropping"
    /\ utuns' = utuns \ {i} /\ aliases' = aliases \ {i}
    /\ nat' = {} /\ fwd' = FALSE
    /\ route6' = route6 \ {i}
    /\ route4' = [v \in Profiles |-> IF route4[v] = i THEN 0 ELSE route4[v]]
    /\ Become(i, "failed")

(* TunRelayHandle::drop and handle_teardown_utun: the last relay takes     *)
(* rules and forwarding down; otherwise the anchor is loaded again.  No    *)
(* error of these commands is looked at.                                   *)
TeardownUtun(i) ==
    /\ relay[i].st = "dropping"
    /\ utuns' = utuns \ {i}
    /\ \/ utuns \ {i} = {} /\ nat' \in {{}, nat} /\ fwd' \in {FALSE, fwd}
       \/ /\ utuns \ {i} # {}
          /\ nat' \in {Subnets(utuns \ {i}), nat}
          /\ UNCHANGED fwd
    /\ aliases' = aliases \ {i}
    /\ route6' \in {route6, IF i \in aliases THEN route6 \ {i} ELSE route6}
    /\ route4' \in {route4, [v \in Profiles |-> IF route4[v] = i THEN 0 ELSE route4[v]]}
    /\ Become(i, "failed")

(* The helper does not answer: a warning.                                  *)
TeardownLost(i) ==
    /\ relay[i].st = "dropping"
    /\ Become(i, "failed")
    /\ UNCHANGED <<utuns, aliases, kernel>>

(* The daemon shuts down (vm.stop, exit), or is killed.                    *)
StopVm(i) ==
    /\ relay[i].st = "running"
    /\ Become(i, "stopped")
    /\ UNCHANGED <<utuns, aliases, kernel>>

Crash(i) ==
    /\ Live(i)
    /\ Become(i, "crashed")
    /\ UNCHANGED <<utuns, aliases, kernel>>

(* launchd starts the helper again, with nothing in its memory.            *)
HelperRestart ==
    /\ utuns' = {} /\ aliases' = {}
    /\ UNCHANGED <<relay, kernel>>

-----------------------------------------------------------------------------
(* run_relay: frames of the VM.  The first one of any kind tells its MAC.  *)

(* ARP, IPv4, a solicitation for the gateway: answered or passed on.       *)
FrameFromVm(i) ==
    /\ relay[i].st = "running"
    /\ relay' = [relay EXCEPT ![i].mac = TRUE]
    /\ UNCHANGED <<utuns, aliases, kernel>>

(* A router advertisement, for a solicitation or every 200 s: the VM makes *)
(* up an address.                                                          *)
RouterAdvertisement(i, solicited) ==
    /\ relay[i].st = "running" /\ relay[i].slaac = "none"
    /\ HasPrefix
    /\ relay' = [relay EXCEPT ![i].slaac = "tentative", ![i].mac = relay[i].mac \/ solicited]
    /\ UNCHANGED <<utuns, aliases, kernel>>

(* Broken variant: the probe already makes the address the host's.         *)
DadProbeAssigns(i) ==
    /\ relay[i].st = "running" /\ relay[i].slaac = "tentative"
    /\ relay' = [relay EXCEPT ![i].slaac = "probing", ![i].mac = TRUE, ![i].gua = TRUE]
    /\ route6' = route6 \cup {i} /\ aliases' = aliases \cup {i}
    /\ UNCHANGED <<utuns, nat, fwd, route4>>

(* The VM asks whether anybody has the address, from the address "::", for *)
(* which maybe_assign_gua_alias does nothing.                              *)
DadProbe(i) ==
    /\ relay[i].st = "running" /\ relay[i].slaac = "tentative"
    /\ relay' = [relay EXCEPT ![i].slaac = "probing", ![i].mac = TRUE]
    /\ UNCHANGED <<utuns, aliases, kernel>>

(* A host that has a route for the address answers, and the VM gives up.   *)
DadEnds(i) ==
    /\ relay[i].st = "running" /\ relay[i].slaac = "probing"
    /\ relay' = [relay EXCEPT ![i].slaac = IF i \in route6 THEN "failed" ELSE "preferred"]
    /\ UNCHANGED <<utuns, aliases, kernel>>

(* A packet from the address: maybe_assign_gua_alias has the helper add a  *)
(* route, once; on an error the next packet tries again.                   *)
GuaPacket(i) ==
    /\ relay[i].st = "running" /\ relay[i].slaac = "preferred"
    /\ ~relay[i].gua
    /\ relay' = [relay EXCEPT ![i].gua = TRUE]
    /\ route6' = route6 \cup {i}
    /\ aliases' = aliases \cup {i}
    /\ UNCHANGED <<utuns, nat, fwd, route4>>

Next ==
    \/ \E v \in Profiles : CreateUtun(v)
    \/ \E i \in Utuns :
          \/ NoEgress(i) \/ SetupUtun(i) \/ SetupFails(i) \/ BootVm(i)
          \/ TeardownUtun(i) \/ TeardownLost(i) \/ StopVm(i) \/ Crash(i)
          \/ FrameFromVm(i) \/ DadProbe(i) \/ DadEnds(i) \/ GuaPacket(i)
          \/ \E solicited \in BOOLEAN : RouterAdvertisement(i, solicited)
    \/ HelperRestart

Spec == Init /\ [][Next]_vars

-----------------------------------------------------------------------------
(* PROPERTIES *)

(* No two live relays are of one profile (a profile has one daemon, and    *)
(* the daemon one Vm: DaemonLifecycle!OneVm), and the helper knows only    *)
(* relays that have been created.                                          *)
RelaysAreApart ==
    /\ \A i, j \in Utuns : Live(i) /\ Live(j) /\ relay[i].vm = relay[j].vm => i = j
    /\ \A i \in Utuns : relay[i].st # "unused" => relay[i].vm \in Profiles
    /\ \A i \in utuns \cup aliases \cup route6 : relay[i].st # "unused"

(* VMs do not take each other's network away: whatever other profiles      *)
(* start, fail, tear down or leave behind, a VM the helper knows of has    *)
(* its NAT rules, forwarding and a route to its guest, which leads to its  *)
(* own interface or, where `route delete` failed, to one that a dead relay *)
(* of the same profile has left (handle_setup_utun, handle_teardown_utun,  *)
(* reload_nat_anchor).                                                     *)
Zombie(j, v) == j # 0 /\ ~Live(j) /\ relay[j].vm = v

KnownVmHasNetwork ==
    \A i \in utuns : SetUp(i) =>
        /\ relay[i].vm \in nat /\ fwd
        /\ LET r == route4[relay[i].vm] IN r = i \/ Zombie(r, relay[i].vm)

(* Duplicate address detection is left alone: the host gets a route for    *)
(* the VM's address only once the VM has it for good, and by then the      *)
(* relay knows where to send what arrives (maybe_assign_gua_alias).        *)
DadIsUndisturbed ==
    \A i \in Utuns :
        /\ relay[i].slaac # "failed"
        /\ i \in route6 => relay[i].slaac = "preferred" /\ relay[i].mac

(* The inductive invariant: a guest's route leads to an interface of its   *)
(* own profile, if anywhere, and a VM the helper knows of has one.         *)
RoutesAreOwn ==
    \A v \in Profiles : route4[v] # 0 =>
        relay[route4[v]].st # "unused" /\ relay[route4[v]].vm = v

KnownVmIsServed ==
    \A i \in utuns : SetUp(i) =>
        relay[i].vm \in nat /\ fwd /\ route4[relay[i].vm] # 0

ProbedMeansHeard ==
    \A i \in Utuns : relay[i].slaac \in {"probing", "preferred"} => relay[i].mac

IInv ==
    /\ TypeOK /\ RelaysAreApart /\ RoutesAreOwn /\ KnownVmIsServed
    /\ DadIsUndisturbed /\ ProbedMeansHeard

(* Claimed by the header of tun_relay.rs ("The relay detects the DAD       *)
(* Neighbour Solicitation (source = ::) and asks pelagos-pfctl to add that *)
(* GUA as an alias on the utun interface"): a VM that probes has its       *)
(* alias.  Fails: maybe_assign_gua_alias skips "::", and says why.         *)
ProbeGetsAlias ==
    \A i \in Utuns : relay[i].slaac = "probing" => i \in aliases

(* Claimed by TunRelayHandle::drop ("flush pf rules when the relay is      *)
(* stopped"): a VM that was shut down is no longer known to the helper.    *)
(* Fails: the shutdown path of daemon::run exits with the Vm still held by *)
(* the watcher thread.                                                     *)
StoppedVmIsTornDown ==
    \A i \in Utuns : relay[i].st = "stopped" => i \notin utuns
=============================================================================
