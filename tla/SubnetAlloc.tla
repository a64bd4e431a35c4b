---------------------------- MODULE SubnetAlloc -----------------------------
(***************************************************************************)
(* The subnet of a VM profile: ensure_vm_ip (pelagos-mac/src/state.rs)     *)
(* gives each profile a 192.168.N.2 and appends it to the profile's        *)
(* vm.conf, the daemon takes its address from there at boot, and vm_init   *)
(* (pelagos-mac/src/main.rs) and scripts/build-build-image.sh rewrite the  *)
(* file.                                                                   *)
(*                                                                         *)
(* Nothing locks the vm.conf files: an allocation reads those of the other *)
(* profiles one after the other and appends to its own at the end.         *)
(***************************************************************************)
EXTENDS Naturals, FiniteSets, FiniteSetsExt

CONSTANTS
    Named,       \* profiles other than "default"
    BuildProfile,\* the one build-build-image.sh writes
    Commands,    \* CLI processes
    LastSubnet,  \* 254 in the code
    Overlap,     \* whether commands may run at the same time
    Rewrites     \* whether vm.conf is rewritten behind the allocator's back

(* The N of 192.168.N.2: 105 is the default profile's, allocation starts   *)
(* at 106.  0 stands for no vm_ip line.                                    *)
DefaultSubnet == 105
Allocatable == 106..LastSubnet

ASSUME SubnetAssumption ==
    /\ LastSubnet \in Nat /\ LastSubnet >= 106
    /\ BuildProfile \in Named /\ "default" \notin Named
    /\ {Overlap, Rewrites} \subseteq BOOLEAN

VARIABLES
    conf,     \* profile -> the last vm_ip line of its vm.conf, or 0
    running,  \* profile -> subnet of its running VM, or 0
    cmd       \* command -> its ensure_running

allocVars == <<conf, running, cmd>>

AllProfiles == {"default"} \cup Named

Idle == [pc |-> "idle", profile |-> "default", todo |-> {}, taken |-> {}]

AllocTypeOK ==
    /\ conf \in [AllProfiles -> {0, DefaultSubnet} \cup Allocatable]
    /\ running \in [AllProfiles -> {0, DefaultSubnet} \cup Allocatable]
    /\ cmd \in [Commands -> [pc : {"idle", "load", "scan", "pick", "boot"},
                             profile : AllProfiles, todo : SUBSET AllProfiles,
                             taken : SUBSET ({DefaultSubnet} \cup Allocatable)]]

-----------------------------------------------------------------------------
AllocInit ==
    /\ conf = [p \in AllProfiles |-> 0]
    /\ running = [p \in AllProfiles |-> 0]
    /\ cmd = [c \in Commands |-> Idle]

Begin(c, p) ==
    /\ cmd[c].pc = "idle"
    /\ Overlap \/ \A b \in Commands : cmd[b].pc = "idle"
    /\ cmd' = [cmd EXCEPT ![c] = [Idle EXCEPT !.pc = "load", !.profile = p]]
    /\ UNCHANGED <<conf, running>>

(* The profile's own vm.conf: an address that is there is kept; the        *)
(* default profile takes 105 without looking further.                      *)
Load(c) ==
    LET p == cmd[c].profile
    IN  /\ cmd[c].pc = "load"
        /\ \/ /\ conf[p] # 0 \/ p = "default"
              /\ conf' = [conf EXCEPT ![p] = IF @ # 0 THEN @ ELSE DefaultSubnet]
              /\ cmd' = [cmd EXCEPT ![c].pc = "boot"]
           \/ /\ conf[p] = 0 /\ p # "default"
              /\ cmd' = [cmd EXCEPT ![c].pc = "scan", ![c].todo = AllProfiles \ {p}]
              /\ UNCHANGED conf
        /\ UNCHANGED running

(* Broken variant: a profile that is not running is passed over.           *)
ScanRunningOnly(c, q) ==
    /\ cmd[c].pc = "scan"
    /\ q \in cmd[c].todo
    /\ cmd' = [cmd EXCEPT ![c].todo = @ \ {q},
                          ![c].taken = @ \cup ({running[q]} \ {0}),
                          ![c].pc = IF cmd[c].todo = {q} THEN "pick" ELSE "scan"]
    /\ UNCHANGED <<conf, running>>

(* The others' vm.conf files, "default" first and the rest in directory    *)
(* order; a default profile without an address keeps 105 reserved.         *)
Scan(c, q) ==
    /\ cmd[c].pc = "scan"
    /\ q \in cmd[c].todo
    /\ "default" \in cmd[c].todo => q = "default"
    /\ LET seen == IF conf[q] # 0 THEN {conf[q]}
                   ELSE IF q = "default" THEN {DefaultSubnet} ELSE {}
       IN  cmd' = [cmd EXCEPT ![c].todo = @ \ {q},
                              ![c].taken = @ \cup seen,
                              ![c].pc = IF cmd[c].todo = {q} THEN "pick" ELSE "scan"]
    /\ UNCHANGED <<conf, running>>

(* Broken variant: the subnet after the highest one in use.                *)
PickNext(c) ==
    /\ cmd[c].pc = "pick"
    /\ conf' = [conf EXCEPT ![cmd[c].profile] = Max(cmd[c].taken) + 1]
    /\ cmd' = [cmd EXCEPT ![c].pc = "boot"]
    /\ UNCHANGED running

(* The lowest free N is appended; with none left the command fails.        *)
Pick(c) ==
    LET free == Allocatable \ cmd[c].taken
    IN  /\ cmd[c].pc = "pick"
        /\ \/ /\ free # {}
              /\ conf' = [conf EXCEPT ![cmd[c].profile] = Min(free)]
              /\ cmd' = [cmd EXCEPT ![c].pc = "boot"]
           \/ free = {} /\ cmd' = [cmd EXCEPT ![c] = Idle] /\ UNCHANGED conf
        /\ UNCHANGED running

(* The daemon boots, unless it runs already, with the address its vm.conf  *)
(* has by then (build_vm_config).                                          *)
Boot(c) ==
    LET p == cmd[c].profile
    IN  /\ cmd[c].pc = "boot"
        /\ running' = [running EXCEPT ![p] = IF @ # 0 THEN @
                                             ELSE IF conf[p] # 0 THEN conf[p]
                                             ELSE DefaultSubnet]
        /\ cmd' = [cmd EXCEPT ![c] = Idle]
        /\ UNCHANGED conf

Stop(p) ==
    /\ running[p] # 0
    /\ running' = [running EXCEPT ![p] = 0]
    /\ UNCHANGED <<conf, cmd>>

(* vm_init --force stops the VM, at least for as long as it is prepared to *)
(* wait, and writes a vm.conf without vm_ip.                               *)
Quiet == \A c \in Commands : cmd[c].pc = "idle"

VmInit(p) ==
    /\ Quiet
    /\ conf' = [conf EXCEPT ![p] = 0]
    /\ running' = [running EXCEPT ![p] = 0]
    /\ UNCHANGED cmd

VmInitTimesOut(p) ==
    /\ Rewrites /\ Quiet
    /\ running[p] # 0
    /\ conf' = [conf EXCEPT ![p] = 0]
    /\ UNCHANGED <<running, cmd>>

(* build-build-image.sh writes 106 into the build profile's vm.conf.       *)
BuildImage ==
    /\ Rewrites /\ Quiet
    /\ conf' = [conf EXCEPT ![BuildProfile] = 106]
    /\ UNCHANGED <<running, cmd>>

AllocNext ==
    \/ \E c \in Commands :
          \/ \E p \in AllProfiles : Begin(c, p) \/ Scan(c, p)
          \/ Load(c) \/ Pick(c) \/ Boot(c)
    \/ \E p \in AllProfiles : Stop(p) \/ VmInit(p) \/ VmInitTimesOut(p)
    \/ BuildImage

AllocSpec == AllocInit /\ [][AllocNext]_allocVars

-----------------------------------------------------------------------------
(* PROPERTIES *)

(* ensure_vm_ip gives "the lowest available 192.168.N.2 not in use by any  *)
(* existing profile's vm.conf": at the moment it is written, although the  *)
(* files were read one by one before.  With none available none is given.  *)
AllocationIsFree ==
    [][\A p \in Named :
          conf[p] = 0 /\ conf'[p] # 0 /\ ~Quiet
          => LET used == {conf[q] : q \in AllProfiles \ {p}} \cup {DefaultSubnet}
                 free == Allocatable \ used
             IN  conf'[p] \in free /\ \A n \in free : conf'[p] =< n]_allocVars

(* Two VMs that run where their vm.conf says are on different subnets      *)
(* (VmProfileConfig.vm_ip, "eliminating subnet conflicts when multiple     *)
(* profiles run simultaneously"), through files that are rewritten and VMs *)
(* that outlive it.  The build profile is left out: its script writes 106  *)
(* whoever has it.                                                         *)
AsConfigured(p) == running[p] # 0 /\ running[p] = conf[p]

DistinctSubnets ==
    \A p, q \in AllProfiles \ {BuildProfile} :
        AsConfigured(p) /\ AsConfigured(q) /\ running[p] = running[q] => p = q
=============================================================================
