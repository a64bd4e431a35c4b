---------------------------- MODULE NetworkProofs ---------------------------
(***************************************************************************)
(* The network of the VMs, for any number of profiles, interfaces and      *)
(* subnets.  First VmNetwork: VMs do not take each other's network away,   *)
(* and duplicate address detection is left alone.  Then SubnetAlloc: with  *)
(* one command at a time, ensure_vm_ip gives every profile a subnet that   *)
(* no other profile's vm.conf names, also when files are rewritten.  Then  *)
(* ComposePorts: what compose registers belongs to a command in progress,  *)
(* and the daemon is asked for nothing but what PortBook promises.         *)
(***************************************************************************)
EXTENDS VmNetwork, SubnetAlloc, ComposePorts, Induction, TLAPS

LEMMA InitIInv == Init => IInv
  BY NetworkAssumption
  DEF Init, IInv, TypeOK, RelaysAreApart, RoutesAreOwn, KnownVmIsServed, DadIsUndisturbed,
      ProbedMeansHeard, Live, SetUp, Unused, Utuns, Stages, Relays

(* What a change of stage leaves alone.                                    *)
LEMMA BecomeFacts ==
  ASSUME relay \in [Utuns -> Relays], NEW i \in Utuns, NEW st \in Stages, Become(i, st)
  PROVE  /\ relay' \in [Utuns -> Relays]
         /\ relay'[i].st = st /\ relay'[i].vm = relay[i].vm
         /\ relay'[i].mac = relay[i].mac /\ relay'[i].slaac = relay[i].slaac
         /\ \A j \in Utuns \ {i} : relay'[j] = relay[j]
<1>1. relay' = [relay EXCEPT ![i] = [relay[i] EXCEPT !.st = st]]
  BY DEF Become
<1>2. [relay[i] EXCEPT !.st = st] \in Relays
  BY DEF Relays
<1>3. relay'[i] = [relay[i] EXCEPT !.st = st]
  BY <1>1
<1> QED BY <1>1, <1>2, <1>3 DEF Relays

(* What a frame of the VM leaves alone.                                    *)
FrameStep(i) ==
    /\ relay' \in [Utuns -> Relays]
    /\ relay'[i].st = relay[i].st /\ relay'[i].vm = relay[i].vm
    /\ \A j \in Utuns \ {i} : relay'[j] = relay[j]
    /\ relay[i].st = "running"
    /\ relay[i].mac => relay'[i].mac

LEMMA FrameFacts ==
  ASSUME relay \in [Utuns -> Relays], NEW i \in Utuns
  PROVE  /\ FrameFromVm(i) => FrameStep(i) /\ relay'[i].mac
                              /\ relay'[i].slaac = relay[i].slaac
         /\ DadProbe(i) => FrameStep(i) /\ relay'[i].mac /\ relay'[i].slaac = "probing"
         /\ DadEnds(i) => FrameStep(i) /\ relay'[i].mac = relay[i].mac
                          /\ relay'[i].slaac = IF i \in route6 THEN "failed" ELSE "preferred"
         /\ GuaPacket(i) => FrameStep(i) /\ relay'[i].mac = relay[i].mac
                            /\ relay'[i].slaac = "preferred"
         /\ \A solicited \in BOOLEAN : RouterAdvertisement(i, solicited) =>
                FrameStep(i) /\ relay'[i].slaac = "tentative"
<1>1. relay[i] \in Relays
  OBVIOUS
<1>2. ASSUME FrameFromVm(i)
      PROVE  FrameStep(i) /\ relay'[i].mac /\ relay'[i].slaac = relay[i].slaac
  <2>1. relay' = [relay EXCEPT ![i] = [relay[i] EXCEPT !.mac = TRUE]]
    BY <1>2 DEF FrameFromVm
  <2>2. [relay[i] EXCEPT !.mac = TRUE] \in Relays
    BY <1>1 DEF Relays
  <2>3. relay'[i] = [relay[i] EXCEPT !.mac = TRUE]
    BY <2>1
  <2>4. relay'[i].mac /\ relay'[i].slaac = relay[i].slaac
        /\ relay'[i].st = relay[i].st /\ relay'[i].vm = relay[i].vm
    BY <1>1, <2>3, Zenon DEF Relays
  <2> QED BY <1>2, <2>1, <2>2, <2>4 DEF FrameStep, FrameFromVm
<1>3. ASSUME DadProbe(i)
      PROVE  FrameStep(i) /\ relay'[i].mac /\ relay'[i].slaac = "probing"
  <2>1. relay' = [relay EXCEPT ![i] = [relay[i] EXCEPT !.slaac = "probing", !.mac = TRUE]]
    BY <1>3 DEF DadProbe
  <2> QED BY <1>1, <1>3, <2>1 DEF FrameStep, Relays, DadProbe
<1>4. ASSUME DadEnds(i)
      PROVE  FrameStep(i) /\ relay'[i].mac = relay[i].mac
                          /\ relay'[i].slaac = IF i \in route6 THEN "failed" ELSE "preferred"
  <2>1. relay' = [relay EXCEPT ![i] = [relay[i] EXCEPT !.slaac =
                                          IF i \in route6 THEN "failed" ELSE "preferred"]]
    BY <1>4 DEF DadEnds
  <2> QED BY <1>1, <1>4, <2>1 DEF FrameStep, Relays, DadEnds
<1>5. ASSUME GuaPacket(i)
      PROVE  FrameStep(i) /\ relay'[i].mac = relay[i].mac /\ relay'[i].slaac = "preferred"
  <2>1. relay' = [relay EXCEPT ![i] = [relay[i] EXCEPT !.gua = TRUE]]
    BY <1>5 DEF GuaPacket
  <2> DEFINE r == [relay[i] EXCEPT !.gua = TRUE]
  <2>2. r \in Relays
    BY <1>1 DEF Relays
  <2>3. /\ r.slaac = relay[i].slaac /\ r.st = relay[i].st
        /\ r.vm = relay[i].vm /\ r.mac = relay[i].mac
    BY <1>1, Zenon DEF Relays
  <2> HIDE DEF r
  <2>4. relay'[i] = r
    BY <2>1 DEF r
  <2> QED BY <1>5, <2>1, <2>2, <2>3, <2>4 DEF FrameStep, GuaPacket, r
<1>6. ASSUME NEW solicited \in BOOLEAN, RouterAdvertisement(i, solicited)
      PROVE  FrameStep(i) /\ relay'[i].slaac = "tentative"
  <2>1. relay' = [relay EXCEPT ![i] = [relay[i] EXCEPT !.slaac = "tentative",
                                                       !.mac = relay[i].mac \/ solicited]]
    BY <1>6 DEF RouterAdvertisement
  <2> DEFINE r == [relay[i] EXCEPT !.slaac = "tentative", !.mac = relay[i].mac \/ solicited]
  <2>2. r \in Relays
    BY <1>1 DEF Relays
  <2>3. r.slaac = "tentative" /\ r.st = relay[i].st /\ r.vm = relay[i].vm
    BY <1>1 DEF Relays
  <2>4. relay[i].mac => r.mac
    BY <1>1 DEF Relays
  <2> HIDE DEF r
  <2>5. relay'[i] = r
    BY <2>1 DEF r
  <2> QED BY <1>6, <2>1, <2>2, <2>3, <2>4, <2>5 DEF FrameStep, RouterAdvertisement, r
<1> QED BY <1>2, <1>3, <1>4, <1>5, <1>6

-----------------------------------------------------------------------------
(* The helper loads rules for profiles only.                               *)
LEMMA SubnetsAreProfiles ==
  ASSUME TypeOK, RelaysAreApart, NEW S \in SUBSET Utuns,
         \A i \in S : relay[i].st # "unused"
  PROVE  Subnets(S) \subseteq Profiles
  BY DEF Subnets, RelaysAreApart, TypeOK

(* Steps that change a stage and nothing else.                             *)
LEMMA StageStep ==
  ASSUME IInv, NEW i \in Utuns,
         NoEgress(i) \/ BootVm(i) \/ TeardownLost(i) \/ StopVm(i) \/ Crash(i)
  PROVE  IInv'
<1>1. PICK st \in Stages \ {"unused", "created"} :
         /\ Become(i, st) /\ Live(i)
         /\ st \in {"booting", "running", "dropping"} => SetUp(i)
         /\ UNCHANGED <<utuns, aliases, kernel>>
  BY DEF NoEgress, BootVm, TeardownLost, StopVm, Crash, Stages, Live, SetUp
<1>2. TypeOK
  BY DEF IInv
<1>3. /\ relay' \in [Utuns -> Relays]
      /\ relay'[i].st = st /\ relay'[i].vm = relay[i].vm
      /\ relay'[i].mac = relay[i].mac /\ relay'[i].slaac = relay[i].slaac
      /\ \A j \in Utuns \ {i} : relay'[j] = relay[j]
  BY <1>1, <1>2, BecomeFacts DEF TypeOK
<1>4. TypeOK'
  BY <1>1, <1>2, <1>3 DEF TypeOK, kernel
<1>5. \A j \in Utuns : /\ (Live(j)' => Live(j)) /\ (SetUp(j)' => SetUp(j))
                       /\ relay'[j].vm = relay[j].vm /\ relay'[j].mac = relay[j].mac
                       /\ relay'[j].slaac = relay[j].slaac
                       /\ (relay[j].st # "unused") <=> (relay'[j].st # "unused")
  BY <1>1, <1>3 DEF Live, SetUp
<1>6. RelaysAreApart'
  BY <1>1, <1>2, <1>5 DEF IInv, RelaysAreApart, kernel, TypeOK
<1>7. KnownVmIsServed'
  BY <1>1, <1>2, <1>5 DEF IInv, KnownVmIsServed, kernel, TypeOK
<1>8. RoutesAreOwn'
  <2>1. \A v \in Profiles : route4[v] # 0 => route4[v] \in Utuns
    BY <1>2 DEF TypeOK, Utuns
  <2> QED BY <1>1, <1>5, <2>1 DEF IInv, RoutesAreOwn, kernel
<1>9. DadIsUndisturbed' /\ ProbedMeansHeard'
  BY <1>1, <1>5 DEF IInv, DadIsUndisturbed, ProbedMeansHeard, kernel
<1> QED BY <1>4, <1>6, <1>7, <1>8, <1>9 DEF IInv

LEMMA CreateStep ==
  ASSUME IInv, NEW v \in Profiles, CreateUtun(v)
  PROVE  IInv'
<1>1. TypeOK
  BY DEF IInv
<1>2. PICK i \in Utuns :
         /\ relay[i].st = "unused"
         /\ relay' = [relay EXCEPT ![i] = [Unused EXCEPT !.st = "created", !.vm = v]]
  BY DEF CreateUtun
<1>3. /\ relay'[i].st = "created" /\ relay'[i].vm = v /\ relay'[i].slaac = "none"
      /\ [Unused EXCEPT !.st = "created", !.vm = v] \in Relays
      /\ \A j \in Utuns \ {i} : relay'[j] = relay[j]
  BY <1>1, <1>2 DEF TypeOK, Relays, Unused, Stages
<1>4. UNCHANGED <<utuns, aliases, kernel>> /\ \A j \in Utuns : Live(j) => relay[j].vm # v
  BY DEF CreateUtun
<1>5. i \notin utuns \cup aliases \cup route6
  BY <1>2 DEF IInv, RelaysAreApart
<1>6. TypeOK'
  BY <1>1, <1>2, <1>3, <1>4 DEF TypeOK, kernel
<1>7. RelaysAreApart'
  <2>1. \A j, k \in Utuns : Live(j)' /\ Live(k)' /\ relay'[j].vm = relay'[k].vm => j = k
    BY <1>3, <1>4 DEF IInv, RelaysAreApart, Live, SetUp
  <2> QED BY <2>1, <1>1, <1>3, <1>4, <1>5 DEF IInv, RelaysAreApart, kernel, TypeOK
<1>8. KnownVmIsServed'
  BY <1>1, <1>3, <1>4, <1>5 DEF IInv, KnownVmIsServed, kernel, TypeOK, SetUp
<1>9. RoutesAreOwn'
  <2>1. \A w \in Profiles : route4[w] # 0 => route4[w] \in Utuns \ {i}
    BY <1>1, <1>2 DEF TypeOK, Utuns, IInv, RoutesAreOwn
  <2> QED BY <1>3, <1>4, <2>1 DEF IInv, RoutesAreOwn, kernel
<1>10. DadIsUndisturbed' /\ ProbedMeansHeard'
  BY <1>3, <1>4, <1>5 DEF IInv, DadIsUndisturbed, ProbedMeansHeard, kernel
<1> QED BY <1>6, <1>7, <1>8, <1>9, <1>10 DEF IInv

(* The guest's route may be the only thing that changed hands.             *)
LEMMA SetupStep ==
  ASSUME IInv, NEW i \in Utuns, SetupUtun(i) \/ SetupFails(i)
  PROVE  IInv'
<1>1. TypeOK /\ RelaysAreApart
  BY DEF IInv
<1>2. relay[i].st = "created" /\ relay[i].vm \in Profiles
  BY <1>1 DEF SetupUtun, SetupFails, RelaysAreApart
<1>3. PICK st \in {"booting", "failed"} : Become(i, st)
  BY DEF SetupUtun, SetupFails
<1>4. /\ relay' \in [Utuns -> Relays]
      /\ relay'[i].st = st /\ relay'[i].vm = relay[i].vm
      /\ relay'[i].mac = relay[i].mac /\ relay'[i].slaac = relay[i].slaac
      /\ \A j \in Utuns \ {i} : relay'[j] = relay[j]
  BY <1>1, <1>3, BecomeFacts DEF TypeOK, Stages
<1>5. UNCHANGED <<aliases, route6>> /\ utuns' \in {utuns, utuns \cup {i}}
  BY DEF SetupUtun, SetupFails
<1>6. PICK r \in {0, i, route4[relay[i].vm]} : route4' = [route4 EXCEPT ![relay[i].vm] = r]
  <2>1. route4 = [route4 EXCEPT ![relay[i].vm] = route4[relay[i].vm]]
    BY <1>1, <1>2 DEF TypeOK
  <2> QED BY <2>1 DEF SetupUtun, SetupFails, MoveRoute
<1>7. Subnets(utuns \cup {i}) \subseteq Profiles
  BY <1>1, <1>2, SubnetsAreProfiles DEF TypeOK, RelaysAreApart
<1>8. nat' \subseteq Profiles /\ fwd' \in BOOLEAN
  BY <1>1, <1>7 DEF TypeOK, SetupUtun, SetupFails
<1>9. TypeOK'
  <2>1. r \in 0..MaxUtuns
    BY <1>1, <1>2, NetworkAssumption DEF Utuns, TypeOK
  <2>2. route4' \in [Profiles -> 0..MaxUtuns]
    BY <1>1, <1>2, <1>6, <2>1 DEF TypeOK
  <2>3. utuns' \subseteq Utuns
    BY <1>1, <1>5 DEF TypeOK
  <2> QED BY <1>1, <1>4, <1>5, <1>8, <2>2, <2>3 DEF TypeOK
<1>10. RelaysAreApart'
  BY <1>1, <1>2, <1>4, <1>5 DEF RelaysAreApart, Live, SetUp, TypeOK
<1>11. KnownVmIsServed'
  <2>1. \A j \in utuns' \ {i} : SetUp(j)' =>
           /\ SetUp(j) /\ j \in utuns /\ relay'[j].vm = relay[j].vm
           /\ relay[j].vm # relay[i].vm /\ relay[j].vm \in Profiles
    BY <1>1, <1>2, <1>4, <1>5, <1>9 DEF SetUp, Live, RelaysAreApart, TypeOK
  <2>2. \A j \in utuns' \ {i} : SetUp(j)' => route4'[relay'[j].vm] # 0
    BY <1>1, <1>2, <1>6, <2>1 DEF IInv, KnownVmIsServed, TypeOK
  <2>3. \A j \in utuns' \ {i} : SetUp(j)' => fwd'
    <3>1. fwd' = fwd \/ fwd' = TRUE
      BY DEF SetupUtun, SetupFails
    <3>2. \A j \in utuns' \ {i} : SetUp(j)' => fwd
      BY <2>1 DEF IInv, KnownVmIsServed
    <3> QED BY <3>1, <3>2
  <2>4. \A j \in utuns' \ {i} : SetUp(j)' => relay'[j].vm \in nat'
    BY <2>1 DEF IInv, KnownVmIsServed, SetupUtun, SetupFails, Subnets
  <2>5. CASE SetupUtun(i)
    <3>1. fwd' /\ relay'[i].vm \in nat'
      BY <1>4, <2>5 DEF SetupUtun, Subnets
    <3>2. route4'[relay'[i].vm] # 0
      BY <1>1, <1>2, <1>4, <2>5 DEF SetupUtun, MoveRoute, TypeOK, Utuns
    <3> QED BY <2>2, <2>3, <2>4, <3>1, <3>2 DEF KnownVmIsServed
  <2>6. CASE SetupFails(i)
    <3>1. ~SetUp(i)'
      BY <1>1, <2>6, BecomeFacts DEF SetupFails, SetUp, TypeOK, Stages
    <3> QED BY <2>2, <2>3, <2>4, <3>1 DEF KnownVmIsServed
  <2> QED BY <2>5, <2>6
<1>12. RoutesAreOwn'
  <2>1. \A v \in Profiles : route4[v] # 0 => route4[v] \in Utuns
    BY <1>1 DEF TypeOK, Utuns
  <2>2. \A v \in Profiles : route4'[v] = IF v = relay[i].vm THEN r ELSE route4[v]
    BY <1>1, <1>2, <1>6 DEF TypeOK
  <2>3. \A j \in Utuns : relay'[j].vm = relay[j].vm
                          /\ (relay[j].st # "unused" => relay'[j].st # "unused")
    BY <1>2, <1>3, <1>4
  <2> QED BY <1>2, <2>1, <2>2, <2>3 DEF IInv, RoutesAreOwn
<1>13. DadIsUndisturbed' /\ ProbedMeansHeard'
  BY <1>4, <1>5 DEF IInv, DadIsUndisturbed, ProbedMeansHeard
<1> QED BY <1>9, <1>10, <1>11, <1>12, <1>13 DEF IInv

(* A teardown takes only what is the relay's own.                          *)
LEMMA TeardownStep ==
  ASSUME IInv, NEW i \in Utuns, TeardownUtun(i)
  PROVE  IInv'
<1>1. TypeOK /\ RelaysAreApart
  BY DEF IInv
<1>2. /\ relay' \in [Utuns -> Relays]
      /\ relay'[i].st = "failed" /\ relay'[i].vm = relay[i].vm
      /\ relay'[i].mac = relay[i].mac /\ relay'[i].slaac = relay[i].slaac
      /\ \A j \in Utuns \ {i} : relay'[j] = relay[j]
  BY <1>1, BecomeFacts DEF TypeOK, Stages, TeardownUtun
<1>3. Subnets(utuns \ {i}) \subseteq Profiles
  BY <1>1, SubnetsAreProfiles DEF TypeOK, RelaysAreApart
<1>4. /\ utuns' = utuns \ {i} /\ aliases' = aliases \ {i} /\ route6' \subseteq route6
      /\ \A v \in Profiles : route4[v] # i => route4'[v] = route4[v]
      /\ relay[i].st = "dropping"
  BY DEF TeardownUtun
<1>5. nat' \subseteq Profiles /\ fwd' \in BOOLEAN
  BY <1>1, <1>3 DEF TypeOK, TeardownUtun
<1>6. route4' \in [Profiles -> 0..MaxUtuns]
  BY <1>1, NetworkAssumption DEF TypeOK, TeardownUtun
<1>7. TypeOK'
  BY <1>1, <1>2, <1>4, <1>5, <1>6 DEF TypeOK
<1>8. RelaysAreApart'
  BY <1>1, <1>2, <1>4 DEF RelaysAreApart, Live, SetUp, TypeOK
<1>9. KnownVmIsServed'
  <2> SUFFICES ASSUME NEW j \in utuns', SetUp(j)'
               PROVE  relay'[j].vm \in nat' /\ fwd' /\ route4'[relay'[j].vm] # 0
    BY DEF KnownVmIsServed
  <2>1. j \in utuns /\ j # i /\ j \in Utuns /\ relay'[j] = relay[j]
    BY <1>1, <1>2, <1>4 DEF TypeOK
  <2>2. relay[j].vm \in nat /\ fwd /\ route4[relay[j].vm] # 0
    BY <2>1 DEF IInv, KnownVmIsServed, SetUp
  <2>3. relay'[j].vm \in nat'
    <3>1. j \in utuns \ {i} /\ relay[j].vm \in Subnets(utuns \ {i})
      BY <2>1 DEF Subnets
    <3>2. nat' \in {Subnets(utuns \ {i}), nat}
      BY <3>1 DEF TeardownUtun
    <3> QED BY <2>1, <2>2, <3>1, <3>2
  <2>4. fwd'
    BY <2>1, <2>2 DEF TeardownUtun
  <2>5. route4'[relay'[j].vm] # 0
    <3>1. Live(i) /\ Live(j) /\ relay[j].vm \in Profiles
      BY <1>1, <1>4, <2>1, <2>2 DEF Live, SetUp, TypeOK
    <3>2. route4[relay[j].vm] # i
      BY <1>1, <2>1, <2>2, <3>1 DEF IInv, RoutesAreOwn, RelaysAreApart
    <3> QED BY <1>4, <2>1, <2>2, <3>1, <3>2
  <2> QED BY <2>3, <2>4, <2>5
<1>10. RoutesAreOwn'
  <2>1. \A v \in Profiles : route4'[v] \in {0, route4[v]}
    BY <1>1 DEF TypeOK, TeardownUtun
  <2>2. \A v \in Profiles : route4[v] # 0 => route4[v] \in Utuns
    BY <1>1 DEF TypeOK, Utuns
  <2> QED BY <1>2, <1>4, <2>1, <2>2 DEF IInv, RoutesAreOwn
<1>11. DadIsUndisturbed' /\ ProbedMeansHeard'
  BY <1>2, <1>4 DEF IInv, DadIsUndisturbed, ProbedMeansHeard
<1> QED BY <1>7, <1>8, <1>9, <1>10, <1>11 DEF IInv

(* A frame moves only its own VM along.                                    *)
LEMMA FramesStep ==
  ASSUME IInv, NEW i \in Utuns,
         FrameFromVm(i) \/ DadProbe(i) \/ DadEnds(i) \/ GuaPacket(i)
         \/ \E solicited \in BOOLEAN : RouterAdvertisement(i, solicited)
  PROVE  IInv'
<1>1. TypeOK /\ RelaysAreApart
  BY DEF IInv
<1>2. relay \in [Utuns -> Relays]
  BY <1>1 DEF TypeOK
<1>3. FrameStep(i)
  BY <1>2, FrameFacts
<1>4. UNCHANGED <<utuns, nat, fwd, route4>>
  BY DEF FrameFromVm, DadProbe, DadEnds, GuaPacket, RouterAdvertisement, kernel
<1>5. /\ aliases' \in {aliases, aliases \cup {i}}
      /\ route6' \in {route6, route6 \cup {i}}
  BY DEF FrameFromVm, DadProbe, DadEnds, GuaPacket, RouterAdvertisement, kernel
<1>6. TypeOK'
  BY <1>1, <1>3, <1>4, <1>5 DEF TypeOK, FrameStep
<1>7. \A j \in Utuns : /\ (Live(j)' <=> Live(j)) /\ (SetUp(j)' <=> SetUp(j))
                       /\ relay'[j].vm = relay[j].vm /\ relay'[j].st = relay[j].st
  BY <1>3 DEF FrameStep, Live, SetUp
<1>8. RelaysAreApart'
  BY <1>1, <1>3, <1>4, <1>5, <1>7 DEF RelaysAreApart, TypeOK, FrameStep
<1>9. KnownVmIsServed'
  BY <1>1, <1>4, <1>7 DEF IInv, KnownVmIsServed, TypeOK
<1>10. DadIsUndisturbed' /\ ProbedMeansHeard'
  <2>1. \A j \in Utuns \ {i} : relay'[j] = relay[j] /\ (j \in route6' <=> j \in route6)
    BY <1>3, <1>5 DEF FrameStep
  <2>2. relay[i].mac => relay'[i].mac
    BY <1>3 DEF FrameStep
  <2>3. CASE FrameFromVm(i)
    <3>1. /\ relay'[i].mac /\ relay'[i].slaac = relay[i].slaac /\ route6' = route6
      BY <1>2, <2>3, FrameFacts DEF FrameFromVm, kernel
    <3> QED BY <2>1, <3>1 DEF IInv, DadIsUndisturbed, ProbedMeansHeard
  <2>4. CASE DadProbe(i)
    <3>1. /\ relay'[i].mac /\ relay'[i].slaac = "probing" /\ route6' = route6
          /\ relay[i].slaac = "tentative"
      BY <1>2, <2>4, FrameFacts DEF DadProbe, kernel
    <3> QED BY <2>1, <3>1 DEF IInv, DadIsUndisturbed, ProbedMeansHeard
  <2>5. CASE DadEnds(i)
    <3>1. relay[i].slaac = "probing" /\ i \notin route6 /\ relay[i].mac
      BY <2>5 DEF DadEnds, IInv, DadIsUndisturbed, ProbedMeansHeard
    <3>2. relay'[i].mac = relay[i].mac /\ relay'[i].slaac = "preferred" /\ route6' = route6
      BY <1>2, <2>5, <3>1, FrameFacts DEF DadEnds, kernel
    <3> QED BY <2>1, <3>1, <3>2 DEF IInv, DadIsUndisturbed, ProbedMeansHeard
  <2>6. CASE GuaPacket(i)
    <3>1. relay[i].mac
      BY <2>6 DEF GuaPacket, IInv, ProbedMeansHeard
    <3>2. relay'[i].mac = relay[i].mac /\ relay'[i].slaac = "preferred"
      BY <1>2, <2>6, FrameFacts
    <3> QED BY <2>1, <3>1, <3>2 DEF IInv, DadIsUndisturbed, ProbedMeansHeard
  <2>7. ASSUME NEW solicited \in BOOLEAN, RouterAdvertisement(i, solicited)
        PROVE  DadIsUndisturbed' /\ ProbedMeansHeard'
    <3>1. /\ relay'[i].slaac = "tentative" /\ route6' = route6 /\ relay[i].slaac = "none"
      BY <1>2, <2>7, FrameFacts DEF RouterAdvertisement, kernel
    <3> QED BY <2>1, <3>1 DEF IInv, DadIsUndisturbed, ProbedMeansHeard
  <2> QED BY <2>3, <2>4, <2>5, <2>6, <2>7
<1>11. RoutesAreOwn'
  <2>1. \A v \in Profiles : route4[v] # 0 => route4[v] \in Utuns
    BY <1>1 DEF TypeOK, Utuns
  <2> QED BY <1>4, <1>7, <2>1 DEF IInv, RoutesAreOwn
<1> QED BY <1>6, <1>8, <1>9, <1>10, <1>11 DEF IInv

LEMMA NextStep == IInv /\ [Next]_vars => IInv'
<1> SUFFICES ASSUME IInv, [Next]_vars PROVE IInv'
  OBVIOUS
<1>1. CASE HelperRestart
  BY <1>1 DEF HelperRestart, IInv, TypeOK, RelaysAreApart, RoutesAreOwn, KnownVmIsServed,
              DadIsUndisturbed, ProbedMeansHeard, Live, SetUp, kernel
<1>2. CASE UNCHANGED vars
  BY <1>2 DEF vars, IInv, TypeOK, RelaysAreApart, RoutesAreOwn, KnownVmIsServed,
              DadIsUndisturbed, ProbedMeansHeard, Live, SetUp
<1> QED BY <1>1, <1>2, CreateStep, StageStep, SetupStep, TeardownStep, FramesStep DEF Next

-----------------------------------------------------------------------------
(* The relays, the helper's memory and the kernel's state stay consistent  *)
(* through every start, failure, teardown, crash and helper restart.       *)
THEOREM NetworkInvariant == Spec => []IInv
  BY InitIInv, NextStep, PTL DEF Spec

(* handle_setup_utun, handle_teardown_utun and reload_nat_anchor: whatever *)
(* the other VMs do, a VM the helper knows of keeps its rules, forwarding  *)
(* and a route to an interface of its own profile.                         *)
THEOREM VmsDoNotInterfere == Spec => []KnownVmHasNetwork
<1>1. IInv => KnownVmHasNetwork
  <2> SUFFICES ASSUME IInv, NEW i \in utuns, SetUp(i)
               PROVE  /\ relay[i].vm \in nat /\ fwd
                      /\ \/ route4[relay[i].vm] = i
                         \/ Zombie(route4[relay[i].vm], relay[i].vm)
    BY DEF KnownVmHasNetwork
  <2>1. /\ i \in Utuns /\ Live(i) /\ relay[i].vm \in nat /\ fwd
        /\ route4[relay[i].vm] # 0 /\ relay[i].vm \in Profiles
    BY DEF IInv, TypeOK, KnownVmIsServed, Live
  <2>2. /\ route4[relay[i].vm] \in Utuns
        /\ relay[route4[relay[i].vm]].vm = relay[i].vm
    BY <2>1 DEF IInv, TypeOK, Utuns, RoutesAreOwn
  <2> QED BY <2>1, <2>2 DEF IInv, RelaysAreApart, Zombie
<1> QED BY <1>1, NetworkInvariant, PTL

(* maybe_assign_gua_alias: the host never answers a VM's duplicate address *)
(* detection in the VM's place.                                            *)
THEOREM HostStaysOutOfDad == Spec => []DadIsUndisturbed
<1>1. IInv => DadIsUndisturbed
  BY DEF IInv
<1> QED BY <1>1, NetworkInvariant, PTL

-----------------------------------------------------------------------------
(* SubnetAlloc *)

(* A scan's record is about the vm.conf files as they still are: nobody    *)
(* else is at work.  todo are the profiles whose file has not been read.   *)
OneAtATime ==
    \A b, c \in Commands : cmd[b].pc # "idle" /\ cmd[c].pc # "idle" => b = c

ScanIsExact ==
    \A c \in Commands :
        LET p == cmd[c].profile
        IN  /\ cmd[c].pc = "load" => cmd[c].taken = {}
            /\ cmd[c].pc = "pick" => cmd[c].todo = {}
            /\ cmd[c].pc \in {"scan", "pick"} =>
                  /\ p \in Named /\ conf[p] = 0
                  /\ \A n \in cmd[c].taken :
                        n = DefaultSubnet \/ \E q \in AllProfiles \ {p} : conf[q] = n
                  /\ \A q \in AllProfiles \ {p} :
                        q \in cmd[c].todo \/ conf[q] = 0 \/ conf[q] \in cmd[c].taken

(* The default profile has 105 to itself, and the files differ, but for    *)
(* the one that the script writes.                                         *)
ConfsDiffer ==
    /\ conf["default"] \in {0, DefaultSubnet}
    /\ \A p \in Named : conf[p] # DefaultSubnet
    /\ \A p, q \in AllProfiles \ {BuildProfile} : conf[p] # 0 /\ conf[p] = conf[q] => p = q

AllocInv == AllocTypeOK /\ OneAtATime /\ ScanIsExact /\ ConfsDiffer

CmdType == [pc : {"idle", "load", "scan", "pick", "boot"},
            profile : AllProfiles, todo : SUBSET AllProfiles,
            taken : SUBSET ({DefaultSubnet} \cup Allocatable)]

LEMMA AllocInvInit == AllocInit => AllocInv
  BY DEF AllocInit, AllocInv, AllocTypeOK, OneAtATime, ScanIsExact, ConfsDiffer, Idle,
         AllProfiles, DefaultSubnet

(* The address that Pick gives.                                            *)
LEMMA PickFacts ==
  ASSUME AllocInv, NEW c \in Commands, cmd[c].pc = "pick", Allocatable \ cmd[c].taken # {}
  PROVE  LET n == Min(Allocatable \ cmd[c].taken)
         IN  /\ n \in Allocatable
             /\ \A q \in AllProfiles \ {cmd[c].profile} : conf[q] # n
             /\ \A k \in Allocatable :
                   n =< k \/ \E q \in AllProfiles \ {cmd[c].profile} : conf[q] = k
<1> DEFINE free == Allocatable \ cmd[c].taken
           n == Min(free)
           p == cmd[c].profile
<1>1. free \subseteq Nat
  BY SubnetAssumption DEF Allocatable
<1>2. n \in free /\ \A k \in free : n =< k
  BY <1>1, MinIsLowest
<1> HIDE DEF n
<1>3. n # 0 /\ n # DefaultSubnet
  BY <1>2, SubnetAssumption DEF Allocatable, DefaultSubnet
<1>4. /\ \A k \in cmd[c].taken : k = DefaultSubnet \/ \E q \in AllProfiles \ {p} : conf[q] = k
      /\ \A q \in AllProfiles \ {p} : conf[q] = 0 \/ conf[q] \in cmd[c].taken
  BY DEF AllocInv, ScanIsExact
<1>5. \A q \in AllProfiles \ {p} : conf[q] # n
  BY <1>2, <1>3, <1>4
<1>6. ASSUME NEW k \in Allocatable
      PROVE  n =< k \/ \E q \in AllProfiles \ {p} : conf[q] = k
  <2>1. k # DefaultSubnet
    BY <1>6, SubnetAssumption DEF Allocatable, DefaultSubnet
  <2> QED BY <2>1, <1>2, <1>4
<1> QED BY <1>2, <1>5, <1>6 DEF n

-----------------------------------------------------------------------------
(* One action of a command at a time: what c's record becomes.             *)
LEMMA CmdStep ==
  ASSUME AllocInv, NEW c \in Commands, NEW r \in CmdType, cmd' = [cmd EXCEPT ![c] = r],
         cmd[c].pc # "idle"
  PROVE  /\ cmd' \in [Commands -> CmdType] /\ cmd'[c] = r
         /\ \A b \in Commands \ {c} : cmd'[b] = cmd[b] /\ cmd[b].pc = "idle"
         /\ OneAtATime'
<1>1. cmd \in [Commands -> CmdType]
  BY DEF AllocInv, AllocTypeOK, CmdType
<1>2. cmd' \in [Commands -> CmdType] /\ cmd'[c] = r
      /\ \A b \in Commands \ {c} : cmd'[b] = cmd[b]
  BY <1>1
<1>3. \A b \in Commands \ {c} : cmd[b].pc = "idle"
  BY DEF AllocInv, OneAtATime
<1> QED BY <1>2, <1>3 DEF OneAtATime

LEMMA BeginKeeps ==
  ASSUME ~Overlap, AllocInv, NEW c \in Commands, NEW p \in AllProfiles, Begin(c, p)
  PROVE  AllocInv'
<1> DEFINE r == [Idle EXCEPT !.pc = "load", !.profile = p]
<1>1. r \in CmdType /\ r.pc = "load" /\ r.taken = {}
  BY DEF Idle, CmdType, AllProfiles
<1>2. cmd' = [cmd EXCEPT ![c] = r] /\ UNCHANGED <<conf, running>>
      /\ \A b \in Commands : cmd[b].pc = "idle"
  BY DEF Begin
<1> HIDE DEF r
<1>3. cmd \in [Commands -> CmdType]
  BY DEF AllocInv, AllocTypeOK, CmdType
<1>4. cmd' \in [Commands -> CmdType] /\ cmd'[c] = r
      /\ \A b \in Commands \ {c} : cmd'[b] = cmd[b]
  BY <1>1, <1>2, <1>3
<1>5. AllocTypeOK' /\ OneAtATime' /\ ConfsDiffer'
  BY <1>2, <1>4 DEF AllocInv, AllocTypeOK, CmdType, OneAtATime, ConfsDiffer
<1>6. ScanIsExact'
  BY <1>1, <1>2, <1>4 DEF ScanIsExact
<1> QED BY <1>5, <1>6 DEF AllocInv

LEMMA LoadKeeps ==
  ASSUME AllocInv, NEW c \in Commands, Load(c)
  PROVE  AllocInv'
<1> DEFINE p == cmd[c].profile
<1>0. /\ cmd[c] \in CmdType /\ cmd[c].pc = "load" /\ cmd[c].taken = {}
      /\ p \in AllProfiles /\ conf \in [AllProfiles -> {0, DefaultSubnet} \cup Allocatable]
      /\ UNCHANGED running
  BY DEF Load, AllocInv, AllocTypeOK, CmdType, ScanIsExact
<1>1. CASE /\ conf[p] # 0 \/ p = "default"
           /\ conf' = [conf EXCEPT ![p] = IF @ # 0 THEN @ ELSE DefaultSubnet]
           /\ cmd' = [cmd EXCEPT ![c].pc = "boot"]
  <2> DEFINE r == [cmd[c] EXCEPT !.pc = "boot"]
  <2>1. r \in CmdType /\ r.pc = "boot"
    BY <1>0 DEF CmdType
  <2>2. cmd' = [cmd EXCEPT ![c] = r]
    BY <1>1
  <2> HIDE DEF r
  <2>3. /\ cmd' \in [Commands -> CmdType] /\ cmd'[c] = r /\ OneAtATime'
        /\ \A b \in Commands \ {c} : cmd'[b] = cmd[b] /\ cmd[b].pc = "idle"
    BY <1>0, <2>1, <2>2, CmdStep
  <2>4. /\ conf' \in [AllProfiles -> {0, DefaultSubnet} \cup Allocatable]
        /\ \A q \in AllProfiles : conf'[q] = IF q = "default" /\ p = q THEN DefaultSubnet ELSE conf[q]
    BY <1>0, <1>1 DEF AllocInv, ConfsDiffer
  <2>5. AllocTypeOK'
    BY <1>0, <2>3, <2>4 DEF AllocInv, AllocTypeOK, CmdType
  <2>6. ConfsDiffer'
    <3>1. /\ conf'["default"] \in {0, DefaultSubnet}
          /\ \A q \in Named : conf'[q] = conf[q] /\ conf'[q] # DefaultSubnet
      BY <2>4, SubnetAssumption DEF AllocInv, ConfsDiffer, AllProfiles
    <3>2. ASSUME NEW a \in AllProfiles \ {BuildProfile}, NEW b \in AllProfiles \ {BuildProfile},
                 conf'[a] # 0, conf'[a] = conf'[b]
          PROVE  a = b
      BY <3>1, <3>2 DEF AllocInv, ConfsDiffer, AllProfiles
    <3> QED BY <3>1, <3>2 DEF ConfsDiffer
  <2>7. ScanIsExact'
    BY <2>1, <2>3 DEF ScanIsExact
  <2> QED BY <2>3, <2>5, <2>6, <2>7 DEF AllocInv
<1>2. CASE /\ conf[p] = 0 /\ p # "default"
           /\ cmd' = [cmd EXCEPT ![c].pc = "scan", ![c].todo = AllProfiles \ {p}]
           /\ UNCHANGED conf
  <2> DEFINE r == [cmd[c] EXCEPT !.pc = "scan", !.todo = AllProfiles \ {p}]
  <2>1. /\ r \in CmdType /\ r.pc = "scan" /\ r.todo = AllProfiles \ {p} /\ r.taken = {}
        /\ r.profile = p
    BY <1>0 DEF CmdType
  <2>2. cmd' = [cmd EXCEPT ![c] = r]
    BY <1>2
  <2> HIDE DEF r
  <2>3. /\ cmd' \in [Commands -> CmdType] /\ cmd'[c] = r /\ OneAtATime'
        /\ \A b \in Commands \ {c} : cmd'[b] = cmd[b] /\ cmd[b].pc = "idle"
    BY <1>0, <2>1, <2>2, CmdStep
  <2>4. AllocTypeOK' /\ ConfsDiffer'
    BY <1>0, <1>2, <2>3 DEF AllocInv, AllocTypeOK, CmdType, ConfsDiffer
  <2>5. ScanIsExact'
    BY <1>0, <1>2, <2>1, <2>3 DEF ScanIsExact, AllProfiles
  <2> QED BY <2>3, <2>4, <2>5 DEF AllocInv
<1> QED BY <1>0, <1>1, <1>2 DEF Load
-----------------------------------------------------------------------------
LEMMA ScanKeeps ==
  ASSUME AllocInv, NEW c \in Commands, NEW q \in AllProfiles, Scan(c, q)
  PROVE  AllocInv'
<1> DEFINE p == cmd[c].profile
           seen == IF conf[q] # 0 THEN {conf[q]}
                   ELSE IF q = "default" THEN {DefaultSubnet} ELSE {}
           r == [cmd[c] EXCEPT !.todo = cmd[c].todo \ {q}, !.taken = cmd[c].taken \cup seen,
                               !.pc = IF cmd[c].todo = {q} THEN "pick" ELSE "scan"]
<1>1. /\ cmd[c] \in CmdType /\ cmd[c].pc = "scan" /\ q \in cmd[c].todo
      /\ conf \in [AllProfiles -> {0, DefaultSubnet} \cup Allocatable]
      /\ UNCHANGED <<conf, running>> /\ p \in AllProfiles
  BY DEF Scan, AllocInv, AllocTypeOK, CmdType
<1>2. seen \subseteq {DefaultSubnet} \cup Allocatable
  BY <1>1
<1>3. /\ r \in CmdType /\ r.profile = p /\ r.todo = cmd[c].todo \ {q}
      /\ r.taken = cmd[c].taken \cup seen
      /\ r.pc = IF cmd[c].todo = {q} THEN "pick" ELSE "scan"
  <2> HIDE DEF seen
  <2> QED BY <1>1, <1>2 DEF CmdType
<1>4. cmd' = [cmd EXCEPT ![c] = r]
  BY DEF Scan
<1> HIDE DEF r
<1>5. /\ cmd' \in [Commands -> CmdType] /\ cmd'[c] = r /\ OneAtATime'
      /\ \A b \in Commands \ {c} : cmd'[b] = cmd[b] /\ cmd[b].pc = "idle"
  BY <1>1, <1>3, <1>4, CmdStep
<1>6. AllocTypeOK' /\ ConfsDiffer'
  BY <1>1, <1>5 DEF AllocInv, AllocTypeOK, CmdType, ConfsDiffer
<1>7. /\ p \in Named /\ conf[p] = 0
      /\ \A n \in cmd[c].taken : n = DefaultSubnet \/ \E x \in AllProfiles \ {p} : conf[x] = n
      /\ \A x \in AllProfiles \ {p} : x \in cmd[c].todo \/ conf[x] = 0 \/ conf[x] \in cmd[c].taken
  BY <1>1 DEF AllocInv, ScanIsExact
<1>8. /\ \A n \in r.taken : n = DefaultSubnet \/ \E x \in AllProfiles \ {p} : conf[x] = n
      /\ \A x \in AllProfiles \ {p} : x \in r.todo \/ conf[x] = 0 \/ conf[x] \in r.taken
  BY <1>1, <1>3, <1>7
<1>9. ScanIsExact'
  <2>1. r.pc = "pick" => r.todo = {}
    BY <1>3
  <2> HIDE DEF p
  <2>2. r.pc \in {"pick", "scan"} /\ r.profile = p
    BY <1>3
  <2> QED BY <1>1, <1>5, <1>7, <1>8, <2>1, <2>2 DEF ScanIsExact
<1> QED BY <1>5, <1>6, <1>9 DEF AllocInv

LEMMA PickKeeps ==
  ASSUME AllocInv, NEW c \in Commands, Pick(c)
  PROVE  AllocInv'
<1> DEFINE p == cmd[c].profile
           free == Allocatable \ cmd[c].taken
<1>1. /\ cmd[c] \in CmdType /\ cmd[c].pc = "pick" /\ p \in Named
      /\ conf \in [AllProfiles -> {0, DefaultSubnet} \cup Allocatable] /\ UNCHANGED running
  BY DEF Pick, AllocInv, AllocTypeOK, CmdType, ScanIsExact
<1>2. PICK r \in {[cmd[c] EXCEPT !.pc = "boot"], Idle} : cmd' = [cmd EXCEPT ![c] = r]
  BY DEF Pick
<1>3. r \in CmdType /\ r.pc \in {"boot", "idle"}
  BY <1>1, <1>2 DEF CmdType, Idle, AllProfiles
<1>4. /\ cmd' \in [Commands -> CmdType] /\ cmd'[c] = r /\ OneAtATime'
      /\ \A b \in Commands \ {c} : cmd'[b] = cmd[b] /\ cmd[b].pc = "idle"
  BY <1>1, <1>2, <1>3, CmdStep
<1>5. ScanIsExact'
  BY <1>3, <1>4 DEF ScanIsExact
<1>6. CASE free # {} /\ conf' = [conf EXCEPT ![p] = Min(free)]
  <2>1. Min(free) \in Allocatable /\ \A q \in AllProfiles \ {p} : conf[q] # Min(free)
    BY <1>1, <1>6, PickFacts
  <2>2. /\ conf' \in [AllProfiles -> {0, DefaultSubnet} \cup Allocatable]
        /\ conf'[p] \in Allocatable /\ \A q \in AllProfiles \ {p} : conf'[q] = conf[q] /\ conf[q] # conf'[p]
    BY <1>1, <1>6, <2>1 DEF AllProfiles
  <2>3. \A n \in Allocatable : n # DefaultSubnet /\ n # 0
    BY SubnetAssumption DEF Allocatable, DefaultSubnet
  <2>4. AllocTypeOK'
    BY <1>1, <1>4, <2>2 DEF AllocInv, AllocTypeOK, CmdType
  <2>5. ConfsDiffer'
    BY <1>1, <2>2, <2>3, SubnetAssumption DEF AllocInv, ConfsDiffer, AllProfiles
  <2> QED BY <1>4, <1>5, <2>4, <2>5 DEF AllocInv
<1>7. CASE UNCHANGED conf
  BY <1>1, <1>4, <1>5, <1>7 DEF AllocInv, AllocTypeOK, CmdType, ConfsDiffer
<1> QED BY <1>6, <1>7 DEF Pick

LEMMA BootKeeps ==
  ASSUME AllocInv, NEW c \in Commands, Boot(c)
  PROVE  AllocInv'
<1>1. /\ cmd[c].pc = "boot" /\ cmd' = [cmd EXCEPT ![c] = Idle] /\ UNCHANGED conf
      /\ cmd[c].profile \in AllProfiles
  BY DEF Boot, AllocInv, AllocTypeOK
<1>2. Idle \in CmdType /\ Idle.pc = "idle"
  BY DEF Idle, CmdType, AllProfiles
<1>3. /\ cmd' \in [Commands -> CmdType] /\ cmd'[c] = Idle /\ OneAtATime'
      /\ \A b \in Commands \ {c} : cmd'[b] = cmd[b] /\ cmd[b].pc = "idle"
  BY <1>1, <1>2, CmdStep
<1>4. running' \in [AllProfiles -> {0, DefaultSubnet} \cup Allocatable]
  BY <1>1 DEF Boot, AllocInv, AllocTypeOK
<1>5. AllocTypeOK' /\ ConfsDiffer'
  BY <1>1, <1>3, <1>4 DEF AllocInv, AllocTypeOK, CmdType, ConfsDiffer
<1>6. ScanIsExact'
  BY <1>2, <1>3 DEF ScanIsExact
<1> QED BY <1>3, <1>5, <1>6 DEF AllocInv

(* Files that are rewritten while no command is at work.                   *)
LEMMA RewriteKeeps ==
  ASSUME AllocInv, NEW p \in AllProfiles, VmInit(p) \/ VmInitTimesOut(p) \/ BuildImage
  PROVE  AllocInv'
<1>1. Quiet /\ UNCHANGED cmd
  BY DEF VmInit, VmInitTimesOut, BuildImage
<1>2. running' \in [AllProfiles -> {0, DefaultSubnet} \cup Allocatable]
  BY DEF VmInit, VmInitTimesOut, BuildImage, AllocInv, AllocTypeOK
<1>3. OneAtATime' /\ ScanIsExact'
  BY <1>1 DEF AllocInv, OneAtATime, ScanIsExact, Quiet
<1>4. CASE conf' = [conf EXCEPT ![p] = 0]
  <2>1. AllocTypeOK'
    BY <1>1, <1>2, <1>4 DEF AllocInv, AllocTypeOK
  <2>2. ConfsDiffer'
    BY <1>4, SubnetAssumption DEF AllocInv, AllocTypeOK, ConfsDiffer, AllProfiles, DefaultSubnet
  <2> QED BY <1>3, <2>1, <2>2 DEF AllocInv
<1>5. CASE conf' = [conf EXCEPT ![BuildProfile] = 106]
  <2>1. 106 \in Allocatable /\ BuildProfile \in AllProfiles /\ BuildProfile # "default"
    BY SubnetAssumption DEF Allocatable, AllProfiles
  <2>2. AllocTypeOK'
    BY <1>1, <1>2, <1>5, <2>1 DEF AllocInv, AllocTypeOK
  <2>3. ConfsDiffer'
    BY <1>5, <2>1 DEF AllocInv, AllocTypeOK, ConfsDiffer, AllProfiles, DefaultSubnet
  <2> QED BY <1>3, <2>2, <2>3 DEF AllocInv
<1> QED BY <1>4, <1>5 DEF VmInit, VmInitTimesOut, BuildImage

LEMMA StopKeeps ==
  ASSUME AllocInv, NEW p \in AllProfiles, Stop(p)
  PROVE  AllocInv'
  BY DEF Stop, AllocInv, AllocTypeOK, OneAtATime, ScanIsExact, ConfsDiffer

LEMMA AllocInvNext ==
  ASSUME ~Overlap
  PROVE  AllocInv /\ [AllocNext]_allocVars => AllocInv'
<1> SUFFICES ASSUME AllocInv, [AllocNext]_allocVars PROVE AllocInv'
  OBVIOUS
<1>1. ASSUME NEW c \in Commands, NEW p \in AllProfiles, Begin(c, p) \/ Scan(c, p) PROVE AllocInv'
  BY <1>1, BeginKeeps, ScanKeeps
<1>2. ASSUME NEW c \in Commands, Load(c) \/ Pick(c) \/ Boot(c) PROVE AllocInv'
  BY <1>2, LoadKeeps, PickKeeps, BootKeeps
<1>3. ASSUME NEW p \in AllProfiles, Stop(p) \/ VmInit(p) \/ VmInitTimesOut(p) PROVE AllocInv'
  BY <1>3, StopKeeps, RewriteKeeps
<1>4. CASE BuildImage
  BY <1>4, RewriteKeeps DEF AllProfiles
<1>5. CASE UNCHANGED allocVars
  BY <1>5 DEF allocVars, AllocInv, AllocTypeOK, OneAtATime, ScanIsExact, ConfsDiffer
<1> QED BY <1>1, <1>2, <1>3, <1>4, <1>5 DEF AllocNext

-----------------------------------------------------------------------------
(* ensure_vm_ip writes the lowest subnet that no other profile's vm.conf   *)
(* has at that moment, and none when all are taken, if commands do not     *)
(* overlap.                                                                *)
THEOREM AllocationsAreFree ==
  ASSUME ~Overlap
  PROVE  AllocSpec => AllocationIsFree
<1> DEFINE Given(p) ==
             conf[p] = 0 /\ conf'[p] # 0 /\ ~Quiet
             => LET used == {conf[q] : q \in AllProfiles \ {p}} \cup {DefaultSubnet}
                    free == Allocatable \ used
                IN  conf'[p] \in free /\ \A n \in free : conf'[p] =< n
<1>1. AllocInv /\ [AllocNext]_allocVars => [\A p \in Named : Given(p)]_allocVars
  <2> SUFFICES ASSUME AllocInv, AllocNext, NEW p \in Named, conf[p] = 0, conf'[p] # 0, ~Quiet
               PROVE  Given(p)
    OBVIOUS
  <2>1. PICK c \in Commands : Load(c) \/ Pick(c)
    BY DEF AllocNext, Begin, Scan, Boot, Stop, VmInit, VmInitTimesOut, BuildImage
  <2>2. conf \in [AllProfiles -> {0, DefaultSubnet} \cup Allocatable] /\ p \in AllProfiles
        /\ p # "default" /\ cmd[c].profile \in AllProfiles
    BY SubnetAssumption DEF AllocInv, AllocTypeOK, AllProfiles
  <2>3. cmd[c].pc = "pick" /\ cmd[c].profile = p
        /\ Allocatable \ cmd[c].taken # {} /\ conf'[p] = Min(Allocatable \ cmd[c].taken)
    BY <2>1, <2>2 DEF Load, Pick
  <2> DEFINE n == Min(Allocatable \ cmd[c].taken)
  <2>4. /\ n \in Allocatable /\ \A q \in AllProfiles \ {p} : conf[q] # n
        /\ \A k \in Allocatable : n =< k \/ \E q \in AllProfiles \ {p} : conf[q] = k
    BY <2>3, PickFacts
  <2> HIDE DEF n
  <2>5. n # DefaultSubnet
    BY <2>4, SubnetAssumption DEF Allocatable, DefaultSubnet
  <2> QED BY <2>3, <2>4, <2>5 DEF n
<1> QED BY <1>1, AllocInvInit, AllocInvNext, PTL DEF AllocSpec, AllocationIsFree

(* No two VMs that run where their vm.conf says share a subnet, whatever   *)
(* is stopped, rewritten or outlives a rewrite, if commands do not overlap *)
(* (VmProfileConfig.vm_ip); but for the profile that the script writes.    *)
THEOREM SubnetsAreDistinct ==
  ASSUME ~Overlap
  PROVE  AllocSpec => []DistinctSubnets
<1>1. AllocInv => DistinctSubnets
  BY DEF AllocInv, ConfsDiffer, DistinctSubnets, AsConfigured
<1> QED BY <1>1, AllocInvInit, AllocInvNext, PTL DEF AllocSpec

-----------------------------------------------------------------------------
(* ComposePorts *)

(* The types: what every command keeps about itself.                       *)
LEMMA TypeInit == ComposeInit => ComposeTypeOK
<1> SUFFICES ASSUME ComposeInit PROVE ComposeTypeOK
  OBVIOUS
<1>1. ASSUME NEW k \in Subcommands, NEW p \in Projects, NEW w \in Flags
      PROVE  [pc |-> "idle", kind |-> k, project |-> p, want |-> w,
              todo |-> {h \in HostPorts : w[h] # None}, mine |-> {}, left |-> {}]
             \in CliType
  BY ComposeAssumption DEF CliType
<1>2. Book!TypeOK /\ stack \subseteq Projects
  BY DEF ComposeInit, Book!Init, Book!TypeOK
<1> QED BY <1>1, <1>2 DEF ComposeInit, ComposeTypeOK

(* The two ways in which a command goes on.                                *)
LEMMA GotoFacts ==
  ASSUME ComposeTypeOK, NEW c \in Clis,
         NEW pc \in {"idle"} \cup Running \cup Ended, Goto(c, pc)
  PROVE  /\ cli' \in [Clis -> CliType]
         /\ cli'[c].pc = pc /\ cli'[c].project = cli[c].project
         /\ cli'[c].mine = cli[c].mine /\ cli'[c].want = cli[c].want
         /\ cli'[c].left = cli[c].left
         /\ \A b \in Clis \ {c} : cli'[b] = cli[b]
<1> DEFINE r == [cli[c] EXCEPT !.pc = pc]
<1>1. /\ r \in CliType /\ r.pc = pc /\ r.project = cli[c].project /\ r.mine = cli[c].mine
      /\ r.want = cli[c].want /\ r.left = cli[c].left
  BY DEF ComposeTypeOK, CliType
<1>2. cli' = [cli EXCEPT ![c] = r]
  BY DEF Goto
<1> HIDE DEF r
<1> QED BY <1>1, <1>2 DEF ComposeTypeOK

LEMMA LeavingFacts ==
  ASSUME ComposeTypeOK, NEW c \in Clis,
         NEW pc \in {"idle"} \cup Running \cup Ended, GotoLeaving(c, pc)
  PROVE  /\ cli' \in [Clis -> CliType]
         /\ cli'[c].pc = pc /\ cli'[c].project = cli[c].project
         /\ cli'[c].mine = {} /\ cli'[c].want = cli[c].want
         /\ cli'[c].left = cli[c].left \cup cli[c].mine
         /\ \A b \in Clis \ {c} : cli'[b] = cli[b]
<1> DEFINE r == [cli[c] EXCEPT !.pc = pc, !.todo = {}, !.mine = {},
                               !.left = cli[c].left \cup cli[c].mine]
<1>1. /\ r \in CliType /\ r.pc = pc /\ r.project = cli[c].project /\ r.mine = {}
      /\ r.want = cli[c].want /\ r.left = cli[c].left \cup cli[c].mine
  BY DEF ComposeTypeOK, CliType
<1>2. cli' = [cli EXCEPT ![c] = r]
  BY DEF GotoLeaving
<1> HIDE DEF r
<1> QED BY <1>1, <1>2 DEF ComposeTypeOK

(* A port more, or one less.                                               *)
LEMMA RegisteredFacts ==
  ASSUME ComposeTypeOK, NEW c \in Clis, NEW h \in HostPorts,
         cli' = [cli EXCEPT ![c].todo = @ \ {h}, ![c].mine = @ \cup {h}]
  PROVE  /\ cli' \in [Clis -> CliType]
         /\ cli'[c].pc = cli[c].pc /\ cli'[c].project = cli[c].project
         /\ cli'[c].want = cli[c].want /\ cli'[c].mine = cli[c].mine \cup {h}
         /\ cli'[c].left = cli[c].left
         /\ \A b \in Clis \ {c} : cli'[b] = cli[b]
<1> DEFINE r == [cli[c] EXCEPT !.todo = cli[c].todo \ {h}, !.mine = cli[c].mine \cup {h}]
<1>1. /\ r \in CliType /\ r.pc = cli[c].pc /\ r.project = cli[c].project
      /\ r.mine = cli[c].mine \cup {h} /\ r.want = cli[c].want /\ r.left = cli[c].left
  BY DEF ComposeTypeOK, CliType
<1>2. cli' = [cli EXCEPT ![c] = r]
  OBVIOUS
<1> HIDE DEF r
<1> QED BY <1>1, <1>2 DEF ComposeTypeOK

LEMMA ReturnedFacts ==
  ASSUME ComposeTypeOK, NEW c \in Clis, NEW h \in HostPorts,
         NEW gone \in {{}, {h}},
         \/ gone = {} /\ cli' = [cli EXCEPT ![c].mine = @ \ {h}]
         \/ gone = {h} /\ cli' = [cli EXCEPT ![c].mine = @ \ {h}, ![c].left = @ \cup {h}]
  PROVE  /\ cli' \in [Clis -> CliType]
         /\ cli'[c].pc = cli[c].pc /\ cli'[c].project = cli[c].project
         /\ cli'[c].want = cli[c].want /\ cli'[c].mine = cli[c].mine \ {h}
         /\ cli'[c].left = cli[c].left \cup gone
         /\ \A b \in Clis \ {c} : cli'[b] = cli[b]
<1> DEFINE r == [cli[c] EXCEPT !.mine = cli[c].mine \ {h}, !.left = cli[c].left \cup gone]
<1>1. /\ r \in CliType /\ r.pc = cli[c].pc /\ r.project = cli[c].project
      /\ r.mine = cli[c].mine \ {h} /\ r.want = cli[c].want /\ r.left = cli[c].left \cup gone
  BY DEF ComposeTypeOK, CliType
<1>2. cli' = [cli EXCEPT ![c] = r]
  <2>1. CASE gone = {} /\ cli' = [cli EXCEPT ![c].mine = @ \ {h}]
    <3>1. r = [cli[c] EXCEPT !.mine = cli[c].mine \ {h}]
      BY <2>1 DEF ComposeTypeOK, CliType
    <3> QED BY <2>1, <3>1
  <2>2. CASE gone = {h} /\ cli' = [cli EXCEPT ![c].mine = @ \ {h}, ![c].left = @ \cup {h}]
    BY <2>2
  <2> QED BY <2>1, <2>2
<1> HIDE DEF r
<1> QED BY <1>1, <1>2 DEF ComposeTypeOK

-----------------------------------------------------------------------------
(* A project has one command in progress at a time; what that command has  *)
(* registered is tracked from Track on; and what is tracked was tracked by *)
(* a command of the project that has come past Track or been cut short.    *)
OneCommandEach ==
    \A b, c \in Clis :
        InProgress(b) /\ InProgress(c) /\ cli[b].project = cli[c].project => b = c

Tracking(c) == cli[c].pc \in {"send", "guest", "forget"}

MineIsTracked ==
    \A c \in Clis : Tracking(c) => cli[c].mine \subseteq projects[cli[c].project]

TrackedHasOwner ==
    \A p \in Projects : \A h \in projects[p] :
        \E c \in Clis : /\ (Tracking(c) /\ h \in cli[c].mine) \/ h \in cli[c].left
                        /\ cli[c].project = p

ActiveHasOwner ==
    \A h \in HostPorts : active[h] # None =>
        \E c \in Clis : Owes(c, h) /\ cli[c].want[h] = active[h]

ComposeInv ==
    ComposeTypeOK /\ OneCommandEach /\ MineIsTracked /\ TrackedHasOwner /\ ActiveHasOwner

LEMMA InvInit == ComposeInit => ComposeInv
<1> SUFFICES ASSUME ComposeInit PROVE ComposeInv
  OBVIOUS
<1>1. /\ ComposeTypeOK /\ \A c \in Clis : cli[c].pc = "idle"
      /\ \A h \in HostPorts : active[h] = None /\ \A p \in Projects : projects[p] = {}
  BY TypeInit DEF ComposeInit, Book!Init
<1>2. \A p \in Projects : projects[p] = {}
  BY DEF ComposeInit, Book!Init
<1> QED BY <1>1, <1>2 DEF ComposeInv, OneCommandEach, MineIsTracked, TrackedHasOwner,
                         ActiveHasOwner, InProgress, Running, Tracking

(* Commands that go on without touching the table, with or without what    *)
(* they have registered.                                                   *)
LEMMA MoveOn ==
  ASSUME ComposeInv, NEW c \in Clis, UNCHANGED <<active, projects>>,
         stack' \subseteq Projects,
         \/ cli[c].pc = "register" /\ Goto(c, "rollback")
         \/ cli[c].pc = "send" /\ Goto(c, "guest")
         \/ cli[c].pc = "guest" /\ Goto(c, "forget")
         \/ InProgress(c) /\ \E pc \in {"send", "exited", "killed", "done"} : GotoLeaving(c, pc)
  PROVE  ComposeInv'
<1>0. ComposeTypeOK
  BY DEF ComposeInv
<1>1. /\ cli' \in [Clis -> CliType]
      /\ cli'[c].project = cli[c].project /\ cli'[c].want = cli[c].want
      /\ InProgress(c)
      /\ \/ /\ cli'[c].mine = cli[c].mine /\ cli'[c].left = cli[c].left
            /\ InProgress(c)' /\ (Tracking(c)' <=> Tracking(c))
         \/ cli'[c].mine = {} /\ cli'[c].left = cli[c].left \cup cli[c].mine
      /\ \A b \in Clis \ {c} : cli'[b] = cli[b]
  BY <1>0, GotoFacts, LeavingFacts DEF InProgress, Tracking, Running, Ended
<1>2. \A b \in Clis \ {c} : (InProgress(b)' <=> InProgress(b)) /\ (Tracking(b)' <=> Tracking(b))
  BY <1>1 DEF InProgress, Tracking
<1>3. ComposeTypeOK'
  BY <1>0, <1>1 DEF ComposeTypeOK, Book!TypeOK
<1>4. OneCommandEach'
  BY <1>1, <1>2 DEF ComposeInv, OneCommandEach
<1>5. MineIsTracked'
  BY <1>1, <1>2 DEF ComposeInv, MineIsTracked
<1>6. TrackedHasOwner'
  BY <1>1, <1>2 DEF ComposeInv, TrackedHasOwner
<1>7. ActiveHasOwner'
  BY <1>1, <1>2 DEF ComposeInv, ActiveHasOwner, Owes
<1> QED BY <1>3, <1>4, <1>5, <1>6, <1>7 DEF ComposeInv

LEMMA CommandBeginsKeeps ==
  ASSUME OwnProjects, ComposeInv, NEW c \in Clis, CommandBegins(c)
  PROVE  ComposeInv'
<1>0. ComposeTypeOK
  BY DEF ComposeInv
<1>1. /\ ~InProgress(c) /\ ~Tracking(c) /\ UNCHANGED <<active, projects, stack>>
      /\ \A b \in Clis : InProgress(b) => cli[b].project # cli[c].project
      /\ Goto(c, "register")
  BY DEF CommandBegins, InProgress, Tracking, Running
<1>2. /\ cli' \in [Clis -> CliType] /\ ~Tracking(c)'
      /\ cli'[c].project = cli[c].project /\ cli'[c].want = cli[c].want
      /\ cli'[c].mine = cli[c].mine /\ cli'[c].left = cli[c].left
      /\ \A b \in Clis \ {c} : cli'[b] = cli[b]
  BY <1>0, <1>1, GotoFacts DEF Tracking, Running
<1>3. \A b \in Clis \ {c} : (InProgress(b)' <=> InProgress(b)) /\ (Tracking(b)' <=> Tracking(b))
  BY <1>2 DEF InProgress, Tracking
<1>4. ComposeTypeOK'
  BY <1>0, <1>1, <1>2 DEF ComposeTypeOK, Book!TypeOK
<1>5. OneCommandEach'
  BY <1>1, <1>2, <1>3 DEF ComposeInv, OneCommandEach
<1>6. MineIsTracked'
  BY <1>1, <1>2, <1>3 DEF ComposeInv, MineIsTracked
<1>7. TrackedHasOwner'
  BY <1>1, <1>2, <1>3 DEF ComposeInv, TrackedHasOwner
<1>8. ActiveHasOwner'
  BY <1>1, <1>2, <1>3 DEF ComposeInv, ActiveHasOwner, Owes
<1> QED BY <1>4, <1>5, <1>6, <1>7, <1>8 DEF ComposeInv

(* A port that is registered, or was already, becomes the command's own.   *)
LEMMA RegisterKeeps ==
  ASSUME ComposeInv, NEW c \in Clis, NEW h \in HostPorts, Register(c, h)
  PROVE  ComposeInv'
<1>0. ComposeTypeOK /\ cli[c].pc = "register" /\ UNCHANGED stack
  BY DEF ComposeInv, Register
<1>1. CASE (Book!RegisterConflict(h, cli[c].want[h]) \/ NotReached) /\ Goto(c, "rollback")
  BY <1>0, <1>1, MoveOn DEF ComposeInv, ComposeTypeOK, NotReached, Book!RegisterConflict, Book!vars
<1>2. CASE /\ Book!Register(h, cli[c].want[h]) \/ Book!RegisterSame(h, cli[c].want[h])
           /\ cli' = [cli EXCEPT ![c].todo = @ \ {h}, ![c].mine = @ \cup {h}]
  <2>1. /\ cli' \in [Clis -> CliType]
        /\ cli'[c].pc = "register" /\ cli'[c].project = cli[c].project
        /\ cli'[c].want = cli[c].want /\ cli'[c].mine = cli[c].mine \cup {h}
        /\ cli'[c].left = cli[c].left
        /\ \A b \in Clis \ {c} : cli'[b] = cli[b]
    BY <1>0, <1>2, RegisteredFacts
  <2>2. /\ \A b \in Clis : (InProgress(b)' <=> InProgress(b)) /\ (Tracking(b)' <=> Tracking(b))
        /\ InProgress(c)' /\ ~Tracking(c)
    BY <1>0, <2>1 DEF InProgress, Tracking, Running
  <2>3. /\ projects' = projects /\ active'[h] = cli[c].want[h]
        /\ \A k \in HostPorts \ {h} : active'[k] = active[k]
        /\ active' \in [HostPorts -> ContainerPorts \cup {None}]
    <3>1. cli[c].want[h] \in ContainerPorts \cup {None}
      BY <1>0 DEF ComposeTypeOK, CliType, Flags
    <3>2. active \in [HostPorts -> ContainerPorts \cup {None}]
      BY <1>0 DEF ComposeTypeOK, Book!TypeOK
    <3>3. CASE Book!Register(h, cli[c].want[h])
      BY <3>1, <3>2, <3>3 DEF Book!Register
    <3>4. CASE Book!RegisterSame(h, cli[c].want[h])
      BY <3>2, <3>4 DEF Book!RegisterSame, Book!vars
    <3> QED BY <1>2, <3>3, <3>4
  <2>4. ComposeTypeOK'
    BY <1>0, <2>1, <2>3 DEF ComposeTypeOK, Book!TypeOK
  <2>5. OneCommandEach'
    BY <2>1, <2>2 DEF ComposeInv, OneCommandEach
  <2>6. MineIsTracked' /\ TrackedHasOwner'
    BY <2>1, <2>2, <2>3 DEF ComposeInv, MineIsTracked, TrackedHasOwner
  <2>7. ActiveHasOwner'
    BY <2>1, <2>2, <2>3 DEF ComposeInv, ActiveHasOwner, Owes
  <2> QED BY <2>4, <2>5, <2>6, <2>7 DEF ComposeInv
<1> QED BY <1>1, <1>2 DEF Register

(* The port goes with the command's claim to it, or stays with both.       *)
LEMMA RollbackKeeps ==
  ASSUME ComposeInv, NEW c \in Clis, Rollback(c)
  PROVE  ComposeInv'
<1>0. /\ ComposeTypeOK /\ cli[c].pc = "rollback" /\ UNCHANGED stack
      /\ InProgress(c) /\ ~Tracking(c)
  BY DEF Rollback, ComposeInv, Tracking, InProgress, Running
<1>1. CASE cli[c].mine = {} /\ Goto(c, "refused") /\ UNCHANGED <<active, projects>>
  <2>1. /\ cli' \in [Clis -> CliType] /\ cli'[c].left = cli[c].left /\ cli'[c].mine = {}
        /\ ~InProgress(c)' /\ ~Tracking(c)'
        /\ cli'[c].project = cli[c].project /\ cli'[c].want = cli[c].want
        /\ \A b \in Clis \ {c} : cli'[b] = cli[b]
    BY <1>0, <1>1, GotoFacts DEF InProgress, Tracking, Running, Ended
  <2>2. \A b \in Clis \ {c} : (InProgress(b)' <=> InProgress(b)) /\ (Tracking(b)' <=> Tracking(b))
    BY <2>1 DEF InProgress, Tracking
  <2>3. ComposeTypeOK'
    BY <1>0, <1>1, <2>1 DEF ComposeTypeOK, Book!TypeOK
  <2>4. OneCommandEach' /\ MineIsTracked' /\ TrackedHasOwner'
    BY <1>0, <1>1, <2>1, <2>2 DEF ComposeInv, OneCommandEach, MineIsTracked, TrackedHasOwner
  <2>5. ActiveHasOwner'
    BY <1>1, <2>1, <2>2 DEF ComposeInv, ActiveHasOwner, Owes
  <2> QED BY <2>3, <2>4, <2>5 DEF ComposeInv
<1>2. ASSUME NEW h \in cli[c].mine, NEW gone \in {{}, {h}},
             \/ /\ gone = {} /\ Book!Unregister(h)
                /\ cli' = [cli EXCEPT ![c].mine = @ \ {h}]
             \/ /\ gone = {h} /\ NotReached
                /\ cli' = [cli EXCEPT ![c].mine = @ \ {h}, ![c].left = @ \cup {h}]
      PROVE  ComposeInv'
  <2>0. h \in HostPorts
    BY <1>0 DEF ComposeTypeOK, CliType
  <2>1. /\ cli' \in [Clis -> CliType]
        /\ cli'[c].pc = cli[c].pc /\ cli'[c].project = cli[c].project
        /\ cli'[c].want = cli[c].want /\ cli'[c].mine = cli[c].mine \ {h}
        /\ cli'[c].left = cli[c].left \cup gone
        /\ \A b \in Clis \ {c} : cli'[b] = cli[b]
    BY <1>0, <1>2, <2>0, ReturnedFacts
  <2>2. \A b \in Clis : (InProgress(b)' <=> InProgress(b)) /\ (Tracking(b)' <=> Tracking(b))
    BY <2>1 DEF InProgress, Tracking
  <2>3. /\ projects' = projects
        /\ \A k \in HostPorts : active'[k] = IF k = h /\ gone = {} THEN None ELSE active[k]
        /\ active' \in [HostPorts -> ContainerPorts \cup {None}]
    BY <1>0, <1>2 DEF ComposeTypeOK, Book!TypeOK, Book!Unregister, Book!Without, NotReached
  <2>4. ComposeTypeOK'
    BY <1>0, <2>1, <2>3 DEF ComposeTypeOK, Book!TypeOK
  <2>5. OneCommandEach' /\ MineIsTracked' /\ TrackedHasOwner'
    BY <1>0, <2>1, <2>2, <2>3 DEF ComposeInv, OneCommandEach, MineIsTracked, TrackedHasOwner
  <2>6. ActiveHasOwner'
    BY <1>0, <1>2, <2>1, <2>2, <2>3 DEF ComposeInv, ActiveHasOwner, Owes
  <2> QED BY <2>4, <2>5, <2>6 DEF ComposeInv
<1> QED BY <1>1, <1>2 DEF Rollback

LEMMA TrackKeeps ==
  ASSUME ComposeInv, NEW c \in Clis, Track(c)
  PROVE  ComposeInv'
<1>1. /\ ComposeTypeOK /\ cli[c].pc = "register" /\ InProgress(c) /\ ~Tracking(c)
      /\ UNCHANGED stack
  BY DEF Track, ComposeInv, InProgress, Tracking, Running
<1>2. CASE NotReached /\ GotoLeaving(c, "send")
  BY <1>1, <1>2, MoveOn DEF ComposeInv, ComposeTypeOK, NotReached
<1>3. CASE /\ IF cli[c].mine # {}
              THEN Book!TrackProject(cli[c].project, cli[c].mine)
              ELSE UNCHANGED <<active, projects>>
           /\ Goto(c, "send")
  <2>1. /\ cli' \in [Clis -> CliType] /\ InProgress(c)' /\ Tracking(c)'
        /\ cli'[c].project = cli[c].project
        /\ cli'[c].mine = cli[c].mine /\ cli'[c].want = cli[c].want
        /\ cli'[c].left = cli[c].left
        /\ \A b \in Clis \ {c} : cli'[b] = cli[b]
    BY <1>1, <1>3, GotoFacts DEF InProgress, Tracking, Running
  <2>2. \A b \in Clis \ {c} : (InProgress(b)' <=> InProgress(b)) /\ (Tracking(b)' <=> Tracking(b))
    BY <2>1 DEF InProgress, Tracking
  <2>3. /\ active' = active /\ cli[c].project \in Projects /\ cli[c].mine \subseteq HostPorts
        /\ projects'[cli[c].project] = IF cli[c].mine = {} THEN projects[cli[c].project]
                                                            ELSE cli[c].mine
        /\ \A p \in Projects \ {cli[c].project} : projects'[p] = projects[p]
        /\ projects' \in [Projects -> SUBSET HostPorts]
    BY <1>1, <1>3 DEF ComposeTypeOK, CliType, Book!TypeOK, Book!TrackProject
  <2>4. ComposeTypeOK'
    BY <1>1, <2>1, <2>3 DEF ComposeTypeOK, Book!TypeOK
  <2>5. OneCommandEach'
    BY <1>1, <2>1, <2>2 DEF ComposeInv, OneCommandEach
  <2>6. \A b \in Clis \ {c} : Tracking(b) => cli[b].project # cli[c].project
    BY <1>1 DEF ComposeInv, OneCommandEach, Tracking, InProgress, Running
  <2>7. MineIsTracked'
    <3>1. \A b \in Clis : cli[b].project \in Projects
      BY <1>1 DEF ComposeTypeOK, CliType
    <3> QED BY <2>1, <2>2, <2>3, <2>6, <3>1 DEF ComposeInv, MineIsTracked
  <2>8. TrackedHasOwner'
    BY <1>1, <2>1, <2>2, <2>3 DEF ComposeInv, TrackedHasOwner
  <2>9. ActiveHasOwner'
    BY <1>1, <2>1, <2>2, <2>3 DEF ComposeInv, ActiveHasOwner, Owes
  <2> QED BY <2>4, <2>5, <2>7, <2>8, <2>9 DEF ComposeInv
<1> QED BY <1>2, <1>3 DEF Track

(* What the command has registered is tracked, so all of it is released.   *)
LEMMA ForgetKeeps ==
  ASSUME ComposeInv, NEW c \in Clis, Forget(c)
  PROVE  ComposeInv'
<1>1. /\ ComposeTypeOK /\ cli[c].pc = "forget" /\ InProgress(c) /\ UNCHANGED stack
      /\ cli[c].mine \subseteq projects[cli[c].project]
  BY DEF Forget, ComposeInv, MineIsTracked, InProgress, Tracking, Running
<1>2. CASE NotReached /\ GotoLeaving(c, "done")
  BY <1>1, <1>2, MoveOn DEF ComposeInv, ComposeTypeOK, NotReached
<1>3. CASE Book!ReleaseProject(cli[c].project) /\ Goto(c, "done")
  <2>1. /\ cli' \in [Clis -> CliType] /\ ~InProgress(c)' /\ ~Tracking(c)'
        /\ cli'[c].project = cli[c].project /\ cli'[c].want = cli[c].want
        /\ cli'[c].left = cli[c].left
        /\ \A b \in Clis \ {c} : cli'[b] = cli[b]
    BY <1>1, <1>3, GotoFacts DEF InProgress, Tracking, Running, Ended
  <2>2. \A b \in Clis \ {c} : (InProgress(b)' <=> InProgress(b)) /\ (Tracking(b)' <=> Tracking(b))
    BY <2>1 DEF InProgress, Tracking
  <2>3. /\ \A h \in HostPorts :
              active'[h] = IF h \in projects[cli[c].project] THEN None ELSE active[h]
        /\ projects'[cli[c].project] = {} /\ cli[c].project \in Projects
        /\ \A p \in Projects \ {cli[c].project} : projects'[p] = projects[p]
        /\ active' \in [HostPorts -> ContainerPorts \cup {None}]
        /\ projects' \in [Projects -> SUBSET HostPorts]
    BY <1>1, <1>3 DEF ComposeTypeOK, CliType, Book!TypeOK, Book!ReleaseProject, Book!Without
  <2>4. ComposeTypeOK'
    BY <1>1, <2>1, <2>3 DEF ComposeTypeOK, Book!TypeOK
  <2>5. OneCommandEach'
    BY <2>1, <2>2 DEF ComposeInv, OneCommandEach
  <2>6. \A b \in Clis \ {c} : Tracking(b) => cli[b].project # cli[c].project
    BY <1>1 DEF ComposeInv, OneCommandEach, Tracking, InProgress, Running
  <2>7. MineIsTracked'
    <3>1. \A b \in Clis : cli[b].project \in Projects
      BY <1>1 DEF ComposeTypeOK, CliType
    <3> QED BY <2>1, <2>2, <2>3, <2>6, <3>1 DEF ComposeInv, MineIsTracked
  <2>8. TrackedHasOwner'
    BY <2>1, <2>2, <2>3 DEF ComposeInv, TrackedHasOwner
  <2>9. ActiveHasOwner'
    BY <1>1, <2>1, <2>2, <2>3 DEF ComposeInv, ActiveHasOwner, Owes
  <2> QED BY <2>4, <2>5, <2>7, <2>8, <2>9 DEF ComposeInv
<1> QED BY <1>2, <1>3 DEF Forget

LEMMA InvNext ==
  ASSUME OwnProjects
  PROVE  ComposeInv /\ [ComposeNext]_composeVars => ComposeInv'
<1> SUFFICES ASSUME ComposeInv, [ComposeNext]_composeVars PROVE ComposeInv'
  OBVIOUS
<1>1. ASSUME NEW c \in Clis, CommandBegins(c) PROVE ComposeInv'
  BY <1>1, CommandBeginsKeeps
<1>2. ASSUME NEW c \in Clis, Rollback(c) PROVE ComposeInv'
  BY <1>2, RollbackKeeps
<1>3. ASSUME NEW c \in Clis, Track(c) PROVE ComposeInv'
  BY <1>3, TrackKeeps
<1>4. ASSUME NEW c \in Clis, Guest(c) PROVE ComposeInv'
  <2>1. /\ cli[c].pc = "send" /\ Goto(c, "guest") /\ UNCHANGED <<active, projects>>
        /\ stack' \subseteq Projects
    BY <1>4 DEF Guest, ComposeInv, ComposeTypeOK, CliType
  <2> QED BY <2>1, MoveOn
<1>5. ASSUME NEW c \in Clis, StreamEnds(c) PROVE ComposeInv'
  BY <1>5, MoveOn DEF ComposeInv, ComposeTypeOK, StreamEnds
<1>6. ASSUME NEW c \in Clis, Forget(c) PROVE ComposeInv'
  BY <1>6, ForgetKeeps
<1>7. ASSUME NEW c \in Clis, NEW h \in HostPorts, Register(c, h) PROVE ComposeInv'
  BY <1>7, RegisterKeeps
<1>8. ASSUME NEW c \in Clis, ConnectExits(c) \/ Killed(c) PROVE ComposeInv'
  BY <1>8, MoveOn DEF ComposeInv, ComposeTypeOK, ConnectExits, Killed, InProgress, Running
<1>9. CASE UNCHANGED <<active, projects, cli>> /\ stack' \subseteq Projects
  BY <1>9 DEF ComposeInv, ComposeTypeOK, Book!TypeOK, OneCommandEach, MineIsTracked,
              TrackedHasOwner, ActiveHasOwner, Owes, InProgress, Tracking
<1>10. ComposeTypeOK
  BY DEF ComposeInv
<1> QED BY <1>1, <1>2, <1>3, <1>4, <1>5, <1>6, <1>7, <1>8, <1>9, <1>10
        DEF ComposeNext, StackEnds, composeVars, ComposeTypeOK

-----------------------------------------------------------------------------
(* Every registered or tracked port belongs to a command that is still to  *)
(* release it or that was cut short, whatever the commands of other        *)
(* projects ask for and however they end (Commands::Compose), as long as   *)
(* each project has one command at a time.                                 *)
THEOREM PortsHaveOwners ==
  ASSUME OwnProjects
  PROVE  ComposeSpec => []ActivePortHasOwner
<1>1. ComposeInv => ActivePortHasOwner
  BY DEF ComposeInv, ActiveHasOwner, TrackedHasOwner, ActivePortHasOwner, Owes, Tracking,
         InProgress, Running
<1> QED BY <1>1, InvInit, InvNext, PTL DEF ComposeSpec

(* The types alone, also when several commands work on one project.        *)
LEMMA TypeNext == ComposeTypeOK /\ [ComposeNext]_composeVars => ComposeTypeOK'
<1> SUFFICES ASSUME ComposeTypeOK, [ComposeNext]_composeVars PROVE ComposeTypeOK'
  OBVIOUS
<1> USE DEF ComposeTypeOK, Book!TypeOK
<1>1. ASSUME NEW c \in Clis, CommandBegins(c) \/ StreamEnds(c) PROVE ComposeTypeOK'
  BY <1>1, GotoFacts DEF CommandBegins, StreamEnds, Running
<1>2. ASSUME NEW c \in Clis, Rollback(c) PROVE ComposeTypeOK'
  <2>1. CASE Goto(c, "refused") /\ UNCHANGED <<active, projects>>
    BY <1>2, <2>1, GotoFacts DEF Rollback, Ended
  <2>2. ASSUME NEW h \in cli[c].mine, Book!Unregister(h),
               cli' = [cli EXCEPT ![c].mine = @ \ {h}]
        PROVE  ComposeTypeOK'
    <3>1. h \in HostPorts
      BY DEF CliType
    <3>2. cli' \in [Clis -> CliType]
      BY <2>2, <3>1, ReturnedFacts
    <3> QED BY <1>2, <2>2, <3>2 DEF Rollback, Book!Unregister, Book!Without
  <2>3. ASSUME NEW h \in cli[c].mine, NotReached,
               cli' = [cli EXCEPT ![c].mine = @ \ {h}, ![c].left = @ \cup {h}]
        PROVE  ComposeTypeOK'
    <3>1. h \in HostPorts
      BY DEF CliType
    <3>2. cli' \in [Clis -> CliType]
      BY <2>3, <3>1, ReturnedFacts
    <3> QED BY <1>2, <2>3, <3>2 DEF Rollback, NotReached
  <2> QED BY <1>2, <2>1, <2>2, <2>3 DEF Rollback
<1>3. ASSUME NEW c \in Clis, Track(c) PROVE ComposeTypeOK'
  <2>1. cli' \in [Clis -> CliType]
    BY <1>3, GotoFacts, LeavingFacts DEF Track, Running
  <2>2. Book!TypeOK'
    BY <1>3 DEF Track, Book!TrackProject, NotReached, CliType
  <2> QED BY <1>3, <2>1, <2>2 DEF Track
<1>4. ASSUME NEW c \in Clis, Guest(c) PROVE ComposeTypeOK'
  <2>1. cli' \in [Clis -> CliType]
    BY <1>4, GotoFacts DEF Guest, Running
  <2> QED BY <1>4, <2>1 DEF Guest, CliType
<1>5. ASSUME NEW c \in Clis, ConnectExits(c) \/ Killed(c) PROVE ComposeTypeOK'
  BY <1>5, LeavingFacts DEF ConnectExits, Killed, Ended
<1>6. ASSUME NEW c \in Clis, Forget(c) PROVE ComposeTypeOK'
  <2>1. cli' \in [Clis -> CliType]
    BY <1>6, GotoFacts, LeavingFacts DEF Forget, Ended
  <2>2. Book!TypeOK'
    BY <1>6 DEF Forget, Book!ReleaseProject, Book!Without, NotReached
  <2> QED BY <1>6, <2>1, <2>2 DEF Forget
<1>7. ASSUME NEW c \in Clis, NEW h \in HostPorts, Register(c, h) PROVE ComposeTypeOK'
  <2>1. cli[c].want[h] \in ContainerPorts \cup {None}
    BY DEF Flags, CliType
  <2>2. Book!TypeOK'
    BY <1>7, <2>1 DEF Register, NotReached, Book!Register, Book!RegisterSame,
                      Book!RegisterConflict, Book!vars
  <2>3. cli' \in [Clis -> CliType]
    BY <1>7, GotoFacts, RegisteredFacts DEF Register, Running
  <2> QED BY <1>7, <2>2, <2>3 DEF Register
<1>8. ASSUME NEW p \in Projects, StackEnds(p) PROVE ComposeTypeOK'
  BY <1>8 DEF StackEnds
<1>9. CASE UNCHANGED composeVars
  BY <1>9 DEF composeVars
<1> QED BY <1>1, <1>2, <1>3, <1>4, <1>5, <1>6, <1>7, <1>8, <1>9 DEF ComposeNext

(* Compose asks of the daemon's table only what PortBook describes, also   *)
(* when several commands work on one project.                              *)
THEOREM ComposeImplementsBook == ComposeSpec => Book!Spec
<1>1. ComposeInit => Book!Init
  BY DEF ComposeInit
<1>2. ComposeTypeOK /\ [ComposeNext]_composeVars => [Book!Next]_(Book!vars)
  <2> SUFFICES ASSUME ComposeTypeOK, [ComposeNext]_composeVars PROVE [Book!Next]_(Book!vars)
    OBVIOUS
  <2>1. ASSUME NEW c \in Clis, Rollback(c) PROVE [Book!Next]_(Book!vars)
    BY <2>1 DEF Rollback, NotReached, Book!Next, Book!vars, ComposeTypeOK, CliType
  <2>2. ASSUME NEW c \in Clis, Track(c) PROVE [Book!Next]_(Book!vars)
    BY <2>2 DEF Track, NotReached, Book!Next, Book!vars, ComposeTypeOK, CliType
  <2>3. ASSUME NEW c \in Clis, Forget(c) PROVE [Book!Next]_(Book!vars)
    BY <2>3 DEF Forget, NotReached, Book!Next, Book!vars, ComposeTypeOK, CliType
  <2>4. ASSUME NEW c \in Clis, NEW h \in HostPorts, Register(c, h)
        PROVE  [Book!Next]_(Book!vars)
    <3>1. CASE cli[c].want[h] \in ContainerPorts
      BY <2>4, <3>1 DEF Register, NotReached, Book!Next, Book!vars
    <3>2. CASE cli[c].want[h] = None
      BY <2>4, <3>2 DEF Register, NotReached, Book!Register, Book!RegisterSame, Book!RegisterConflict,
                        Book!vars, ComposeTypeOK, Book!TypeOK
    <3> QED BY <3>1, <3>2 DEF ComposeTypeOK, CliType, Flags
  <2>5. CASE UNCHANGED <<active, projects>>
    BY <2>5 DEF Book!vars
  <2> QED BY <2>1, <2>2, <2>3, <2>4, <2>5
          DEF ComposeNext, CommandBegins, Guest, StreamEnds, StackEnds, ConnectExits, Killed,
              composeVars
<1> QED BY <1>1, <1>2, TypeInit, TypeNext, PTL DEF ComposeSpec, Book!Spec
=============================================================================
