--------------------------- MODULE PortTableProofs --------------------------
(* Proofs about PortTable, for any ports, projects and bounds.             *)
EXTENDS PortTable, TLAPS

(* What dropping the handle of a port does to each thread: only the flag   *)
(* of the thread in the table and the queue of the listener change.        *)
LEMMA DropProxyFacts ==
    ASSUME TypeOK, NEW h \in HostPorts
    PROVE  /\ DropProxy(h) \in [ProxyIds -> ThreadType]
           /\ \A t \in ProxyIds :
                 /\ DropProxy(h)[t].st = thread[t].st
                 /\ DropProxy(h)[t].port = thread[t].port
                 /\ DropProxy(h)[t].target = thread[t].target
                 /\ DropProxy(h)[t].shutdown = (thread[t].shutdown \/ proxies[h] = t)
                 /\ proxies[h] = 0 => DropProxy(h)[t] = thread[t]
                 /\ ~IsListening(t) /\ proxies[h] # t => DropProxy(h)[t] = thread[t]
<1> DEFINE D(t) == [thread[t] EXCEPT
            !.shutdown = @ \/ proxies[h] = t,
            !.queue = IF proxies[h] # 0 /\ t \in Listener(h) THEN Append(@, "wake") ELSE @]
<1>1. ASSUME NEW t \in ProxyIds
      PROVE  /\ D(t) \in ThreadType
             /\ D(t).st = thread[t].st
             /\ D(t).port = thread[t].port
             /\ D(t).target = thread[t].target
             /\ D(t).shutdown = (thread[t].shutdown \/ proxies[h] = t)
             /\ proxies[h] = 0 => D(t) = thread[t]
             /\ ~IsListening(t) /\ proxies[h] # t => D(t) = thread[t]
  <2>1. thread[t] \in ThreadType  BY DEF TypeOK
  <2>2. thread[t].queue \in Seq({"wake", "client"})  BY <2>1 DEF ThreadType
  <2>3. Append(thread[t].queue, "wake") \in Seq({"wake", "client"})  BY <2>2
  <2>4. proxies[h] = 0 => proxies[h] # t  BY DEF ProxyIds, TypeOK
  <2>5. ~IsListening(t) => t \notin Listener(h)  BY DEF Listener
  <2>. QED  BY <2>1, <2>2, <2>3, <2>4, <2>5 DEF ThreadType
<1>2. DropProxy(h) = [t \in ProxyIds |-> D(t)]  BY DEF DropProxy
<1>. HIDE DEF D
<1>. QED  BY <1>1, <1>2

(* The daemon starts with one unbound thread per forward of `vm start -p`. *)
LEMMA InitEstablishesIInv == Init => IInv
<1> SUFFICES ASSUME Init PROVE IInv  OBVIOUS
<1> USE NoneAssumption, BoundsAssumption
<1>1. TypeOK
  <2>1. Unborn \in ThreadType  BY DEF ThreadType, ThreadStates, Unborn
  <2>2. \A h \in HostPorts, c \in ContainerPorts : Start(h, c) \in ThreadType
    BY DEF ThreadType, ThreadStates, Start
  <2>3. thread \in [ProxyIds -> ThreadType]  BY <2>1, <2>2 DEF Init
  <2>. QED  BY <2>3 DEF Init, TypeOK, PendingType
<1>2. PendingIsFresh  BY DEF Init, PendingIsFresh, Unlocked, Idle
<1>3. TableIsSound
  <2> SUFFICES ASSUME NEW h \in HostPorts
               PROVE  /\ active[h] # None => proxies[h] # 0
                      /\ proxies[h] # 0 => thread[proxies[h]] = Start(h, active[h])
    <3>1. \A h \in HostPorts : /\ Start(h, active[h]).st # "unborn"
                               /\ Start(h, active[h]).port = h
                               /\ Start(h, active[h]).target = active[h]
      BY DEF Start
    <3>. QED  BY <3>1 DEF TableIsSound
  <2>1. proxies[h] # 0 => proxies[h] \in ProxyIds  BY DEF Init, ProxyIds
  <2>. QED  BY <2>1 DEF Init
<1>4. ThreadsAreOwned  BY DEF Init, ThreadsAreOwned, Owned, Unborn, Start
<1>. QED  BY <1>1, <1>2, <1>3, <1>4 DEF IInv

(* Taking ports out of the table leaves every other entry as it was.       *)
LEMMA WithoutFacts ==
    ASSUME TypeOK, NEW S
    PROVE  /\ Without(active, S) \in [HostPorts -> ContainerPorts \cup {None}]
           /\ \A h \in HostPorts : Without(active, S)[h] \in {active[h], None}
BY DEF TypeOK, Without

(* Commands that only take entries out of `active` keep the invariant.     *)
LEMMA ReleaseKeepsIInv ==
    ASSUME IInv, Unlocked, NEW S, active' = Without(active, S),
           projects' \in [Projects -> SUBSET HostPorts],
           UNCHANGED <<proxies, pending, thread>>
    PROVE  IInv'
<1>1. /\ active' \in [HostPorts -> ContainerPorts \cup {None}]
      /\ \A h \in HostPorts : active'[h] \in {active[h], None}
  BY WithoutFacts DEF IInv
<1>2. TypeOK'  BY <1>1 DEF IInv, TypeOK
<1>3. PendingIsFresh'  BY DEF PendingIsFresh, Unlocked
<1>4. TableIsSound'  BY <1>1 DEF IInv, TableIsSound
<1>5. ThreadsAreOwned'  BY DEF IInv, ThreadsAreOwned, Owned
<1>. QED  BY <1>2, <1>3, <1>4, <1>5 DEF IInv

(* A thread's own steps change its state and queue, never what it serves.  *)
LEMMA ThreadStepKeepsIInv ==
    ASSUME IInv, NEW t \in ProxyIds, thread[t].st # "unborn",
           NEW r \in ThreadType, thread' = [thread EXCEPT ![t] = r],
           r.st # "unborn", r.port = thread[t].port, r.target = thread[t].target,
           r.shutdown = thread[t].shutdown,
           UNCHANGED <<active, projects, proxies, pending>>
    PROVE  IInv'
<1>1. thread' \in [ProxyIds -> ThreadType]  BY DEF IInv, TypeOK
<1>2. \A u \in ProxyIds :
         /\ thread'[u].st = "unborn" <=> thread[u].st = "unborn"
         /\ thread'[u].port = thread[u].port
         /\ thread'[u].target = thread[u].target
         /\ thread'[u].shutdown = thread[u].shutdown
         /\ thread[u].st = "unborn" => thread'[u] = thread[u]
  BY DEF IInv, TypeOK
<1>3. TypeOK'  BY <1>1 DEF IInv, TypeOK
<1>4. PendingIsFresh'
  <2>1. ~Unlocked => pending.id \in ProxyIds
    BY DEF IInv, TypeOK, PendingType, Idle, Unlocked
  <2>. QED  BY <2>1, <1>2 DEF IInv, PendingIsFresh, Unlocked
<1>5. TableIsSound'
  <2>1. \A h \in HostPorts : proxies[h] # 0 => proxies[h] \in ProxyIds
    BY BoundsAssumption DEF IInv, TypeOK, ProxyIds
  <2>. QED  BY <2>1, <1>2 DEF IInv, TableIsSound
<1>6. ThreadsAreOwned'  BY <1>2 DEF IInv, ThreadsAreOwned, Owned
<1>. QED  BY <1>3, <1>4, <1>5, <1>6 DEF IInv

(* Every step keeps the invariant.                                         *)
LEMMA StepKeepsIInv == IInv /\ [Next]_vars => IInv'
<1> SUFFICES ASSUME IInv, [Next]_vars PROVE IInv'  OBVIOUS
<1> USE NoneAssumption, BoundsAssumption DEF IInv
<1>1. ASSUME NEW h \in HostPorts, NEW c \in ContainerPorts, RegisterSpawn(h, c)
      PROVE  IInv'
  <2>1. PICK t \in ProxyIds :
           /\ thread[t] = Unborn
           /\ thread' = [thread EXCEPT ![t] = Start(h, c)]
           /\ pending' = [port |-> h, target |-> c, id |-> t]
    BY <1>1 DEF RegisterSpawn
  <2>2. Unlocked /\ active[h] = None /\ UNCHANGED <<active, projects, proxies>>
    BY <1>1 DEF RegisterSpawn
  <2>3. \A k \in HostPorts : proxies[k] # t
    BY <2>1 DEF TableIsSound, Unborn, ProxyIds, TypeOK
  <2>4. TypeOK'
    <3>1. Start(h, c) \in ThreadType  BY DEF Start, ThreadType, ThreadStates
    <3>. QED  BY <2>1, <2>2, <3>1 DEF TypeOK, PendingType
  <2>5. PendingIsFresh'  BY <2>1, <2>2, <2>3 DEF PendingIsFresh, TypeOK, Unlocked, Start
  <2>6. TableIsSound'
    BY <2>1, <2>2, <2>3 DEF TableIsSound, TypeOK, ProxyIds
  <2>7. ThreadsAreOwned'
    <3> SUFFICES ASSUME NEW u \in ProxyIds
                 PROVE  /\ thread'[u].st = "unborn" => thread'[u] = Unborn
                        /\ thread'[u].st # "unborn" => thread'[u].port \in HostPorts
                        /\ thread'[u].st # "unborn" /\ ~thread'[u].shutdown => Owned(u)'
      BY DEF ThreadsAreOwned
    <3>1. CASE u = t
      <4>1. thread'[u] = Start(h, c) /\ pending'.id = u  BY <3>1, <2>1 DEF TypeOK
      <4>. QED  BY <4>1 DEF Start, Owned
    <3>2. CASE u # t
      <4>1. thread'[u] = thread[u]  BY <3>2, <2>1 DEF TypeOK
      <4>2. pending.id # u  BY <2>2 DEF Unlocked, TypeOK, PendingType, Idle, ProxyIds
      <4>. QED  BY <4>1, <4>2, <2>1, <2>2 DEF ThreadsAreOwned, Owned
    <3>. QED  BY <3>1, <3>2
  <2>. QED  BY <2>4, <2>5, <2>6, <2>7
<1>2. ASSUME RegisterInsert PROVE IInv'
  <2> DEFINE h == pending.port
             n == pending.id
  <2>1. h \in HostPorts /\ n \in ProxyIds /\ pending.target \in ContainerPorts
    BY <1>2 DEF RegisterInsert, Unlocked, TypeOK, PendingType, Idle
  <2>2. /\ active[h] = None
        /\ thread[n].st # "unborn" /\ thread[n].port = h /\ thread[n].target = pending.target
        /\ \A k \in HostPorts : proxies[k] # n
    BY <1>2 DEF RegisterInsert, PendingIsFresh
  <2>3. /\ thread' = DropProxy(h)
        /\ proxies' = [proxies EXCEPT ![h] = n]
        /\ active' = [active EXCEPT ![h] = pending.target]
        /\ pending' = Idle
        /\ UNCHANGED projects
    BY <1>2 DEF RegisterInsert
  <2>4. thread' \in [ProxyIds -> ThreadType]  BY <2>1, <2>3, DropProxyFacts
  <2>5. \A t \in ProxyIds :
           /\ thread'[t].st = thread[t].st
           /\ thread'[t].port = thread[t].port
           /\ thread'[t].target = thread[t].target
           /\ thread'[t].shutdown = (thread[t].shutdown \/ proxies[h] = t)
           /\ ~IsListening(t) /\ proxies[h] # t => thread'[t] = thread[t]
    BY <2>1, <2>3, DropProxyFacts
  <2> HIDE DEF h, n
  <2>6. TypeOK'
    <3>1. n \in 0..MaxProxies  BY <2>1 DEF ProxyIds
    <3>. QED  BY <2>1, <2>3, <2>4, <3>1 DEF TypeOK, PendingType, h
  <2>7. PendingIsFresh'  BY <2>3 DEF PendingIsFresh, Unlocked, Idle
  <2>8. TableIsSound'
    <3> SUFFICES ASSUME NEW k \in HostPorts
                 PROVE  /\ active'[k] # None => proxies'[k] # 0
                        /\ proxies'[k] # 0 =>
                              /\ thread'[proxies'[k]].st # "unborn"
                              /\ thread'[proxies'[k]].port = k
                              /\ active'[k] # None => thread'[proxies'[k]].target = active'[k]
      BY DEF TableIsSound
    <3>1. CASE k = h
      <4>1. proxies'[k] = n /\ active'[k] = pending.target  BY <3>1, <2>1, <2>3 DEF TypeOK
      <4>. QED  BY <3>1, <4>1, <2>1, <2>2, <2>5 DEF ProxyIds
    <3>2. CASE k # h
      <4>1. proxies'[k] = proxies[k] /\ active'[k] = active[k]  BY <3>2, <2>1, <2>3 DEF TypeOK
      <4>2. proxies[k] # 0 => proxies[k] \in ProxyIds  BY DEF TypeOK, ProxyIds
      <4>. QED  BY <4>1, <4>2, <2>5 DEF TableIsSound
    <3>. QED  BY <3>1, <3>2
  <2>9. ThreadsAreOwned'
    <3> SUFFICES ASSUME NEW u \in ProxyIds
                 PROVE  /\ thread'[u].st = "unborn" => thread'[u] = Unborn
                        /\ thread'[u].st # "unborn" => thread'[u].port \in HostPorts
                        /\ thread'[u].st # "unborn" /\ ~thread'[u].shutdown => Owned(u)'
      BY DEF ThreadsAreOwned
    <3>1. thread'[u].st = "unborn" => thread'[u] = Unborn
      <4>1. thread[u].st = "unborn" => proxies[h] # u
        BY <2>1 DEF TableIsSound, ProxyIds
      <4>. QED  BY <4>1, <2>5 DEF ThreadsAreOwned, IsListening
    <3>2. thread'[u].st # "unborn" => thread'[u].port \in HostPorts
      BY <2>5 DEF ThreadsAreOwned
    <3>3. ASSUME thread'[u].st # "unborn", ~thread'[u].shutdown PROVE Owned(u)'
      <4>1. Owned(u) /\ proxies[h] # u /\ thread'[u].port = thread[u].port
        BY <3>3, <2>5 DEF ThreadsAreOwned
      <4>2. CASE u = n  BY <4>1, <4>2, <2>1, <2>2, <2>3 DEF Owned, TypeOK
      <4>3. CASE u # n
        <5>1. proxies[thread[u].port] = u  BY <4>1, <4>3 DEF Owned, n
        <5>2. thread[u].port # h  BY <5>1, <4>1
        <5>3. thread[u].port \in HostPorts  BY <3>2, <3>3, <4>1
        <5>. QED  BY <4>1, <5>1, <5>2, <5>3, <2>1, <2>3 DEF Owned, TypeOK
      <4>. QED  BY <4>2, <4>3
    <3>. QED  BY <3>1, <3>2, <3>3
  <2>. QED  BY <2>6, <2>7, <2>8, <2>9
<1>3. ASSUME NEW h \in HostPorts, UnregisterPort(h) PROVE IInv'
  <2>1. /\ Unlocked
        /\ active' = [active EXCEPT ![h] = None]
        /\ thread' = DropProxy(h)
        /\ proxies' = [proxies EXCEPT ![h] = 0]
        /\ UNCHANGED <<projects, pending>>
    BY <1>3 DEF UnregisterPort
  <2>2. thread' \in [ProxyIds -> ThreadType]  BY <2>1, DropProxyFacts
  <2>3. \A t \in ProxyIds :
           /\ thread'[t].st = thread[t].st
           /\ thread'[t].port = thread[t].port
           /\ thread'[t].target = thread[t].target
           /\ thread'[t].shutdown = (thread[t].shutdown \/ proxies[h] = t)
           /\ ~IsListening(t) /\ proxies[h] # t => thread'[t] = thread[t]
    BY <2>1, DropProxyFacts
  <2>4. TypeOK'  BY <2>1, <2>2 DEF TypeOK
  <2>5. PendingIsFresh'  BY <2>1 DEF PendingIsFresh, Unlocked
  <2>6. TableIsSound'
    <3> SUFFICES ASSUME NEW k \in HostPorts
                 PROVE  /\ active'[k] # None => proxies'[k] # 0
                        /\ proxies'[k] # 0 =>
                              /\ thread'[proxies'[k]].st # "unborn"
                              /\ thread'[proxies'[k]].port = k
                              /\ active'[k] # None => thread'[proxies'[k]].target = active'[k]
      BY DEF TableIsSound
    <3>1. CASE k = h  BY <3>1, <2>1 DEF TypeOK
    <3>2. CASE k # h
      <4>1. proxies'[k] = proxies[k] /\ active'[k] = active[k]  BY <3>2, <2>1 DEF TypeOK
      <4>2. proxies[k] # 0 => proxies[k] \in ProxyIds  BY DEF TypeOK, ProxyIds
      <4>. QED  BY <4>1, <4>2, <2>3 DEF TableIsSound
    <3>. QED  BY <3>1, <3>2
  <2>7. ThreadsAreOwned'
    <3> SUFFICES ASSUME NEW u \in ProxyIds
                 PROVE  /\ thread'[u].st = "unborn" => thread'[u] = Unborn
                        /\ thread'[u].st # "unborn" => thread'[u].port \in HostPorts
                        /\ thread'[u].st # "unborn" /\ ~thread'[u].shutdown => Owned(u)'
      BY DEF ThreadsAreOwned
    <3>1. thread'[u].st = "unborn" => thread'[u] = Unborn
      <4>1. thread[u].st = "unborn" => proxies[h] # u  BY DEF TableIsSound, ProxyIds
      <4>. QED  BY <4>1, <2>3 DEF ThreadsAreOwned, IsListening
    <3>2. thread'[u].st # "unborn" => thread'[u].port \in HostPorts
      BY <2>3 DEF ThreadsAreOwned
    <3>3. ASSUME thread'[u].st # "unborn", ~thread'[u].shutdown PROVE Owned(u)'
      <4>1. Owned(u) /\ proxies[h] # u /\ thread'[u].port = thread[u].port
        BY <3>3, <2>3 DEF ThreadsAreOwned
      <4>2. pending.id # u  BY <2>1 DEF Unlocked, TypeOK, PendingType, Idle, ProxyIds
      <4>3. proxies[thread[u].port] = u /\ thread[u].port # h  BY <4>1, <4>2 DEF Owned
      <4>4. thread[u].port \in HostPorts  BY <3>2, <3>3, <4>1
      <4>. QED  BY <4>1, <4>3, <4>4, <2>1 DEF Owned, TypeOK
    <3>. QED  BY <3>1, <3>2, <3>3
  <2>. QED  BY <2>4, <2>5, <2>6, <2>7
<1>4. ASSUME NEW p \in Projects, NEW ports \in SUBSET HostPorts, TrackComposeProject(p, ports)
      PROVE  IInv'
  BY <1>4 DEF TrackComposeProject, TypeOK, PendingIsFresh, TableIsSound, ThreadsAreOwned,
              Owned, Unlocked
<1>5. ASSUME NEW p \in Projects, UnregisterComposePorts(p) PROVE IInv'
  BY <1>5, ReleaseKeepsIInv DEF UnregisterComposePorts, TypeOK
<1>6. ASSUME NEW ports \in SUBSET HostPorts, ContainerExited(ports) PROVE IInv'
  BY <1>6, ReleaseKeepsIInv DEF ContainerExited, TypeOK
<1>7. ASSUME NEW t \in ProxyIds, ProxyBind(t) PROVE IInv'
  <2> DEFINE r == [thread[t] EXCEPT
                     !.st = IF Listener(thread[t].port) = {} THEN "listening" ELSE "failed"]
  <2>1. thread[t] \in ThreadType  BY DEF TypeOK
  <2>2. /\ r \in ThreadType /\ r.st # "unborn" /\ r.port = thread[t].port
        /\ r.target = thread[t].target /\ r.shutdown = thread[t].shutdown
    BY <2>1 DEF ThreadType, ThreadStates
  <2>3. thread' = [thread EXCEPT ![t] = r]  BY <1>7 DEF ProxyBind, TypeOK
  <2>4. thread[t].st # "unborn" /\ UNCHANGED <<active, projects, proxies, pending>>
    BY <1>7 DEF ProxyBind
  <2> HIDE DEF r
  <2>. QED  BY <2>2, <2>3, <2>4, ThreadStepKeepsIInv
<1>8. ASSUME NEW t \in ProxyIds, ProxyAccept(t) PROVE IInv'
  <2> DEFINE r == IF thread[t].shutdown
                  THEN [thread[t] EXCEPT !.st = "stopped", !.queue = <<>>]
                  ELSE [thread[t] EXCEPT !.queue = Tail(thread[t].queue)]
  <2> HIDE DEF r
  <2>1. thread[t] \in ThreadType  BY DEF TypeOK
  <2>2. /\ thread[t].queue \in Seq({"wake", "client"}) /\ thread[t].queue # <<>>
        /\ thread[t].st = "listening"
    BY <1>8, <2>1 DEF ProxyAccept, IsListening, ThreadType
  <2>3. Tail(thread[t].queue) \in Seq({"wake", "client"})  BY <2>2
  <2>31. <<>> \in Seq({"wake", "client"})  OBVIOUS
  <2>32. ASSUME thread[t].shutdown
    PROVE  /\ r \in ThreadType /\ r.st # "unborn" /\ r.port = thread[t].port
           /\ r.target = thread[t].target /\ r.shutdown = thread[t].shutdown
    <3>1. r = [thread[t] EXCEPT !.st = "stopped", !.queue = <<>>]  BY <2>32 DEF r
    <3>2. r \in ThreadType  BY <3>1, <2>1, <2>31 DEF ThreadType, ThreadStates
    <3>3. /\ r.st # "unborn" /\ r.port = thread[t].port
          /\ r.target = thread[t].target /\ r.shutdown = thread[t].shutdown
      BY <3>1, <2>1 DEF ThreadType
    <3>. QED  BY <3>2, <3>3
  <2>33. ASSUME ~thread[t].shutdown
    PROVE  /\ r \in ThreadType /\ r.st # "unborn" /\ r.port = thread[t].port
           /\ r.target = thread[t].target /\ r.shutdown = thread[t].shutdown
    <3>1. r = [thread[t] EXCEPT !.queue = Tail(thread[t].queue)]  BY <2>33 DEF r
    <3>2. r \in ThreadType  BY <3>1, <2>1, <2>3 DEF ThreadType, ThreadStates
    <3>3. /\ r.st # "unborn" /\ r.port = thread[t].port
          /\ r.target = thread[t].target /\ r.shutdown = thread[t].shutdown
      BY <3>1, <2>1, <2>2 DEF ThreadType
    <3>. QED  BY <3>2, <3>3
  <2>4. /\ r \in ThreadType /\ r.st # "unborn" /\ r.port = thread[t].port
        /\ r.target = thread[t].target /\ r.shutdown = thread[t].shutdown
    BY <2>32, <2>33
  <2>5. thread' = [thread EXCEPT ![t] = r]  BY <1>8 DEF ProxyAccept, TypeOK, r
  <2>6. UNCHANGED <<active, projects, proxies, pending>>  BY <1>8 DEF ProxyAccept
  <2>. QED  BY <2>2, <2>4, <2>5, <2>6, ThreadStepKeepsIInv
<1>9. ASSUME NEW t \in ProxyIds, ClientConnect(t) PROVE IInv'
  <2> DEFINE r == [thread[t] EXCEPT !.queue = Append(thread[t].queue, "client")]
  <2>1. thread[t] \in ThreadType  BY DEF TypeOK
  <2>2. thread[t].queue \in Seq({"wake", "client"}) /\ thread[t].st = "listening"
    BY <1>9, <2>1 DEF ClientConnect, IsListening, ThreadType
  <2>3. Append(thread[t].queue, "client") \in Seq({"wake", "client"})  BY <2>2
  <2>4. /\ r \in ThreadType /\ r.st # "unborn" /\ r.port = thread[t].port
        /\ r.target = thread[t].target /\ r.shutdown = thread[t].shutdown
    BY <2>1, <2>2, <2>3 DEF ThreadType, ThreadStates
  <2>5. thread' = [thread EXCEPT ![t] = r]  BY <1>9 DEF ClientConnect, TypeOK
  <2>6. UNCHANGED <<active, projects, proxies, pending>>  BY <1>9 DEF ClientConnect
  <2> HIDE DEF r
  <2>. QED  BY <2>2, <2>4, <2>5, <2>6, ThreadStepKeepsIInv
<1>10. ASSUME UNCHANGED vars PROVE IInv'
  BY <1>10 DEF vars, TypeOK, PendingIsFresh, TableIsSound, ThreadsAreOwned, Owned, Unlocked
<1>. QED
  BY <1>1, <1>2, <1>3, <1>4, <1>5, <1>6, <1>7, <1>8, <1>9, <1>10
     DEF Next, Commands, RegisterAgain

(* The invariant holds in every reachable state, for any number of ports,  *)
(* projects and threads.                                                   *)
THEOREM InvariantHolds == Spec => []IInv
<1>1. Init => IInv  BY InitEstablishesIInv
<1>2. IInv /\ [Next]_vars => IInv'  BY StepKeepsIInv
<1>. QED  BY <1>1, <1>2, PTL DEF Spec

(* A thread that still relays on a host port relays to the container port  *)
(* registered for it, or the port is not registered at all.                *)
THEOREM TrafficIsRoutedByTable == Spec => []TrafficMatchesTable
<1>1. IInv => TrafficMatchesTable
  <2> SUFFICES ASSUME IInv, NEW t \in ProxyIds, IsListening(t), ~thread[t].shutdown
               PROVE  active[thread[t].port] \in {None, thread[t].target}
    BY DEF TrafficMatchesTable
  <2>1. Owned(t) /\ thread[t].port \in HostPorts  BY DEF IInv, ThreadsAreOwned, IsListening
  <2>2. CASE proxies[thread[t].port] = t
    BY <2>1, <2>2, BoundsAssumption DEF IInv, TableIsSound, ProxyIds
  <2>3. CASE pending.id = t
    <3>1. pending \in PendingType /\ t # 0  BY BoundsAssumption DEF IInv, TypeOK, ProxyIds
    <3>2. pending # Idle  BY <3>1, <2>3 DEF Idle
    <3>3. pending.port \in HostPorts  BY <3>1, <3>2 DEF PendingType
    <3>4. ~Unlocked  BY <3>3, NoneAssumption DEF Unlocked
    <3>5. active[pending.port] = None /\ thread[t].port = pending.port
      BY <3>4, <2>3 DEF IInv, PendingIsFresh
    <3>. QED  BY <3>5
  <2>. QED  BY <2>1, <2>2, <2>3 DEF Owned
<1>. QED  BY <1>1, InvariantHolds, PTL

(* The daemon with its threads implements the abstract port book.          *)
THEOREM ImplementsPortBook == Spec => BookSpec
<1> USE NoneAssumption
<1>1. Init => Book!Init  BY DEF Init, Book!Init
<1>2. IInv /\ [Next]_vars => [Book!Next]_(Book!vars)
  <2> SUFFICES ASSUME IInv, [Next]_vars PROVE Book!Next \/ UNCHANGED Book!vars
    OBVIOUS
  <2>1. ASSUME RegisterInsert PROVE Book!Next
    <3>1. pending.port \in HostPorts /\ pending.target \in ContainerPorts
      BY <2>1 DEF RegisterInsert, Unlocked, IInv, TypeOK, PendingType, Idle
    <3>2. Book!Register(pending.port, pending.target)
      BY <2>1 DEF RegisterInsert, IInv, PendingIsFresh, Book!Register
    <3>. QED  BY <3>1, <3>2 DEF Book!Next
  <2>2. ASSUME NEW h \in HostPorts, UnregisterPort(h) PROVE Book!Next
    <3>1. Book!Unregister(h)
      BY <2>2 DEF UnregisterPort, Book!Unregister, Book!Without, IInv, TypeOK
    <3>. QED  BY <3>1 DEF Book!Next
  <2>3. ASSUME NEW p \in Projects, NEW ports \in SUBSET HostPorts, TrackComposeProject(p, ports)
        PROVE  Book!Next
    BY <2>3 DEF TrackComposeProject, Book!TrackProject, Book!Next
  <2>4. ASSUME NEW p \in Projects, UnregisterComposePorts(p) PROVE Book!Next
    BY <2>4 DEF UnregisterComposePorts, Without, Book!Without, Book!ReleaseProject, Book!Next
  <2>5. ASSUME NEW ports \in SUBSET HostPorts, ContainerExited(ports) PROVE Book!Next
    BY <2>5 DEF ContainerExited, Without, Book!Without, Book!ReleasePorts, Book!Next
  <2>6. ASSUME NEW h \in HostPorts, NEW c \in ContainerPorts, RegisterSpawn(h, c)
        PROVE  UNCHANGED Book!vars
    BY <2>6 DEF RegisterSpawn, Book!vars
  <2>7. ASSUME NEW t \in ProxyIds, ProxyBind(t) \/ ProxyAccept(t) \/ ClientConnect(t)
        PROVE  UNCHANGED Book!vars
    BY <2>7 DEF ProxyBind, ProxyAccept, ClientConnect, Book!vars
  <2>8. ASSUME UNCHANGED vars PROVE UNCHANGED Book!vars
    BY <2>8 DEF vars, Book!vars
  <2>. QED
    BY <2>1, <2>2, <2>3, <2>4, <2>5, <2>6, <2>7, <2>8 DEF Next, Commands, RegisterAgain
<1>. QED  BY <1>1, <1>2, InvariantHolds, PTL DEF Spec, BookSpec, Book!Spec
=============================================================================
