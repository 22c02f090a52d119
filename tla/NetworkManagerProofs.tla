------------------------- MODULE NetworkManagerProofs -------------------------
(* Theorems about NetworkManager for any containers, networks, subnets, bounds  *)
(* on overlap and number of deaths, reboots and failing calls.                  *)
EXTENDS NetworkManager, TLAPS

-----------------------------------------------------------------------------
(* Types.                                                                      *)

(* A free subnet is a subnet no bridge and no file has                          *)
LEMMA FreeIsFree ==
  ASSUME NEW s \in Free
  PROVE  /\ s \in Subnets
         /\ \A n \in AllNets : s \notin addrs[n] /\ s # subnet[n]
BY DEF Free, Routes, AllNets

LEMMA Numbers ==
  /\ MaxSubnet \in Nat /\ MaxCrashes \in Nat /\ MaxFaults \in Nat
  /\ Subnets \subseteq 0..MaxSubnet
  /\ \A s \in Subnets : s # 0
BY BoundsAssumption DEF Subnets

LEMMA Targets ==
  /\ \A a \in Actors : Target(a) \in AllNets
  /\ \A c \in Ctrs : Target(c) = NetOf[c] /\ NetOf[c] \in Nets /\ NetOf[c] # MainNet
  /\ Target(Main) = MainNet
  /\ Main \notin Ctrs /\ MainNet \notin Nets
BY NamesAssumption, NetAssumption DEF Target, Actors, AllNets

-----------------------------------------------------------------------------
(* What a boot may rely on: nobody creates a network until the daemon serves,  *)
(* and zylo0 has its file from the boot's choice of a subnet on                *)
Booting ==
  /\ pc[Main] \in MainPc /\ \A c \in Ctrs : pc[c] \in Pc
  /\ pc[Main] # "serving" => \A c \in Ctrs : pc[c] \notin Creating
  /\ pc[Main] \in {"find", "save"} => ~Exists(MainNet)
  /\ pc[Main] \in {"restore", "nets", "serving"} => Exists(MainNet)
  /\ pc[Main] \in {"find", "save", "restore", "nets"} => \A n \in todo : Exists(n)

(* What a subnet that was found free is still good for when it is used: one    *)
(* found by an UP is not that of zylo0, one found by a boot is still free       *)
Picking ==
  /\ \A a \in Actors : pc[a] \in {"save", "restore", "dns"} => pick[a] \in Subnets
  /\ \A c \in Ctrs : pc[c] \in {"save", "restore", "dns"} => pick[c] # subnet[MainNet]
  /\ pc[Main] = "save" => \A n \in Nets : subnet[n] # pick[Main] /\ pick[Main] \notin addrs[n]
  /\ pc[Main] = "restore" => pick[Main] = subnet[MainNet]

NetInvariant == TypeOK /\ Booting /\ Picking /\ MainSubnetIsOwn

LEMMA NetInitially == Init => NetInvariant
BY Numbers, Targets, BoundsAssumption
   DEF Init, NetInvariant, TypeOK, Booting, Picking, MainSubnetIsOwn, Exists, Pc, MainPc, Creating,
       Actors, AllNets

(* A bridge that is restored gets one address more, of the given subnet        *)
LEMMA RestoreAdds ==
  ASSUME TypeOK, NEW n \in AllNets, NEW s \in Subnets, RestoreDone(n, s) \/ RestoreFails(n, s)
  PROVE  /\ bridge' \in [AllNets -> BOOLEAN]
         /\ addrs' \in [AllNets -> SUBSET Subnets]
         /\ link' \in [AllNets -> {"none", "attached", "loose"}]
         /\ faults' \in 0..MaxFaults
         /\ \A m \in AllNets : addrs[m] \subseteq addrs'[m]
         /\ \A m \in AllNets : addrs'[m] \subseteq addrs[m] \union (IF m = n THEN {s} ELSE {})
<1>1. CASE UNCHANGED addrs /\ UNCHANGED bridge
  BY <1>1, Numbers DEF TypeOK, RestoreDone, RestoreFails, AddBridge, kernel
<1>2. CASE AddBridge(n, s)
  BY <1>2, Numbers DEF TypeOK, RestoreDone, RestoreFails, AddBridge, kernel
<1>3. QED
  BY <1>1, <1>2 DEF RestoreDone, RestoreFails, kernel

LEMMA NetPreserved == NetInvariant /\ [Next]_vars => NetInvariant'
<1> SUFFICES ASSUME NetInvariant, [Next]_vars PROVE NetInvariant'
  OBVIOUS
<1> USE Numbers, Targets
    DEF NetInvariant, TypeOK, Booting, Picking, MainSubnetIsOwn, Exists, Go, Save, Pc, MainPc,
        Creating, files, kernel, control, Actors, AllNets
<1>1. ASSUME NEW a \in Actors, FindFreeSubnet(a) PROVE NetInvariant'
  <2>1. CASE Free = {}
    BY <1>1, <2>1 DEF FindFreeSubnet
  <2>2. CASE Free # {}
    <3>1. PICK s \in Free : pick' = [pick EXCEPT ![a] = s]
      BY <1>1, <2>2 DEF FindFreeSubnet
    <3>2. s \in Subnets /\ \A n \in AllNets : s \notin addrs[n] /\ s # subnet[n]
      BY FreeIsFree
    <3>3. QED
      BY <1>1, <2>2, <3>1, <3>2 DEF FindFreeSubnet
  <2>3. QED
    BY <2>1, <2>2
<1>2. ASSUME NEW a \in Actors, SaveConfig(a) PROVE NetInvariant'
  <2>1. CASE a = Main
    BY <1>2, <2>1 DEF SaveConfig
  <2>2. CASE a \in Ctrs
    BY <1>2, <2>2 DEF SaveConfig
  <2>3. QED
    BY <2>1, <2>2
<1>3. ASSUME NEW a \in Actors, RestoreNetwork(a) PROVE NetInvariant'
  <2>1. pick[a] \in Subnets
    BY <1>3 DEF RestoreNetwork
  <2>2. /\ bridge' \in [AllNets -> BOOLEAN]
        /\ addrs' \in [AllNets -> SUBSET Subnets]
        /\ link' \in [AllNets -> {"none", "attached", "loose"}]
        /\ faults' \in 0..MaxFaults
        /\ \A m \in AllNets :
             addrs'[m] \subseteq addrs[m] \union (IF m = Target(a) THEN {pick[a]} ELSE {})
    BY <1>3, <2>1, RestoreAdds DEF RestoreNetwork
  <2>3. CASE a = Main
    BY <1>3, <2>1, <2>2, <2>3 DEF RestoreNetwork
  <2>4. CASE a \in Ctrs
    BY <1>3, <2>1, <2>2, <2>4 DEF RestoreNetwork
  <2>5. QED
    BY <2>3, <2>4
<1>4. ASSUME NEW c \in Ctrs, Up(c) \/ CheckNetwork(c) \/ End(c) PROVE NetInvariant'
  <2>1. CASE Up(c)
    BY <2>1 DEF Up
  <2>2. CASE CheckNetwork(c)
    BY <2>2 DEF CheckNetwork
  <2>3. CASE End(c)
    BY <2>3 DEF End
  <2>4. QED
    BY <1>4, <2>1, <2>2, <2>3
<1>5. ASSUME NEW c \in Ctrs, StartDNS(c) PROVE NetInvariant'
  BY <1>5 DEF StartDNS, Server
<1>6. ASSUME NEW c \in Ctrs, Join(c) PROVE NetInvariant'
  BY <1>6 DEF Join
<1>7. ASSUME NEW c \in Ctrs, Release(c) PROVE NetInvariant'
  BY <1>7 DEF Release
<1>8. ASSUME NEW n \in Nets, CleanNetwork(n) PROVE NetInvariant'
  <2>1. CASE Unused(n)
    <3>1. /\ subnet' = [subnet EXCEPT ![n] = 0]
          /\ members' = [members EXCEPT ![n] = {}]
          /\ addrs' = [addrs EXCEPT ![n] = {}]
          /\ pc[Main] = "clean"
          /\ todo' \subseteq todo
          /\ UNCHANGED <<servers, pc, pick, crashes, faults, alone>>
      BY <1>8, <2>1 DEF CleanNetwork
    <3>2. bridge' \in [AllNets -> BOOLEAN] /\ link' \in [AllNets -> {"none", "attached", "loose"}]
      BY ZenonT(40), <1>8, <2>1 DEF CleanNetwork
    <3>3. TypeOK'
      BY <3>1, <3>2
    <3>4. (Booting /\ Picking)'
      BY <3>1
    <3>5. MainSubnetIsOwn'
      BY <3>1
    <3>6. QED
      BY <3>3, <3>4, <3>5
  <2>2. CASE ~Unused(n)
    BY <1>8, <2>2 DEF CleanNetwork
  <2>3. QED
    BY <2>1, <2>2
<1>9. ASSUME NEW n \in Nets, RestoreNetworks(n) PROVE NetInvariant'
  <2>1. subnet[n] \in Subnets
    BY <1>9 DEF RestoreNetworks, Subnets
  <2>2. /\ bridge' \in [AllNets -> BOOLEAN]
        /\ addrs' \in [AllNets -> SUBSET Subnets]
        /\ link' \in [AllNets -> {"none", "attached", "loose"}]
        /\ faults' \in 0..MaxFaults
        /\ \A m \in AllNets :
             addrs'[m] \subseteq addrs[m] \union (IF m = n THEN {subnet[n]} ELSE {})
    BY <1>9, <2>1, RestoreAdds DEF RestoreNetworks
  <2>3. servers' \subseteq [net : Nets, subnet : Subnets, knows : SUBSET Ctrs]
    BY <1>9, <2>1 DEF RestoreNetworks, Server
  <2>4. QED
    BY <1>9, <2>1, <2>2, <2>3 DEF RestoreNetworks
<1>10. CASE StartClean \/ Serve
  BY <1>10 DEF StartClean, Serve
<1>11. CASE EnsureDefaultNetwork
  BY <1>11 DEF EnsureDefaultNetwork, Subnets
<1>12. CASE Crash \/ Reboot
  <2>1. /\ pc' \in [Actors -> Pc \union MainPc]
        /\ pc'[Main] = "off"
        /\ \A c \in Ctrs : pc'[c] \in Pc \ Creating
    BY <1>12 DEF Crash, Reboot
  <2>2. crashes' \in 0..MaxCrashes
    BY <1>12 DEF Crash, Reboot
  <2>3. /\ bridge' \in [AllNets -> BOOLEAN]
        /\ addrs' \in [AllNets -> SUBSET Subnets]
        /\ link' \in [AllNets -> {"none", "attached", "loose"}]
        /\ \A n \in AllNets : addrs'[n] \subseteq addrs[n]
    <3>1. CASE Crash
      BY <3>1 DEF Crash
    <3>2. CASE Reboot
      BY <3>2 DEF Reboot
    <3>3. QED
      BY <1>12, <3>1, <3>2
  <2>4. servers' = {} /\ UNCHANGED <<files, pick, todo, faults, alone>>
    BY <1>12 DEF Crash, Reboot
  <2>5. QED
    BY <2>1, <2>2, <2>3, <2>4
<1>13. CASE UNCHANGED vars
  BY <1>13 DEF vars
<1>14. QED
  BY <1>1, <1>2, <1>3, <1>4, <1>5, <1>6, <1>7, <1>8, <1>9, <1>10, <1>11, <1>12, <1>13 DEF Next

(* The invariant behind the theorems below, whatever overlaps                  *)
THEOREM NetInvariantHolds == Spec => []NetInvariant
BY NetInitially, NetPreserved, PTL DEF Spec

(* Files, bridges, servers and requests keep their types                        *)
THEOREM NetTypeCorrect == Spec => []TypeOK
BY NetInvariantHolds, PTL DEF NetInvariant

(* However creations overlap and whenever the daemon dies or the host boots, no *)
(* other network gets the subnet of zylo0, in its file or on its bridge         *)
THEOREM MainSubnetIsItsOwn == Spec => []MainSubnetIsOwn
BY NetInvariantHolds, PTL DEF NetInvariant

-----------------------------------------------------------------------------
(* One UP at a time.                                                           *)

OneStart == \A c, d \in Ctrs : pc[c] \in Creating /\ pc[d] \in Creating => c = d

SubnetsDistinct ==
  \A m, n \in AllNets : m # n /\ Exists(m) => subnet[m] # subnet[n]

(* A bridge answers for the subnet in its network's file or for none            *)
BridgesMatch == \A n \in AllNets : addrs[n] \subseteq {subnet[n]}

(* What the container that is starting knows of its network                     *)
StartKnows ==
  \A c \in Ctrs :
    /\ pc[c] \in {"find", "save"} => ~Exists(NetOf[c])
    /\ pc[c] = "save" => \A n \in AllNets : subnet[n] # pick[c]
    /\ pc[c] \in {"restore", "dns"} => subnet[NetOf[c]] = pick[c]

(* What a container that runs has                                               *)
RunningHas ==
  \A c \in Ctrs : pc[c] = "up" =>
    /\ Exists(NetOf[c])
    /\ c \in members[NetOf[c]]
    /\ subnet[NetOf[c]] = pick[c]

SerialNets ==
  alone => OneStart /\ SubnetsDistinct /\ BridgesMatch /\ StartKnows /\ RunningHas

LEMMA SerialInitially == Init => SerialNets
BY DEF Init, SerialNets, OneStart, SubnetsDistinct, BridgesMatch, StartKnows, RunningHas, Exists,
       Creating, Actors

LEMMA SerialPreserved ==
  NetInvariant /\ NetInvariant' /\ SerialNets /\ [Next]_vars => SerialNets'
<1> SUFFICES ASSUME NetInvariant, NetInvariant', SerialNets, [Next]_vars, alone'
             PROVE  (OneStart /\ SubnetsDistinct /\ BridgesMatch /\ StartKnows /\ RunningHas)'
  BY DEF SerialNets
<1> DEFINE Goal == OneStart /\ SubnetsDistinct /\ BridgesMatch /\ StartKnows /\ RunningHas
<1> USE Numbers, Targets
    DEF NetInvariant, TypeOK, Booting, Picking, Exists, Go, Save, Creating, files, kernel, control,
        Actors, AllNets, SerialNets, OneStart, SubnetsDistinct, BridgesMatch, StartKnows, RunningHas
<1>1. ASSUME NEW a \in Actors, FindFreeSubnet(a) PROVE Goal'
  <2>1. CASE Free = {}
    BY <1>1, <2>1 DEF FindFreeSubnet
  <2>2. CASE Free # {}
    <3>1. PICK s \in Free : pick' = [pick EXCEPT ![a] = s]
      BY <1>1, <2>2 DEF FindFreeSubnet
    <3>2. \A n \in AllNets : s # subnet[n]
      BY FreeIsFree
    <3>3. QED
      BY <1>1, <2>2, <3>1, <3>2 DEF FindFreeSubnet
  <2>3. QED
    BY <2>1, <2>2
<1>2. ASSUME NEW a \in Actors, SaveConfig(a) PROVE Goal'
  <2>1. /\ ~Exists(Target(a))
        /\ \A n \in AllNets : subnet[n] # pick[a]
        /\ pick[a] # 0
    BY <1>2 DEF SaveConfig
  <2>2. addrs[Target(a)] = {}
    BY <1>2, <2>1 DEF SaveConfig
  <2>3. /\ subnet' = [subnet EXCEPT ![Target(a)] = pick[a]]
        /\ members' = [members EXCEPT ![Target(a)] = {}]
        /\ pc' = [pc EXCEPT ![a] = "restore"]
        /\ pc[a] = "save"
        /\ UNCHANGED <<addrs, pick, alone>>
    BY <1>2 DEF SaveConfig
  <2>4. OneStart'
    BY <2>3
  <2>5. (SubnetsDistinct /\ BridgesMatch)'
    BY <2>1, <2>2, <2>3
  <2>6. \A c \in Ctrs : pc[c] = "up" => NetOf[c] # Target(a)
    BY <2>1, <2>3
  <2>7. RunningHas'
    BY <2>3, <2>6
  <2>8. StartKnows'
    BY <2>1, <2>3
  <2>9. QED
    BY <2>4, <2>5, <2>7, <2>8
<1>3. ASSUME NEW a \in Actors, RestoreNetwork(a) PROVE Goal'
  <2>1. pick[a] \in Subnets /\ pick[a] = subnet[Target(a)]
    BY <1>3 DEF RestoreNetwork
  <2>2. \A m \in AllNets : addrs'[m] \subseteq addrs[m] \union (IF m = Target(a) THEN {pick[a]} ELSE {})
    BY <1>3, <2>1, RestoreAdds DEF RestoreNetwork
  <2>3. BridgesMatch'
    BY <1>3, <2>1, <2>2 DEF RestoreNetwork
  <2>4. QED
    BY <1>3, <2>3 DEF RestoreNetwork
<1>4. ASSUME NEW c \in Ctrs, Up(c) PROVE Goal'
  <2>1. alone /\ \A d \in Ctrs : pc[d] \notin Creating
    BY <1>4 DEF Up, Starting
  <2>2. /\ pc' = [pc EXCEPT ![c] = "check"]
        /\ UNCHANGED <<files, kernel, pick>>
    BY <1>4 DEF Up
  <2>3. OneStart'
    BY <2>1, <2>2
  <2>4. (SubnetsDistinct /\ BridgesMatch)'
    BY <2>1, <2>2
  <2>5. (StartKnows /\ RunningHas)'
    BY <2>1, <2>2
  <2>6. QED
    BY <2>3, <2>4, <2>5
<1>5. ASSUME NEW c \in Ctrs, CheckNetwork(c) PROVE Goal'
  BY <1>5 DEF CheckNetwork
<1>6. ASSUME NEW c \in Ctrs, StartDNS(c) PROVE Goal'
  BY <1>6 DEF StartDNS
<1>7. ASSUME NEW c \in Ctrs, Join(c) PROVE Goal'
  BY <1>7 DEF Join
<1>8. ASSUME NEW c \in Ctrs, End(c) PROVE Goal'
  BY <1>8 DEF End
<1>9. ASSUME NEW c \in Ctrs, Release(c) PROVE Goal'
  BY <1>9 DEF Release, Dead
<1>10. ASSUME NEW n \in Nets, CleanNetwork(n) PROVE Goal'
  <2>1. CASE Unused(n)
    <3>1. /\ subnet' = [subnet EXCEPT ![n] = 0]
          /\ members' = [members EXCEPT ![n] = {}]
          /\ addrs' = [addrs EXCEPT ![n] = {}]
          /\ pc[Main] = "clean"
          /\ UNCHANGED <<pc, pick, alone>>
      BY <1>10, <2>1 DEF CleanNetwork
    <3>2. \A c \in Ctrs : pc[c] = "up" => NetOf[c] # n
      BY <2>1, <3>1 DEF Unused
    <3>3. (SubnetsDistinct /\ BridgesMatch)'
      BY <3>1
    <3>4. (OneStart /\ StartKnows)'
      BY <3>1
    <3>5. RunningHas'
      BY <3>1, <3>2
    <3>6. QED
      BY <3>3, <3>4, <3>5
  <2>2. CASE ~Unused(n)
    BY <1>10, <2>2 DEF CleanNetwork
  <2>3. QED
    BY <2>1, <2>2
<1>11. ASSUME NEW n \in Nets, RestoreNetworks(n) PROVE Goal'
  <2>1. subnet[n] \in Subnets
    BY <1>11 DEF RestoreNetworks, Subnets
  <2>2. \A m \in AllNets : addrs'[m] \subseteq addrs[m] \union (IF m = n THEN {subnet[n]} ELSE {})
    BY <1>11, <2>1, RestoreAdds DEF RestoreNetworks
  <2>3. BridgesMatch'
    BY <1>11, <2>2 DEF RestoreNetworks
  <2>4. QED
    BY <1>11, <2>3 DEF RestoreNetworks
<1>12. CASE StartClean \/ EnsureDefaultNetwork \/ Serve
  <2>1. CASE StartClean
    BY <2>1 DEF StartClean
  <2>2. CASE EnsureDefaultNetwork
    <3>1. /\ UNCHANGED <<files, kernel, alone>>
          /\ \A c \in Ctrs : pick'[c] = pick[c] /\ pc'[c] = pc[c]
      <4>1. PICK label : pc' = [pc EXCEPT ![Main] = label]
        BY <2>2 DEF EnsureDefaultNetwork
      <4>2. UNCHANGED <<files, kernel, alone>> /\ pick' = [pick EXCEPT ![Main] = subnet[MainNet]]
        BY <2>2 DEF EnsureDefaultNetwork
      <4>3. \A c \in Ctrs : c # Main
        BY Targets
      <4>4. QED
        BY <4>1, <4>2, <4>3
    <3>2. (OneStart /\ StartKnows /\ RunningHas)'
      BY <3>1
    <3>3. (SubnetsDistinct /\ BridgesMatch)'
      BY <3>1
    <3>4. QED
      BY <3>2, <3>3
  <2>3. CASE Serve
    BY <2>3 DEF Serve
  <2>4. QED
    BY <1>12, <2>1, <2>2, <2>3
<1>13. CASE Crash
  BY <1>13 DEF Crash
<1>14. CASE Reboot
  BY <1>14 DEF Reboot
<1>15. CASE UNCHANGED vars
  BY <1>15 DEF vars
<1>16. QED
  BY <1>1, <1>2, <1>3, <1>4, <1>5, <1>6, <1>7, <1>8, <1>9, <1>10, <1>11, <1>12, <1>13, <1>14,
     <1>15 DEF Next

(* The invariant of UP requests that come one at a time                         *)
THEOREM SerialNetsHold == Spec => [](NetInvariant /\ SerialNets)
BY NetInvariantHolds, SerialInitially, SerialPreserved, PTL DEF Spec

(* Until the first overlap the network of a running container keeps its file,   *)
(* its subnet and the container, and no other bridge answers for that subnet    *)
THEOREM NetworksAreKept == Spec => []ContainersKeepNetwork
<1>1. NetInvariant /\ SerialNets => ContainersKeepNetwork
  BY Targets
     DEF SerialNets, SubnetsDistinct, BridgesMatch, RunningHas, ContainersKeepNetwork, Exists, AllNets
<1>2. QED
  BY <1>1, SerialNetsHold, PTL

-----------------------------------------------------------------------------
(* One UP at a time, and no call into the kernel fails.                        *)

(* A bridge that exists answers for its network's subnet; zylo0 has one once    *)
(* the boot goes on to the other networks                                       *)
BridgesServe ==
  /\ \A n \in AllNets : bridge[n] => addrs[n] = {subnet[n]}
  /\ pc[Main] \in {"nets", "serving"} => bridge[MainNet]

(* No DNS server outlives its daemon, and each listens where its network's file *)
(* says                                                                         *)
ServersMatch ==
  /\ pc[Main] \notin {"nets", "serving"} => servers = {}
  /\ \A d \in servers : d.subnet = subnet[d.net]

Whole(n) ==
  /\ bridge[n]
  /\ link[n] # "none"
  /\ \E d \in servers : d.net = n /\ d.subnet = subnet[n]

(* The boot has all networks to restore before it, and those behind it are whole *)
RestoredAreWhole ==
  /\ pc[Main] \in {"find", "save", "restore"} => \A n \in Nets : Exists(n) => n \in todo
  /\ pc[Main] = "nets" => \A n \in Nets \ todo : Exists(n) => Whole(n)

(* So is every other one while the daemon serves, but for that being made       *)
ServedAreWhole ==
  /\ pc[Main] = "serving" => \A n \in Nets : Exists(n) /\ ~BeingMade(n) => Whole(n)
  /\ \A c \in Ctrs : pc[c] = "dns" => bridge[NetOf[c]] /\ link[NetOf[c]] # "none"

FaultFree ==
  alone /\ faults = 0 => BridgesServe /\ ServersMatch /\ RestoredAreWhole /\ ServedAreWhole

LEMMA FaultFreeInitially == Init => FaultFree
BY DEF Init, FaultFree, BridgesServe, ServersMatch, RestoredAreWhole, ServedAreWhole, Exists, Actors

(* UP requests that have overlapped, and calls that have failed, stay so       *)
LEMMA FaultFreeBefore ==
  ASSUME TypeOK, [Next]_vars, alone', faults' = 0
  PROVE  alone /\ faults = 0
<1> USE Numbers DEF TypeOK, control
<1>1. ASSUME NEW n \in AllNets, NEW s, RestoreDone(n, s) \/ RestoreFails(n, s) PROVE faults = 0
  BY <1>1 DEF RestoreDone, RestoreFails
<1>2. ASSUME NEW a \in Actors, FindFreeSubnet(a) \/ SaveConfig(a) \/ RestoreNetwork(a)
      PROVE  alone /\ faults = 0
  BY <1>1, <1>2, Targets DEF FindFreeSubnet, SaveConfig, RestoreNetwork
<1>3. ASSUME NEW c \in Ctrs, Up(c) \/ CheckNetwork(c) \/ StartDNS(c) \/ Join(c) \/ End(c) \/ Release(c)
      PROVE  alone /\ faults = 0
  BY <1>3 DEF Up, CheckNetwork, StartDNS, Join, End, Release
<1>4. ASSUME NEW n \in Nets, CleanNetwork(n) \/ RestoreNetworks(n) PROVE alone /\ faults = 0
  BY <1>1, <1>4 DEF CleanNetwork, RestoreNetworks, AllNets
<1>5. CASE StartClean \/ EnsureDefaultNetwork \/ Serve \/ Crash \/ Reboot \/ UNCHANGED vars
  BY <1>5 DEF StartClean, EnsureDefaultNetwork, Serve, Crash, Reboot, vars
<1>6. QED
  BY <1>2, <1>3, <1>4, <1>5 DEF Next

(* A restoration that nothing fails makes the bridge and the pair, and leaves   *)
(* those of other networks alone                                                *)
LEMMA RestoreMakes ==
  ASSUME TypeOK, BridgesMatch, BridgesServe, NEW n \in AllNets, NEW s \in Subnets, s = subnet[n],
         n = MainNet \/ pc[Main] \in {"nets", "serving"},
         RestoreDone(n, s) \/ RestoreFails(n, s), faults' = 0
  PROVE  /\ RestoreDone(n, s)
         /\ bridge'[n] /\ addrs'[n] = {s} /\ (n # MainNet => link'[n] # "none")
         /\ \A m \in AllNets \ {n} :
              bridge'[m] = bridge[m] /\ addrs'[m] = addrs[m] /\ link'[m] = link[m]
<1> USE Numbers, Targets DEF TypeOK, AllNets
<1>1. RestoreDone(n, s)
  BY DEF RestoreFails, BridgesServe
<1>2. AddBridge(n, s)
  BY <1>1 DEF RestoreDone
<1>3. bridge'[n] /\ addrs'[n] = {s}
  BY <1>2 DEF AddBridge, BridgesMatch
<1>4. link' = [link EXCEPT ![n] = IF NeedsLink(n) THEN "attached" ELSE @]
  BY <1>1 DEF RestoreDone
<1>5. n # MainNet => link'[n] # "none"
  BY <1>4 DEF NeedsLink
<1>6. \A m \in AllNets \ {n} : bridge'[m] = bridge[m] /\ addrs'[m] = addrs[m] /\ link'[m] = link[m]
  BY <1>2, <1>4 DEF AddBridge
<1>7. QED
  BY <1>1, <1>3, <1>5, <1>6

LEMMA FaultFreePreserved ==
  NetInvariant /\ SerialNets /\ SerialNets' /\ NetInvariant' /\ FaultFree /\ [Next]_vars => FaultFree'
<1> SUFFICES ASSUME NetInvariant, SerialNets, SerialNets', NetInvariant', FaultFree, [Next]_vars,
                    alone', faults' = 0
             PROVE  (BridgesServe /\ ServersMatch /\ RestoredAreWhole /\ ServedAreWhole)'
  BY DEF FaultFree
<1>0. /\ alone /\ faults = 0
      /\ BridgesServe /\ ServersMatch /\ RestoredAreWhole /\ ServedAreWhole
      /\ OneStart /\ SubnetsDistinct /\ BridgesMatch /\ StartKnows
  BY FaultFreeBefore DEF NetInvariant, FaultFree, SerialNets
<1> DEFINE Goal == BridgesServe /\ ServersMatch /\ RestoredAreWhole /\ ServedAreWhole
<1> USE Numbers, Targets
    DEF NetInvariant, TypeOK, Booting, Exists, Go, Creating, files, kernel, control,
        Actors, AllNets, BridgesServe, ServersMatch, RestoredAreWhole, ServedAreWhole, Whole, BeingMade
<1>1. ASSUME NEW a \in Actors, FindFreeSubnet(a) PROVE Goal'
  BY <1>0, <1>1 DEF FindFreeSubnet
<1>2. ASSUME NEW a \in Actors, SaveConfig(a) PROVE Goal'
  <2>1. /\ ~Exists(Target(a)) /\ pick[a] # 0 /\ pc[a] = "save"
        /\ subnet' = [subnet EXCEPT ![Target(a)] = pick[a]]
        /\ pc' = [pc EXCEPT ![a] = "restore"]
        /\ UNCHANGED <<bridge, addrs, link, servers, pick, todo>>
    BY <1>0, <1>2 DEF SaveConfig, StartKnows, Save, Picking
  <2>2. addrs[Target(a)] = {} /\ ~bridge[Target(a)]
    BY <1>0, <2>1 DEF BridgesMatch
  <2>3. \A d \in servers : d.net # Target(a)
    BY <1>0, <2>1
  <2>4. BridgesServe' /\ ServersMatch'
    BY <1>0, <2>1, <2>2, <2>3
  <2>5. CASE a = Main
    BY <1>0, <2>1, <2>5
  <2>6. CASE a \in Ctrs
    BY <1>0, <2>1, <2>6
  <2>7. QED
    BY <2>4, <2>5, <2>6
<1>3. ASSUME NEW a \in Actors, RestoreNetwork(a) PROVE Goal'
  <2> DEFINE n == Target(a)
  <2>1. /\ pick[a] \in Subnets /\ pick[a] = subnet[n] /\ pc[a] = "restore" /\ n \in AllNets
        /\ n = MainNet \/ pc[Main] = "serving"
        /\ RestoreDone(n, pick[a]) \/ RestoreFails(n, pick[a])
        /\ UNCHANGED <<subnet, servers, todo>>
    BY <1>0, <1>3 DEF RestoreNetwork, Picking, StartKnows
  <2>2. /\ RestoreDone(n, pick[a])
        /\ bridge'[n] /\ addrs'[n] = {pick[a]} /\ (n # MainNet => link'[n] # "none")
        /\ \A m \in AllNets \ {n} : bridge'[m] = bridge[m] /\ addrs'[m] = addrs[m] /\ link'[m] = link[m]
    BY <1>0, <2>1, RestoreMakes
  <2>3. pc' = [pc EXCEPT ![a] = IF a = Main THEN "nets" ELSE "dns"] \/ a = Main
    BY <1>0, <1>3, <2>1 DEF RestoreNetwork, RestoreFails
  <2> HIDE DEF n
  <2>4. BridgesServe'
    BY <1>0, <1>3, <2>1, <2>2, <2>3 DEF RestoreNetwork, n
  <2>5. ServersMatch'
    BY <1>0, <1>3, <2>1 DEF RestoreNetwork
  <2>6. CASE a = Main
    BY <1>0, <1>3, <2>1, <2>2, <2>6 DEF RestoreNetwork, n
  <2>7. CASE a \in Ctrs
    BY <1>0, <1>3, <2>1, <2>2, <2>3, <2>7 DEF RestoreNetwork, n
  <2>8. QED
    BY <2>4, <2>5, <2>6, <2>7
<1>4. ASSUME NEW c \in Ctrs, Up(c) \/ CheckNetwork(c) \/ End(c) PROVE Goal'
  <2>1. /\ UNCHANGED <<subnet, bridge, addrs, link, servers, todo>>
        /\ pc[c] \notin {"restore", "dns"} /\ pc'[c] \notin {"restore", "dns"}
        /\ \A a \in Actors \ {c} : pc'[a] = pc[a]
    BY <1>4 DEF Up, CheckNetwork, End
  <2>2. QED
    BY <1>0, <2>1
<1>5. ASSUME NEW c \in Ctrs, StartDNS(c) PROVE Goal'
  <2>1. /\ UNCHANGED <<subnet, bridge, addrs, link, todo>>
        /\ pc[c] = "dns" /\ pc[Main] = "serving" /\ pick[c] = subnet[NetOf[c]] /\ pick[c] \in Subnets
        /\ bridge[NetOf[c]] /\ link[NetOf[c]] # "none"
    BY <1>0, <1>5 DEF StartDNS, StartKnows, Picking
  <2>2. pc'[c] \notin {"restore", "dns"} /\ \A a \in Actors \ {c} : pc'[a] = pc[a]
    BY <1>5 DEF StartDNS
  <2>3. pick[c] \in Routes
    BY <1>0, <2>1 DEF Routes
  <2>4. \A d \in servers : d.subnet = pick[c] => d.net = NetOf[c]
    BY <1>0, <2>1 DEF SubnetsDistinct
  <2>5. /\ servers \subseteq servers'
        /\ servers' \subseteq servers \union {Server(NetOf[c], pick[c], {})}
        /\ \E d \in servers' : d.net = NetOf[c] /\ d.subnet = subnet[NetOf[c]]
    <3> DEFINE d == Server(NetOf[c], pick[c], {})
    <3>1. d.net = NetOf[c] /\ d.subnet = pick[c]
      BY DEF Server
    <3> HIDE DEF d
    <3>2. CASE CanListen(pick[c])
      <4>1. servers' = servers \union {d}
        BY <1>5, <3>2 DEF StartDNS, d
      <4>2. QED
        BY <2>1, <3>1, <4>1 DEF d
    <3>3. CASE ~CanListen(pick[c])
      <4>1. servers' = servers
        BY <1>5, <3>3 DEF StartDNS
      <4>2. \E e \in servers : e.subnet = pick[c]
        BY <2>3, <3>3 DEF CanListen
      <4>3. QED
        BY <2>1, <2>4, <4>1, <4>2
    <3>4. QED
      BY <3>2, <3>3
  <2>6. BridgesServe' /\ RestoredAreWhole'
    BY <1>0, <2>1, <2>2, <2>5
  <2>7. ServersMatch'
    BY <1>0, <2>1, <2>2, <2>5 DEF Server
  <2>8. ASSUME NEW n \in Nets, Exists(n)', ~BeingMade(n)' PROVE Whole(n)'
    <3>1. CASE n = NetOf[c]
      BY <2>1, <2>5, <3>1
    <3>2. CASE n # NetOf[c]
      BY <1>0, <2>1, <2>2, <2>5, <2>8, <3>2
    <3>3. QED
      BY <3>1, <3>2
  <2>9. \A d \in Ctrs : pc'[d] = "dns" => bridge'[NetOf[d]] /\ link'[NetOf[d]] # "none"
    BY <1>0, <2>1, <2>2
  <2>10. QED
    BY <2>6, <2>7, <2>8, <2>9
<1>6. ASSUME NEW c \in Ctrs, Join(c) PROVE Goal'
  <2>1. /\ UNCHANGED <<subnet, bridge, addrs, link, servers, todo>>
        /\ pc[c] \notin {"restore", "dns"} /\ pc'[c] \notin {"restore", "dns"}
        /\ \A a \in Actors \ {c} : pc'[a] = pc[a]
    BY <1>6 DEF Join
  <2>2. QED
    BY <1>0, <2>1
<1>7. ASSUME NEW c \in Ctrs, Release(c) PROVE Goal'
  BY <1>0, <1>7 DEF Release
<1>8. ASSUME NEW n \in Nets, CleanNetwork(n) PROVE Goal'
  <2>1. pc[Main] = "clean" /\ servers = {} /\ UNCHANGED <<pc, servers>>
    BY <1>0, <1>8 DEF CleanNetwork
  <2>2. BridgesServe'
    BY <1>0, <1>8, <2>1 DEF CleanNetwork, Save
  <2>3. ServersMatch' /\ RestoredAreWhole' /\ ServedAreWhole'
    BY <2>1
  <2>4. QED
    BY <2>2, <2>3
<1>9. ASSUME NEW n \in Nets, RestoreNetworks(n) PROVE Goal'
  <2>1. /\ subnet[n] \in Subnets /\ pc[Main] = "nets" /\ n \in todo /\ todo' = todo \ {n}
        /\ UNCHANGED <<subnet, pc>>
        /\ RestoreDone(n, subnet[n]) \/ RestoreFails(n, subnet[n])
    BY <1>9 DEF RestoreNetworks, Subnets
  <2>2. /\ bridge'[n] /\ addrs'[n] = {subnet[n]} /\ link'[n] # "none"
        /\ \A m \in AllNets \ {n} : bridge'[m] = bridge[m] /\ addrs'[m] = addrs[m] /\ link'[m] = link[m]
    BY <1>0, <2>1, RestoreMakes
  <2>3. subnet[n] \in Routes'
    BY <2>2 DEF Routes
  <2>4. /\ servers \subseteq servers'
        /\ servers' \subseteq servers \union {Server(n, subnet[n], members[n])}
        /\ \E d \in servers' : d.net = n /\ d.subnet = subnet[n]
    <3>1. \A d \in servers : d.subnet = subnet[n] => d.net = n
      BY <1>0, <2>1 DEF SubnetsDistinct
    <3> DEFINE d == Server(n, subnet[n], members[n])
    <3>2. d.net = n /\ d.subnet = subnet[n]
      BY DEF Server
    <3>3. servers' = servers \union {d} \/ (servers' = servers /\ \E e \in servers : e.subnet = subnet[n])
      BY <1>9, <2>3 DEF RestoreNetworks
    <3> HIDE DEF d
    <3>4. CASE servers' = servers \union {d}
      BY <3>2, <3>4 DEF d
    <3>5. CASE servers' = servers /\ \E e \in servers : e.subnet = subnet[n]
      BY <3>1, <3>5
    <3>6. QED
      BY <3>3, <3>4, <3>5
  <2>5. BridgesServe'
    BY <1>0, <2>1, <2>2
  <2>6. ServersMatch'
    BY <1>0, <2>1, <2>4 DEF Server
  <2>7. ASSUME NEW m \in Nets \ todo', Exists(m)' PROVE Whole(m)'
    <3>1. CASE m = n
      BY <2>1, <2>2, <2>4, <3>1
    <3>2. CASE m # n
      BY <1>0, <2>1, <2>2, <2>4, <2>7, <3>2
    <3>3. QED
      BY <3>1, <3>2
  <2>8. ServedAreWhole'
    BY <2>1
  <2>9. QED
    BY <2>1, <2>5, <2>6, <2>7, <2>8
<1>10. CASE StartClean \/ Serve
  <2>1. CASE StartClean
    BY <1>0, <2>1 DEF StartClean
  <2>2. CASE Serve
    <3>1. /\ pc[Main] = "nets" /\ todo = {} /\ pc' = [pc EXCEPT ![Main] = "serving"]
          /\ UNCHANGED <<subnet, bridge, addrs, link, servers>>
      BY <2>2 DEF Serve
    <3>2. \A c \in Ctrs : pc'[c] # "dns"
      BY <3>1
    <3>3. QED
      BY <1>0, <3>1, <3>2
  <2>3. QED
    BY <1>10, <2>1, <2>2
<1>11. CASE EnsureDefaultNetwork
  <2>1. /\ pc[Main] = "clean" /\ servers = {} /\ todo' = {n \in Nets : Exists(n)}
        /\ UNCHANGED <<subnet, bridge, addrs, link, servers>>
    BY <1>0, <1>11 DEF EnsureDefaultNetwork
  <2>2. PICK label \in {"find", "nets", "restore"} :
          pc' = [pc EXCEPT ![Main] = label] /\ (label = "nets" => bridge[MainNet])
    BY <1>11 DEF EnsureDefaultNetwork
  <2>3. BridgesServe' /\ ServersMatch'
    BY <1>0, <2>1, <2>2
  <2>4. RestoredAreWhole' /\ ServedAreWhole'
    BY <1>0, <2>1, <2>2
  <2>5. QED
    BY <2>3, <2>4
<1>12. CASE Crash \/ Reboot
  <2>1. /\ pc'[Main] = "off" /\ servers' = {} /\ \A c \in Ctrs : pc'[c] # "dns"
        /\ UNCHANGED subnet
    BY <1>12 DEF Crash, Reboot
  <2>2. \A n \in AllNets : bridge'[n] => bridge[n] /\ addrs'[n] = addrs[n]
    BY <1>12 DEF Crash, Reboot
  <2>3. BridgesServe'
    BY <1>0, <2>1, <2>2
  <2>4. ServersMatch' /\ RestoredAreWhole' /\ ServedAreWhole'
    BY <2>1
  <2>5. QED
    BY <2>3, <2>4
<1>13. CASE UNCHANGED vars
  BY <1>0, <1>13 DEF vars
<1>14. QED
  BY <1>1, <1>2, <1>3, <1>4, <1>5, <1>6, <1>7, <1>8, <1>9, <1>10, <1>11, <1>12, <1>13 DEF Next

(* The invariant of requests that come one at a time while no kernel call fails *)
THEOREM FaultFreeHolds == Spec => [](NetInvariant /\ SerialNets /\ FaultFree)
BY FaultFreeInitially, FaultFreePreserved, SerialNetsHold, PTL DEF Spec

(* Until the first overlap and the first failing call, a network that has a     *)
(* file is whole while the daemon serves, whichever deaths and reboots of the    *)
(* host have cut its creation short                                              *)
THEOREM ServedNetworksAreWhole == Spec => []NetworksAreWhole
<1>1. NetInvariant /\ SerialNets /\ FaultFree => NetworksAreWhole
  <2> SUFFICES ASSUME NetInvariant, FaultFree, alone, faults = 0, pc[Main] = "serving",
                      NEW n \in AllNets, Exists(n), ~BeingMade(n)
               PROVE  /\ bridge[n]
                      /\ addrs[n] = {subnet[n]}
                      /\ n # MainNet => link[n] # "none" /\ \E d \in servers : d.net = n /\ d.subnet = subnet[n]
    BY DEF NetworksAreWhole
  <2>1. CASE n = MainNet
    BY <2>1 DEF FaultFree, BridgesServe
  <2>2. CASE n \in Nets
    BY <2>2 DEF FaultFree, BridgesServe, ServedAreWhole, Whole, AllNets
  <2>3. QED
    BY <2>1, <2>2 DEF AllNets
<1>2. QED
  BY <1>1, FaultFreeHolds, PTL

-----------------------------------------------------------------------------
(* Networks and subnets as an abstract allocator sees them.                    *)

LEMMA AssignedPairs ==
  /\ \A n \in AllNets : Exists(n) => n \in Subnetting!Holders
  /\ \A x \in Subnetting!Holders : x \in AllNets /\ Exists(x)
  /\ \A x \in Subnetting!Taken : \E n \in AllNets : Exists(n) /\ x = subnet[n]
<1>1. ASSUME NEW n \in AllNets, Exists(n)
      PROVE  n \in Subnetting!Holders /\ subnet[n] \in Subnetting!Taken
  <2> DEFINE p == <<n, subnet[n]>>
  <2>1. p \in Assigned /\ p[1] = n /\ p[2] = subnet[n]
    BY <1>1 DEF Assigned
  <2> HIDE DEF p
  <2>2. QED
    BY <2>1 DEF Subnetting!Holders, Subnetting!Taken
<1>2. ASSUME NEW p \in Assigned
      PROVE  \E n \in AllNets : Exists(n) /\ p[1] = n /\ p[2] = subnet[n]
  BY DEF Assigned
<1>3. QED
  BY <1>1, <1>2 DEF Subnetting!Holders, Subnetting!Taken

(* A file that is saved is a pair that is taken, a file that is deleted one that *)
(* is dropped                                                                    *)
LEMMA SaveTakes ==
  ASSUME TypeOK, NEW n \in AllNets, NEW s \in Subnets, ~Exists(n),
         subnet' = [subnet EXCEPT ![n] = s]
  PROVE  Assigned' = Assigned \union {<<n, s>>}
BY Numbers DEF TypeOK, Assigned, Exists

LEMMA DeleteDrops ==
  ASSUME TypeOK, NEW n \in AllNets, Exists(n), subnet' = [subnet EXCEPT ![n] = 0]
  PROVE  Assigned' = Assigned \ {<<n, subnet[n]>>}
BY DEF TypeOK, Assigned, Exists

(* Until the first overlap of UP requests, a step of the networks is a step of *)
(* Allocator                                                                   *)
LEMMA StepAllocates ==
  ASSUME NetInvariant, SerialNets, NetInvariant', SerialNets', [Next]_vars
  PROVE  [Subnetting!Next]_Subnetting!vars
<1> SUFFICES ASSUME alone' PROVE [Subnetting!Next]_Subnetting!vars
  BY DEF Subnetting!Next
<1>0. alone
  <2>1. ASSUME NEW c \in Ctrs, Up(c) PROVE alone
    BY <2>1 DEF Up
  <2>2. CASE \E c \in Ctrs : CheckNetwork(c) \/ StartDNS(c) \/ Join(c) \/ End(c) \/ Release(c)
    BY <2>2 DEF CheckNetwork, StartDNS, Join, End, Release, control
  <2>3. CASE \E a \in Actors : FindFreeSubnet(a) \/ SaveConfig(a) \/ RestoreNetwork(a)
    BY <2>3 DEF FindFreeSubnet, SaveConfig, RestoreNetwork, control
  <2>4. CASE \E n \in Nets : CleanNetwork(n) \/ RestoreNetworks(n)
    BY <2>4 DEF CleanNetwork, RestoreNetworks
  <2>5. CASE StartClean \/ EnsureDefaultNetwork \/ Serve \/ Crash \/ Reboot \/ UNCHANGED vars
    BY <2>5 DEF StartClean, EnsureDefaultNetwork, Serve, Crash, Reboot, control, vars
  <2>6. QED
    BY <2>1, <2>2, <2>3, <2>4, <2>5 DEF Next
<1>a. ASSUME subnet' = subnet, Users' \subseteq Users PROVE [Subnetting!Next]_Subnetting!vars
  BY <1>0, <1>a DEF Subnetting!Next, Subnetting!Leave, Subnetting!vars, Assigned, Exists
<1>b. ASSUME \A c \in Ctrs : pc'[c] = "up" => pc[c] = "up" PROVE Users' \subseteq Users
  BY <1>b DEF Users
<1> USE Numbers, Targets DEF NetInvariant, TypeOK, Go, files, kernel, control, Actors, AllNets
<1>1. ASSUME NEW a \in Actors, FindFreeSubnet(a) PROVE [Subnetting!Next]_Subnetting!vars
  <2>1. \A c \in Ctrs : pc'[c] = "up" => pc[c] = "up"
    BY <1>1 DEF FindFreeSubnet
  <2>2. QED
    BY <1>1, <1>a, <1>b, <2>1 DEF FindFreeSubnet
<1>2. ASSUME NEW a \in Actors, SaveConfig(a) PROVE [Subnetting!Next]_Subnetting!vars
  <2> DEFINE n == Target(a)
             s == pick[a]
             p == <<n, s>>
  <2>1. n \in AllNets /\ s \in Subnets
    BY <1>2 DEF SaveConfig, Picking
  <2>2. ~Exists(n) /\ \A m \in AllNets : subnet[m] # s
    <3>1. CASE a = Main
      BY <1>2, <2>1, <3>1 DEF SaveConfig, Picking, Booting, Exists
    <3>2. CASE a \in Ctrs
      BY <1>0, <1>2, <3>2 DEF SaveConfig, SerialNets, StartKnows
    <3>3. QED
      BY <3>1, <3>2
  <2>3. subnet' = [subnet EXCEPT ![n] = s]
    BY <1>2 DEF SaveConfig, Save
  <2>4. Assigned' = Assigned \union {p}
    BY <2>1, <2>2, <2>3, SaveTakes
  <2>5. n \notin Subnetting!Holders /\ s \notin Subnetting!Taken
    BY <2>2, AssignedPairs
  <2>6. Users' = Users
    BY <1>2 DEF SaveConfig, Users
  <2>7. p[1] = n /\ p[2] = s
    OBVIOUS
  <2> HIDE DEF p, n, s
  <2>8. Subnetting!Take
    BY <2>4, <2>5, <2>6, <2>7 DEF Subnetting!Take
  <2>9. QED
    BY <1>0, <2>8 DEF Subnetting!Next
<1>3. ASSUME NEW a \in Actors, RestoreNetwork(a) PROVE [Subnetting!Next]_Subnetting!vars
  <2>1. \A c \in Ctrs : pc'[c] = "up" => pc[c] = "up"
    BY <1>3 DEF RestoreNetwork
  <2>2. QED
    BY <1>3, <1>a, <1>b, <2>1 DEF RestoreNetwork
<1>4. ASSUME NEW c \in Ctrs, Up(c) \/ CheckNetwork(c) \/ StartDNS(c) \/ End(c) \/ Release(c)
      PROVE  [Subnetting!Next]_Subnetting!vars
  <2>1. \A d \in Ctrs : pc'[d] = "up" => pc[d] = "up"
    BY <1>4 DEF Up, CheckNetwork, StartDNS, End, Release
  <2>2. subnet' = subnet
    BY <1>4 DEF Up, CheckNetwork, StartDNS, End, Release
  <2>3. QED
    BY <1>a, <1>b, <2>1, <2>2
<1>5. ASSUME NEW c \in Ctrs, Join(c) PROVE [Subnetting!Next]_Subnetting!vars
  <2>1. subnet' = subnet
    BY <1>5 DEF Join
  <2>2. CASE ~(bridge[NetOf[c]] /\ Exists(NetOf[c]))
    <3>1. \A d \in Ctrs : pc'[d] = "up" => pc[d] = "up"
      BY <1>5, <2>2 DEF Join
    <3>2. QED
      BY <1>a, <1>b, <2>1, <3>1
  <2>3. CASE bridge[NetOf[c]] /\ Exists(NetOf[c])
    <3>1. pc' = [pc EXCEPT ![c] = "up"]
      BY <1>5, <2>3 DEF Join
    <3>2. Users' = Users \union {NetOf[c]}
      BY <3>1 DEF Users
    <3>3. \A u \in Users : u \in AllNets /\ Exists(u)
      BY <1>0 DEF Users, SerialNets, RunningHas
    <3>4. Users' \subseteq Subnetting!Holders
      BY <2>3, <3>2, <3>3, AssignedPairs
    <3>5. Assigned' = Assigned
      BY <2>1 DEF Assigned, Exists
    <3>6. Subnetting!Use
      BY <3>2, <3>4, <3>5 DEF Subnetting!Use
    <3>7. QED
      BY <1>0, <3>6 DEF Subnetting!Next
  <2>4. QED
    BY <2>2, <2>3
<1>6. ASSUME NEW n \in Nets, CleanNetwork(n) PROVE [Subnetting!Next]_Subnetting!vars
  <2>1. Users' = Users
    BY <1>6 DEF CleanNetwork, Users
  <2>2. CASE ~(Unused(n) /\ Exists(n))
    <3>1. subnet' = subnet
      BY <1>6, <2>2 DEF CleanNetwork, Save, Exists
    <3>2. QED
      BY <1>a, <2>1, <3>1
  <2>3. CASE Unused(n) /\ Exists(n)
    <3> DEFINE p == <<n, subnet[n]>>
    <3>1. subnet' = [subnet EXCEPT ![n] = 0]
      BY <1>6, <2>3 DEF CleanNetwork, Save
    <3>2. Assigned' = Assigned \ {p}
      BY <2>3, <3>1, DeleteDrops
    <3>3. p \in Assigned /\ p[1] = n
      BY <2>3 DEF Assigned
    <3>4. n \notin Users
      BY <1>0, <2>3 DEF Users, Unused, SerialNets, RunningHas
    <3> HIDE DEF p
    <3>5. Subnetting!Drop
      BY <2>1, <3>2, <3>3, <3>4 DEF Subnetting!Drop
    <3>6. QED
      BY <1>0, <3>5 DEF Subnetting!Next
  <2>4. QED
    BY <2>2, <2>3
<1>7. ASSUME NEW n \in Nets, RestoreNetworks(n) PROVE [Subnetting!Next]_Subnetting!vars
  BY <1>7, <1>a DEF RestoreNetworks, Users
<1>8. CASE StartClean \/ EnsureDefaultNetwork \/ Serve
  <2>1. \E label : pc' = [pc EXCEPT ![Main] = label]
    BY <1>8 DEF StartClean, EnsureDefaultNetwork, Serve
  <2>2. \A c \in Ctrs : pc'[c] = "up" => pc[c] = "up"
    BY <2>1
  <2>3. subnet' = subnet
    BY <1>8 DEF StartClean, EnsureDefaultNetwork, Serve
  <2>4. QED
    BY <1>a, <1>b, <2>2, <2>3
<1>9. CASE Crash \/ Reboot
  <2>1. \A c \in Ctrs : pc'[c] = "up" => pc[c] = "up"
    BY <1>9 DEF Crash, Reboot
  <2>2. subnet' = subnet
    BY <1>9 DEF Crash, Reboot
  <2>3. QED
    BY <1>a, <1>b, <2>1, <2>2
<1>10. CASE UNCHANGED vars
  BY <1>10, <1>a DEF vars, Users
<1>11. QED
  BY <1>1, <1>2, <1>3, <1>4, <1>5, <1>6, <1>7, <1>8, <1>9, <1>10 DEF Next

(* Networks take subnets as Allocator says, until the first overlap of UP       *)
(* requests: a subnet is taken while no network has it, a network in which a    *)
(* container runs keeps its own, and deaths, reboots and boots change neither   *)
THEOREM NetworksTakeSubnets == Spec => SubnetsAllocated
<1>1. Init => Subnetting!Init
  BY DEF Init, Subnetting!Init, Assigned, Users, Exists, Actors
<1>2. QED
  BY <1>1, StepAllocates, SerialNetsHold, PTL
     DEF Spec, SubnetsAllocated, Subnetting!Spec
===============================================================================
