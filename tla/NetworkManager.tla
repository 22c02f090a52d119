--------------------------- MODULE NetworkManager ---------------------------
(* The networks of the host: configuration files, subnets, bridges, their     *)
(* links to zylo0 and their DNS servers (network/manager.go, methods.go,      *)
(* config.go, utils.go), and what a boot does with them (cleanNetworks,       *)
(* EnsureDefaultNetwork, RestoreNetworks).  Loads and saves of one file are   *)
(* one step here; NetworkFile opens them.                                     *)
EXTENDS Integers, FiniteSets

CONSTANTS
  Ctrs,       \* containers; each is its UP goroutine
  Main,       \* the daemon's main goroutine
  MainNet,    \* zylo0
  Nets,       \* the other networks
  NetOf,      \* the network of each container
  MaxSubnet,  \* MAX_SUBNET
  MaxOverlap, \* bound on the UP requests that handle networks at one time
  MaxCrashes, \* bound on daemon deaths and host reboots
  MaxFaults   \* bound on failing calls into the kernel

AllNets == Nets \union {MainNet}
Subnets == 1..MaxSubnet
Actors == Ctrs \union {Main}

ASSUME NamesAssumption == Main \notin Ctrs /\ MainNet \notin Nets
ASSUME NetAssumption == NetOf \in [Ctrs -> Nets]
ASSUME BoundsAssumption == {MaxSubnet, MaxOverlap, MaxCrashes, MaxFaults} \subseteq Nat

VARIABLES
  subnet,   \* the subnet in each network's file, 0 if there is no file
  members,  \* the containers in the file
  bridge,   \* each network's bridge exists
  addrs,    \* the subnets whose gateway address the bridge has
  link,     \* the veth pair to zylo0: "none", "attached", or "loose" without its bridge
  servers,  \* the DNS servers: the network, the subnet, the containers it resolves
  pc,       \* what each goroutine does next
  pick,     \* the subnet it has found free
  todo,     \* the networks the boot has yet to visit
  crashes, faults,
  alone     \* history: no two UP requests have ever overlapped

vars == <<subnet, members, bridge, addrs, link, servers, pc, pick, todo, crashes,
          faults, alone>>
files == <<subnet, members>>
kernel == <<bridge, addrs, link>>
control == <<pick, todo, crashes, alone>>

Creating == {"check", "find", "save", "restore", "dns", "join"}
Pc == Creating \union {"idle", "up", "done", "failed", "lost"}
MainPc == {"off", "clean", "find", "save", "restore", "nets", "serving"}

Init ==
  /\ subnet = [n \in AllNets |-> 0]
  /\ members = [n \in AllNets |-> {}]
  /\ bridge = [n \in AllNets |-> FALSE]
  /\ addrs = [n \in AllNets |-> {}]
  /\ link = [n \in AllNets |-> "none"]
  /\ servers = {}
  /\ pc = [a \in Actors |-> IF a = Main THEN "off" ELSE "idle"]
  /\ pick = [a \in Actors |-> 0]
  /\ todo = {}
  /\ crashes = 0
  /\ faults = 0
  /\ alone = TRUE

Go(a, label) == pc' = [pc EXCEPT ![a] = label]

(***************************************************************************)
(* Files, subnets and bridges.                                             *)
(***************************************************************************)
Exists(n) == subnet[n] # 0
Target(a) == IF a = Main THEN MainNet ELSE NetOf[a]

Save(n, s, config) ==
  /\ subnet' = [subnet EXCEPT ![n] = s]
  /\ members' = [members EXCEPT ![n] = config]

(* ip route lists the subnet of every gateway address; the addresses of the   *)
(* interfaces end in .1 and never equal a subnet                              *)
Routes == UNION {addrs[n] : n \in AllNets}

(* Mutants: the scan looks at the routes only; at nothing; begins with 0 *)
FreeInKernel == Subnets \ Routes

FreeUnchecked == Subnets

FreeFromZero == (0..MaxSubnet) \ (Routes \union {subnet[n] : n \in {m \in AllNets : Exists(m)}})

Free == (Subnets \ Routes) \ {subnet[n] : n \in AllNets}

(* findFreeSubnet: the lowest one.  EnsureDefaultNetwork and CreateNetwork use *)
(* it alike; an error of the former ends the daemon                           *)
FindFreeSubnet(a) ==
  /\ pc[a] = "find"
  /\ IF Free = {}
       THEN Go(a, IF a = Main THEN "off" ELSE "failed") /\ UNCHANGED pick
       ELSE /\ Go(a, "save")
            /\ \E s \in Free :
                 /\ \A t \in Free : s <= t
                 /\ pick' = [pick EXCEPT ![a] = s]
  /\ UNCHANGED <<files, kernel, servers, todo, crashes, faults, alone>>

SaveConfig(a) ==
  /\ pc[a] = "save"
  /\ Save(Target(a), pick[a], {})
  /\ Go(a, "restore")
  /\ UNCHANGED <<kernel, servers, faults, control>>

(* restoreNetwork: the bridge with its gateway address, and the veth pair to  *)
(* zylo0 unless an interface of that name is there.  It fails without zylo0,  *)
(* and where adding the bridge or the pair fails, after what it has done      *)
AddBridge(n, s) ==
  /\ bridge' = [bridge EXCEPT ![n] = TRUE]
  /\ addrs' = [addrs EXCEPT ![n] = @ \union {s}]

NeedsLink(n) == n # MainNet /\ link[n] = "none"

RestoreDone(n, s) ==
  /\ n # MainNet => bridge[MainNet]
  /\ AddBridge(n, s)
  /\ link' = [link EXCEPT ![n] = IF NeedsLink(n) THEN "attached" ELSE @]
  /\ UNCHANGED faults

RestoreFails(n, s) ==
  \/ /\ n # MainNet /\ ~bridge[MainNet]
     /\ AddBridge(n, s)
     /\ UNCHANGED <<link, faults>>
  \/ /\ faults < MaxFaults
     /\ faults' = faults + 1
     /\ \/ ~bridge[n] /\ UNCHANGED kernel
        \/ NeedsLink(n) /\ AddBridge(n, s) /\ UNCHANGED link

RestoreNetwork(a) ==
  /\ pc[a] = "restore"
  /\ \/ /\ RestoreDone(Target(a), pick[a])
        /\ Go(a, IF a = Main THEN "nets" ELSE "dns")
     \/ /\ RestoreFails(Target(a), pick[a])
        /\ Go(a, IF a = Main THEN "off" ELSE "failed")
  /\ UNCHANGED <<files, servers, control>>

(* DNS.Start listens on the gateway address, which only one server can have   *)
CanListen(s) == s \in Routes /\ \A d \in servers : d.subnet # s

Server(n, s, config) == [net |-> n, subnet |-> s, knows |-> config]

(***************************************************************************)
(* UP: checkNetwork, CreateNetwork, SetupNetwork.                          *)
(***************************************************************************)
Starting == {c \in Ctrs : pc[c] \in Creating}

Up(c) ==
  /\ pc[Main] = "serving"
  /\ pc[c] = "idle"
  /\ Cardinality(Starting) < MaxOverlap
  /\ Go(c, "check")
  /\ alone' = (alone /\ Starting = {})
  /\ UNCHANGED <<files, kernel, servers, pick, todo, crashes, faults>>

(* Mutant: the network is created whether or not it is there *)
CreateAnyway(c) ==
  /\ pc[c] = "check"
  /\ Go(c, "find")
  /\ UNCHANGED <<files, kernel, servers, faults, control>>

(* A file that is there stands for the whole network *)
CheckNetwork(c) ==
  /\ pc[c] = "check"
  /\ Go(c, IF Exists(NetOf[c]) THEN "join" ELSE "find")
  /\ UNCHANGED <<files, kernel, servers, faults, control>>

(* The resolver keeps the configuration it was made with, which has no        *)
(* containers.  A server that is not listening after 5 s is an error          *)
StartDNS(c) ==
  /\ pc[c] = "dns"
  /\ IF CanListen(pick[c])
       THEN /\ Go(c, "join")
            /\ servers' = servers \union {Server(NetOf[c], pick[c], {})}
       ELSE Go(c, "failed") /\ UNCHANGED servers
  /\ UNCHANGED <<files, kernel, faults, control>>

(* SetupNetwork needs the bridge and the file *)
Join(c) ==
  /\ pc[c] = "join"
  /\ IF bridge[NetOf[c]] /\ Exists(NetOf[c])
       THEN /\ Go(c, "up")
            /\ members' = [members EXCEPT ![NetOf[c]] = @ \union {c}]
            /\ pick' = [pick EXCEPT ![c] = subnet[NetOf[c]]]
       ELSE Go(c, "failed") /\ UNCHANGED <<members, pick>>
  /\ UNCHANGED <<subnet, kernel, servers, todo, crashes, faults, alone>>

(* The release goes to zylo0: the container stays in its network's file *)
End(c) ==
  /\ pc[c] = "up"
  /\ Go(c, "done")
  /\ UNCHANGED <<files, kernel, servers, faults, control>>

(***************************************************************************)
(* Deaths, reboots and boots.                                              *)
(***************************************************************************)
Crash ==
  /\ crashes < MaxCrashes
  /\ crashes' = crashes + 1
  /\ pc' = [a \in Actors |->
              IF a = Main THEN "off" ELSE IF pc[a] \in Creating THEN "lost" ELSE pc[a]]
  /\ servers' = {}
  /\ UNCHANGED <<files, kernel, pick, todo, faults, alone>>

(* The kernel forgets, /var/lib does not *)
Reboot ==
  /\ crashes < MaxCrashes
  /\ crashes' = crashes + 1
  /\ pc' = [a \in Actors |->
              IF a = Main THEN "off" ELSE IF pc[a] = "idle" THEN "idle" ELSE "lost"]
  /\ servers' = {}
  /\ bridge' = [n \in AllNets |-> FALSE]
  /\ addrs' = [n \in AllNets |-> {}]
  /\ link' = [n \in AllNets |-> "none"]
  /\ UNCHANGED <<files, pick, todo, faults, alone>>

Dead(c) == pc[c] \in {"done", "failed", "lost"}

(* releaseContainerFromAllNetworks, for those dead containers whose rootfs a  *)
(* boot finds without a runtime directory                                     *)
Release(c) ==
  /\ pc[Main] = "off"
  /\ Dead(c)
  /\ \E n \in Nets : c \in members[n]
  /\ members' = [n \in AllNets |-> members[n] \ {c}]
  /\ UNCHANGED <<subnet, kernel, servers, pc, pick, todo, crashes, faults, alone>>

StartClean ==
  /\ pc[Main] = "off"
  /\ Go(Main, "clean")
  /\ todo' = {n \in Nets : Exists(n)}
  /\ UNCHANGED <<files, kernel, servers, pick, crashes, faults, alone>>

Unused(n) == members[n] = {}

(* cleanNetworks deletes the bridge and then the file, which the next boot      *)
(* makes up for if the daemon dies in between.  The veth pair stays            *)
CleanNetwork(n) ==
  /\ pc[Main] = "clean"
  /\ n \in todo
  /\ todo' = todo \ {n}
  /\ IF Unused(n)
       THEN /\ Save(n, 0, {})
            /\ bridge' = [bridge EXCEPT ![n] = FALSE]
            /\ addrs' = [addrs EXCEPT ![n] = {}]
            /\ link' = [link EXCEPT ![n] = IF @ = "attached" THEN "loose" ELSE @]
       ELSE UNCHANGED <<files, kernel>>
  /\ UNCHANGED <<servers, pc, pick, crashes, faults, alone>>

EnsureDefaultNetwork ==
  /\ pc[Main] = "clean"
  /\ todo = {}
  /\ todo' = {n \in Nets : Exists(n)}
  /\ pick' = [pick EXCEPT ![Main] = subnet[MainNet]]
  /\ Go(Main, IF ~Exists(MainNet) THEN "find"
              ELSE IF bridge[MainNet] THEN "nets" ELSE "restore")
  /\ UNCHANGED <<files, kernel, servers, crashes, faults, alone>>

(* Mutant: a network whose bridge is there is left alone, as zylo0 is *)
RestoreMissing(n) ==
  /\ pc[Main] = "nets"
  /\ n \in todo
  /\ todo' = todo \ {n}
  /\ IF bridge[n] THEN UNCHANGED <<kernel, servers, faults>>
       ELSE /\ RestoreDone(n, subnet[n])
            /\ servers' = servers \union {Server(n, subnet[n], members[n])}
  /\ UNCHANGED <<files, pc, pick, crashes, alone>>

(* RestoreNetworks goes on after a failure.  These resolvers keep the         *)
(* containers the file has at this boot                                       *)
RestoreNetworks(n) ==
  /\ pc[Main] = "nets"
  /\ n \in todo
  /\ todo' = todo \ {n}
  /\ RestoreDone(n, subnet[n]) \/ RestoreFails(n, subnet[n])
  /\ servers' = IF subnet[n] \in Routes' /\ (\A d \in servers : d.subnet # subnet[n])
                  THEN servers \union {Server(n, subnet[n], members[n])} ELSE servers
  /\ UNCHANGED <<files, pc, pick, crashes, alone>>

Serve ==
  /\ pc[Main] = "nets"
  /\ todo = {}
  /\ Go(Main, "serving")
  /\ UNCHANGED <<files, kernel, servers, faults, control>>

-----------------------------------------------------------------------------
Next ==
  \/ \E a \in Actors : FindFreeSubnet(a) \/ SaveConfig(a) \/ RestoreNetwork(a)
  \/ \E c \in Ctrs :
       Up(c) \/ CheckNetwork(c) \/ StartDNS(c) \/ Join(c) \/ End(c) \/ Release(c)
  \/ \E n \in Nets : CleanNetwork(n) \/ RestoreNetworks(n)
  \/ StartClean \/ EnsureDefaultNetwork \/ Serve \/ Crash \/ Reboot

Spec == Init /\ [][Next]_vars

-----------------------------------------------------------------------------
TypeOK ==
  /\ subnet \in [AllNets -> 0..MaxSubnet]
  /\ members \in [AllNets -> SUBSET Ctrs]
  /\ bridge \in [AllNets -> BOOLEAN]
  /\ addrs \in [AllNets -> SUBSET Subnets]
  /\ link \in [AllNets -> {"none", "attached", "loose"}]
  /\ servers \subseteq [net : Nets, subnet : Subnets, knows : SUBSET Ctrs]
  /\ pc \in [Actors -> Pc \union MainPc]
  /\ pick \in [Actors -> 0..MaxSubnet]
  /\ todo \subseteq Nets
  /\ crashes \in 0..MaxCrashes
  /\ faults \in 0..MaxFaults
  /\ alone \in BOOLEAN

(* However creations overlap and whenever the daemon dies or the host boots, no *)
(* other network gets the subnet of zylo0, in its file or on its bridge         *)
MainSubnetIsOwn ==
  Exists(MainNet) =>
    \A n \in Nets : subnet[n] # subnet[MainNet] /\ subnet[MainNet] \notin addrs[n]

(* Until the first overlap of UP requests: the network a running container was  *)
(* started in keeps its file, its subnet and the container, and no other bridge *)
(* answers for that subnet, through deaths, reboots, boots and failures         *)
ContainersKeepNetwork ==
  alone => \A c \in Ctrs : pc[c] = "up" =>
    /\ c \in members[NetOf[c]]
    /\ subnet[NetOf[c]] = pick[c]
    /\ \A n \in AllNets \ {NetOf[c]} : pick[c] \notin addrs[n]

BeingMade(n) == \E c \in Ctrs : NetOf[c] = n /\ pc[c] \in {"restore", "dns"}

(* Until the first overlap and the first failing call: while the daemon serves, *)
(* a network that has a file has its bridge with that gateway, the pair and a   *)
(* DNS server; zylo0 has its bridge                                             *)
NetworksAreWhole ==
  alone /\ faults = 0 /\ pc[Main] = "serving" =>
    \A n \in AllNets : Exists(n) /\ ~BeingMade(n) =>
      /\ bridge[n]
      /\ addrs[n] = {subnet[n]}
      /\ n # MainNet =>
           link[n] # "none" /\ \E d \in servers : d.net = n /\ d.subnet = subnet[n]

Assigned == {<<n, subnet[n]>> : n \in {m \in AllNets : Exists(m)}}
Users == {NetOf[c] : c \in {d \in Ctrs : pc[d] = "up"}}

Subnetting == INSTANCE Allocator WITH held <- Assigned, using <- Users, sound <- alone

(* Networks take subnets as Allocator says, until the first overlap of UP requests: *)
(* a subnet is taken while no network has it, a network in which a container runs   *)
(* keeps its own, and deaths, reboots and boots change neither                      *)
SubnetsAllocated == Subnetting!Spec

(* resolver.go:36, "Local resolution: container hostnames": a running container's *)
(* name resolves at the server of its network                                   *)
RunningIsResolved ==
  alone /\ faults = 0 /\ pc[Main] = "serving" =>
    \A c \in Ctrs : pc[c] = "up" =>
      \E d \in servers : d.net = NetOf[c] /\ c \in d.knows
=============================================================================
