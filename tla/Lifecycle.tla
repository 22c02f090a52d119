------------------------------ MODULE Lifecycle ------------------------------
(* The life of zylo containers: the goroutine that serves an UP request, the *)
(* goroutines that serve DOWN, PS and the other requests, the main goroutine *)
(* that cleans up at boot, and the resources they share on disk and in the   *)
(* kernel (internal/container, daemon/server.go, daemon/cleanup.go).         *)
(*                                                                           *)
(* A step is one call into another package, one file operation or one        *)
(* signal.  A call that edits a registry (names, volumes, a network's        *)
(* addresses) is one step here; NameRegistry, VolumeRegistry and NetworkFile *)
(* open those calls up.                                                      *)
EXTENDS Integers, FiniteSets, SequencesExt

CONSTANTS
  Ctrs,        \* containers; each has a fresh random ID and is started once
  Clients,     \* goroutines serving the requests other than UP
  Main,        \* the daemon's main goroutine
  NoCtr,       \* no container
  NetOf,       \* the ZyloFile's NETWORK of a container, or NoNet
  MainNet,     \* global.MainNetName, "zylo0"
  NoNet,       \* no NETWORK line
  PortOf,      \* host port published by a container, or NoPort
  NoPort,
  VolOf,       \* host path of a container's volume, or NoVol
  NoVol,
  NameOf,      \* name of a container, or NoName
  NoName,
  PathOf,      \* the directory a container was started from
  HostMax,     \* last usable host number of a subnet (254 in the code)
  Faults,      \* the steps whose system calls may fail
  MaxCrashes   \* bound on the number of daemon deaths

Actors == Ctrs \union Clients \union {Main}

ASSUME ActorsAssumption ==
  /\ Ctrs \intersect Clients = {}
  /\ Main \notin Ctrs \union Clients
  /\ NoCtr \notin Ctrs
ASSUME HostMaxAssumption == HostMax \in Nat /\ MaxCrashes \in Nat

VARIABLES
  pc,        \* what each goroutine does next
  target,    \* the container it is working on
  todo,      \* containers it has listed and not yet visited
  proc,      \* the container's init process
  rt,        \* files in the container's runtime directory ({}: no directory)
  rootfs,    \* containers whose rootfs directory exists
  names,     \* containers (IDs) the name registry has an entry for
  marked,    \* containers listed in the usedBy of their volume
  ip,        \* host number allocated in the container's network, 0 for none
  nat,       \* the ZYLO chain of iptables, in order
  crashes    \* daemon deaths so far

vars == <<pc, target, todo, proc, rt, rootfs, names, marked, ip, nat, crashes>>
disk == <<rt, rootfs, names, marked, ip, nat>>

(***************************************************************************)
(* Control points.                                                         *)
(***************************************************************************)
Sweeping == {"sweep", "sweepnet", "sweepdir"}
Preparing == {"check", "ports", "volumes", "setup", "name", "logs", "mark",
              "address", "forward", "start"}
Running == {"probe", "json", "pid", "attach", "wait"}
Downing == {"read", "term", "await", "await9", "unmark", "net", "unname",
            "rmdir", "rmroot"}
Reclaiming == {"unmark", "net", "unname", "rmdir", "rmroot"}
Finished == {"started", "failed", "lost"}
CtrPc == {"idle", "cleanup"} \union Sweeping \union Preparing \union Running
           \union Downing \union Finished
ClientPc == {"idle", "request", "next"} \union Sweeping \union Downing
MainPc == {"off", "bootrt", "purge", "purgedir", "purgeroot", "bootlib",
           "release", "purgelib", "rootlib", "serving"}

RtFile == {"logs", "json", "pid"}

(* syscall.Kill(pid, 0) == nil: a zombie still answers *)
Exists(c) == proc[c] \in {"running", "zombie"}
Listed == {c \in Ctrs : "json" \in rt[c]}
Serving == pc[Main] = "serving"

Rule(c) == [port |-> PortOf[c], net |-> NetOf[c], host |-> ip[c]]
Go(a, label) == pc' = [pc EXCEPT ![a] = label]
Fail(step) == step \in Faults

Init ==
  /\ pc = [a \in Actors |-> IF a = Main THEN "off" ELSE "idle"]
  /\ target = [a \in Actors |-> NoCtr]
  /\ todo = [a \in Actors |-> {}]
  /\ proc = [c \in Ctrs |-> "none"]
  /\ rt = [c \in Ctrs |-> {}]
  /\ rootfs = {}
  /\ names = {}
  /\ marked = {}
  /\ ip = [c \in Ctrs |-> 0]
  /\ nat = <<>>
  /\ crashes = 0

(***************************************************************************)
(* Every request first runs RuntimeCleanup, the sweep: each listed          *)
(* container whose process is gone loses its port rule, its address (in     *)
(* the wrong network, see ReleaseIP) and its runtime directory.             *)
(***************************************************************************)
Request(a) ==
  /\ Serving
  /\ a # Main
  /\ pc[a] = "idle"
  /\ Go(a, "sweep")
  /\ todo' = [todo EXCEPT ![a] = {c \in Ctrs : rt[c] # {}}]
  /\ UNCHANGED <<target, proc, disk, crashes>>

(* Mutant: the sweep forgets to ask whether the process is alive *)
SweepVisitBlind(a) ==
  /\ pc[a] = "sweep"
  /\ \E c \in todo[a] :
       /\ todo' = [todo EXCEPT ![a] = @ \ {c}]
       /\ IF "json" \in rt[c]
            THEN Go(a, "sweepnet") /\ target' = [target EXCEPT ![a] = c]
            ELSE UNCHANGED <<pc, target>>
  /\ UNCHANGED <<proc, disk, crashes>>

SweepVisit(a) ==
  /\ pc[a] = "sweep"
  /\ \E c \in todo[a] :
       /\ todo' = [todo EXCEPT ![a] = @ \ {c}]
       /\ IF "json" \in rt[c] /\ ~Exists(c)
            THEN Go(a, "sweepnet") /\ target' = [target EXCEPT ![a] = c]
            ELSE UNCHANGED <<pc, target>>
  /\ UNCHANGED <<proc, disk, crashes>>

SweepDone(a) ==
  /\ pc[a] = "sweep"
  /\ todo[a] = {}
  /\ Go(a, IF a \in Ctrs THEN "check" ELSE "request")
  /\ target' = [target EXCEPT ![a] = IF a \in Ctrs THEN a ELSE NoCtr]
  /\ UNCHANGED <<todo, proc, disk, crashes>>

(* Deletes the container's entry from the given network, if it is there *)
ReleaseIP(net, c) ==
  ip' = IF NetOf[c] = net THEN [ip EXCEPT ![c] = 0] ELSE ip

(* iptables -D removes the first matching rule and fails when there is none *)
RemovePortForward(c) ==
  nat' = IF PortOf[c] = NoPort THEN nat ELSE RemoveFirst(nat, Rule(c))

(* CleanupNetwork does nothing for a record without an address.  ip[c] is    *)
(* the recorded address too: no recorded container is in MainNet, so nothing *)
(* is released before its record is gone                                     *)
CleanupNetwork(c) ==
  IF ip[c] = 0 THEN UNCHANGED <<ip, nat>>
               ELSE ReleaseIP(MainNet, c) /\ RemovePortForward(c)

SweepNetwork(a) ==
  /\ pc[a] = "sweepnet"
  /\ Go(a, "sweepdir")
  /\ CleanupNetwork(target[a])
  /\ UNCHANGED <<target, todo, proc, rt, rootfs, names, marked, crashes>>

SweepDir(a) ==
  /\ pc[a] = "sweepdir"
  /\ Go(a, "sweep")
  /\ rt' = [rt EXCEPT ![target[a]] = {}]
  /\ UNCHANGED <<target, todo, proc, rootfs, names, marked, ip, nat, crashes>>

Sweep(a) == SweepVisit(a) \/ SweepDone(a) \/ SweepNetwork(a) \/ SweepDir(a)

(***************************************************************************)
(* UP: the checks, the set-up, and run() up to cmd.Wait.  The goroutine of  *)
(* container c is c itself.                                                 *)
(***************************************************************************)
CheckNetwork(c) ==
  /\ pc[c] = "check"
  /\ \/ NetOf[c] # MainNet /\ Go(c, "ports")
     \/ (NetOf[c] = MainNet \/ Fail("config")) /\ Go(c, "failed")
  /\ UNCHANGED <<target, todo, proc, disk, crashes>>

PortTaken(c) ==
  PortOf[c] # NoPort /\ \E d \in Listed : PortOf[d] = PortOf[c]

(* A foreign listener on the port (IsPortFree) refuses it as well *)
CheckPorts(c) ==
  /\ pc[c] = "ports"
  /\ \/ ~PortTaken(c) /\ Go(c, "volumes")
     \/ (PortTaken(c) \/ Fail("config")) /\ Go(c, "failed")
  /\ UNCHANGED <<target, todo, proc, disk, crashes>>

VolumeInUse(c) ==
  /\ VolOf[c] # NoVol
  /\ \E d \in Listed : "pid" \in rt[d] /\ Exists(d) /\ VolOf[d] = VolOf[c]

CheckVolumes(c) ==
  /\ pc[c] = "volumes"
  /\ Go(c, IF VolumeInUse(c) THEN "failed" ELSE "setup")
  /\ UNCHANGED <<target, todo, proc, disk, crashes>>

(* The rootfs is created first; addResolv then looks up the network "" of a *)
(* container without NETWORK and fails.  Nothing is undone on failure.      *)
Setup(c) ==
  /\ pc[c] = "setup"
  /\ rootfs' = rootfs \union {c}
  /\ \/ NetOf[c] # NoNet /\ Go(c, "name")
     \/ (NetOf[c] = NoNet \/ Fail("setup")) /\ Go(c, "failed")
  /\ UNCHANGED <<target, todo, proc, rt, names, marked, ip, nat, crashes>>

NameTaken(c) == NameOf[c] # NoName /\ \E d \in names : NameOf[d] = NameOf[c]

(* checkName: an unnamed container is registered under a generated name *)
CheckName(c) ==
  /\ pc[c] = "name"
  /\ IF NameTaken(c)
       THEN Go(c, "failed") /\ UNCHANGED names
       ELSE Go(c, "logs") /\ names' = names \union {c}
  /\ UNCHANGED <<target, todo, proc, rt, rootfs, marked, ip, nat, crashes>>

(* res.NewManager creates the runtime directory; run() returns before its   *)
(* deferred cleanup is installed when it fails                              *)
NewManager(c) ==
  /\ pc[c] = "logs"
  /\ \/ Go(c, "mark") /\ rt' = [rt EXCEPT ![c] = {"logs"}]
     \/ Fail("logs") /\ Go(c, "failed") /\ UNCHANGED rt
  /\ UNCHANGED <<target, todo, proc, rootfs, names, marked, ip, nat, crashes>>

MarkVolumeUsed(c) ==
  /\ pc[c] = "mark"
  /\ Go(c, "address")
  /\ marked' = IF VolOf[c] = NoVol THEN marked ELSE marked \union {c}
  /\ UNCHANGED <<target, todo, proc, rt, rootfs, names, ip, nat, crashes>>

(* Mutant: the scan starts at the gateway's number *)
FreeHostsFromOne(c) ==
  {h \in 1..HostMax : \A d \in Ctrs : NetOf[d] = NetOf[c] => ip[d] # h}

FreeHosts(c) ==
  {h \in 2..HostMax : \A d \in Ctrs : NetOf[d] = NetOf[c] => ip[d] # h}

(* SetupNetwork, first half: AllocateIP takes the lowest free host number;  *)
(* the veth pair may then fail to be created                                *)
AllocateIP(c) ==
  /\ pc[c] = "address"
  /\ IF FreeHosts(c) = {}
       THEN Go(c, "cleanup") /\ UNCHANGED ip
       ELSE \E h \in FreeHosts(c) :
              /\ \A k \in FreeHosts(c) : h <= k
              /\ ip' = [ip EXCEPT ![c] = h]
              /\ \/ Go(c, "forward")
                 \/ Fail("network") /\ Go(c, "cleanup")
  /\ UNCHANGED <<target, todo, proc, rt, rootfs, names, marked, nat, crashes>>

(* SetupNetwork, second half: the rule is appended to the chain *)
PortForward(c) ==
  /\ pc[c] = "forward"
  /\ \/ /\ Go(c, "start")
        /\ nat' = IF PortOf[c] = NoPort THEN nat ELSE Append(nat, Rule(c))
     \/ /\ PortOf[c] # NoPort /\ Fail("network")
        /\ Go(c, "cleanup") /\ UNCHANGED nat
  /\ UNCHANGED <<target, todo, proc, rt, rootfs, names, marked, ip, crashes>>

Start(c) ==
  /\ pc[c] = "start"
  /\ \/ Go(c, "probe") /\ proc' = [proc EXCEPT ![c] = "running"]
     \/ Fail("start") /\ Go(c, "cleanup") /\ UNCHANGED proc
  /\ UNCHANGED <<target, todo, disk, crashes>>

(* 200 ms after Start; a dead child is a zombie and passes the test *)
Probe(c) ==
  /\ pc[c] = "probe"
  /\ Go(c, IF Exists(c) THEN "json" ELSE "cleanup")
  /\ UNCHANGED <<target, todo, proc, disk, crashes>>

(* cmd.Process.Kill of a child nobody has waited for *)
KillChild(c) == proc' = [proc EXCEPT ![c] = IF @ = "running" THEN "zombie" ELSE @]

(* persistContainerState: container.json, then the pid file *)
WriteJSON(c) ==
  /\ pc[c] = "json"
  /\ \/ Go(c, "pid") /\ rt' = [rt EXCEPT ![c] = @ \union {"json"}] /\ UNCHANGED proc
     \/ Fail("persist") /\ Go(c, "cleanup") /\ KillChild(c) /\ UNCHANGED rt
  /\ UNCHANGED <<target, todo, rootfs, names, marked, ip, nat, crashes>>

WritePID(c) ==
  /\ pc[c] = "pid"
  /\ \/ Go(c, "attach") /\ rt' = [rt EXCEPT ![c] = @ \union {"pid"}] /\ UNCHANGED proc
     \/ Fail("persist") /\ Go(c, "cleanup") /\ KillChild(c) /\ UNCHANGED rt
  /\ UNCHANGED <<target, todo, rootfs, names, marked, ip, nat, crashes>>

(* Moving the interface into the network namespace needs a live process *)
AttachNetwork(c) ==
  /\ pc[c] = "attach"
  /\ \/ proc[c] = "running" /\ Go(c, "wait") /\ UNCHANGED proc
     \/ (proc[c] # "running" \/ Fail("attach")) /\ Go(c, "cleanup") /\ KillChild(c)
  /\ UNCHANGED <<target, todo, disk, crashes>>

(* cmd.Wait returns: the zombie is reaped *)
Reap(c) ==
  /\ pc[c] = "wait"
  /\ proc[c] = "zombie"
  /\ proc' = [proc EXCEPT ![c] = "gone"]
  /\ Go(c, "cleanup")
  /\ UNCHANGED <<target, todo, disk, crashes>>

(* The deferred cleanup: volumes are unmarked, UnregisterName is called with *)
(* the name where it expects the ID and finds nothing, then down() runs      *)
Cleanup(c) ==
  /\ pc[c] = "cleanup"
  /\ marked' = marked \ {c}
  /\ Go(c, "read")
  /\ UNCHANGED <<target, todo, proc, rt, rootfs, names, ip, nat, crashes>>

Up(c) ==
  \/ CheckNetwork(c) \/ CheckPorts(c) \/ CheckVolumes(c) \/ Setup(c)
  \/ CheckName(c) \/ NewManager(c) \/ MarkVolumeUsed(c) \/ AllocateIP(c)
  \/ PortForward(c) \/ Start(c) \/ Probe(c) \/ WriteJSON(c) \/ WritePID(c)
  \/ AttachNetwork(c) \/ Reap(c) \/ Cleanup(c)

(***************************************************************************)
(* down(): shared by the DOWN request and by the cleanup of run().          *)
(***************************************************************************)
(* Where a goroutine goes when its down() returns: a client to the next     *)
(* container, Up to its reply, which only asks whether a pid was ever set   *)
AfterDown(a) ==
  IF a \notin Ctrs THEN "next"
  ELSE IF proc[a] = "none" THEN "failed" ELSE "started"

ReadJSON(a) ==
  /\ pc[a] = "read"
  /\ Go(a, IF target[a] \in Listed THEN "term" ELSE AfterDown(a))
  /\ UNCHANGED <<target, todo, proc, disk, crashes>>

(* SIGTERM: whether the process dies of it is up to the process (Exit) *)
Terminate(a) ==
  /\ pc[a] = "term"
  /\ Go(a, "await")
  /\ UNCHANGED <<target, todo, proc, disk, crashes>>

Died(c) == IF pc[c] = "lost" THEN "gone" ELSE "zombie"

(* Mutant: the timer repeats SIGTERM *)
TimeoutTerm(a) ==
  /\ pc[a] = "await"
  /\ Exists(target[a])
  /\ Go(a, "await9")
  /\ UNCHANGED <<target, todo, proc, disk, crashes>>

(* The 10 s timer fires once: SIGKILL *)
Timeout(a) ==
  /\ pc[a] = "await"
  /\ Exists(target[a])
  /\ Go(a, "await9")
  /\ proc' = [proc EXCEPT ![target[a]] = IF @ = "running" THEN Died(target[a]) ELSE @]
  /\ UNCHANGED <<target, todo, disk, crashes>>

(* Mutant: the wait loop is left without a look at the process *)
DeadUnchecked(a) ==
  /\ pc[a] \in {"await", "await9"}
  /\ Go(a, "unmark")
  /\ UNCHANGED <<target, todo, proc, disk, crashes>>

Dead(a) ==
  /\ pc[a] \in {"await", "await9"}
  /\ ~Exists(target[a])
  /\ Go(a, "unmark")
  /\ UNCHANGED <<target, todo, proc, disk, crashes>>

Unmark(a) ==
  /\ pc[a] = "unmark"
  /\ Go(a, "net")
  /\ marked' = marked \ {target[a]}
  /\ UNCHANGED <<target, todo, proc, rt, rootfs, names, ip, nat, crashes>>

DownNetwork(a) ==
  /\ pc[a] = "net"
  /\ Go(a, "unname")
  /\ CleanupNetwork(target[a])
  /\ UNCHANGED <<target, todo, proc, rt, rootfs, names, marked, crashes>>

Unname(a) ==
  /\ pc[a] = "unname"
  /\ Go(a, "rmdir")
  /\ names' = IF NameOf[target[a]] = NoName THEN names ELSE names \ {target[a]}
  /\ UNCHANGED <<target, todo, proc, rt, rootfs, marked, ip, nat, crashes>>

(* Mutant: only the rootfs is removed *)
RemoveDirForgotten(a) ==
  /\ pc[a] = "rmdir"
  /\ Go(a, "rmroot")
  /\ UNCHANGED <<target, todo, proc, disk, crashes>>

RemoveDir(a) ==
  /\ pc[a] = "rmdir"
  /\ \/ Go(a, "rmroot") /\ rt' = [rt EXCEPT ![target[a]] = {}]
     \/ Fail("rm") /\ Go(a, AfterDown(a)) /\ UNCHANGED rt
  /\ UNCHANGED <<target, todo, proc, rootfs, names, marked, ip, nat, crashes>>

RemoveRootfs(a) ==
  /\ pc[a] = "rmroot"
  /\ Go(a, AfterDown(a))
  /\ \/ rootfs' = rootfs \ {target[a]}
     \/ Fail("rm") /\ UNCHANGED rootfs
  /\ UNCHANGED <<target, todo, proc, rt, names, marked, ip, nat, crashes>>

Down(a) ==
  \/ ReadJSON(a) \/ Terminate(a) \/ Timeout(a) \/ Dead(a) \/ Unmark(a)
  \/ DownNetwork(a) \/ Unname(a) \/ RemoveDir(a) \/ RemoveRootfs(a)

(***************************************************************************)
(* The requests of a client, once their sweep is over.                      *)
(***************************************************************************)
DownByHash(a) ==
  /\ pc[a] = "request"
  /\ \E c \in Ctrs : todo' = [todo EXCEPT ![a] = {c}]
  /\ Go(a, "next")
  /\ UNCHANGED <<target, proc, disk, crashes>>

DownByPath(a) ==
  /\ pc[a] = "request"
  /\ \E p \in {PathOf[c] : c \in Ctrs} :
       todo' = [todo EXCEPT ![a] = {c \in Listed : PathOf[c] = p}]
  /\ Go(a, "next")
  /\ UNCHANGED <<target, proc, disk, crashes>>

(* PS, LOGS and the image and volume requests only read what is here *)
OtherRequest(a) ==
  /\ pc[a] = "request"
  /\ Go(a, "idle")
  /\ UNCHANGED <<target, todo, proc, disk, crashes>>

NextDown(a) ==
  /\ pc[a] = "next"
  /\ \/ /\ todo[a] = {}
        /\ Go(a, "idle")
        /\ target' = [target EXCEPT ![a] = NoCtr]
        /\ UNCHANGED todo
     \/ \E c \in todo[a] :
          /\ todo' = [todo EXCEPT ![a] = @ \ {c}]
          /\ target' = [target EXCEPT ![a] = c]
          /\ Go(a, "read")
  /\ UNCHANGED <<proc, disk, crashes>>

ClientStep(a) ==
  DownByHash(a) \/ DownByPath(a) \/ OtherRequest(a) \/ NextDown(a)

(***************************************************************************)
(* The container's own process, and the death of the daemon.                *)
(***************************************************************************)
Exit(c) ==
  /\ proc[c] = "running"
  /\ proc' = [proc EXCEPT ![c] = Died(c)]
  /\ UNCHANGED <<pc, target, todo, disk, crashes>>

(* zylod down sends SIGKILL, so a stop and a crash look alike: goroutines    *)
(* vanish, containers live on, init adopts and reaps them                    *)
Crash ==
  /\ pc[Main] # "off"
  /\ crashes < MaxCrashes
  /\ crashes' = crashes + 1
  /\ pc' = [a \in Actors |->
              IF a = Main THEN "off"
              ELSE IF a \in Clients \/ pc[a] = "idle" THEN "idle"
              ELSE IF pc[a] \in Finished THEN pc[a] ELSE "lost"]
  /\ target' = [a \in Actors |-> NoCtr]
  /\ todo' = [a \in Actors |-> {}]
  /\ proc' = [c \in Ctrs |-> IF proc[c] = "zombie" THEN "gone" ELSE proc[c]]
  /\ UNCHANGED disk

(***************************************************************************)
(* daemon.Up: InitCleanUp, then the server.                                 *)
(***************************************************************************)
BootStart ==
  /\ pc[Main] = "off"
  /\ Go(Main, "bootrt")
  /\ todo' = [todo EXCEPT ![Main] = {c \in Ctrs : rt[c] # {}}]
  /\ UNCHANGED <<target, proc, disk, crashes>>

BootAlive(c) == "pid" \in rt[c] /\ Exists(c)

BootVisitRuntime ==
  /\ pc[Main] = "bootrt"
  /\ \/ \E c \in todo[Main] :
          /\ todo' = [todo EXCEPT ![Main] = @ \ {c}]
          /\ IF BootAlive(c)
               THEN UNCHANGED <<pc, target>>
               ELSE Go(Main, "purge") /\ target' = [target EXCEPT ![Main] = c]
     \/ /\ todo[Main] = {}
        /\ Go(Main, "bootlib")
        /\ todo' = [todo EXCEPT ![Main] = rootfs]
        /\ UNCHANGED target
  /\ UNCHANGED <<proc, disk, crashes>>

(* Mutant: the name stays registered *)
BootPurgeKeepsName ==
  /\ pc[Main] \in {"purge", "purgelib"}
  /\ Go(Main, IF pc[Main] = "purge" THEN "purgedir" ELSE "rootlib")
  /\ marked' = marked \ {target[Main]}
  /\ UNCHANGED <<target, todo, proc, rt, rootfs, names, ip, nat, crashes>>

(* cleanContainerResources: marks and name by ID; not the address, not the rule *)
BootPurge ==
  /\ pc[Main] \in {"purge", "purgelib"}
  /\ Go(Main, IF pc[Main] = "purge" THEN "purgedir" ELSE "rootlib")
  /\ marked' = marked \ {target[Main]}
  /\ names' = names \ {target[Main]}
  /\ UNCHANGED <<target, todo, proc, rt, rootfs, ip, nat, crashes>>

BootPurgeDir ==
  /\ pc[Main] = "purgedir"
  /\ Go(Main, "purgeroot")
  /\ rt' = [rt EXCEPT ![target[Main]] = {}]
  /\ UNCHANGED <<target, todo, proc, rootfs, names, marked, ip, nat, crashes>>

BootPurgeRootfs ==
  /\ pc[Main] \in {"purgeroot", "rootlib"}
  /\ Go(Main, IF pc[Main] = "purgeroot" THEN "bootrt" ELSE "bootlib")
  /\ rootfs' = rootfs \ {target[Main]}
  /\ UNCHANGED <<target, todo, proc, rt, names, marked, ip, nat, crashes>>

(* Mutant: every rootfs is taken for an orphan *)
BootVisitLibAll ==
  /\ pc[Main] = "bootlib"
  /\ \/ \E c \in todo[Main] :
          /\ todo' = [todo EXCEPT ![Main] = @ \ {c}]
          /\ Go(Main, "release") /\ target' = [target EXCEPT ![Main] = c]
     \/ /\ todo[Main] = {}
        /\ Go(Main, "serving")
        /\ target' = [target EXCEPT ![Main] = NoCtr]
        /\ UNCHANGED todo
  /\ UNCHANGED <<proc, disk, crashes>>

BootVisitLib ==
  /\ pc[Main] = "bootlib"
  /\ \/ \E c \in todo[Main] :
          /\ todo' = [todo EXCEPT ![Main] = @ \ {c}]
          /\ IF rt[c] # {}
               THEN UNCHANGED <<pc, target>>
               ELSE Go(Main, "release") /\ target' = [target EXCEPT ![Main] = c]
     \/ /\ todo[Main] = {}
        /\ Go(Main, "serving")
        /\ target' = [target EXCEPT ![Main] = NoCtr]
        /\ UNCHANGED todo
  /\ UNCHANGED <<proc, disk, crashes>>

(* releaseContainerFromAllNetworks *)
BootRelease ==
  /\ pc[Main] = "release"
  /\ Go(Main, "purgelib")
  /\ ReleaseIP(NetOf[target[Main]], target[Main])
  /\ UNCHANGED <<target, todo, proc, rt, rootfs, names, marked, nat, crashes>>

Boot == \/ BootVisitRuntime \/ BootPurge \/ BootPurgeDir \/ BootPurgeRootfs
        \/ BootVisitLib \/ BootRelease

-----------------------------------------------------------------------------
Step(a) ==
  \/ Sweep(a)
  \/ a \in Ctrs /\ Up(a)
  \/ a \in Ctrs \union Clients /\ Down(a)
  \/ a \in Clients /\ ClientStep(a)

Next ==
  \/ \E a \in Ctrs \union Clients : Request(a) \/ Step(a)
  \/ \E c \in Ctrs : Exit(c)
  \/ Crash
  \/ BootStart
  \/ Boot

(* Goroutines run, timers fire and children are reaped; nothing makes a     *)
(* client call, a container exit, the daemon die or an operator start it    *)
Fairness ==
  /\ \A a \in Ctrs \union Clients : WF_vars(Step(a))
  /\ WF_vars(Boot)

Spec == Init /\ [][Next]_vars
FairSpec == Spec /\ Fairness

-----------------------------------------------------------------------------
(***************************************************************************)
(* Properties.                                                             *)
(***************************************************************************)
PcOK ==
  /\ pc \in [Actors -> CtrPc \union ClientPc \union MainPc]
  /\ \A c \in Ctrs : pc[c] \in CtrPc
  /\ \A a \in Clients : pc[a] \in ClientPc
  /\ pc[Main] \in MainPc

NatRule == [port : {PortOf[c] : c \in Ctrs}, net : {NetOf[c] : c \in Ctrs},
            host : {0} \union 2..HostMax]

TypeOK ==
  /\ PcOK
  /\ target \in [Actors -> Ctrs \union {NoCtr}]
  /\ todo \in [Actors -> SUBSET Ctrs]
  /\ proc \in [Ctrs -> {"none", "running", "zombie", "gone"}]
  /\ rt \in [Ctrs -> SUBSET RtFile]
  /\ rootfs \subseteq Ctrs
  /\ names \subseteq Ctrs
  /\ marked \subseteq Ctrs
  /\ ip \in [Ctrs -> {0} \union 2..HostMax]
  /\ nat \in Seq(NatRule)
  /\ crashes \in 0..MaxCrashes

(* A container the daemon knows to be running: recorded with its pid, alive *)
Recorded(c) == proc[c] = "running" /\ {"json", "pid"} \subseteq rt[c]

HasRule(c) == \E i \in DOMAIN nat : nat[i] = Rule(c)
Owns(c) ==
  /\ c \in rootfs
  /\ c \in names
  /\ VolOf[c] # NoVol => c \in marked
  /\ ip[c] # 0
  /\ PortOf[c] # NoPort => HasRule(c)

(* No request, sweep, cleanup of another container, crash or boot takes      *)
(* anything from a recorded running container: it keeps its rootfs, its      *)
(* name, its volume's usage mark, its address and its port rule              *)
RecordedOwnsResources == \A c \in Ctrs : Recorded(c) => Owns(c)

(* The record of a container disappears only after its process has: a sweep, *)
(* a down that waits in another goroutine or a boot never erases a container *)
(* whose pid is on disk while it still runs                                  *)
RecordOutlivesProcess ==
  [][\A c \in Ctrs : Recorded(c) => rt'[c] = rt[c]]_vars

(* What ListContainers returns can be used: a listed container still has its *)
(* rootfs, whichever of down, sweep and boot is half-way through removing it *)
ListedHasRootfs == Listed \subseteq rootfs

(* When the boot clean-up ends nothing of a dead run is left on disk except   *)
(* addresses and rules: every runtime directory belongs to a container that   *)
(* had a pid file, and every rootfs, usage mark and chosen name has a runtime *)
(* directory                                                                  *)
BootReclaims ==
  [][pc[Main] = "bootlib" /\ pc'[Main] = "serving" =>
       \A c \in Ctrs :
         /\ rt[c] # {} => "pid" \in rt[c]
         /\ c \in rootfs \union marked => rt[c] # {}
         /\ c \in names /\ NameOf[c] # NoName => rt[c] # {}]_vars

(* Somebody will reap the process when it ends: its goroutine is in cmd.Wait, *)
(* or has died with an earlier daemon                                         *)
WaitedFor(c) == pc[c] \in {"wait", "lost"}

(* A DOWN of a container that is running or orphaned ends, also when the      *)
(* process ignores SIGTERM, unless the daemon dies first                      *)
DownCompletes ==
  \A a \in Clients, c \in Ctrs :
    (pc[a] = "await" /\ target[a] = c /\ WaitedFor(c))
      ~> (pc[a] \in {"next", "idle"})

(* A container whose process has been reaped leaves no runtime directory, no  *)
(* matter which of its own cleanup, a DOWN and a sweep come in between        *)
ReapedIsReclaimed ==
  \A c \in Ctrs :
    (pc[c] = "cleanup" /\ proc[c] = "gone") ~> (rt[c] = {} \/ ~Serving)
-----------------------------------------------------------------------------
(***************************************************************************)
(* The invariant that makes the ownership of resources inductive: what each *)
(* goroutine knows of the container it works on, at each control point.     *)
(***************************************************************************)
(* A container whose process has not started, and what it has acquired so far *)
Acquires ==
  \A c \in Ctrs :
    /\ pc[c] \in {"idle"} \union Sweeping \union Preparing => proc[c] = "none"
    /\ pc[c] \in {"name", "logs", "mark", "address", "forward", "start"} => c \in rootfs
    /\ pc[c] \in {"logs", "mark", "address", "forward", "start"} => c \in names
    /\ pc[c] \in {"address", "forward", "start"} => (VolOf[c] # NoVol => c \in marked)
    /\ pc[c] \in {"forward", "start"} => ip[c] # 0
    /\ pc[c] = "start" => (PortOf[c] # NoPort => HasRule(c))

(* Until its goroutine has reaped it a process exists, and owns what it needs; *)
(* its goroutine cleans up after a process that does not run                  *)
Keeps ==
  \A c \in Ctrs :
    /\ pc[c] \in Running => Exists(c) /\ Owns(c)
    /\ pc[c] = "cleanup" => proc[c] # "running"

(* Whoever takes resources away works on a container that is gone for good *)
TakesFromGone ==
  \A a \in Ctrs \union Clients :
    /\ pc[a] \in {"sweepnet", "sweepdir"} \union Reclaiming =>
         target[a] \in Ctrs /\ proc[target[a]] = "gone"
    /\ pc[a] \in {"term", "await", "await9"} =>
         target[a] \in Ctrs /\ proc[target[a]] # "none"
    /\ pc[a] = "rmroot" => rt[target[a]] = {}

(* The boot works alone, and on containers without a live pid *)
BootsAlone ==
  /\ ~Serving => \A a \in Ctrs \union Clients : pc[a] \in {"idle"} \union Finished
  /\ pc[Main] \in {"purge", "purgedir", "purgeroot", "release", "purgelib", "rootlib"} =>
       target[Main] \in Ctrs /\ ~BootAlive(target[Main])
  /\ pc[Main] \in {"purgeroot", "release", "purgelib", "rootlib"} => rt[target[Main]] = {}

ListedHasRun == \A c \in Listed : proc[c] # "none"

(* Two containers of a network never have one address, so the rule of one is *)
(* never taken for the rule of the other                                     *)
AddressesApart ==
  \A c, d \in Ctrs : c # d /\ NetOf[c] = NetOf[d] /\ ip[c] # 0 => ip[c] # ip[d]

(* Whoever is about to take something from a container knows that it is gone, *)
(* and whoever starts or runs one still has all it has acquired               *)
Ownership ==
  /\ TypeOK
  /\ Acquires
  /\ Keeps
  /\ TakesFromGone
  /\ BootsAlone
  /\ ListedHasRun
  /\ AddressesApart
  /\ RecordedOwnsResources
  /\ ListedHasRootfs

-----------------------------------------------------------------------------
(* README.md:116, zylo down "Stops and removes a container": every DOWN that  *)
(* waits for a process gets to an end                                         *)
DownAlwaysCompletes ==
  \A a \in Clients :
    (pc[a] \in {"await", "await9"}) ~> (pc[a] \notin {"await", "await9"})
=============================================================================
