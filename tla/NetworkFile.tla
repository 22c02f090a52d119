---------------------------- MODULE NetworkFile ----------------------------
(* The JSON file of one user network (network/config.go), which holds the    *)
(* addresses of its containers, and the calls that read and rewrite it:      *)
(* checkNetwork and CreateNetwork, addResolv, AllocateIP, AttachNetwork, and *)
(* at boot ReleaseIP and cleanNetworks.  No lock protects it: os.WriteFile   *)
(* opens and truncates the file in one system call and writes it in another, *)
(* and readers and other writers come in between.  AllocateIP, ReleaseIP and *)
(* SyncAllHosts keep the network's hosts file (HostsFile) in step with it.   *)
EXTENDS Integers, FiniteSets, HostsFile

CONSTANTS
  Main,        \* the daemon's main goroutine; a container is its UP goroutine
  LengthOf,    \* length of the JSON text of each configuration
  HostMax,     \* last usable host number (254 in the code)
  MaxOverlap,  \* bound on the UP requests that handle the network at one time
  MaxCrashes   \* bound on the number of daemon deaths

Actors == Ctrs \union {Main}
(* The host number of each container, 0 for none *)
Config == [Ctrs -> {0} \union 2..HostMax]

ASSUME ActorsAssumption == Main \notin Ctrs
ASSUME LengthAssumption == LengthOf \in [Config -> Nat \ {0}]
ASSUME BoundsAssumption == {HostMax, MaxOverlap, MaxCrashes} \subseteq Nat

VARIABLES
  exists,   \* the file exists
  good,     \* its content is JSON
  alloc,    \* the configuration that JSON is the text of
  size,     \* length of the file
  pc,       \* what each goroutine does next
  copy,     \* the configuration it has loaded and edited
  crashes,  \* daemon deaths so far
  torn,     \* history: a daemon has died between truncate and write
  alone     \* history: no two UP requests have ever overlapped

vars == <<exists, good, alloc, size, made, lines, pc, copy, crashes, torn, alone>>
file == <<exists, good, alloc, size>>
deaths == <<crashes, torn>>

Writing == {"createwrite", "write"}
Busy == {"check", "createopen", "createwrite", "resolv", "addhosts", "base",
         "allocate", "open", "write", "line", "attach"}
Pc == Busy \union {"idle", "held", "done", "failed", "lost"}
MainPc == {"serving", "off", "open", "write", "sync", "panicked"}

Empty == [c \in Ctrs |-> 0]

Init ==
  /\ exists = FALSE
  /\ good = FALSE
  /\ alloc = Empty
  /\ size = 0
  /\ pc = [a \in Actors |-> IF a = Main THEN "serving" ELSE "idle"]
  /\ copy = [a \in Actors |-> Empty]
  /\ crashes = 0
  /\ torn = FALSE
  /\ alone = TRUE
  /\ HostsInit

Go(a, label) == pc' = [pc EXCEPT ![a] = label]
(* GetNetwork *)
Readable == exists /\ good

(***************************************************************************)
(* os.WriteFile, as SaveConfig calls it.                                   *)
(***************************************************************************)
(* Mutant: the file is opened without O_TRUNC *)
OpenUntruncated == exists' = TRUE /\ UNCHANGED <<good, alloc, size>>

Truncate ==
  /\ exists' = TRUE
  /\ good' = FALSE
  /\ alloc' = Empty
  /\ size' = 0

(* The text goes to the start of whatever the file holds by now: the tail of *)
(* a longer text remains behind it, and the two together are not JSON        *)
Write(a) ==
  /\ IF size <= LengthOf[copy[a]]
       THEN good' = TRUE /\ alloc' = copy[a] /\ size' = LengthOf[copy[a]]
       ELSE good' = FALSE /\ alloc' = Empty /\ UNCHANGED size
  /\ UNCHANGED exists

(***************************************************************************)
(* UP.                                                                     *)
(***************************************************************************)
Starting == {c \in Ctrs : pc[c] \in Busy}

Up(c) ==
  /\ pc[Main] = "serving"
  /\ pc[c] = "idle"
  /\ Cardinality(Starting) < MaxOverlap
  /\ Go(c, "check")
  /\ alone' = (alone /\ Starting = {})
  /\ UNCHANGED <<file, hosts, copy, deaths>>

(* checkNetwork: a file that is not there is created, one that cannot be     *)
(* read is an error                                                          *)
CheckNetwork(c) ==
  /\ pc[c] = "check"
  /\ Go(c, IF ~exists THEN "createopen" ELSE IF good THEN "resolv" ELSE "failed")
  /\ copy' = [copy EXCEPT ![c] = Empty]
  /\ UNCHANGED <<file, hosts, deaths, alone>>

Open(a) ==
  /\ pc[a] \in {"open", "createopen"}
  /\ Go(a, IF pc[a] = "open" THEN "write" ELSE "createwrite")
  /\ Truncate
  /\ UNCHANGED <<hosts, copy, deaths, alone>>

(* The file stays when the bridge or the DNS server fails to come up *)
CreateNetwork(c) ==
  /\ pc[c] = "createwrite"
  /\ Write(c)
  /\ Go(c, "resolv") \/ Go(c, "failed")
  /\ UNCHANGED <<hosts, copy, deaths, alone>>

(* addResolv in the set-up and AttachNetwork after the start read the gateway *)
ReadGateway(c) ==
  /\ pc[c] \in {"resolv", "attach"}
  /\ Go(c, IF ~Readable THEN "failed" ELSE IF pc[c] = "resolv" THEN "addhosts" ELSE "held")
  /\ UNCHANGED <<file, hosts, copy, deaths, alone>>

(* addHosts looks for the hosts file and then writes the missing one, without *)
(* hostsMutex                                                                *)
AddHosts(c) ==
  /\ pc[c] = "addhosts"
  /\ Go(c, IF made THEN "allocate" ELSE "base")
  /\ UNCHANGED <<file, hosts, copy, deaths, alone>>

WriteBaseHosts(c) ==
  /\ pc[c] = "base"
  /\ WriteBase
  /\ Go(c, "allocate")
  /\ UNCHANGED <<file, copy, deaths, alone>>

(* Mutants: the scan starts at the gateway's number; no number is taken; those *)
(* of ended containers are free                                              *)
FreeFromOne == {h \in 1..HostMax : \A c \in Ctrs : alloc[c] # h}

FreeOfEnded ==
  {h \in 2..HostMax : \A c \in Ctrs : alloc[c] = h => pc[c] \in {"done", "failed", "lost"}}

FreeAny == 2..HostMax

Free == {h \in 2..HostMax : \A c \in Ctrs : alloc[c] # h}

AllocateIP(c) ==
  /\ pc[c] = "allocate"
  /\ IF ~Readable \/ Free = {}
       THEN Go(c, "failed") /\ UNCHANGED copy
       ELSE /\ Go(c, "open")
            /\ \E h \in Free :
                 /\ \A k \in Free : h <= k
                 /\ copy' = [copy EXCEPT ![c] = [alloc EXCEPT ![c] = h]]
  /\ UNCHANGED <<file, hosts, deaths, alone>>

SaveAllocation(c) ==
  /\ pc[c] = "write"
  /\ Write(c)
  /\ Go(c, "line")
  /\ UNCHANGED <<hosts, copy, deaths, alone>>

(* The address and the line stay when the veth pair or the process fails *)
EnterHosts(c) ==
  /\ pc[c] = "line"
  /\ AddContainer(c, copy[c][c])
  /\ Go(c, "attach") \/ Go(c, "failed")
  /\ UNCHANGED <<file, copy, deaths, alone>>

(* CleanupNetwork releases from zylo0, so nothing happens to this file *)
End(c) ==
  /\ pc[c] = "held"
  /\ Go(c, "done")
  /\ UNCHANGED <<file, hosts, copy, deaths, alone>>

(***************************************************************************)
(* The daemon dies and boots.                                              *)
(***************************************************************************)
Releasable(c) ==
  /\ pc[Main] = "off"
  /\ pc[c] \in {"lost", "done", "failed"}
  /\ Readable
  /\ alloc[c] # 0

HostsInHand ==
  \/ \E c \in Ctrs : pc[c] \in {"base", "line"} \/ Releasable(c)
  \/ pc[Main] = "sync"

Crash ==
  /\ crashes < MaxCrashes
  /\ pc[Main] # "panicked"
  /\ UNCHANGED hosts \/ (HostsInHand /\ TearHosts)
  /\ crashes' = crashes + 1
  /\ torn' = (torn \/ \E a \in Actors : pc[a] \in Writing)
  /\ pc' = [a \in Actors |->
              IF a = Main THEN "off" ELSE IF pc[a] \in Busy THEN "lost" ELSE pc[a]]
  /\ UNCHANGED <<file, copy, alone>>

(* releaseContainerFromAllNetworks, for a dead container with an entry; the   *)
(* lines go first.  A container without a name keeps its line until the sync  *)
Release(c) ==
  /\ Releasable(c)
  /\ copy' = [copy EXCEPT ![Main] = [alloc EXCEPT ![c] = 0]]
  /\ RemoveContainer(c, alloc[c])
  /\ Go(Main, "open")
  /\ UNCHANGED <<file, deaths, alone>>

SaveRelease ==
  /\ pc[Main] = "write"
  /\ Write(Main)
  /\ Go(Main, "off")
  /\ UNCHANGED <<hosts, copy, deaths, alone>>

(* cleanNetworks removes the file of a network without containers; for a     *)
(* file that cannot be read it dereferences the configuration it did not get *)
CleanNetworks ==
  /\ pc[Main] = "off"
  /\ IF exists /\ ~good
       THEN Go(Main, "panicked") /\ UNCHANGED file
       ELSE /\ Go(Main, "sync")
            /\ IF alloc = Empty
                 THEN exists' = FALSE /\ good' = FALSE /\ size' = 0 /\ UNCHANGED alloc
                 ELSE UNCHANGED file
  /\ UNCHANGED <<hosts, copy, deaths, alone>>

(* Mutant: the daemon serves with the hosts file it finds *)
SyncNoHosts ==
  /\ pc[Main] = "sync"
  /\ UNCHANGED hosts
  /\ Go(Main, "serving")
  /\ UNCHANGED <<file, copy, deaths, alone>>

SyncAllHosts ==
  /\ pc[Main] = "sync"
  /\ IF exists THEN UpdateAllContainers(alloc) ELSE UNCHANGED hosts
  /\ Go(Main, "serving")
  /\ UNCHANGED <<file, copy, deaths, alone>>

-----------------------------------------------------------------------------
Next ==
  \/ \E c \in Ctrs :
       Up(c) \/ CheckNetwork(c) \/ CreateNetwork(c) \/ ReadGateway(c) \/ AddHosts(c)
         \/ WriteBaseHosts(c) \/ AllocateIP(c) \/ SaveAllocation(c) \/ EnterHosts(c)
         \/ End(c) \/ Release(c)
  \/ \E a \in Actors : Open(a)
  \/ SaveRelease \/ CleanNetworks \/ SyncAllHosts \/ Crash

Spec == Init /\ [][Next]_vars

-----------------------------------------------------------------------------
TypeOK ==
  /\ {exists, good} \subseteq BOOLEAN
  /\ alloc \in Config
  /\ size \in Nat
  /\ HostsType
  /\ pc \in [Actors -> Pc \union MainPc]
  /\ copy \in [Actors -> Config]
  /\ crashes \in 0..MaxCrashes
  /\ {torn, alone} \subseteq BOOLEAN

Distinct(config) ==
  \A c, d \in Ctrs : c # d /\ config[c] # 0 => config[c] # config[d]

(* However requests, deaths and boots overlap, no configuration that can be   *)
(* read, and none on its way to the file, gives two containers one address    *)
AddressesDistinct == Distinct(alloc) /\ \A a \in Actors : Distinct(copy[a])

Holds(c) == pc[c] \in {"attach", "held"}

(* As long as UP requests have come one at a time and no daemon has died        *)
(* between truncate and write, the file can be read whenever nobody is writing  *)
(* it: no request fails over it and no boot panics                              *)
FileStaysWhole ==
  /\ alone /\ ~torn /\ (\A a \in Actors : pc[a] \notin Writing) => (exists => good)
  /\ alone /\ ~torn => pc[Main] # "panicked"

(* The file as its writer will leave it *)
Settled ==
  IF \E a \in Actors : pc[a] \in Writing
    THEN copy[CHOOSE a \in Actors : pc[a] \in Writing] ELSE alloc

Addressing == INSTANCE Allocator WITH
  held <- {<<c, Settled[c]>> : c \in {d \in Ctrs : Settled[d] # 0}},
  using <- {c \in Ctrs : Holds(c)},
  sound <- alone /\ ~torn

(* Containers take addresses as Allocator says, until the first overlap of UP   *)
(* requests or the first death between truncate and write                       *)
AddressesAllocated == Addressing!Spec

(* Until the first overlap of UP requests: while the daemon serves, a running   *)
(* container is in the hosts file with its address, unless a container whose    *)
(* name occurs in its line has come into the network                            *)
HolderIsListed ==
  alone /\ pc[Main] = "serving" /\ Readable =>
    \A c \in Ctrs :
      Holds(c) /\ (\A d \in Ctrs \ {c} : <<d, c>> \in NameIn => alloc[d] = 0)
        => Line(c, alloc[c]) \in lines

(* Until the first overlap of UP requests: lines of containers that have ended  *)
(* stay behind, but none leads to the address of another container that runs    *)
StaleNamesReachNoStranger ==
  alone /\ pc[Main] = "serving" =>
    \A l \in lines, c \in Ctrs :
      Holds(c) /\ l.host = copy[c][c] => l.name \in Unnamed \union {c}
=============================================================================
