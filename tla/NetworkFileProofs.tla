-------------------------- MODULE NetworkFileProofs --------------------------
(* Proofs about NetworkFile for any containers, names, addresses, lengths of  *)
(* text, bounds on overlap and number of daemon deaths: what holds of a       *)
(* network's file and its hosts file however UP requests overlap, what holds  *)
(* while they come one at a time, and that the file then is an Allocator.     *)
EXTENDS NetworkFile, TLAPS

-----------------------------------------------------------------------------
(* However requests overlap: the main goroutine has control points of its own, *)
(* nobody starts a container before the daemon serves, an opened file stays,   *)
(* and a file that is not JSON gives no addresses                              *)
Roles == pc[Main] \in MainPc /\ \A c \in Ctrs : pc[c] \in Pc

Booting == pc[Main] # "serving" => Starting = {}

FileThere ==
  /\ \A a \in Actors : pc[a] \in Writing => exists
  /\ ~exists => ~good
  /\ ~good => alloc = Empty

FileInvariant == TypeOK /\ Roles /\ Booting /\ FileThere /\ AddressesDistinct

LEMMA EmptyConfig == Empty \in Config /\ Distinct(Empty) /\ \A c \in Ctrs : Empty[c] = 0
BY DEF Empty, Config, Distinct

(* A free number given to a container, or a number taken from it, leaves the   *)
(* addresses distinct                                                          *)
LEMMA FreeIsDistinct ==
  ASSUME alloc \in Config, Distinct(alloc), NEW c \in Ctrs, NEW h \in Free
  PROVE  [alloc EXCEPT ![c] = h] \in Config /\ Distinct([alloc EXCEPT ![c] = h])
BY DEF Config, Distinct, Free

LEMMA ReleasedIsDistinct ==
  ASSUME alloc \in Config, Distinct(alloc), NEW c \in Ctrs
  PROVE  [alloc EXCEPT ![c] = 0] \in Config /\ Distinct([alloc EXCEPT ![c] = 0])
BY DEF Config, Distinct

(* Every edit of the hosts file leaves lines of the type *)
LEMMA HostsTyped ==
  ASSUME HostsType
  PROVE  /\ (WriteBase \/ TearHosts) => HostsType'
         /\ \A c \in Ctrs, h \in Nat : (AddContainer(c, h) \/ RemoveContainer(c, h)) => HostsType'
         /\ \A config \in Config : UpdateAllContainers(config) => HostsType'
<1> USE DEF HostsType, Base, Line
<1>1. \A l \in Content : l.name \in Ctrs \union {Localhost} /\ l.host \in Nat
  BY DEF Content
<1>2. (WriteBase \/ TearHosts) => HostsType'
  <2>1. CASE WriteBase
    BY <2>1 DEF WriteBase
  <2>2. CASE TearHosts
    BY <2>2 DEF TearHosts
  <2>3. QED
    BY <2>1, <2>2
<1>3. ASSUME NEW c \in Ctrs, NEW h \in Nat, AddContainer(c, h) \/ RemoveContainer(c, h) PROVE HostsType'
  <2>1. CASE AddContainer(c, h)
    BY <1>1, <2>1 DEF AddContainer, Without
  <2>2. CASE RemoveContainer(c, h)
    BY <1>1, <2>2 DEF RemoveContainer, Without
  <2>3. QED
    BY <1>3, <2>1, <2>2
<1>4. ASSUME NEW config \in Config, UpdateAllContainers(config) PROVE HostsType'
  <2>1. \A c \in Ctrs : config[c] \in Nat
    BY DEF Config
  <2>2. QED
    BY <1>4, <2>1 DEF UpdateAllContainers
<1>5. QED
  BY <1>2, <1>3, <1>4

LEMMA FileInitially == Init => FileInvariant
<1> SUFFICES ASSUME Init PROVE FileInvariant
  OBVIOUS
<1> USE EmptyConfig, ActorsAssumption, BoundsAssumption DEF Init, Actors, Pc, MainPc, Busy, Writing
<1>1. HostsType
  BY DEF HostsInit, HostsType
<1>2. pc \in [Actors -> Pc \union MainPc] /\ copy \in [Actors -> Config] /\ crashes \in 0..MaxCrashes
  OBVIOUS
<1>3. TypeOK
  BY <1>1, <1>2 DEF TypeOK
<1>4. Roles /\ Booting /\ FileThere /\ AddressesDistinct
  BY DEF Roles, Booting, FileThere, AddressesDistinct
<1>5. QED
  BY <1>3, <1>4 DEF FileInvariant

LEMMA FilePreserved == FileInvariant /\ [Next]_vars => FileInvariant'
<1> SUFFICES ASSUME FileInvariant, [Next]_vars PROVE FileInvariant'
  OBVIOUS
<1> USE ActorsAssumption, EmptyConfig
    DEF FileInvariant, TypeOK, Roles, Booting, Starting, FileThere, AddressesDistinct, HostsType, Actors,
        Go, file, hosts, deaths, Pc, MainPc, Busy, Writing
<1>1. ASSUME NEW c \in Ctrs, Up(c) PROVE FileInvariant'
  BY <1>1 DEF Up
<1>2. ASSUME NEW c \in Ctrs, CheckNetwork(c) PROVE FileInvariant'
  BY <1>2 DEF CheckNetwork
<1>3. ASSUME NEW a \in Actors, Open(a) PROVE FileInvariant'
  BY <1>3 DEF Open, Truncate
<1>w. ASSUME NEW a \in Actors, Write(a), pc[a] \in Writing
      PROVE  /\ exists' = exists /\ good' \in BOOLEAN /\ alloc' \in Config /\ size' \in Nat
             /\ ~exists' => ~good'
             /\ ~good' => alloc' = Empty
             /\ Distinct(alloc')
  <2>1. copy[a] \in Config /\ Distinct(copy[a]) /\ LengthOf[copy[a]] \in Nat /\ exists
    BY <1>w, LengthAssumption
  <2>2. CASE size <= LengthOf[copy[a]]
    BY <1>w, <2>1, <2>2 DEF Write
  <2>3. CASE ~(size <= LengthOf[copy[a]])
    BY <1>w, <2>1, <2>3 DEF Write
  <2>4. QED
    BY <2>2, <2>3
<1>4. ASSUME NEW c \in Ctrs, CreateNetwork(c) PROVE FileInvariant'
  BY <1>4, <1>w DEF CreateNetwork
<1>5. ASSUME NEW c \in Ctrs, ReadGateway(c) PROVE FileInvariant'
  BY <1>5 DEF ReadGateway
<1>6. ASSUME NEW c \in Ctrs, AddHosts(c) PROVE FileInvariant'
  BY <1>6 DEF AddHosts
<1>7. ASSUME NEW c \in Ctrs, WriteBaseHosts(c) PROVE FileInvariant'
  BY <1>7, HostsTyped DEF WriteBaseHosts
<1>8. ASSUME NEW c \in Ctrs, AllocateIP(c) PROVE FileInvariant'
  BY <1>8, FreeIsDistinct DEF AllocateIP
<1>9. ASSUME NEW c \in Ctrs, SaveAllocation(c) PROVE FileInvariant'
  BY <1>9, <1>w DEF SaveAllocation
<1>10. ASSUME NEW c \in Ctrs, EnterHosts(c) PROVE FileInvariant'
  <2>1. copy[c][c] \in Nat
    BY DEF Config
  <2>2. HostsType'
    BY <1>10, <2>1, HostsTyped DEF EnterHosts
  <2>3. QED
    BY <1>10, <2>2 DEF EnterHosts
<1>11. ASSUME NEW c \in Ctrs, End(c) PROVE FileInvariant'
  BY <1>11 DEF End
<1>12. ASSUME NEW c \in Ctrs, Release(c) PROVE FileInvariant'
  <2>1. alloc[c] \in Nat
    BY DEF Config
  <2>2. HostsType'
    BY <1>12, <2>1, HostsTyped DEF Release
  <2>3. QED
    BY <1>12, <2>2, ReleasedIsDistinct DEF Release, Releasable
<1>13. CASE SaveRelease
  BY <1>13, <1>w DEF SaveRelease
<1>14. CASE CleanNetworks
  <2>1. UNCHANGED <<made, lines, copy, crashes, torn, alone>> /\ pc[Main] = "off"
    BY <1>14 DEF CleanNetworks
  <2>2. UNCHANGED file \/ (alloc = Empty /\ exists' = FALSE /\ good' = FALSE /\ size' = 0 /\ UNCHANGED alloc)
    BY <1>14 DEF CleanNetworks
  <2>3. pc' = [pc EXCEPT ![Main] = "panicked"] \/ pc' = [pc EXCEPT ![Main] = "sync"]
    BY <1>14 DEF CleanNetworks
  <2>4. \A a \in Actors : pc'[a] \notin Writing
    BY <2>1, <2>3
  <2>5. FileThere' /\ Booting' /\ Roles'
    BY <2>1, <2>2, <2>3, <2>4
  <2>6. AddressesDistinct' /\ HostsType'
    BY <2>1, <2>2
  <2>7. /\ pc' \in [Actors -> Pc \union MainPc]
        /\ exists' \in BOOLEAN /\ good' \in BOOLEAN /\ alloc' \in Config /\ size' \in Nat
    <3>1. exists' \in BOOLEAN /\ good' \in BOOLEAN /\ alloc' \in Config /\ size' \in Nat
      <4>1. CASE UNCHANGED file
        BY <4>1
      <4>2. CASE /\ exists' = FALSE /\ good' = FALSE /\ size' = 0 /\ UNCHANGED alloc
        BY <4>2
      <4>3. QED
        BY <2>2, <4>1, <4>2
    <3>2. pc' \in [Actors -> Pc \union MainPc]
      BY <2>3
    <3>3. QED
      BY <3>1, <3>2
  <2>8. QED
    BY <2>1, <2>5, <2>6, <2>7
<1>15. CASE SyncAllHosts
  <2>1. HostsType'
    BY <1>15, HostsTyped DEF SyncAllHosts
  <2>2. QED
    BY <1>15, <2>1 DEF SyncAllHosts
<1>16. CASE Crash
  <2>1. HostsType'
    BY <1>16, HostsTyped DEF Crash
  <2>2. crashes' \in 0..MaxCrashes /\ torn' \in BOOLEAN
    BY <1>16, BoundsAssumption DEF Crash
  <2>3. /\ pc' \in [Actors -> Pc \union MainPc] /\ pc'[Main] = "off"
        /\ \A c \in Ctrs : pc'[c] \in Pc \ Busy
    BY <1>16 DEF Crash
  <2>4. UNCHANGED <<file, copy, alone>>
    BY <1>16 DEF Crash
  <2>5. QED
    BY <2>1, <2>2, <2>3, <2>4
<1>17. CASE UNCHANGED vars
  BY <1>17 DEF vars
<1>18. QED
  BY <1>1, <1>2, <1>3, <1>4, <1>5, <1>6, <1>7, <1>8, <1>9, <1>10, <1>11, <1>12, <1>13, <1>14,
     <1>15, <1>16, <1>17 DEF Next

(* What holds of a network's files however requests, deaths and boots overlap  *)
THEOREM FileInvariantHolds == Spec => []FileInvariant
BY FileInitially, FilePreserved, PTL DEF Spec

(* The state of a network keeps its types for any containers, names, addresses *)
(* and lengths of text                                                         *)
THEOREM FileTypeCorrect == Spec => []TypeOK
BY FileInvariantHolds, PTL DEF FileInvariant

(* No configuration that can be read or is about to be written gives two       *)
(* containers one address, whatever overlaps                                   *)
THEOREM AddressesAreDistinct == Spec => []AddressesDistinct
BY FileInvariantHolds, PTL DEF FileInvariant

-----------------------------------------------------------------------------
(* While UP requests have come one at a time *)
OneStart == \A c, d \in Starting : c = d

(* Only who writes sees the file otherwise than as a whole *)
WholeOrOpen ==
  /\ \A a \in Actors : pc[a] \in Writing => ~good /\ size = 0
  /\ (\A a \in Actors : pc[a] \notin Writing) => (exists => good)
  /\ pc[Main] # "panicked"

Owning == {"write", "line", "attach", "held"}
Unallocated == Pc \ (Owning \union {"done", "failed", "lost"})

(* A container has an address from the write of its allocation, and keeps it  *)
(* until it has ended                                                         *)
AddressesFit ==
  \A c \in Ctrs :
    /\ pc[c] \in Unallocated => Settled[c] = 0
    /\ pc[c] \in Owning => Settled[c] # 0 /\ copy[c][c] = Settled[c]

(* The lines that lead to the container c *)
Listed(c) == \E l \in lines : l.name = c /\ l.host # 0

(* What is about to be written is the file with one address more or less *)
EditsFit ==
  /\ \A c \in Ctrs :
       /\ pc[c] \in {"createopen", "createwrite"} => copy[c] = Empty /\ Settled = Empty
       /\ pc[c] = "open" => copy[c][c] # 0 /\ copy[c] = [Settled EXCEPT ![c] = copy[c][c]]
  /\ pc[Main] = "open" =>
       \E c \in Ctrs :
         /\ pc[c] \in {"lost", "done", "failed"}
         /\ Settled[c] # 0
         /\ copy[Main] = [Settled EXCEPT ![c] = 0]
         /\ Listed(c) => c \in Unnamed

(* A line with an address is that of its holder, or nameless *)
LinesFit ==
  \A l \in lines :
    l.host # 0 => l.name \in Unnamed \/ (l.name \in Ctrs /\ Settled[l.name] = l.host)

(* The hosts file is there before the first line, and while the daemon serves  *)
(* only a container whose name occurs in it takes a line away                  *)
HoldersListed ==
  /\ \A c \in Ctrs : (Holds(c) => made) /\ (pc[c] = "base" => ~made)
  /\ pc[Main] = "serving" =>
       \A c \in Ctrs :
         Holds(c) /\ (\A d \in Ctrs \ {c} : <<d, c>> \in NameIn => Settled[d] = 0)
           => Line(c, copy[c][c]) \in lines

(* A file torn by a death stays so: the next boot panics over it *)
TornForGood == pc[Main] \in {"off", "panicked"} /\ exists /\ ~good

WholeFile == WholeOrOpen /\ AddressesFit /\ EditsFit /\ LinesFit /\ HoldersListed

SerialFile ==
  alone =>
    /\ OneStart
    /\ torn => TornForGood
    /\ ~torn => WholeFile

LEMMA SerialInitially == Init => SerialFile
<1> SUFFICES ASSUME Init PROVE SerialFile
  OBVIOUS
<1> USE EmptyConfig, ActorsAssumption DEF Init, HostsInit, Actors, Pc, Busy, Writing, Owning, Unallocated
<1>1. Settled = Empty
  BY DEF Settled
<1>2. OneStart /\ WholeOrOpen
  BY DEF OneStart, Starting, WholeOrOpen
<1>3. AddressesFit /\ EditsFit /\ LinesFit /\ HoldersListed
  BY <1>1 DEF AddressesFit, EditsFit, LinesFit, HoldersListed, Holds
<1>4. QED
  BY <1>2, <1>3 DEF SerialFile, WholeFile

(* While requests come one at a time, one goroutine at most is at work on the  *)
(* files, an UP request or the main goroutine at boot                          *)
LEMMA OneAtWork ==
  ASSUME FileInvariant, OneStart,
         NEW a \in Actors, NEW b \in Actors, pc[a] \in Busy, pc[b] \in Busy
  PROVE  a = b
BY DEF FileInvariant, Roles, Booting, OneStart, Starting, Actors, Busy, MainPc

LEMMA OneStartPreserved ==
  ASSUME FileInvariant, alone => OneStart, [Next]_vars, alone'
  PROVE  alone /\ OneStart /\ OneStart'
<1> USE ActorsAssumption DEF FileInvariant, TypeOK, Actors, Go, Starting, Busy, OneStart
<1>1. ASSUME NEW c \in Ctrs, Up(c) PROVE alone /\ OneStart /\ OneStart'
  BY <1>1 DEF Up
<1>2. CASE /\ alone /\ Starting' \subseteq Starting
  BY <1>2
<1>m. ASSUME alone, NEW a \in Actors, NEW label, Go(a, label), pc[a] \in Busy \/ label \notin Busy \/ a = Main
      PROVE  alone /\ OneStart /\ OneStart'
  <2>1. \A c \in Ctrs : pc'[c] \in Busy => pc[c] \in Busy
    BY <1>m
  <2>2. QED
    BY <1>2, <1>m, <2>1
<1>3. ASSUME NEW c \in Ctrs,
             CheckNetwork(c) \/ CreateNetwork(c) \/ ReadGateway(c) \/ AddHosts(c) \/ WriteBaseHosts(c)
      PROVE  alone /\ OneStart /\ OneStart'
  <2>1. c \in Actors /\ alone /\ pc[c] \in Busy
    BY <1>3 DEF CheckNetwork, CreateNetwork, ReadGateway, AddHosts, WriteBaseHosts
  <2>2. \E label : Go(c, label)
    BY <1>3 DEF CheckNetwork, CreateNetwork, ReadGateway, AddHosts, WriteBaseHosts
  <2>3. QED
    BY <1>m, <2>1, <2>2
<1>4. ASSUME NEW c \in Ctrs, AllocateIP(c) \/ SaveAllocation(c) \/ EnterHosts(c) \/ End(c) \/ Release(c)
      PROVE  alone /\ OneStart /\ OneStart'
  <2>1. c \in Actors /\ Main \in Actors /\ alone
    BY <1>4 DEF AllocateIP, SaveAllocation, EnterHosts, End, Release
  <2>2. CASE AllocateIP(c) \/ SaveAllocation(c) \/ EnterHosts(c)
    <3>1. pc[c] \in Busy /\ \E label : Go(c, label)
      BY <2>2 DEF AllocateIP, SaveAllocation, EnterHosts
    <3>2. QED
      BY <1>m, <2>1, <3>1
  <2>3. CASE End(c)
    <3>1. Go(c, "done") /\ "done" \notin Busy
      BY <2>3 DEF End
    <3>2. QED
      BY <1>m, <2>1, <3>1
  <2>4. CASE Release(c)
    <3>1. Go(Main, "open")
      BY <2>4 DEF Release
    <3>2. QED
      BY <1>m, <2>1, <3>1
  <2>5. QED
    BY <1>4, <2>2, <2>3, <2>4
<1>5. ASSUME NEW a \in Actors, Open(a) PROVE alone /\ OneStart /\ OneStart'
  BY <1>2, <1>5 DEF Open
<1>6. CASE SaveRelease \/ CleanNetworks \/ SyncAllHosts
  <2>1. Main \in Actors /\ alone
    BY <1>6 DEF SaveRelease, CleanNetworks, SyncAllHosts
  <2>2. \E label : Go(Main, label)
    BY <1>6 DEF SaveRelease, CleanNetworks, SyncAllHosts
  <2>3. QED
    BY <1>m, <2>1, <2>2
<1>7. CASE Crash
  <2>1. alone /\ \A c \in Ctrs : pc'[c] \in Busy => pc[c] \in Busy
    BY <1>7 DEF Crash
  <2>2. QED
    BY <1>2, <2>1
<1>8. CASE UNCHANGED vars
  BY <1>2, <1>8 DEF vars
<1>9. QED
  BY <1>1, <1>3, <1>4, <1>5, <1>6, <1>7, <1>8 DEF Next

(* A death while a file is open tears it, and then it stays torn *)
LEMMA TornPreserved ==
  ASSUME FileInvariant, OneStart, torn => TornForGood, ~torn => WholeOrOpen, [Next]_vars, torn'
  PROVE  TornForGood'
<1> USE ActorsAssumption DEF FileInvariant, TypeOK, Roles, FileThere, Actors, Go, TornForGood
<1>1. CASE torn
  <2>1. pc[Main] \in {"off", "panicked"} /\ exists /\ ~good /\ \A c \in Ctrs : pc[c] \notin Busy
    BY <1>1 DEF Booting, Starting
  <2>2. \A a \in Actors : pc[a] \notin Busy
    BY <2>1 DEF Busy
  <2>3. ASSUME NEW c \in Ctrs, Up(c) \/ End(c) PROVE TornForGood'
    <3>1. End(c)
      BY <2>1, <2>3 DEF Up
    <3>2. pc'[Main] = pc[Main]
      BY <3>1 DEF End
    <3>3. UNCHANGED file
      BY <3>1 DEF End
    <3>4. QED
      BY <2>1, <3>2, <3>3 DEF file
  <2>4. ASSUME NEW c \in Ctrs,
               \/ CheckNetwork(c) \/ CreateNetwork(c) \/ ReadGateway(c) \/ AddHosts(c) \/ WriteBaseHosts(c)
               \/ AllocateIP(c) \/ SaveAllocation(c) \/ EnterHosts(c) \/ Release(c)
        PROVE  FALSE
    BY <2>1, <2>4 DEF CheckNetwork, CreateNetwork, ReadGateway, AddHosts, WriteBaseHosts,
       AllocateIP, SaveAllocation, EnterHosts, Release, Releasable, Readable, Busy
  <2>5. ASSUME NEW a \in Actors, Open(a) PROVE FALSE
    BY <2>2, <2>5 DEF Open, Busy
  <2>6. CASE SaveRelease \/ SyncAllHosts
    BY <2>1, <2>6 DEF SaveRelease, SyncAllHosts
  <2>7. CASE CleanNetworks
    BY <2>1, <2>7 DEF CleanNetworks, file
  <2>8. CASE Crash
    BY <2>1, <2>8 DEF Crash, file
  <2>9. CASE UNCHANGED vars
    BY <2>1, <2>9 DEF vars
  <2>10. QED
    BY <2>3, <2>4, <2>5, <2>6, <2>7, <2>8, <2>9 DEF Next
<1>2. CASE ~torn
  <2>1. Crash
    BY <1>2 DEF Next, vars, deaths, Up, CheckNetwork, CreateNetwork, ReadGateway, AddHosts, WriteBaseHosts, AllocateIP,
       SaveAllocation, EnterHosts, End, Release, Open, SaveRelease, CleanNetworks, SyncAllHosts
  <2>2. PICK a \in Actors : pc[a] \in Writing
    BY <1>2, <2>1 DEF Crash
  <2>3. exists /\ ~good /\ UNCHANGED file /\ pc'[Main] = "off"
    BY <1>2, <2>1, <2>2 DEF Crash, WholeOrOpen
  <2>4. QED
    BY <2>3 DEF file
<1>3. QED
  BY <1>1, <1>2

-----------------------------------------------------------------------------
(* The file as its writer will leave it, seen from the writer, from all others, *)
(* and by a step that neither opens it nor ends its writing                     *)
LEMMA SettledIsFile ==
  ASSUME \A a \in Actors : pc[a] \notin Writing
  PROVE  Settled = alloc
BY DEF Settled

LEMMA SettledIsCopy ==
  ASSUME FileInvariant, OneStart, NEW a \in Actors, pc[a] \in Writing
  PROVE  Settled = copy[a]
<1>1. \A b \in Actors : pc[b] \in Writing => b = a
  BY OneAtWork DEF Writing, Busy
<1>2. (CHOOSE b \in Actors : pc[b] \in Writing) = a
  BY <1>1
<1>3. QED
  BY <1>2 DEF Settled

LEMMA SettledStays ==
  ASSUME FileInvariant, OneStart,
         \A a \in Actors : pc'[a] \in Writing <=> pc[a] \in Writing,
         \A a \in Actors : pc[a] \in Writing => copy'[a] = copy[a],
         (\A a \in Actors : pc[a] \notin Writing) => alloc' = alloc
  PROVE  Settled' = Settled
<1>1. CASE \A a \in Actors : pc[a] \notin Writing
  BY <1>1 DEF Settled
<1>2. ASSUME NEW a \in Actors, pc[a] \in Writing PROVE Settled' = Settled
  <2>1. \A b \in Actors : pc'[b] \in Writing => b = a
    BY <1>2, OneAtWork DEF Writing, Busy
  <2>2. (CHOOSE b \in Actors : pc'[b] \in Writing) = a
    BY <1>2, <2>1
  <2>3. Settled' = copy'[a]
    BY <1>2, <2>2 DEF Settled
  <2>4. QED
    BY <1>2, <2>3, SettledIsCopy
<1>3. QED
  BY <1>1, <1>2

LEMMA OpenSettles ==
  ASSUME FileInvariant, OneStart, NEW a \in Actors, Open(a)
  PROVE  Settled = alloc /\ Settled' = copy[a] /\ pc'[a] \in Writing
<1> USE DEF FileInvariant, TypeOK, Actors, Go, Writing, Busy
<1>1. \A b \in Actors : pc[b] \in Writing => b = a
  BY OneAtWork DEF Open
<1>2. \A b \in Actors : pc[b] \notin Writing
  BY <1>1 DEF Open
<1>3. pc'[a] \in Writing /\ copy' = copy /\ \A b \in Actors : pc'[b] \in Writing => b = a
  BY <1>2 DEF Open
<1>4. (CHOOSE b \in Actors : pc'[b] \in Writing) = a
  BY <1>3
<1>5. QED
  BY <1>2, <1>3, <1>4 DEF Settled

LEMMA WriteSettles ==
  ASSUME FileInvariant, OneStart, WholeOrOpen,
         NEW a \in Actors, pc[a] \in Writing, Write(a), copy' = copy,
         NEW label \in {"resolv", "failed", "line", "off"}, Go(a, label)
  PROVE  /\ exists' /\ good' /\ alloc' = Settled /\ Settled' = Settled
         /\ \A b \in Actors : pc'[b] \notin Writing
<1> USE DEF FileInvariant, TypeOK, Actors, Go, Writing
<1>1. LengthOf[copy[a]] \in Nat /\ size = 0 /\ exists
  BY LengthAssumption DEF WholeOrOpen, FileThere
<1>2. exists' /\ good' /\ alloc' = copy[a]
  BY <1>1 DEF Write
<1>3. \A b \in Actors : pc'[b] \notin Writing
  BY OneAtWork DEF Busy
<1>4. Settled' = alloc'
  BY <1>3 DEF Settled
<1>5. QED
  BY <1>2, <1>3, <1>4, SettledIsCopy

-----------------------------------------------------------------------------
(* An UP request at work on the files: nobody else is, and the daemon serves *)
LEMMA Starter ==
  ASSUME FileInvariant, OneStart, NEW c \in Ctrs, pc[c] \in Busy
  PROVE  pc[Main] = "serving" /\ \A d \in Ctrs : pc[d] \in Busy => d = c
BY DEF FileInvariant, Booting, OneStart, Starting

(* Steps of UP that leave both files alone *)
LEMMA ReadsKeep ==
  ASSUME FileInvariant, OneStart, WholeFile, NEW c \in Ctrs,
         CheckNetwork(c) \/ ReadGateway(c) \/ AddHosts(c) \/ AllocateIP(c)
  PROVE  WholeFile'
<1> USE ActorsAssumption
    DEF FileInvariant, TypeOK, Roles, Actors, Go, Pc, MainPc, Busy, Writing, Unallocated, Owning, WholeFile, hosts
<1>1. pc[c] \in Busy \ Writing /\ UNCHANGED <<exists, good, alloc, size, made, lines>>
  BY DEF CheckNetwork, ReadGateway, AddHosts, AllocateIP, file
<1>2. pc[Main] = "serving" /\ \A d \in Ctrs : pc[d] \in Busy => d = c
  BY <1>1, Starter
<1>3. \A a \in Actors : pc[a] \notin Writing
  BY <1>1, <1>2
<1>4. pc'[c] \in Pc \ Writing /\ \A a \in Actors \ {c} : pc'[a] = pc[a] /\ copy'[a] = copy[a]
  BY DEF CheckNetwork, ReadGateway, AddHosts, AllocateIP
<1>5. Settled = alloc /\ Settled' = Settled
  BY <1>1, <1>3, <1>4, SettledIsFile, SettledStays
<1>6. WholeOrOpen'
  BY <1>1, <1>2, <1>3, <1>4 DEF WholeOrOpen
<1>7. AddressesFit'
  BY <1>2, <1>3, <1>4, <1>5 DEF AddressesFit, CheckNetwork, ReadGateway, AddHosts, AllocateIP
<1>8. EditsFit'
  <2>1. /\ pc'[Main] = "serving"
        /\ \A d \in Ctrs \ {c} : pc'[d] \notin Busy
    BY <1>2, <1>4
  <2>2. CASE CheckNetwork(c)
    <3>1. pc'[c] # "open" /\ copy'[c] = Empty /\ (pc'[c] \in {"createopen", "createwrite"} => ~exists)
      BY <2>2 DEF CheckNetwork
    <3>2. QED
      BY <1>5, <2>1, <3>1 DEF EditsFit, FileThere
  <2>3. CASE AllocateIP(c) /\ pc'[c] = "open"
    <3>1. PICK h \in Free : copy' = [copy EXCEPT ![c] = [alloc EXCEPT ![c] = h]]
      BY <2>3 DEF AllocateIP
    <3>2. copy'[c] = [alloc EXCEPT ![c] = h] /\ copy'[c][c] = h /\ h # 0
      BY <3>1, BoundsAssumption DEF Free, Config
    <3>3. QED
      BY <1>5, <2>1, <2>3, <3>2 DEF EditsFit
  <2>4. CASE pc'[c] \notin {"createopen", "createwrite", "open"}
    BY <2>1, <2>4 DEF EditsFit
  <2>5. QED
    BY <2>2, <2>3, <2>4 DEF CheckNetwork, ReadGateway, AddHosts, AllocateIP
<1>9. LinesFit'
  BY <1>1, <1>5 DEF LinesFit
<1>10. HoldersListed'
  BY <1>1, <1>2, <1>4, <1>5 DEF HoldersListed, Holds, CheckNetwork, ReadGateway, AddHosts, AllocateIP
<1>11. QED
  BY <1>6, <1>7, <1>8, <1>9, <1>10

LEMMA UpKeeps ==
  ASSUME FileInvariant, OneStart, WholeFile, NEW c \in Ctrs, Up(c), alone'
  PROVE  WholeFile'
<1> USE ActorsAssumption
    DEF FileInvariant, TypeOK, Actors, Go, Pc, Busy, Writing, Unallocated, Owning, WholeFile, hosts, file
<1>1. /\ UNCHANGED <<exists, good, alloc, size, made, lines, copy>>
      /\ pc[c] = "idle" /\ pc' = [pc EXCEPT ![c] = "check"] /\ pc[Main] = "serving"
      /\ \A d \in Ctrs : pc[d] \notin Busy
  BY DEF Up, Starting
<1>2. Settled' = Settled
  BY <1>1, SettledStays
<1>3. WholeOrOpen'
  BY <1>1 DEF WholeOrOpen
<1>4. AddressesFit' /\ EditsFit' /\ LinesFit'
  BY <1>1, <1>2 DEF AddressesFit, EditsFit, LinesFit
<1>5. HoldersListed'
  BY <1>1, <1>2 DEF HoldersListed, Holds
<1>6. QED
  BY <1>3, <1>4, <1>5

LEMMA EndKeeps ==
  ASSUME FileInvariant, OneStart, WholeFile, NEW c \in Ctrs, End(c)
  PROVE  WholeFile'
<1> USE ActorsAssumption
    DEF FileInvariant, TypeOK, Actors, Go, Pc, Busy, Writing, Unallocated, Owning, WholeFile, hosts, file
<1>1. /\ UNCHANGED <<exists, good, alloc, size, made, lines, copy>>
      /\ pc[c] = "held" /\ pc' = [pc EXCEPT ![c] = "done"]
  BY DEF End
<1>2. Settled' = Settled
  BY <1>1, SettledStays
<1>3. WholeOrOpen'
  BY <1>1 DEF WholeOrOpen
<1>4. AddressesFit' /\ LinesFit'
  BY <1>1, <1>2 DEF AddressesFit, LinesFit
<1>5. EditsFit'
  BY <1>1, <1>2 DEF EditsFit, Listed
<1>6. HoldersListed'
  BY <1>1, <1>2 DEF HoldersListed, Holds
<1>7. QED
  BY <1>3, <1>4, <1>5, <1>6

(* The hosts file while a container starts *)
LEMMA HostsKeep ==
  ASSUME FileInvariant, OneStart, WholeFile, NEW c \in Ctrs, WriteBaseHosts(c) \/ EnterHosts(c)
  PROVE  WholeFile'
<1> USE ActorsAssumption
    DEF FileInvariant, TypeOK, Roles, Actors, Go, Pc, MainPc, Busy, Writing, Unallocated, Owning, WholeFile, file
<1>1. pc[c] \in {"base", "line"} /\ UNCHANGED <<exists, good, alloc, size, copy>>
  BY DEF WriteBaseHosts, EnterHosts
<1>2. pc[Main] = "serving" /\ \A d \in Ctrs : pc[d] \in Busy => d = c
  BY <1>1, Starter
<1>3. \A a \in Actors : pc[a] \notin Writing
  BY <1>1, <1>2
<1>4. /\ pc'[c] \in {"allocate", "attach", "failed"} /\ \A a \in Actors \ {c} : pc'[a] = pc[a]
  BY DEF WriteBaseHosts, EnterHosts
<1>5. Settled = alloc /\ Settled' = Settled
  BY <1>1, <1>3, <1>4, SettledIsFile, SettledStays
<1>6. WholeOrOpen'
  BY <1>1, <1>2, <1>3, <1>4 DEF WholeOrOpen
<1>7. AddressesFit' /\ EditsFit'
  BY <1>1, <1>2, <1>3, <1>4, <1>5 DEF AddressesFit, EditsFit, WriteBaseHosts, EnterHosts
<1>8. CASE WriteBaseHosts(c)
  <2>1. made' /\ lines' = Base /\ pc[c] = "base" /\ ~made /\ pc'[c] = "allocate"
    BY <1>8 DEF WriteBaseHosts, WriteBase, HoldersListed
  <2>2. \A d \in Ctrs : ~Holds(d)' /\ pc'[d] # "base"
    BY <1>2, <1>4, <2>1 DEF HoldersListed, Holds
  <2>3. LinesFit'
    BY <2>1 DEF LinesFit, Base, Line
  <2>4. HoldersListed'
    BY <2>1, <2>2 DEF HoldersListed
  <2>5. QED
    BY <1>6, <1>7, <2>3, <2>4
<1>9. CASE EnterHosts(c)
  <2>1. /\ made' /\ lines' = Without(c) \union {Line(c, Settled[c])} /\ pc[c] = "line"
        /\ Settled[c] # 0 /\ copy[c][c] = Settled[c] /\ pc'[c] \in {"attach", "failed"}
    BY <1>9 DEF EnterHosts, AddContainer, AddressesFit
  <2>2. LinesFit'
    BY <1>5, <2>1 DEF LinesFit, Without, Content, Base, Line
  <2>3. HoldersListed'
    <3>1. \A d \in Ctrs : pc'[d] # "base"
      BY <1>2, <1>4, <2>1
    <3>2. Line(c, copy'[c][c]) \in lines'
      BY <1>1, <2>1
    <3>3. ASSUME NEW d \in Ctrs \ {c}, Holds(d)', \A e \in Ctrs \ {d} : <<e, d>> \in NameIn => Settled'[e] = 0
          PROVE  Line(d, copy'[d][d]) \in lines'
      <4>1. Holds(d) /\ made /\ Line(d, copy[d][d]) \in lines
        BY <1>2, <1>4, <1>5, <3>3 DEF HoldersListed, Holds
      <4>2. <<c, d>> \notin NameIn
        BY <1>5, <2>1, <3>3
      <4>3. Line(d, copy[d][d]).name = d
        BY DEF Line
      <4>4. QED
        BY <1>1, <2>1, <4>1, <4>2, <4>3 DEF Without, Content
    <3>4. QED
      BY <2>1, <3>1, <3>2, <3>3 DEF HoldersListed
  <2>4. QED
    BY <1>6, <1>7, <2>2, <2>3
<1>10. QED
  BY <1>8, <1>9

(* Opening the file settles the one edit that is about to be written *)
LEMMA OpenKeeps ==
  ASSUME FileInvariant, OneStart, WholeFile, NEW a \in Actors, Open(a)
  PROVE  WholeFile'
<1> USE ActorsAssumption, EmptyConfig
    DEF FileInvariant, TypeOK, Roles, Actors, Go, Pc, MainPc, Busy, Writing, Unallocated, Owning, WholeFile
<1>1. /\ pc[a] \in {"open", "createopen"} /\ UNCHANGED <<made, lines, copy>>
      /\ pc' = [pc EXCEPT ![a] = IF pc[a] = "open" THEN "write" ELSE "createwrite"]
      /\ ~good' /\ size' = 0
  BY DEF Open, Truncate, hosts
<1>2. \A b \in Actors : pc[b] \in Busy => b = a
  BY <1>1, OneAtWork
<1>3. Settled = alloc /\ Settled' = copy[a] /\ pc'[a] \in Writing
  BY OpenSettles
<1>4. WholeOrOpen'
  BY <1>1, <1>2, <1>3 DEF WholeOrOpen
<1>5. CASE a = Main
  <2>1. PICK c \in Ctrs : /\ pc[c] \in {"lost", "done", "failed"}
                          /\ copy[Main] = [Settled EXCEPT ![c] = 0]
                          /\ Listed(c) => c \in Unnamed
    BY <1>1, <1>5 DEF EditsFit
  <2>2. \A d \in Ctrs \ {c} : Settled'[d] = Settled[d]
    BY <1>3, <1>5, <2>1 DEF Config
  <2>3. /\ \A d \in Ctrs : pc'[d] = pc[d] /\ pc[d] \notin Busy
        /\ pc'[Main] = "write"
    BY <1>1, <1>2, <1>5
  <2>4. AddressesFit'
    BY <1>1, <2>1, <2>2, <2>3 DEF AddressesFit
  <2>5. EditsFit'
    BY <2>3 DEF EditsFit
  <2>6. LinesFit'
    BY <1>1, <2>1, <2>2 DEF LinesFit, Listed
  <2>7. HoldersListed'
    BY <1>1, <2>3 DEF HoldersListed, Holds
  <2>8. QED
    BY <1>4, <2>4, <2>5, <2>6, <2>7
<1>6. ASSUME a \in Ctrs, pc[a] = "open" PROVE WholeFile'
  <2>1. Settled[a] = 0 /\ copy[a][a] # 0 /\ copy[a] = [Settled EXCEPT ![a] = copy[a][a]]
    BY <1>6 DEF AddressesFit, EditsFit
  <2>2. /\ \A d \in Ctrs \ {a} : Settled'[d] = Settled[d] /\ pc'[d] = pc[d] /\ pc[d] \notin Busy
        /\ pc'[a] = "write" /\ pc'[Main] = pc[Main] /\ pc[Main] = "serving" /\ Settled'[a] = copy[a][a]
    BY <1>1, <1>2, <1>3, <1>6, <2>1, Starter DEF Config
  <2>3. AddressesFit'
    BY <1>1, <2>1, <2>2 DEF AddressesFit
  <2>4. EditsFit'
    BY <2>2 DEF EditsFit
  <2>5. LinesFit'
    BY <1>1, <2>1, <2>2 DEF LinesFit
  <2>6. HoldersListed'
    BY <1>1, <2>1, <2>2 DEF HoldersListed, Holds
  <2>7. QED
    BY <1>4, <2>3, <2>4, <2>5, <2>6
<1>7. ASSUME a \in Ctrs, pc[a] = "createopen" PROVE WholeFile'
  <2>1. Settled' = Settled /\ Settled = Empty /\ copy[a] = Empty
    BY <1>3, <1>7 DEF EditsFit
  <2>2. /\ \A d \in Ctrs \ {a} : pc'[d] = pc[d] /\ pc[d] \notin Busy
        /\ pc'[a] = "createwrite" /\ pc'[Main] = pc[Main] /\ pc[Main] = "serving"
    BY <1>1, <1>2, <1>7, Starter
  <2>3. AddressesFit'
    BY <1>1, <1>7, <2>1, <2>2 DEF AddressesFit
  <2>4. EditsFit'
    BY <1>1, <2>1, <2>2 DEF EditsFit
  <2>5. LinesFit' /\ HoldersListed'
    BY <1>1, <2>1, <2>2 DEF LinesFit, HoldersListed, Holds
  <2>6. QED
    BY <1>4, <2>3, <2>4, <2>5
<1>8. QED
  BY <1>1, <1>5, <1>6, <1>7

LEMMA SaveKeeps ==
  ASSUME FileInvariant, OneStart, WholeFile,
         NEW a \in Actors, pc[a] \in Writing, Write(a), UNCHANGED <<made, lines, copy>>,
         NEW label \in {"resolv", "failed", "line", "off"}, Go(a, label),
         pc[a] = "write" /\ a \in Ctrs => label = "line",
         pc[a] = "createwrite" => label \in {"resolv", "failed"},
         a = Main => label = "off"
  PROVE  WholeFile'
<1> USE ActorsAssumption
    DEF FileInvariant, TypeOK, Roles, Actors, Go, Pc, MainPc, Busy, Writing, Unallocated, Owning, WholeFile
<1>1. /\ exists' /\ good' /\ alloc' = Settled /\ Settled' = Settled
      /\ \A b \in Actors : pc'[b] \notin Writing
  BY WriteSettles
<1>2. \A b \in Actors \ {a} : pc'[b] = pc[b] /\ pc[b] \notin Busy
  BY OneAtWork
<1>3. pc'[a] = label /\ (a \in Ctrs => pc'[Main] = "serving")
  BY <1>2, Starter
<1>4. WholeOrOpen'
  BY <1>1, <1>2, <1>3 DEF WholeOrOpen
<1>5. AddressesFit'
  BY <1>1, <1>2, <1>3 DEF AddressesFit
<1>6. EditsFit'
  BY <1>1, <1>2, <1>3 DEF EditsFit
<1>7. LinesFit'
  BY <1>1 DEF LinesFit
<1>8. HoldersListed'
  BY <1>1, <1>2, <1>3 DEF HoldersListed, Holds
<1>9. QED
  BY <1>4, <1>5, <1>6, <1>7, <1>8

(* Steps of the main goroutine at boot *)
LEMMA BootKeeps ==
  ASSUME FileInvariant, OneStart, WholeFile,
         (\E c \in Ctrs : Release(c)) \/ CleanNetworks \/ SyncAllHosts
  PROVE  WholeFile'
<1> USE ActorsAssumption
    DEF FileInvariant, TypeOK, Roles, Actors, Go, Pc, MainPc, Busy, Writing, Unallocated, Owning, WholeFile
<1>1. pc[Main] \in {"off", "sync"} /\ UNCHANGED alloc
  BY DEF Release, Releasable, CleanNetworks, SyncAllHosts, file
<1>2. \A a \in Actors : pc[a] \notin Busy
  BY <1>1 DEF Booting, Starting
<1>3. /\ pc'[Main] \in {"open", "panicked", "sync", "serving"}
      /\ \A c \in Ctrs : pc'[c] = pc[c] /\ copy'[c] = copy[c]
  BY <1>1 DEF Release, CleanNetworks, SyncAllHosts
<1>4. Settled = alloc /\ Settled' = Settled
  BY <1>1, <1>2, <1>3, SettledIsFile, SettledStays
<1>5. AddressesFit'
  BY <1>3, <1>4 DEF AddressesFit
<1>6. CASE \E c \in Ctrs : Release(c)
  <2>1. PICK c \in Ctrs : Release(c)
    BY <1>6
  <2>2. /\ pc'[Main] = "open" /\ UNCHANGED <<exists, good, size>>
        /\ pc[c] \in {"lost", "done", "failed"} /\ Settled[c] # 0
        /\ copy'[Main] = [Settled EXCEPT ![c] = 0]
    BY <1>4, <2>1 DEF Release, Releasable, file
  <2>3. made' /\ (\A l \in lines' : l.host # 0 => l \in lines)
    BY <2>1 DEF Release, RemoveContainer, Without, Content, Base, Line
  <2>4. c \notin Unnamed => \A l \in lines' : l.name # c
    BY <2>1, NameInAssumption DEF Release, RemoveContainer, Without
  <2>5. WholeOrOpen'
    BY <1>1, <1>2, <1>3, <2>2 DEF WholeOrOpen
  <2>6. EditsFit'
    BY ZenonT(40), <1>2, <1>3, <1>4, <2>2, <2>4 DEF EditsFit, Listed
  <2>7. LinesFit'
    BY <1>4, <2>3 DEF LinesFit
  <2>8. HoldersListed'
    BY <1>2, <1>3, <2>2, <2>3 DEF HoldersListed, Holds
  <2>9. QED
    BY <1>5, <2>5, <2>6, <2>7, <2>8
<1>7. CASE CleanNetworks
  <2>1. pc[Main] = "off" /\ (exists => good) /\ pc'[Main] = "sync" /\ UNCHANGED <<made, lines>>
    BY <1>2, <1>7 DEF CleanNetworks, WholeOrOpen, hosts
  <2>2. exists' => good'
    BY <1>7, <2>1 DEF CleanNetworks, file
  <2>3. WholeOrOpen'
    BY <1>2, <1>3, <2>1, <2>2 DEF WholeOrOpen
  <2>4. EditsFit'
    BY <1>2, <1>3, <2>1 DEF EditsFit
  <2>5. LinesFit' /\ HoldersListed'
    BY <1>2, <1>3, <1>4, <2>1 DEF LinesFit, HoldersListed, Holds
  <2>6. QED
    BY <1>5, <2>3, <2>4, <2>5
<1>8. CASE SyncAllHosts
  <2>1. pc[Main] = "sync" /\ pc'[Main] = "serving" /\ UNCHANGED <<exists, good, size>>
    BY <1>8 DEF SyncAllHosts, file
  <2>2. WholeOrOpen'
    BY <1>2, <1>3, <2>1 DEF WholeOrOpen
  <2>3. EditsFit'
    BY <1>2, <1>3, <2>1 DEF EditsFit
  <2>4. CASE exists
    <3>1. made' /\ lines' = Base \union {Line(c, Settled[c]) : c \in {d \in Ctrs : Settled[d] # 0}}
      BY <1>4, <1>8, <2>4 DEF SyncAllHosts, UpdateAllContainers
    <3>2. LinesFit'
      BY <1>4, <3>1 DEF LinesFit, Base, Line
    <3>3. \A c \in Ctrs : Holds(c) => copy[c][c] = Settled[c] /\ Settled[c] # 0
      BY DEF AddressesFit, Holds
    <3>4. HoldersListed'
      BY <1>2, <1>3, <3>1, <3>3 DEF HoldersListed, Holds
    <3>5. QED
      BY <1>5, <2>2, <2>3, <3>2, <3>4
  <2>5. CASE ~exists
    <3>1. UNCHANGED <<made, lines>> /\ Settled = Empty
      BY <1>4, <1>8, <2>5 DEF SyncAllHosts, hosts, FileThere
    <3>2. LinesFit'
      BY <1>4, <3>1 DEF LinesFit
    <3>3. \A c \in Ctrs : pc'[c] # "base" /\ ~Holds(c)'
      BY <1>2, <1>3, <3>1, EmptyConfig DEF AddressesFit, Holds
    <3>4. HoldersListed'
      BY <3>3 DEF HoldersListed
    <3>5. QED
      BY <1>5, <2>2, <2>3, <3>2, <3>4
  <2>6. QED
    BY <2>4, <2>5
<1>9. QED
  BY <1>6, <1>7, <1>8

LEMMA CrashKeeps ==
  ASSUME FileInvariant, OneStart, WholeFile, Crash, ~torn'
  PROVE  WholeFile'
<1> USE ActorsAssumption
    DEF FileInvariant, TypeOK, Roles, Actors, Pc, MainPc, Busy, Writing, Unallocated, Owning, WholeFile, file
<1>1. /\ UNCHANGED <<exists, good, alloc, size, copy>> /\ pc'[Main] = "off"
      /\ \A c \in Ctrs : pc'[c] = IF pc[c] \in Busy THEN "lost" ELSE pc[c]
      /\ \A a \in Actors : pc[a] \notin Writing
  BY DEF Crash
<1>2. Settled' = Settled
  BY <1>1, SettledStays
<1>3. (made => made') /\ lines' \subseteq lines
  BY DEF Crash, TearHosts, hosts
<1>4. WholeOrOpen'
  BY <1>1 DEF WholeOrOpen
<1>5. AddressesFit' /\ EditsFit'
  BY <1>1, <1>2 DEF AddressesFit, EditsFit
<1>6. LinesFit' /\ HoldersListed'
  BY <1>1, <1>2, <1>3 DEF LinesFit, HoldersListed, Holds
<1>7. QED
  BY <1>4, <1>5, <1>6

LEMMA SerialPreserved == FileInvariant /\ SerialFile /\ [Next]_vars => SerialFile'
<1> SUFFICES ASSUME FileInvariant, SerialFile, [Next]_vars, alone'
             PROVE  OneStart' /\ (torn' => TornForGood') /\ (~torn' => WholeFile')
  BY DEF SerialFile
<1>1. alone /\ OneStart /\ OneStart'
  BY OneStartPreserved DEF SerialFile
<1>2. torn' => TornForGood'
  BY <1>1, TornPreserved DEF SerialFile, WholeFile
<1>3. ASSUME ~torn' PROVE WholeFile'
  <2>1. ~torn
    BY <1>3 DEF Next, vars, deaths, Up, CheckNetwork, CreateNetwork, ReadGateway, AddHosts, WriteBaseHosts, AllocateIP,
       SaveAllocation, EnterHosts, End, Release, Open, SaveRelease, CleanNetworks, SyncAllHosts, Crash
  <2>2. OneStart /\ WholeFile
    BY <1>1, <2>1 DEF SerialFile
  <2> USE <2>2
  <2>3. ASSUME NEW c \in Ctrs, CheckNetwork(c) \/ ReadGateway(c) \/ AddHosts(c) \/ AllocateIP(c) PROVE WholeFile'
    BY <2>3, ReadsKeep
  <2>4. ASSUME NEW c \in Ctrs, WriteBaseHosts(c) \/ EnterHosts(c) PROVE WholeFile'
    BY <2>4, HostsKeep
  <2>5. ASSUME NEW c \in Ctrs, Up(c) \/ End(c) PROVE WholeFile'
    BY <2>5, UpKeeps, EndKeeps
  <2>6. ASSUME NEW a \in Actors, Open(a) PROVE WholeFile'
    BY <2>6, OpenKeeps
  <2>7. ASSUME NEW c \in Ctrs, CreateNetwork(c) PROVE WholeFile'
    <3>1. PICK label \in {"resolv", "failed"} : Go(c, label)
      BY <2>7 DEF CreateNetwork
    <3>2. QED
      BY <2>7, <3>1, SaveKeeps, ActorsAssumption DEF CreateNetwork, hosts, Writing, Actors
  <2>8. ASSUME NEW c \in Ctrs, SaveAllocation(c) PROVE WholeFile'
    BY <2>8, SaveKeeps, ActorsAssumption DEF SaveAllocation, hosts, Writing, Actors
  <2>9. CASE SaveRelease
    BY <2>9, SaveKeeps, ActorsAssumption DEF SaveRelease, hosts, Writing, Actors
  <2>10. CASE (\E c \in Ctrs : Release(c)) \/ CleanNetworks \/ SyncAllHosts
    BY <2>10, BootKeeps
  <2>11. CASE Crash
    BY <1>3, <2>11, CrashKeeps
  <2>12. CASE UNCHANGED vars
    <3>1. Settled' = Settled
      BY <2>12 DEF vars, Settled
    <3>2. WholeOrOpen' /\ AddressesFit' /\ LinesFit'
      BY <2>12, <3>1 DEF vars, WholeFile, WholeOrOpen, AddressesFit, LinesFit
    <3>3. EditsFit' /\ HoldersListed'
      BY <2>12, <3>1 DEF vars, WholeFile, EditsFit, HoldersListed, Listed, Holds
    <3>4. QED
      BY <3>2, <3>3 DEF WholeFile
  <2>13. QED
    BY <2>3, <2>4, <2>5, <2>6, <2>7, <2>8, <2>9, <2>10, <2>11, <2>12 DEF Next
<1>4. QED
  BY <1>1, <1>2, <1>3

(* While UP requests come one at a time: the file is whole but for its writer, *)
(* every container from the write of its address to its end has the address it *)
(* was given, and no line leads elsewhere                                      *)
THEOREM SerialFileHolds == Spec => [](FileInvariant /\ SerialFile)
BY FileInitially, FilePreserved, SerialInitially, SerialPreserved, PTL DEF Spec

(* As long as UP requests come one at a time and no death tears the file, it   *)
(* can be read whenever nobody writes it, and no boot panics                   *)
THEOREM FileIsWhole == Spec => []FileStaysWhole
<1>1. SerialFile => FileStaysWhole
  BY DEF SerialFile, WholeFile, WholeOrOpen, FileStaysWhole
<1>2. QED
  BY <1>1, SerialFileHolds, PTL

(* While the daemon serves, the file that can be read is as it will be left,   *)
(* and it gives every holder its address                                       *)
LEMMA ServedIsWhole ==
  ASSUME FileInvariant, SerialFile, alone, pc[Main] = "serving"
  PROVE  /\ WholeFile
         /\ Distinct(Settled)
         /\ Readable => Settled = alloc
         /\ \A c \in Ctrs : Holds(c) => copy[c][c] = Settled[c] /\ Settled[c] # 0
<1>1. WholeFile /\ OneStart
  BY DEF SerialFile, TornForGood
<1>2. CASE \A a \in Actors : pc[a] \notin Writing
  BY <1>1, <1>2, SettledIsFile DEF FileInvariant, AddressesDistinct, WholeFile, AddressesFit, Holds, Owning
<1>3. ASSUME NEW a \in Actors, pc[a] \in Writing PROVE ~good /\ Settled = copy[a]
  BY <1>1, <1>3, SettledIsCopy DEF WholeFile, WholeOrOpen
<1>4. QED
  BY <1>1, <1>2, <1>3 DEF FileInvariant, AddressesDistinct, WholeFile, AddressesFit, Holds, Owning, Readable

(* A running container is in the hosts file with its address, unless a         *)
(* container whose name occurs in its line is in the network too               *)
THEOREM HoldersAreListed == Spec => []HolderIsListed
<1>1. FileInvariant /\ SerialFile => HolderIsListed
  <2> SUFFICES ASSUME FileInvariant, SerialFile, alone, pc[Main] = "serving", Readable, NEW c \in Ctrs, Holds(c),
                      \A d \in Ctrs \ {c} : <<d, c>> \in NameIn => alloc[d] = 0
               PROVE  Line(c, alloc[c]) \in lines
    BY DEF HolderIsListed
  <2>1. Settled = alloc /\ copy[c][c] = Settled[c] /\ HoldersListed
    BY ServedIsWhole DEF WholeFile
  <2>2. QED
    BY <2>1 DEF HoldersListed
<1>2. QED
  BY <1>1, SerialFileHolds, PTL

(* No line left behind leads to the address of another container that runs *)
THEOREM StaleNamesAreHarmless == Spec => []StaleNamesReachNoStranger
<1>1. FileInvariant /\ SerialFile => StaleNamesReachNoStranger
  <2> SUFFICES ASSUME FileInvariant, SerialFile, alone, pc[Main] = "serving",
                      NEW l \in lines, NEW c \in Ctrs, Holds(c), l.host = copy[c][c]
               PROVE  l.name \in Unnamed \union {c}
    BY DEF StaleNamesReachNoStranger
  <2>1. LinesFit /\ Distinct(Settled) /\ l.host = Settled[c] /\ Settled[c] # 0
    BY ServedIsWhole DEF WholeFile
  <2>2. QED
    BY <2>1 DEF LinesFit, Distinct
<1>2. QED
  BY <1>1, SerialFileHolds, PTL

-----------------------------------------------------------------------------
(* NetworkFile implements Allocator.  A container has the address the settled  *)
(* file gives it                                                               *)
Pairs == {<<c, Settled[c]>> : c \in {d \in Ctrs : Settled[d] # 0}}
Users == {c \in Ctrs : Holds(c)}

LEMMA PairsAre ==
  /\ \A p \in Pairs : p[1] \in Ctrs /\ p[2] = Settled[p[1]] /\ Settled[p[1]] # 0
  /\ \A c \in Ctrs : Settled[c] # 0 => \E p \in Pairs : p[1] = c
<1>1. \A c : <<c, Settled[c]>>[1] = c /\ <<c, Settled[c]>>[2] = Settled[c]
  OBVIOUS
<1>2. QED
  BY ZenonT(40), <1>1 DEF Pairs

(* Settling a free number for a container without one is a Take *)
LEMMA OpenTakes ==
  ASSUME FileInvariant, OneStart, WholeFile, NEW c \in Ctrs, Open(c), pc[c] = "open"
  PROVE  Addressing!Take
<1> USE ActorsAssumption DEF FileInvariant, TypeOK, Actors, Go, Addressing!Holders, Addressing!Taken
<1> DEFINE h == copy[c][c]
           p == <<c, h>>
<1>1. Settled = alloc /\ Settled' = copy[c] /\ UNCHANGED copy /\ Distinct(copy[c])
  BY OpenSettles DEF Open, AddressesDistinct
<1>2. Settled[c] = 0 /\ h # 0 /\ Settled' = [Settled EXCEPT ![c] = h]
  BY <1>1 DEF WholeFile, AddressesFit, EditsFit, Unallocated, Pc, Busy, Owning
<1>3. p[1] = c /\ p[2] = h
  OBVIOUS
<1>4. \A d \in Ctrs : Settled'[d] = (IF d = c THEN h ELSE Settled[d])
  BY <1>1, <1>2 DEF Config
<1>5. \A d \in Ctrs : Settled[d] # h
  BY <1>1, <1>2, <1>4 DEF Distinct
<1>6. Pairs' = Pairs \union {p}
  BY <1>2, <1>4 DEF Pairs
<1> HIDE DEF h, p
<1>7. \A q \in Pairs : q[1] # c /\ q[2] # h
  BY <1>2, <1>5, PairsAre
<1>8. Users' = Users
  BY DEF Open, Users, Holds
<1>9. p \in Pairs'
  BY <1>6
<1>10. QED
  BY <1>3, <1>6, <1>7, <1>8, <1>9 DEF Addressing!Take, Pairs, Users

(* Settling the release of an ended container is a Drop *)
LEMMA OpenDrops ==
  ASSUME FileInvariant, OneStart, WholeFile, Open(Main)
  PROVE  Addressing!Drop
<1> USE ActorsAssumption DEF FileInvariant, TypeOK, Roles, MainPc, Actors, Go
<1>1. Settled = alloc /\ Settled' = copy[Main] /\ pc[Main] = "open"
  BY OpenSettles DEF Open
<1>2. PICK c \in Ctrs : /\ pc[c] \in {"lost", "done", "failed"}
                       /\ Settled[c] # 0
                       /\ copy[Main] = [Settled EXCEPT ![c] = 0]
  BY <1>1 DEF WholeFile, EditsFit
<1>3. \A d \in Ctrs : Settled'[d] = IF d = c THEN 0 ELSE Settled[d]
  BY <1>1, <1>2 DEF Config
<1> DEFINE p == <<c, Settled[c]>>
<1>4. Pairs' = Pairs \ {p}
  BY <1>2, <1>3 DEF Pairs
<1>5. p \in Pairs /\ p[1] = c
  BY <1>2 DEF Pairs
<1> HIDE DEF p
<1>6. c \notin Users /\ Users' = Users
  BY <1>1, <1>2 DEF Open, Users, Holds
<1>7. QED
  BY <1>4, <1>5, <1>6 DEF Addressing!Drop, Pairs, Users

(* Until it is no longer sound, a step of NetworkFile is a step of Allocator *)
LEMMA StepAllocates ==
  ASSUME FileInvariant, SerialFile, [Next]_vars
  PROVE  [Addressing!Next]_Addressing!vars
<1> SUFFICES ASSUME alone', ~torn' PROVE [Addressing!Next]_Addressing!vars
  BY DEF Addressing!Next
<1> USE ActorsAssumption
    DEF FileInvariant, TypeOK, Roles, Actors, Go, Pc, MainPc, Busy, Writing, file
<1>1. alone /\ ~torn
  <2>1. alone
    BY OneStartPreserved DEF SerialFile
  <2>2. ~torn
    BY DEF Next, vars, deaths, Up, CheckNetwork, CreateNetwork, ReadGateway, AddHosts, WriteBaseHosts, AllocateIP,
       SaveAllocation, EnterHosts, End, Release, Open, SaveRelease, CleanNetworks, SyncAllHosts, Crash
  <2>3. QED
    BY <2>1, <2>2
<1>2. OneStart /\ WholeFile
  BY <1>1 DEF SerialFile
<1>a. ASSUME Addressing!Take \/ Addressing!Use \/ Addressing!Leave \/ Addressing!Drop
      PROVE  [Addressing!Next]_Addressing!vars
  BY <1>1, <1>a DEF Addressing!Next
<1>b. ASSUME Settled' = Settled, Users' \subseteq Users PROVE [Addressing!Next]_Addressing!vars
  BY <1>a, <1>b DEF Addressing!Leave, Users
<1>3. ASSUME NEW c \in Ctrs, Up(c) \/ End(c) PROVE [Addressing!Next]_Addressing!vars
  <2>1. Settled' = Settled
    BY <1>2, <1>3, SettledStays DEF Up, End
  <2>2. Users' \subseteq Users
    BY <1>3 DEF Up, End, Users, Holds
  <2>3. QED
    BY <1>b, <2>1, <2>2
<1>4. ASSUME NEW c \in Ctrs,
             CheckNetwork(c) \/ ReadGateway(c) \/ AddHosts(c) \/ WriteBaseHosts(c) \/ AllocateIP(c)
      PROVE  [Addressing!Next]_Addressing!vars
  <2>1. pc[c] \in Busy \ Writing /\ pc'[c] \notin Writing /\ UNCHANGED alloc
    BY <1>4 DEF CheckNetwork, ReadGateway, AddHosts, WriteBaseHosts, AllocateIP
  <2>2. \A a \in Actors \ {c} : pc'[a] = pc[a] /\ copy'[a] = copy[a]
    BY <1>4 DEF CheckNetwork, ReadGateway, AddHosts, WriteBaseHosts, AllocateIP
  <2>3. Settled' = Settled
    BY <1>2, <2>1, <2>2, SettledStays
  <2>4. pc[c] = "attach" \/ pc'[c] \notin {"attach", "held"}
    BY <1>4 DEF CheckNetwork, ReadGateway, AddHosts, WriteBaseHosts, AllocateIP
  <2>5. Users' \subseteq Users
    BY <2>2, <2>4 DEF Users, Holds
  <2>6. QED
    BY <1>b, <2>3, <2>5
<1>5. ASSUME NEW a \in Actors, Open(a) PROVE [Addressing!Next]_Addressing!vars
  <2>1. CASE a = Main
    BY <1>2, <1>5, <1>a, <2>1, OpenDrops
  <2>2. CASE a \in Ctrs /\ pc[a] = "open"
    BY <1>2, <1>5, <1>a, <2>2, OpenTakes
  <2>3. CASE a \in Ctrs /\ pc[a] = "createopen"
    <3>1. Settled' = Settled
      BY <1>2, <1>5, <2>3, OpenSettles DEF WholeFile, EditsFit
    <3>2. Users' \subseteq Users
      BY <1>5 DEF Open, Users, Holds
    <3>3. QED
      BY <1>b, <3>1, <3>2
  <2>4. QED
    BY <1>5, <2>1, <2>2, <2>3 DEF Open
<1>6. ASSUME NEW a \in Actors, pc[a] \in Writing, Write(a), copy' = copy,
             NEW label \in {"resolv", "failed", "line", "off"}, Go(a, label)
      PROVE  [Addressing!Next]_Addressing!vars
  <2>1. Settled' = Settled
    BY <1>2, <1>6, WriteSettles DEF WholeFile
  <2>2. Users' \subseteq Users
    BY <1>6 DEF Users, Holds
  <2>3. QED
    BY <1>b, <2>1, <2>2
<1>7. ASSUME NEW c \in Ctrs, EnterHosts(c) PROVE [Addressing!Next]_Addressing!vars
  <2>1. pc[c] = "line" /\ UNCHANGED <<alloc, copy>>
        /\ (pc' = [pc EXCEPT ![c] = "attach"] \/ pc' = [pc EXCEPT ![c] = "failed"])
    BY <1>7 DEF EnterHosts
  <2>2. Settled' = Settled
    BY <1>2, <2>1, SettledStays
  <2>3. \A d \in Ctrs : (Holds(d) \/ d = c) => Settled[d] # 0
    BY <1>2, <2>1 DEF WholeFile, AddressesFit, Holds, Owning
  <2>4. CASE pc' = [pc EXCEPT ![c] = "attach"]
    <3>1. Users \subseteq Users' /\ \A d \in Users' : d \in Ctrs /\ Settled[d] # 0
      BY <2>1, <2>3, <2>4 DEF Users, Holds
    <3>2. Users' \subseteq Addressing!Holders
      BY <3>1, PairsAre DEF Addressing!Holders, Pairs
    <3>3. Addressing!Use
      BY <2>2, <3>1, <3>2 DEF Addressing!Use, Users
    <3>4. QED
      BY <1>a, <3>3
  <2>5. CASE pc' = [pc EXCEPT ![c] = "failed"]
    BY <1>b, <2>2, <2>5 DEF Users, Holds
  <2>6. QED
    BY <2>1, <2>4, <2>5
<1>8. ASSUME (\E c \in Ctrs : Release(c)) \/ CleanNetworks \/ SyncAllHosts
      PROVE  [Addressing!Next]_Addressing!vars
  <2>1. pc[Main] \in {"off", "sync"} /\ UNCHANGED alloc /\ \A c \in Ctrs : pc'[c] = pc[c]
    BY <1>8 DEF Release, Releasable, CleanNetworks, SyncAllHosts
  <2>2. \A a \in Actors : pc[a] \notin Writing
    BY <2>1 DEF Booting, Starting
  <2>3. pc'[Main] \notin Writing
    BY <1>8 DEF Release, CleanNetworks, SyncAllHosts
  <2>4. Settled' = Settled
    BY <1>2, <2>1, <2>2, <2>3, SettledStays
  <2>5. Users' \subseteq Users
    BY <2>1 DEF Users, Holds
  <2>6. QED
    BY <1>b, <2>4, <2>5
<1>9. CASE Crash
  <2>1. /\ UNCHANGED <<alloc, copy>>
        /\ \A a \in Actors : pc[a] \notin Writing /\ pc'[a] \notin Writing
        /\ \A c \in Ctrs : pc'[c] \in {"attach", "held"} => pc[c] = pc'[c]
    BY <1>9 DEF Crash
  <2>2. Settled' = Settled
    BY <1>2, <2>1, SettledStays
  <2>3. Users' \subseteq Users
    BY <2>1 DEF Users, Holds
  <2>4. QED
    BY <1>b, <2>2, <2>3
<1>10. CASE UNCHANGED vars
  BY <1>10, <1>b DEF vars, Settled, Users, Holds
<1>11. ASSUME NEW c \in Ctrs, CreateNetwork(c) \/ SaveAllocation(c) PROVE [Addressing!Next]_Addressing!vars
  <2>1. PICK label \in {"resolv", "failed", "line"} : Go(c, label)
    BY <1>11 DEF CreateNetwork, SaveAllocation
  <2>2. QED
    BY <1>6, <1>11, <2>1 DEF CreateNetwork, SaveAllocation
<1>12. CASE SaveRelease
  BY <1>6, <1>12 DEF SaveRelease
<1>13. QED
  BY <1>3, <1>4, <1>5, <1>7, <1>8, <1>9, <1>10, <1>11, <1>12 DEF Next

(* One network's file implements the abstract allocator: while UP requests come *)
(* one at a time and no death tears the file, an address is taken only while    *)
(* nobody has it, stays with its container while it runs, and comes back at a    *)
(* boot after its end                                                            *)
THEOREM FileAllocatesAddresses == Spec => AddressesAllocated
<1>1. Init => Addressing!Init
  <2> SUFFICES ASSUME Init PROVE Addressing!Init
    OBVIOUS
  <2>1. Settled = alloc /\ \A c \in Ctrs : Settled[c] = 0 /\ ~Holds(c)
    BY SettledIsFile, EmptyConfig, ActorsAssumption DEF Init, Actors, Writing, Holds
  <2>2. QED
    BY <2>1 DEF Init, Addressing!Init
<1>2. QED
  BY <1>1, StepAllocates, SerialFileHolds, PTL DEF Spec, AddressesAllocated, Addressing!Spec
=============================================================================
