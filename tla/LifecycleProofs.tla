--------------------------- MODULE LifecycleProofs ---------------------------
(* What holds of Lifecycle for any containers, clients, ZyloFiles, faults    *)
(* and number of daemon deaths.                                              *)
EXTENDS Lifecycle, SequenceTheorems, WellFoundedInduction, TLAPS

(* A nonempty set of natural numbers has a least element, and Min is it *)
LEMMA MinOfNaturals ==
  ASSUME NEW I \in SUBSET Nat, I # {}
  PROVE  Min(I) \in I
<1>1. PICK x \in I : \A y \in I : ~ (<<y, x>> \in OpToRel(<, Nat))
  BY WFMin, NatLessThanWellFounded, Zenon
<1>2. \A y \in I : ~ (y < x)
  BY <1>1, Zenon DEF OpToRel
<1>3. \A y \in I : x =< y
  BY <1>2
<1>4. QED
  BY <1>3 DEF Min

(* iptables -D: removing the first match of a rule leaves a list of rules *)
LEMMA RemoveFirstType ==
  ASSUME NEW S, NEW s \in Seq(S), NEW e
  PROVE  RemoveFirst(s, e) \in Seq(S)
<1>1. CASE ~ \E i \in 1..Len(s) : s[i] = e
  BY <1>1 DEF RemoveFirst
<1>2. CASE \E i \in 1..Len(s) : s[i] = e
  <2> DEFINE I == {i \in 1..Len(s) : s[i] = e}
             k == SelectInSeq(s, LAMBDA v : v = e)
  <2>1. k \in 1..Len(s)
    <3>1. I \in SUBSET Nat /\ I # {} /\ I \subseteq 1..Len(s)
      BY <1>2
    <3>2. k = Min(I)
      BY <3>1 DEF SelectInSeq
    <3>3. QED
      BY <3>1, <3>2, MinOfNaturals
  <2>2. RemoveFirst(s, e) = SubSeq(s, 1, k - 1) \o SubSeq(s, k + 1, Len(s))
    BY <1>2 DEF RemoveFirst, RemoveAt
  <2>3. SubSeq(s, 1, k - 1) \in Seq(S) /\ SubSeq(s, k + 1, Len(s)) \in Seq(S)
    <3> HIDE DEF k
    <3>1. k \in Nat /\ Len(s) \in Nat /\ 1 =< k /\ k =< Len(s)
      BY <2>1
    <3>2. \A m \in 1..(Len(s) + 1), n \in 0..Len(s) :
            m - 1 =< n => SubSeq(s, m, n) \in Seq(S)
      BY SubSeqProperties
    <3>3. QED
      BY <3>1, <3>2
  <2>4. QED
    BY <2>2, <2>3, ConcatProperties
<1>3. QED
  BY <1>1, <1>2

(***************************************************************************)
(* Type correctness.                                                       *)
(***************************************************************************)
(* A goroutine that moves to one of its own control points keeps PcOK *)
LEMMA GoType ==
  ASSUME PcOK, NEW a \in Actors, NEW label, Go(a, label),
         a \in Ctrs => label \in CtrPc,
         a \in Clients => label \in ClientPc,
         a = Main => label \in MainPc
  PROVE  PcOK'
  BY ActorsAssumption DEF PcOK, Go, Actors

(* CleanupNetwork leaves addresses and rules well typed *)
LEMMA ReleaseType ==
  ASSUME TypeOK, NEW c, CleanupNetwork(c)
  PROVE  /\ ip' \in [Ctrs -> {0} \union 2..HostMax]
         /\ nat' \in Seq(NatRule)
  BY RemoveFirstType DEF TypeOK, CleanupNetwork, ReleaseIP, RemovePortForward, NatRule

(* The steps of the sweep that begins a request keep the types *)
LEMMA SweepType ==
  ASSUME TypeOK, NEW a \in Ctrs \union Clients, Request(a) \/ Sweep(a)
  PROVE  TypeOK'
<1> USE ActorsAssumption DEF CtrPc, ClientPc, Sweeping, Preparing, Actors, disk, NatRule, RtFile
<1>1. CASE Request(a)
  BY <1>1, GoType DEF TypeOK, Request
<1>2. CASE SweepVisit(a)
  <2>1. CASE UNCHANGED pc
    BY <1>2, <2>1 DEF TypeOK, PcOK, SweepVisit
  <2>2. CASE Go(a, "sweepnet")
    <3>1. PcOK'
      BY <1>2, <2>2, GoType DEF TypeOK, SweepVisit
    <3>2. QED
      BY <1>2, <3>1 DEF TypeOK, SweepVisit
  <2>3. QED
    BY <1>2, <2>1, <2>2 DEF SweepVisit
<1>3. CASE SweepDone(a)
  BY <1>3, GoType DEF TypeOK, SweepDone
<1>4. CASE SweepNetwork(a)
  BY <1>4, GoType, ReleaseType DEF TypeOK, SweepNetwork
<1>5. CASE SweepDir(a)
  BY <1>5, GoType DEF TypeOK, SweepDir
<1>6. QED
  BY <1>1, <1>2, <1>3, <1>4, <1>5 DEF Sweep

(* The steps of UP and run() keep the types *)
LEMMA UpType ==
  ASSUME TypeOK, NEW c \in Ctrs, Up(c)
  PROVE  TypeOK'
<1> USE ActorsAssumption DEF CtrPc, Preparing, Running, Downing, Finished, Actors, disk, NatRule, RtFile
<1>1. CASE CheckNetwork(c)
  BY <1>1, GoType DEF TypeOK, CheckNetwork
<1>2. CASE CheckPorts(c)
  BY <1>2, GoType DEF TypeOK, CheckPorts
<1>3. CASE CheckVolumes(c)
  BY <1>3, GoType DEF TypeOK, CheckVolumes
<1>4. CASE Setup(c)
  BY <1>4, GoType DEF TypeOK, Setup
<1>5. CASE CheckName(c)
  BY <1>5, GoType DEF TypeOK, CheckName
<1>6. CASE NewManager(c)
  BY <1>6, GoType DEF TypeOK, NewManager
<1>7. CASE MarkVolumeUsed(c)
  BY <1>7, GoType DEF TypeOK, MarkVolumeUsed
<1>8. CASE AllocateIP(c)
  BY <1>8, GoType DEF TypeOK, AllocateIP, FreeHosts
<1>9. CASE PortForward(c)
  <2>1. Rule(c) \in NatRule
    BY DEF TypeOK, Rule
  <2>2. nat' \in Seq(NatRule)
    <3> HIDE DEF NatRule
    <3>1. nat \in Seq(NatRule) /\ nat' \in {nat, Append(nat, Rule(c))}
      BY <1>9 DEF TypeOK, PortForward
    <3>2. QED
      BY <2>1, <3>1, AppendProperties
  <2>3. QED
    BY <1>9, <2>2, GoType DEF TypeOK, PortForward
<1>10. CASE Start(c)
  BY <1>10, GoType DEF TypeOK, Start
<1>11. CASE Probe(c)
  BY <1>11, GoType DEF TypeOK, Probe
<1>12. CASE WriteJSON(c)
  BY <1>12, GoType DEF TypeOK, WriteJSON, KillChild
<1>13. CASE WritePID(c)
  BY SMTT(30), <1>13, GoType DEF TypeOK, WritePID, KillChild
<1>14. CASE AttachNetwork(c)
  BY <1>14, GoType DEF TypeOK, AttachNetwork, KillChild
<1>15. CASE Reap(c)
  BY <1>15, GoType DEF TypeOK, Reap
<1>16. CASE Cleanup(c)
  BY <1>16, GoType DEF TypeOK, Cleanup
<1>17. QED
  BY <1>1, <1>2, <1>3, <1>4, <1>5, <1>6, <1>7, <1>8,
     <1>9, <1>10, <1>11, <1>12, <1>13, <1>14, <1>15, <1>16 DEF Up

(* The steps of down(), whoever runs it, keep the types *)
LEMMA DownType ==
  ASSUME TypeOK, NEW a \in Ctrs \union Clients, Down(a)
  PROVE  TypeOK'
<1> USE ActorsAssumption DEF CtrPc, ClientPc, Downing, Finished, Actors, disk, NatRule, RtFile, AfterDown
<1>1. CASE ReadJSON(a)
  BY <1>1, GoType DEF TypeOK, ReadJSON
<1>2. CASE Terminate(a)
  BY <1>2, GoType DEF TypeOK, Terminate
<1>3. CASE Timeout(a)
  BY <1>3, GoType DEF TypeOK, Timeout, Died
<1>4. CASE Dead(a)
  BY <1>4, GoType DEF TypeOK, Dead
<1>5. CASE Unmark(a)
  BY <1>5, GoType DEF TypeOK, Unmark
<1>6. CASE DownNetwork(a)
  BY <1>6, GoType, ReleaseType DEF TypeOK, DownNetwork
<1>7. CASE Unname(a)
  BY <1>7, GoType DEF TypeOK, Unname
<1>8. CASE RemoveDir(a)
  BY <1>8, GoType DEF TypeOK, RemoveDir
<1>9. CASE RemoveRootfs(a)
  BY <1>9, GoType DEF TypeOK, RemoveRootfs
<1>10. QED
  BY <1>1, <1>2, <1>3, <1>4, <1>5, <1>6, <1>7, <1>8, <1>9 DEF Down

(* The steps of a DOWN request keep the types *)
LEMMA ClientType ==
  ASSUME TypeOK, NEW a \in Clients, ClientStep(a)
  PROVE  TypeOK'
<1> USE ActorsAssumption DEF ClientPc, Downing, Sweeping, Actors, disk, NatRule, RtFile
<1>1. CASE DownByHash(a)
  BY <1>1, GoType DEF TypeOK, DownByHash
<1>2. CASE DownByPath(a)
  BY <1>2, GoType DEF TypeOK, DownByPath, Listed
<1>3. CASE OtherRequest(a)
  BY <1>3, GoType DEF TypeOK, OtherRequest
<1>4. CASE NextDown(a)
  BY <1>4, GoType DEF TypeOK, NextDown
<1>5. QED
  BY <1>1, <1>2, <1>3, <1>4 DEF ClientStep

(* The steps of the boot clean-up keep the types *)
LEMMA BootType ==
  ASSUME TypeOK, BootStart \/ Boot
  PROVE  TypeOK'
<1> USE ActorsAssumption DEF MainPc, Actors, disk, NatRule, RtFile
<1>1. CASE BootStart
  BY <1>1, GoType DEF TypeOK, BootStart
<1>2. CASE BootVisitRuntime
  <2>1. CASE UNCHANGED pc
    BY <1>2, <2>1 DEF TypeOK, PcOK, BootVisitRuntime
  <2>2. CASE \E label \in MainPc : Go(Main, label)
    BY <1>2, <2>2, GoType DEF TypeOK, BootVisitRuntime
  <2>3. QED
    BY <1>2, <2>1, <2>2 DEF BootVisitRuntime
<1>3. CASE BootPurge
  BY <1>3, GoType DEF TypeOK, BootPurge
<1>4. CASE BootPurgeDir
  BY <1>4, GoType DEF TypeOK, BootPurgeDir
<1>5. CASE BootPurgeRootfs
  BY <1>5, GoType DEF TypeOK, BootPurgeRootfs
<1>6. CASE BootVisitLib
  <2>1. CASE UNCHANGED pc
    BY <1>6, <2>1 DEF TypeOK, PcOK, BootVisitLib
  <2>2. CASE \E label \in MainPc : Go(Main, label)
    BY <1>6, <2>2, GoType DEF TypeOK, BootVisitLib
  <2>3. QED
    BY <1>6, <2>1, <2>2 DEF BootVisitLib
<1>7. CASE BootRelease
  BY <1>7, GoType DEF TypeOK, BootRelease, ReleaseIP
<1>8. QED
  BY <1>1, <1>2, <1>3, <1>4, <1>5, <1>6, <1>7 DEF Boot

(* Processes that end and daemon deaths keep the types *)
LEMMA EnvironmentType ==
  ASSUME TypeOK, Crash \/ \E c \in Ctrs : Exit(c)
  PROVE  TypeOK'
<1>1. CASE Crash
  <2>1. PcOK'
    BY <1>1, ActorsAssumption
    DEF TypeOK, PcOK, Crash, CtrPc, ClientPc, MainPc, Finished, Actors
  <2>2. QED
    BY <1>1, <2>1, HostMaxAssumption DEF TypeOK, Crash, disk, NatRule, RtFile
<1>2. ASSUME NEW c \in Ctrs, Exit(c) PROVE TypeOK'
  BY <1>2 DEF TypeOK, PcOK, Exit, Died, disk, NatRule, RtFile
<1>3. QED
  BY <1>1, <1>2

(* Every variable keeps its type, whatever interleaving, fault or crash *)
THEOREM TypeCorrect == Spec => []TypeOK
<1>1. Init => TypeOK
  BY ActorsAssumption, HostMaxAssumption
  DEF Init, TypeOK, PcOK, Actors, CtrPc, ClientPc, MainPc, NatRule, RtFile
<1>2. TypeOK /\ [Next]_vars => TypeOK'
  <2> SUFFICES ASSUME TypeOK, [Next]_vars PROVE TypeOK'
    OBVIOUS
  <2>1. ASSUME NEW a \in Ctrs \union Clients, Request(a) \/ Step(a) PROVE TypeOK'
    BY <2>1, SweepType, UpType, DownType, ClientType DEF Step
  <2>2. CASE Crash \/ \E c \in Ctrs : Exit(c)
    BY <2>2, EnvironmentType
  <2>3. CASE BootStart \/ Boot
    BY <2>3, BootType
  <2>4. CASE UNCHANGED vars
    BY <2>4 DEF vars, TypeOK, PcOK, NatRule, RtFile
  <2>5. QED
    BY <2>1, <2>2, <2>3, <2>4 DEF Next
<1>3. QED
  BY <1>1, <1>2, PTL DEF Spec

(***************************************************************************)
(* Ownership.                                                              *)
(***************************************************************************)
(* Removing the first match of one rule keeps every other rule *)
LEMMA RemoveFirstKeeps ==
  ASSUME NEW S, NEW s \in Seq(S), NEW e, NEW i \in DOMAIN s, s[i] # e
  PROVE  \E j \in DOMAIN RemoveFirst(s, e) : RemoveFirst(s, e)[j] = s[i]
<1> DEFINE I == {n \in 1..Len(s) : s[n] = e}
           k == SelectInSeq(s, LAMBDA v : v = e)
           before == SubSeq(s, 1, k - 1)
           after == SubSeq(s, k + 1, Len(s))
<1>1. CASE ~ \E n \in 1..Len(s) : s[n] = e
  BY <1>1 DEF RemoveFirst
<1>2. CASE \E n \in 1..Len(s) : s[n] = e
  <2>1. k \in I
    <3>1. I \in SUBSET Nat /\ I # {}
      BY <1>2
    <3>2. k = Min(I)
      BY <3>1 DEF SelectInSeq
    <3>3. QED
      BY <3>1, <3>2, MinOfNaturals
  <2>2. RemoveFirst(s, e) = before \o after
    BY <1>2 DEF RemoveFirst, RemoveAt
  <2>3. /\ k \in 1..Len(s) /\ s[k] = e
        /\ Len(s) \in Nat /\ \A n \in 1..Len(s) : s[n] \in S
        /\ i \in 1..Len(s) /\ i # k
    BY <2>1
  <2> HIDE DEF k
  <2>4. /\ before \in Seq(S) /\ Len(before) = k - 1
        /\ \A n \in 1..(k - 1) : before[n] = s[n]
    <3>1. \A n \in 1..(k - 1) : s[n] \in S
      BY <2>3
    <3>2. QED
      BY <2>3, <3>1, SubSeqProperties
  <2>5. /\ after \in Seq(S) /\ Len(after) = Len(s) - k
        /\ \A n \in 1..(Len(s) - k) : after[n] = s[n + k]
    <3>1. \A n \in (k + 1)..Len(s) : s[n] \in S
      BY <2>3
    <3>2. QED
      BY <2>3, <3>1, SubSeqProperties
  <2> HIDE DEF before, after
  <2>6. /\ before \o after \in Seq(S)
        /\ Len(before \o after) = Len(before) + Len(after)
        /\ \A n \in 1..(Len(before) + Len(after)) :
             (before \o after)[n] = IF n <= Len(before) THEN before[n]
                                                        ELSE after[n - Len(before)]
    BY <2>4, <2>5, ConcatProperties, Zenon
  <2> DEFINE w == before \o after
  <2>7. DOMAIN w = 1..(Len(s) - 1) /\ \A n \in 1..(Len(s) - 1) :
             w[n] = IF n <= k - 1 THEN before[n] ELSE after[n - (k - 1)]
    BY <2>3, <2>4, <2>5, <2>6
  <2> HIDE DEF w
  <2>8. CASE i < k
    <3>1. i \in DOMAIN w /\ w[i] = s[i]
      BY <2>3, <2>4, <2>7, <2>8
    <3>2. QED
      BY <2>2, <3>1 DEF w
  <2>9. CASE i > k
    <3>1. i - 1 \in DOMAIN w /\ w[i - 1] = after[i - k]
      BY <2>3, <2>7, <2>9
    <3>2. after[i - k] = s[i]
      BY <2>3, <2>5, <2>9
    <3>3. QED
      BY <2>2, <3>1, <3>2 DEF w
  <2>10. QED
    BY <2>3, <2>8, <2>9
<1>3. QED
  BY <1>1, <1>2

(* What CleanupNetwork leaves to the containers it is not called for *)
LEMMA CleanupKeepsOthers ==
  ASSUME TypeOK, AddressesApart, NEW t \in Ctrs, CleanupNetwork(t)
  PROVE  /\ AddressesApart'
         /\ \A c \in Ctrs \ {t} :
              /\ ip'[c] = ip[c]
              /\ ip[c] # 0 /\ HasRule(c) => HasRule(c)'
<1>1. ip' \in {ip, [ip EXCEPT ![t] = 0]}
  BY DEF CleanupNetwork, ReleaseIP
<1>2. AddressesApart'
  BY <1>1 DEF TypeOK, AddressesApart
<1>3. \A c \in Ctrs \ {t} : ip'[c] = ip[c]
  BY <1>1 DEF TypeOK
<1>4. ASSUME NEW c \in Ctrs \ {t}, ip[c] # 0, HasRule(c) PROVE HasRule(c)'
  <2>1. Rule(c)' = Rule(c)
    BY <1>3 DEF Rule
  <2>2. CASE nat' = nat
    BY <1>4, <2>1, <2>2 DEF HasRule
  <2>3. CASE ip[t] # 0 /\ nat' = RemoveFirst(nat, Rule(t))
    <3>1. Rule(c) # Rule(t)
      BY <1>4, <2>3 DEF AddressesApart, Rule
    <3>2. PICK i \in DOMAIN nat : nat[i] = Rule(c)
      BY <1>4 DEF HasRule
    <3>3. nat \in Seq(NatRule)
      BY DEF TypeOK
    <3>4. \E j \in DOMAIN nat' : nat'[j] = Rule(c)
      <4>1. \E j \in DOMAIN RemoveFirst(nat, Rule(t)) :
              RemoveFirst(nat, Rule(t))[j] = Rule(c)
        <5>1. /\ nat \in Seq(NatRule) /\ Rule(c) # Rule(t)
              /\ i \in DOMAIN nat /\ nat[i] = Rule(c) /\ nat[i] # Rule(t)
          BY <3>1, <3>2, <3>3
        <5>2. QED
          BY <5>1, RemoveFirstKeeps
      <4>2. QED
        BY <2>3, <4>1
    <3>5. QED
      BY <2>1, <3>4 DEF HasRule
  <2>4. QED
    BY <2>2, <2>3 DEF CleanupNetwork, RemovePortForward
<1>5. QED
  BY <1>2, <1>3, <1>4

(* While a goroutine works the daemon serves *)
LEMMA WorkIsServed ==
  ASSUME BootsAlone, NEW a \in Ctrs \union Clients, pc[a] \notin {"idle"} \union Finished,
         pc'[Main] = pc[Main]
  PROVE  BootsAlone'
<1>1. pc'[Main] = "serving"
  BY DEF BootsAlone, Serving
<1>2. QED
  BY <1>1 DEF BootsAlone, Serving

(* A sweep takes resources from containers that are gone only *)
LEMMA SweepOwns ==
  ASSUME Ownership, TypeOK', NEW a \in Ctrs \union Clients, Request(a) \/ Sweep(a)
  PROVE  Ownership'
<1> USE ActorsAssumption
    DEF Ownership, TypeOK, PcOK, Acquires, Keeps, TakesFromGone, BootsAlone, ListedHasRun,
        AddressesApart, RecordedOwnsResources, ListedHasRootfs, Owns, HasRule, Rule,
        Recorded, Listed, Exists, BootAlive, Serving, Go, disk, Actors,
        Sweeping, Preparing, Running, Reclaiming, Finished
<1>1. CASE Request(a)
  BY <1>1 DEF Request
<1>2. CASE SweepVisit(a)
  <2>1. CASE UNCHANGED <<pc, target>>
    BY <1>2, <2>1 DEF SweepVisit
  <2>2. CASE \E c \in todo[a] :
               /\ "json" \in rt[c] /\ ~Exists(c)
               /\ Go(a, "sweepnet") /\ target' = [target EXCEPT ![a] = c]
    <3>1. PICK c \in Ctrs : /\ "json" \in rt[c] /\ ~Exists(c)
                            /\ Go(a, "sweepnet") /\ target' = [target EXCEPT ![a] = c]
      BY <2>2
    <3>2. proc[c] = "gone"
      BY <3>1
    <3>3. pc[a] = "sweep" /\ UNCHANGED <<proc, rt, rootfs, names, marked, ip, nat>>
      BY <1>2 DEF SweepVisit
    <3>4. Acquires' /\ Keeps'
      BY <1>2, <3>1, <3>3
    <3>5. TakesFromGone'
      BY <1>2, <3>1, <3>2, <3>3
    <3>6. BootsAlone' /\ ListedHasRun' /\ AddressesApart'
      BY <1>2, <3>1, <3>3
    <3>7. RecordedOwnsResources' /\ ListedHasRootfs'
      BY <1>2, <3>1, <3>3
    <3>8. QED
      BY <3>4, <3>5, <3>6, <3>7
  <2>3. QED
    BY SMTT(30), <1>2, <2>1, <2>2 DEF SweepVisit
<1>3. CASE SweepDone(a)
  BY <1>3 DEF SweepDone
<1>4. CASE SweepNetwork(a)
  <2>1. /\ target[a] \in Ctrs /\ proc[target[a]] = "gone"
        /\ CleanupNetwork(target[a])
    BY <1>4 DEF SweepNetwork
  <2>2. /\ AddressesApart'
        /\ \A c \in Ctrs \ {target[a]} :
              /\ ip'[c] = ip[c]
              /\ ip[c] # 0 /\ HasRule(c) => HasRule(c)'
    <3> HIDE DEF AddressesApart, HasRule
    <3>1. QED
      BY <2>1, CleanupKeepsOthers
  <2> HIDE DEF HasRule
  <2>3. QED
    BY <1>4, <2>1, <2>2 DEF SweepNetwork
<1>5. CASE SweepDir(a)
  BY <1>5 DEF SweepDir
<1>6. QED
  BY <1>1, <1>2, <1>3, <1>4, <1>5 DEF Sweep

(* iptables -A: the new rule is there, and no other is lost *)
LEMMA RuleAppended ==
  ASSUME TypeOK, NEW c \in Ctrs, nat' = Append(nat, Rule(c))
  PROVE  \A r : r = Rule(c) \/ (\E i \in DOMAIN nat : nat[i] = r)
                => \E i \in DOMAIN nat' : nat'[i] = r
<1>1. nat \in Seq(NatRule) /\ Rule(c) \in NatRule
  BY DEF TypeOK, Rule, NatRule
<1>2. /\ nat' \in Seq(NatRule) /\ Len(nat') = Len(nat) + 1
      /\ \A i \in 1..Len(nat) : nat'[i] = nat[i]
      /\ nat'[Len(nat) + 1] = Rule(c)
  <2> HIDE DEF Rule, NatRule
  <2>1. QED
    BY <1>1, AppendProperties
<1>3. DOMAIN nat = 1..Len(nat) /\ DOMAIN nat' = 1..(Len(nat) + 1) /\ Len(nat) \in Nat
  BY <1>1, <1>2
<1>4. QED
  BY <1>2, <1>3

(* UP and run() acquire resources before they use them, and keep them *)
LEMMA UpOwns ==
  ASSUME Ownership, TypeOK', NEW c \in Ctrs, Up(c)
  PROVE  Ownership'
<1> USE ActorsAssumption
    DEF Ownership, TypeOK, PcOK, Acquires, Keeps, TakesFromGone, BootsAlone, ListedHasRun,
        AddressesApart, RecordedOwnsResources, ListedHasRootfs, Owns, HasRule, Rule,
        Recorded, Listed, Exists, BootAlive, Serving, Go, disk, Actors,
        Sweeping, Preparing, Running, Downing, Reclaiming, Finished
<1>1. CASE CheckNetwork(c)
  <2>1. CASE Go(c, "ports")
    BY <1>1, <2>1 DEF CheckNetwork
  <2>2. CASE Go(c, "failed")
    BY <1>1, <2>2 DEF CheckNetwork
  <2>3. QED
    BY <1>1, <2>1, <2>2 DEF CheckNetwork
<1>2. CASE CheckPorts(c)
  <2>1. CASE Go(c, "volumes")
    BY <1>2, <2>1 DEF CheckPorts
  <2>2. CASE Go(c, "failed")
    BY <1>2, <2>2 DEF CheckPorts
  <2>3. QED
    BY <1>2, <2>1, <2>2 DEF CheckPorts
<1>3. CASE CheckVolumes(c)
  BY <1>3 DEF CheckVolumes
<1>4. CASE Setup(c)
  <2>1. Acquires'
    BY <1>4 DEF Setup
  <2>2. Keeps'
    BY <1>4 DEF Setup
  <2>3. TakesFromGone'
    BY <1>4 DEF Setup
  <2>4. BootsAlone'
    <3>1. pc[c] \notin {"idle"} \union Finished /\ pc'[Main] = pc[Main]
      BY <1>4 DEF Setup
    <3> HIDE DEF BootsAlone, Finished
    <3>2. QED
      BY <3>1, WorkIsServed
  <2>5. ListedHasRun'
    BY <1>4 DEF Setup
  <2>6. AddressesApart'
    BY <1>4 DEF Setup
  <2>7. RecordedOwnsResources'
    BY <1>4 DEF Setup
  <2>8. ListedHasRootfs'
    BY <1>4 DEF Setup
  <2>9. QED
    BY <2>1, <2>2, <2>3, <2>4, <2>5, <2>6, <2>7, <2>8
<1>5. CASE CheckName(c)
  <2>1. CASE NameTaken(c)
    <3>1. Acquires'
      BY <1>5, <2>1 DEF CheckName
    <3>2. Keeps'
      BY <1>5, <2>1 DEF CheckName
    <3>3. TakesFromGone'
      BY <1>5, <2>1 DEF CheckName
    <3>4. BootsAlone'
      <4>1. pc[c] \notin {"idle"} \union Finished /\ pc'[Main] = pc[Main]
        BY <1>5, <2>1 DEF CheckName
      <4> HIDE DEF BootsAlone, Finished
      <4>2. QED
        BY <4>1, WorkIsServed
    <3>5. ListedHasRun'
      BY <1>5, <2>1 DEF CheckName
    <3>6. AddressesApart'
      BY <1>5, <2>1 DEF CheckName
    <3>7. RecordedOwnsResources'
      BY <1>5, <2>1 DEF CheckName
    <3>8. ListedHasRootfs'
      BY <1>5, <2>1 DEF CheckName
    <3>9. QED
      BY <3>1, <3>2, <3>3, <3>4, <3>5, <3>6, <3>7, <3>8
  <2>2. CASE ~NameTaken(c)
    <3>1. Acquires'
      BY <1>5, <2>2 DEF CheckName
    <3>2. Keeps'
      BY <1>5, <2>2 DEF CheckName
    <3>3. TakesFromGone'
      BY <1>5, <2>2 DEF CheckName
    <3>4. BootsAlone'
      <4>1. pc[c] \notin {"idle"} \union Finished /\ pc'[Main] = pc[Main]
        BY <1>5, <2>2 DEF CheckName
      <4> HIDE DEF BootsAlone, Finished
      <4>2. QED
        BY <4>1, WorkIsServed
    <3>5. ListedHasRun'
      BY <1>5, <2>2 DEF CheckName
    <3>6. AddressesApart'
      BY <1>5, <2>2 DEF CheckName
    <3>7. RecordedOwnsResources'
      BY <1>5, <2>2 DEF CheckName
    <3>8. ListedHasRootfs'
      BY <1>5, <2>2 DEF CheckName
    <3>9. QED
      BY <3>1, <3>2, <3>3, <3>4, <3>5, <3>6, <3>7, <3>8
  <2>3. QED
    BY <1>5, <2>1, <2>2 DEF CheckName
<1>6. CASE NewManager(c)
  <2>1. CASE Go(c, "mark") /\ rt' = [rt EXCEPT ![c] = {"logs"}]
    <3>1. Acquires'
      BY <1>6, <2>1 DEF NewManager
    <3>2. Keeps'
      BY <1>6, <2>1 DEF NewManager
    <3>3. TakesFromGone'
      BY <1>6, <2>1 DEF NewManager
    <3>4. BootsAlone'
      <4>1. pc[c] \notin {"idle"} \union Finished /\ pc'[Main] = pc[Main]
        BY <1>6, <2>1 DEF NewManager
      <4> HIDE DEF BootsAlone, Finished
      <4>2. QED
        BY <4>1, WorkIsServed
    <3>5. ListedHasRun'
      BY <1>6, <2>1 DEF NewManager
    <3>6. AddressesApart'
      BY <1>6, <2>1 DEF NewManager
    <3>7. RecordedOwnsResources'
      BY <1>6, <2>1 DEF NewManager
    <3>8. ListedHasRootfs'
      BY <1>6, <2>1 DEF NewManager
    <3>9. QED
      BY <3>1, <3>2, <3>3, <3>4, <3>5, <3>6, <3>7, <3>8
  <2>2. CASE Go(c, "failed") /\ UNCHANGED rt
    <3>1. Acquires'
      BY <1>6, <2>2 DEF NewManager
    <3>2. Keeps'
      BY <1>6, <2>2 DEF NewManager
    <3>3. TakesFromGone'
      BY <1>6, <2>2 DEF NewManager
    <3>4. BootsAlone'
      <4>1. pc[c] \notin {"idle"} \union Finished /\ pc'[Main] = pc[Main]
        BY <1>6, <2>2 DEF NewManager
      <4> HIDE DEF BootsAlone, Finished
      <4>2. QED
        BY <4>1, WorkIsServed
    <3>5. ListedHasRun'
      BY <1>6, <2>2 DEF NewManager
    <3>6. AddressesApart'
      BY <1>6, <2>2 DEF NewManager
    <3>7. RecordedOwnsResources'
      BY <1>6, <2>2 DEF NewManager
    <3>8. ListedHasRootfs'
      BY <1>6, <2>2 DEF NewManager
    <3>9. QED
      BY <3>1, <3>2, <3>3, <3>4, <3>5, <3>6, <3>7, <3>8
  <2>3. QED
    BY <1>6, <2>1, <2>2 DEF NewManager
<1>7. CASE MarkVolumeUsed(c)
  BY <1>7 DEF MarkVolumeUsed
<1>8. CASE AllocateIP(c)
  <2>1. Acquires'
    BY <1>8 DEF AllocateIP, FreeHosts
  <2>2. Keeps'
    BY <1>8 DEF AllocateIP, FreeHosts
  <2>3. TakesFromGone'
    BY <1>8 DEF AllocateIP, FreeHosts
  <2>4. BootsAlone'
    <3>1. pc[c] \notin {"idle"} \union Finished /\ pc'[Main] = pc[Main]
      BY <1>8 DEF AllocateIP, FreeHosts
    <3> HIDE DEF BootsAlone, Finished
    <3>2. QED
      BY <3>1, WorkIsServed
  <2>5. ListedHasRun'
    BY <1>8 DEF AllocateIP, FreeHosts
  <2>6. AddressesApart'
    BY <1>8 DEF AllocateIP, FreeHosts
  <2>7. RecordedOwnsResources'
    BY <1>8 DEF AllocateIP, FreeHosts
  <2>8. ListedHasRootfs'
    BY <1>8 DEF AllocateIP, FreeHosts
  <2>9. QED
    BY <2>1, <2>2, <2>3, <2>4, <2>5, <2>6, <2>7, <2>8
<1>9. CASE PortForward(c)
  <2>1. CASE UNCHANGED nat
    BY <1>9, <2>1 DEF PortForward
  <2>2. CASE nat' = Append(nat, Rule(c))
    <3>0. HasRule(c)' /\ \A d \in Ctrs : HasRule(d) => HasRule(d)'
      <4>1. \A d \in Ctrs : Rule(d)' = Rule(d)
        BY <1>9 DEF PortForward
      <4>2. \A r : r = Rule(c) \/ (\E i \in DOMAIN nat : nat[i] = r)
                => \E i \in DOMAIN nat' : nat'[i] = r
        <5> HIDE DEF Ownership
        <5>1. TypeOK
          BY DEF Ownership
        <5> HIDE DEF Rule, TypeOK
        <5>2. QED
          BY <2>2, <5>1, RuleAppended
      <4>3. ASSUME NEW d \in Ctrs, d = c \/ HasRule(d) PROVE HasRule(d)'
        <5>1. Rule(d)' = Rule(d)
          BY <4>1
        <5>2. \E i \in DOMAIN nat' : nat'[i] = Rule(d)
          <6> HIDE DEF Rule
          <6>1. QED
            BY <4>2, <4>3
        <5> HIDE DEF Rule
        <5>3. QED
          BY <5>1, <5>2
      <4>4. QED
        BY <4>3
    <3> HIDE DEF HasRule
    <3>1. Acquires'
      BY <1>9, <2>2, <3>0 DEF PortForward
    <3>2. Keeps'
      BY <1>9, <2>2, <3>0 DEF PortForward
    <3>3. TakesFromGone'
      BY <1>9, <2>2, <3>0 DEF PortForward
    <3>4. BootsAlone'
      <4>1. pc[c] \notin {"idle"} \union Finished /\ pc'[Main] = pc[Main]
        BY <1>9, <2>2, <3>0 DEF PortForward
      <4> HIDE DEF BootsAlone, Finished
      <4>2. QED
        BY <4>1, WorkIsServed
    <3>5. ListedHasRun'
      BY <1>9, <2>2, <3>0 DEF PortForward
    <3>6. AddressesApart'
      BY <1>9, <2>2, <3>0 DEF PortForward
    <3>7. RecordedOwnsResources'
      BY <1>9, <2>2, <3>0 DEF PortForward
    <3>8. ListedHasRootfs'
      BY <1>9, <2>2, <3>0 DEF PortForward
    <3>9. QED
      BY <3>1, <3>2, <3>3, <3>4, <3>5, <3>6, <3>7, <3>8
  <2>3. QED
    BY <1>9, <2>1, <2>2 DEF PortForward
<1>10. CASE Start(c)
  <2>1. CASE Go(c, "probe")
    <3>1. Acquires'
      BY <1>10, <2>1 DEF Start
    <3>2. Keeps'
      BY <1>10, <2>1 DEF Start
    <3>3. TakesFromGone'
      BY <1>10, <2>1 DEF Start
    <3>4. BootsAlone'
      <4>1. pc[c] \notin {"idle"} \union Finished /\ pc'[Main] = pc[Main]
        BY <1>10, <2>1 DEF Start
      <4> HIDE DEF BootsAlone, Finished
      <4>2. QED
        BY <4>1, WorkIsServed
    <3>5. ListedHasRun'
      BY <1>10, <2>1 DEF Start
    <3>6. AddressesApart'
      BY <1>10, <2>1 DEF Start
    <3>7. RecordedOwnsResources'
      BY <1>10, <2>1 DEF Start
    <3>8. ListedHasRootfs'
      BY <1>10, <2>1 DEF Start
    <3>9. QED
      BY <3>1, <3>2, <3>3, <3>4, <3>5, <3>6, <3>7, <3>8
  <2>2. CASE Go(c, "cleanup")
    <3>1. Acquires'
      BY <1>10, <2>2 DEF Start
    <3>2. Keeps'
      BY <1>10, <2>2 DEF Start
    <3>3. TakesFromGone'
      BY <1>10, <2>2 DEF Start
    <3>4. BootsAlone'
      <4>1. pc[c] \notin {"idle"} \union Finished /\ pc'[Main] = pc[Main]
        BY <1>10, <2>2 DEF Start
      <4> HIDE DEF BootsAlone, Finished
      <4>2. QED
        BY <4>1, WorkIsServed
    <3>5. ListedHasRun'
      BY <1>10, <2>2 DEF Start
    <3>6. AddressesApart'
      BY <1>10, <2>2 DEF Start
    <3>7. RecordedOwnsResources'
      BY <1>10, <2>2 DEF Start
    <3>8. ListedHasRootfs'
      BY <1>10, <2>2 DEF Start
    <3>9. QED
      BY <3>1, <3>2, <3>3, <3>4, <3>5, <3>6, <3>7, <3>8
  <2>3. QED
    BY <1>10, <2>1, <2>2 DEF Start
<1>11. CASE Probe(c)
  BY <1>11 DEF Probe
<1>12. CASE WriteJSON(c)
  <2>1. CASE Go(c, "pid")
    <3>1. Acquires'
      BY <1>12, <2>1 DEF WriteJSON, KillChild
    <3>2. Keeps'
      BY <1>12, <2>1 DEF WriteJSON, KillChild
    <3>3. TakesFromGone'
      BY <1>12, <2>1 DEF WriteJSON, KillChild
    <3>4. BootsAlone'
      <4>1. pc[c] \notin {"idle"} \union Finished /\ pc'[Main] = pc[Main]
        BY <1>12, <2>1 DEF WriteJSON, KillChild
      <4> HIDE DEF BootsAlone, Finished
      <4>2. QED
        BY <4>1, WorkIsServed
    <3>5. ListedHasRun'
      BY <1>12, <2>1 DEF WriteJSON, KillChild
    <3>6. AddressesApart'
      BY <1>12, <2>1 DEF WriteJSON, KillChild
    <3>7. RecordedOwnsResources'
      BY <1>12, <2>1 DEF WriteJSON, KillChild
    <3>8. ListedHasRootfs'
      BY <1>12, <2>1 DEF WriteJSON, KillChild
    <3>9. QED
      BY <3>1, <3>2, <3>3, <3>4, <3>5, <3>6, <3>7, <3>8
  <2>2. CASE Go(c, "cleanup")
    <3>1. Acquires'
      BY <1>12, <2>2 DEF WriteJSON, KillChild
    <3>2. Keeps'
      BY <1>12, <2>2 DEF WriteJSON, KillChild
    <3>3. TakesFromGone'
      BY <1>12, <2>2 DEF WriteJSON, KillChild
    <3>4. BootsAlone'
      <4>1. pc[c] \notin {"idle"} \union Finished /\ pc'[Main] = pc[Main]
        BY <1>12, <2>2 DEF WriteJSON, KillChild
      <4> HIDE DEF BootsAlone, Finished
      <4>2. QED
        BY <4>1, WorkIsServed
    <3>5. ListedHasRun'
      BY <1>12, <2>2 DEF WriteJSON, KillChild
    <3>6. AddressesApart'
      BY <1>12, <2>2 DEF WriteJSON, KillChild
    <3>7. RecordedOwnsResources'
      BY <1>12, <2>2 DEF WriteJSON, KillChild
    <3>8. ListedHasRootfs'
      BY <1>12, <2>2 DEF WriteJSON, KillChild
    <3>9. QED
      BY <3>1, <3>2, <3>3, <3>4, <3>5, <3>6, <3>7, <3>8
  <2>3. QED
    BY <1>12, <2>1, <2>2 DEF WriteJSON
<1>13. CASE WritePID(c)
  <2>1. CASE Go(c, "attach")
    <3>1. Acquires'
      BY <1>13, <2>1 DEF WritePID, KillChild
    <3>2. Keeps'
      BY <1>13, <2>1 DEF WritePID, KillChild
    <3>3. TakesFromGone'
      BY <1>13, <2>1 DEF WritePID, KillChild
    <3>4. BootsAlone'
      <4>1. pc[c] \notin {"idle"} \union Finished /\ pc'[Main] = pc[Main]
        BY <1>13, <2>1 DEF WritePID, KillChild
      <4> HIDE DEF BootsAlone, Finished
      <4>2. QED
        BY <4>1, WorkIsServed
    <3>5. ListedHasRun'
      BY <1>13, <2>1 DEF WritePID, KillChild
    <3>6. AddressesApart'
      BY <1>13, <2>1 DEF WritePID, KillChild
    <3>7. RecordedOwnsResources'
      BY <1>13, <2>1 DEF WritePID, KillChild
    <3>8. ListedHasRootfs'
      BY <1>13, <2>1 DEF WritePID, KillChild
    <3>9. QED
      BY <3>1, <3>2, <3>3, <3>4, <3>5, <3>6, <3>7, <3>8
  <2>2. CASE Go(c, "cleanup")
    <3>1. Acquires'
      BY <1>13, <2>2 DEF WritePID, KillChild
    <3>2. Keeps'
      BY <1>13, <2>2 DEF WritePID, KillChild
    <3>3. TakesFromGone'
      BY <1>13, <2>2 DEF WritePID, KillChild
    <3>4. BootsAlone'
      <4>1. pc[c] \notin {"idle"} \union Finished /\ pc'[Main] = pc[Main]
        BY <1>13, <2>2 DEF WritePID, KillChild
      <4> HIDE DEF BootsAlone, Finished
      <4>2. QED
        BY <4>1, WorkIsServed
    <3>5. ListedHasRun'
      BY <1>13, <2>2 DEF WritePID, KillChild
    <3>6. AddressesApart'
      BY <1>13, <2>2 DEF WritePID, KillChild
    <3>7. RecordedOwnsResources'
      BY <1>13, <2>2 DEF WritePID, KillChild
    <3>8. ListedHasRootfs'
      BY <1>13, <2>2 DEF WritePID, KillChild
    <3>9. QED
      BY <3>1, <3>2, <3>3, <3>4, <3>5, <3>6, <3>7, <3>8
  <2>3. QED
    BY <1>13, <2>1, <2>2 DEF WritePID
<1>14. CASE AttachNetwork(c)
  BY <1>14 DEF AttachNetwork, KillChild
<1>15. CASE Reap(c)
  BY <1>15 DEF Reap
<1>16. CASE Cleanup(c)
  BY <1>16 DEF Cleanup
<1>17. QED
  BY <1>1, <1>2, <1>3, <1>4, <1>5, <1>6, <1>7, <1>8,
     <1>9, <1>10, <1>11, <1>12, <1>13, <1>14, <1>15, <1>16 DEF Up

(* down() takes resources away only after the process has gone *)
LEMMA DownOwns ==
  ASSUME Ownership, TypeOK', NEW a \in Ctrs \union Clients, Down(a)
  PROVE  Ownership'
<1> USE ActorsAssumption
    DEF Ownership, TypeOK, PcOK, Acquires, Keeps, TakesFromGone, BootsAlone, ListedHasRun,
        AddressesApart, RecordedOwnsResources, ListedHasRootfs, Owns, HasRule, Rule,
        Recorded, Listed, Exists, BootAlive, Serving, Go, disk, Actors,
        Sweeping, Preparing, Running, Downing, Reclaiming, Finished, AfterDown
<1>1. CASE ReadJSON(a)
  BY SMTT(30), <1>1 DEF ReadJSON
<1>2. CASE Terminate(a)
  BY <1>2 DEF Terminate
<1>3. CASE Timeout(a)
  BY <1>3 DEF Timeout, Died
<1>4. CASE Dead(a)
  <2>1. target[a] \in Ctrs /\ proc[target[a]] = "gone"
    BY <1>4 DEF Dead
  <2>2. QED
    BY <1>4, <2>1 DEF Dead
<1>5. CASE Unmark(a)
  BY <1>5 DEF Unmark
<1>6. CASE DownNetwork(a)
  <2>1. /\ target[a] \in Ctrs /\ proc[target[a]] = "gone"
        /\ CleanupNetwork(target[a])
    BY <1>6 DEF DownNetwork
  <2>2. /\ AddressesApart'
        /\ \A c \in Ctrs \ {target[a]} :
              /\ ip'[c] = ip[c]
              /\ ip[c] # 0 /\ HasRule(c) => HasRule(c)'
    <3> HIDE DEF AddressesApart, HasRule
    <3>1. QED
      BY <2>1, CleanupKeepsOthers
  <2> HIDE DEF HasRule
  <2>3. QED
    BY <1>6, <2>1, <2>2 DEF DownNetwork
<1>7. CASE Unname(a)
  BY <1>7 DEF Unname
<1>8. CASE RemoveDir(a)
  <2>1. CASE UNCHANGED rt
    <3>1. Acquires'
      BY <1>8, <2>1 DEF RemoveDir
    <3>2. Keeps'
      BY <1>8, <2>1 DEF RemoveDir
    <3>3. TakesFromGone'
      BY <1>8, <2>1 DEF RemoveDir
    <3>4. BootsAlone'
      <4>1. pc[a] \notin {"idle"} \union Finished /\ pc'[Main] = pc[Main]
        BY <1>8, <2>1 DEF RemoveDir
      <4> HIDE DEF BootsAlone, Finished
      <4>2. QED
        BY <4>1, WorkIsServed
    <3>5. ListedHasRun'
      BY <1>8, <2>1 DEF RemoveDir
    <3>6. AddressesApart'
      BY <1>8, <2>1 DEF RemoveDir
    <3>7. RecordedOwnsResources'
      BY <1>8, <2>1 DEF RemoveDir
    <3>8. ListedHasRootfs'
      BY <1>8, <2>1 DEF RemoveDir
    <3>9. QED
      BY <3>1, <3>2, <3>3, <3>4, <3>5, <3>6, <3>7, <3>8
  <2>2. CASE rt' = [rt EXCEPT ![target[a]] = {}]
    <3>1. Acquires'
      BY <1>8, <2>2 DEF RemoveDir
    <3>2. Keeps'
      BY <1>8, <2>2 DEF RemoveDir
    <3>3. TakesFromGone'
      BY SMTT(30), <1>8, <2>2 DEF RemoveDir
    <3>4. BootsAlone'
      <4>1. pc[a] \notin {"idle"} \union Finished /\ pc'[Main] = pc[Main]
        BY <1>8, <2>2 DEF RemoveDir
      <4> HIDE DEF BootsAlone, Finished
      <4>2. QED
        BY <4>1, WorkIsServed
    <3>5. ListedHasRun'
      BY <1>8, <2>2 DEF RemoveDir
    <3>6. AddressesApart'
      BY <1>8, <2>2 DEF RemoveDir
    <3>7. RecordedOwnsResources'
      BY <1>8, <2>2 DEF RemoveDir
    <3>8. ListedHasRootfs'
      BY <1>8, <2>2 DEF RemoveDir
    <3>9. QED
      BY <3>1, <3>2, <3>3, <3>4, <3>5, <3>6, <3>7, <3>8
  <2>3. QED
    BY <1>8, <2>1, <2>2 DEF RemoveDir
<1>9. CASE RemoveRootfs(a)
  BY <1>9 DEF RemoveRootfs
<1>10. QED
  BY <1>1, <1>2, <1>3, <1>4, <1>5, <1>6, <1>7, <1>8, <1>9 DEF Down

(* A DOWN request keeps the ownership up to its call of down() *)
LEMMA ClientOwns ==
  ASSUME Ownership, TypeOK', NEW a \in Clients, ClientStep(a)
  PROVE  Ownership'
<1> USE ActorsAssumption
    DEF Ownership, TypeOK, PcOK, Acquires, Keeps, TakesFromGone, BootsAlone, ListedHasRun,
        AddressesApart, RecordedOwnsResources, ListedHasRootfs, Owns, HasRule, Rule,
        Recorded, Listed, Exists, BootAlive, Serving, Go, disk, Actors,
        Sweeping, Preparing, Running, Downing, Reclaiming, Finished
<1>1. CASE DownByHash(a)
  BY <1>1 DEF DownByHash
<1>2. CASE DownByPath(a)
  BY <1>2 DEF DownByPath
<1>3. CASE OtherRequest(a)
  BY <1>3 DEF OtherRequest
<1>4. CASE NextDown(a)
  <2>1. CASE Go(a, "idle")
    <3>1. Acquires'
      BY <1>4, <2>1 DEF NextDown
    <3>2. Keeps'
      BY <1>4, <2>1 DEF NextDown
    <3>3. TakesFromGone'
      BY <1>4, <2>1 DEF NextDown
    <3>4. BootsAlone'
      <4>1. pc[a] \notin {"idle"} \union Finished /\ pc'[Main] = pc[Main]
        BY <1>4, <2>1 DEF NextDown
      <4> HIDE DEF BootsAlone, Finished
      <4>2. QED
        BY <4>1, WorkIsServed
    <3>5. ListedHasRun'
      BY <1>4, <2>1 DEF NextDown
    <3>6. AddressesApart'
      BY <1>4, <2>1 DEF NextDown
    <3>7. RecordedOwnsResources'
      BY <1>4, <2>1 DEF NextDown
    <3>8. ListedHasRootfs'
      BY <1>4, <2>1 DEF NextDown
    <3>9. QED
      BY <3>1, <3>2, <3>3, <3>4, <3>5, <3>6, <3>7, <3>8
  <2>2. CASE Go(a, "read")
    <3>1. Acquires'
      BY <1>4, <2>2 DEF NextDown
    <3>2. Keeps'
      BY <1>4, <2>2 DEF NextDown
    <3>3. TakesFromGone'
      BY <1>4, <2>2 DEF NextDown
    <3>4. BootsAlone'
      <4>1. pc[a] \notin {"idle"} \union Finished /\ pc'[Main] = pc[Main]
        BY <1>4, <2>2 DEF NextDown
      <4> HIDE DEF BootsAlone, Finished
      <4>2. QED
        BY <4>1, WorkIsServed
    <3>5. ListedHasRun'
      BY <1>4, <2>2 DEF NextDown
    <3>6. AddressesApart'
      BY <1>4, <2>2 DEF NextDown
    <3>7. RecordedOwnsResources'
      BY <1>4, <2>2 DEF NextDown
    <3>8. ListedHasRootfs'
      BY <1>4, <2>2 DEF NextDown
    <3>9. QED
      BY <3>1, <3>2, <3>3, <3>4, <3>5, <3>6, <3>7, <3>8
  <2>3. QED
    BY <1>4, <2>1, <2>2 DEF NextDown
<1>5. QED
  BY <1>1, <1>2, <1>3, <1>4 DEF ClientStep

(* The boot clean-up works alone, and on containers without a live pid *)
LEMMA BootOwns ==
  ASSUME Ownership, TypeOK', BootStart \/ Boot
  PROVE  Ownership'
<1> USE ActorsAssumption
    DEF Ownership, TypeOK, PcOK, Acquires, Keeps, TakesFromGone, BootsAlone, ListedHasRun,
        AddressesApart, RecordedOwnsResources, ListedHasRootfs, Owns, HasRule, Rule,
        Recorded, Listed, Exists, BootAlive, Serving, Go, disk, Actors,
        Sweeping, Preparing, Running, Downing, Reclaiming, Finished
<1>1. CASE BootStart
  BY <1>1 DEF BootStart
<1>2. CASE BootVisitRuntime
  BY <1>2 DEF BootVisitRuntime
<1>3. CASE BootPurge
  <2>1. Acquires' /\ Keeps'
    BY <1>3 DEF BootPurge
  <2>2. TakesFromGone'
    BY <1>3 DEF BootPurge
  <2>3. BootsAlone' /\ ListedHasRun' /\ AddressesApart'
    BY <1>3 DEF BootPurge
  <2>4. RecordedOwnsResources' /\ ListedHasRootfs'
    BY <1>3 DEF BootPurge
  <2>5. QED
    BY <2>1, <2>2, <2>3, <2>4
<1>4. CASE BootPurgeDir
  BY <1>4 DEF BootPurgeDir
<1>5. CASE BootPurgeRootfs
  BY <1>5 DEF BootPurgeRootfs
<1>6. CASE BootVisitLib
  BY <1>6 DEF BootVisitLib
<1>7. CASE BootRelease
  BY <1>7 DEF BootRelease, ReleaseIP
<1>8. QED
  BY <1>1, <1>2, <1>3, <1>4, <1>5, <1>6, <1>7 DEF Boot

(* Ends of processes and daemon deaths keep the ownership *)
LEMMA EnvironmentOwns ==
  ASSUME Ownership, TypeOK', Crash \/ \E c \in Ctrs : Exit(c)
  PROVE  Ownership'
<1> USE ActorsAssumption
    DEF Ownership, TypeOK, PcOK, Acquires, Keeps, TakesFromGone, BootsAlone, ListedHasRun,
        AddressesApart, RecordedOwnsResources, ListedHasRootfs, Owns, HasRule, Rule,
        Recorded, Listed, Exists, BootAlive, Serving, Go, disk, Actors,
        Sweeping, Preparing, Running, Downing, Reclaiming, Finished, Died
<1>1. CASE Crash
  BY <1>1 DEF Crash
<1>2. CASE \E c \in Ctrs : Exit(c)
  BY <1>2 DEF Exit
<1>3. QED
  BY <1>1, <1>2

(* Ownership is inductive: whatever the requests, sweeps, faults, daemon     *)
(* deaths and boots, whoever takes a resource takes it from the dead         *)
THEOREM OwnershipInvariant == Spec => []Ownership
<1>1. Init => Ownership
  BY ActorsAssumption, HostMaxAssumption
  DEF Init, Ownership, TypeOK, PcOK, Actors, CtrPc, ClientPc, MainPc, Acquires, Keeps,
      TakesFromGone, BootsAlone, ListedHasRun, AddressesApart, RecordedOwnsResources,
      ListedHasRootfs, Recorded, Listed, Sweeping, Preparing, Running, Reclaiming, Finished
<1>2. Ownership /\ TypeOK' /\ [Next]_vars => Ownership'
  <2> SUFFICES ASSUME Ownership, TypeOK', [Next]_vars PROVE Ownership'
    OBVIOUS
  <2>1. ASSUME NEW a \in Ctrs \union Clients, Request(a) \/ Step(a) PROVE Ownership'
    BY <2>1, SweepOwns, UpOwns, DownOwns, ClientOwns DEF Step
  <2>2. CASE Crash \/ \E c \in Ctrs : Exit(c)
    BY <2>2, EnvironmentOwns
  <2>3. CASE BootStart \/ Boot
    BY <2>3, BootOwns
  <2>4. CASE UNCHANGED vars
    BY <2>4
    DEF vars, Ownership, TypeOK, PcOK, NatRule, RtFile, Acquires, Keeps, TakesFromGone,
        BootsAlone, BootAlive, Exists, Serving, ListedHasRun, AddressesApart,
        RecordedOwnsResources, ListedHasRootfs, Recorded, Listed, Owns, HasRule, Rule
  <2>5. QED
    BY <2>1, <2>2, <2>3, <2>4 DEF Next
<1>3. QED
  BY <1>1, <1>2, TypeCorrect, PTL DEF Spec

(* A recorded running container owns its rootfs, name, mark, address and rule *)
THEOREM RecordedContainersKeepResources == Spec => []RecordedOwnsResources
<1>1. Ownership => RecordedOwnsResources
  BY DEF Ownership
<1>2. QED
  BY <1>1, OwnershipInvariant, PTL

(* ListContainers never returns a container whose rootfs is already removed *)
THEOREM ListedContainersHaveRootfs == Spec => []ListedHasRootfs
<1>1. Ownership => ListedHasRootfs
  BY DEF Ownership
<1>2. QED
  BY <1>1, OwnershipInvariant, PTL

(* No step erases the record of a running container: the five that touch a    *)
(* runtime directory work on a dead container, on one that has not started, or *)
(* add the file that is there already                                          *)
THEOREM RecordsOutliveProcesses == Spec => RecordOutlivesProcess
<1> DEFINE Kept == \A c \in Ctrs : Recorded(c) => rt'[c] = rt[c]
<1>1. Ownership /\ [Next]_vars => Kept
  <2> SUFFICES ASSUME Ownership, [Next]_vars, NEW c \in Ctrs, Recorded(c)
               PROVE  rt'[c] = rt[c]
    OBVIOUS
  <2> USE DEF Ownership, Recorded, Exists
  <2>1. CASE UNCHANGED rt
    BY <2>1
  <2>2. ASSUME NEW a \in Ctrs \union Clients, SweepDir(a) \/ RemoveDir(a)
        PROVE  rt'[c] = rt[c]
    <3>1. proc[target[a]] = "gone"
      BY <2>2 DEF TakesFromGone, SweepDir, RemoveDir, Reclaiming
    <3>2. c # target[a]
      BY <3>1
    <3>3. QED
      BY <2>2, <3>2 DEF TypeOK, SweepDir, RemoveDir
  <2>3. ASSUME NEW d \in Ctrs, NewManager(d) PROVE rt'[c] = rt[c]
    BY <2>3 DEF TypeOK, Acquires, NewManager, Preparing
  <2>4. ASSUME NEW d \in Ctrs, WriteJSON(d) \/ WritePID(d) PROVE rt'[c] = rt[c]
    <3>1. rt' = rt \/ \E f \in {"json", "pid"} : rt' = [rt EXCEPT ![d] = @ \union {f}]
      BY <2>4 DEF WriteJSON, WritePID
    <3>2. ASSUME NEW f \in {"json", "pid"}, rt' = [rt EXCEPT ![d] = @ \union {f}]
          PROVE  rt'[c] = rt[c]
      <4>1. rt[c] \union {f} = rt[c]
        OBVIOUS
      <4>2. rt'[c] = IF c = d THEN rt[c] \union {f} ELSE rt[c]
        BY <3>2 DEF TypeOK
      <4>3. QED
        BY <4>1, <4>2
    <3>3. QED
      BY <3>1, <3>2
  <2>5. CASE BootPurgeDir
    BY <2>5 DEF TypeOK, BootsAlone, BootAlive, BootPurgeDir
  <2>6. ASSUME NEW a \in Ctrs \union Clients, Request(a) \/ Sweep(a) PROVE rt'[c] = rt[c]
    BY <2>2, <2>6 DEF Request, Sweep, SweepVisit, SweepDone, SweepNetwork, disk
  <2>7. ASSUME NEW d \in Ctrs, Up(d) PROVE rt'[c] = rt[c]
    BY <2>3, <2>4, <2>7
    DEF Up, CheckNetwork, CheckPorts, CheckVolumes, Setup, CheckName, MarkVolumeUsed,
        AllocateIP, PortForward, Start, Probe, AttachNetwork, Reap, Cleanup, disk
  <2>8. ASSUME NEW a \in Ctrs \union Clients, Down(a) PROVE rt'[c] = rt[c]
    BY <2>2, <2>8
    DEF Down, ReadJSON, Terminate, Timeout, Dead, Unmark, DownNetwork, Unname,
        RemoveRootfs, disk
  <2>9. ASSUME NEW a \in Clients, ClientStep(a) PROVE rt'[c] = rt[c]
    BY <2>9 DEF ClientStep, DownByHash, DownByPath, OtherRequest, NextDown, disk
  <2>10. CASE BootStart \/ Boot
    BY <2>5, <2>10
    DEF BootStart, Boot, BootVisitRuntime, BootPurge, BootPurgeRootfs, BootVisitLib,
        BootRelease, disk
  <2>11. CASE Crash \/ \E d \in Ctrs : Exit(d)
    BY <2>11 DEF Crash, Exit, disk
  <2>12. QED
    BY <2>1, <2>6, <2>7, <2>8, <2>9, <2>10, <2>11 DEF Next, Step, vars
<1>2. Ownership /\ [Next]_vars => [Kept]_vars
  BY <1>1
<1>3. QED
  BY <1>2, OwnershipInvariant, PTL DEF Spec, RecordOutlivesProcess

(***************************************************************************)
(* What a boot reclaims.                                                   *)
(***************************************************************************)
(* A mark or a chosen name never outlives the rootfs: whoever removes a rootfs *)
(* has removed them before                                                     *)
TracesHaveRootfs ==
  /\ marked \subseteq rootfs
  /\ \A c \in names : NameOf[c] # NoName => c \in rootfs

UnmarksFirst ==
  \A a \in Ctrs \union Clients :
    /\ pc[a] \in {"net", "unname", "rmdir", "rmroot"} => target[a] \notin marked
    /\ pc[a] \in {"rmdir", "rmroot"} =>
         NameOf[target[a]] = NoName \/ target[a] \notin names

PurgesFirst ==
  pc[Main] \in {"purgedir", "purgeroot", "rootlib"} => target[Main] \notin marked \union names

(* What each pass of the boot has still to visit *)
RuntimePass ==
  pc[Main] \in {"bootrt", "purge", "purgedir", "purgeroot"} =>
    \A c \in Ctrs : rt[c] # {} =>
      \/ "pid" \in rt[c]
      \/ c \in todo[Main]
      \/ pc[Main] \in {"purge", "purgedir"} /\ c = target[Main]

RootfsPass ==
  pc[Main] \in {"bootlib", "release", "purgelib", "rootlib"} =>
    /\ \A c \in Ctrs : rt[c] # {} => "pid" \in rt[c]
    /\ \A c \in rootfs :
         \/ rt[c] # {}
         \/ c \in todo[Main]
         \/ pc[Main] # "bootlib" /\ c = target[Main]

Reclamation ==
  /\ TracesHaveRootfs
  /\ UnmarksFirst
  /\ PurgesFirst
  /\ RuntimePass
  /\ RootfsPass

(* A step of the goroutine a that adds no mark and no name *)
LEMMA UnmarksKept ==
  ASSUME UnmarksFirst, NEW a \in Ctrs \union Clients, marked' \subseteq marked, names' \subseteq names,
         \A b \in (Ctrs \union Clients) \ {a} : pc'[b] = pc[b] /\ target'[b] = target[b],
         pc'[a] \in {"net", "unname", "rmdir", "rmroot"} => target'[a] \notin marked',
         pc'[a] \in {"rmdir", "rmroot"} => NameOf[target'[a]] = NoName \/ target'[a] \notin names'
  PROVE  UnmarksFirst'
<1>1. ASSUME NEW b \in Ctrs \union Clients, b # a,
             pc'[b] \in {"net", "unname", "rmdir", "rmroot"}
      PROVE  /\ target'[b] \notin marked'
             /\ pc'[b] \in {"rmdir", "rmroot"} => NameOf[target'[b]] = NoName \/ target'[b] \notin names'
  BY <1>1 DEF UnmarksFirst
<1>2. QED
  BY <1>1 DEF UnmarksFirst

(* A step that leaves rootfs, names and marks alone, and does not go to strip  *)
(* a container                                                                 *)
LEMMA IdleReclaims ==
  ASSUME TypeOK, TracesHaveRootfs, UnmarksFirst, NEW a \in Ctrs \union Clients,
         UNCHANGED <<rootfs, names, marked>>,
         \A b \in (Ctrs \union Clients) \ {a} : target'[b] = target[b],
         \/ \E label : Go(a, label) /\ label \notin {"net", "unname", "rmdir", "rmroot"}
         \/ UNCHANGED <<pc, target>>
  PROVE  (TracesHaveRootfs /\ UnmarksFirst)'
<1>1. TracesHaveRootfs'
  BY DEF TracesHaveRootfs
<1>2. UnmarksFirst'
  <2>1. CASE UNCHANGED <<pc, target>>
    BY <2>1 DEF UnmarksFirst
  <2>2. CASE \E label : Go(a, label) /\ label \notin {"net", "unname", "rmdir", "rmroot"}
    <3>1. PICK label : Go(a, label) /\ label \notin {"net", "unname", "rmdir", "rmroot"}
      BY <2>2
    <3>2. pc'[a] = label /\ \A b \in (Ctrs \union Clients) \ {a} : pc'[b] = pc[b]
      BY <3>1 DEF TypeOK, PcOK, Go, Actors
    <3>3. QED
      BY <3>1, <3>2, UnmarksKept
  <2>3. QED
    BY <2>1, <2>2
<1>3. QED
  BY <1>1, <1>2

(* The steps of UP: what is marked or named has a rootfs, and is not gone      *)
LEMMA UpReclaims ==
  ASSUME Ownership, TracesHaveRootfs, UnmarksFirst, NEW c \in Ctrs, Up(c)
  PROVE  (TracesHaveRootfs /\ UnmarksFirst)'
<1> DEFINE A == Ctrs \union Clients
           Strip == {"net", "unname", "rmdir", "rmroot"}
<1>0. /\ TypeOK /\ c \in A
      /\ pc \in [Actors -> CtrPc \union ClientPc \union MainPc] /\ c \in Actors /\ A \subseteq Actors
      /\ \A a \in A : pc[a] \in Strip => proc[target[a]] = "gone"
      /\ pc[c] \in {"name", "mark"} => proc[c] = "none" /\ c \in rootfs
  BY DEF Ownership, TypeOK, PcOK, TakesFromGone, Reclaiming, Acquires, Preparing, Actors
<1>1. ASSUME NEW label \in {"name", "logs", "address", "failed", "read"}, Go(c, label)
      PROVE  pc'[c] = label /\ label \notin Strip /\ \A b \in A \ {c} : pc'[b] = pc[b]
  BY <1>0, <1>1 DEF Go
<1>2. CASE Setup(c)
  <2>1. TracesHaveRootfs'
    BY <1>2 DEF TracesHaveRootfs, Setup
  <2>2. PICK label \in {"name", "failed"} : Go(c, label)
    BY <1>2 DEF Setup
  <2>3. UnmarksFirst'
    BY <1>0, <1>1, <1>2, <2>2, UnmarksKept DEF Setup
  <2>4. QED
    BY <2>1, <2>3
<1>3. CASE CheckName(c)
  <2>1. /\ pc[c] = "name" /\ UNCHANGED <<target, rootfs, marked>>
        /\ names' \subseteq names \union {c}
    BY <1>3 DEF CheckName
  <2>2. PICK label \in {"logs", "failed"} : Go(c, label)
    BY <1>3 DEF CheckName
  <2>3. TracesHaveRootfs'
    BY <1>0, <2>1 DEF TracesHaveRootfs
  <2>4. ASSUME NEW a \in A, pc'[a] \in Strip
        PROVE  /\ target'[a] \notin marked'
               /\ pc'[a] \in {"rmdir", "rmroot"} =>
                    NameOf[target'[a]] = NoName \/ target'[a] \notin names'
    <3>1. a # c /\ pc'[a] = pc[a]
      BY <1>1, <2>2, <2>4
    <3>2. target[a] # c
      BY <1>0, <2>1, <2>4, <3>1
    <3>3. QED
      BY <2>1, <2>4, <3>1, <3>2 DEF UnmarksFirst
  <2>5. QED
    BY <2>3, <2>4 DEF UnmarksFirst
<1>4. CASE MarkVolumeUsed(c)
  <2>1. /\ pc[c] = "mark" /\ Go(c, "address") /\ UNCHANGED <<target, rootfs, names>>
        /\ marked' \subseteq marked \union {c}
    BY <1>4 DEF MarkVolumeUsed
  <2>2. TracesHaveRootfs'
    BY <1>0, <2>1 DEF TracesHaveRootfs
  <2>3. ASSUME NEW a \in A, pc'[a] \in Strip
        PROVE  /\ target'[a] \notin marked'
               /\ pc'[a] \in {"rmdir", "rmroot"} =>
                    NameOf[target'[a]] = NoName \/ target'[a] \notin names'
    <3>1. a # c /\ pc'[a] = pc[a]
      BY <1>1, <2>1, <2>3
    <3>2. target[a] # c
      BY <1>0, <2>1, <2>3, <3>1
    <3>3. QED
      BY <2>1, <2>3, <3>1, <3>2 DEF UnmarksFirst
  <2>4. QED
    BY <2>2, <2>3 DEF UnmarksFirst
<1>5. CASE Cleanup(c)
  <2>1. Go(c, "read") /\ marked' \subseteq marked /\ UNCHANGED <<target, rootfs, names>>
    BY <1>5 DEF Cleanup
  <2>2. TracesHaveRootfs'
    BY <2>1 DEF TracesHaveRootfs
  <2>3. UnmarksFirst'
    BY <1>0, <1>1, <2>1, UnmarksKept
  <2>4. QED
    BY <2>2, <2>3
<1>6. ASSUME NEW label \in (Preparing \union Running \union {"failed", "cleanup"}), Go(c, label),
             UNCHANGED <<rootfs, names, marked, target>>
      PROVE  (TracesHaveRootfs /\ UnmarksFirst)'
  <2>1. label \notin Strip
    BY DEF Preparing, Running
  <2>2. QED
    BY <1>0, <1>6, <2>1, IdleReclaims
<1> USE DEF Preparing, Running
<1>7. CASE CheckNetwork(c) \/ CheckPorts(c) \/ CheckVolumes(c) \/ NewManager(c)
  BY <1>6, <1>7 DEF CheckNetwork, CheckPorts, CheckVolumes, NewManager, disk
<1>8. CASE AllocateIP(c)
  BY <1>6, <1>8 DEF AllocateIP
<1>9. CASE PortForward(c) \/ Start(c) \/ Probe(c) \/ WriteJSON(c) \/ WritePID(c)
  BY <1>6, <1>9 DEF PortForward, Start, Probe, WriteJSON, WritePID, disk
<1>10. CASE AttachNetwork(c) \/ Reap(c)
  BY <1>6, <1>10 DEF AttachNetwork, Reap, disk
<1>11. QED
  BY <1>2, <1>3, <1>4, <1>5, <1>7, <1>8, <1>9, <1>10 DEF Up

(* down() unmarks and unnames before it removes the rootfs *)
LEMMA DownReclaims ==
  ASSUME Ownership, TracesHaveRootfs, UnmarksFirst, NEW a \in Ctrs \union Clients, Down(a)
  PROVE  (TracesHaveRootfs /\ UnmarksFirst)'
<1> DEFINE A == Ctrs \union Clients
           Strip == {"net", "unname", "rmdir", "rmroot"}
<1>0. /\ TypeOK /\ a \in A
      /\ pc \in [Actors -> CtrPc \union ClientPc \union MainPc] /\ a \in Actors /\ A \subseteq Actors
  BY DEF Ownership, TypeOK, PcOK, Actors
<1>1. ASSUME NEW label, Go(a, label)
      PROVE  pc'[a] = label /\ \A b \in A \ {a} : pc'[b] = pc[b]
  BY <1>0, <1>1 DEF Go
<1>2. AfterDown(a) \in {"next", "failed", "started"}
  BY DEF AfterDown
<1>3. CASE ReadJSON(a) \/ Terminate(a) \/ Timeout(a) \/ Dead(a)
  <2>1. PICK label \in {"term", "await", "await9", "unmark", "next", "failed", "started"} : Go(a, label)
    BY <1>2, <1>3 DEF ReadJSON, Terminate, Timeout, Dead
  <2>2. UNCHANGED <<rootfs, names, marked, target>>
    BY <1>3 DEF ReadJSON, Terminate, Timeout, Dead, disk
  <2>3. label \notin Strip
    BY <2>1
  <2>4. QED
    BY <1>0, <2>1, <2>2, <2>3, IdleReclaims
<1>4. CASE Unmark(a)
  <2>1. /\ Go(a, "net") /\ marked' = marked \ {target[a]}
        /\ UNCHANGED <<target, rootfs, names>>
    BY <1>4 DEF Unmark
  <2>2. pc'[a] = "net" /\ \A b \in A \ {a} : pc'[b] = pc[b]
    BY <1>1, <2>1
  <2>3. TracesHaveRootfs'
    BY <2>1 DEF TracesHaveRootfs
  <2>4. UnmarksFirst'
    BY <2>1, <2>2, UnmarksKept
  <2>5. QED
    BY <2>3, <2>4
<1>5. CASE DownNetwork(a)
  <2>1. /\ pc[a] = "net" /\ Go(a, "unname") /\ UNCHANGED <<target, rootfs, names, marked>>
    BY <1>5 DEF DownNetwork
  <2>2. pc'[a] = "unname" /\ \A b \in A \ {a} : pc'[b] = pc[b]
    BY <1>1, <2>1
  <2>3. target[a] \notin marked
    BY <2>1 DEF UnmarksFirst
  <2>4. TracesHaveRootfs' /\ UnmarksFirst'
    BY <2>1, <2>2, <2>3, UnmarksKept DEF TracesHaveRootfs
  <2>5. QED
    BY <2>4
<1>6. CASE Unname(a)
  <2>1. /\ pc[a] = "unname" /\ Go(a, "rmdir") /\ UNCHANGED <<target, rootfs, marked>>
        /\ names' = IF NameOf[target[a]] = NoName THEN names ELSE names \ {target[a]}
    BY <1>6 DEF Unname
  <2>2. pc'[a] = "rmdir" /\ \A b \in A \ {a} : pc'[b] = pc[b]
    BY <1>1, <2>1
  <2>3. target[a] \notin marked
    BY <2>1 DEF UnmarksFirst
  <2>4. TracesHaveRootfs'
    BY <2>1 DEF TracesHaveRootfs
  <2>5. UnmarksFirst'
    BY <2>1, <2>2, <2>3, UnmarksKept
  <2>6. QED
    BY <2>4, <2>5
<1>7. CASE RemoveDir(a)
  <2>1. /\ pc[a] = "rmdir" /\ UNCHANGED <<target, rootfs, names, marked>>
        /\ \E label \in {"rmroot", "next", "failed", "started"} : Go(a, label)
    BY <1>2, <1>7 DEF RemoveDir
  <2>2. \A b \in A \ {a} : pc'[b] = pc[b]
    BY <1>1, <2>1
  <2>3. target[a] \notin marked /\ (NameOf[target[a]] = NoName \/ target[a] \notin names)
    BY <2>1 DEF UnmarksFirst
  <2>4. TracesHaveRootfs' /\ UnmarksFirst'
    BY <2>1, <2>2, <2>3, UnmarksKept DEF TracesHaveRootfs
  <2>5. QED
    BY <2>4
<1>8. CASE RemoveRootfs(a)
  <2>1. /\ pc[a] = "rmroot" /\ UNCHANGED <<target, names, marked>>
        /\ rootfs \ {target[a]} \subseteq rootfs'
        /\ Go(a, AfterDown(a))
    BY <1>8 DEF RemoveRootfs
  <2>2. pc'[a] \notin Strip /\ \A b \in A \ {a} : pc'[b] = pc[b]
    BY <1>1, <1>2, <2>1
  <2>3. target[a] \notin marked /\ (NameOf[target[a]] = NoName \/ target[a] \notin names)
    BY <2>1 DEF UnmarksFirst
  <2>4. TracesHaveRootfs'
    BY <2>1, <2>3 DEF TracesHaveRootfs
  <2>5. UnmarksFirst'
    BY <2>1, <2>2, UnmarksKept
  <2>6. QED
    BY <2>4, <2>5
<1>9. QED
  BY <1>3, <1>4, <1>5, <1>6, <1>7, <1>8 DEF Down

(* A goroutine at work: the boot is over *)
LEMMA WorkReclaims ==
  ASSUME Ownership, Reclamation, NEW a \in Ctrs \union Clients, Request(a) \/ Step(a)
  PROVE  Reclamation'
<1>0. /\ TypeOK /\ a \in Actors /\ a # Main /\ TracesHaveRootfs /\ UnmarksFirst
      /\ pc \in [Actors -> CtrPc \union ClientPc \union MainPc]
      /\ target \in [Actors -> Ctrs \union {NoCtr}]
  BY ActorsAssumption DEF Ownership, TypeOK, PcOK, Actors, Reclamation
<1>1. (TracesHaveRootfs /\ UnmarksFirst)'
  <2>1. CASE Request(a) \/ SweepVisit(a) \/ SweepDone(a) \/ SweepNetwork(a) \/ SweepDir(a)
    <3>1. /\ UNCHANGED <<rootfs, names, marked>>
          /\ \A b \in (Ctrs \union Clients) \ {a} : target'[b] = target[b]
      BY <1>0, <2>1 DEF Request, SweepVisit, SweepDone, SweepNetwork, SweepDir, disk, Actors
    <3>2. \/ \E label \in {"sweep", "sweepnet", "sweepdir", "check", "request"} : Go(a, label)
          \/ UNCHANGED <<pc, target>>
      BY <2>1 DEF Request, SweepVisit, SweepDone, SweepNetwork, SweepDir
    <3>3. QED
      BY <1>0, <3>1, <3>2, IdleReclaims
  <2>2. CASE a \in Clients /\ ClientStep(a)
    <3>1. /\ UNCHANGED <<rootfs, names, marked>>
          /\ \A b \in (Ctrs \union Clients) \ {a} : target'[b] = target[b]
      BY <1>0, <2>2 DEF ClientStep, DownByHash, DownByPath, OtherRequest, NextDown, disk, Actors
    <3>2. \E label \in {"next", "idle", "read"} : Go(a, label)
      BY <2>2 DEF ClientStep, DownByHash, DownByPath, OtherRequest, NextDown
    <3>3. QED
      BY <1>0, <3>1, <3>2, IdleReclaims
  <2>3. QED
    BY <1>0, <2>1, <2>2, UpReclaims, DownReclaims DEF Step, Sweep
<1>2. pc'[Main] = "serving"
  <2>1. CASE Request(a)
    BY <1>0, <2>1 DEF Request, Serving, Go
  <2>2. CASE Step(a)
    <3>1. pc[a] \notin {"idle"} \union Finished
      BY <2>2
      DEF Step, Sweep, SweepVisit, SweepDone, SweepNetwork, SweepDir,
          Up, CheckNetwork, CheckPorts, CheckVolumes, Setup, CheckName, NewManager,
          MarkVolumeUsed, AllocateIP, PortForward, Start, Probe, WriteJSON, WritePID,
          AttachNetwork, Reap, Cleanup, Down, ReadJSON, Terminate, Timeout, Dead, Unmark,
          DownNetwork, Unname, RemoveDir, RemoveRootfs,
          ClientStep, DownByHash, DownByPath, OtherRequest, NextDown, Finished
    <3>2. pc[Main] = "serving"
      BY <3>1 DEF Ownership, BootsAlone, Serving
    <3>3. (\E label : Go(a, label)) \/ pc' = pc
      <4>1. CASE Sweep(a) \/ ClientStep(a)
        BY <4>1
        DEF Sweep, SweepVisit, SweepDone, SweepNetwork, SweepDir,
            ClientStep, DownByHash, DownByPath, OtherRequest, NextDown
      <4>2. CASE Up(a)
        BY <4>2
        DEF Up, CheckNetwork, CheckPorts, CheckVolumes, Setup, CheckName, NewManager,
            MarkVolumeUsed, AllocateIP, PortForward, Start, Probe, WriteJSON, WritePID,
            AttachNetwork, Reap, Cleanup
      <4>3. CASE Down(a)
        BY <4>3
        DEF Down, ReadJSON, Terminate, Timeout, Dead, Unmark, DownNetwork, Unname,
            RemoveDir, RemoveRootfs
      <4>4. QED
        BY <2>2, <4>1, <4>2, <4>3 DEF Step
    <3>4. QED
      BY <1>0, <3>2, <3>3 DEF Go, Actors
  <2>3. QED
    BY <2>1, <2>2
<1>3. PurgesFirst' /\ RuntimePass' /\ RootfsPass'
  BY <1>2 DEF PurgesFirst, RuntimePass, RootfsPass
<1>4. QED
  BY <1>1, <1>3 DEF Reclamation

(* A step of the boot: all the others are out of down()                        *)
LEMMA BootUnmarksFirst ==
  ASSUME Ownership, ~Serving, BootStart \/ Boot
  PROVE  UnmarksFirst'
<1>1. \A a \in Ctrs \union Clients : pc'[a] = pc[a]
  <2>1. (\E label : Go(Main, label)) \/ pc' = pc
    BY DEF BootStart, Boot, BootVisitRuntime, BootPurge, BootPurgeDir, BootPurgeRootfs,
           BootVisitLib, BootRelease
  <2>2. QED
    BY <2>1, ActorsAssumption DEF Ownership, TypeOK, PcOK, Go, Actors
<1>2. QED
  BY <1>1 DEF Ownership, BootsAlone, UnmarksFirst, Finished

LEMMA BootReclaimsStep ==
  ASSUME Ownership, Reclamation, BootStart \/ Boot
  PROVE  Reclamation'
<1>0. /\ pc \in [Actors -> CtrPc \union ClientPc \union MainPc] /\ Main \in Actors
      /\ target \in [Actors -> Ctrs \union {NoCtr}] /\ todo \in [Actors -> SUBSET Ctrs]
      /\ rt \in [Ctrs -> SUBSET RtFile] /\ rootfs \subseteq Ctrs
      /\ pc[Main] \in {"purge", "purgedir", "purgeroot", "release", "purgelib", "rootlib"} =>
           target[Main] \in Ctrs
      /\ pc[Main] \in {"purgeroot", "release", "purgelib", "rootlib"} => rt[target[Main]] = {}
      /\ TracesHaveRootfs /\ PurgesFirst /\ RuntimePass /\ RootfsPass
  BY DEF Ownership, TypeOK, PcOK, BootsAlone, Actors, Reclamation
<1>1. ~Serving
  BY DEF BootStart, Boot, BootVisitRuntime, BootPurge, BootPurgeDir, BootPurgeRootfs,
         BootVisitLib, BootRelease, Serving
<1>2. UnmarksFirst'
  BY <1>1, BootUnmarksFirst
<1>3. ASSUME NEW label, Go(Main, label) PROVE pc'[Main] = label
  BY <1>0, <1>3 DEF Go
<1> DEFINE Rest == (TracesHaveRootfs /\ PurgesFirst /\ RuntimePass /\ RootfsPass)'
<1>4. CASE BootStart
  <2>1. /\ pc'[Main] = "bootrt" /\ todo'[Main] = {c \in Ctrs : rt[c] # {}}
        /\ UNCHANGED <<rt, rootfs, names, marked>>
    BY <1>0, <1>3, <1>4 DEF BootStart, disk
  <2>2. Rest
    BY <1>0, <2>1 DEF TracesHaveRootfs, PurgesFirst, RuntimePass, RootfsPass
  <2>3. QED
    BY <1>2, <2>2 DEF Reclamation
<1>5. CASE BootVisitRuntime
  <2>1. pc[Main] = "bootrt" /\ UNCHANGED <<rt, rootfs, names, marked>>
    BY <1>5 DEF BootVisitRuntime, disk
  <2>2. TracesHaveRootfs'
    BY <1>0, <2>1 DEF TracesHaveRootfs
  <2>3. ASSUME NEW c \in todo[Main], todo' = [todo EXCEPT ![Main] = @ \ {c}],
               BootAlive(c), UNCHANGED <<pc, target>>
        PROVE  Rest
    <3>1. todo'[Main] = todo[Main] \ {c} /\ "pid" \in rt[c] /\ pc'[Main] = "bootrt"
      BY <1>0, <2>1, <2>3 DEF BootAlive
    <3>2. QED
      BY <1>0, <2>1, <2>2, <3>1 DEF PurgesFirst, RuntimePass, RootfsPass
  <2>4. ASSUME NEW c \in todo[Main], todo' = [todo EXCEPT ![Main] = @ \ {c}],
               Go(Main, "purge"), target' = [target EXCEPT ![Main] = c]
        PROVE  Rest
    <3>1. todo'[Main] = todo[Main] \ {c} /\ pc'[Main] = "purge" /\ target'[Main] = c
      BY <1>0, <1>3, <2>4
    <3>2. QED
      BY <1>0, <2>1, <2>2, <3>1 DEF PurgesFirst, RuntimePass, RootfsPass
  <2>5. ASSUME todo[Main] = {}, Go(Main, "bootlib"), todo' = [todo EXCEPT ![Main] = rootfs]
        PROVE  Rest
    <3>1. todo'[Main] = rootfs /\ pc'[Main] = "bootlib"
      BY <1>0, <1>3, <2>5
    <3>2. QED
      BY <1>0, <2>1, <2>2, <2>5, <3>1 DEF PurgesFirst, RuntimePass, RootfsPass
  <2>6. Rest
    BY <1>5, <2>3, <2>4, <2>5 DEF BootVisitRuntime
  <2>7. QED
    BY <1>2, <2>6 DEF Reclamation
<1>6. CASE BootPurge
  <2>1. /\ pc[Main] \in {"purge", "purgelib"}
        /\ pc'[Main] = IF pc[Main] = "purge" THEN "purgedir" ELSE "rootlib"
        /\ marked' = marked \ {target[Main]} /\ names' = names \ {target[Main]}
        /\ UNCHANGED <<target, todo, rt, rootfs>>
    BY <1>3, <1>6 DEF BootPurge
  <2>2. Rest
    BY <1>0, <2>1 DEF TracesHaveRootfs, PurgesFirst, RuntimePass, RootfsPass
  <2>3. QED
    BY <1>2, <2>2 DEF Reclamation
<1>7. CASE BootPurgeDir
  <2>1. /\ pc[Main] = "purgedir" /\ pc'[Main] = "purgeroot"
        /\ rt' = [rt EXCEPT ![target[Main]] = {}]
        /\ UNCHANGED <<target, todo, rootfs, names, marked>>
    BY <1>3, <1>7 DEF BootPurgeDir
  <2>2. \A c \in Ctrs : rt'[c] = IF c = target[Main] THEN {} ELSE rt[c]
    BY <1>0, <2>1
  <2>3. Rest
    BY <1>0, <2>1, <2>2 DEF TracesHaveRootfs, PurgesFirst, RuntimePass, RootfsPass
  <2>4. QED
    BY <1>2, <2>3 DEF Reclamation
<1>8. CASE BootPurgeRootfs
  <2>1. /\ pc[Main] \in {"purgeroot", "rootlib"}
        /\ pc'[Main] = IF pc[Main] = "purgeroot" THEN "bootrt" ELSE "bootlib"
        /\ rootfs' = rootfs \ {target[Main]}
        /\ UNCHANGED <<target, todo, rt, names, marked>>
    BY <1>3, <1>8 DEF BootPurgeRootfs
  <2>2. target[Main] \notin marked \union names
    BY <1>0, <2>1 DEF PurgesFirst
  <2>3. TracesHaveRootfs'
    BY <1>0, <2>1, <2>2 DEF TracesHaveRootfs
  <2>4. RuntimePass'
    BY <1>0, <2>1 DEF RuntimePass
  <2>5. RootfsPass'
    BY <1>0, <2>1 DEF RootfsPass
  <2>6. PurgesFirst'
    BY <2>1 DEF PurgesFirst
  <2>7. QED
    BY <1>2, <2>3, <2>4, <2>5, <2>6 DEF Reclamation
<1>9. CASE BootVisitLib
  <2>1. pc[Main] = "bootlib" /\ UNCHANGED <<rt, rootfs, names, marked>>
    BY <1>9 DEF BootVisitLib, disk
  <2>2. TracesHaveRootfs'
    BY <1>0, <2>1 DEF TracesHaveRootfs
  <2>3. ASSUME NEW c \in todo[Main], todo' = [todo EXCEPT ![Main] = @ \ {c}],
               rt[c] # {}, UNCHANGED <<pc, target>>
        PROVE  Rest
    <3>1. todo'[Main] = todo[Main] \ {c} /\ pc'[Main] = "bootlib"
      BY <1>0, <2>1, <2>3
    <3>2. QED
      BY <1>0, <2>1, <2>2, <2>3, <3>1 DEF PurgesFirst, RuntimePass, RootfsPass
  <2>4. ASSUME NEW c \in todo[Main], todo' = [todo EXCEPT ![Main] = @ \ {c}],
               Go(Main, "release"), target' = [target EXCEPT ![Main] = c]
        PROVE  Rest
    <3>1. todo'[Main] = todo[Main] \ {c} /\ pc'[Main] = "release" /\ target'[Main] = c
      BY <1>0, <1>3, <2>4
    <3>2. QED
      BY <1>0, <2>1, <2>2, <3>1 DEF PurgesFirst, RuntimePass, RootfsPass
  <2>5. ASSUME Go(Main, "serving") PROVE Rest
    <3>1. pc'[Main] = "serving"
      BY <1>3, <2>5
    <3>2. QED
      BY <2>2, <3>1 DEF PurgesFirst, RuntimePass, RootfsPass
  <2>6. Rest
    BY <1>9, <2>3, <2>4, <2>5 DEF BootVisitLib
  <2>7. QED
    BY <1>2, <2>6 DEF Reclamation
<1>10. CASE BootRelease
  <2>1. /\ pc[Main] = "release" /\ pc'[Main] = "purgelib"
        /\ UNCHANGED <<target, todo, rt, rootfs, names, marked>>
    BY <1>3, <1>10 DEF BootRelease
  <2>2. Rest
    BY <1>0, <2>1 DEF TracesHaveRootfs, PurgesFirst, RuntimePass, RootfsPass
  <2>3. QED
    BY <1>2, <2>2 DEF Reclamation
<1>11. QED
  BY <1>4, <1>5, <1>6, <1>7, <1>8, <1>9, <1>10 DEF Boot

LEMMA EnvironmentReclaims ==
  ASSUME Ownership, Reclamation, Crash \/ \E c \in Ctrs : Exit(c)
  PROVE  Reclamation'
<1>1. CASE Crash
  <2>1. /\ \A a \in Ctrs \union Clients : pc'[a] \notin {"net", "unname", "rmdir", "rmroot"}
        /\ pc'[Main] = "off"
    BY <1>1, ActorsAssumption DEF Crash, Actors, Finished
  <2>2. UNCHANGED <<rootfs, names, marked>>
    BY <1>1 DEF Crash, disk
  <2>3. TracesHaveRootfs'
    BY <2>2 DEF Reclamation, TracesHaveRootfs
  <2>4. UnmarksFirst' /\ PurgesFirst' /\ RuntimePass' /\ RootfsPass'
    BY <2>1 DEF UnmarksFirst, PurgesFirst, RuntimePass, RootfsPass
  <2>5. QED
    BY <2>3, <2>4 DEF Reclamation
<1>2. CASE \E c \in Ctrs : Exit(c)
  <2>1. UNCHANGED <<pc, target, todo, rt, rootfs, names, marked>>
    BY <1>2 DEF Exit, disk
  <2>2. QED
    BY <2>1 DEF Reclamation, TracesHaveRootfs, UnmarksFirst, PurgesFirst, RuntimePass, RootfsPass
<1>3. QED
  BY <1>1, <1>2

(* The traces of a container go before its rootfs, and the boot has visited     *)
(* whatever is not on its list any more                                         *)
THEOREM ReclamationHolds == Spec => []Reclamation
<1>1. Init => Reclamation
  BY ActorsAssumption
  DEF Init, Reclamation, TracesHaveRootfs, UnmarksFirst, PurgesFirst, RuntimePass, RootfsPass, Actors
<1>2. Ownership /\ Reclamation /\ [Next]_vars => Reclamation'
  <2> SUFFICES ASSUME Ownership, Reclamation, [Next]_vars PROVE Reclamation'
    OBVIOUS
  <2>1. CASE UNCHANGED vars
    BY <2>1
    DEF vars, Reclamation, TracesHaveRootfs, UnmarksFirst, PurgesFirst, RuntimePass, RootfsPass
  <2>2. QED
    BY <2>1, WorkReclaims, BootReclaimsStep, EnvironmentReclaims DEF Next
<1>3. QED
  BY <1>1, <1>2, OwnershipInvariant, PTL DEF Spec

(* When the boot clean-up ends every runtime directory has a pid file, and every *)
(* rootfs, mark and chosen name a runtime directory: whatever crashes, refusals  *)
(* and exits came before and in between                                          *)
THEOREM BootsReclaim == Spec => BootReclaims
<1> DEFINE Clean == pc[Main] = "bootlib" /\ pc'[Main] = "serving" =>
              \A c \in Ctrs :
                /\ rt[c] # {} => "pid" \in rt[c]
                /\ c \in rootfs \union marked => rt[c] # {}
                /\ c \in names /\ NameOf[c] # NoName => rt[c] # {}
<1>1. Ownership /\ Reclamation /\ [Next]_vars => Clean
  <2> SUFFICES ASSUME Ownership, Reclamation, [Next]_vars,
                      pc[Main] = "bootlib", pc'[Main] = "serving", NEW c \in Ctrs
               PROVE  /\ rt[c] # {} => "pid" \in rt[c]
                      /\ c \in rootfs \union marked => rt[c] # {}
                      /\ c \in names /\ NameOf[c] # NoName => rt[c] # {}
    OBVIOUS
  <2>1. todo[Main] = {}
    <3>1. BootVisitLib
      <4>1. ASSUME NEW a \in Ctrs \union Clients, Request(a) \/ Step(a) PROVE FALSE
        <5>1. pc[a] \in {"idle"} \union Finished /\ ~Serving
          BY DEF Ownership, BootsAlone, Serving
        <5>2. QED
          BY <4>1, <5>1
          DEF Request, Step, Sweep, SweepVisit, SweepDone, SweepNetwork, SweepDir,
              Up, CheckNetwork, CheckPorts, CheckVolumes, Setup, CheckName, NewManager,
              MarkVolumeUsed, AllocateIP, PortForward, Start, Probe, WriteJSON, WritePID,
              AttachNetwork, Reap, Cleanup, Down, ReadJSON, Terminate, Timeout, Dead, Unmark,
              DownNetwork, Unname, RemoveDir, RemoveRootfs,
              ClientStep, DownByHash, DownByPath, OtherRequest, NextDown, Finished
      <4>2. pc' # pc
        OBVIOUS
      <4>3. ~Crash
        BY ActorsAssumption DEF Crash, Actors
      <4>4. QED
        BY <4>1, <4>2, <4>3
        DEF Next, Exit, BootStart, Boot, BootVisitRuntime, BootPurge, BootPurgeDir,
            BootPurgeRootfs, BootRelease, vars
    <3>2. QED
      <4>1. CASE todo[Main] # {}
        <5>1. pc' = pc \/ Go(Main, "release")
          BY <3>1, <4>1 DEF BootVisitLib
        <5>2. pc \in [Actors -> CtrPc \union ClientPc \union MainPc] /\ Main \in Actors
          BY DEF Ownership, TypeOK, PcOK, Actors
        <5>3. QED
          BY <5>1, <5>2 DEF Go
      <4>2. QED
        BY <4>1
  <2>2. QED
    BY <2>1 DEF Reclamation, RootfsPass, TracesHaveRootfs
<1>2. Ownership /\ Reclamation /\ [Next]_vars => [Clean]_vars
  BY <1>1
<1>3. QED
  BY <1>2, OwnershipInvariant, ReclamationHolds, PTL DEF Spec, BootReclaims
=============================================================================
