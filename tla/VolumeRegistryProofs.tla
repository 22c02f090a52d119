------------------------- MODULE VolumeRegistryProofs -------------------------
(* Theorems about VolumeRegistry for any containers, clients and volumes and    *)
(* any bound on overlap, with and without disk faults.                          *)
EXTENDS VolumeRegistry, TLAPS

VolKey == [name : Names \union {NoName}, path : Paths \union {NoPath}]
Volume == [name : Names, path : Paths]

(* Where a request is tells what its container has been through; a deletion    *)
(* past its first look has found a volume                                       *)
StartPc == {"find", "register", "saveregister", "mkdir", "mount", "mark", "savemark"}

PhaseFits ==
  \A c \in Ctrs :
    /\ pc[c] \in CtrPc
    /\ key[c] = KeyOf(c)
    /\ pc[c] \in StartPc <=> phase[c] = "starting"
    /\ pc[c] \in {"unmark", "saveunmark"} <=> phase[c] = "ending"

HasFound ==
  \A a \in Clients :
    /\ pc[a] \in ClientPc
    /\ pc[a] \in {"unregister", "saveunregister", "remove", "restore"} => vol[a] \in Volume

(* The users of one registry, be it the file or a copy                          *)
UsersIn(r) ==
  \A v \in r : \A c \in v.used :
    /\ Match(v, KeyOf(c))
    /\ phase[c] \in {"running", "ending", "gone"} \/ pc[c] = "savemark"

VolumeInvariant ==
  /\ TypeOK
  /\ PhaseFits
  /\ HasFound
  /\ UniqueVolumes
  /\ UsersIn(reg)
  /\ \A a \in Actors : UsersIn(copy[a])

-----------------------------------------------------------------------------
(* What the edits of a registry return.                                         *)

LEMMA Volumes ==
  /\ \A c \in Ctrs : VolOf[c].name \in Names /\ VolOf[c].path \in Paths /\ VolOf[c] \in Volume
  /\ \A v \in Vols : v \in Volume
  /\ \A c \in Ctrs : KeyOf(c) \in VolKey
  /\ NoKey \in VolKey
<1>1. ASSUME NEW c \in Ctrs
      PROVE  VolOf[c].name \in Names /\ VolOf[c].path \in Paths
  BY DEF Names, Paths, Vols
<1>2. ASSUME NEW c \in Ctrs PROVE VolOf[c] \in Volume
  <2>1. \A n \in Names, q \in Paths : [name |-> n, path |-> q] \in Volume
    BY DEF Volume
  <2>2. [name |-> VolOf[c].name, path |-> VolOf[c].path] \in Volume
    BY <1>1, <2>1
  <2>3. VolOf[c] = [name |-> VolOf[c].name, path |-> VolOf[c].path]
    BY VolumeAssumption, Zenon
  <2>4. QED
    BY <2>2, <2>3, Zenon
<1>3. ASSUME NEW c \in Ctrs PROVE KeyOf(c) \in VolKey
  BY <1>1 DEF KeyOf, ByName, ByPath, VolKey
<1>4. QED
  BY <1>1, <1>2, <1>3 DEF Vols, VolKey, NoKey

LEMMA FreshEntry ==
  ASSUME NEW v \in Volume
  PROVE  /\ Fresh(v) \in Entry
         /\ Fresh(v).name = v.name /\ Fresh(v).path = v.path /\ Fresh(v).used = {}
BY DEF Volume, Fresh, Entry

(* A volume that does not clash is added                                        *)
LEMMA Added ==
  ASSUME reg \subseteq Entry, Unique(reg), UsersIn(reg), NEW v \in Volume, ~Clash(v)
  PROVE  /\ reg \union {Fresh(v)} \subseteq Entry
         /\ Unique(reg \union {Fresh(v)})
         /\ UsersIn(reg \union {Fresh(v)})
BY FreshEntry DEF Unique, UsersIn, Clash

(* Entries are removed                                                          *)
LEMMA Removed ==
  ASSUME reg \subseteq Entry, Unique(reg), UsersIn(reg), NEW k
  PROVE  /\ reg \ Found(k) \subseteq Entry
         /\ Unique(reg \ Found(k))
         /\ UsersIn(reg \ Found(k))
BY DEF Unique, UsersIn

(* Marking changes the users and nothing else                                   *)
LEMMA Remarked ==
  ASSUME NEW v \in Entry, NEW u \in SUBSET Ctrs
  PROVE  /\ [v EXCEPT !.used = u] \in Entry
         /\ [v EXCEPT !.used = u].name = v.name
         /\ [v EXCEPT !.used = u].path = v.path
         /\ [v EXCEPT !.used = u].used = u
BY DEF Entry

LEMMA MarkedEntries ==
  ASSUME reg \subseteq Entry, Unique(reg), NEW c \in Ctrs
  PROVE  /\ Marked(c) \subseteq Entry
         /\ Unique(Marked(c))
         /\ \A w \in Marked(c) : \A d \in w.used :
              \E v \in reg : /\ v.name = w.name /\ v.path = w.path
                             /\ d \in v.used \/ (d = c /\ Match(v, key[c]))
<1> DEFINE m(v) == IF Match(v, key[c]) THEN [v EXCEPT !.used = @ \union {c}] ELSE v
<1>1. ASSUME NEW v \in reg
      PROVE  /\ m(v) \in Entry /\ m(v).name = v.name /\ m(v).path = v.path
             /\ \A d \in m(v).used : d \in v.used \/ (d = c /\ Match(v, key[c]))
  <2>1. v \in Entry /\ v.used \union {c} \in SUBSET Ctrs
    BY DEF Entry
  <2>2. QED
    BY <2>1, Remarked
<1>2. Marked(c) = {m(v) : v \in reg}
  BY DEF Marked
<1> HIDE DEF m
<1>3. QED
  BY <1>1, <1>2 DEF Unique

LEMMA UnmarkedEntries ==
  ASSUME reg \subseteq Entry, Unique(reg), NEW c \in Ctrs
  PROVE  /\ Unmarked(c) \subseteq Entry
         /\ Unique(Unmarked(c))
         /\ \A w \in Unmarked(c) : \A d \in w.used :
              \E v \in reg : v.name = w.name /\ v.path = w.path /\ d \in v.used
<1> DEFINE m(v) == IF Match(v, key[c]) THEN [v EXCEPT !.used = @ \ {c}] ELSE v
<1>1. ASSUME NEW v \in reg
      PROVE  /\ m(v) \in Entry /\ m(v).name = v.name /\ m(v).path = v.path
             /\ \A d \in m(v).used : d \in v.used
  <2>1. v \in Entry /\ v.used \ {c} \in SUBSET Ctrs
    BY DEF Entry
  <2>2. QED
    BY <2>1, Remarked
<1>2. Unmarked(c) = {m(v) : v \in reg}
  BY DEF Unmarked
<1> HIDE DEF m
<1>3. QED
  BY <1>1, <1>2 DEF Unique

(* A container that is a user remains one that has run, whoever takes a step    *)
UserStays ==
  \A c \in Ctrs :
    phase[c] \in {"running", "ending", "gone"} \/ pc[c] = "savemark" =>
      phase'[c] \in {"running", "ending", "gone"} \/ pc'[c] = "savemark"

LEMMA UsersStay ==
  ASSUME UserStays, NEW r \in SUBSET Entry, UsersIn(r)
  PROVE  \A v \in r : \A c \in v.used :
           /\ Match(v, KeyOf(c))
           /\ phase'[c] \in {"running", "ending", "gone"} \/ pc'[c] = "savemark"
BY DEF UserStays, UsersIn, Entry

(* The step of the goroutine a that leaves the file alone and keeps a copy r    *)
LEMMA CopyMade ==
  ASSUME VolumeInvariant, UserStays, NEW a \in Actors, NEW r \in SUBSET Entry, Unique(r),
         \A v \in r : \A c \in v.used :
           /\ Match(v, KeyOf(c))
           /\ phase'[c] \in {"running", "ending", "gone"} \/ pc'[c] = "savemark",
         reg' = reg, Keep(a, r)
  PROVE  /\ reg' \subseteq Entry /\ copy' \in [Actors -> SUBSET Entry]
         /\ (UniqueVolumes /\ UsersIn(reg) /\ \A b \in Actors : UsersIn(copy[b]))'
<1> USE DEF VolumeInvariant, TypeOK, Keep
<1>1. reg' \subseteq Entry /\ copy' \in [Actors -> SUBSET Entry]
  OBVIOUS
<1>2. UniqueVolumes'
  BY DEF UniqueVolumes, Unique
<1>3. UsersIn(reg)'
  BY UsersStay DEF UsersIn
<1>4. ASSUME NEW b \in Actors PROVE UsersIn(copy[b])'
  <2>1. CASE b = a
    BY <2>1 DEF UsersIn
  <2>2. CASE b # a
    <3>1. copy'[b] = copy[b] /\ copy[b] \in SUBSET Entry /\ UsersIn(copy[b])
      BY <2>2
    <3>2. QED
      BY <3>1, UsersStay DEF UsersIn
  <2>3. QED
    BY <2>1, <2>2
<1>5. QED
  BY <1>1, <1>2, <1>3, <1>4

(* The step that writes a copy back, and the one that leaves registries alone   *)
LEMMA CopySaved ==
  ASSUME VolumeInvariant, UserStays, NEW a \in Actors, Save(a)
  PROVE  /\ reg' \subseteq Entry /\ copy' \in [Actors -> SUBSET Entry]
         /\ (UniqueVolumes /\ UsersIn(reg) /\ \A b \in Actors : UsersIn(copy[b]))'
<1> USE DEF VolumeInvariant, TypeOK, Keep, Save
<1>1. reg' \subseteq Entry /\ copy' \in [Actors -> SUBSET Entry]
  OBVIOUS
<1>2. UniqueVolumes'
  BY DEF UniqueVolumes, Unique
<1>3. ASSUME NEW b \in Actors
      PROVE  \A v \in copy[b] : \A c \in v.used :
               /\ Match(v, KeyOf(c))
               /\ phase'[c] \in {"running", "ending", "gone"} \/ pc'[c] = "savemark"
  BY UsersStay
<1>4. UsersIn(reg)'
  BY <1>3 DEF UsersIn
<1>5. ASSUME NEW b \in Actors PROVE UsersIn(copy[b])'
  BY <1>3 DEF UsersIn
<1>6. QED
  BY <1>1, <1>2, <1>4, <1>5

LEMMA RegistriesKept ==
  ASSUME VolumeInvariant, UserStays, UNCHANGED <<reg, copy>>
  PROVE  /\ reg' \subseteq Entry /\ copy' \in [Actors -> SUBSET Entry]
         /\ (UniqueVolumes /\ UsersIn(reg) /\ \A b \in Actors : UsersIn(copy[b]))'
<1> USE DEF VolumeInvariant, TypeOK
<1>1. UniqueVolumes'
  BY DEF UniqueVolumes, Unique
<1>2. UsersIn(reg)'
  BY UsersStay DEF UsersIn
<1>3. ASSUME NEW b \in Actors PROVE UsersIn(copy[b])'
  <2>1. copy'[b] = copy[b] /\ copy[b] \in SUBSET Entry /\ UsersIn(copy[b])
    OBVIOUS
  <2>2. QED
    BY <2>1, UsersStay DEF UsersIn
<1>4. QED
  BY <1>1, <1>2, <1>3
-----------------------------------------------------------------------------
LEMMA VolumesInitially == Init => VolumeInvariant
<1> SUFFICES ASSUME Init PROVE VolumeInvariant
  OBVIOUS
<1> USE DEF Init
<1>1. key \in [Actors -> VolKey] /\ vol \in [Clients -> VolKey]
  BY Volumes
<1>2. TypeOK
  BY <1>1 DEF TypeOK, VolKey, CtrPc, ClientPc, Phase
<1>3. PhaseFits /\ HasFound
  BY ActorsAssumption DEF PhaseFits, HasFound, CtrPc, ClientPc, StartPc, Actors
<1>4. UniqueVolumes /\ UsersIn(reg) /\ \A a \in Actors : UsersIn(copy[a])
  BY DEF UniqueVolumes, Unique, UsersIn
<1>5. QED
  BY <1>2, <1>3, <1>4 DEF VolumeInvariant

(* A step of a container takes its request and its life from one stage that     *)
(* fits to another                                                              *)
Stage(label, ph) ==
  /\ label \in CtrPc
  /\ ph \in Phase
  /\ label \in StartPc <=> ph = "starting"
  /\ label \in {"unmark", "saveunmark"} <=> ph = "ending"

HasRun(label, ph) == ph \in {"running", "ending", "gone"} \/ label = "savemark"

LEMMA StageMoves ==
  ASSUME VolumeInvariant, NEW c \in Ctrs, NEW label, NEW ph,
         Go(c, label), phase' = [phase EXCEPT ![c] = ph] \/ (ph = phase[c] /\ phase' = phase),
         Stage(label, ph), HasRun(pc[c], phase[c]) => HasRun(label, ph),
         UNCHANGED <<key, vol>>
  PROVE  /\ UserStays
         /\ (PhaseFits /\ HasFound)'
         /\ pc' \in [Actors -> CtrPc \union ClientPc]
         /\ phase' \in [Ctrs -> Phase]
<1> USE ActorsAssumption DEF VolumeInvariant, TypeOK, Go, Stage, HasRun, Actors
<1>1. /\ pc' \in [Actors -> CtrPc \union ClientPc]
      /\ phase' \in [Ctrs -> Phase]
      /\ pc'[c] = label /\ phase'[c] = ph
      /\ \A d \in Ctrs \ {c} : pc'[d] = pc[d] /\ phase'[d] = phase[d]
      /\ \A a \in Clients : pc'[a] = pc[a]
  OBVIOUS
<1>2. UserStays
  BY <1>1 DEF UserStays
<1>3. PhaseFits'
  BY <1>1 DEF PhaseFits
<1>4. HasFound'
  BY <1>1 DEF HasFound
<1>5. QED
  BY <1>1, <1>2, <1>3, <1>4

(* What an action does to requests and containers                               *)
LEMMA CtrStepFits ==
  ASSUME VolumeInvariant, NEW c \in Ctrs, CtrStep(c)
  PROVE  /\ UserStays
         /\ (PhaseFits /\ HasFound)'
         /\ pc' \in [Actors -> CtrPc \union ClientPc]
         /\ phase' \in [Ctrs -> Phase]
         /\ alone' \in BOOLEAN
         /\ UNCHANGED <<key, vol>>
         /\ data' \subseteq Paths
<1>0. Stage(pc[c], phase[c]) /\ alone \in BOOLEAN /\ data \subseteq Paths
  BY DEF VolumeInvariant, TypeOK, PhaseFits, Stage
<1> USE DEF Stage, HasRun, CtrPc, StartPc, Phase
<1>1. CASE Up(c)
  <2>1. /\ Go(c, "find") /\ phase' = [phase EXCEPT ![c] = "starting"]
        /\ pc[c] = "out" /\ phase[c] = "new"
        /\ UNCHANGED <<data, key, vol>>
    BY <1>1 DEF Up, Enter
  <2>2. alone' \in BOOLEAN
    BY <1>1 DEF Up, Enter
  <2>3. Stage("find", "starting") /\ ~HasRun(pc[c], phase[c])
    BY <2>1
  <2> HIDE DEF Stage, HasRun
  <2>4. QED
    BY <1>0, <2>1, <2>2, <2>3, StageMoves
<1>2. CASE FindVolume(c)
  <2>1. \E label \in {"register", "mkdir"} : Go(c, label)
    BY <1>2 DEF FindVolume
  <2>2. QED
    BY <1>0, <1>2, <2>1, StageMoves DEF FindVolume
<1>3. CASE RegisterVolume(c)
  <2>1. \E label \in {"saveregister", "mkdir"} : Go(c, label)
    BY <1>3 DEF RegisterVolume
  <2>2. QED
    BY <1>0, <1>3, <2>1, StageMoves DEF RegisterVolume
<1>4. CASE SaveRegister(c)
  BY <1>0, <1>4, StageMoves DEF SaveRegister
<1>5. CASE MakeDir(c)
  BY <1>0, <1>5, Volumes, StageMoves DEF MakeDir
<1>6. CASE BindMount(c)
  <2>1. \/ Go(c, "mark") /\ UNCHANGED phase
        \/ Go(c, "out") /\ phase' = [phase EXCEPT ![c] = "failed"]
    BY <1>6 DEF BindMount
  <2>2. QED
    BY <1>0, <1>6, <2>1, StageMoves DEF BindMount
<1>7. CASE MarkVolumeUsed(c)
  <2>1. \/ Go(c, "savemark") /\ UNCHANGED phase
        \/ Go(c, "out") /\ phase' = [phase EXCEPT ![c] = "running"]
    BY <1>7 DEF MarkVolumeUsed, Run
  <2>2. QED
    BY <1>0, <1>7, <2>1, StageMoves DEF MarkVolumeUsed
<1>8. CASE SaveMark(c)
  <2>1. /\ Go(c, "out") /\ phase' = [phase EXCEPT ![c] = "running"]
        /\ UNCHANGED <<data, key, vol, alone>>
    BY <1>8 DEF SaveMark, Run
  <2>2. Stage("out", "running") /\ HasRun("out", "running")
    OBVIOUS
  <2> HIDE DEF Stage, HasRun
  <2>3. QED
    BY <1>0, <2>1, <2>2, StageMoves
<1>9. CASE End(c)
  <2>1. /\ Go(c, "unmark") /\ phase' = [phase EXCEPT ![c] = "ending"]
        /\ UNCHANGED <<data, key, vol>>
    BY <1>9 DEF End
  <2>2. alone' \in BOOLEAN
    BY <1>9 DEF End, Enter
  <2>3. Stage("unmark", "ending") /\ HasRun("unmark", "ending")
    OBVIOUS
  <2> HIDE DEF Stage, HasRun
  <2>4. QED
    BY <1>0, <2>1, <2>2, <2>3, StageMoves
<1>10. CASE MarkVolumeUnused(c)
  <2>1. \/ Go(c, "saveunmark") /\ UNCHANGED phase
        \/ Go(c, "out") /\ phase' = [phase EXCEPT ![c] = "gone"]
        \/ Go(c, "unmark") /\ UNCHANGED phase
    BY <1>10 DEF MarkVolumeUnused, AfterUnmark
  <2>2. QED
    BY <1>0, <1>10, <2>1, StageMoves DEF MarkVolumeUnused
<1>11. CASE SaveUnmark(c)
  <2>1. \/ Go(c, "out") /\ phase' = [phase EXCEPT ![c] = "gone"]
        \/ Go(c, "unmark") /\ UNCHANGED phase
    BY <1>11 DEF SaveUnmark, AfterUnmark
  <2>2. QED
    BY <1>0, <1>11, <2>1, StageMoves DEF SaveUnmark
<1>12. QED
  BY <1>1, <1>2, <1>3, <1>4, <1>5, <1>6, <1>7, <1>8, <1>9, <1>10, <1>11 DEF CtrStep

LEMMA ClientStepFits ==
  ASSUME VolumeInvariant, NEW a \in Clients, ClientStep(a)
  PROVE  /\ UserStays
         /\ (PhaseFits /\ HasFound)'
         /\ pc' \in [Actors -> CtrPc \union ClientPc]
         /\ phase' \in [Ctrs -> Phase]
         /\ alone' \in BOOLEAN
         /\ key' \in [Actors -> VolKey] /\ vol' \in [Clients -> VolKey]
         /\ data' \subseteq Paths
<1> USE ActorsAssumption
    DEF VolumeInvariant, TypeOK, VolKey, PhaseFits, HasFound, UserStays, Go, StartPc, CtrPc,
        ClientPc, Phase, Actors
<1>1. CASE Delete(a)
  <2>1. PICK k \in VolKey : key' = [key EXCEPT ![a] = k]
    <3>1. \A v \in Vols : ByName(v) \in VolKey /\ ByPath(v) \in VolKey
      BY Volumes DEF ByName, ByPath, Volume
    <3>2. QED
      BY ZenonT(40), <1>1, <3>1 DEF Delete
  <2>2. QED
    BY <1>1, <2>1 DEF Delete, Enter
<1>2. CASE FindForDelete(a)
  <2>1. \A v \in reg : [name |-> v.name, path |-> v.path] \in Volume
    BY DEF Volume, Entry
  <2>2. Volume \subseteq VolKey
    BY DEF Volume
  <2>3. CASE Go(a, "out") /\ UNCHANGED vol
    BY <1>2, <2>3 DEF FindForDelete
  <2>4. CASE ~(Go(a, "out") /\ UNCHANGED vol)
    <3>1. PICK w \in Volume : vol' = [vol EXCEPT ![a] = w]
      BY <1>2, <2>1, <2>4 DEF FindForDelete, Found
    <3>2. Go(a, "unregister") /\ pc[a] = "find" /\ UNCHANGED <<data, key, phase, alone>>
      BY <1>2, <2>4 DEF FindForDelete
    <3>3. vol' \in [Clients -> VolKey] /\ vol'[a] \in Volume
      BY <2>2, <3>1
    <3>4. \A b \in Clients : b # a => vol'[b] = vol[b]
      BY <3>1
    <3>5. QED
      BY <3>2, <3>3, <3>4
  <2>5. QED
    BY <2>3, <2>4
<1>3. CASE UnregisterVolume(a)
  BY <1>3 DEF UnregisterVolume
<1>4. CASE SaveUnregister(a)
  BY <1>4 DEF SaveUnregister
<1>5. CASE RemoveData(a)
  BY <1>5 DEF RemoveData
<1>6. CASE Restore(a)
  BY <1>6 DEF Restore
<1>7. CASE SaveRestore(a)
  BY <1>7 DEF SaveRestore
<1>8. QED
  BY <1>1, <1>2, <1>3, <1>4, <1>5, <1>6, <1>7 DEF ClientStep

LEMMA RegistryStep ==
  ASSUME VolumeInvariant, UserStays, [Next]_vars,
         \A c \in Ctrs : key[c] = KeyOf(c)
  PROVE  /\ reg' \subseteq Entry /\ copy' \in [Actors -> SUBSET Entry]
         /\ (UniqueVolumes /\ UsersIn(reg) /\ \A b \in Actors : UsersIn(copy[b]))'
<1> DEFINE Kept == /\ reg' \subseteq Entry /\ copy' \in [Actors -> SUBSET Entry]
                   /\ (UniqueVolumes /\ UsersIn(reg) /\ \A b \in Actors : UsersIn(copy[b]))'
<1>0. reg \subseteq Entry /\ Unique(reg) /\ UsersIn(reg) /\ Ctrs \subseteq Actors /\ Clients \subseteq Actors
  BY DEF VolumeInvariant, TypeOK, UniqueVolumes, Actors
<1>1. UNCHANGED <<reg, copy>> => Kept
  BY RegistriesKept
<1>2. \A a \in Actors : Save(a) => Kept
  BY CopySaved
<1>3. ASSUME NEW a \in Actors, NEW v \in Volume, ~Clash(v), Keep(a, reg \union {Fresh(v)}), reg' = reg
      PROVE  Kept
  <2>1. /\ reg \union {Fresh(v)} \in SUBSET Entry
        /\ Unique(reg \union {Fresh(v)})
        /\ UsersIn(reg \union {Fresh(v)})
    BY <1>0, <1>3, Added
  <2>2. \A w \in reg \union {Fresh(v)} : \A c \in w.used :
          /\ Match(w, KeyOf(c))
          /\ phase'[c] \in {"running", "ending", "gone"} \/ pc'[c] = "savemark"
    BY <2>1, UsersStay
  <2> DEFINE r == reg \union {Fresh(v)}
  <2> HIDE DEF r
  <2>3. r \in SUBSET Entry /\ Unique(r) /\ Keep(a, r)
    BY <1>3, <2>1 DEF r
  <2>4. \A w \in r : \A c \in w.used :
          /\ Match(w, KeyOf(c))
          /\ phase'[c] \in {"running", "ending", "gone"} \/ pc'[c] = "savemark"
    BY <2>2 DEF r
  <2>5. QED
    BY <1>3, <2>3, <2>4, CopyMade
<1>4. ASSUME NEW a \in Actors, NEW k, Keep(a, reg \ Found(k)), reg' = reg PROVE Kept
  <2> DEFINE r == reg \ Found(k)
  <2>1. r \in SUBSET Entry /\ Unique(r) /\ UsersIn(r)
    BY <1>0, Removed
  <2>2. Keep(a, r)
    BY <1>4
  <2> HIDE DEF r
  <2>3. QED
    BY <1>4, <2>1, <2>2, UsersStay, CopyMade
<1>5. ASSUME NEW c \in Ctrs, MarkVolumeUsed(c) PROVE Kept
  <2>1. CASE UNCHANGED copy
    BY <1>1, <1>5, <2>1 DEF MarkVolumeUsed
  <2>2. CASE ~UNCHANGED copy
    <3>1. Go(c, "savemark") /\ Keep(c, Marked(c)) /\ reg' = reg
      BY <1>5, <2>2 DEF MarkVolumeUsed
    <3>2. pc'[c] = "savemark"
      BY <1>0, <3>1 DEF VolumeInvariant, TypeOK, Go
    <3>3. Marked(c) \in SUBSET Entry /\ Unique(Marked(c))
      BY <1>0, MarkedEntries
    <3>4. ASSUME NEW w \in Marked(c), NEW d \in w.used
          PROVE  /\ Match(w, KeyOf(d))
                 /\ phase'[d] \in {"running", "ending", "gone"} \/ pc'[d] = "savemark"
      <4>1. PICK v \in reg : /\ v.name = w.name /\ v.path = w.path
                             /\ d \in v.used \/ (d = c /\ Match(v, key[c]))
        BY <1>0, MarkedEntries
      <4>2. \A k : Match(w, k) <=> Match(v, k)
        BY <4>1 DEF Match
      <4>3. CASE d \in v.used
        BY <1>0, <4>2, <4>3, UsersStay
      <4>4. CASE d = c /\ Match(v, key[c])
        BY <3>2, <4>2, <4>4
      <4>5. QED
        BY <4>1, <4>3, <4>4
    <3>5. QED
      BY <1>0, <3>1, <3>3, <3>4, CopyMade
  <2>3. QED
    BY <2>1, <2>2
<1>6. ASSUME NEW c \in Ctrs, MarkVolumeUnused(c) PROVE Kept
  <2>1. CASE UNCHANGED copy
    BY <1>1, <1>6, <2>1 DEF MarkVolumeUnused
  <2>2. CASE ~UNCHANGED copy
    <3>1. Keep(c, Unmarked(c)) /\ reg' = reg
      BY <1>6, <2>2 DEF MarkVolumeUnused
    <3>2. Unmarked(c) \in SUBSET Entry /\ Unique(Unmarked(c))
      BY <1>0, UnmarkedEntries
    <3>3. ASSUME NEW w \in Unmarked(c), NEW d \in w.used
          PROVE  /\ Match(w, KeyOf(d))
                 /\ phase'[d] \in {"running", "ending", "gone"} \/ pc'[d] = "savemark"
      <4>1. PICK v \in reg : v.name = w.name /\ v.path = w.path /\ d \in v.used
        BY <1>0, UnmarkedEntries
      <4>2. Match(w, KeyOf(d)) <=> Match(v, KeyOf(d))
        BY <4>1 DEF Match
      <4>3. QED
        BY <1>0, <4>1, <4>2, UsersStay
    <3>4. QED
      BY <1>0, <3>1, <3>2, <3>3, CopyMade
  <2>3. QED
    BY <2>1, <2>2
<1>7. ASSUME NEW c \in Ctrs, CtrStep(c) PROVE Kept
  <2>1. CASE Up(c) \/ FindVolume(c) \/ MakeDir(c) \/ BindMount(c) \/ End(c)
    BY <1>1, <2>1 DEF Up, FindVolume, MakeDir, BindMount, End
  <2>2. CASE RegisterVolume(c)
    <3>1. VolOf[c] \in Volume
      BY Volumes
    <3>2. QED
      BY <1>0, <1>1, <1>3, <2>2, <3>1 DEF RegisterVolume
  <2>3. CASE SaveRegister(c) \/ SaveMark(c) \/ SaveUnmark(c)
    BY <1>0, <1>2, <2>3 DEF SaveRegister, SaveMark, SaveUnmark
  <2>4. QED
    BY <1>5, <1>6, <1>7, <2>1, <2>2, <2>3 DEF CtrStep
<1>8. ASSUME NEW a \in Clients, ClientStep(a) PROVE Kept
  <2>1. CASE Delete(a) \/ FindForDelete(a) \/ RemoveData(a)
    BY <1>1, <2>1 DEF Delete, FindForDelete, RemoveData
  <2>2. CASE UnregisterVolume(a)
    BY <1>0, <1>1, <1>4, <2>2 DEF UnregisterVolume
  <2>3. CASE Restore(a)
    <3>1. vol[a] \in Volume
      BY <2>3 DEF Restore, VolumeInvariant, HasFound
    <3>2. QED
      BY <1>0, <1>1, <1>3, <2>3, <3>1 DEF Restore
  <2>4. CASE SaveUnregister(a) \/ SaveRestore(a)
    BY <1>0, <1>2, <2>4 DEF SaveUnregister, SaveRestore
  <2>5. QED
    BY <1>8, <2>1, <2>2, <2>3, <2>4 DEF ClientStep
<1>9. CASE UNCHANGED vars
  BY <1>1, <1>9 DEF vars
<1>10. QED
  BY <1>7, <1>8, <1>9 DEF Next

LEMMA VolumesPreserved == VolumeInvariant /\ [Next]_vars => VolumeInvariant'
<1> SUFFICES ASSUME VolumeInvariant, [Next]_vars PROVE VolumeInvariant'
  OBVIOUS
<1>1. /\ UserStays
      /\ (PhaseFits /\ HasFound)'
      /\ pc' \in [Actors -> CtrPc \union ClientPc]
      /\ phase' \in [Ctrs -> Phase]
      /\ alone' \in BOOLEAN
      /\ key' \in [Actors -> VolKey] /\ vol' \in [Clients -> VolKey]
      /\ data' \subseteq Paths
  <2> USE DEF VolumeInvariant, TypeOK, VolKey
  <2>1. CASE \E c \in Ctrs : CtrStep(c)
    BY <2>1, CtrStepFits
  <2>2. CASE \E a \in Clients : ClientStep(a)
    BY <2>2, ClientStepFits
  <2>3. CASE UNCHANGED vars
    BY <2>3 DEF vars, UserStays, PhaseFits, HasFound
  <2>4. QED
    BY <2>1, <2>2, <2>3 DEF Next
<1>2. \A c \in Ctrs : key[c] = KeyOf(c)
  BY DEF VolumeInvariant, PhaseFits
<1>3. /\ reg' \subseteq Entry /\ copy' \in [Actors -> SUBSET Entry]
      /\ (UniqueVolumes /\ UsersIn(reg) /\ \A b \in Actors : UsersIn(copy[b]))'
  BY <1>1, <1>2, RegistryStep
<1>4. QED
  BY <1>1, <1>3 DEF VolumeInvariant, TypeOK, VolKey

(* The invariant behind the theorems below                                      *)
THEOREM VolumeInvariantHolds == Spec => []VolumeInvariant
BY VolumesInitially, VolumesPreserved, PTL DEF Spec

(* The registry of volumes, its copies and the requests keep their types        *)
THEOREM VolumesTypeCorrect == Spec => []TypeOK
BY VolumeInvariantHolds, PTL DEF VolumeInvariant

(* Whatever the overlap, the file and the copies on their way to it have one    *)
(* entry per name and one per path                                              *)
THEOREM VolumesAreUnique == Spec => []UniqueVolumes
BY VolumeInvariantHolds, PTL DEF VolumeInvariant

(* A user recorded in the file or in a stale copy is a container of that very   *)
(* volume which has got as far as run()                                         *)
THEOREM RecordedUsersHaveRun == Spec => []UsersHaveRun
<1>1. VolumeInvariant => UsersHaveRun
  BY DEF VolumeInvariant, UsersIn, UsersHaveRun
<1>2. QED
  BY <1>1, VolumeInvariantHolds, PTL
-----------------------------------------------------------------------------
(* Usage tracking while requests come one at a time.                            *)

(* Every entry, and every volume a deletion has found, is that of a container   *)
KnownIn(r) == \A v \in r : \E c \in Ctrs : v.name = VolOf[c].name /\ v.path = VolOf[c].path

DeletePc == {"unregister", "saveunregister", "remove", "restore", "saverestore"}

VolumesKnown ==
  /\ KnownIn(reg)
  /\ \A a \in Actors : KnownIn(copy[a])
  /\ \A a \in Clients : pc[a] \in DeletePc => KnownIn({vol[a]})

(* The user of a named volume is on the list of r                               *)
Named(c) == VolOf[c].name # NoName
Lists(r, c) == \E v \in r : v.name = VolOf[c].name /\ c \in v.used
Using(c) == phase[c] = "running" /\ Named(c)
ListsUsers(r) == \A c \in Ctrs : Using(c) => Lists(r, c)

SavePc == {"saveregister", "savemark", "saveunmark", "saveunregister", "saverestore"}

OneInside == \A a, b \in Inside : a = b

(* The users of named volumes are on file and on the way to it, and their       *)
(* directories are there                                                        *)
UsersListed ==
  /\ ListsUsers(reg)
  /\ \A a \in Actors : pc[a] \in SavePc => ListsUsers(copy[a])
  /\ \A c \in Ctrs : Using(c) => VolOf[c].path \in data

(* What an UP under way has done for its named volume                           *)
HasName(r, c) == \E v \in r : v.name = VolOf[c].name
UpFit(c) ==
  /\ pc[c] \in {"mark", "savemark"} => VolOf[c].path \in data
  /\ Named(c) =>
       /\ pc[c] = "register" => ~HasName(reg, c)
       /\ pc[c] = "saveregister" => HasName(copy[c], c)
       /\ pc[c] \in {"mkdir", "mount", "mark"} => HasName(reg, c)
       /\ pc[c] = "savemark" => Lists(copy[c], c)

UpFits == \A c \in Ctrs : UpFit(c)

(* A deletion past its first look is of a volume nobody runs with               *)
DeletesUnused ==
  \A a \in Clients : pc[a] \in DeletePc =>
    \A c \in Ctrs : Using(c) => vol[a].path # VolOf[c].path

SerialVolumes == alone => OneInside /\ UsersListed /\ UpFits /\ DeletesUnused

(* A named volume has a directory of its own: setVolume derives it from the     *)
(* name, and a directory of the host is another one.  The code does not check   *)
(* this: UP with the host volume /x:<VolPth>/name breaks it, and tracking too.  *)
NamedOwnPath ==
  \A c, d \in Ctrs : Named(c) =>
    (VolOf[c].name = VolOf[d].name <=> VolOf[c].path = VolOf[d].path)

(* What marking and unmarking leave of an entry                                 *)
LEMMA MarkedKeeps ==
  ASSUME reg \subseteq Entry, NEW c \in Ctrs
  PROVE  /\ \A w \in Marked(c) : \E v \in reg : v.name = w.name /\ v.path = w.path
         /\ \A v \in reg : \E w \in Marked(c) :
              /\ v.name = w.name /\ v.used \subseteq w.used
              /\ Match(v, key[c]) => c \in w.used
<1> DEFINE m(v) == IF Match(v, key[c]) THEN [v EXCEPT !.used = @ \union {c}] ELSE v
<1>1. ASSUME NEW v \in reg
      PROVE  /\ m(v).name = v.name /\ m(v).path = v.path /\ v.used \subseteq m(v).used
             /\ Match(v, key[c]) => c \in m(v).used
  <2>1. v \in Entry /\ v.used \union {c} \in SUBSET Ctrs
    BY DEF Entry
  <2>2. QED
    BY <2>1, Remarked
<1>2. Marked(c) = {m(v) : v \in reg}
  BY DEF Marked
<1> HIDE DEF m
<1>3. QED
  BY <1>1, <1>2

LEMMA UnmarkedKeeps ==
  ASSUME reg \subseteq Entry, NEW c \in Ctrs
  PROVE  /\ \A w \in Unmarked(c) : \E v \in reg : v.name = w.name /\ v.path = w.path
         /\ \A v \in reg : \E w \in Unmarked(c) :
              v.name = w.name /\ v.used \ {c} \subseteq w.used
<1> DEFINE m(v) == IF Match(v, key[c]) THEN [v EXCEPT !.used = @ \ {c}] ELSE v
<1>1. ASSUME NEW v \in reg
      PROVE  m(v).name = v.name /\ m(v).path = v.path /\ v.used \ {c} \subseteq m(v).used
  <2>1. v \in Entry /\ v.used \ {c} \in SUBSET Ctrs
    BY DEF Entry
  <2>2. QED
    BY <2>1, Remarked
<1>2. Unmarked(c) = {m(v) : v \in reg}
  BY DEF Unmarked
<1> HIDE DEF m
<1>3. QED
  BY <1>1, <1>2

LEMMA KnownPreserved ==
  ASSUME VolumeInvariant, VolumesKnown, [Next]_vars
  PROVE  VolumesKnown'
<1> USE DEF KnownIn
<1>0. /\ reg \subseteq Entry /\ copy \in [Actors -> SUBSET Entry]
      /\ pc \in [Actors -> CtrPc \union ClientPc] /\ vol \in [Clients -> VolKey]
      /\ Ctrs \subseteq Actors /\ Clients \subseteq Actors
      /\ KnownIn(reg) /\ \A a \in Actors : KnownIn(copy[a])
  BY DEF VolumeInvariant, TypeOK, VolKey, Actors, VolumesKnown
<1> DEFINE Copied(a) == \E r : KnownIn(r) /\ Keep(a, r)
<1>1. ASSUME \/ UNCHANGED reg /\ (UNCHANGED copy \/ \E a \in Actors : Copied(a))
             \/ \E a \in Actors : Save(a)
      PROVE  KnownIn(reg)' /\ \A b \in Actors : KnownIn(copy[b])'
  <2>1. CASE UNCHANGED <<reg, copy>>
    BY <1>0, <2>1
  <2>2. ASSUME UNCHANGED reg, NEW a \in Actors, Copied(a)
        PROVE  KnownIn(reg)' /\ \A b \in Actors : KnownIn(copy[b])'
    <3>1. PICK r : KnownIn(r) /\ Keep(a, r)
      BY <2>2
    <3>2. \A b \in Actors : copy'[b] = IF b = a THEN r ELSE copy[b]
      BY <1>0, <3>1 DEF Keep
    <3>3. QED
      BY <1>0, <2>2, <3>1, <3>2
  <2>3. ASSUME NEW a \in Actors, Save(a)
        PROVE  KnownIn(reg)' /\ \A b \in Actors : KnownIn(copy[b])'
    <3>1. reg' = copy[a] /\ \A b \in Actors : copy'[b] = IF b = a THEN {} ELSE copy[b]
      BY <1>0, <2>3 DEF Save, Keep
    <3>2. QED
      BY <1>0, <3>1
  <2>4. QED
    BY <1>1, <2>1, <2>2, <2>3
<1>2. ASSUME NEW k PROVE KnownIn(reg \ Found(k))
  BY <1>0
<1>3. ASSUME NEW v, v = [name |-> v.name, path |-> v.path], KnownIn({v})
      PROVE  KnownIn(reg \union {Fresh(v)})
  BY <1>0, <1>3 DEF Fresh
<1>4. ASSUME NEW c \in Ctrs, CtrStep(c)
      PROVE  /\ KnownIn(reg)' /\ \A b \in Actors : KnownIn(copy[b])'
             /\ vol' = vol /\ \A b \in Clients : pc'[b] = pc[b]
  <2>1. vol' = vol /\ \A b \in Clients : pc'[b] = pc[b]
    <3>1. (\E label : Go(c, label)) /\ vol' = vol
      <4>1. CASE Up(c) \/ FindVolume(c) \/ RegisterVolume(c) \/ SaveRegister(c) \/ MakeDir(c)
                 \/ BindMount(c)
        BY <4>1 DEF Up, FindVolume, RegisterVolume, SaveRegister, MakeDir, BindMount
      <4>2. CASE MarkVolumeUsed(c) \/ SaveMark(c) \/ End(c) \/ MarkVolumeUnused(c) \/ SaveUnmark(c)
        BY <4>2 DEF MarkVolumeUsed, SaveMark, End, MarkVolumeUnused, SaveUnmark, AfterUnmark, Run
      <4>3. QED
        BY <1>4, <4>1, <4>2 DEF CtrStep
    <3>2. QED
      BY <1>0, <3>1, ActorsAssumption DEF Go
  <2>2. KnownIn(reg \union {Fresh(VolOf[c])}) /\ KnownIn(Marked(c)) /\ KnownIn(Unmarked(c))
    <3>1. KnownIn(reg \union {Fresh(VolOf[c])})
      BY <1>3, VolumeAssumption
    <3>2. KnownIn(Marked(c)) /\ KnownIn(Unmarked(c))
      BY <1>0, MarkedKeeps, UnmarkedKeeps
    <3>3. QED
      BY <3>1, <3>2
  <2> DEFINE r1 == reg \union {Fresh(VolOf[c])}
  <2> HIDE DEF KnownIn
  <2>3. CASE Up(c) \/ FindVolume(c) \/ MakeDir(c) \/ BindMount(c) \/ End(c)
    BY <1>1, <2>1, <2>3 DEF Up, FindVolume, MakeDir, BindMount, End
  <2>4. CASE RegisterVolume(c)
    <3>1. UNCHANGED reg /\ (UNCHANGED copy \/ Copied(c))
      BY <2>2, <2>4 DEF RegisterVolume
    <3>2. QED
      BY <1>0, <1>1, <2>1, <3>1
  <2>5. CASE MarkVolumeUsed(c)
    <3>1. UNCHANGED reg /\ (UNCHANGED copy \/ Copied(c))
      BY <2>2, <2>5 DEF MarkVolumeUsed
    <3>2. QED
      BY <1>0, <1>1, <2>1, <3>1
  <2>6. CASE MarkVolumeUnused(c)
    <3>1. UNCHANGED reg /\ (UNCHANGED copy \/ Copied(c))
      BY <2>2, <2>6 DEF MarkVolumeUnused
    <3>2. QED
      BY <1>0, <1>1, <2>1, <3>1
  <2>7. CASE SaveRegister(c) \/ SaveMark(c) \/ SaveUnmark(c)
    <3>1. Save(c)
      BY <2>7 DEF SaveRegister, SaveMark, SaveUnmark
    <3>2. QED
      BY <1>0, <1>1, <2>1, <3>1
  <2>8. QED
    BY <1>4, <2>3, <2>4, <2>5, <2>6, <2>7 DEF CtrStep
<1>5. ASSUME NEW a \in Clients, ClientStep(a)
      PROVE  KnownIn(reg)' /\ \A b \in Actors : KnownIn(copy[b])'
  <2> HIDE DEF KnownIn
  <2>1. CASE Delete(a) \/ FindForDelete(a) \/ RemoveData(a)
    BY <1>1, <2>1 DEF Delete, FindForDelete, RemoveData
  <2>2. CASE UnregisterVolume(a)
    <3>1. UNCHANGED reg /\ (UNCHANGED copy \/ Copied(a))
      BY <1>2, <2>2 DEF UnregisterVolume
    <3>2. QED
      BY <1>0, <1>1, <3>1
  <2>3. CASE Restore(a)
    <3>1. vol[a] \in VolKey /\ KnownIn({vol[a]})
      BY <1>0, <2>3 DEF Restore, VolumesKnown, DeletePc
    <3>2. vol[a] = [name |-> vol[a].name, path |-> vol[a].path]
      BY <3>1 DEF VolKey
    <3>3. KnownIn(reg \union {Fresh(vol[a])})
      BY <1>3, <3>1, <3>2
    <3>4. UNCHANGED reg /\ (UNCHANGED copy \/ Copied(a))
      BY <2>3, <3>3 DEF Restore
    <3>5. QED
      BY <1>0, <1>1, <3>4
  <2>4. CASE SaveUnregister(a) \/ SaveRestore(a)
    <3>1. Save(a)
      BY <2>4 DEF SaveUnregister, SaveRestore
    <3>2. QED
      BY <1>0, <1>1, <3>1
  <2>5. QED
    BY <1>5, <2>1, <2>2, <2>3, <2>4 DEF ClientStep
<1>6. ASSUME NEW a \in Clients, ClientStep(a), NEW b \in Clients, pc'[b] \in DeletePc
      PROVE  KnownIn({vol[b]})'
  <2>1. ASSUME vol'[b] = vol[b], pc[b] \in DeletePc PROVE KnownIn({vol[b]})'
    BY <2>1 DEF VolumesKnown
  <2>2. CASE FindForDelete(a) /\ b = a
    <3>1. pc'[a] # "out"
      BY <1>6, <2>2 DEF DeletePc
    <3>2. PICK v \in reg : vol' = [vol EXCEPT ![a] = [name |-> v.name, path |-> v.path]]
      BY <1>0, <2>2, <3>1 DEF FindForDelete, Go, Found
    <3>3. vol'[b].name = v.name /\ vol'[b].path = v.path
      BY <1>0, <2>2, <3>2
    <3>4. QED
      BY <1>0, <3>3
  <2>3. CASE ~(FindForDelete(a) /\ b = a)
    <3>1. vol'[b] = vol[b]
      BY <1>0, <1>6, <2>3
      DEF ClientStep, Delete, FindForDelete, UnregisterVolume, SaveUnregister, RemoveData,
          Restore, SaveRestore
    <3>2. pc[b] \in DeletePc
      <4>1. CASE b # a
        BY <1>0, <1>6, <4>1
        DEF ClientStep, Delete, FindForDelete, UnregisterVolume, SaveUnregister, RemoveData,
            Restore, SaveRestore, Go
      <4>2. CASE b = a /\ ~FindForDelete(a)
        BY <1>0, <1>6, <4>2
        DEF ClientStep, Delete, UnregisterVolume, SaveUnregister, RemoveData,
            Restore, SaveRestore, Go, DeletePc
      <4>3. QED
        BY <2>3, <4>1, <4>2
    <3>3. QED
      BY <2>1, <3>1, <3>2
  <2>4. QED
    BY <2>2, <2>3
<1>7. CASE UNCHANGED vars
  BY <1>7 DEF vars, VolumesKnown
<1>8. CASE \E c \in Ctrs : CtrStep(c)
  <2> HIDE DEF KnownIn
  <2>1. PICK c \in Ctrs : CtrStep(c)
    BY <1>8
  <2>2. KnownIn(reg)' /\ \A b \in Actors : KnownIn(copy[b])'
    BY <1>4, <2>1
  <2>3. \A b \in Clients : pc'[b] \in DeletePc => KnownIn({vol[b]})'
    BY <1>4, <2>1 DEF VolumesKnown, KnownIn
  <2>4. QED
    BY <2>2, <2>3 DEF VolumesKnown
<1>9. CASE \E a \in Clients : ClientStep(a)
  <2> HIDE DEF KnownIn
  <2>1. QED
    BY <1>5, <1>6, <1>9 DEF VolumesKnown
<1>10. QED
  BY <1>7, <1>8, <1>9 DEF Next

(* A request that is alone inside: all the others are out before and after      *)
LEMMA Solo ==
  ASSUME VolumeInvariant, alone => OneInside, alone', NEW a \in Actors,
         (pc[a] # "out" /\ alone' = alone) \/ Enter(a), NEW label, Go(a, label)
  PROVE  /\ alone /\ OneInside'
         /\ pc'[a] = label
         /\ \A b \in Actors : b # a => pc[b] = "out" /\ pc'[b] = "out"
<1>1. pc \in [Actors -> CtrPc \union ClientPc]
  BY DEF VolumeInvariant, TypeOK
<1>2. alone
  BY DEF Enter
<1>3. \A b \in Actors : b # a => pc[b] = "out"
  BY <1>2 DEF Enter, Inside, OneInside
<1>4. pc'[a] = label /\ \A b \in Actors : b # a => pc'[b] = pc[b]
  BY <1>1 DEF Go
<1>5. OneInside'
  BY <1>3, <1>4 DEF OneInside, Inside
<1>6. QED
  BY <1>2, <1>3, <1>4, <1>5

LEMMA SerialCtrStep ==
  ASSUME VolumeInvariant, VolumesKnown, NamedOwnPath, SerialVolumes, NEW c \in Ctrs,
         CtrStep(c), alone'
  PROVE  SerialVolumes'
<1> DEFINE Good == /\ ListsUsers(reg)'
                   /\ (pc[c] \in SavePc => ListsUsers(copy[c]))'
                   /\ (\A d \in Ctrs : Using(d) => VolOf[d].path \in data)'
                   /\ UpFit(c)'
<1>0. /\ c \in Actors /\ Ctrs \subseteq Actors /\ Clients \subseteq Actors
      /\ reg \subseteq Entry /\ copy \in [Actors -> SUBSET Entry]
      /\ pc \in [Actors -> CtrPc \union ClientPc] /\ phase \in [Ctrs -> Phase]
      /\ pc[c] \in CtrPc /\ key[c] = KeyOf(c)
  BY DEF VolumeInvariant, TypeOK, PhaseFits, Actors
<1>1. ASSUME NEW label, Go(c, label), (pc[c] # "out" /\ alone' = alone) \/ Enter(c), Good
      PROVE  SerialVolumes'
  <2>1. /\ OneInside'
        /\ \A b \in Actors : b # c => pc'[b] = "out"
    BY <1>0, <1>1, Solo DEF SerialVolumes
  <2>2. UsersListed'
    BY <1>1, <2>1 DEF UsersListed, SavePc
  <2>3. UpFits'
    <3>1. \A d \in Ctrs : d # c => UpFit(d)'
      BY <1>0, <2>1 DEF UpFit
    <3>2. QED
      BY <1>1, <3>1 DEF UpFits
  <2>4. DeletesUnused'
    BY <1>0, <2>1, ActorsAssumption DEF DeletesUnused, DeletePc
  <2>5. QED
    BY <2>1, <2>2, <2>3, <2>4 DEF SerialVolumes
<1>2. alone
  <2>1. alone' => alone
    BY DEF CtrStep, Up, FindVolume, RegisterVolume, SaveRegister, MakeDir, BindMount,
           MarkVolumeUsed, SaveMark, End, MarkVolumeUnused, SaveUnmark, Enter
  <2>2. QED
    BY <2>1
<1>3. UsersListed /\ UpFit(c) /\ ListsUsers(reg)
  BY <1>2 DEF SerialVolumes, UpFits, UsersListed
<1>4. Named(c) => \A v \in reg : Match(v, key[c]) <=> v.name = VolOf[c].name
  BY <1>0 DEF Named, KeyOf, ByName, Match
<1>5. ASSUME phase' = phase PROVE \A d \in Ctrs : Using(d)' <=> Using(d)
  BY <1>5 DEF Using, Named
<1>6. /\ \A ph : phase' = [phase EXCEPT ![c] = ph] =>
           \A d \in Ctrs : Using(d)' => Using(d) \/ d = c
      /\ \A ph \in {"starting", "ending", "gone", "failed"} :
           phase' = [phase EXCEPT ![c] = ph] => \A d \in Ctrs : Using(d)' => Using(d)
  BY <1>0 DEF Using, Named
<1> HIDE DEF Good
<1>7. CASE Up(c)
  <2>1. /\ Go(c, "find") /\ Enter(c) /\ phase' = [phase EXCEPT ![c] = "starting"]
        /\ UNCHANGED <<reg, data, copy>>
    BY <1>7 DEF Up
  <2>2. pc'[c] = "find" /\ \A d \in Ctrs : Using(d)' => Using(d)
    BY <1>0, <1>6, <2>1 DEF Go
  <2>3. Good
    BY <1>3, <2>1, <2>2 DEF Good, ListsUsers, Lists, SavePc, UsersListed, UpFit
  <2>4. QED
    BY <1>1, <2>1, <2>3
<1>8. CASE FindVolume(c)
  <2>1. PICK label \in {"register", "mkdir"} :
          /\ Go(c, label) /\ (label = "register" <=> Found(key[c]) = {})
    BY <1>8 DEF FindVolume
  <2>2. pc'[c] = label /\ pc[c] # "out" /\ UNCHANGED <<reg, data, copy, phase, alone>>
    BY <1>0, <1>8, <2>1 DEF Go, FindVolume
  <2>3. Named(c) => (label = "register" <=> ~HasName(reg, c))
    BY <1>4, <2>1 DEF Found, HasName
  <2>4. Good
    BY <1>3, <1>5, <2>1, <2>2, <2>3
    DEF Good, ListsUsers, Lists, SavePc, UsersListed, UpFit, HasName, Named
  <2>5. QED
    BY <1>1, <2>1, <2>2, <2>4
<1>9. CASE RegisterVolume(c)
  <2>0. pc[c] = "register" /\ UNCHANGED <<reg, data, phase, alone>>
    BY <1>9 DEF RegisterVolume
  <2>1. Named(c) => ~Clash(VolOf[c])
    <3>1. SUFFICES ASSUME Named(c), NEW w \in reg, w.name = VolOf[c].name \/ w.path = VolOf[c].path
                   PROVE  FALSE
      BY DEF Clash
    <3>2. PICK d \in Ctrs : w.name = VolOf[d].name /\ w.path = VolOf[d].path
      BY DEF VolumesKnown, KnownIn
    <3>3. w.name = VolOf[c].name
      BY <3>1, <3>2 DEF NamedOwnPath
    <3>4. QED
      BY <1>3, <2>0, <3>1, <3>3 DEF UpFit, HasName
  <2>2. CASE Clash(VolOf[c])
    <3>1. Go(c, "mkdir") /\ UNCHANGED copy /\ ~Named(c)
      BY <1>9, <2>1, <2>2 DEF RegisterVolume
    <3>2. pc'[c] = "mkdir"
      BY <1>0, <3>1 DEF Go
    <3>3. Good
      BY <1>3, <1>5, <2>0, <3>1, <3>2 DEF Good, ListsUsers, Lists, SavePc, UsersListed, UpFit, Named
    <3>4. QED
      BY <1>1, <2>0, <3>1, <3>3
  <2>3. CASE ~Clash(VolOf[c])
    <3>1. Go(c, "saveregister") /\ Keep(c, reg \union {Fresh(VolOf[c])})
      BY <1>9, <2>3 DEF RegisterVolume
    <3>2. pc'[c] = "saveregister" /\ copy'[c] = reg \union {Fresh(VolOf[c])}
      BY <1>0, <3>1 DEF Go, Keep
    <3>3. Fresh(VolOf[c]).name = VolOf[c].name
      BY DEF Fresh
    <3>4. HasName(copy[c], c)'
      BY <3>2, <3>3 DEF HasName
    <3>5. ListsUsers(copy[c])'
      BY <1>3, <1>5, <2>0, <3>2 DEF ListsUsers, Lists
    <3>6. Good
      BY <1>3, <1>5, <2>0, <3>2, <3>4, <3>5 DEF Good, ListsUsers, Lists, UsersListed, UpFit, Named
    <3>7. QED
      BY <1>1, <2>0, <3>1, <3>6
  <2>4. QED
    BY <2>2, <2>3
<1>10. CASE SaveRegister(c)
  <2>1. /\ pc[c] = "saveregister" /\ Go(c, "mkdir") /\ reg' = copy[c]
        /\ UNCHANGED <<data, phase, alone>>
    BY <1>10 DEF SaveRegister, Save
  <2>2. pc'[c] = "mkdir"
    BY <1>0, <2>1 DEF Go
  <2>3. ListsUsers(copy[c]) /\ (Named(c) => HasName(copy[c], c))
    BY <1>0, <1>3, <2>1 DEF UsersListed, SavePc, UpFit
  <2>4. Good
    BY <1>3, <1>5, <2>1, <2>2, <2>3
    DEF Good, ListsUsers, Lists, SavePc, UsersListed, UpFit, HasName, Named
  <2>5. QED
    BY <1>1, <2>1, <2>4
<1>11. CASE MakeDir(c)
  <2>1. /\ pc[c] = "mkdir" /\ Go(c, "mount") /\ data \subseteq data'
        /\ UNCHANGED <<reg, copy, phase, alone>>
    BY <1>11 DEF MakeDir
  <2>2. pc'[c] = "mount"
    BY <1>0, <2>1 DEF Go
  <2>3. Good
    BY <1>3, <1>5, <2>1, <2>2
    DEF Good, ListsUsers, Lists, SavePc, UsersListed, UpFit, HasName, Named
  <2>4. QED
    BY <1>1, <2>1, <2>3
<1>12. CASE BindMount(c)
  <2>0. pc[c] = "mount" /\ UNCHANGED <<reg, data, copy, alone>>
    BY <1>12 DEF BindMount
  <2>1. CASE VolOf[c].path \in data
    <3>1. Go(c, "mark") /\ UNCHANGED phase
      BY <1>12, <2>1 DEF BindMount
    <3>2. pc'[c] = "mark"
      BY <1>0, <3>1 DEF Go
    <3>3. Good
      BY <1>3, <1>5, <2>0, <2>1, <3>1, <3>2
      DEF Good, ListsUsers, Lists, SavePc, UsersListed, UpFit, HasName, Named
    <3>4. QED
      BY <1>1, <2>0, <3>1, <3>3
  <2>2. CASE VolOf[c].path \notin data
    <3>1. Go(c, "out") /\ phase' = [phase EXCEPT ![c] = "failed"]
      BY <1>12, <2>2 DEF BindMount
    <3>2. pc'[c] = "out" /\ \A d \in Ctrs : Using(d)' => Using(d)
      BY <1>0, <1>6, <3>1 DEF Go
    <3>3. Good
      BY <1>3, <2>0, <3>1, <3>2 DEF Good, ListsUsers, Lists, SavePc, UsersListed, UpFit
    <3>4. QED
      BY <1>1, <2>0, <3>1, <3>3
  <2>3. QED
    BY <2>1, <2>2
<1>13. CASE MarkVolumeUsed(c)
  <2>0. /\ pc[c] = "mark" /\ UNCHANGED <<reg, data, alone>> /\ VolOf[c].path \in data
        /\ Named(c) => HasName(reg, c)
    BY <1>3, <1>13 DEF MarkVolumeUsed, UpFit
  <2>1. CASE \E v \in Found(key[c]) : c \notin v.used
    <3>1. Go(c, "savemark") /\ Keep(c, Marked(c)) /\ UNCHANGED phase
      BY <1>13, <2>1 DEF MarkVolumeUsed
    <3>2. pc'[c] = "savemark" /\ copy'[c] = Marked(c)
      BY <1>0, <3>1 DEF Go, Keep
    <3>3. \A v \in reg : \E w \in Marked(c) :
              /\ v.name = w.name /\ v.used \subseteq w.used
              /\ Match(v, key[c]) => c \in w.used
      BY <1>0, MarkedKeeps
    <3>4. ListsUsers(copy[c])'
      BY <1>3, <1>5, <3>1, <3>2, <3>3 DEF ListsUsers, Lists
    <3>5. Named(c) => Lists(copy'[c], c)
      BY <1>4, <2>0, <3>2, <3>3 DEF HasName, Lists
    <3>6. Good
      BY <1>3, <1>5, <2>0, <3>1, <3>2, <3>4, <3>5
      DEF Good, ListsUsers, Lists, UsersListed, UpFit, HasName, Named
    <3>7. QED
      BY <1>1, <2>0, <3>1, <3>6
  <2>2. CASE \A v \in Found(key[c]) : c \in v.used
    <3>1. Go(c, "out") /\ phase' = [phase EXCEPT ![c] = "running"] /\ UNCHANGED copy
      BY <1>13, <2>2 DEF MarkVolumeUsed, Run
    <3>2. pc'[c] = "out"
      BY <1>0, <3>1 DEF Go
    <3>3. Named(c) => Lists(reg, c)
      BY <1>4, <2>0, <2>2 DEF HasName, Lists, Found
    <3>4. \A d \in Ctrs : Using(d)' => Using(d) \/ (d = c /\ Named(c))
      BY <1>6, <3>1 DEF Using, Named
    <3>5. Good
      BY <1>3, <2>0, <3>2, <3>3, <3>4 DEF Good, ListsUsers, Lists, SavePc, UsersListed, UpFit
    <3>6. QED
      BY <1>1, <2>0, <3>1, <3>5
  <2>3. QED
    BY <2>1, <2>2
<1>14. CASE SaveMark(c)
  <2>1. /\ pc[c] = "savemark" /\ Go(c, "out") /\ reg' = copy[c]
        /\ phase' = [phase EXCEPT ![c] = "running"] /\ UNCHANGED <<data, alone>>
    BY <1>14 DEF SaveMark, Save, Run
  <2>2. pc'[c] = "out"
    BY <1>0, <2>1 DEF Go
  <2>3. /\ ListsUsers(copy[c]) /\ VolOf[c].path \in data
        /\ Named(c) => Lists(copy[c], c)
    BY <1>0, <1>3, <2>1 DEF UsersListed, SavePc, UpFit
  <2>4. \A d \in Ctrs : Using(d)' => Using(d) \/ (d = c /\ Named(c))
    BY <1>6, <2>1 DEF Using, Named
  <2>5. Good
    BY <1>3, <2>1, <2>2, <2>3, <2>4 DEF Good, ListsUsers, Lists, SavePc, UsersListed, UpFit
  <2>6. QED
    BY <1>1, <2>1, <2>5
<1>15. CASE End(c)
  <2>1. /\ Enter(c) /\ Go(c, "unmark") /\ phase' = [phase EXCEPT ![c] = "ending"]
        /\ UNCHANGED <<reg, data, copy>>
    BY <1>15 DEF End
  <2>2. pc'[c] = "unmark" /\ \A d \in Ctrs : Using(d)' => Using(d)
    BY <1>0, <1>6, <2>1 DEF Go
  <2>3. Good
    BY <1>3, <2>1, <2>2 DEF Good, ListsUsers, Lists, SavePc, UsersListed, UpFit
  <2>4. QED
    BY <1>1, <2>1, <2>3
<1>16. ASSUME AfterUnmark(c), ListsUsers(reg'), pc[c] # "out", UNCHANGED <<data, alone>>
       PROVE  SerialVolumes'
  <2>1. PICK label \in {"out", "unmark"} : Go(c, label)
    BY <1>16 DEF AfterUnmark
  <2>2. \A d \in Ctrs : Using(d)' => Using(d)
    <3>1. CASE phase' = phase
      BY <1>5, <3>1
    <3>2. CASE phase' = [phase EXCEPT ![c] = "gone"]
      BY <1>6, <3>2
    <3>3. QED
      BY <1>16, <3>1, <3>2 DEF AfterUnmark
  <2>3. pc'[c] = label
    BY <1>0, <2>1 DEF Go
  <2>4. Good
    BY <1>3, <1>16, <2>2, <2>3 DEF Good, ListsUsers, Lists, SavePc, UsersListed, UpFit
  <2>5. QED
    BY <1>1, <1>16, <2>1, <2>4
<1>17. CASE MarkVolumeUnused(c)
  <2>0. pc[c] = "unmark" /\ UNCHANGED <<reg, data, alone>>
    BY <1>17 DEF MarkVolumeUnused
  <2>1. CASE Found(key[c]) # {}
    <3>1. Go(c, "saveunmark") /\ Keep(c, Unmarked(c)) /\ UNCHANGED phase
      BY <1>17, <2>1 DEF MarkVolumeUnused
    <3>2. pc'[c] = "saveunmark" /\ copy'[c] = Unmarked(c)
      BY <1>0, <3>1 DEF Go, Keep
    <3>3. \A v \in reg : \E w \in Unmarked(c) : v.name = w.name /\ v.used \ {c} \subseteq w.used
      BY <1>0, UnmarkedKeeps
    <3>4. ~Using(c)
      BY <1>0, <2>0 DEF VolumeInvariant, PhaseFits, Using
    <3>5. ListsUsers(copy[c])'
      BY <1>3, <1>5, <3>1, <3>2, <3>3, <3>4 DEF ListsUsers, Lists
    <3>6. Good
      BY <1>3, <1>5, <2>0, <3>1, <3>2, <3>5 DEF Good, ListsUsers, Lists, UsersListed, UpFit
    <3>7. QED
      BY <1>1, <2>0, <3>1, <3>6
  <2>2. CASE Found(key[c]) = {}
    BY <1>3, <1>16, <1>17, <2>0, <2>2 DEF MarkVolumeUnused
  <2>3. QED
    BY <2>1, <2>2
<1>18. CASE SaveUnmark(c)
  <2>1. pc[c] = "saveunmark" /\ reg' = copy[c] /\ AfterUnmark(c) /\ UNCHANGED <<data, alone>>
    BY <1>18 DEF SaveUnmark, Save
  <2>2. ListsUsers(copy[c])
    BY <1>0, <1>3, <2>1 DEF UsersListed, SavePc
  <2>3. QED
    BY <1>16, <2>1, <2>2
<1>19. QED
  BY <1>7, <1>8, <1>9, <1>10, <1>11, <1>12, <1>13, <1>14, <1>15, <1>17, <1>18 DEF CtrStep

LEMMA SerialClientStep ==
  ASSUME VolumeInvariant, VolumesKnown, NamedOwnPath, SerialVolumes, NEW a \in Clients,
         ClientStep(a), alone'
  PROVE  SerialVolumes'
<1> DEFINE Good == /\ ListsUsers(reg)'
                   /\ (pc[a] \in SavePc => ListsUsers(copy[a]))'
                   /\ (\A c \in Ctrs : Using(c) => VolOf[c].path \in data)'
                   /\ (pc[a] \in DeletePc =>
                        \A c \in Ctrs : Using(c) => vol[a].path # VolOf[c].path)'
<1>0. /\ a \in Actors /\ Ctrs \subseteq Actors /\ Clients \subseteq Actors /\ a \notin Ctrs
      /\ reg \subseteq Entry /\ copy \in [Actors -> SUBSET Entry]
      /\ pc \in [Actors -> CtrPc \union ClientPc] /\ vol \in [Clients -> VolKey]
  BY ActorsAssumption DEF VolumeInvariant, TypeOK, Actors, VolKey
<1>1. ASSUME NEW label, Go(a, label), (pc[a] # "out" /\ alone' = alone) \/ Enter(a), Good
      PROVE  SerialVolumes'
  <2>1. /\ OneInside'
        /\ \A b \in Actors : b # a => pc'[b] = "out"
    BY <1>0, <1>1, Solo DEF SerialVolumes
  <2>2. UsersListed'
    BY <1>1, <2>1 DEF UsersListed, SavePc
  <2>3. UpFits'
    BY <1>0, <2>1 DEF UpFits, UpFit
  <2>4. DeletesUnused'
    BY <1>0, <1>1, <2>1 DEF DeletesUnused, DeletePc
  <2>5. QED
    BY <2>1, <2>2, <2>3, <2>4 DEF SerialVolumes
<1>2. alone /\ phase' = phase
  BY DEF ClientStep, Delete, FindForDelete, UnregisterVolume, SaveUnregister, RemoveData,
         Restore, SaveRestore, Enter
<1>3. /\ UsersListed /\ ListsUsers(reg)
      /\ pc[a] \in DeletePc => \A c \in Ctrs : Using(c) => vol[a].path # VolOf[c].path
  BY <1>2 DEF SerialVolumes, DeletesUnused, UsersListed
<1>4. \A c \in Ctrs : Using(c)' <=> Using(c)
  BY <1>2 DEF Using, Named
<1> HIDE DEF Good
<1>5. CASE Delete(a)
  <2>1. Enter(a) /\ Go(a, "find") /\ UNCHANGED <<reg, data, copy, vol>>
    BY <1>5 DEF Delete
  <2>2. pc'[a] = "find"
    BY <1>0, <2>1 DEF Go
  <2>3. Good
    BY <1>3, <1>4, <2>1, <2>2 DEF Good, ListsUsers, Lists, SavePc, DeletePc, UsersListed
  <2>4. QED
    BY <1>1, <2>1, <2>3
<1>6. CASE FindForDelete(a)
  <2>0. pc[a] = "find" /\ UNCHANGED <<reg, data, copy, alone>>
    BY <1>6 DEF FindForDelete
  <2>1. ASSUME NEW v \in reg, v.used = {}, Go(a, "unregister"),
               vol' = [vol EXCEPT ![a] = [name |-> v.name, path |-> v.path]]
        PROVE  SerialVolumes'
    <3>1. pc'[a] = "unregister" /\ vol'[a].path = v.path
      BY <1>0, <2>1 DEF Go
    <3>2. ASSUME NEW c \in Ctrs, Using(c), v.path = VolOf[c].path PROVE FALSE
      <4>1. PICK d \in Ctrs : v.name = VolOf[d].name /\ v.path = VolOf[d].path
        BY DEF VolumesKnown, KnownIn
      <4>2. v.name = VolOf[c].name
        BY <3>2, <4>1 DEF NamedOwnPath, Using
      <4>3. PICK w \in reg : w.name = VolOf[c].name /\ c \in w.used
        BY <1>3, <3>2 DEF ListsUsers, Lists
      <4>4. v = w
        BY <4>2, <4>3 DEF VolumeInvariant, UniqueVolumes, Unique
      <4>5. QED
        BY <2>1, <4>3, <4>4
    <3>3. Good
      BY <1>3, <1>4, <2>0, <3>1, <3>2 DEF Good, ListsUsers, Lists, SavePc, UsersListed
    <3>4. QED
      BY <1>1, <2>0, <2>1, <3>3
  <2>2. ASSUME Go(a, "out"), UNCHANGED vol PROVE SerialVolumes'
    <3>1. pc'[a] = "out"
      BY <1>0, <2>2 DEF Go
    <3>2. Good
      BY <1>3, <1>4, <2>0, <3>1 DEF Good, ListsUsers, Lists, SavePc, DeletePc, UsersListed
    <3>3. QED
      BY <1>1, <2>0, <2>2, <3>2
  <2>3. QED
    BY <1>6, <2>1, <2>2 DEF FindForDelete, Found
<1>7. CASE UnregisterVolume(a)
  <2>0. pc[a] = "unregister" /\ UNCHANGED <<reg, data, vol, alone>>
    BY <1>7 DEF UnregisterVolume
  <2>1. CASE Go(a, "out") /\ UNCHANGED copy
    <3>1. pc'[a] = "out"
      BY <1>0, <2>1 DEF Go
    <3>2. Good
      BY <1>3, <1>4, <2>0, <2>1, <3>1 DEF Good, ListsUsers, Lists, SavePc, DeletePc, UsersListed
    <3>3. QED
      BY <1>1, <2>0, <2>1, <3>2
  <2>2. CASE ~(Go(a, "out") /\ UNCHANGED copy)
    <3>1. /\ Go(a, "saveunregister") /\ Keep(a, reg \ Found(key[a]))
          /\ \A v \in Found(key[a]) : v.used = {}
      BY <1>7, <2>2 DEF UnregisterVolume
    <3>2. pc'[a] = "saveunregister" /\ copy'[a] = reg \ Found(key[a])
      BY <1>0, <3>1 DEF Go, Keep
    <3>3. ListsUsers(copy[a])'
      BY <1>3, <1>4, <3>1, <3>2 DEF ListsUsers, Lists
    <3>4. pc[a] \in DeletePc
      BY <2>0 DEF DeletePc
    <3>5. Good
      BY <1>3, <1>4, <2>0, <3>2, <3>3, <3>4 DEF Good, ListsUsers, Lists, UsersListed
    <3>6. QED
      BY <1>1, <2>0, <3>1, <3>5
  <2>3. QED
    BY <2>1, <2>2
<1>8. CASE SaveUnregister(a)
  <2>1. /\ pc[a] = "saveunregister" /\ Go(a, "remove") /\ reg' = copy[a]
        /\ UNCHANGED <<data, vol, alone>>
    BY <1>8 DEF SaveUnregister, Save
  <2>2. pc'[a] = "remove"
    BY <1>0, <2>1 DEF Go
  <2>3. ListsUsers(copy[a]) /\ pc[a] \in DeletePc
    BY <1>0, <1>3, <2>1 DEF UsersListed, SavePc, DeletePc
  <2>4. Good
    BY <1>3, <1>4, <2>1, <2>2, <2>3 DEF Good, ListsUsers, Lists, SavePc, UsersListed
  <2>5. QED
    BY <1>1, <2>1, <2>4
<1>9. CASE RemoveData(a)
  <2>0. pc[a] = "remove" /\ pc[a] \in DeletePc /\ UNCHANGED <<reg, copy, vol, alone>>
    BY <1>9 DEF RemoveData, DeletePc
  <2>1. PICK label \in {"out", "restore"} : Go(a, label)
    BY <1>9 DEF RemoveData
  <2>2. pc'[a] = label
    BY <1>0, <2>1 DEF Go
  <2>3. data' = data \ {vol[a].path} \/ data' = data
    BY <1>9 DEF RemoveData
  <2>4. \A c \in Ctrs : Using(c)' => VolOf[c].path \in data'
    BY <1>3, <1>4, <2>0, <2>3 DEF UsersListed
  <2>5. Good
    BY <1>3, <1>4, <2>0, <2>2, <2>4 DEF Good, ListsUsers, Lists, SavePc
  <2>6. QED
    BY <1>1, <2>0, <2>1, <2>5
<1>10. CASE Restore(a)
  <2>0. pc[a] = "restore" /\ pc[a] \in DeletePc /\ UNCHANGED <<reg, data, vol, alone>>
    BY <1>10 DEF Restore, DeletePc
  <2>1. CASE Go(a, "out") /\ UNCHANGED copy
    <3>1. pc'[a] = "out"
      BY <1>0, <2>1 DEF Go
    <3>2. Good
      BY <1>3, <1>4, <2>0, <2>1, <3>1 DEF Good, ListsUsers, Lists, SavePc, UsersListed
    <3>3. QED
      BY <1>1, <2>0, <2>1, <3>2
  <2>2. CASE ~(Go(a, "out") /\ UNCHANGED copy)
    <3>1. Go(a, "saverestore") /\ Keep(a, reg \union {Fresh(vol[a])})
      BY <1>10, <2>2 DEF Restore
    <3>2. pc'[a] = "saverestore" /\ copy'[a] = reg \union {Fresh(vol[a])}
      BY <1>0, <3>1 DEF Go, Keep
    <3>3. ListsUsers(copy[a])'
      BY <1>3, <1>4, <3>2 DEF ListsUsers, Lists
    <3>4. Good
      BY <1>3, <1>4, <2>0, <3>2, <3>3 DEF Good, ListsUsers, Lists, UsersListed
    <3>5. QED
      BY <1>1, <2>0, <3>1, <3>4
  <2>3. QED
    BY <2>1, <2>2
<1>11. CASE SaveRestore(a)
  <2>1. /\ pc[a] = "saverestore" /\ Go(a, "out") /\ reg' = copy[a]
        /\ UNCHANGED <<data, vol, alone>>
    BY <1>11 DEF SaveRestore, Save
  <2>2. pc'[a] = "out"
    BY <1>0, <2>1 DEF Go
  <2>3. ListsUsers(copy[a])
    BY <1>0, <1>3, <2>1 DEF UsersListed, SavePc
  <2>4. Good
    BY <1>3, <1>4, <2>1, <2>2, <2>3 DEF Good, ListsUsers, Lists, SavePc, DeletePc, UsersListed
  <2>5. QED
    BY <1>1, <2>1, <2>4
<1>12. QED
  BY <1>5, <1>6, <1>7, <1>8, <1>9, <1>10, <1>11 DEF ClientStep

LEMMA SerialInitially == Init => VolumesKnown /\ SerialVolumes
BY ActorsAssumption
DEF Init, VolumesKnown, KnownIn, SerialVolumes, OneInside, Inside, UsersListed, ListsUsers, Lists,
    Using, UpFits, UpFit, DeletesUnused, DeletePc, SavePc, Actors

LEMMA SerialPreserved ==
  ASSUME VolumeInvariant, VolumesKnown, NamedOwnPath, SerialVolumes, [Next]_vars
  PROVE  SerialVolumes'
<1>1. CASE ~alone'
  BY <1>1 DEF SerialVolumes
<1>2. CASE alone' /\ \E c \in Ctrs : CtrStep(c)
  BY <1>2, SerialCtrStep
<1>3. CASE alone' /\ \E a \in Clients : ClientStep(a)
  BY <1>3, SerialClientStep
<1>4. CASE UNCHANGED vars
  BY <1>4
  DEF vars, SerialVolumes, OneInside, Inside, UsersListed, ListsUsers, Lists, Using, UpFits,
      UpFit, HasName, Named, DeletesUnused
<1>5. QED
  BY <1>1, <1>2, <1>3, <1>4 DEF Next

(* When no host volume is a named volume's directory: as long as requests have  *)
(* come one at a time, a running container of a named volume is listed as its   *)
(* user, and the directory is there                                             *)
THEOREM NamedUsersAreTracked ==
  ASSUME NamedOwnPath PROVE Spec => []NamedUseIsTracked
<1> DEFINE Inv == VolumeInvariant /\ VolumesKnown /\ SerialVolumes
<1>1. Init => Inv
  BY VolumesInitially, SerialInitially
<1>2. Inv /\ [Next]_vars => Inv'
  BY VolumesPreserved, KnownPreserved, SerialPreserved
<1>3. Inv => NamedUseIsTracked
  <2>1. SUFFICES ASSUME Inv, alone, NEW c \in Ctrs, Using(c)
                 PROVE  \E v \in Found(KeyOf(c)) : c \in v.used /\ v.path \in data
    BY DEF NamedUseIsTracked, Using, Named
  <2>2. VolOf[c].path \in data
    BY <2>1 DEF SerialVolumes, UsersListed
  <2>3. PICK v \in reg : v.name = VolOf[c].name /\ c \in v.used
    BY <2>1 DEF SerialVolumes, UsersListed, ListsUsers, Lists
  <2>4. PICK d \in Ctrs : v.name = VolOf[d].name /\ v.path = VolOf[d].path
    BY <2>1 DEF VolumesKnown, KnownIn
  <2>5. v.path = VolOf[c].path
    BY <2>1, <2>3, <2>4 DEF NamedOwnPath, Using
  <2>6. Match(v, KeyOf(c))
    BY <2>1, <2>3 DEF Match, KeyOf, ByName, Using, Named
  <2>7. QED
    BY <2>2, <2>3, <2>5, <2>6 DEF Found
<1>4. QED
  BY <1>1, <1>2, <1>3, PTL DEF Spec
===============================================================================
