--------------------------- MODULE ImageStoreProofs ---------------------------
(* Theorems about ImageStore for any containers, clients and number of layers,  *)
(* requests and deaths, with and without failing pulls.                         *)
EXTENDS ImageStore, TLAPS

LEMMA Layering ==
  /\ Layers \in Nat /\ Layers # 0
  /\ 1 \in Image /\ Image # {} /\ Image # Absent
  /\ {} \in Dir /\ Absent \in Dir
  /\ Absent # {}
<1>1. Layers \in Nat /\ Layers # 0
  BY BoundsAssumption
<1>2. 1 \in Image
  BY <1>1 DEF Image
<1>3. \A s \in SUBSET Image : s # Absent
  BY AbsentAssumption
<1>4. Image \in SUBSET Image /\ {} \in SUBSET Image
  OBVIOUS
<1>5. QED
  BY <1>1, <1>2, <1>3, <1>4 DEF Dir

LEMMA Roles ==
  /\ \A a \in Fetchers : a \notin Deleters
  /\ Ctrs \subseteq Fetchers /\ Fetchers \subseteq Actors /\ Deleters \subseteq Actors
BY ActorsAssumption DEF Fetchers, Actors

(* A pull that meets no other: from its look for the lock on the image is not   *)
(* there, and the tmp directory has the layers before the one it extracts next  *)
Before(n) == {m \in Image : m < n}

PullStage(label, dir, work, n) ==
  /\ label \in {"locked", "lock", "clear", "mkdir", "extract", "rename"} => dir = Absent
  /\ label = "mkdir" => work = Absent
  /\ label = "extract" => work = Before(n)
  /\ label = "rename" => work = Image

LonePull ==
  /\ \A a, b \in Fetching : a = b
  /\ \A a \in Fetchers : PullStage(pc[a], final, tmp, next[a])

ImageInvariant == TypeOK /\ (alone => LonePull)

LEMMA ImagesInitially == Init => ImageInvariant
<1> SUFFICES ASSUME Init PROVE ImageInvariant
  OBVIOUS
<1>1. TypeOK
  <2>1. pc \in [Actors -> Pc] /\ next \in [Fetchers -> Image] /\ failed \in [Fetchers -> BOOLEAN]
    BY Layering DEF Init, Pc, FetchPc
  <2>2. fetches \in 0..MaxFetches /\ crashes \in 0..MaxCrashes
    BY BoundsAssumption DEF Init
  <2>3. QED
    BY <2>1, <2>2, Layering DEF Init, TypeOK
<1>2. LonePull
  BY Roles DEF Init, LonePull, PullStage, Fetching
<1>3. QED
  BY <1>1, <1>2 DEF ImageInvariant

(* What each step of a request leaves of the types                              *)
LEMMA ImageTypes == TypeOK /\ [Next]_vars => TypeOK'
<1> SUFFICES ASSUME TypeOK, [Next]_vars PROVE TypeOK'
  OBVIOUS
<1> USE Layering, Roles, BoundsAssumption
    DEF TypeOK, Dir, Pc, FetchPc, Go, Outcome, AfterFetch, Stored, disk
<1>1. ASSUME NEW a \in Fetchers, Fetch(a) PROVE TypeOK'
  BY <1>1 DEF Fetch
<1>2. ASSUME NEW a \in Fetchers, StatImage(a) \/ StatLock(a) \/ CreateLock(a) \/ ClearTmp(a)
      PROVE  TypeOK'
  BY <1>2 DEF StatImage, StatLock, CreateLock, ClearTmp
<1>3. ASSUME NEW a \in Fetchers, MakeTmp(a) PROVE TypeOK'
  BY <1>3 DEF MakeTmp
<1>4. ASSUME NEW a \in Fetchers, ExtractLayer(a) PROVE TypeOK'
  <2>1. next[a] \in Image /\ (next[a] # Layers => next[a] + 1 \in Image)
    BY DEF Image
  <2>2. QED
    BY <1>4, <2>1 DEF ExtractLayer
<1>5. ASSUME NEW a \in Fetchers, Rename(a) \/ Unlock(a) \/ RemoveTmp(a) PROVE TypeOK'
  BY <1>5 DEF Rename, Unlock, RemoveTmp
<1>6. ASSUME NEW c \in Ctrs, Use(c) PROVE TypeOK'
  BY <1>6 DEF Use, Mount, Persist, Unmount, Unlist
<1>7. ASSUME NEW a \in Deleters, Delete(a) PROVE TypeOK'
  BY <1>7 DEF Delete, DeleteRequest, ListUsers, DeleteFiles, DeleteDir
<1>8. CASE Crash
  BY <1>8 DEF Crash
<1>9. CASE UNCHANGED vars
  BY <1>9 DEF vars
<1>10. QED
  BY <1>1, <1>2, <1>3, <1>4, <1>5, <1>6, <1>7, <1>8, <1>9 DEF Next, Pull

(* The one pull there is takes a step                                           *)
LEMMA LoneStep ==
  ASSUME TypeOK, LonePull, NEW a \in Fetching, NEW label,
         pc' = [pc EXCEPT ![a] = label], PullStage(label, final', tmp', next'[a])
  PROVE  LonePull'
<1> USE Roles DEF TypeOK
<1>1. \A b \in Fetchers : b # a => pc'[b] = pc[b] /\ pc[b] \notin FetchPc \ {"idle"}
  BY DEF LonePull, Fetching
<1>2. \A b \in Fetchers : b # a => PullStage(pc'[b], final', tmp', next'[b])
  BY <1>1 DEF PullStage, FetchPc
<1>3. pc'[a] = label
  BY DEF Fetching
<1>4. \A b, d \in Fetching' : b = d
  BY <1>1 DEF Fetching
<1>5. QED
  BY <1>2, <1>3, <1>4 DEF LonePull

(* A step of somebody else leaves the pull where it is                          *)
LEMMA OtherStep ==
  ASSUME TypeOK, LonePull,
         \A a \in Fetchers : pc'[a] = pc[a] \/ pc'[a] \notin FetchPc \ {"idle"},
         final' = final \/ (final' # final /\ final # Absent), UNCHANGED <<tmp, next>>
  PROVE  LonePull'
<1>1. \A a \in Fetchers : PullStage(pc'[a], final', tmp', next'[a])
  BY DEF LonePull, PullStage, FetchPc
<1>2. \A a, b \in Fetching' : a = b
  BY DEF LonePull, Fetching
<1>3. QED
  BY <1>1, <1>2 DEF LonePull

LEMMA LonePreserved ==
  TypeOK /\ (alone => LonePull) /\ [Next]_vars => (alone => LonePull)'
<1> SUFFICES ASSUME TypeOK, alone => LonePull, [Next]_vars, alone' PROVE LonePull'
  OBVIOUS
<1> USE Layering, Roles
<1>1. ASSUME NEW a \in Fetchers, Fetch(a) PROVE LonePull'
  <2>1. alone /\ Fetching = {}
    BY <1>1 DEF Fetch
  <2>2. pc' = [pc EXCEPT ![a] = "stat"]
    BY <1>1 DEF Fetch, Go
  <2>3. \A b \in Fetchers \ {a} : pc'[b] = pc[b] /\ pc[b] \notin FetchPc \ {"idle"}
    BY <2>1, <2>2 DEF Fetching, TypeOK
  <2>4. pc'[a] = "stat"
    BY <2>2 DEF TypeOK
  <2>5. \A b \in Fetchers : PullStage(pc'[b], final', tmp', next'[b])
    BY <2>3, <2>4 DEF PullStage, FetchPc
  <2>6. \A b, d \in Fetching' : b = d
    BY <2>3 DEF Fetching
  <2>7. QED
    BY <2>5, <2>6 DEF LonePull
<1>2. ASSUME NEW a \in Fetchers, Pull(a), ~Fetch(a) PROVE LonePull'
  <2> USE DEF Go, AfterFetch, PullStage, disk
  <2>0. /\ alone /\ LonePull
        /\ a \in Fetching
        /\ PullStage(pc[a], final, tmp, next[a])
    <3>1. alone' = alone
      BY <1>2 DEF Pull, StatImage, StatLock, CreateLock, ClearTmp, MakeTmp, ExtractLayer, Rename,
                  Unlock, RemoveTmp
    <3>2. a \in Fetching
      BY <1>2 DEF Fetching, FetchPc, Pull, StatImage, StatLock, CreateLock, ClearTmp, MakeTmp,
                  ExtractLayer, Rename, Unlock, RemoveTmp
    <3>3. QED
      BY <3>1, <3>2 DEF LonePull
  <2>1. CASE StatImage(a)
    <3>1. PICK label : /\ pc' = [pc EXCEPT ![a] = label]
                       /\ label = IF final # Absent THEN AfterFetch(a) ELSE "locked"
      BY <2>1 DEF StatImage
    <3>2. QED
      BY <2>0, <2>1, <3>1, LoneStep DEF StatImage
  <2>2. CASE StatLock(a)
    <3>1. PICK label \in {"idle", "lock"} : pc' = [pc EXCEPT ![a] = label]
      BY <2>2 DEF StatLock
    <3>2. QED
      BY <2>0, <2>2, <3>1, LoneStep DEF StatLock
  <2>3. CASE CreateLock(a)
    BY <2>0, <2>3, LoneStep DEF CreateLock
  <2>4. CASE ClearTmp(a)
    BY <2>0, <2>4, LoneStep DEF ClearTmp
  <2>5. CASE MakeTmp(a)
    <3>1. tmp' = {} /\ next'[a] = 1 /\ final' = Absent
      BY <2>0, <2>5 DEF MakeTmp, Stored, TypeOK
    <3>2. Before(1) = {}
      BY DEF Before, Image
    <3>3. QED
      BY <2>0, <2>5, <3>1, <3>2, LoneStep DEF MakeTmp
  <2>6. CASE ExtractLayer(a)
    <3>1. next[a] \in Image /\ tmp = Before(next[a]) /\ final = Absent /\ final' = final
      BY <2>0, <2>6 DEF ExtractLayer, TypeOK
    <3>2. CASE Go(a, "unlock")
      BY <2>0, <3>2, LoneStep
    <3>3. CASE ~Go(a, "unlock")
      <4>1. /\ tmp' = tmp \union {next[a]}
            /\ next'[a] = IF next[a] = Layers THEN 1 ELSE next[a] + 1
            /\ pc' = [pc EXCEPT ![a] = IF next[a] = Layers THEN "rename" ELSE "extract"]
        <5>1. tmp # Absent
          BY <3>1, AbsentAssumption DEF Before
        <5>2. QED
          BY <2>6, <3>3, <5>1 DEF ExtractLayer, Stored, TypeOK
      <4>2. Before(next[a]) \union {next[a]} = IF next[a] = Layers THEN Image ELSE Before(next[a] + 1)
        BY <3>1 DEF Before, Image
      <4>3. CASE next[a] = Layers
        BY <2>0, <3>1, <4>1, <4>2, <4>3, LoneStep
      <4>4. CASE next[a] # Layers
        BY <2>0, <3>1, <4>1, <4>2, <4>4, LoneStep
      <4>5. QED
        BY <4>3, <4>4
    <3>4. QED
      BY <3>2, <3>3
  <2>7. CASE Rename(a)
    BY <2>0, <2>7, LoneStep DEF Rename
  <2>8. CASE Unlock(a)
    <3>1. PICK label \in {"removetmp", "mount", "idle"} : pc' = [pc EXCEPT ![a] = label]
      BY <2>8 DEF Unlock
    <3>2. QED
      BY <2>0, <3>1, LoneStep
  <2>9. CASE RemoveTmp(a)
    BY <2>0, <2>9, LoneStep DEF RemoveTmp
  <2>10. QED
    BY <1>2, <2>1, <2>2, <2>3, <2>4, <2>5, <2>6, <2>7, <2>8, <2>9 DEF Pull
<1>3. ASSUME NEW c \in Ctrs, Use(c) PROVE LonePull'
  <2>1. /\ alone' = alone /\ UNCHANGED <<final, tmp, next>>
        /\ \E label \in {"idle", "persist", "run"} : pc' = [pc EXCEPT ![c] = label] \/ pc' = pc
    BY <1>3 DEF Use, Mount, Persist, Unmount, Unlist, Go, disk
  <2>2. \A a \in Fetchers : pc'[a] = pc[a] \/ pc'[a] \notin FetchPc \ {"idle"}
    BY <2>1 DEF TypeOK, FetchPc
  <2>3. QED
    BY <2>1, <2>2, OtherStep
<1>4. ASSUME NEW d \in Deleters, Delete(d) PROVE LonePull'
  <2>1. /\ alone' = alone /\ UNCHANGED <<tmp, next>>
        /\ final' = final \/ (final' # final /\ final # Absent)
        /\ \E label : pc' = [pc EXCEPT ![d] = label]
    BY <1>4 DEF Delete, DeleteRequest, ListUsers, DeleteFiles, DeleteDir, Go, disk
  <2>2. \A a \in Fetchers : pc'[a] = pc[a]
    BY <2>1 DEF TypeOK
  <2>3. QED
    BY <2>1, <2>2, OtherStep
<1>5. CASE Crash
  <2>1. \A a \in Fetchers : pc'[a] \notin FetchPc \ {"idle"}
    BY <1>5 DEF Crash, FetchPc
  <2>2. QED
    BY <2>1 DEF LonePull, PullStage, Fetching, FetchPc
<1>6. CASE UNCHANGED vars
  BY <1>6, OtherStep DEF vars
<1>7. QED
  BY <1>1, <1>2, <1>3, <1>4, <1>5, <1>6 DEF Next

(* The invariant behind the theorems below                                      *)
THEOREM ImageInvariantHolds == Spec => []ImageInvariant
<1>1. ImageInvariant /\ [Next]_vars => ImageInvariant'
  BY ImageTypes, LonePreserved DEF ImageInvariant
<1>2. QED
  BY <1>1, ImagesInitially, PTL DEF Spec

(* Directories, lock and requests keep their types                              *)
THEOREM ImagesTypeCorrect == Spec => []TypeOK
BY ImageInvariantHolds, PTL DEF ImageInvariant

(* Who changes the directory of an image: a pull with its rename, a deletion    *)
LEMMA FinalWriters ==
  ASSUME TypeOK, Next, final' # final
  PROVE  \/ \E a \in Fetchers : Rename(a)
         \/ \E a \in Deleters : DeleteFiles(a) \/ DeleteDir(a)
BY DEF Next, Pull, Use, Delete, Fetch, StatImage, StatLock, CreateLock, ClearTmp, MakeTmp, ExtractLayer,
       Unlock, RemoveTmp, Mount, Persist, Unmount, Unlist, DeleteRequest, ListUsers, Crash, disk

(* As long as requests for the image have come one at a time a pull publishes   *)
(* the whole image, whatever fails, dies or is deleted                          *)
THEOREM LonePullsAreComplete == Spec => LonePullIsComplete
<1> DEFINE Whole == \A a \in Fetchers :
              alone /\ pc[a] = "rename" /\ final' # final => final' = Image
<1>1. ImageInvariant /\ [Next]_vars => [Whole]_vars
  <2> SUFFICES ASSUME ImageInvariant, Next, NEW a \in Fetchers, alone, pc[a] = "rename", final' # final
               PROVE  final' = Image
    OBVIOUS
  <2>1. final = Absent
    BY DEF ImageInvariant, LonePull, PullStage
  <2>2. ~\E d \in Deleters : DeleteFiles(d) \/ DeleteDir(d)
    BY <2>1 DEF DeleteFiles, DeleteDir
  <2>3. PICK b \in Fetchers : Rename(b)
    BY <2>2, FinalWriters DEF ImageInvariant
  <2>4. final' = tmp /\ pc[b] = "rename"
    BY <2>3 DEF Rename
  <2>5. QED
    BY <2>4 DEF ImageInvariant, LonePull, PullStage
<1>2. QED
  BY <1>1, ImageInvariantHolds, PTL DEF Spec, LonePullIsComplete

(* A whole image stays whole until a deletion begins, however pulls overlap     *)
THEOREM PublishedStaysWhole == Spec => PublishedIsStable
<1> DEFINE Stable == final = Image /\ (\A a \in Deleters : pc[a] \notin {"delete", "deleting"})
                       => final' = Image
<1>1. ImageInvariant /\ [Next]_vars => [Stable]_vars
  <2> SUFFICES ASSUME ImageInvariant, Next, final = Image, final' # final,
                      \A a \in Deleters : pc[a] \notin {"delete", "deleting"}
               PROVE  FALSE
    OBVIOUS
  <2>1. ~\E d \in Deleters : DeleteFiles(d) \/ DeleteDir(d)
    BY DEF DeleteFiles, DeleteDir
  <2>2. PICK b \in Fetchers : Rename(b)
    BY <2>1, FinalWriters DEF ImageInvariant
  <2>3. QED
    BY <2>2, Layering DEF Rename
<1>2. QED
  BY <1>1, ImageInvariantHolds, PTL DEF Spec, PublishedIsStable
===============================================================================
