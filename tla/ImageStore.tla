----------------------------- MODULE ImageStore -----------------------------
(* One image on disk: PullImage (api/image.go), called by UP and by          *)
(* IMAGE_PULL, IMAGE_DELETE (image/delete.go), and the containers that use   *)
(* the image as the lower layer of their overlay.  A pull is kept from       *)
(* another by a lock file, and publishes its work by a rename.               *)
EXTENDS Integers, FiniteSets

CONSTANTS
  Ctrs,        \* goroutines serving an UP for the image
  Pullers,     \* goroutines serving IMAGE_PULL
  Deleters,    \* goroutines serving IMAGE_DELETE
  Layers,      \* number of the image's layers
  Absent,      \* no such directory
  PullFaults,  \* the registry or the disk may fail a pull
  MaxCrashes,  \* bound on the number of daemon deaths
  MaxFetches   \* bound on the requests that want the image

Fetchers == Ctrs \union Pullers
Actors == Fetchers \union Deleters
Image == 1..Layers

ASSUME ActorsAssumption ==
  /\ Ctrs \intersect (Pullers \union Deleters) = {}
  /\ Pullers \intersect Deleters = {}
ASSUME BoundsAssumption ==
  /\ Layers \in Nat \ {0}
  /\ {MaxCrashes, MaxFetches} \subseteq Nat
  /\ PullFaults \in BOOLEAN
ASSUME AbsentAssumption == \A s \in SUBSET Image : s # Absent

VARIABLES
  final,    \* the layers in the image's directory, or Absent
  tmp,      \* the layers in <image>.tmp, or Absent
  lock,     \* <image>.lock exists
  pc,       \* what each goroutine does next
  next,     \* the layer a pull extracts next
  failed,   \* the pull ends in an error
  mounted,  \* containers whose overlay has the image below it
  listed,   \* containers with a container.json
  fetches,  \* requests for the image so far
  crashes,  \* daemon deaths so far
  alone     \* history: no two requests have ever wanted the image at one time

vars == <<final, tmp, lock, pc, next, failed, mounted, listed, fetches, crashes, alone>>
disk == <<final, tmp, lock>>

FetchPc == {"idle", "stat", "locked", "lock", "clear", "mkdir", "extract",
            "rename", "unlock", "removetmp"}
Pc == FetchPc \union {"mount", "persist", "run", "list", "delete", "deleting"}

Init ==
  /\ final = Absent
  /\ tmp = Absent
  /\ lock = FALSE
  /\ pc = [a \in Actors |-> "idle"]
  /\ next = [a \in Fetchers |-> 1]
  /\ failed = [a \in Fetchers |-> FALSE]
  /\ mounted = {}
  /\ listed = {}
  /\ fetches = 0
  /\ crashes = 0
  /\ alone = TRUE

Go(a, label) == pc' = [pc EXCEPT ![a] = label]
Outcome(a, bad) == failed' = [failed EXCEPT ![a] = bad]
(* A fetched image is mounted by UP; a failed fetch ends the request *)
AfterFetch(a) == IF a \in Ctrs THEN "mount" ELSE "idle"

Fetching == {a \in Fetchers : pc[a] \in FetchPc \ {"idle"}}

Fetch(a) ==
  /\ pc[a] = "idle"
  /\ fetches < MaxFetches
  /\ fetches' = fetches + 1
  /\ Go(a, "stat")
  /\ alone' = (alone /\ Fetching = {})
  /\ UNCHANGED <<disk, next, failed, mounted, listed, crashes>>

(* ensureImage, image.Pull and PullImage all begin by looking for the image *)
StatImage(a) ==
  /\ pc[a] = "stat"
  /\ Go(a, IF final # Absent THEN AfterFetch(a) ELSE "locked")
  /\ UNCHANGED <<disk, next, failed, mounted, listed, fetches, crashes, alone>>

(* "image is currently downloading" *)
StatLock(a) ==
  /\ pc[a] = "locked"
  /\ Go(a, IF lock THEN "idle" ELSE "lock")
  /\ UNCHANGED <<disk, next, failed, mounted, listed, fetches, crashes, alone>>

(* os.WriteFile does not mind a file that is there *)
CreateLock(a) ==
  /\ pc[a] = "lock"
  /\ Go(a, "clear")
  /\ lock' = TRUE
  /\ UNCHANGED <<final, tmp, next, failed, mounted, listed, fetches, crashes, alone>>

ClearTmp(a) ==
  /\ pc[a] = "clear"
  /\ Go(a, "mkdir")
  /\ tmp' = Absent
  /\ UNCHANGED <<final, lock, next, failed, mounted, listed, fetches, crashes, alone>>

Stored == IF tmp = Absent THEN {} ELSE tmp

MakeTmp(a) ==
  /\ pc[a] = "mkdir"
  /\ Go(a, "extract")
  /\ tmp' = Stored
  /\ next' = [next EXCEPT ![a] = 1]
  /\ Outcome(a, FALSE)
  /\ UNCHANGED <<final, lock, mounted, listed, fetches, crashes, alone>>

(* Mutants: the error of a layer is dropped; the layer counter runs on *)
ExtractLayerAnyway(a) ==
  /\ pc[a] = "extract"
  /\ \/ tmp' = Stored \union {next[a]}
     \/ PullFaults /\ UNCHANGED tmp
  /\ next' = [next EXCEPT ![a] = IF @ = Layers THEN 1 ELSE @ + 1]
  /\ Go(a, IF next[a] = Layers THEN "rename" ELSE "extract")
  /\ UNCHANGED <<final, lock, failed, mounted, listed, fetches, crashes, alone>>

ExtractLayerOn(a) ==
  /\ pc[a] = "extract"
  /\ tmp' = Stored \union {next[a]}
  /\ next' = [next EXCEPT ![a] = @ + 1]
  /\ Go(a, IF next[a] = Layers THEN "rename" ELSE "extract")
  /\ UNCHANGED <<final, lock, failed, mounted, listed, fetches, crashes, alone>>

(* extractLayer makes the directories it needs, whoever removed them *)
ExtractLayer(a) ==
  /\ pc[a] = "extract"
  /\ \/ /\ tmp' = Stored \union {next[a]}
        /\ next' = [next EXCEPT ![a] = IF @ = Layers THEN 1 ELSE @ + 1]
        /\ Go(a, IF next[a] = Layers THEN "rename" ELSE "extract")
        /\ UNCHANGED failed
     \/ /\ PullFaults
        /\ Outcome(a, TRUE)
        /\ Go(a, "unlock")
        /\ next' = [next EXCEPT ![a] = 1]
        /\ UNCHANGED tmp
  /\ UNCHANGED <<final, lock, mounted, listed, fetches, crashes, alone>>

(* Mutant: what is there is replaced *)
RenameOver(a) ==
  /\ pc[a] = "rename"
  /\ Go(a, "unlock")
  /\ IF tmp # Absent
       THEN final' = tmp /\ tmp' = Absent /\ Outcome(a, FALSE)
       ELSE UNCHANGED <<final, tmp>> /\ Outcome(a, TRUE)
  /\ UNCHANGED <<lock, next, mounted, listed, fetches, crashes, alone>>

(* rename(2) needs its source, and fails on a directory that is not empty *)
Rename(a) ==
  /\ pc[a] = "rename"
  /\ Go(a, "unlock")
  /\ IF tmp # Absent /\ final \in {Absent, {}}
       THEN final' = tmp /\ tmp' = Absent /\ Outcome(a, FALSE)
       ELSE UNCHANGED <<final, tmp>> /\ Outcome(a, TRUE)
  /\ UNCHANGED <<lock, next, mounted, listed, fetches, crashes, alone>>

(* The deferred function: the lock goes first, then, after an error, the tmp *)
Unlock(a) ==
  /\ pc[a] = "unlock"
  /\ lock' = FALSE
  /\ Go(a, IF failed[a] THEN "removetmp" ELSE AfterFetch(a))
  /\ UNCHANGED <<final, tmp, next, failed, mounted, listed, fetches, crashes, alone>>

RemoveTmp(a) ==
  /\ pc[a] = "removetmp"
  /\ tmp' = Absent
  /\ Outcome(a, FALSE)
  /\ Go(a, "idle")
  /\ UNCHANGED <<final, lock, next, mounted, listed, fetches, crashes, alone>>

Pull(a) ==
  \/ Fetch(a) \/ StatImage(a) \/ StatLock(a) \/ CreateLock(a) \/ ClearTmp(a)
  \/ MakeTmp(a) \/ ExtractLayer(a) \/ Rename(a) \/ Unlock(a) \/ RemoveTmp(a)

(***************************************************************************)
(* A container: setup mounts the image, run() lists the container when its  *)
(* process has started, down() undoes both.                                 *)
(***************************************************************************)
Mount(c) ==
  /\ pc[c] = "mount"
  /\ IF final = Absent
       THEN Go(c, "idle") /\ UNCHANGED mounted
       ELSE Go(c, "persist") /\ mounted' = mounted \union {c}
  /\ UNCHANGED <<disk, next, failed, listed, fetches, crashes, alone>>

Persist(c) ==
  /\ pc[c] = "persist"
  /\ Go(c, "run")
  /\ listed' = listed \union {c}
  /\ UNCHANGED <<disk, next, failed, mounted, fetches, crashes, alone>>

(* umount comes before the removal of the record *)
Unmount(c) ==
  /\ pc[c] = "run"
  /\ c \in mounted
  /\ mounted' = mounted \ {c}
  /\ UNCHANGED <<disk, pc, next, failed, listed, fetches, crashes, alone>>

Unlist(c) ==
  /\ pc[c] = "run"
  /\ c \notin mounted
  /\ listed' = listed \ {c}
  /\ Go(c, "idle")
  /\ UNCHANGED <<disk, next, failed, mounted, fetches, crashes, alone>>

Use(c) == Mount(c) \/ Persist(c) \/ Unmount(c) \/ Unlist(c)

(***************************************************************************)
(* IMAGE_DELETE.                                                           *)
(***************************************************************************)
DeleteRequest(a) ==
  /\ pc[a] = "idle"
  /\ Go(a, IF final = Absent THEN "idle" ELSE "list")
  /\ UNCHANGED <<disk, next, failed, mounted, listed, fetches, crashes, alone>>

ListUsers(a) ==
  /\ pc[a] = "list"
  /\ Go(a, IF listed # {} THEN "idle" ELSE "delete")
  /\ UNCHANGED <<disk, next, failed, mounted, listed, fetches, crashes, alone>>

(* os.RemoveAll takes the files first and the directory last *)
DeleteFiles(a) ==
  /\ pc[a] = "delete"
  /\ Go(a, "deleting")
  /\ final' = IF final = Absent THEN Absent ELSE {}
  /\ UNCHANGED <<tmp, lock, next, failed, mounted, listed, fetches, crashes, alone>>

DeleteDir(a) ==
  /\ pc[a] = "deleting"
  /\ Go(a, "idle")
  /\ final' = Absent
  /\ UNCHANGED <<tmp, lock, next, failed, mounted, listed, fetches, crashes, alone>>

Delete(a) == DeleteRequest(a) \/ ListUsers(a) \/ DeleteFiles(a) \/ DeleteDir(a)

(* The daemon dies and the next one cleans up: goroutines and mounts are gone, *)
(* unfinished containers too; nothing at boot looks at the image directory     *)
Crash ==
  /\ crashes < MaxCrashes
  /\ crashes' = crashes + 1
  /\ pc' = [a \in Actors |-> IF a \in listed THEN "run" ELSE "idle"]
  /\ next' = [a \in Fetchers |-> 1]
  /\ failed' = [a \in Fetchers |-> FALSE]
  /\ mounted' = mounted \intersect listed
  /\ UNCHANGED <<disk, listed, fetches, alone>>

-----------------------------------------------------------------------------
Next ==
  \/ \E a \in Fetchers : Pull(a)
  \/ \E c \in Ctrs : Use(c)
  \/ \E a \in Deleters : Delete(a)
  \/ Crash

Spec == Init /\ [][Next]_vars

-----------------------------------------------------------------------------
Dir == (SUBSET Image) \union {Absent}

TypeOK ==
  /\ final \in Dir
  /\ tmp \in Dir
  /\ lock \in BOOLEAN
  /\ pc \in [Actors -> Pc]
  /\ next \in [Fetchers -> Image]
  /\ failed \in [Fetchers -> BOOLEAN]
  /\ mounted \subseteq Ctrs
  /\ listed \subseteq Ctrs
  /\ fetches \in 0..MaxFetches
  /\ crashes \in 0..MaxCrashes
  /\ alone \in BOOLEAN

(* As long as requests for the image have come one at a time a pull does so,   *)
(* whatever fails, whenever the daemon dies or a deletion comes in between: no *)
(* error of a layer and no remainder of an earlier pull gets past the rename   *)
LonePullIsComplete ==
  [][\A a \in Fetchers :
       alone /\ pc[a] = "rename" /\ final' # final => final' = Image]_vars

(* A whole image stays whole until a deletion begins: however pulls overlap,   *)
(* they work in the tmp directory and do not rename over it                    *)
PublishedIsStable ==
  [][final = Image /\ (\A a \in Deleters : pc[a] \notin {"delete", "deleting"})
       => final' = Image]_vars
=============================================================================
