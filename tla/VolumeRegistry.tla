--------------------------- MODULE VolumeRegistry ---------------------------
(* The registry of volumes and their users (volume/volume.go), the requests  *)
(* that edit it, and the data directories behind it.  As in NameRegistry a   *)
(* mutex covers each load and each save, not the edit in between; a save is  *)
(* one step here, since no load can see it half-done while the daemon lives. *)
EXTENDS Integers, FiniteSets

CONSTANTS
  Ctrs,        \* containers, each with one volume
  Clients,     \* goroutines serving VOLUME_DELETE
  VolOf,       \* the volume of a container: a record [name, path]
  NoName,      \* the empty name of a volume given by its host path
  NoPath,
  DiskFaults,  \* os.RemoveAll of a data directory may fail
  MaxOverlap   \* bound on the requests inside the registry at one time

Actors == Ctrs \union Clients
Vols == {VolOf[c] : c \in Ctrs}

ASSUME ActorsAssumption == Ctrs \intersect Clients = {}
ASSUME VolumeAssumption ==
  /\ \A c \in Ctrs : VolOf[c] = [name |-> VolOf[c].name, path |-> VolOf[c].path]
  /\ \A c \in Ctrs : VolOf[c].path # NoPath
ASSUME BoundsAssumption == MaxOverlap \in Nat /\ DiskFaults \in BOOLEAN

VARIABLES
  reg,     \* registry.json: records [name, path, used]
  data,    \* host paths whose directory exists
  pc,      \* where in its request each goroutine is
  key,     \* the name or the path the goroutine looks its volume up by
  vol,     \* the volume a deletion has found
  copy,    \* the registry a goroutine has loaded and edited
  phase,   \* the container's life
  alone    \* history: no two requests have ever been inside at one time

vars == <<reg, data, pc, key, vol, copy, phase, alone>>

NoKey == [name |-> NoName, path |-> NoPath]
ByName(v) == [name |-> v.name, path |-> NoPath]
ByPath(v) == [name |-> NoName, path |-> v.path]
(* What setVolume, MarkVolumeUsed and MarkVolumeUnused look a volume up by *)
KeyOf(c) == IF VolOf[c].name # NoName THEN ByName(VolOf[c]) ELSE ByPath(VolOf[c])

Match(v, k) ==
  \/ k.name # NoName /\ v.name = k.name
  \/ k.path # NoPath /\ v.path = k.path
Found(k) == {v \in reg : Match(v, k)}

CtrPc == {"out", "find", "register", "saveregister", "mkdir", "mount", "mark",
          "savemark", "unmark", "saveunmark"}
ClientPc == {"out", "find", "unregister", "saveunregister", "remove",
             "restore", "saverestore"}
Phase == {"new", "starting", "running", "ending", "gone", "failed"}

Init ==
  /\ reg = {}
  /\ data = {}
  /\ pc = [a \in Actors |-> "out"]
  /\ key = [a \in Actors |-> IF a \in Ctrs THEN KeyOf(a) ELSE NoKey]
  /\ vol = [a \in Clients |-> NoKey]
  /\ copy = [a \in Actors |-> {}]
  /\ phase = [c \in Ctrs |-> "new"]
  /\ alone = TRUE

Go(a, label) == pc' = [pc EXCEPT ![a] = label]
Keep(a, r) == copy' = [copy EXCEPT ![a] = r]
Inside == {a \in Actors : pc[a] # "out"}
Enter(a) ==
  /\ Cardinality(Inside) < MaxOverlap
  /\ pc[a] = "out"
  /\ alone' = (alone /\ Inside = {})

(* A save writes the copy back, whatever the file has become meanwhile *)
Save(a) == reg' = copy[a] /\ Keep(a, {})

Clash(v) == \E w \in reg : w.name = v.name \/ w.path = v.path
Fresh(v) == [name |-> v.name, path |-> v.path, used |-> {}]

(***************************************************************************)
(* UP: setVolume finds or registers the volume and makes its directory.     *)
(***************************************************************************)
Up(c) ==
  /\ Enter(c)
  /\ phase[c] = "new"
  /\ Go(c, "find")
  /\ phase' = [phase EXCEPT ![c] = "starting"]
  /\ UNCHANGED <<reg, data, key, vol, copy>>

FindVolume(c) ==
  /\ pc[c] = "find"
  /\ Go(c, IF Found(key[c]) = {} THEN "register" ELSE "mkdir")
  /\ UNCHANGED <<reg, data, key, vol, copy, phase, alone>>

(* Mutants: the volume is registered under what it was looked up by; the     *)
(* second look is left out                                                   *)
RegisterVolumeByKey(c) ==
  /\ pc[c] = "register"
  /\ IF Clash(VolOf[c])
       THEN Go(c, "mkdir") /\ UNCHANGED copy
       ELSE Go(c, "saveregister") /\ Keep(c, reg \union {Fresh(key[c])})
  /\ UNCHANGED <<reg, data, key, vol, phase, alone>>

RegisterVolumeBlind(c) ==
  /\ pc[c] = "register"
  /\ Go(c, "saveregister") /\ Keep(c, reg \union {Fresh(VolOf[c])})
  /\ UNCHANGED <<reg, data, key, vol, phase, alone>>

(* RegisterVolume refuses a name or a path that is there, and the name of    *)
(* every volume given by its path is ""; setVolume ignores the refusal       *)
RegisterVolume(c) ==
  /\ pc[c] = "register"
  /\ IF Clash(VolOf[c])
       THEN Go(c, "mkdir") /\ UNCHANGED copy
       ELSE Go(c, "saveregister") /\ Keep(c, reg \union {Fresh(VolOf[c])})
  /\ UNCHANGED <<reg, data, key, vol, phase, alone>>

SaveRegister(c) ==
  /\ pc[c] = "saveregister"
  /\ Save(c)
  /\ Go(c, "mkdir")
  /\ UNCHANGED <<data, key, vol, phase, alone>>

MakeDir(c) ==
  /\ pc[c] = "mkdir"
  /\ data' = data \union {VolOf[c].path}
  /\ Go(c, "mount")
  /\ UNCHANGED <<reg, key, vol, copy, phase, alone>>

(* setup bind-mounts the directory; without it the set-up fails *)
BindMount(c) ==
  /\ pc[c] = "mount"
  /\ IF VolOf[c].path \in data
       THEN Go(c, "mark") /\ UNCHANGED phase
       ELSE Go(c, "out") /\ phase' = [phase EXCEPT ![c] = "failed"]
  /\ UNCHANGED <<reg, data, key, vol, copy, alone>>

(***************************************************************************)
(* run() marks the volume used; cleanup and down mark it unused.            *)
(***************************************************************************)
(* Mutants: every volume is marked; every user of the volume is unmarked *)
AllMarked(c) == {[v EXCEPT !.used = @ \union {c}] : v \in reg}
AllUnmarked(c) == {IF Match(v, key[c]) THEN [v EXCEPT !.used = {}] ELSE v : v \in reg}

Marked(c) ==
  {IF Match(v, key[c]) THEN [v EXCEPT !.used = @ \union {c}] ELSE v : v \in reg}
Unmarked(c) ==
  {IF Match(v, key[c]) THEN [v EXCEPT !.used = @ \ {c}] ELSE v : v \in reg}

Run(c) == Go(c, "out") /\ phase' = [phase EXCEPT ![c] = "running"]

(* A volume that is not registered is not marked, and nobody is told *)
MarkVolumeUsed(c) ==
  /\ pc[c] = "mark"
  /\ IF \E v \in Found(key[c]) : c \notin v.used
       THEN Go(c, "savemark") /\ Keep(c, Marked(c)) /\ UNCHANGED phase
       ELSE Run(c) /\ UNCHANGED copy
  /\ UNCHANGED <<reg, data, key, vol, alone>>

SaveMark(c) ==
  /\ pc[c] = "savemark"
  /\ Save(c)
  /\ Run(c)
  /\ UNCHANGED <<data, key, vol, alone>>

End(c) ==
  /\ Enter(c)
  /\ phase[c] = "running"
  /\ Go(c, "unmark")
  /\ phase' = [phase EXCEPT ![c] = "ending"]
  /\ UNCHANGED <<reg, data, key, vol, copy>>

(* Called by cleanup and again by down: the second call may be skipped, when  *)
(* a sweep has taken the record                                               *)
AfterUnmark(c) ==
  \/ Go(c, "out") /\ phase' = [phase EXCEPT ![c] = "gone"]
  \/ phase[c] = "ending" /\ Go(c, "unmark") /\ UNCHANGED phase

MarkVolumeUnused(c) ==
  /\ pc[c] = "unmark"
  /\ IF Found(key[c]) # {}
       THEN Go(c, "saveunmark") /\ Keep(c, Unmarked(c)) /\ UNCHANGED phase
       ELSE AfterUnmark(c) /\ UNCHANGED copy
  /\ UNCHANGED <<reg, data, key, vol, alone>>

SaveUnmark(c) ==
  /\ pc[c] = "saveunmark"
  /\ Save(c)
  /\ AfterUnmark(c)
  /\ UNCHANGED <<data, key, vol, alone>>

(***************************************************************************)
(* VOLUME_DELETE: find, look at the users, unregister (which looks again),   *)
(* remove the data; if that fails, register the volume once more.            *)
(***************************************************************************)
Delete(a) ==
  /\ Enter(a)
  /\ \E v \in Vols : \E k \in {ByName(v), ByPath(v)} \ {NoKey} :
       key' = [key EXCEPT ![a] = k]
  /\ Go(a, "find")
  /\ UNCHANGED <<reg, data, vol, copy, phase>>

FindForDelete(a) ==
  /\ pc[a] = "find"
  /\ \/ \E v \in Found(key[a]) :
          /\ v.used = {}
          /\ vol' = [vol EXCEPT ![a] = [name |-> v.name, path |-> v.path]]
          /\ Go(a, "unregister")
     \/ (\A v \in Found(key[a]) : v.used # {}) /\ Go(a, "out") /\ UNCHANGED vol
  /\ UNCHANGED <<reg, data, key, copy, phase, alone>>

UnregisterVolume(a) ==
  /\ pc[a] = "unregister"
  /\ IF Found(key[a]) = {} \/ \E v \in Found(key[a]) : v.used # {}
       THEN Go(a, "out") /\ UNCHANGED copy
       ELSE Go(a, "saveunregister") /\ Keep(a, reg \ Found(key[a]))
  /\ UNCHANGED <<reg, data, key, vol, phase, alone>>

SaveUnregister(a) ==
  /\ pc[a] = "saveunregister"
  /\ Save(a)
  /\ Go(a, "remove")
  /\ UNCHANGED <<data, key, vol, phase, alone>>

RemoveData(a) ==
  /\ pc[a] = "remove"
  /\ \/ Go(a, "out") /\ data' = data \ {vol[a].path}
     \/ DiskFaults /\ Go(a, "restore") /\ UNCHANGED data
  /\ UNCHANGED <<reg, key, vol, copy, phase, alone>>

Restore(a) ==
  /\ pc[a] = "restore"
  /\ IF Clash(vol[a])
       THEN Go(a, "out") /\ UNCHANGED copy
       ELSE Go(a, "saverestore") /\ Keep(a, reg \union {Fresh(vol[a])})
  /\ UNCHANGED <<reg, data, key, vol, phase, alone>>

SaveRestore(a) ==
  /\ pc[a] = "saverestore"
  /\ Save(a)
  /\ Go(a, "out")
  /\ UNCHANGED <<data, key, vol, phase, alone>>

-----------------------------------------------------------------------------
CtrStep(c) ==
  \/ Up(c) \/ FindVolume(c) \/ RegisterVolume(c) \/ SaveRegister(c) \/ MakeDir(c)
  \/ BindMount(c) \/ MarkVolumeUsed(c) \/ SaveMark(c)
  \/ End(c) \/ MarkVolumeUnused(c) \/ SaveUnmark(c)

ClientStep(a) ==
  \/ Delete(a) \/ FindForDelete(a) \/ UnregisterVolume(a) \/ SaveUnregister(a)
  \/ RemoveData(a) \/ Restore(a) \/ SaveRestore(a)

Next == (\E c \in Ctrs : CtrStep(c)) \/ (\E a \in Clients : ClientStep(a))

Spec == Init /\ [][Next]_vars

-----------------------------------------------------------------------------
Paths == {v.path : v \in Vols}
Names == {v.name : v \in Vols}
Entry == [name : Names, path : Paths, used : SUBSET Ctrs]

TypeOK ==
  /\ reg \subseteq Entry
  /\ data \subseteq Paths
  /\ pc \in [Actors -> CtrPc \union ClientPc]
  /\ key \in [Actors -> [name : Names \union {NoName}, path : Paths \union {NoPath}]]
  /\ vol \in [Clients -> [name : Names \union {NoName}, path : Paths \union {NoPath}]]
  /\ copy \in [Actors -> SUBSET Entry]
  /\ phase \in [Ctrs -> Phase]
  /\ alone \in BOOLEAN

Unique(r) == \A v, w \in r : v.name = w.name \/ v.path = w.path => v = w

(* Whatever the overlap, the file and the copies on their way to it have one  *)
(* entry per name and one per path, so that the first match of FindVolume,    *)
(* MarkVolumeUsed and UnregisterVolume is the only one                        *)
UniqueVolumes == Unique(reg) /\ \A a \in Actors : Unique(copy[a])

(* A user recorded in the file or in a stale copy is a container of that very *)
(* volume which has got as far as run(): a refused UP never blocks a deletion *)
UsersHaveRun ==
  \A v \in reg \union UNION {copy[a] : a \in Actors} : \A c \in v.used :
    /\ Match(v, KeyOf(c))
    /\ phase[c] \in {"running", "ending", "gone"} \/ pc[c] = "savemark"

(* As long as requests have come one at a time usage tracking works for named  *)
(* volumes: a running container is listed as a user, its directory is there,   *)
(* and so no deletion and no other container's end takes either away           *)
NamedUseIsTracked ==
  alone => \A c \in Ctrs : phase[c] = "running" /\ VolOf[c].name # NoName =>
             \E v \in Found(KeyOf(c)) : c \in v.used /\ v.path \in data
=============================================================================
