---------------------------- MODULE NameRegistry ----------------------------
(* The registry of container names (name/name.go): one JSON file, a mutex    *)
(* around each load and around each save, and nothing around the two.        *)
(*                                                                           *)
(* The callers are the goroutine of an UP request (checkName, and the        *)
(* cleanup of run()), a DOWN request (down), and the boot clean-up           *)
(* (cleanContainerResources).  How each of them comes to its call is         *)
(* Lifecycle's subject; here the calls overlap freely, up to MaxOverlap.     *)
EXTENDS Integers, FiniteSets

CONSTANTS
  Ctrs,        \* containers, named by their ID
  Clients,     \* goroutines serving DOWN requests
  Main,        \* the boot clean-up
  NameOf,      \* name in the ZyloFile, or NoName
  NoName,
  NoCtr,
  MaxOverlap,  \* bound on the goroutines inside the registry at one time
  MaxCrashes   \* bound on the number of daemon deaths

Actors == Ctrs \union Clients \union {Main}

ASSUME ActorsAssumption ==
  /\ Ctrs \intersect Clients = {}
  /\ Main \notin Ctrs \union Clients
  /\ NoCtr \notin Ctrs
ASSUME NameAssumption == \A c, d \in Ctrs : NameOf[c] # d
ASSUME BoundsAssumption == MaxOverlap \in Nat /\ MaxCrashes \in Nat

VARIABLES
  entries,   \* what registry.json says: <<name, container ID>> pairs
  torn,      \* the file is truncated and not yet rewritten
  pc,        \* where in load and save each goroutine is
  op,        \* the call it makes
  target,    \* the container ID it makes it for
  copy,      \* the registry it has loaded and edited
  phase,     \* the container's life, as far as names are concerned
  up,        \* the daemon serves requests
  crashes,   \* daemon deaths so far
  alone      \* history: no two calls have ever been inside at one time

vars == <<entries, torn, pc, op, target, copy, phase, up, crashes, alone>>

(* An unnamed container gets a name made of the time in nanoseconds: no two  *)
(* are alike, so its ID stands for it                                        *)
Wanted(c) == IF NameOf[c] = NoName THEN c ELSE NameOf[c]

Pc == {"out", "load", "save", "write"}
Op == {"exists", "register", "byname", "unregister"}
Phase == {"new", "starting", "held", "ending", "gone", "failed", "orphan", "lost"}

Init ==
  /\ entries = {}
  /\ torn = FALSE
  /\ pc = [a \in Actors |-> "out"]
  /\ op = [a \in Actors |-> "exists"]
  /\ target = [a \in Actors |-> NoCtr]
  /\ copy = [a \in Actors |-> {}]
  /\ phase = [c \in Ctrs |-> "new"]
  /\ up = TRUE
  /\ crashes = 0
  /\ alone = TRUE

(* Mutant: the entry's ID is compared too *)
TakenBySame(c) == \E e \in entries : e = <<Wanted(c), c>>

Taken(c) == \E e \in entries : e[1] = Wanted(c)
Locked == \E a \in Actors : pc[a] = "write"
Busy == {a \in Actors : pc[a] # "out"}

Call(a, what, c) ==
  /\ Cardinality(Busy) < MaxOverlap
  /\ pc[a] = "out"
  /\ pc' = [pc EXCEPT ![a] = "load"]
  /\ op' = [op EXCEPT ![a] = what]
  /\ target' = [target EXCEPT ![a] = c]
  /\ alone' = (alone /\ Busy = {})
  /\ UNCHANGED <<entries, torn, copy, crashes>>

(***************************************************************************)
(* Who calls.                                                              *)
(***************************************************************************)
(* checkName: NameExists for a name of the user's, then RegisterName *)
Up(c) ==
  /\ up
  /\ phase[c] = "new"
  /\ phase' = [phase EXCEPT ![c] = "starting"]
  /\ Call(c, IF NameOf[c] = NoName THEN "register" ELSE "exists", c)
  /\ UNCHANGED up

(* run() is over: cleanup calls UnregisterName with the name; without a name *)
(* nothing is ever unregistered                                              *)
End(c) ==
  /\ up
  /\ phase[c] = "held"
  /\ IF NameOf[c] = NoName
       THEN /\ phase' = [phase EXCEPT ![c] = "gone"]
            /\ UNCHANGED <<entries, torn, pc, op, target, copy, up, crashes, alone>>
       ELSE /\ phase' = [phase EXCEPT ![c] = "ending"]
            /\ Call(c, "byname", c)
            /\ UNCHANGED up

(* down() for a container that ends, has ended, or outlived its daemon *)
Down(a, c) ==
  /\ up
  /\ a \in Clients
  /\ NameOf[c] # NoName
  /\ phase[c] \in {"ending", "gone", "orphan"}
  /\ phase' = [phase EXCEPT ![c] = IF @ = "orphan" THEN "gone" ELSE @]
  /\ Call(a, "unregister", c)
  /\ UNCHANGED up

(* cleanContainerResources for a container that died with the daemon *)
Purge(c) ==
  /\ ~up
  /\ phase[c] = "lost"
  /\ phase' = [phase EXCEPT ![c] = "gone"]
  /\ Call(Main, "unregister", c)
  /\ UNCHANGED up

(***************************************************************************)
(* The calls.                                                              *)
(***************************************************************************)
Return(a) == pc' = [pc EXCEPT ![a] = "out"]

(* Where a call leaves its container: a refused name ends the UP request *)
Refused(a) ==
  phase' = IF op[a] \in {"exists", "register"}
             THEN [phase EXCEPT ![target[a]] = "failed"] ELSE phase

(* cleanup goes on to down(), which unregisters by ID unless a sweep has      *)
(* taken the record away and down() fails                                    *)
AfterByName(a) ==
  \/ /\ pc' = [pc EXCEPT ![a] = "load"]
     /\ op' = [op EXCEPT ![a] = "unregister"]
     /\ UNCHANGED phase
  \/ /\ Return(a)
     /\ phase' = [phase EXCEPT ![target[a]] = "gone"]
     /\ UNCHANGED op

(* Mutant: the load takes no read lock *)
LoadTornUnlocked(a) ==
  /\ pc[a] = "load" /\ torn
  /\ IF op[a] = "byname"
       THEN AfterByName(a)
       ELSE Return(a) /\ Refused(a) /\ UNCHANGED op
  /\ UNCHANGED <<entries, torn, target, copy, up, crashes, alone>>

(* json.Unmarshal fails on a file that is empty or cut short: the call fails *)
LoadTorn(a) ==
  /\ pc[a] = "load" /\ ~Locked /\ torn
  /\ IF op[a] = "byname"
       THEN AfterByName(a)
       ELSE Return(a) /\ Refused(a) /\ UNCHANGED op
  /\ UNCHANGED <<entries, torn, target, copy, up, crashes, alone>>

LoadExists(a) ==
  /\ pc[a] = "load" /\ ~Locked /\ ~torn
  /\ op[a] = "exists"
  /\ IF Taken(target[a])
       THEN Return(a) /\ Refused(a) /\ UNCHANGED op
       ELSE op' = [op EXCEPT ![a] = "register"] /\ UNCHANGED <<pc, phase>>
  /\ UNCHANGED <<entries, torn, target, copy, up, crashes, alone>>

(* Mutants: the second check is dropped; the entry is appended before the     *)
(* check; the generated name is not the one registered                        *)
LoadRegisterBlind(a) ==
  /\ pc[a] = "load" /\ ~Locked /\ ~torn
  /\ op[a] = "register"
  /\ copy' = [copy EXCEPT ![a] = entries \union {<<Wanted(target[a]), target[a]>>}]
  /\ pc' = [pc EXCEPT ![a] = "save"]
  /\ UNCHANGED <<entries, torn, op, target, phase, up, crashes, alone>>

LoadRegisterEarly(a) ==
  /\ pc[a] = "load" /\ ~Locked /\ ~torn
  /\ op[a] = "register"
  /\ copy' = [copy EXCEPT ![a] = entries \union {<<Wanted(target[a]), target[a]>>}]
  /\ IF Taken(target[a]) THEN Return(a) /\ Refused(a)
                         ELSE pc' = [pc EXCEPT ![a] = "save"] /\ UNCHANGED phase
  /\ UNCHANGED <<entries, torn, op, target, up, crashes, alone>>

LoadRegisterEmpty(a) ==
  /\ pc[a] = "load" /\ ~Locked /\ ~torn
  /\ op[a] = "register"
  /\ IF Taken(target[a])
       THEN Return(a) /\ Refused(a) /\ UNCHANGED copy
       ELSE /\ copy' = [copy EXCEPT ![a] = entries \union {<<NameOf[target[a]], target[a]>>}]
            /\ pc' = [pc EXCEPT ![a] = "save"]
            /\ UNCHANGED phase
  /\ UNCHANGED <<entries, torn, op, target, up, crashes, alone>>

LoadRegister(a) ==
  /\ pc[a] = "load" /\ ~Locked /\ ~torn
  /\ op[a] = "register"
  /\ IF Taken(target[a])
       THEN Return(a) /\ Refused(a) /\ UNCHANGED copy
       ELSE /\ copy' = [copy EXCEPT ![a] = entries \union {<<Wanted(target[a]), target[a]>>}]
            /\ pc' = [pc EXCEPT ![a] = "save"]
            /\ UNCHANGED phase
  /\ UNCHANGED <<entries, torn, op, target, up, crashes, alone>>

(* Mutant: entries are dropped by name *)
LoadUnregisterByName(a) ==
  /\ pc[a] = "load" /\ ~Locked /\ ~torn
  /\ op[a] \in {"byname", "unregister"}
  /\ copy' = [copy EXCEPT ![a] = {e \in entries : e[1] # NameOf[target[a]]}]
  /\ pc' = [pc EXCEPT ![a] = "save"]
  /\ UNCHANGED <<entries, torn, op, target, phase, up, crashes, alone>>

(* UnregisterName drops the entries of an ID; "byname" passes the name *)
LoadUnregister(a) ==
  /\ pc[a] = "load" /\ ~Locked /\ ~torn
  /\ op[a] \in {"byname", "unregister"}
  /\ LET id == IF op[a] = "byname" THEN NameOf[target[a]] ELSE target[a]
     IN  copy' = [copy EXCEPT ![a] = {e \in entries : e[2] # id}]
  /\ pc' = [pc EXCEPT ![a] = "save"]
  /\ UNCHANGED <<entries, torn, op, target, phase, up, crashes, alone>>

(* os.WriteFile under the write lock: truncate, then write *)
SaveBegin(a) ==
  /\ pc[a] = "save" /\ ~Locked
  /\ pc' = [pc EXCEPT ![a] = "write"]
  /\ torn' = TRUE
  /\ UNCHANGED <<entries, op, target, copy, phase, up, crashes, alone>>

SaveEnd(a) ==
  /\ pc[a] = "write"
  /\ torn' = FALSE
  /\ entries' = copy[a]
  /\ copy' = [copy EXCEPT ![a] = {}]
  /\ \/ op[a] = "byname" /\ AfterByName(a)
     \/ /\ op[a] = "register"
        /\ Return(a)
        /\ phase' = [phase EXCEPT ![target[a]] = "held"]
        /\ UNCHANGED op
     \/ /\ op[a] = "unregister"
        /\ Return(a)
        /\ phase' = IF a = target[a] THEN [phase EXCEPT ![a] = "gone"] ELSE phase
        /\ UNCHANGED op
  /\ UNCHANGED <<target, up, crashes, alone>>

(***************************************************************************)
(* The daemon dies and comes back.                                         *)
(***************************************************************************)
Crash ==
  /\ crashes < MaxCrashes
  /\ crashes' = crashes + 1
  /\ up' = FALSE
  /\ pc' = [a \in Actors |-> "out"]
  /\ copy' = [a \in Actors |-> {}]
  /\ phase' = [c \in Ctrs |->
                 CASE phase[c] \in {"starting", "ending"} -> "lost"
                   [] phase[c] = "held" -> "orphan"
                   [] OTHER -> phase[c]]
  /\ UNCHANGED <<entries, torn, op, target, alone>>

(* An orphan whose process ends before the next boot looks like the lost *)
OrphanDies(c) ==
  /\ ~up
  /\ phase[c] = "orphan"
  /\ phase' = [phase EXCEPT ![c] = "lost"]
  /\ UNCHANGED <<entries, torn, pc, op, target, copy, up, crashes, alone>>

BootDone ==
  /\ ~up
  /\ pc[Main] = "out"
  /\ \A c \in Ctrs : phase[c] # "lost"
  /\ up' = TRUE
  /\ UNCHANGED <<entries, torn, pc, op, target, copy, phase, crashes, alone>>

-----------------------------------------------------------------------------
Step(a) ==
  \/ LoadTorn(a) \/ LoadExists(a) \/ LoadRegister(a) \/ LoadUnregister(a)
  \/ SaveBegin(a) \/ SaveEnd(a)

Next ==
  \/ \E a \in Actors : Step(a)
  \/ \E c \in Ctrs : Up(c) \/ End(c) \/ Purge(c) \/ OrphanDies(c)
  \/ \E a \in Clients, c \in Ctrs : Down(a, c)
  \/ Crash
  \/ BootDone

Spec == Init /\ [][Next]_vars

-----------------------------------------------------------------------------
Entry == {Wanted(c) : c \in Ctrs} \X Ctrs

TypeOK ==
  /\ entries \subseteq Entry
  /\ torn \in BOOLEAN
  /\ pc \in [Actors -> Pc]
  /\ op \in [Actors -> Op]
  /\ target \in [Actors -> Ctrs \union {NoCtr}]
  /\ copy \in [Actors -> SUBSET Entry]
  /\ phase \in [Ctrs -> Phase]
  /\ up \in BOOLEAN
  /\ crashes \in 0..MaxCrashes
  /\ alone \in BOOLEAN

Unique(reg) == \A e, f \in reg : e[1] = f[1] => e = f

(* However the calls of name.go overlap, the file and every copy on its way   *)
(* to the file give a name to one container at most: GetContainerIDByName     *)
(* has one answer                                                             *)
UniqueNames == Unique(entries) /\ \A a \in Actors : Unique(copy[a])

(* Stale copies are written back, but never with an entry nobody asked for:   *)
(* an entry pairs a container that got through checkName with its own name,   *)
(* so an UP request that was refused leaves no trace                          *)
NoForeignEntries ==
  \A e \in entries \union UNION {copy[a] : a \in Actors} :
    /\ e[1] = Wanted(e[2])
    /\ phase[e[2]] \notin {"new", "failed"}

(* The mutex keeps a half-written registry from every load of the same        *)
(* daemon: a call fails on a torn file only after a daemon has died between   *)
(* truncate and write                                                         *)
LoadsAreWhole ==
  [][\A a \in Actors :
       pc[a] = "load" /\ torn /\ <<pc'[a], op'[a]>> # <<pc[a], op[a]>>
         => crashes' > 0]_vars

-----------------------------------------------------------------------------
(* What makes the invariants above inductive: a container has no entry before *)
(* its own RegisterName has let it through, whatever stale copies are about   *)
InCall(a) == pc[a] # "out"
Registering ==
  /\ \A a \in Actors : InCall(a) => target[a] \in Ctrs
  /\ \A a \in Actors : InCall(a) /\ op[a] = "byname" => a = target[a]
  /\ \A a \in Actors : InCall(a) /\ op[a] \in {"exists", "register"} =>
       a = target[a] /\ phase[a] = "starting"
  /\ \A a \in Actors : pc[a] \in {"save", "write"} => op[a] # "exists"
  /\ \A c \in Ctrs : phase[c] = "starting" =>
       InCall(c) /\ op[c] \in {"exists", "register"}

EnteredBySelf ==
  \A e \in entries \union UNION {copy[a] : a \in Actors} :
    phase[e[2]] = "starting" => pc[e[2]] \in {"save", "write"}

(* A torn file has its writer at work, or the writer's daemon has died *)
TornHasWriter == torn => Locked \/ crashes > 0

RegistryInvariant ==
  /\ TypeOK
  /\ UniqueNames
  /\ NoForeignEntries
  /\ Registering
  /\ EnteredBySelf
  /\ TornHasWriter
-----------------------------------------------------------------------------
(* As long as calls have come one at a time, no two containers that started   *)
(* and have not ended go by one name: refusals (name.go:88), ends, downs,     *)
(* deaths and boots in between do not free a name that is held                *)
Holds(c) == phase[c] \in {"held", "orphan"}
NamesExclusive ==
  alone => \A c, d \in Ctrs : c # d /\ Holds(c) /\ Holds(d) => Wanted(c) # Wanted(d)

(* As long as calls have come one at a time, a container that has not ended   *)
(* is in the registry, so that GetName finds it (name.go:131) and nobody else *)
(* can take its name                                                          *)
NameStaysRegistered ==
  alone => \A c \in Ctrs : Holds(c) /\ ~torn => <<Wanted(c), c>> \in entries

-----------------------------------------------------------------------------
(* What makes the two properties above inductive.  One call at a time, and    *)
(* one that takes entries out works for a container that has ended            *)
OneCall == \A a, b \in Actors : InCall(a) /\ InCall(b) => a = b
EndsTheEnded ==
  \A a \in Actors :
    InCall(a) /\ op[a] \in {"byname", "unregister"} => phase[target[a]] \in {"ending", "gone"}

(* A file that a daemon left torn is never written again *)
TornForGood == torn /\ ~Locked => \A a \in Actors : pc[a] # "save"

(* Who holds a name is in the file, and in the copy that will replace it *)
HoldersIn(file) == \A c \in Ctrs : Holds(c) => <<Wanted(c), c>> \in file
HoldersEntered == ~torn \/ Locked => HoldersIn(entries)
HoldersCopied ==
  \A a \in Actors : pc[a] \in {"save", "write"} =>
    /\ HoldersIn(copy[a])
    /\ op[a] = "register" => <<Wanted(a), a>> \in copy[a]

SerialInvariant ==
  /\ alone => /\ OneCall
              /\ EndsTheEnded
              /\ TornForGood
              /\ HoldersEntered
              /\ HoldersCopied
  /\ NamesExclusive

-----------------------------------------------------------------------------
(* The registry as its writer will leave it *)
Settled ==
  IF Locked THEN copy[CHOOSE a \in Actors : pc[a] = "write"] ELSE entries

(* A container's name and whether it is used, for Allocator *)
Pairs(file) == {<<e[2], e[1]>> : e \in file}
Users == {c \in Ctrs : Holds(c)}
Naming == INSTANCE Allocator WITH
  held <- Pairs(Settled),
  using <- Users,
  sound <- alone /\ (torn => Locked)

(* Containers take names as Allocator says, until the first overlap of calls  *)
(* or the first death between truncate and write: a name is taken when no one *)
(* has it (name.go:88), stays with who runs under it, and comes back with an  *)
(* entry of a container that has ended                                        *)
NamesAllocated == Naming!Spec
=============================================================================
