------------------------- MODULE NameRegistryProofs -------------------------
(* What holds of NameRegistry for any containers, names, bounds on overlap   *)
(* and number of daemon deaths.                                              *)
EXTENDS NameRegistry, TLAPS

(* Every step of a call, a caller, a death and a boot keeps the invariant *)
LEMMA InvariantPreserved ==
  RegistryInvariant /\ [Next]_vars => RegistryInvariant'
<1> SUFFICES ASSUME RegistryInvariant, [Next]_vars PROVE RegistryInvariant'
  OBVIOUS
<1> USE ActorsAssumption, BoundsAssumption
    DEF RegistryInvariant, TypeOK, UniqueNames, Unique, NoForeignEntries, Registering,
        EnteredBySelf, TornHasWriter, InCall, Locked, Actors, Entry, Wanted, Pc, Op, Phase
<1>1. QED
  <2>1. ASSUME NEW a \in Actors, LoadTorn(a) PROVE RegistryInvariant'
    <3>1. TypeOK'
      BY <2>1 DEF LoadTorn, AfterByName, Return, Refused
    <3>2. UniqueNames'
      BY <2>1 DEF LoadTorn, AfterByName, Return, Refused
    <3>3. NoForeignEntries'
      BY <2>1 DEF LoadTorn, AfterByName, Return, Refused
    <3>4. Registering'
      <4>1. CASE op[a] = "byname" /\ Return(a)
        BY <2>1, <4>1 DEF LoadTorn, AfterByName, Return, Refused
      <4>2. CASE op[a] = "byname" /\ ~Return(a)
        BY <2>1, <4>2 DEF LoadTorn, AfterByName, Return, Refused
      <4>3. CASE op[a] # "byname"
        BY <2>1, <4>3 DEF LoadTorn, AfterByName, Return, Refused
      <4>4. QED
        BY <4>1, <4>2, <4>3
    <3>5. EnteredBySelf'
      BY <2>1 DEF LoadTorn, AfterByName, Return, Refused
    <3>6. TornHasWriter'
      BY <2>1 DEF LoadTorn, AfterByName, Return, Refused
    <3>7. QED
      BY <3>1, <3>2, <3>3, <3>4, <3>5, <3>6
  <2>2. ASSUME NEW a \in Actors, LoadExists(a) PROVE RegistryInvariant'
    <3>1. TypeOK'
      BY <2>2 DEF LoadExists, Return, Refused
    <3>2. UniqueNames'
      BY <2>2 DEF LoadExists, Return, Refused
    <3>3. NoForeignEntries'
      BY <2>2 DEF LoadExists, Return, Refused
    <3>4. Registering'
      BY <2>2 DEF LoadExists, Return, Refused
    <3>5. EnteredBySelf'
      BY <2>2 DEF LoadExists, Return, Refused
    <3>6. TornHasWriter'
      BY <2>2 DEF LoadExists, Return, Refused
    <3>7. QED
      BY <3>1, <3>2, <3>3, <3>4, <3>5, <3>6
  <2>3. ASSUME NEW a \in Actors, LoadRegister(a) PROVE RegistryInvariant'
    <3>1. TypeOK'
      BY <2>3 DEF LoadRegister, Return, Refused, Taken
    <3>2. UniqueNames'
      BY <2>3 DEF LoadRegister, Return, Refused, Taken
    <3>3. NoForeignEntries'
      BY <2>3 DEF LoadRegister, Return, Refused, Taken
    <3>4. Registering'
      BY <2>3 DEF LoadRegister, Return, Refused, Taken
    <3>5. EnteredBySelf'
      BY <2>3 DEF LoadRegister, Return, Refused, Taken
    <3>6. TornHasWriter'
      BY <2>3 DEF LoadRegister, Return, Refused, Taken
    <3>7. QED
      BY <3>1, <3>2, <3>3, <3>4, <3>5, <3>6
  <2>4. ASSUME NEW a \in Actors, LoadUnregister(a) PROVE RegistryInvariant'
    <3>1. TypeOK'
      BY <2>4 DEF LoadUnregister
    <3>2. UniqueNames'
      BY <2>4 DEF LoadUnregister
    <3>3. NoForeignEntries'
      BY <2>4 DEF LoadUnregister
    <3>4. Registering'
      BY <2>4 DEF LoadUnregister
    <3>5. EnteredBySelf'
      BY <2>4 DEF LoadUnregister
    <3>6. TornHasWriter'
      BY <2>4 DEF LoadUnregister
    <3>7. QED
      BY <3>1, <3>2, <3>3, <3>4, <3>5, <3>6
  <2>5. ASSUME NEW a \in Actors, SaveBegin(a) PROVE RegistryInvariant'
    <3>1. TypeOK'
      BY <2>5 DEF SaveBegin
    <3>2. UniqueNames'
      BY <2>5 DEF SaveBegin
    <3>3. NoForeignEntries'
      BY <2>5 DEF SaveBegin
    <3>4. Registering'
      BY <2>5 DEF SaveBegin
    <3>5. EnteredBySelf'
      BY <2>5 DEF SaveBegin
    <3>6. TornHasWriter'
      BY <2>5 DEF SaveBegin
    <3>7. QED
      BY <3>1, <3>2, <3>3, <3>4, <3>5, <3>6
  <2>6. ASSUME NEW a \in Actors, SaveEnd(a) PROVE RegistryInvariant'
    <3>1. TypeOK'
      <4>1. pc' \in [Actors -> Pc] /\ op' \in [Actors -> Op]
        BY <2>6 DEF SaveEnd, AfterByName, Return
      <4>2. phase' \in [Ctrs -> Phase]
        BY <2>6 DEF SaveEnd, AfterByName, Return
      <4>3. entries' \subseteq Entry /\ copy' \in [Actors -> SUBSET Entry] /\ torn' \in BOOLEAN
        BY <2>6 DEF SaveEnd, AfterByName, Return
      <4>4. target' \in [Actors -> Ctrs \union {NoCtr}] /\ UNCHANGED <<up, crashes, alone>>
        BY <2>6 DEF SaveEnd, AfterByName, Return
      <4>5. QED
        BY <4>1, <4>2, <4>3, <4>4
    <3>2. UniqueNames'
      BY <2>6 DEF SaveEnd, AfterByName, Return
    <3>3. NoForeignEntries'
      BY <2>6 DEF SaveEnd, AfterByName, Return
    <3>4. Registering'
      <4>1. CASE op[a] = "byname" /\ Return(a)
        BY <2>6, <4>1 DEF SaveEnd, AfterByName, Return
      <4>2. CASE op[a] = "byname" /\ ~Return(a)
        BY <2>6, <4>2 DEF SaveEnd, AfterByName, Return
      <4>3. CASE op[a] # "byname"
        BY <2>6, <4>3 DEF SaveEnd, AfterByName, Return
      <4>4. QED
        BY <4>1, <4>2, <4>3
    <3>5. EnteredBySelf'
      BY <2>6 DEF SaveEnd, AfterByName, Return
    <3>6. TornHasWriter'
      BY <2>6 DEF SaveEnd, AfterByName, Return
    <3>7. QED
      BY <3>1, <3>2, <3>3, <3>4, <3>5, <3>6
  <2>7. ASSUME NEW c \in Ctrs, Up(c) PROVE RegistryInvariant'
    <3>1. TypeOK'
      BY <2>7 DEF Up, Call
    <3>2. UniqueNames'
      BY <2>7 DEF Up, Call
    <3>3. NoForeignEntries'
      BY <2>7 DEF Up, Call
    <3>4. Registering'
      BY <2>7 DEF Up, Call
    <3>5. EnteredBySelf'
      BY <2>7 DEF Up, Call
    <3>6. TornHasWriter'
      BY <2>7 DEF Up, Call
    <3>7. QED
      BY <3>1, <3>2, <3>3, <3>4, <3>5, <3>6
  <2>8. ASSUME NEW c \in Ctrs, End(c) PROVE RegistryInvariant'
    <3>1. CASE NameOf[c] = NoName
      <4>1. /\ phase[c] = "held" /\ phase' = [phase EXCEPT ![c] = "gone"]
            /\ UNCHANGED <<entries, torn, pc, op, target, copy, up, crashes, alone>>
        BY <2>8, <3>1 DEF End
      <4>2. TypeOK'
        BY <4>1
      <4>3. UniqueNames'
        BY <4>1
      <4>4. NoForeignEntries'
        BY <4>1
      <4>5. Registering'
        BY <4>1
      <4>6. EnteredBySelf'
        BY <4>1
      <4>7. TornHasWriter'
        BY <4>1
      <4>8. QED
        BY <4>2, <4>3, <4>4, <4>5, <4>6, <4>7
    <3>2. CASE NameOf[c] # NoName
      <4>1. /\ phase[c] = "held" /\ phase' = [phase EXCEPT ![c] = "ending"]
            /\ pc[c] = "out" /\ pc' = [pc EXCEPT ![c] = "load"]
            /\ op' = [op EXCEPT ![c] = "byname"]
            /\ target' = [target EXCEPT ![c] = c]
            /\ alone' \in BOOLEAN
            /\ UNCHANGED <<entries, torn, copy, up, crashes>>
        BY <2>8, <3>2 DEF End, Call
      <4>2. TypeOK'
        BY <4>1
      <4>3. UniqueNames'
        BY <4>1
      <4>4. NoForeignEntries'
        BY <4>1
      <4>5. Registering'
        BY <4>1
      <4>6. EnteredBySelf'
        BY <4>1
      <4>7. TornHasWriter'
        BY <4>1
      <4>8. QED
        BY <4>2, <4>3, <4>4, <4>5, <4>6, <4>7
    <3>3. QED
      BY <3>1, <3>2
  <2>9. ASSUME NEW c \in Ctrs, Purge(c) PROVE RegistryInvariant'
    <3>1. TypeOK'
      BY <2>9 DEF Purge, Call
    <3>2. UniqueNames'
      BY <2>9 DEF Purge, Call
    <3>3. NoForeignEntries'
      BY <2>9 DEF Purge, Call
    <3>4. Registering'
      BY <2>9 DEF Purge, Call
    <3>5. EnteredBySelf'
      BY <2>9 DEF Purge, Call
    <3>6. TornHasWriter'
      BY <2>9 DEF Purge, Call
    <3>7. QED
      BY <3>1, <3>2, <3>3, <3>4, <3>5, <3>6
  <2>10. ASSUME NEW c \in Ctrs, OrphanDies(c) PROVE RegistryInvariant'
    <3>1. TypeOK'
      BY <2>10 DEF OrphanDies
    <3>2. UniqueNames'
      BY <2>10 DEF OrphanDies
    <3>3. NoForeignEntries'
      BY <2>10 DEF OrphanDies
    <3>4. Registering'
      BY <2>10 DEF OrphanDies
    <3>5. EnteredBySelf'
      BY <2>10 DEF OrphanDies
    <3>6. TornHasWriter'
      BY <2>10 DEF OrphanDies
    <3>7. QED
      BY <3>1, <3>2, <3>3, <3>4, <3>5, <3>6
  <2>11. ASSUME NEW a \in Clients, NEW c \in Ctrs, Down(a, c) PROVE RegistryInvariant'
    <3>1. TypeOK'
      BY <2>11 DEF Down, Call
    <3>2. UniqueNames'
      BY <2>11 DEF Down, Call
    <3>3. NoForeignEntries'
      BY <2>11 DEF Down, Call
    <3>4. Registering'
      BY <2>11 DEF Down, Call
    <3>5. EnteredBySelf'
      BY <2>11 DEF Down, Call
    <3>6. TornHasWriter'
      BY <2>11 DEF Down, Call
    <3>7. QED
      BY <3>1, <3>2, <3>3, <3>4, <3>5, <3>6
  <2>12. CASE Crash
    <3>1. TypeOK'
      <4>1. phase' \in [Ctrs -> Phase]
        BY <2>12 DEF Crash
      <4>2. crashes' \in 0..MaxCrashes
        BY <2>12 DEF Crash
      <4>3. pc' \in [Actors -> Pc] /\ copy' \in [Actors -> SUBSET Entry] /\ up' \in BOOLEAN
        BY <2>12 DEF Crash
      <4>4. UNCHANGED <<entries, torn, op, target, alone>>
        BY <2>12 DEF Crash
      <4>5. QED
        BY <4>1, <4>2, <4>3, <4>4
    <3>2. UniqueNames'
      BY <2>12 DEF Crash
    <3>3. NoForeignEntries'
      BY <2>12 DEF Crash
    <3>4. Registering'
      BY <2>12 DEF Crash
    <3>5. EnteredBySelf'
      BY <2>12 DEF Crash
    <3>6. TornHasWriter'
      BY <2>12 DEF Crash
    <3>7. QED
      BY <3>1, <3>2, <3>3, <3>4, <3>5, <3>6
  <2>13. CASE BootDone
    <3>1. TypeOK'
      BY <2>13 DEF BootDone
    <3>2. UniqueNames'
      BY <2>13 DEF BootDone
    <3>3. NoForeignEntries'
      BY <2>13 DEF BootDone
    <3>4. Registering'
      BY <2>13 DEF BootDone
    <3>5. EnteredBySelf'
      BY <2>13 DEF BootDone
    <3>6. TornHasWriter'
      BY <2>13 DEF BootDone
    <3>7. QED
      BY <3>1, <3>2, <3>3, <3>4, <3>5, <3>6
  <2>14. CASE UNCHANGED vars
    BY <2>14 DEF vars
  <2>15. QED
    BY <2>1, <2>2, <2>3, <2>4, <2>5, <2>6, <2>7,
       <2>8, <2>9, <2>10, <2>11, <2>12, <2>13, <2>14 DEF Next, Step

(* The invariant holds in every state, so each of its conjuncts does *)
LEMMA InvariantHolds == Spec => []RegistryInvariant
<1>1. Init => RegistryInvariant
  <2> SUFFICES ASSUME Init PROVE RegistryInvariant
    OBVIOUS
  <2>1. TypeOK
    <3>1. crashes \in 0..MaxCrashes
      BY BoundsAssumption DEF Init
    <3>2. copy \in [Actors -> SUBSET Entry] /\ target \in [Actors -> Ctrs \union {NoCtr}]
      BY DEF Init
    <3>3. QED
      BY <3>1, <3>2 DEF Init, TypeOK, Pc, Op, Phase
  <2>2. entries = {} /\ \A a \in Actors : copy[a] = {}
    BY DEF Init
  <2>3. entries \union UNION {copy[a] : a \in Actors} = {}
    BY <2>2
  <2>4. UniqueNames /\ NoForeignEntries
    BY <2>2, <2>3 DEF UniqueNames, Unique, NoForeignEntries
  <2>5. Registering /\ EnteredBySelf /\ TornHasWriter
    BY <2>3 DEF Init, Registering, EnteredBySelf, InCall, TornHasWriter
  <2>6. QED
    BY <2>1, <2>4, <2>5 DEF RegistryInvariant
<1>2. QED
  BY <1>1, InvariantPreserved, PTL DEF Spec

(* Every variable keeps its type, however the calls overlap *)
THEOREM RegistryTypeCorrect == Spec => []TypeOK
<1>1. RegistryInvariant => TypeOK
  BY DEF RegistryInvariant
<1>2. QED
  BY <1>1, InvariantHolds, PTL

(* One name belongs to one container in the file and in every stale copy *)
THEOREM NamesAreUnique == Spec => []UniqueNames
<1>1. RegistryInvariant => UniqueNames
  BY DEF RegistryInvariant
<1>2. QED
  BY <1>1, InvariantHolds, PTL

(* A container whose UP was refused its name leaves no entry behind *)
THEOREM RefusedLeaveNoEntry == Spec => []NoForeignEntries
<1>1. RegistryInvariant => NoForeignEntries
  BY DEF RegistryInvariant
<1>2. QED
  BY <1>1, InvariantHolds, PTL

(* The lock around a save keeps the truncated file from every load: only the  *)
(* death of a daemon between truncate and write lets a load fail on it        *)
THEOREM LoadsSeeWholeFiles == Spec => LoadsAreWhole
<1> DEFINE Whole == \A a \in Actors :
      pc[a] = "load" /\ torn /\ <<pc'[a], op'[a]>> # <<pc[a], op[a]>> => crashes' > 0
<1>1. RegistryInvariant /\ [Next]_vars => Whole
  <2> SUFFICES ASSUME RegistryInvariant, [Next]_vars, NEW a \in Actors,
                      pc[a] = "load", torn, <<pc'[a], op'[a]>> # <<pc[a], op[a]>>
               PROVE  crashes' > 0
    OBVIOUS
  <2>1. crashes \in Nat /\ (Locked \/ crashes > 0)
    BY DEF RegistryInvariant, TypeOK, TornHasWriter
  <2>2. CASE Crash
    BY <2>1, <2>2 DEF Crash
  <2>3. CASE ~Crash
    <3>1. crashes' = crashes /\ ~Locked
      BY <2>3 DEF RegistryInvariant, TypeOK, Next, Step, LoadTorn, LoadExists, LoadRegister,
        LoadUnregister, SaveBegin, SaveEnd, AfterByName, Return, Up, End, Purge,
        OrphanDies, Down, Call, BootDone, vars
    <3>2. QED
      BY <2>1, <3>1
  <2>4. QED
    BY <2>2, <2>3
<1>2. RegistryInvariant /\ [Next]_vars => [Whole]_vars
  BY <1>1
<1>3. QED
  BY <1>2, InvariantHolds, PTL DEF Spec, LoadsAreWhole

(* In a registry with unique names a name has one holder *)
LEMMA UniqueHolder ==
  ASSUME NEW file, Unique(file), NEW n, NEW c, NEW d, <<n, c>> \in file, <<n, d>> \in file
  PROVE  c = d
<1>1. <<n, c>> = <<n, d>>
  BY DEF Unique
<1>2. QED
  BY <1>1

(* A call after which there has been no overlap found nobody inside *)
LEMMA CallIsAlone ==
  ASSUME NEW a, NEW what, NEW c, Call(a, what, c), alone'
  PROVE  alone /\ \A b \in Actors : pc[b] = "out"
  BY DEF Call, Busy

(* While calls come one at a time every step keeps the holders of names in the *)
(* file and in the copy on its way to the file                                *)
LEMMA SerialPreserved ==
  ASSUME RegistryInvariant, RegistryInvariant', SerialInvariant, [Next]_vars
  PROVE  SerialInvariant'
<1> SUFFICES ASSUME alone' PROVE SerialInvariant'
  BY DEF SerialInvariant, NamesExclusive
<1> USE ActorsAssumption, NameAssumption
    DEF RegistryInvariant, TypeOK, Registering, SerialInvariant, OneCall, EndsTheEnded,
        TornForGood, HoldersIn, HoldersEntered, HoldersCopied, NamesExclusive, Holds,
        InCall, Locked, Actors, Entry, Wanted
<1>1. ASSUME NEW a \in Actors, LoadTorn(a) PROVE SerialInvariant'
  <2>0. alone
    BY <1>1 DEF LoadTorn, AfterByName, Return, Refused
  <2>1. OneCall'
    BY <1>1, <2>0 DEF LoadTorn, AfterByName, Return, Refused
  <2>2. EndsTheEnded'
    BY <1>1, <2>0 DEF LoadTorn, AfterByName, Return, Refused
  <2>3. TornForGood'
    BY <1>1, <2>0 DEF LoadTorn, AfterByName, Return, Refused
  <2>4. HoldersEntered'
    BY <1>1, <2>0 DEF LoadTorn, AfterByName, Return, Refused
  <2>5. HoldersCopied'
    BY <1>1, <2>0 DEF LoadTorn, AfterByName, Return, Refused
  <2>6. NamesExclusive'
    BY <1>1, <2>0 DEF LoadTorn, AfterByName, Return, Refused
  <2>7. QED
    BY <2>1, <2>2, <2>3, <2>4, <2>5, <2>6
<1>2. ASSUME NEW a \in Actors, LoadExists(a) PROVE SerialInvariant'
  <2>0. alone
    BY <1>2 DEF LoadExists, Return, Refused
  <2>1. OneCall'
    BY <1>2, <2>0 DEF LoadExists, Return, Refused
  <2>2. EndsTheEnded'
    BY <1>2, <2>0 DEF LoadExists, Return, Refused
  <2>3. TornForGood'
    BY <1>2, <2>0 DEF LoadExists, Return, Refused
  <2>4. HoldersEntered'
    BY <1>2, <2>0 DEF LoadExists, Return, Refused
  <2>5. HoldersCopied'
    BY <1>2, <2>0 DEF LoadExists, Return, Refused
  <2>6. NamesExclusive'
    BY <1>2, <2>0 DEF LoadExists, Return, Refused
  <2>7. QED
    BY <2>1, <2>2, <2>3, <2>4, <2>5, <2>6
<1>3. ASSUME NEW a \in Actors, LoadRegister(a) PROVE SerialInvariant'
  <2>0. alone
    BY <1>3 DEF LoadRegister, Return, Refused, Taken
  <2>1. OneCall'
    BY <1>3, <2>0 DEF LoadRegister, Return, Refused, Taken
  <2>2. EndsTheEnded'
    BY <1>3, <2>0 DEF LoadRegister, Return, Refused, Taken
  <2>3. TornForGood'
    BY <1>3, <2>0 DEF LoadRegister, Return, Refused, Taken
  <2>4. HoldersEntered'
    BY <1>3, <2>0 DEF LoadRegister, Return, Refused, Taken
  <2>5. HoldersCopied'
    BY <1>3, <2>0 DEF LoadRegister, Return, Refused, Taken
  <2>6. NamesExclusive'
    BY <1>3, <2>0 DEF LoadRegister, Return, Refused, Taken
  <2>7. QED
    BY <2>1, <2>2, <2>3, <2>4, <2>5, <2>6
<1>4. ASSUME NEW a \in Actors, LoadUnregister(a) PROVE SerialInvariant'
  <2>0. alone
    BY <1>4 DEF LoadUnregister
  <2>1. OneCall'
    BY <1>4, <2>0 DEF LoadUnregister
  <2>2. EndsTheEnded'
    BY <1>4, <2>0 DEF LoadUnregister
  <2>3. TornForGood'
    BY <1>4, <2>0 DEF LoadUnregister
  <2>4. HoldersEntered'
    BY <1>4, <2>0 DEF LoadUnregister
  <2>5. HoldersCopied'
    BY <1>4, <2>0 DEF LoadUnregister
  <2>6. NamesExclusive'
    BY <1>4, <2>0 DEF LoadUnregister
  <2>7. QED
    BY <2>1, <2>2, <2>3, <2>4, <2>5, <2>6
<1>5. ASSUME NEW a \in Actors, SaveBegin(a) PROVE SerialInvariant'
  <2>0. alone
    BY <1>5 DEF SaveBegin
  <2>1. OneCall'
    BY <1>5, <2>0 DEF SaveBegin
  <2>2. EndsTheEnded'
    BY <1>5, <2>0 DEF SaveBegin
  <2>3. TornForGood'
    BY <1>5, <2>0 DEF SaveBegin
  <2>4. HoldersEntered'
    BY <1>5, <2>0 DEF SaveBegin
  <2>5. HoldersCopied'
    BY <1>5, <2>0 DEF SaveBegin
  <2>6. NamesExclusive'
    BY <1>5, <2>0 DEF SaveBegin
  <2>7. QED
    BY <2>1, <2>2, <2>3, <2>4, <2>5, <2>6
<1>6. ASSUME NEW a \in Actors, SaveEnd(a) PROVE SerialInvariant'
  <2>0. alone
    BY <1>6 DEF SaveEnd
  <2>1. OneCall'
    BY <1>6, <2>0 DEF SaveEnd, AfterByName, Return
  <2>2. EndsTheEnded'
    BY <1>6, <2>0 DEF SaveEnd, AfterByName, Return
  <2>3. TornForGood'
    BY <1>6, <2>0 DEF SaveEnd, AfterByName, Return
  <2>4. \A c \in Ctrs : Holds(c)' => <<Wanted(c), c>> \in copy[a]
    <3>1. CASE op[a] = "register"
      <4>1. target[a] = a /\ phase' = [phase EXCEPT ![target[a]] = "held"]
        BY <1>6, <3>1 DEF SaveEnd
      <4>2. \A c \in Ctrs : Holds(c)' => c = a \/ Holds(c)
        BY <4>1
      <4>3. HoldersIn(copy[a]) /\ <<Wanted(a), a>> \in copy[a]
        BY <1>6, <2>0, <3>1 DEF SaveEnd
      <4> HIDE DEF Wanted, Holds
      <4>4. QED
        BY <4>2, <4>3
    <3>2. CASE op[a] # "register"
      <4>1. \A c \in Ctrs : Holds(c)' => Holds(c)
        BY <1>6, <3>2 DEF SaveEnd, AfterByName
      <4>2. QED
        BY <1>6, <2>0, <4>1 DEF SaveEnd
    <3>3. QED
      BY <3>1, <3>2
  <2>5. HoldersEntered'
    BY <1>6, <2>4 DEF SaveEnd
  <2>6. HoldersCopied'
    BY <1>6, <2>0 DEF SaveEnd, AfterByName, Return
  <2>7. NamesExclusive'
    <3>1. Unique(copy[a])
      BY DEF UniqueNames
    <3> HIDE DEF Wanted, Holds
    <3>2. ASSUME NEW c \in Ctrs, NEW d \in Ctrs, Holds(c)', Holds(d)', Wanted(c) = Wanted(d)
          PROVE  c = d
      <4>1. <<Wanted(c), c>> \in copy[a] /\ <<Wanted(c), d>> \in copy[a]
        BY <2>4, <3>2
      <4>2. QED
        BY <3>1, <4>1, UniqueHolder
    <3>3. \A c \in Ctrs : Wanted(c)' = Wanted(c)
      BY DEF Wanted
    <3>4. QED
      BY <3>2, <3>3
  <2>8. QED
    BY <2>1, <2>2, <2>3, <2>5, <2>6, <2>7
<1>7. ASSUME NEW c \in Ctrs, Up(c) PROVE SerialInvariant'
  <2>0. alone /\ \A b \in Actors : pc[b] = "out"
    BY <1>7, CallIsAlone DEF Up
  <2>1. OneCall'
    BY <1>7, <2>0 DEF Up, Call
  <2>2. EndsTheEnded'
    BY <1>7, <2>0 DEF Up, Call
  <2>3. TornForGood'
    BY <1>7, <2>0 DEF Up, Call
  <2>4. HoldersEntered'
    BY <1>7, <2>0 DEF Up, Call
  <2>5. HoldersCopied'
    BY <1>7, <2>0 DEF Up, Call
  <2>6. NamesExclusive'
    BY <1>7, <2>0 DEF Up, Call
  <2>7. QED
    BY <2>1, <2>2, <2>3, <2>4, <2>5, <2>6
<1>8. ASSUME NEW c \in Ctrs, End(c) PROVE SerialInvariant'
  <2>1. CASE NameOf[c] = NoName
    <3>0. alone
      BY <1>8, <2>1 DEF End
    <3>1. /\ phase[c] = "held" /\ phase' = [phase EXCEPT ![c] = "gone"]
          /\ UNCHANGED <<entries, torn, pc, op, copy, target, alone>>
      BY <1>8, <2>1 DEF End
    <3>2. OneCall'
      BY <3>0, <3>1
    <3>3. EndsTheEnded'
      BY <3>0, <3>1
    <3>4. TornForGood'
      BY <3>0, <3>1
    <3>5. HoldersEntered'
      BY <3>0, <3>1
    <3>6. HoldersCopied'
      BY <3>0, <3>1
    <3>7. NamesExclusive'
      BY <3>0, <3>1
    <3>8. QED
      BY <3>2, <3>3, <3>4, <3>5, <3>6, <3>7
  <2>2. CASE NameOf[c] # NoName
    <3>0. alone /\ \A b \in Actors : pc[b] = "out"
      BY <1>8, <2>2, CallIsAlone DEF End
    <3>1. /\ phase[c] = "held" /\ phase' = [phase EXCEPT ![c] = "ending"]
          /\ pc' = [pc EXCEPT ![c] = "load"] /\ op' = [op EXCEPT ![c] = "byname"]
          /\ target' = [target EXCEPT ![c] = c] /\ UNCHANGED <<entries, torn, copy>>
      BY <1>8, <2>2 DEF End, Call
    <3>2. OneCall'
      BY <3>0, <3>1
    <3>3. EndsTheEnded'
      BY <3>0, <3>1
    <3>4. TornForGood'
      BY <3>0, <3>1
    <3>5. HoldersEntered'
      BY <3>0, <3>1
    <3>6. HoldersCopied'
      BY <3>0, <3>1
    <3>7. NamesExclusive'
      BY <3>0, <3>1
    <3>8. QED
      BY <3>2, <3>3, <3>4, <3>5, <3>6, <3>7
  <2>3. QED
    BY <2>1, <2>2
<1>9. ASSUME NEW c \in Ctrs, Purge(c) PROVE SerialInvariant'
  <2>0. alone /\ \A b \in Actors : pc[b] = "out"
    BY <1>9, CallIsAlone DEF Purge
  <2>1. OneCall'
    BY <1>9, <2>0 DEF Purge, Call
  <2>2. EndsTheEnded'
    BY <1>9, <2>0 DEF Purge, Call
  <2>3. TornForGood'
    BY <1>9, <2>0 DEF Purge, Call
  <2>4. HoldersEntered'
    BY <1>9, <2>0 DEF Purge, Call
  <2>5. HoldersCopied'
    BY <1>9, <2>0 DEF Purge, Call
  <2>6. NamesExclusive'
    BY <1>9, <2>0 DEF Purge, Call
  <2>7. QED
    BY <2>1, <2>2, <2>3, <2>4, <2>5, <2>6
<1>10. ASSUME NEW c \in Ctrs, OrphanDies(c) PROVE SerialInvariant'
  <2>0. alone
    BY <1>10 DEF OrphanDies
  <2>1. OneCall'
    BY <1>10, <2>0 DEF OrphanDies
  <2>2. EndsTheEnded'
    BY <1>10, <2>0 DEF OrphanDies
  <2>3. TornForGood'
    BY <1>10, <2>0 DEF OrphanDies
  <2>4. HoldersEntered'
    BY <1>10, <2>0 DEF OrphanDies
  <2>5. HoldersCopied'
    BY <1>10, <2>0 DEF OrphanDies
  <2>6. NamesExclusive'
    BY <1>10, <2>0 DEF OrphanDies
  <2>7. QED
    BY <2>1, <2>2, <2>3, <2>4, <2>5, <2>6
<1>11. ASSUME NEW a \in Clients, NEW c \in Ctrs, Down(a, c) PROVE SerialInvariant'
  <2>0. alone /\ \A b \in Actors : pc[b] = "out"
    BY <1>11, CallIsAlone DEF Down
  <2>1. OneCall'
    BY <1>11, <2>0 DEF Down, Call
  <2>2. EndsTheEnded'
    BY <1>11, <2>0 DEF Down, Call
  <2>3. TornForGood'
    BY <1>11, <2>0 DEF Down, Call
  <2>4. HoldersEntered'
    BY <1>11, <2>0 DEF Down, Call
  <2>5. HoldersCopied'
    BY <1>11, <2>0 DEF Down, Call
  <2>6. NamesExclusive'
    BY <1>11, <2>0 DEF Down, Call
  <2>7. QED
    BY <2>1, <2>2, <2>3, <2>4, <2>5, <2>6
<1>12. CASE Crash
  <2>0. alone
    BY <1>12 DEF Crash
  <2>1. OneCall'
    BY <1>12, <2>0 DEF Crash
  <2>2. EndsTheEnded'
    BY <1>12, <2>0 DEF Crash
  <2>3. TornForGood'
    BY <1>12, <2>0 DEF Crash
  <2>4. HoldersEntered'
    BY <1>12, <2>0 DEF Crash
  <2>5. HoldersCopied'
    BY <1>12, <2>0 DEF Crash
  <2>6. NamesExclusive'
    BY <1>12, <2>0 DEF Crash
  <2>7. QED
    BY <2>1, <2>2, <2>3, <2>4, <2>5, <2>6
<1>13. CASE BootDone
  <2>0. alone
    BY <1>13 DEF BootDone
  <2>1. OneCall'
    BY <1>13, <2>0 DEF BootDone
  <2>2. EndsTheEnded'
    BY <1>13, <2>0 DEF BootDone
  <2>3. TornForGood'
    BY <1>13, <2>0 DEF BootDone
  <2>4. HoldersEntered'
    BY <1>13, <2>0 DEF BootDone
  <2>5. HoldersCopied'
    BY <1>13, <2>0 DEF BootDone
  <2>6. NamesExclusive'
    BY <1>13, <2>0 DEF BootDone
  <2>7. QED
    BY <2>1, <2>2, <2>3, <2>4, <2>5, <2>6
<1>14. CASE UNCHANGED vars
  BY <1>14 DEF vars
<1>15. QED
  BY <1>1, <1>2, <1>3, <1>4, <1>5, <1>6, <1>7,
     <1>8, <1>9, <1>10, <1>11, <1>12, <1>13, <1>14 DEF Next, Step

(* While calls have come one at a time, the file and the copies have the holders *)
THEOREM SerialRegistry == Spec => []SerialInvariant
<1>1. Init => SerialInvariant
  BY DEF Init, SerialInvariant, OneCall, EndsTheEnded, TornForGood, HoldersIn,
    HoldersEntered, HoldersCopied, NamesExclusive, Holds, InCall
<1>2. QED
  BY <1>1, SerialPreserved, InvariantHolds, PTL DEF Spec

(* As long as calls come one at a time no two holders share a name, whatever  *)
(* refusals, ends, downs, deaths and boots come in between                    *)
THEOREM SerialNamesAreExclusive == Spec => []NamesExclusive
<1>1. SerialInvariant => NamesExclusive
  BY DEF SerialInvariant
<1>2. QED
  BY <1>1, SerialRegistry, PTL

(* As long as calls come one at a time whoever holds a name is in the file    *)
THEOREM SerialNamesStayRegistered == Spec => []NameStaysRegistered
<1>1. SerialInvariant => NameStaysRegistered
  BY DEF SerialInvariant, NameStaysRegistered, HoldersEntered, HoldersIn
<1>2. QED
  BY <1>1, SerialRegistry, PTL

-----------------------------------------------------------------------------
(* NameRegistry implements Allocator: until the first overlap of calls or the  *)
(* first file left torn, every step of the registry is a step of the abstract   *)
(* allocation of names or changes nothing it can see.                           *)

(* While calls come one at a time, a copy is the file with the one edit of    *)
(* its call; who writes has truncated                                         *)
CopyIsEdit(a) ==
  /\ pc[a] = "write" => torn
  /\ op[a] = "register" =>
       /\ \A e \in entries : e[1] # Wanted(a)
       /\ copy[a] = entries \union {<<Wanted(a), a>>}
  /\ op[a] = "byname" => copy[a] = entries
  /\ op[a] = "unregister" => copy[a] = {e \in entries : e[2] # target[a]}

CopiesAreEdits ==
  alone => \A a \in Actors : pc[a] \in {"save", "write"} => CopyIsEdit(a)

LEMMA EditsPreserved ==
  RegistryInvariant /\ SerialInvariant /\ CopiesAreEdits /\ [Next]_vars => CopiesAreEdits'
<1> SUFFICES ASSUME RegistryInvariant, SerialInvariant, CopiesAreEdits, [Next]_vars, alone'
             PROVE  \A a \in Actors : pc'[a] \in {"save", "write"} => CopyIsEdit(a)'
  BY DEF CopiesAreEdits
<1> USE ActorsAssumption, NameAssumption
    DEF RegistryInvariant, TypeOK, SerialInvariant, OneCall, CopiesAreEdits, CopyIsEdit, InCall,
        Actors, Wanted, Entry
<1>1. ASSUME NEW a \in Actors, LoadTorn(a) PROVE CopiesAreEdits'
  BY <1>1 DEF LoadTorn, AfterByName, Return, Refused
<1>2. ASSUME NEW a \in Actors, LoadExists(a) PROVE CopiesAreEdits'
  BY <1>2 DEF LoadExists, Return, Refused
<1>3. ASSUME NEW a \in Actors, LoadRegister(a) PROVE CopiesAreEdits'
  <2>1. target[a] = a
    BY <1>3 DEF LoadRegister, Registering
  <2>2. QED
    BY <1>3, <2>1 DEF LoadRegister, Return, Refused, Taken
<1>4. ASSUME NEW a \in Actors, LoadUnregister(a) PROVE CopiesAreEdits'
  <2>1. target[a] \in Ctrs /\ \A e \in entries : e[2] \in Ctrs
    BY <1>4 DEF LoadUnregister, Registering
  <2>2. op[a] = "byname" => {e \in entries : e[2] # NameOf[target[a]]} = entries
    BY <2>1
  <2>3. QED
    BY <1>4, <2>1, <2>2 DEF LoadUnregister
<1>5. ASSUME NEW a \in Actors, SaveBegin(a) PROVE CopiesAreEdits'
  BY <1>5 DEF SaveBegin
<1>6. ASSUME NEW a \in Actors, SaveEnd(a) PROVE CopiesAreEdits'
  BY <1>6 DEF SaveEnd, AfterByName, Return
<1>7. ASSUME NEW c \in Ctrs, Up(c) PROVE CopiesAreEdits'
  BY <1>7, CallIsAlone DEF Up, Call
<1>8. ASSUME NEW c \in Ctrs, End(c) PROVE CopiesAreEdits'
  <2>1. CASE NameOf[c] = NoName
    <3>1. UNCHANGED <<entries, torn, pc, op, target, copy, alone>>
      BY <1>8, <2>1 DEF End
    <3>2. QED
      BY <3>1
  <2>2. CASE NameOf[c] # NoName
    <3>1. alone /\ \A b \in Actors : pc[b] = "out"
      BY <1>8, <2>2, CallIsAlone DEF End
    <3>2. pc' = [pc EXCEPT ![c] = "load"]
      BY <1>8, <2>2 DEF End, Call
    <3>3. QED
      BY <3>1, <3>2
  <2>3. QED
    BY <2>1, <2>2
<1>9. ASSUME NEW c \in Ctrs, Purge(c) PROVE CopiesAreEdits'
  BY <1>9, CallIsAlone DEF Purge, Call
<1>10. ASSUME NEW c \in Ctrs, OrphanDies(c) PROVE CopiesAreEdits'
  BY <1>10 DEF OrphanDies
<1>11. ASSUME NEW a \in Clients, NEW c \in Ctrs, Down(a, c) PROVE CopiesAreEdits'
  BY <1>11, CallIsAlone DEF Down, Call
<1>12. CASE Crash
  BY <1>12 DEF Crash
<1>13. CASE BootDone
  BY <1>13 DEF BootDone
<1>14. CASE UNCHANGED vars
  BY <1>14 DEF vars
<1>15. QED
  BY <1>1, <1>2, <1>3, <1>4, <1>5, <1>6, <1>7,
     <1>8, <1>9, <1>10, <1>11, <1>12, <1>13, <1>14 DEF Next, Step

LEMMA EditsHold == Spec => [](RegistryInvariant /\ SerialInvariant /\ CopiesAreEdits)
<1>1. Init => CopiesAreEdits
  BY DEF Init, CopiesAreEdits
<1>2. QED
  BY <1>1, EditsPreserved, InvariantHolds, SerialRegistry, PTL DEF Spec

(* The registry as its writer will leave it, seen from the writer and from all *)
(* others                                                                      *)
LEMMA SettledIsCopy ==
  ASSUME OneCall, NEW a \in Actors, pc[a] = "write"
  PROVE  Settled = copy[a]
<1>1. \A b \in Actors : pc[b] = "write" => b = a
  BY DEF OneCall, InCall
<1>2. (CHOOSE b \in Actors : pc[b] = "write") = a
  BY <1>1
<1>3. QED
  BY <1>2 DEF Settled, Locked

LEMMA SettledIsFile ==
  ASSUME ~Locked
  PROVE  Settled = entries
BY DEF Settled

(* What one edit of a registry is to those who hold its names *)
LEMMA PairsOfMore ==
  ASSUME NEW file, NEW n, NEW c
  PROVE  Pairs(file \union {<<n, c>>}) = Pairs(file) \union {<<c, n>>}
<1>1. <<n, c>>[1] = n /\ <<n, c>>[2] = c
  OBVIOUS
<1> DEFINE e == <<n, c>>
<1> HIDE DEF e
<1>2. Pairs(file \union {e}) = Pairs(file) \union {<<e[2], e[1]>>}
  BY DEF Pairs
<1>3. QED
  BY <1>1, <1>2 DEF e

LEMMA PairsOfFewer ==
  ASSUME NEW file, NEW c \in Ctrs,
         \A e \in file : e = <<Wanted(e[2]), e[2]>>
  PROVE  Pairs({e \in file : e[2] # c}) = Pairs(file) \ {<<c, Wanted(c)>>}
<1>1. \A e \in file : <<e[2], e[1]>> = <<c, Wanted(c)>> <=> e[2] = c
  OBVIOUS
<1>2. QED
  BY <1>1 DEF Pairs

(* The sound states come to an end and never come back *)
LEMMA SoundBefore ==
  ASSUME RegistryInvariant, SerialInvariant, [Next]_vars, alone', torn' => Locked'
  PROVE  alone /\ (torn => Locked)
<1> USE DEF RegistryInvariant, TypeOK, SerialInvariant, TornForGood, InCall
<1>1. alone
  <2>1. ASSUME NEW a \in Actors, Step(a) PROVE alone
    BY <2>1 DEF Step, LoadTorn, LoadExists, LoadRegister, LoadUnregister, SaveBegin, SaveEnd
  <2>2. ASSUME NEW c \in Ctrs, Up(c) \/ End(c) \/ Purge(c) \/ OrphanDies(c) PROVE alone
    BY <2>2 DEF Up, End, Purge, OrphanDies, Call
  <2>3. ASSUME NEW a \in Clients, NEW c \in Ctrs, Down(a, c) PROVE alone
    BY <2>3 DEF Down, Call
  <2>4. QED
    BY <2>1, <2>2, <2>3 DEF Next, Crash, BootDone, vars
<1>2. ASSUME torn, ~Locked PROVE torn' /\ ~Locked'
  <2> USE <1>2 DEF Locked, Actors
  <2>1. \A a \in Actors : pc[a] \notin {"save", "write"}
    BY <1>1
  <2>2. ASSUME NEW a \in Actors, Step(a) PROVE torn' /\ ~Locked'
    BY <2>1, <2>2 DEF Step, LoadTorn, LoadExists, LoadRegister, LoadUnregister, SaveBegin, SaveEnd,
      AfterByName, Return
  <2>3. ASSUME NEW c \in Ctrs, Up(c) \/ Purge(c) \/ OrphanDies(c) PROVE torn' /\ ~Locked'
    BY <2>1, <2>3 DEF Up, Purge, OrphanDies, Call
  <2>4. ASSUME NEW c \in Ctrs, End(c) PROVE torn' /\ ~Locked'
    <3>1. CASE NameOf[c] = NoName
      BY <2>1, <2>4, <3>1 DEF End
    <3>2. CASE NameOf[c] # NoName
      BY <2>1, <2>4, <3>2 DEF End, Call
    <3>3. QED
      BY <3>1, <3>2
  <2>5. ASSUME NEW a \in Clients, NEW c \in Ctrs, Down(a, c) PROVE torn' /\ ~Locked'
    BY <2>1, <2>5 DEF Down, Call
  <2>6. QED
    BY <2>1, <2>2, <2>3, <2>4, <2>5 DEF Next, Crash, BootDone, vars
<1>3. QED
  BY <1>1, <1>2

(* Until it is no longer sound, a step of the registry is a step of Allocator *)
LEMMA StepAllocates ==
  ASSUME RegistryInvariant, SerialInvariant, CopiesAreEdits,
         RegistryInvariant', SerialInvariant', [Next]_vars
  PROVE  [Naming!Next]_Naming!vars
<1> SUFFICES ASSUME alone', torn' => Locked' PROVE [Naming!Next]_Naming!vars
  BY DEF Naming!Next
<1> DEFINE Sound == alone /\ (torn => Locked)
<1>0. Sound /\ Sound' /\ OneCall /\ HoldersCopied
  BY SoundBefore DEF SerialInvariant
<1> HIDE DEF Sound
<1>a. ASSUME Settled' = Settled, Users' \subseteq Users PROVE [Naming!Next]_Naming!vars
  BY <1>0, <1>a DEF Sound, Naming!Next, Naming!Leave, Naming!vars, Pairs
<1>b. ASSUME ~Locked, ~Locked', entries' = entries PROVE Settled' = Settled
  BY <1>b DEF Settled, Locked
<1>c. ASSUME NEW a \in Actors, NEW what, NEW c, Call(a, what, c)
      PROVE  ~Locked /\ ~Locked' /\ entries' = entries
  BY <1>c, CallIsAlone DEF Call, Locked, Actors, RegistryInvariant, TypeOK
<1>d. ASSUME NEW c \in Ctrs, phase' = [phase EXCEPT ![c] = "gone"] \/ phase' = [phase EXCEPT ![c] = "lost"]
             \/ phase' = [phase EXCEPT ![c] = "failed"] \/ phase' = [phase EXCEPT ![c] = "starting"]
             \/ phase' = [phase EXCEPT ![c] = "ending"] \/ phase' = phase
      PROVE  Users' \subseteq Users
  BY <1>d DEF Users, Holds, RegistryInvariant, TypeOK, Phase
<1>e. \A e \in entries : e = <<Wanted(e[2]), e[2]>> /\ e[2] \in Ctrs
  BY DEF RegistryInvariant, TypeOK, NoForeignEntries, Entry
<1>1. ASSUME NEW a \in Actors, LoadTorn(a) PROVE [Naming!Next]_Naming!vars
  BY <1>0, <1>1 DEF Sound, LoadTorn
<1>2. ASSUME NEW a \in Actors, LoadExists(a) \/ LoadRegister(a) \/ LoadUnregister(a)
      PROVE  [Naming!Next]_Naming!vars
  <2>1. ~Locked /\ ~Locked' /\ entries' = entries
    BY <1>2 DEF LoadExists, LoadRegister, LoadUnregister, Return, Locked, RegistryInvariant, TypeOK
  <2>2. target[a] \in Ctrs
    BY <1>2 DEF LoadExists, LoadRegister, LoadUnregister, RegistryInvariant, Registering, InCall
  <2>3. Users' \subseteq Users
    BY <1>2, <1>d, <2>2 DEF LoadExists, LoadRegister, LoadUnregister, Refused
  <2>4. QED
    BY <1>a, <1>b, <2>1, <2>3
<1>3. ASSUME NEW a \in Actors, SaveBegin(a) PROVE [Naming!Next]_Naming!vars
  <2>1. Settled = entries
    BY <1>3, SettledIsFile DEF SaveBegin
  <2>2. Settled' = copy[a]
    <3>1. pc'[a] = "write" /\ copy' = copy
      BY <1>3 DEF SaveBegin, RegistryInvariant, TypeOK
    <3>2. OneCall'
      BY DEF SerialInvariant
    <3>3. \A b \in Actors : pc'[b] = "write" => b = a
      BY <3>1, <3>2 DEF OneCall, InCall
    <3>4. (CHOOSE b \in Actors : pc'[b] = "write") = a
      BY <3>1, <3>3
    <3>5. Locked'
      BY <3>1 DEF Locked
    <3>6. QED
      BY <3>1, <3>4, <3>5 DEF Settled
  <2>3. Users' = Users
    BY <1>3 DEF SaveBegin, Users, Holds
  <2>4. CopyIsEdit(a) /\ op[a] \in {"register", "byname", "unregister"} /\ target[a] \in Ctrs
    BY <1>0, <1>3 DEF Sound, CopiesAreEdits, SaveBegin, RegistryInvariant, Registering, InCall, TypeOK, Op
  <2>5. CASE op[a] = "register"
    <3>1. copy[a] = entries \union {<<Wanted(a), a>>} /\ \A e \in entries : e[1] # Wanted(a)
      BY <2>4, <2>5 DEF CopyIsEdit
    <3>2. Pairs(Settled)' = Pairs(Settled) \union {<<a, Wanted(a)>>}
      <4>1. Pairs(Settled)' = Pairs(copy[a])
        BY <2>2 DEF Pairs
      <4>2. Pairs(entries \union {<<Wanted(a), a>>}) = Pairs(entries) \union {<<a, Wanted(a)>>}
        BY PairsOfMore
      <4>3. QED
        BY <2>1, <3>1, <4>1, <4>2
    <3>3. a \notin Naming!Holders /\ Wanted(a) \notin Naming!Taken
      BY <1>e, <2>1, <3>1 DEF Naming!Holders, Naming!Taken, Pairs
    <3>4. Naming!Take
      <4> DEFINE p == <<a, Wanted(a)>>
      <4>1. p \in Pairs(Settled)' /\ p[1] = a /\ p[2] = Wanted(a)
        BY <3>2
      <4> HIDE DEF p
      <4>2. Pairs(Settled)' = Pairs(Settled) \union {p}
        BY <3>2 DEF p
      <4>3. QED
        BY <2>3, <3>3, <4>1, <4>2 DEF Naming!Take
    <3>5. QED
      BY <1>0, <3>4 DEF Sound, Naming!Next
  <2>6. CASE op[a] = "byname"
    BY <1>a, <2>1, <2>2, <2>3, <2>4, <2>6 DEF CopyIsEdit
  <2>7. CASE op[a] = "unregister"
    <3> DEFINE c == target[a]
               p == <<c, Wanted(c)>>
    <3>1. Pairs(Settled)' = Pairs(Settled) \ {p}
      BY <1>e, <2>1, <2>2, <2>4, <2>7, PairsOfFewer DEF CopyIsEdit, Pairs
    <3>2. c \notin Users
      BY <1>0, <1>3, <2>7 DEF Sound, SerialInvariant, EndsTheEnded, InCall, SaveBegin, Users, Holds
    <3>3. p[1] = c
      OBVIOUS
    <3> HIDE DEF c, p
    <3>4. CASE p \in Pairs(Settled)
      <4>1. Naming!Drop
        BY <2>3, <3>1, <3>2, <3>3, <3>4 DEF Naming!Drop
      <4>2. QED
        BY <1>0, <4>1 DEF Sound, Naming!Next
    <3>5. CASE p \notin Pairs(Settled)
      <4>1. Pairs(Settled)' = Pairs(Settled)
        BY <3>1, <3>5
      <4>2. QED
        BY <1>0, <2>3, <4>1 DEF Sound, Naming!Next, Naming!Leave
    <3>6. QED
      BY <3>4, <3>5
  <2>8. QED
    BY <2>4, <2>5, <2>6, <2>7
<1>4. ASSUME NEW a \in Actors, SaveEnd(a) PROVE [Naming!Next]_Naming!vars
  <2>1. Settled = copy[a]
    BY <1>0, <1>4, SettledIsCopy DEF SaveEnd
  <2>2. ~Locked'
    <3>1. \A b \in Actors : b # a => pc[b] = "out" /\ pc'[b] = "out"
      BY <1>0, <1>4 DEF SaveEnd, OneCall, InCall, AfterByName, Return, RegistryInvariant, TypeOK
    <3>2. pc'[a] # "write"
      BY <1>4 DEF SaveEnd, AfterByName, Return, RegistryInvariant, TypeOK
    <3>3. QED
      BY <3>1, <3>2 DEF Locked
  <2>3. Settled' = Settled
    BY <1>4, <2>1, <2>2 DEF SaveEnd, Settled, Locked
  <2>4. target[a] \in Ctrs
    BY <1>4 DEF SaveEnd, RegistryInvariant, Registering, InCall
  <2>5. CASE op[a] = "register"
    <3>1. a = target[a] /\ phase' = [phase EXCEPT ![a] = "held"]
      BY <1>4, <2>5 DEF SaveEnd, RegistryInvariant, Registering, InCall
    <3>2. Users' = Users \union {a}
      BY <2>4, <3>1 DEF Users, Holds, RegistryInvariant, TypeOK
    <3>3. Users \union {a} \subseteq Naming!Holders
      <4>1. \A c \in Users \union {a} : <<Wanted(c), c>> \in copy[a]
        BY <1>0, <1>4, <2>5 DEF HoldersCopied, HoldersIn, Users, SaveEnd
      <4>2. \A c \in Users \union {a} : <<c, Wanted(c)>> \in Pairs(Settled)
        <5> SUFFICES ASSUME NEW c \in Users \union {a} PROVE <<c, Wanted(c)>> \in Pairs(Settled)
          OBVIOUS
        <5> DEFINE e == <<Wanted(c), c>>
        <5>1. e \in Settled /\ e[1] = Wanted(c) /\ e[2] = c
          BY <2>1, <4>1
        <5> HIDE DEF e
        <5>2. QED
          BY <5>1 DEF Pairs
      <4>3. \A c : <<c, Wanted(c)>>[1] = c
        OBVIOUS
      <4> HIDE DEF Wanted
      <4>4. QED
        BY <4>2, <4>3 DEF Naming!Holders
    <3>4. QED
      BY <1>0, <2>3, <3>2, <3>3 DEF Sound, Naming!Next, Naming!Use, Pairs
  <2>6. CASE op[a] # "register"
    <3>1. Users' \subseteq Users
      BY <1>4, <1>d, <2>4, <2>6 DEF SaveEnd, AfterByName
    <3>2. QED
      BY <1>a, <2>3, <3>1
  <2>7. QED
    BY <2>5, <2>6
<1>5. ASSUME NEW c \in Ctrs, Up(c) \/ Purge(c) PROVE [Naming!Next]_Naming!vars
  <2>1. ~Locked /\ ~Locked' /\ entries' = entries
    BY <1>5, <1>c DEF Up, Purge, Actors
  <2>2. Users' \subseteq Users
    BY <1>5, <1>d DEF Up, Purge
  <2>3. QED
    BY <1>a, <1>b, <2>1, <2>2
<1>6. ASSUME NEW c \in Ctrs, End(c) PROVE [Naming!Next]_Naming!vars
  <2>1. Users' \subseteq Users
    BY <1>6, <1>d DEF End
  <2>2. CASE NameOf[c] = NoName
    <3>1. Settled' = Settled
      BY <1>6, <2>2 DEF End, Settled, Locked
    <3>2. QED
      BY <1>a, <2>1, <3>1
  <2>3. CASE NameOf[c] # NoName
    <3>1. ~Locked /\ ~Locked' /\ entries' = entries
      BY <1>6, <1>c, <2>3 DEF End, Actors
    <3>2. QED
      BY <1>a, <1>b, <2>1, <3>1
  <2>4. QED
    BY <2>2, <2>3
<1>7. ASSUME NEW a \in Clients, NEW c \in Ctrs, Down(a, c) PROVE [Naming!Next]_Naming!vars
  <2>1. ~Locked /\ ~Locked' /\ entries' = entries
    BY <1>7, <1>c DEF Down, Actors
  <2>2. Users' \subseteq Users
    BY <1>7 DEF Down, Users, Holds, RegistryInvariant, TypeOK
  <2>3. QED
    BY <1>a, <1>b, <2>1, <2>2
<1>8. ASSUME NEW c \in Ctrs, OrphanDies(c) PROVE [Naming!Next]_Naming!vars
  <2>1. Settled' = Settled
    BY <1>8 DEF OrphanDies, Settled, Locked
  <2>2. Users' \subseteq Users
    BY <1>8, <1>d DEF OrphanDies
  <2>3. QED
    BY <1>a, <2>1, <2>2
<1>9. CASE Crash
  <2>1. ~Locked'
    BY <1>9 DEF Crash, Locked
  <2>2. ~Locked
    <3>1. Locked => torn
      BY <1>0 DEF Sound, Locked, CopiesAreEdits, CopyIsEdit
    <3>2. QED
      BY <1>0, <1>9, <2>1, <3>1 DEF Sound, Crash
  <2>3. Users' \subseteq Users
    BY <1>9 DEF Crash, Users, Holds
  <2>4. QED
    BY <1>9, <1>a, <1>b, <2>1, <2>2, <2>3 DEF Crash
<1>10. CASE BootDone
  BY <1>10, <1>a DEF BootDone, Settled, Locked, Users, Holds
<1>11. CASE UNCHANGED vars
  BY <1>11, <1>a DEF vars, Settled, Locked, Users, Holds
<1>12. QED
  BY <1>1, <1>2, <1>3, <1>4, <1>5, <1>6, <1>7, <1>8, <1>9, <1>10, <1>11 DEF Next, Step

(* The registry of names implements the abstract allocator: while calls come   *)
(* one at a time and no death tears the file, a name is taken only when nobody *)
(* has it, and stays with its container as long as the container runs under it *)
THEOREM RegistryAllocatesNames == Spec => NamesAllocated
<1>1. Init => Naming!Init
  BY DEF Init, Naming!Init, Settled, Locked, Pairs, Users, Holds
<1>2. QED
  BY <1>1, StepAllocates, EditsHold, PTL DEF Spec, NamesAllocated, Naming!Spec

(* What the allocator promises follows for the registry: until the first overlap *)
(* of calls or the first torn file no name has two containers, no container two   *)
(* names, and every container that runs under a name has it                       *)
THEOREM AllocatedNamesAreExclusive == Spec => []Naming!Exclusive
<1> DEFINE Inv == Naming!Exclusive
<1> USE DEF Naming!Exclusive, Naming!Holders
<1>1. Naming!Init => Inv
  BY DEF Naming!Init
<1>2. Inv /\ [Naming!Next]_Naming!vars => Inv'
  <2> DEFINE Sound == alone /\ (torn => Locked)
  <2>1. ASSUME Inv, Sound, Naming!Take PROVE Inv'
    BY <2>1 DEF Naming!Take, Naming!Taken
  <2>2. ASSUME Inv, Sound, Naming!Use PROVE Inv'
    BY <2>2 DEF Naming!Use
  <2>3. ASSUME Inv, Sound, Naming!Leave PROVE Inv'
    BY <2>3 DEF Naming!Leave
  <2>4. ASSUME Inv, Sound, Naming!Drop PROVE Inv'
    BY <2>4 DEF Naming!Drop
  <2>5. QED
    BY <2>1, <2>2, <2>3, <2>4 DEF Naming!Next, Naming!vars
<1>3. QED
  BY <1>1, <1>2, RegistryAllocatesNames, PTL DEF NamesAllocated, Naming!Spec
=============================================================================
