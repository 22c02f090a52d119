------------------------- MODULE DaemonControlProofs -------------------------
(* Theorems about DaemonControl for any number of daemons, downs and kills.   *)
EXTENDS DaemonControl, TLAPS

(* The commands of a lone daemon: it starts with no down at work and no other *)
(* daemon starting, and later one down at a time works on it                  *)
LoneCommands ==
  lone # None =>
    /\ daemon[lone] \notin {"none", "close"}
    /\ \A d \in Daemons \ {lone} : daemon[d] \notin Starting
    /\ daemon[lone] \in Starting => \A s \in Downs : down[s] = "idle"
    /\ \A s, t \in Downs : down[s] # "idle" /\ down[t] # "idle" => s = t

(* The two files at each step of its start *)
LoneStart ==
  lone # None =>
    /\ daemon[lone] = "pidwrite" => pidFile = Torn
    /\ daemon[lone] \in {"unlink", "listen", "chmod"} => pidFile = lone
    /\ daemon[lone] = "listen" => sock = None
    /\ daemon[lone] = "chmod" => sock = lone
    /\ daemon[lone] = "serving" /\ (\A s \in Downs : down[s] = "idle") =>
         sock = lone /\ pidFile = lone

(* The two files at each step of a down of it *)
LoneDown ==
  lone # None =>
    \A s \in Downs :
      /\ down[s] # "idle" => pidFile = lone
      /\ down[s] = "unlink" => sock = lone
      /\ down[s] \in {"read", "kill", "clean"} => sock = None
      /\ down[s] = "kill" => victim[s] = lone
      /\ down[s] = "clean" => daemon[lone] = "dead"

(* After a down that has succeeded nothing is left, until the next command *)
Stopped ==
  stopped # None =>
    /\ stopped = lone
    /\ Quiet
    /\ daemon[stopped] = "dead"
    /\ sock = None
    /\ pidFile = None

LoneInvariant == TypeOK /\ LoneCommands /\ LoneStart /\ LoneDown /\ Stopped

(* zylod up and down keep the types of the two files and of their own state,  *)
(* however many of them overlap or are killed                                  *)
LEMMA TypePreserved == TypeOK /\ [Next]_vars => TypeOK'
<1> SUFFICES ASSUME TypeOK, [Next]_vars PROVE TypeOK'
  OBVIOUS
<1> USE NoneAssumption, BoundAssumption
    DEF TypeOK, DaemonPc, DownPc, Starting, GoDaemon, GoDown, files, history
<1>1. ASSUME NEW d \in Daemons, Up(d) \/ Boot(d) \/ OpenPidFile(d) \/ WritePid(d)
      PROVE  TypeOK'
  BY <1>1 DEF Up, Boot, OpenPidFile, WritePid
<1>2. ASSUME NEW d \in Daemons, RemoveSocket(d) \/ Listen(d) \/ Chmod(d) \/ CloseListener(d)
      PROVE  TypeOK'
  BY <1>2 DEF RemoveSocket, Listen, Chmod, CloseListener
<1>3. ASSUME NEW d \in Daemons, KillDaemon(d) PROVE TypeOK'
  BY <1>3 DEF KillDaemon
<1>4. ASSUME NEW s \in Downs, Down(s) \/ DownRemoveSocket(s) \/ ReadPid(s)
      PROVE  TypeOK'
  BY <1>4 DEF Down, DownRemoveSocket, ReadPid
<1>5. ASSUME NEW s \in Downs, Kill(s) \/ RemovePidFile(s) \/ KillDown(s)
      PROVE  TypeOK'
  BY <1>5 DEF Kill, RemovePidFile, KillDown
<1>6. CASE UNCHANGED vars
  BY <1>6 DEF vars
<1>7. QED
  BY <1>1, <1>2, <1>3, <1>4, <1>5, <1>6 DEF Next

LEMMA LonePreserved == LoneInvariant /\ [Next]_vars => LoneInvariant'
<1> SUFFICES ASSUME LoneInvariant, [Next]_vars PROVE LoneInvariant'
  OBVIOUS
<1>0. TypeOK'
  BY TypePreserved DEF LoneInvariant
<1> USE NoneAssumption, BoundAssumption
    DEF LoneInvariant, TypeOK, LoneCommands, LoneStart, LoneDown, Stopped, Quiet, DaemonPc,
        DownPc, Starting, GoDaemon, GoDown, files, history
<1>1. ASSUME NEW d \in Daemons, Up(d) PROVE LoneInvariant'
  BY <1>0, <1>1 DEF Up
<1>2. ASSUME NEW d \in Daemons, Boot(d) PROVE LoneInvariant'
  BY <1>0, <1>2 DEF Boot
<1>3. ASSUME NEW d \in Daemons, OpenPidFile(d) PROVE LoneInvariant'
  BY <1>0, <1>3 DEF OpenPidFile
<1>4. ASSUME NEW d \in Daemons, WritePid(d) PROVE LoneInvariant'
  BY <1>0, <1>4 DEF WritePid
<1>5. ASSUME NEW d \in Daemons, RemoveSocket(d) PROVE LoneInvariant'
  BY <1>0, <1>5 DEF RemoveSocket
<1>6. ASSUME NEW d \in Daemons, Listen(d) PROVE LoneInvariant'
  BY <1>0, <1>6 DEF Listen
<1>7. ASSUME NEW d \in Daemons, Chmod(d) PROVE LoneInvariant'
  BY <1>0, <1>7 DEF Chmod
<1>8. ASSUME NEW d \in Daemons, CloseListener(d) PROVE LoneInvariant'
  BY <1>0, <1>8 DEF CloseListener
<1>9. ASSUME NEW d \in Daemons, KillDaemon(d) PROVE LoneInvariant'
  BY <1>0, <1>9 DEF KillDaemon
<1>10. ASSUME NEW s \in Downs, Down(s) PROVE LoneInvariant'
  BY <1>0, <1>10 DEF Down
<1>11. ASSUME NEW s \in Downs, DownRemoveSocket(s) PROVE LoneInvariant'
  BY <1>0, <1>11 DEF DownRemoveSocket
<1>12. ASSUME NEW s \in Downs, ReadPid(s) PROVE LoneInvariant'
  BY <1>0, <1>12 DEF ReadPid
<1>13. ASSUME NEW s \in Downs, Kill(s) PROVE LoneInvariant'
  BY <1>0, <1>13 DEF Kill
<1>14. ASSUME NEW s \in Downs, RemovePidFile(s) PROVE LoneInvariant'
  BY <1>0, <1>14 DEF RemovePidFile
<1>15. ASSUME NEW s \in Downs, KillDown(s) PROVE LoneInvariant'
  BY <1>0, <1>15 DEF KillDown
<1>16. CASE UNCHANGED vars
  BY <1>16 DEF vars
<1>17. QED
  BY <1>1, <1>2, <1>3, <1>4, <1>5, <1>6, <1>7, <1>8, <1>9, <1>10, <1>11, <1>12, <1>13, <1>14,
     <1>15, <1>16 DEF Next

LEMMA LoneInitially == Init => LoneInvariant
BY NoneAssumption, BoundAssumption
   DEF Init, LoneInvariant, TypeOK, LoneCommands, LoneStart, LoneDown, Stopped, DaemonPc, DownPc

(* The invariant behind the three properties: what the two files hold at each  *)
(* step of a lone up and of a lone down                                        *)
THEOREM LoneInvariantHolds == Spec => []LoneInvariant
BY LoneInitially, LonePreserved, PTL DEF Spec

(* Commands, files and histories keep their types                              *)
THEOREM ControlTypeCorrect == Spec => []TypeOK
BY LoneInvariantHolds, PTL DEF LoneInvariant

(* An up beside which no other command runs ends, if it serves, as the daemon  *)
(* the socket and the pid file lead to, whatever was there before              *)
THEOREM UpTakesOver == Spec => []LoneUpTakesOver
<1>1. LoneInvariant => LoneUpTakesOver
  BY DEF LoneInvariant, LoneStart, LoneUpTakesOver, Quiet
<1>2. QED
  BY <1>1, LoneInvariantHolds, PTL

(* A down that succeeds after such an up has killed that daemon and leaves     *)
(* neither of the files                                                        *)
THEOREM DownStopsIt == Spec => []LoneDownStops
<1>1. LoneInvariant => LoneDownStops
  BY DEF LoneInvariant, Stopped, LoneDownStops
<1>2. QED
  BY <1>1, LoneInvariantHolds, PTL

(* Past its boot, such an up ends before it serves only if it is killed        *)
THEOREM UpServes == Spec => LoneUpServes
<1> DEFINE Fails(d) ==
      lone = d /\ daemon[d] \in Starting \ {"boot"} /\ daemon'[d] = "dead"
<1>1. LoneInvariant /\ [Next]_vars => [\A d \in Daemons : Fails(d) => kills' > kills]_vars
  <2> SUFFICES ASSUME LoneInvariant, Next, NEW d \in Daemons, Fails(d) PROVE kills' > kills
    OBVIOUS
  <2> USE NoneAssumption, BoundAssumption
      DEF LoneInvariant, TypeOK, LoneCommands, LoneStart, LoneDown, Starting, GoDaemon, GoDown
  <2>1. lone # None /\ daemon[d] # "dead" /\ daemon[d] # "boot" /\ daemon[d] # "close"
    OBVIOUS
  <2>2. ASSUME NEW e \in Daemons, Up(e) \/ Boot(e) \/ OpenPidFile(e) \/ WritePid(e)
        PROVE  FALSE
    BY <2>1, <2>2 DEF Up, Boot, OpenPidFile, WritePid
  <2>3. ASSUME NEW e \in Daemons,
               RemoveSocket(e) \/ Listen(e) \/ Chmod(e) \/ CloseListener(e)
        PROVE  FALSE
    BY <2>1, <2>3 DEF RemoveSocket, Listen, Chmod, CloseListener
  <2>4. ASSUME NEW e \in Daemons, KillDaemon(e) PROVE kills' > kills
    BY <2>4 DEF KillDaemon
  <2>5. ASSUME NEW s \in Downs, Down(s) \/ DownRemoveSocket(s) \/ ReadPid(s) PROVE FALSE
    BY <2>1, <2>5 DEF Down, DownRemoveSocket, ReadPid
  <2>6. ASSUME NEW s \in Downs, Kill(s) \/ RemovePidFile(s) \/ KillDown(s) PROVE FALSE
    BY <2>1, <2>6 DEF Kill, RemovePidFile, KillDown
  <2>7. QED
    BY <2>2, <2>3, <2>4, <2>5, <2>6 DEF Next
<1>2. QED
  BY <1>1, LoneInvariantHolds, PTL DEF Spec, LoneUpServes
==============================================================================
