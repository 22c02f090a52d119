---------------------------- MODULE DaemonControl ----------------------------
(* zylod up and zylod down (daemon/daemon.go, socket.go, startServer): two     *)
(* commands that know of each other only through two files, the socket and     *)
(* the pid file.  Several daemons may run; every one of them and every down is *)
(* a process that can be killed between two of its system calls.               *)
EXTENDS Naturals, FiniteSets

CONSTANTS
  Daemons,  \* processes of zylod up
  Downs,    \* processes of zylod down, each for one command at a time
  None,     \* no file
  Torn,     \* a pid file truncated and not yet written
  MaxKills  \* bound on the processes that are killed from outside

ASSUME NoneAssumption == None \notin Daemons /\ Torn \notin Daemons /\ None # Torn
ASSUME BoundAssumption == MaxKills \in Nat

VARIABLES
  daemon,   \* what each zylod up does next
  down,     \* what each zylod down does next
  victim,   \* the pid it has read
  sock,     \* whose listener the socket file leads to, dead or alive
  pidFile,  \* the pid in the pid file
  kills,
  lone,     \* history: the daemon of the last up, if nothing ran beside it, and
            \* since it served only downs that nothing ran beside
  stopped   \* history: the lone daemon, once a down of it has succeeded

vars == <<daemon, down, victim, sock, pidFile, kills, lone, stopped>>
files == <<sock, pidFile>>
history == <<lone, stopped>>

Starting == {"boot", "pidopen", "pidwrite", "unlink", "listen", "chmod", "close"}
DaemonPc == Starting \union {"none", "serving", "dead"}
DownPc == {"idle", "unlink", "read", "kill", "clean"}

Init ==
  /\ daemon = [d \in Daemons |-> "none"]
  /\ down = [s \in Downs |-> "idle"]
  /\ victim = [s \in Downs |-> None]
  /\ sock = None
  /\ pidFile = None
  /\ kills = 0
  /\ lone = None
  /\ stopped = None

GoDaemon(d, label) == daemon' = [daemon EXCEPT ![d] = label]
GoDown(s, label) == down' = [down EXCEPT ![s] = label]

Quiet ==
  /\ \A d \in Daemons : daemon[d] \notin Starting
  /\ \A s \in Downs : down[s] = "idle"

(***************************************************************************)
(* zylod up.                                                               *)
(***************************************************************************)
Up(d) ==
  /\ daemon[d] = "none"
  /\ GoDaemon(d, "boot")
  /\ lone' = IF Quiet THEN d ELSE None
  /\ stopped' = None
  /\ UNCHANGED <<down, victim, files, kills>>

(* Networks, clean-up, hosts files; what fails there is log.Fatal *)
Boot(d) ==
  /\ daemon[d] = "boot"
  /\ GoDaemon(d, "pidopen") \/ GoDaemon(d, "dead")
  /\ UNCHANGED <<down, victim, files, kills, history>>

(* Mutant: a pid file that is there is kept *)
KeepPidFile(d) ==
  /\ daemon[d] = "pidopen"
  /\ IF pidFile = None
       THEN GoDaemon(d, "pidwrite") /\ pidFile' = Torn
       ELSE GoDaemon(d, "unlink") /\ UNCHANGED pidFile
  /\ UNCHANGED <<down, victim, sock, kills, history>>

(* os.WriteFile *)
OpenPidFile(d) ==
  /\ daemon[d] = "pidopen"
  /\ GoDaemon(d, "pidwrite")
  /\ pidFile' = Torn
  /\ UNCHANGED <<down, victim, sock, kills, history>>

(* A pid file removed since it was opened is written all the same, and lost;  *)
(* of two pids, which have equally many digits, the later covers the earlier  *)
WritePid(d) ==
  /\ daemon[d] = "pidwrite"
  /\ GoDaemon(d, "unlink")
  /\ pidFile' = IF pidFile = None THEN None ELSE d
  /\ UNCHANGED <<down, victim, sock, kills, history>>

(* Mutant: sockCreate leaves a socket that is there *)
KeepSocket(d) ==
  /\ daemon[d] = "unlink"
  /\ GoDaemon(d, "listen")
  /\ UNCHANGED <<down, victim, files, kills, history>>

(* sockCreate removes whatever is there, the socket of a daemon that serves *)
(* included                                                                 *)
RemoveSocket(d) ==
  /\ daemon[d] = "unlink"
  /\ GoDaemon(d, "listen")
  /\ sock' = None
  /\ UNCHANGED <<down, victim, pidFile, kills, history>>

Listen(d) ==
  /\ daemon[d] = "listen"
  /\ IF sock = None
       THEN sock' = d /\ GoDaemon(d, "chmod")
       ELSE GoDaemon(d, "dead") /\ UNCHANGED sock
  /\ UNCHANGED <<down, victim, pidFile, kills, history>>

(* Without a socket file Chmod fails; the deferred Close removes what is      *)
(* there by then                                                              *)
Chmod(d) ==
  /\ daemon[d] = "chmod"
  /\ GoDaemon(d, IF sock = None THEN "close" ELSE "serving")
  /\ UNCHANGED <<down, victim, files, kills, history>>

CloseListener(d) ==
  /\ daemon[d] = "close"
  /\ GoDaemon(d, "dead")
  /\ sock' = None
  /\ UNCHANGED <<down, victim, pidFile, kills, history>>

(***************************************************************************)
(* zylod down.                                                             *)
(***************************************************************************)
Down(s) ==
  /\ down[s] = "idle"
  /\ GoDown(s, "unlink")
  /\ lone' = IF Quiet /\ lone # None /\ daemon[lone] = "serving" THEN lone ELSE None
  /\ stopped' = None
  /\ UNCHANGED <<daemon, victim, files, kills>>

(* Without a socket file the command ends here *)
DownRemoveSocket(s) ==
  /\ down[s] = "unlink"
  /\ GoDown(s, IF sock = None THEN "idle" ELSE "read")
  /\ sock' = None
  /\ UNCHANGED <<daemon, victim, pidFile, kills, history>>

(* Mutants: a pid file without a pid is used; any daemon that serves is taken *)
(* for the one to stop                                                        *)
ReadUnparsed(s) ==
  /\ down[s] = "read"
  /\ GoDown(s, "kill")
  /\ victim' = [victim EXCEPT ![s] = pidFile]
  /\ UNCHANGED <<daemon, files, kills, history>>

ReadAny(s) ==
  /\ down[s] = "read"
  /\ \E d \in Daemons :
       /\ daemon[d] = "serving"
       /\ GoDown(s, "kill")
       /\ victim' = [victim EXCEPT ![s] = d]
  /\ UNCHANGED <<daemon, files, kills, history>>

ReadPid(s) ==
  /\ down[s] = "read"
  /\ IF pidFile \in {None, Torn}
       THEN GoDown(s, "idle") /\ UNCHANGED victim
       ELSE GoDown(s, "kill") /\ victim' = [victim EXCEPT ![s] = pidFile]
  /\ UNCHANGED <<daemon, files, kills, history>>

(* A process that is gone is an error, and the pid file stays *)
Kill(s) ==
  /\ down[s] = "kill"
  /\ IF daemon[victim[s]] = "dead"
       THEN GoDown(s, "idle") /\ UNCHANGED daemon
       ELSE GoDown(s, "clean") /\ GoDaemon(victim[s], "dead")
  /\ UNCHANGED <<victim, files, kills, history>>

RemovePidFile(s) ==
  /\ down[s] = "clean"
  /\ GoDown(s, "idle")
  /\ pidFile' = None
  /\ stopped' = IF pidFile # None THEN lone ELSE None
  /\ UNCHANGED <<daemon, victim, sock, kills, lone>>

(***************************************************************************)
(* Processes are killed, and leave what they have done.                    *)
(***************************************************************************)
KillDaemon(d) ==
  /\ kills < MaxKills
  /\ daemon[d] \in Starting \union {"serving"}
  /\ kills' = kills + 1
  /\ GoDaemon(d, "dead")
  /\ UNCHANGED <<down, victim, files, history>>

KillDown(s) ==
  /\ kills < MaxKills
  /\ down[s] # "idle"
  /\ kills' = kills + 1
  /\ GoDown(s, "idle")
  /\ lone' = None
  /\ UNCHANGED <<daemon, victim, files, stopped>>

-----------------------------------------------------------------------------
Next ==
  \/ \E d \in Daemons :
       Up(d) \/ Boot(d) \/ OpenPidFile(d) \/ WritePid(d) \/ RemoveSocket(d) \/ Listen(d)
         \/ Chmod(d) \/ CloseListener(d) \/ KillDaemon(d)
  \/ \E s \in Downs :
       Down(s) \/ DownRemoveSocket(s) \/ ReadPid(s) \/ Kill(s) \/ RemovePidFile(s) \/ KillDown(s)

Spec == Init /\ [][Next]_vars

-----------------------------------------------------------------------------
TypeOK ==
  /\ daemon \in [Daemons -> DaemonPc]
  /\ down \in [Downs -> DownPc]
  /\ victim \in [Downs -> Daemons \union {None}]
  /\ sock \in Daemons \union {None}
  /\ pidFile \in Daemons \union {None, Torn}
  /\ kills \in 0..MaxKills
  /\ {lone, stopped} \subseteq Daemons \union {None}

(* Whatever killed and overlapping commands have left behind, the two files   *)
(* and daemons that still run included, an up beside which no other command    *)
(* runs makes its daemon the one that clients reach and that down will kill    *)
LoneUpTakesOver ==
  lone # None /\ Quiet /\ daemon[lone] = "serving" => sock = lone /\ pidFile = lone

(* Such an up fails only where its boot does, or when it is killed: no socket *)
(* and no pid file of an earlier daemon, dead or alive, stands in its way     *)
LoneUpServes ==
  [][\A d \in Daemons :
       lone = d /\ daemon[d] \in Starting \ {"boot"} /\ daemon'[d] = "dead"
         => kills' > kills]_vars

(* A down that succeeds after such an up, with nothing beside it, has killed   *)
(* that daemon and leaves neither of the files                                 *)
LoneDownStops ==
  stopped # None /\ Quiet =>
    daemon[stopped] = "dead" /\ sock = None /\ pidFile = None
==============================================================================
