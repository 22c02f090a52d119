------------------------------ MODULE HostsFile ------------------------------
(* The hosts file of one network (hosts/manager.go), which its containers see *)
(* as /etc/hosts.  Lines are found by substring: a line goes when the text it *)
(* is searched for occurs anywhere in it.  hostsMutex makes an edit one step, *)
(* unless the daemon dies in it and leaves the file empty.                    *)
EXTENDS Naturals

CONSTANTS
  Ctrs,      \* the containers of the network
  Unnamed,   \* those without NAME, whose name is ""
  NameIn,    \* <<c, d>>: c's name occurs in d's line ("" occurs in every line)
  AddressIn  \* <<h, k>>: address h occurs in address k, as 10.20.1.2 in 10.20.1.20

Localhost == "localhost"

ASSUME NameInAssumption ==
  /\ Unnamed \X (Ctrs \union {Localhost}) \subseteq NameIn
  /\ NameIn \subseteq Ctrs \X (Ctrs \union {Localhost})
  /\ \A c \in Ctrs : <<c, c>> \in NameIn
ASSUME AddressInAssumption == AddressIn \subseteq Nat \X Nat

VARIABLES
  made,   \* the file exists
  lines   \* its lines: whose name, which address

hosts == <<made, lines>>

Line(name, host) == [name |-> name, host |-> host]
Base == {Line(Localhost, 0)}

HostsInit == made = FALSE /\ lines = {}

HostsType ==
  /\ made \in BOOLEAN
  /\ \A l \in lines : l.name \in Ctrs \union {Localhost} /\ l.host \in Nat

(* The base content, written without a look at what is there *)
WriteBase == made' = TRUE /\ lines' = Base

(* NewHostsManager gives a file that is missing the base content *)
Content == IF made THEN lines ELSE Base

Without(c) == {l \in Content : <<c, l.name>> \notin NameIn}

AddContainer(c, host) ==
  /\ made' = TRUE
  /\ lines' = Without(c) \union {Line(c, host)}

(* As ReleaseIP calls it, which spares the file a name that is empty *)
RemoveContainer(c, host) ==
  /\ made' = TRUE
  /\ lines' = IF c \in Unnamed THEN Content
              ELSE {l \in Without(c) : <<host, l.host>> \notin AddressIn}

(* A death between truncate and write *)
TearHosts == made' = TRUE /\ lines' = {}

(* config gives the address of each container, 0 for none *)
UpdateAllContainers(config) ==
  /\ made' = TRUE
  /\ lines' = Base \union {Line(c, config[c]) : c \in {d \in Ctrs : config[d] # 0}}
=============================================================================
