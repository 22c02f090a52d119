------------------------------ MODULE Allocator ------------------------------
(* What the code promises about a thing only one may have: the name of a      *)
(* container, the address of a container, the subnet of a network.  It is     *)
(* taken while nobody holds it, a client that uses what it holds loses        *)
(* nothing, and what a client no longer uses comes back in any order.  The    *)
(* promise stands while the allocator is sound; the modules that implement it *)
(* say until when that is.                                                    *)
EXTENDS Naturals

VARIABLES
  held,   \* <<client, thing>>: the client has the thing
  using,  \* the clients at work with what they hold
  sound   \* the promise stands

vars == <<held, using, sound>>

Holders == {p[1] : p \in held}
Taken == {p[2] : p \in held}

Init ==
  /\ held = {}
  /\ using = {}
  /\ sound = TRUE

Take ==
  /\ \E p \in held' :
       /\ p[1] \notin Holders
       /\ p[2] \notin Taken
       /\ held' = held \union {p}
  /\ UNCHANGED using

Use ==
  /\ using \subseteq using'
  /\ using' \subseteq Holders
  /\ UNCHANGED held

(* A death of the daemon may end many uses at once *)
Leave ==
  /\ using' \subseteq using
  /\ UNCHANGED held

Drop ==
  /\ \E p \in held :
       /\ p[1] \notin using
       /\ held' = held \ {p}
  /\ UNCHANGED using

Next ==
  \/ /\ sound /\ sound'
     /\ Take \/ Use \/ Leave \/ Drop
  \/ ~sound'

Spec == Init /\ [][Next]_vars

-----------------------------------------------------------------------------
(* No thing has two holders, no client two things, and users are holders *)
Exclusive ==
  sound =>
    /\ \A p, q \in held : p[1] = q[1] <=> p[2] = q[2]
    /\ using \subseteq Holders
=============================================================================
