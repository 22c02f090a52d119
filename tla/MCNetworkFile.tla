--------------------------- MODULE MCNetworkFile ---------------------------
(* Small instances of NetworkFile.                                          *)
EXTENDS NetworkFile
LOCAL INSTANCE FiniteSetsExt

CONSTANTS c1, c2, c3

(* c1 is called mydb, c2 db, and c3 has no name *)
EntryLength(c) == CASE c = c1 -> 3 [] c = c2 -> 2 [] OTHER -> 1

Lengths ==
  [config \in Config |-> 1 + MapThenSumSet(EntryLength, {c \in Ctrs : config[c] # 0})]

Nameless == {c3}

Names ==
  {<<c, c>> : c \in Ctrs} \union {<<c2, c1>>} \union {c3} \X (Ctrs \union {Localhost})

(* 2 and 3 stand for two addresses of which one is the beginning of the other *)
Addresses == {<<2, 2>>, <<2, 3>>, <<3, 3>>}
=============================================================================
