------------------------------ MODULE DnsServer ------------------------------
(* The DNS server of one network (network/dns): a goroutine per query, a cache *)
(* they share, the resolver that knows the network's containers, and 8.8.8.8   *)
(* for the rest.  What the resolver knows is fixed when the server is made     *)
(* (NetworkManager); the cache is as old as the server.                        *)
(*                                                                             *)
(* Times are counted back: how old an answer is, how long an entry still       *)
(* counts.  A handler takes no time next to the TTL except where it waits for  *)
(* 8.8.8.8, so time passes only while every query waits there or is over.      *)
EXTENDS Integers, FiniteSets

CONSTANTS
  Queries,  \* goroutines serving queries; a query's ID is its name
  Keys,     \* what is asked for: <<name, type>>, with type "A" for addresses
  Known,    \* the names the resolver of this server knows
  TTL,      \* cacheTTL, in steps of time
  None

Answers == {"local", "upstream", "nxdomain", "servfail"}

ASSUME KeysAssumption == \A k \in Keys : <<k[1], "A">> \in Keys
ASSUME TTLAssumption == TTL \in Nat \ {0}
ASSUME NoneAssumption ==
  None \notin Keys \union [id : Queries, answer : Answers, age : 0..(TTL + 1)]

VARIABLES
  cache,     \* entry of each key, or None
  deleting,  \* keys with a deleteCache under way; several of one key count as one
  pc,        \* what each query does next
  question,  \* the name and type it asks for
  msg        \* the reply it is about to store or to send

vars == <<cache, deleting, pc, question, msg>>

Pc == {"idle", "get", "resolve", "forward", "set", "reply"}

(* id: whose reply it was made as.  age: how long ago the answer was found *)
Message(q, answer) == [id |-> q, answer |-> answer, age |-> 0]

Init ==
  /\ cache = [k \in Keys |-> None]
  /\ deleting = {}
  /\ pc = [q \in Queries |-> "idle"]
  /\ question = [q \in Queries |-> None]
  /\ msg = [q \in Queries |-> None]

Go(q, label) == pc' = [pc EXCEPT ![q] = label]

(* Mutant: one key for all types *)
KeyByName(q) == <<question[q][1], "A">>

Key(q) == question[q]

(* handleDNS: only A records are looked up, though all replies are stored *)
Ask(q) ==
  /\ pc[q] = "idle"
  /\ \E k \in Keys :
       /\ question' = [question EXCEPT ![q] = k]
       /\ Go(q, IF k[2] = "A" THEN "get" ELSE "forward")
  /\ UNCHANGED <<cache, deleting, msg>>

(* Mutant: expired entries count until they have been deleted *)
GetCacheExpired(q) ==
  LET e == cache[Key(q)] IN
  /\ pc[q] = "get"
  /\ IF e # None THEN msg' = [msg EXCEPT ![q] = e.msg] /\ Go(q, "reply")
                 ELSE UNCHANGED msg /\ Go(q, "resolve")
  /\ UNCHANGED <<cache, deleting, question>>

(* getCache: an expired entry is a miss, and is deleted some time later *)
GetCache(q) ==
  LET e == cache[Key(q)] IN
  /\ pc[q] = "get"
  /\ IF e # None /\ e.left > 0
       THEN msg' = [msg EXCEPT ![q] = e.msg] /\ Go(q, "reply")
       ELSE UNCHANGED msg /\ Go(q, "resolve")
  /\ deleting' = IF e # None /\ e.left = 0 THEN deleting \union {Key(q)} ELSE deleting
  /\ UNCHANGED <<cache, question>>

Resolve(q) ==
  /\ pc[q] = "resolve"
  /\ IF question[q][1] \in Known
       THEN msg' = [msg EXCEPT ![q] = Message(q, "local")] /\ Go(q, "set")
       ELSE Go(q, "forward") /\ UNCHANGED msg
  /\ UNCHANGED <<cache, deleting, question>>

(* Mutants: the response of a failed exchange is used; the query is handled *)
(* anew until an exchange succeeds                                          *)
ForwardNil(q) ==
  /\ pc[q] = "forward"
  /\ \/ \E answer \in {"upstream", "nxdomain"} :
          msg' = [msg EXCEPT ![q] = Message(q, answer)] /\ Go(q, "set")
     \/ Go(q, "set") /\ UNCHANGED msg
  /\ UNCHANGED <<cache, deleting, question>>

ForwardRetry(q) ==
  /\ pc[q] = "forward"
  /\ \/ \E answer \in {"upstream", "nxdomain"} :
          msg' = [msg EXCEPT ![q] = Message(q, answer)] /\ Go(q, "set")
     \/ Go(q, "get") /\ UNCHANGED msg
  /\ UNCHANGED <<cache, deleting, question>>

(* forwardOrFail: an error or a timeout of 5 s is SERVFAIL, which is not stored *)
Forward(q) ==
  /\ pc[q] = "forward"
  /\ \/ \E answer \in {"upstream", "nxdomain"} :
          msg' = [msg EXCEPT ![q] = Message(q, answer)] /\ Go(q, "set")
     \/ msg' = [msg EXCEPT ![q] = Message(q, "servfail")] /\ Go(q, "reply")
  /\ UNCHANGED <<cache, deleting, question>>

SetCache(q) ==
  /\ pc[q] = "set"
  /\ cache' = [cache EXCEPT ![Key(q)] = [msg |-> msg[q], left |-> TTL]]
  /\ Go(q, "reply")
  /\ UNCHANGED <<deleting, question, msg>>

(* WriteMsg, of a cached message as it was stored *)
Reply(q) ==
  /\ pc[q] = "reply"
  /\ Go(q, "idle")
  /\ question' = [question EXCEPT ![q] = None]
  /\ msg' = [msg EXCEPT ![q] = None]
  /\ UNCHANGED <<cache, deleting>>

(* It deletes whatever the key has by now *)
DeleteCache(k) ==
  /\ k \in deleting
  /\ deleting' = deleting \ {k}
  /\ cache' = [cache EXCEPT ![k] = None]
  /\ UNCHANGED <<pc, question, msg>>

Older(m) == [m EXCEPT !.age = IF @ <= TTL THEN @ + 1 ELSE @]

Tick ==
  /\ \A q \in Queries : pc[q] \in {"idle", "forward"}
  /\ \E k \in Keys : cache[k] # None /\ cache[k].left > 0
  /\ cache' = [k \in Keys |->
                 IF cache[k] = None THEN None
                 ELSE [msg |-> Older(cache[k].msg),
                       left |-> IF cache[k].left > 0 THEN cache[k].left - 1 ELSE 0]]
  /\ UNCHANGED <<deleting, pc, question, msg>>

-----------------------------------------------------------------------------
Step(q) == GetCache(q) \/ Resolve(q) \/ Forward(q) \/ SetCache(q) \/ Reply(q)

Next ==
  \/ \E q \in Queries : Ask(q) \/ Step(q)
  \/ \E k \in Keys : DeleteCache(k)
  \/ Tick

Spec == Init /\ [][Next]_vars

(* Handlers run, and an exchange returns within 5 s *)
FairSpec == Spec /\ \A q \in Queries : WF_vars(Step(q))

-----------------------------------------------------------------------------
Msg == [id : Queries, answer : Answers, age : 0..(TTL + 1)]

TypeOK ==
  /\ cache \in [Keys -> {None} \union [msg : Msg, left : 0..TTL]]
  /\ deleting \subseteq Keys
  /\ pc \in [Queries -> Pc]
  /\ question \in [Queries -> Keys \union {None}]
  /\ msg \in [Queries -> Msg \union {None}]
  /\ \A q \in Queries : pc[q] \in {"set", "reply"} => msg[q] # None

(* Every query for the address of a container the resolver knows is answered  *)
(* with it, cached or not, while other types of that name go to 8.8.8.8 and   *)
(* into the same cache, and late deletions come in between                    *)
KnownAreLocal ==
  \A q \in Queries :
    pc[q] = "reply" /\ question[q] \in Known \X {"A"} => msg[q].answer = "local"

(* An answer is served for one TTL after it was found, and an exchange that   *)
(* failed is not remembered: SERVFAIL goes only to the query that met it      *)
ServedWhileFresh ==
  \A q \in Queries : pc[q] = "reply" =>
    /\ msg[q].age <= TTL
    /\ msg[q].answer = "servfail" => msg[q].id = q

(* Every query is answered: from the cache, by the resolver, by 8.8.8.8 or,   *)
(* when that is silent, with SERVFAIL                                         *)
QueriesAreAnswered == \A q \in Queries : pc[q] # "idle" ~> pc[q] = "idle"

(* dns_test.go:142, "Second query should hit cache", which must not fail: a    *)
(* client accepts only a reply with the ID of its query, cached or not        *)
ReplyIsForQuery == \A q \in Queries : pc[q] = "reply" => msg[q].id = q
=============================================================================
