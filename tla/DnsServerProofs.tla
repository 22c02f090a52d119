--------------------------- MODULE DnsServerProofs ---------------------------
(* Theorems about DnsServer for any number of queries, any names and any TTL. *)
EXTENDS DnsServer, TLAPS

(* A query at work has a question, and reaches the cache or the resolver only  *)
(* with one for an address                                                     *)
QuestionsAsked ==
  \A q \in Queries :
    /\ pc[q] # "idle" => question[q] \in Keys
    /\ pc[q] \in {"get", "resolve"} => question[q][2] = "A"

(* For a name the resolver knows neither the cache nor a reply has any answer  *)
(* but its own                                                                 *)
LocalKeys == Keys \intersect (Known \X {"A"})

LocalAnswers ==
  /\ \A k \in LocalKeys : cache[k] # None => cache[k].msg.answer = "local"
  /\ \A q \in Queries : question[q] \in LocalKeys =>
       /\ pc[q] # "forward"
       /\ pc[q] \in {"set", "reply"} => msg[q].answer = "local"

(* An entry that still counts has been counted down since its answer was found *)
FreshAnswers ==
  /\ \A k \in Keys : cache[k] # None =>
       /\ cache[k].left > 0 => cache[k].msg.age + cache[k].left <= TTL
       /\ cache[k].msg.answer # "servfail"
  /\ \A q \in Queries :
       /\ pc[q] = "set" => msg[q].age = 0 /\ msg[q].answer # "servfail"
       /\ pc[q] = "reply" =>
            msg[q].age <= TTL /\ (msg[q].answer = "servfail" => msg[q].id = q)

CacheInvariant == TypeOK /\ QuestionsAsked /\ LocalAnswers /\ FreshAnswers

LEMMA CacheInitially == Init => CacheInvariant
BY NoneAssumption
   DEF Init, CacheInvariant, TypeOK, QuestionsAsked, LocalAnswers, LocalKeys, FreshAnswers, Pc

(* Time makes an answer older and lets its entry count for less                *)
LEMMA TickPreserves == CacheInvariant /\ Tick => CacheInvariant'
<1> SUFFICES ASSUME CacheInvariant, Tick PROVE CacheInvariant'
  OBVIOUS
<1> USE NoneAssumption, TTLAssumption DEF CacheInvariant, TypeOK
<1>1. ASSUME NEW m \in Msg
      PROVE  /\ Older(m) \in Msg
             /\ Older(m).answer = m.answer
             /\ m.age <= TTL => Older(m).age = m.age + 1
  BY DEF Older, Msg
<1>2. ASSUME NEW k \in Keys, cache[k] # None
      PROVE  /\ cache[k] \in [msg : Msg, left : 0..TTL]
             /\ cache'[k] \in [msg : Msg, left : 0..TTL]
             /\ cache'[k].msg = Older(cache[k].msg)
             /\ cache[k].left > 0 => cache'[k].left = cache[k].left - 1
             /\ cache[k].left = 0 => cache'[k].left = 0
  <2>1. cache[k] \in [msg : Msg, left : 0..TTL]
    BY <1>2
  <2>2. Older(cache[k].msg) \in Msg
    BY <2>1, <1>1
  <2>3. QED
    BY <1>2, <2>1, <2>2 DEF Tick
<1>3. ASSUME NEW k \in Keys, cache[k] = None PROVE cache'[k] = None
  BY <1>3 DEF Tick
<1>4. TypeOK'
  <2>1. cache' \in [Keys -> {None} \union [msg : Msg, left : 0..TTL]]
    BY <1>2, <1>3 DEF Tick
  <2>2. QED
    BY <2>1 DEF Tick
<1>5. QuestionsAsked' /\ \A q \in Queries : pc'[q] \notin {"set", "reply"}
  BY DEF QuestionsAsked, Tick, Pc
<1>6. LocalAnswers'
  BY <1>1, <1>2, <1>3, <1>5 DEF LocalAnswers, LocalKeys, Tick
<1>7. FreshAnswers'
  <2> SUFFICES ASSUME NEW k \in Keys, cache'[k] # None
               PROVE  /\ cache'[k].left > 0 => cache'[k].msg.age + cache'[k].left <= TTL
                      /\ cache'[k].msg.answer # "servfail"
    BY <1>5 DEF FreshAnswers
  <2>1. cache[k] # None
    BY <1>3
  <2>2. cache[k].msg \in Msg /\ cache[k].left \in 0..TTL
    BY <1>2, <2>1
  <2>3. cache[k].msg.age \in 0..(TTL + 1)
    BY <2>2 DEF Msg
  <2>4. cache[k].left > 0 => cache[k].msg.age <= TTL
    BY <2>1, <2>2, <2>3 DEF FreshAnswers
  <2>5. cache'[k].msg.answer # "servfail"
    BY <1>1, <1>2, <2>1, <2>2 DEF FreshAnswers
  <2>6. CASE cache[k].left > 0
    <3>1. cache'[k].msg.age = cache[k].msg.age + 1 /\ cache'[k].left = cache[k].left - 1
      BY <1>1, <1>2, <2>1, <2>2, <2>4, <2>6
    <3>2. QED
      BY <2>1, <2>2, <2>3, <2>5, <2>6, <3>1 DEF FreshAnswers
  <2>7. CASE cache[k].left = 0
    BY <1>2, <2>1, <2>5, <2>7
  <2>8. QED
    BY <2>2, <2>6, <2>7
<1>8. QED
  BY <1>4, <1>5, <1>6, <1>7

LEMMA CachePreserved == CacheInvariant /\ [Next]_vars => CacheInvariant'
<1> SUFFICES ASSUME CacheInvariant, [Next]_vars PROVE CacheInvariant'
  OBVIOUS
<1>0. \A q \in Queries, answer \in Answers :
        /\ Message(q, answer) \in Msg
        /\ Message(q, answer).id = q
        /\ Message(q, answer).answer = answer
        /\ Message(q, answer).age = 0
  BY TTLAssumption DEF Message, Msg
<1> USE NoneAssumption, TTLAssumption
    DEF CacheInvariant, TypeOK, QuestionsAsked, LocalAnswers, LocalKeys, FreshAnswers, Pc, Go, Key
<1>1. ASSUME NEW q \in Queries, Ask(q) PROVE CacheInvariant'
  BY <1>1, KeysAssumption DEF Ask
<1>2. ASSUME NEW q \in Queries, GetCache(q) PROVE CacheInvariant'
  <2>1. question[q] \in Keys
    BY <1>2 DEF GetCache
  <2>2. CASE cache[question[q]] # None /\ cache[question[q]].left > 0
    <3> DEFINE e == cache[question[q]]
    <3>1. e \in [msg : Msg, left : 0..TTL]
      BY <2>1, <2>2
    <3>2. e.msg \in Msg /\ e.msg # None /\ e.msg.age <= TTL /\ e.msg.answer # "servfail"
      <4>1. e.msg \in Msg /\ e.left \in 0..TTL /\ e.msg.age \in 0..(TTL + 1)
        BY <3>1 DEF Msg
      <4>2. QED
        BY <2>1, <2>2, <4>1 DEF Msg
    <3>3. /\ msg' = [msg EXCEPT ![q] = e.msg]
          /\ pc' = [pc EXCEPT ![q] = "reply"]
          /\ deleting' = deleting
          /\ UNCHANGED <<cache, question>>
      BY <1>2, <2>2 DEF GetCache
    <3>4. QED
      BY <2>1, <2>2, <3>2, <3>3
  <2>3. CASE ~(cache[question[q]] # None /\ cache[question[q]].left > 0)
    BY <1>2, <2>1, <2>3 DEF GetCache
  <2>4. QED
    BY <2>2, <2>3
<1>3. ASSUME NEW q \in Queries, Resolve(q) PROVE CacheInvariant'
  BY <1>0, <1>3 DEF Resolve, Answers, Msg
<1>4. ASSUME NEW q \in Queries, Forward(q) PROVE CacheInvariant'
  BY <1>0, <1>4 DEF Forward, Answers, Msg
<1>5. ASSUME NEW q \in Queries, SetCache(q) PROVE CacheInvariant'
  BY <1>5 DEF SetCache, Msg
<1>6. ASSUME NEW q \in Queries, Reply(q) PROVE CacheInvariant'
  BY <1>6 DEF Reply
<1>7. ASSUME NEW k \in Keys, DeleteCache(k) PROVE CacheInvariant'
  BY <1>7 DEF DeleteCache
<1>8. CASE UNCHANGED vars
  BY <1>8 DEF vars
<1>9. QED
  BY <1>1, <1>2, <1>3, <1>4, <1>5, <1>6, <1>7, <1>8, TickPreserves DEF Next, Step

(* The invariant behind the properties below                                   *)
THEOREM CacheInvariantHolds == Spec => []CacheInvariant
BY CacheInitially, CachePreserved, PTL DEF Spec

(* Cache, queries and replies keep their types                                 *)
THEOREM DnsTypeCorrect == Spec => []TypeOK
BY CacheInvariantHolds, PTL DEF CacheInvariant

(* A query for the address of a container the resolver knows gets it, whatever *)
(* other types of that name, expiry and late deletions do to the shared cache  *)
THEOREM KnownNamesAreLocal == Spec => []KnownAreLocal
<1>1. CacheInvariant => KnownAreLocal
  BY DEF CacheInvariant, QuestionsAsked, LocalAnswers, LocalKeys, KnownAreLocal
<1>2. QED
  BY <1>1, CacheInvariantHolds, PTL

(* No answer is served more than a TTL after it was found, and no error to     *)
(* anyone but the query that met it                                            *)
THEOREM AnswersAreFresh == Spec => []ServedWhileFresh
<1>1. CacheInvariant => ServedWhileFresh
  BY DEF CacheInvariant, FreshAnswers, ServedWhileFresh
<1>2. QED
  BY <1>1, CacheInvariantHolds, PTL
==============================================================================
