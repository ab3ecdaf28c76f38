---------------------------- MODULE Parts_proofs ----------------------------
(***************************************************************************)
(* Proofs about the parts that MCParts puts next to each other: subscriptions,*)
(* health answers, tokens, the log pipeline and the rules of the configuration*)
(* file. Each part has an inductive invariant of its own, and a step of the   *)
(* composition is a step of one part and none of the others.                 *)
(***************************************************************************)
EXTENDS MCParts, Sequences, TLAPS

\* (NatsClient) What an operation has in its hands while it is between the map and
\* the connection; at rest, and in Close, nothing.
NatsInv ==
    /\ N!TypeOK
    /\ \A u \in Users : use[u].at \in {"rest", "close"} => use[u].sub = None
    /\ \A u \in Users : use[u].at = "store" => use[u].key \in N!Keys
    /\ N!LiveIsReachable

\* (HealthManager) Age and remaining time of a cached answer add up; while a check
\* may still say up, every checker not yet seen up is one that is down or left to
\* ask.
CachedOK(a) ==
    /\ a.ttl > 0 => a.age + a.ttl <= CacheTTL + Timeout
    /\ a.status = "up" => a.unmet = {}
ProbeOK(r, up) ==
    /\ r.at \in {"list", "check"} => /\ r.answer.age <= Timeout
                                     /\ r.answer.status = "up" => r.answer.unmet \cap up = {}
    /\ r.at = "check" /\ r.answer.status = "up" => r.answer.unmet \subseteq r.left
    /\ r.at = "answered" => /\ r.answer.age < CacheTTL + Timeout
                            /\ r.answer.status = "up" => r.answer.unmet = {}
HealthInv ==
    /\ H!TypeOK
    /\ \A k \in H!Kinds : CachedOK(cache[k])
    /\ \A p \in Probes : ProbeOK(probe[p], healthy)

\* (JwtAuthenticator) The entry of a revoked token outlasts it; a caller about to
\* write one holds a time no shorter than what the token has left; and a caller
\* that began after the revocation and was let through in spite of the blacklist
\* has a token whose time is up.
EntryOK(t) == J!Listing => left[t] # -1 /\ (left[t] > 0 => listed[t] >= left[t])
CallerOK(r) ==
    /\ \A s, t \in r.token : s = t
    /\ \A t \in r.token :
          /\ r.at \in {"exists", "accepted", "set"} => left[t] # -1
          /\ r.at = "set" => J!Listing /\ left[t] <= r.ttl
          /\ r.at \in {"exists", "accepted"} /\ r.known => t \in revoked
          /\ r.at = "accepted" /\ r.known /\ J!Valid(t) => ~J!Listing \/ r.failed
JwtInv ==
    /\ J!TypeOK
    /\ \A t \in revoked : EntryOK(t)
    /\ \A c \in Callers : CallerOK(caller[c])

HookRecord == [levels : L!HookLevels, fails : BOOLEAN]

\* (LogPipeline) What With left at the bottom under a MaskedLogger is masked.
LogInv ==
    /\ L!TypeOK
    /\ hooks \in Seq(HookRecord)
    /\ L!Above("masked", L!Bottom) => \A f \in preset : L!Masked(f)
    /\ L!MaskedBelow

\* (ConfigFile) A file gives fields values of theirs.
FileInv ==
    /\ DOMAIN file \subseteq F!Fields
    /\ \A f \in DOMAIN file : file[f] \in F!Settings(f)
    /\ value \in F!Samples

-----------------------------------------------------------------------------
(* NatsClient *)

NatsPlace(m) == [at : {"rest", "store", "unsubscribe", "close"},
                 key : N!Keys \cup {<<>>}, sub : m \cup {None}]

LEMMA NatsInit == N!Init => NatsInv
  BY DEF N!Init, NatsInv, N!TypeOK, N!LiveIsReachable, N!AtRest

\* Types only grow with the subscriptions made.
LEMMA NatsPlaces ==
  ASSUME NatsInv, NEW m, made \subseteq m
  PROVE  /\ use \in [Users -> NatsPlace(m)]
         /\ subscriptions \in [N!Keys -> m \cup {None}]
  BY DEF NatsInv, N!TypeOK, NatsPlace

LEMMA NatsKeys == /\ \A t \in Topics : t \in N!Keys
                  /\ \A t \in Topics, q \in Queues : t \o <<q>> \in N!Keys
<1> DEFINE queueKeys == {t \o <<q>> : t \in Topics, q \in Queues}
<1>1. \A t \in Topics, q \in Queues : t \o <<q>> \in queueKeys
  BY SMT
<1>2. N!Keys = Topics \cup queueKeys
  BY DEF N!Keys
<1> HIDE DEF queueKeys
<1> QED
  BY <1>1, <1>2

LEMMA NatsAsk ==
  ASSUME NatsInv, NEW u \in Users, NEW key \in N!Keys, N!Ask(u, key)
  PROVE  NatsInv'
<1>1. PICK s \in Subs \ made : /\ live' = live \cup {s} /\ made' = made \cup {s}
                               /\ N!Go(u, "store", key, s)
  BY DEF N!Ask
<1>2. /\ use[u].at = "rest" /\ use[u].sub = None
      /\ UNCHANGED <<conn, subscriptions, replaced>>
  BY DEF N!Ask, NatsInv
<1>3. use' = [use EXCEPT ![u] = [at |-> "store", key |-> key, sub |-> s]]
  BY <1>1 DEF N!Go
<1>4. use \in [Users -> NatsPlace(made')] /\ subscriptions \in [N!Keys -> made' \cup {None}]
  BY <1>1, NatsPlaces
<1>5. [at |-> "store", key |-> key, sub |-> s] \in NatsPlace(made')
  BY <1>1 DEF NatsPlace
<1>6. use' \in [Users -> NatsPlace(made')]
  BY <1>3, <1>4, <1>5
<1>7. N!TypeOK'
  BY <1>1, <1>2, <1>4, <1>6 DEF NatsInv, N!TypeOK, NatsPlace
<1>8. \A v \in Users : use'[v] = IF v = u THEN [at |-> "store", key |-> key, sub |-> s] ELSE use[v]
  BY <1>3, <1>4
<1>9. N!LiveIsReachable'
  <2> SUFFICES ASSUME NEW x \in live', x \notin replaced'
               PROVE  \/ \E k \in N!Keys : subscriptions'[k] = x
                      \/ \E v \in Users : use'[v].sub = x
    BY DEF N!LiveIsReachable
  <2>1. CASE x = s
    BY <2>1, <1>8
  <2>2. CASE x # s
    <3>1. x \in live \ replaced /\ x # None
      BY <1>1, <1>2, <2>2, NoneAssumption DEF NatsInv, N!TypeOK
    <3> QED
      BY <3>1, <1>2, <1>8 DEF NatsInv, N!LiveIsReachable
  <2> QED
    BY <2>1, <2>2
<1> QED
  BY <1>7, <1>8, <1>9 DEF NatsInv

LEMMA NatsStore ==
  ASSUME NatsInv, NEW u \in Users, N!Store(u)
  PROVE  NatsInv'
<1> DEFINE key == use[u].key
<1>1. /\ use[u].at = "store" /\ key \in N!Keys
      /\ subscriptions' = [subscriptions EXCEPT ![key] = use[u].sub]
      /\ replaced' = replaced \cup ({subscriptions[key]} \ {None})
      /\ use' = [use EXCEPT ![u] = N!AtRest]
      /\ UNCHANGED <<conn, live, made>>
  BY DEF N!Store, N!Return, NatsInv
<1>2. use \in [Users -> NatsPlace(made)] /\ subscriptions \in [N!Keys -> made \cup {None}]
  BY NatsPlaces
<1>3. N!AtRest \in NatsPlace(made) /\ use[u].sub \in made \cup {None}
  BY <1>2 DEF N!AtRest, NatsPlace
<1>4. /\ use' \in [Users -> NatsPlace(made)]
      /\ subscriptions' \in [N!Keys -> made \cup {None}]
  BY <1>1, <1>2, <1>3
<1>5. N!TypeOK'
  BY <1>1, <1>2, <1>4 DEF NatsInv, N!TypeOK, NatsPlace
<1>6. /\ \A v \in Users : use'[v] = IF v = u THEN N!AtRest ELSE use[v]
      /\ \A k \in N!Keys : subscriptions'[k] = IF k = key THEN use[u].sub ELSE subscriptions[k]
  BY <1>1, <1>2
<1>7. N!LiveIsReachable'
  <2> SUFFICES ASSUME NEW x \in live', x \notin replaced'
               PROVE  \/ \E k \in N!Keys : subscriptions'[k] = x
                      \/ \E v \in Users : use'[v].sub = x
    BY DEF N!LiveIsReachable
  <2>1. x \in live \ replaced /\ x # None /\ x # subscriptions[key]
    BY <1>1, NoneAssumption DEF NatsInv, N!TypeOK
  <2>2. CASE use[u].sub = x
    BY <2>2, <1>1, <1>6
  <2>3. CASE use[u].sub # x
    BY <2>1, <2>3, <1>6 DEF NatsInv, N!LiveIsReachable
  <2> QED
    BY <2>2, <2>3
<1> QED
  BY <1>5, <1>6, <1>7 DEF NatsInv, N!AtRest

LEMMA NatsUnsubscribe ==
  ASSUME NatsInv, NEW u \in Users, N!Unsubscribe(u)
  PROVE  NatsInv'
<1>1. PICK key \in N!Keys :
         /\ subscriptions' = [subscriptions EXCEPT ![key] = None]
         /\ use' = [use EXCEPT ![u] = [at |-> "unsubscribe", key |-> key,
                                       sub |-> subscriptions[key]]]
  BY DEF N!Unsubscribe, N!Go
<1>2. /\ use[u].at = "rest" /\ use[u].sub = None
      /\ UNCHANGED <<conn, live, made, replaced>>
  BY DEF N!Unsubscribe, NatsInv
<1>3. use \in [Users -> NatsPlace(made)] /\ subscriptions \in [N!Keys -> made \cup {None}]
  BY NatsPlaces
<1>4. [at |-> "unsubscribe", key |-> key, sub |-> subscriptions[key]] \in NatsPlace(made)
  BY <1>3 DEF NatsPlace
<1>5. /\ use' \in [Users -> NatsPlace(made)]
      /\ subscriptions' \in [N!Keys -> made \cup {None}]
  BY <1>1, <1>3, <1>4
<1>6. N!TypeOK'
  BY <1>2, <1>5 DEF NatsInv, N!TypeOK, NatsPlace
<1>7. /\ \A v \in Users : use'[v] =
             IF v = u THEN [at |-> "unsubscribe", key |-> key, sub |-> subscriptions[key]] ELSE use[v]
      /\ \A k \in N!Keys : subscriptions'[k] = IF k = key THEN None ELSE subscriptions[k]
  BY <1>1, <1>3
<1>8. N!LiveIsReachable'
  <2> SUFFICES ASSUME NEW x \in live', x \notin replaced'
               PROVE  \/ \E k \in N!Keys : subscriptions'[k] = x
                      \/ \E v \in Users : use'[v].sub = x
    BY DEF N!LiveIsReachable
  <2>1. x \in live \ replaced /\ x # None
    BY <1>2, NoneAssumption DEF NatsInv, N!TypeOK
  <2>2. CASE subscriptions[key] = x
    BY <2>2, <1>7
  <2>3. CASE subscriptions[key] # x
    BY <2>1, <2>3, <1>2, <1>7 DEF NatsInv, N!LiveIsReachable
  <2> QED
    BY <2>2, <2>3
<1> QED
  BY <1>6, <1>7, <1>8 DEF NatsInv

LEMMA NatsUnsubscribeCall ==
  ASSUME NatsInv, NEW u \in Users, N!UnsubscribeCall(u)
  PROVE  NatsInv'
<1>1. /\ live' = live \ {use[u].sub}
      /\ use' = [use EXCEPT ![u] = N!AtRest]
      /\ UNCHANGED <<conn, made, subscriptions, replaced>>
  BY DEF N!UnsubscribeCall, N!Return
<1>2. use \in [Users -> NatsPlace(made)] /\ N!AtRest \in NatsPlace(made)
  BY NatsPlaces DEF N!AtRest, NatsPlace
<1>3. use' \in [Users -> NatsPlace(made)]
  BY <1>1, <1>2
<1>4. N!TypeOK'
  BY <1>1, <1>3 DEF NatsInv, N!TypeOK, NatsPlace
<1>5. \A v \in Users : use'[v] = IF v = u THEN N!AtRest ELSE use[v]
  BY <1>1, <1>2
<1>6. N!LiveIsReachable'
  BY <1>1, <1>5 DEF NatsInv, N!LiveIsReachable
<1> QED
  BY <1>1, <1>4, <1>5, <1>6 DEF NatsInv, N!AtRest

LEMMA NatsCloseMap ==
  ASSUME NatsInv, NEW u \in Users, N!CloseMap(u)
  PROVE  NatsInv'
<1>1. /\ use[u].at = "rest" /\ use[u].sub = None
      /\ live' = live \ {subscriptions[k] : k \in N!Keys}
      /\ subscriptions' = [k \in N!Keys |-> None]
      /\ use' = [use EXCEPT ![u] = [at |-> "close", key |-> <<>>, sub |-> None]]
      /\ UNCHANGED <<conn, made, replaced>>
  BY DEF N!CloseMap, N!Go, NatsInv
<1>2. /\ use \in [Users -> NatsPlace(made)]
      /\ [at |-> "close", key |-> <<>>, sub |-> None] \in NatsPlace(made)
  BY NatsPlaces DEF NatsPlace
<1>3. use' \in [Users -> NatsPlace(made)]
  BY <1>1, <1>2
<1>4. N!TypeOK'
  BY <1>1, <1>3 DEF NatsInv, N!TypeOK, NatsPlace
<1>5. \A v \in Users :
         use'[v] = IF v = u THEN [at |-> "close", key |-> <<>>, sub |-> None] ELSE use[v]
  BY <1>1, <1>2
<1>6. N!LiveIsReachable'
  <2> SUFFICES ASSUME NEW x \in live', x \notin replaced'
               PROVE  \E v \in Users : use'[v].sub = x
    BY DEF N!LiveIsReachable
  <2>1. x \in live \ replaced /\ x # None /\ \A k \in N!Keys : subscriptions[k] # x
    BY <1>1, NoneAssumption DEF NatsInv, N!TypeOK
  <2> QED
    BY <2>1, <1>1, <1>5 DEF NatsInv, N!LiveIsReachable
<1> QED
  BY <1>1, <1>4, <1>5, <1>6 DEF NatsInv

LEMMA NatsCloseConn ==
  ASSUME NatsInv, NEW u \in Users, N!CloseConn(u)
  PROVE  NatsInv'
<1>1. /\ conn' = "closed" /\ live' = {}
      /\ use' = [use EXCEPT ![u] = N!AtRest]
      /\ UNCHANGED <<made, subscriptions, replaced>>
  BY DEF N!CloseConn, N!Return
<1>2. use \in [Users -> NatsPlace(made)] /\ N!AtRest \in NatsPlace(made)
  BY NatsPlaces DEF N!AtRest, NatsPlace
<1>3. use' \in [Users -> NatsPlace(made)]
  BY <1>1, <1>2
<1>4. N!TypeOK'
  BY <1>1, <1>3 DEF NatsInv, N!TypeOK, NatsPlace
<1>5. \A v \in Users : use'[v] = IF v = u THEN N!AtRest ELSE use[v]
  BY <1>1, <1>2
<1> QED
  BY <1>1, <1>4, <1>5 DEF NatsInv, N!AtRest, N!LiveIsReachable

LEMMA NatsNext == NatsInv /\ [N!Next]_(N!vars) => NatsInv'
<1> SUFFICES ASSUME NatsInv, [N!Next]_(N!vars) PROVE NatsInv'
  OBVIOUS
<1>1. CASE UNCHANGED N!vars
  BY <1>1 DEF N!vars, NatsInv, N!TypeOK, N!LiveIsReachable
<1>2. CASE N!NewNATSClient
  BY <1>2 DEF N!NewNATSClient, NatsInv, N!TypeOK, N!LiveIsReachable
<1>3. ASSUME NEW u \in Users, N!Subscribe(u) \/ N!QueueSubscribe(u) PROVE NatsInv'
  <2>1. PICK key \in N!Keys : N!Ask(u, key)
    <3>1. CASE N!Subscribe(u)
      BY <3>1, NatsKeys DEF N!Subscribe
    <3>2. CASE N!QueueSubscribe(u)
      BY <3>2, NatsKeys DEF N!QueueSubscribe
    <3> QED
      BY <1>3, <3>1, <3>2
  <2> QED
    BY <2>1, NatsAsk
<1> QED
  BY <1>1, <1>2, <1>3, NatsStore, NatsUnsubscribe, NatsUnsubscribeCall, NatsCloseMap,
     NatsCloseConn DEF N!Next

-----------------------------------------------------------------------------
(* HealthManager *)

ProbeRecord == [at : {"idle", "list", "check", "answered"}, kind : H!Kinds,
                left : SUBSET Checkers, answer : H!Answer]

LEMMA HealthInit == H!Init => HealthInv
<1> SUFFICES ASSUME H!Init PROVE HealthInv
  OBVIOUS
<1>1. H!Nothing \in H!Answer
  BY HealthAssumption DEF H!Nothing, H!Answer
<1>2. H!Waiting \in ProbeRecord
  BY <1>1 DEF H!Waiting, ProbeRecord, H!Kinds
<1>3. H!TypeOK
  BY <1>1, <1>2 DEF H!Init, H!TypeOK, ProbeRecord
<1> QED
  BY <1>3 DEF H!Init, HealthInv, CachedOK, ProbeOK, H!Nothing, H!Waiting

\* A step of one probe that leaves everything else alone.
LEMMA HealthStep ==
  ASSUME HealthInv, NEW p \in Probes, NEW r \in ProbeRecord, ProbeOK(r, healthy),
         probe' = [probe EXCEPT ![p] = r], UNCHANGED <<healthy, registered, cache>>
  PROVE  HealthInv'
<1>1. probe' \in [Probes -> ProbeRecord]
  BY DEF HealthInv, H!TypeOK, ProbeRecord
<1>2. H!TypeOK'
  BY <1>1 DEF HealthInv, H!TypeOK, ProbeRecord, H!Answer
<1>3. \A q \in Probes : probe'[q] = IF q = p THEN r ELSE probe[q]
  BY DEF HealthInv, H!TypeOK
<1>4. \A q \in Probes : ProbeOK(probe'[q], healthy')
  BY <1>3 DEF HealthInv
<1> QED
  BY <1>2, <1>4 DEF HealthInv

\* The fields of a probe, and of its answer.
LEMMA ProbeFields ==
  ASSUME HealthInv, NEW p \in Probes
  PROVE  /\ probe[p] \in ProbeRecord /\ probe[p].answer \in H!Answer
         /\ probe[p].kind \in H!Kinds /\ probe[p].left \subseteq Checkers
         /\ probe[p].answer.age \in Nat /\ probe[p].answer.unmet \subseteq Checkers
         /\ probe[p].answer.status \in {"none", "up", "down"}
         /\ ProbeOK(probe[p], healthy)
<1>1. probe[p] \in ProbeRecord /\ ProbeOK(probe[p], healthy)
  BY DEF HealthInv, H!TypeOK, ProbeRecord
<1>2. probe[p].answer \in H!Answer
  BY <1>1 DEF ProbeRecord
<1> QED
  BY <1>1, <1>2 DEF ProbeRecord, H!Answer

LEMMA CachedFields ==
  ASSUME HealthInv, NEW k \in H!Kinds
  PROVE  /\ cache[k] \in H!Answer /\ CachedOK(cache[k])
         /\ cache[k].age \in Nat /\ cache[k].ttl \in 0..CacheTTL
BY DEF HealthInv, H!TypeOK, H!Answer

LEMMA HealthHit ==
  ASSUME HealthInv, NEW p \in Probes, NEW k \in H!Kinds, H!Hit(p, k)
  PROVE  HealthInv'
<1> DEFINE r == [H!Waiting EXCEPT !.at = "answered", !.answer = cache[k]]
<1>1. r \in ProbeRecord
  BY CachedFields DEF H!Waiting, ProbeRecord, H!Kinds
<1>2. r.at = "answered" /\ r.answer = cache[k]
  BY DEF H!Waiting
<1>3. cache[k].ttl > 0
  BY DEF H!Hit, H!Fresh
<1>4. ProbeOK(r, healthy)
  BY <1>2, <1>3, CachedFields, HealthAssumption DEF ProbeOK, CachedOK
<1> QED
  BY <1>1, <1>4, HealthStep DEF H!Hit

LEMMA HealthMiss ==
  ASSUME HealthInv, NEW p \in Probes, NEW k \in H!Kinds, H!Miss(p, k)
  PROVE  HealthInv'
<1> DEFINE a == [age |-> 0, status |-> "up", unmet |-> Checkers \ healthy, ttl |-> 0]
           r == [H!Waiting EXCEPT !.at = "list", !.kind = k, !.answer = a]
<1>1. a \in H!Answer
  BY HealthAssumption DEF H!Answer
<1>2. r \in ProbeRecord
  BY <1>1 DEF H!Waiting, ProbeRecord, H!Kinds
<1>3. r.at = "list" /\ r.answer = a
  BY DEF H!Waiting
<1>4. ProbeOK(r, healthy)
  BY <1>3, HealthAssumption DEF ProbeOK
<1> QED
  BY <1>2, <1>4, HealthStep DEF H!Miss

LEMMA HealthList ==
  ASSUME HealthInv, NEW p \in Probes, H!List(p)
  PROVE  HealthInv'
<1> DEFINE checkers == registered[probe[p].kind]
           a == [probe[p].answer EXCEPT !.unmet = @ \cap checkers]
           r == [probe[p] EXCEPT !.at = "check", !.left = checkers, !.answer = a]
<1>1. probe[p].at = "list" /\ checkers \subseteq Checkers
  BY ProbeFields DEF H!List, HealthInv, H!TypeOK
<1>2. a \in H!Answer /\ a.age = probe[p].answer.age /\ a.status = probe[p].answer.status
      /\ a.unmet = probe[p].answer.unmet \cap checkers
  BY ProbeFields DEF H!Answer
<1>3. r \in ProbeRecord /\ r.at = "check" /\ r.left = checkers /\ r.answer = a
  BY <1>1, <1>2, ProbeFields DEF ProbeRecord
<1>4. ProbeOK(r, healthy)
  BY <1>1, <1>2, <1>3, ProbeFields DEF ProbeOK
<1>5. probe' = [probe EXCEPT ![p] = r]
  BY DEF H!List, HealthInv, H!TypeOK
<1> QED
  BY <1>3, <1>4, <1>5, HealthStep DEF H!List

\* What is left of a probe that has asked a checker, with the answer it now has.
LEMMA HealthCheck ==
  ASSUME HealthInv, NEW p \in Probes, NEW c \in Checkers,
         NEW a \in H!Answer, H!CheckWith(p, c, a),
         a.age = probe[p].answer.age,
         a.status = "up" => a = probe[p].answer /\ c \in healthy
  PROVE  HealthInv'
<1> DEFINE r == [probe[p] EXCEPT !.left = @ \ {c}, !.answer = a]
<1>1. probe[p].at = "check"
  BY DEF H!CheckWith
<1>2. r \in ProbeRecord /\ r.at = "check" /\ r.left = probe[p].left \ {c} /\ r.answer = a
  BY <1>1, ProbeFields DEF ProbeRecord
<1>3. ProbeOK(r, healthy)
  BY <1>1, <1>2, ProbeFields DEF ProbeOK
<1>4. probe' = [probe EXCEPT ![p] = r]
  BY DEF H!CheckWith, HealthInv, H!TypeOK
<1> QED
  BY <1>2, <1>3, <1>4, HealthStep DEF H!CheckWith

LEMMA HealthCacheResponse ==
  ASSUME HealthInv, NEW p \in Probes, H!CacheResponse(p)
  PROVE  HealthInv'
<1> DEFINE k == probe[p].kind
           a == [probe[p].answer EXCEPT !.ttl = CacheTTL]
           r == [H!Waiting EXCEPT !.at = "answered", !.answer = a]
<1>1. /\ probe[p].at = "check" /\ probe[p].left = {} /\ k \in H!Kinds
      /\ cache' = [cache EXCEPT ![k] = a]
      /\ probe' = [probe EXCEPT ![p] = r]
      /\ UNCHANGED <<healthy, registered>>
  BY ProbeFields DEF H!CacheResponse
<1>2. a \in H!Answer /\ a.age = probe[p].answer.age /\ a.status = probe[p].answer.status
      /\ a.unmet = probe[p].answer.unmet /\ a.ttl = CacheTTL
  BY ProbeFields, HealthAssumption DEF H!Answer
<1>3. r \in ProbeRecord /\ r.at = "answered" /\ r.answer = a
  BY <1>2 DEF H!Waiting, ProbeRecord, H!Kinds
<1>4. a.age \in Nat /\ a.age <= Timeout /\ (a.status = "up" => a.unmet = {})
  BY <1>1, <1>2, ProbeFields DEF ProbeOK
<1>5. ProbeOK(r, healthy) /\ CachedOK(a)
  <2> HIDE DEF a, r
  <2>1. a.age < CacheTTL + Timeout /\ a.age + a.ttl <= CacheTTL + Timeout
    BY <1>2, <1>4, HealthAssumption
  <2>2. ProbeOK(r, healthy)
    BY <1>3, <1>4, <2>1 DEF ProbeOK
  <2> QED
    BY <1>4, <2>1, <2>2 DEF CachedOK
<1>6. /\ cache' \in [H!Kinds -> H!Answer]
      /\ probe' \in [Probes -> ProbeRecord]
  BY <1>1, <1>2, <1>3 DEF HealthInv, H!TypeOK, ProbeRecord
<1>7. H!TypeOK'
  BY <1>1, <1>6 DEF HealthInv, H!TypeOK, ProbeRecord, H!Answer
<1>8. /\ \A q \in Probes : probe'[q] = IF q = p THEN r ELSE probe[q]
      /\ \A j \in H!Kinds : cache'[j] = IF j = k THEN a ELSE cache[j]
  BY <1>1 DEF HealthInv, H!TypeOK
<1> HIDE DEF k, a, r
<1> QED
  BY <1>1, <1>5, <1>7, <1>8 DEF HealthInv

LEMMA HealthRecovers ==
  ASSUME HealthInv, NEW c \in Checkers, H!Recovers(c)
  PROVE  HealthInv'
<1>1. ASSUME NEW p \in Probes
      PROVE  probe'[p] \in ProbeRecord /\ ProbeOK(probe'[p], healthy')
  <2> DEFINE a == [probe[p].answer EXCEPT !.unmet = @ \ {c}]
             r == [probe[p] EXCEPT !.answer = a]
  <2>1. probe'[p] = IF probe[p].at = "answered" THEN probe[p] ELSE r
    BY DEF H!Recovers
  <2>2. healthy' = healthy \cup {c}
    BY DEF H!Recovers
  <2>3. a \in H!Answer /\ a.age = probe[p].answer.age /\ a.status = probe[p].answer.status
        /\ a.unmet = probe[p].answer.unmet \ {c}
    BY ProbeFields DEF H!Answer
  <2>4. r \in ProbeRecord /\ r.at = probe[p].at /\ r.left = probe[p].left /\ r.answer = a
    BY <2>3, ProbeFields DEF ProbeRecord
  <2>5. CASE probe[p].at = "answered"
    BY <2>1, <2>5, ProbeFields DEF ProbeOK
  <2>6. CASE probe[p].at # "answered"
    <3>1. probe'[p] = r
      BY <2>1, <2>6
    <3> HIDE DEF a, r
    <3>2. ProbeOK(r, healthy')
      BY <2>2, <2>3, <2>4, <2>6, ProbeFields DEF ProbeOK
    <3> QED
      BY <3>1, <3>2, <2>4
  <2> QED
    BY <2>5, <2>6
<1>2. healthy' \subseteq Checkers /\ UNCHANGED <<registered, cache>>
      /\ probe' = [p \in Probes |-> probe'[p]]
  BY DEF H!Recovers, HealthInv, H!TypeOK
<1>3. probe' \in [Probes -> ProbeRecord]
  BY <1>1, <1>2
<1>4. H!TypeOK'
  BY <1>2, <1>3 DEF HealthInv, H!TypeOK, ProbeRecord, H!Answer
<1> QED
  BY <1>1, <1>2, <1>4 DEF HealthInv

LEMMA HealthTick ==
  ASSUME HealthInv, H!Tick
  PROVE  HealthInv'
<1>1. ASSUME NEW p \in Probes
      PROVE  probe'[p] \in ProbeRecord /\ ProbeOK(probe'[p], healthy')
  <2> DEFINE a == [probe[p].answer EXCEPT !.age = @ + 1]
             r == [probe[p] EXCEPT !.answer = a]
  <2>1. /\ probe'[p] = IF probe[p].at = "idle" THEN probe[p] ELSE r
        /\ healthy' = healthy /\ probe[p].at # "answered"
        /\ probe[p].at # "idle" => probe[p].answer.age < Timeout
    BY DEF H!Tick
  <2>2. a \in H!Answer /\ a.age = probe[p].answer.age + 1 /\ a.status = probe[p].answer.status
        /\ a.unmet = probe[p].answer.unmet
    BY ProbeFields DEF H!Answer
  <2>3. r \in ProbeRecord /\ r.at = probe[p].at /\ r.left = probe[p].left /\ r.answer = a
    BY <2>2, ProbeFields DEF ProbeRecord
  <2>4. CASE probe[p].at = "idle"
    BY <2>1, <2>4, ProbeFields
  <2>5. CASE probe[p].at # "idle"
    <3>1. probe'[p] = r
      BY <2>1, <2>5
    <3> HIDE DEF a, r
    <3>2. ProbeOK(r, healthy')
      BY <2>1, <2>2, <2>3, <2>5, ProbeFields, HealthAssumption DEF ProbeOK
    <3> QED
      BY <3>1, <3>2, <2>3
  <2> QED
    BY <2>4, <2>5
<1>2. ASSUME NEW k \in H!Kinds
      PROVE  cache'[k] \in H!Answer /\ CachedOK(cache'[k])
  <2> DEFINE a == [cache[k] EXCEPT !.age = @ + 1, !.ttl = @ - 1]
  <2>1. cache'[k] = IF cache[k].ttl <= 1 THEN H!Nothing ELSE a
    BY DEF H!Tick
  <2>2. CASE cache[k].ttl <= 1
    BY <2>1, <2>2, HealthAssumption DEF H!Nothing, H!Answer, CachedOK
  <2>3. CASE ~(cache[k].ttl <= 1)
    <3>1. a.age = cache[k].age + 1 /\ a.ttl = cache[k].ttl - 1
          /\ a.status = cache[k].status /\ a.unmet = cache[k].unmet
      BY CachedFields DEF H!Answer
    <3>2. cache[k].ttl - 1 \in 0..CacheTTL /\ cache[k].age + 1 \in Nat
      BY <2>3, CachedFields, HealthAssumption
    <3>3. a \in H!Answer
      BY <3>1, <3>2, CachedFields DEF H!Answer
    <3> QED
      BY <2>1, <2>3, <3>1, <3>3, CachedFields, HealthAssumption DEF CachedOK
  <2> QED
    BY <2>2, <2>3
<1>3. /\ UNCHANGED <<healthy, registered>>
      /\ probe' = [p \in Probes |-> probe'[p]] /\ cache' = [k \in H!Kinds |-> cache'[k]]
  BY DEF H!Tick
<1>4. probe' \in [Probes -> ProbeRecord] /\ cache' \in [H!Kinds -> H!Answer]
  BY <1>1, <1>2, <1>3
<1>5. H!TypeOK'
  BY <1>3, <1>4 DEF HealthInv, H!TypeOK, ProbeRecord, H!Answer
<1> QED
  BY <1>1, <1>2, <1>5 DEF HealthInv

LEMMA HealthNext == HealthInv /\ [H!Next]_(H!vars) => HealthInv'
<1> SUFFICES ASSUME HealthInv, [H!Next]_(H!vars) PROVE HealthInv'
  OBVIOUS
<1>1. CASE UNCHANGED H!vars
  BY <1>1 DEF H!vars, HealthInv, H!TypeOK, H!Answer
<1>2. CASE H!ClearCache
  <2>1. H!Nothing \in H!Answer /\ CachedOK(H!Nothing)
    BY HealthAssumption DEF H!Nothing, H!Answer, CachedOK
  <2>2. /\ cache' \in [H!Kinds -> H!Answer] /\ \A k \in H!Kinds : CachedOK(cache'[k])
        /\ UNCHANGED <<healthy, registered, probe>>
    BY <1>2, <2>1 DEF H!ClearCache
  <2> QED
    BY <2>2 DEF HealthInv, H!TypeOK, H!Answer
<1>3. ASSUME NEW c \in Checkers, H!Fails(c) PROVE HealthInv'
  <2>1. /\ healthy' = healthy \ {c} /\ UNCHANGED <<registered, cache, probe>>
    BY <1>3 DEF H!Fails
  <2>2. \A p \in Probes : ProbeOK(probe[p], healthy')
    BY <2>1 DEF HealthInv, ProbeOK
  <2> QED
    BY <2>1, <2>2 DEF HealthInv, H!TypeOK, H!Answer
<1>4. ASSUME NEW c \in Checkers, NEW k \in H!Kinds, H!Register(k, c) PROVE HealthInv'
  <2>1. /\ registered' \in [H!Kinds -> SUBSET Checkers] /\ UNCHANGED <<healthy, cache, probe>>
    BY <1>4 DEF H!Register, HealthInv, H!TypeOK
  <2> QED
    BY <2>1 DEF HealthInv, H!TypeOK, H!Answer
<1>5. ASSUME NEW p \in Probes, NEW c \in Checkers, H!CheckUp(p, c) PROVE HealthInv'
  BY <1>5, HealthCheck, ProbeFields DEF H!CheckUp, H!Passes
<1>6. ASSUME NEW p \in Probes, NEW c \in Checkers, H!CheckDown(p, c) PROVE HealthInv'
  <2> DEFINE a == H!DownSince(probe[p].answer.age)
  <2>1. a \in H!Answer /\ a.age = probe[p].answer.age /\ a.status = "down"
    BY ProbeFields, HealthAssumption DEF H!DownSince, H!Answer
  <2>2. H!CheckWith(p, c, a)
    BY <1>6 DEF H!CheckDown
  <2> HIDE DEF a
  <2> QED
    BY <2>1, <2>2, HealthCheck
<1>7. ASSUME NEW p \in Probes, H!Answered(p) PROVE HealthInv'
  <2>1. H!Nothing \in H!Answer
    BY HealthAssumption DEF H!Nothing, H!Answer
  <2>2. H!Waiting \in ProbeRecord /\ ProbeOK(H!Waiting, healthy)
    BY <2>1 DEF H!Waiting, ProbeRecord, ProbeOK, H!Kinds
  <2> QED
    BY <1>7, <2>2, HealthStep DEF H!Answered
<1> QED
  BY <1>1, <1>2, <1>3, <1>4, <1>5, <1>6, <1>7, HealthTick, HealthRecovers, HealthHit,
     HealthMiss, HealthList, HealthCacheResponse DEF H!Next

-----------------------------------------------------------------------------
(* JwtAuthenticator *)

CallerRecord == [at : {"rest", "exists", "accepted", "set"},
                 token : SUBSET Tokens, ttl : 0..AccessTokenTTL,
                 known : BOOLEAN, failed : BOOLEAN]

LEMMA RestingCaller == J!AtRest \in CallerRecord /\ J!AtRest.at = "rest" /\ J!AtRest.token = {}
                       /\ CallerOK(J!AtRest)
<1>1. J!AtRest \in CallerRecord
  BY AccessTokenTTLAssumption DEF J!AtRest, CallerRecord
<1>2. J!AtRest.at = "rest" /\ J!AtRest.token = {}
  BY DEF J!AtRest
<1> QED
  BY <1>1, <1>2 DEF CallerOK

LEMMA JwtInit == J!Init => JwtInv
<1> SUFFICES ASSUME J!Init PROVE JwtInv
  OBVIOUS
<1>1. -1 \in -1..AccessTokenTTL
  BY AccessTokenTTLAssumption
<1>2. J!TypeOK
  BY <1>1, RestingCaller DEF J!Init, J!TypeOK, CallerRecord
<1> QED
  BY <1>2, RestingCaller DEF J!Init, JwtInv

\* The types of what a caller holds and of the two clocks of a token.
LEMMA JwtFields ==
  ASSUME JwtInv
  PROVE  /\ \A t \in Tokens : /\ left[t] \in -1..AccessTokenTTL /\ left[t] \in Int
                              /\ listed[t] \in -1..AccessTokenTTL /\ listed[t] \in Int
         /\ \A c \in Callers : /\ caller[c] \in CallerRecord /\ CallerOK(caller[c])
                               /\ caller[c].token \subseteq Tokens
                               /\ caller[c].ttl \in 0..AccessTokenTTL /\ caller[c].ttl \in Nat
         /\ revoked \subseteq Tokens
<1>1. \A t \in Tokens : left[t] \in -1..AccessTokenTTL /\ listed[t] \in -1..AccessTokenTTL
  BY DEF JwtInv, J!TypeOK
<1>2. \A c \in Callers : caller[c] \in CallerRecord /\ CallerOK(caller[c])
  BY DEF JwtInv, J!TypeOK, CallerRecord
<1>3. \A c \in Callers : caller[c].token \subseteq Tokens /\ caller[c].ttl \in 0..AccessTokenTTL
  BY <1>2 DEF CallerRecord
<1>4. /\ \A x \in -1..AccessTokenTTL : x \in Int
      /\ \A x \in 0..AccessTokenTTL : x \in Nat
  BY AccessTokenTTLAssumption
<1> QED
  BY <1>1, <1>2, <1>3, <1>4 DEF JwtInv, J!TypeOK

\* A step of one caller that leaves everything else alone.
LEMMA JwtStep ==
  ASSUME JwtInv, NEW c \in Callers, NEW r \in CallerRecord, CallerOK(r),
         J!Go(c, r), UNCHANGED <<enabled, wired, left, listed, revoked>>
  PROVE  JwtInv'
<1>1. caller' \in [Callers -> CallerRecord]
  BY DEF JwtInv, J!TypeOK, CallerRecord, J!Go
<1>2. J!TypeOK'
  BY <1>1 DEF JwtInv, J!TypeOK, CallerRecord
<1>3. \A d \in Callers : caller'[d] = IF d = c THEN r ELSE caller[d]
  BY DEF JwtInv, J!TypeOK, J!Go
<1>4. \A d \in Callers : CallerOK(caller'[d])
  BY <1>3 DEF JwtInv
<1>5. \A d \in Callers : CallerOK(caller[d])'
  BY <1>4 DEF CallerOK, J!Listing, J!Valid
<1> QED
  BY <1>2, <1>5 DEF JwtInv, EntryOK, J!Listing

LEMMA JwtAuthenticate ==
  ASSUME JwtInv, NEW c \in Callers, NEW t \in Tokens, J!Authenticate(c, t)
  PROVE  JwtInv'
<1> DEFINE r == [J!AtRest EXCEPT !.at = IF J!Listing THEN "exists" ELSE "accepted",
                                 !.token = {t}, !.known = t \in revoked]
<1>1. ASSUME NEW at \in {"exists", "accepted"}, NEW known \in BOOLEAN
      PROVE  LET q == [J!AtRest EXCEPT !.at = at, !.token = {t}, !.known = known] IN
             q \in CallerRecord /\ q.at = at /\ q.token = {t} /\ q.known = known
  BY RestingCaller DEF CallerRecord
<1>2. /\ (IF J!Listing THEN "exists" ELSE "accepted") \in {"exists", "accepted"}
      /\ (t \in revoked) \in BOOLEAN
  OBVIOUS
<1>3. /\ r \in CallerRecord /\ r.token = {t} /\ r.known = (t \in revoked)
      /\ r.at = IF J!Listing THEN "exists" ELSE "accepted"
  BY <1>1, <1>2, Zenon
<1>4. J!Go(c, r) /\ UNCHANGED <<enabled, wired, left, listed, revoked>>
  BY DEF J!Authenticate
<1>5. left[t] # -1
  BY JwtFields DEF J!Authenticate, J!Valid
<1> HIDE DEF r
<1>6. CallerOK(r)
  BY <1>3, <1>5 DEF CallerOK
<1> QED
  BY <1>3, <1>4, <1>6, JwtStep

LEMMA JwtExists ==
  ASSUME JwtInv, NEW c \in Callers, NEW t \in Tokens, J!Exists(c, t)
  PROVE  JwtInv'
<1>1. /\ caller[c].at = "exists" /\ t \in caller[c].token
      /\ UNCHANGED <<enabled, wired, left, listed, revoked>>
  BY DEF J!Exists
<1>2. CASE listed[t] >= 0
  BY <1>1, <1>2, JwtStep, RestingCaller DEF J!Exists
<1>3. CASE ~(listed[t] >= 0)
  <2> DEFINE r == [caller[c] EXCEPT !.at = "accepted"]
  <2>1. J!Go(c, r)
    BY <1>3 DEF J!Exists
  <2>2. r \in CallerRecord /\ r.at = "accepted" /\ r.token = caller[c].token
        /\ r.known = caller[c].known /\ r.failed = caller[c].failed
    BY JwtFields DEF CallerRecord
  <2>3. caller[c].token = {t}
    BY <1>1, JwtFields DEF CallerOK
  <2>4. left[t] # -1 /\ (r.known => t \in revoked)
    BY <1>1, <2>2, JwtFields DEF CallerOK
  <2>5. r.known /\ J!Listing => ~J!Valid(t)
    BY <1>1, <1>3, <2>4, JwtFields DEF JwtInv, EntryOK, J!Valid
  <2> HIDE DEF r
  <2>6. CallerOK(r)
    BY <2>2, <2>3, <2>4, <2>5 DEF CallerOK
  <2> QED
    BY <1>1, <2>1, <2>2, <2>6, JwtStep
<1> QED
  BY <1>2, <1>3

LEMMA JwtExistsFails ==
  ASSUME JwtInv, NEW c \in Callers, J!ExistsFails(c)
  PROVE  JwtInv'
<1> DEFINE r == [caller[c] EXCEPT !.at = "accepted", !.failed = TRUE]
<1>1. /\ caller[c].at = "exists" /\ J!Go(c, r)
      /\ UNCHANGED <<enabled, wired, left, listed, revoked>>
  BY DEF J!ExistsFails
<1>2. r \in CallerRecord /\ r.at = "accepted" /\ r.token = caller[c].token
      /\ r.known = caller[c].known /\ r.failed
  BY JwtFields DEF CallerRecord
<1>3. CallerOK(r)
  <2> HIDE DEF r
  <2> QED
    BY <1>1, <1>2, JwtFields DEF CallerOK
<1> HIDE DEF r
<1> QED
  BY <1>1, <1>2, <1>3, JwtStep

LEMMA JwtRevokeToken ==
  ASSUME JwtInv, NEW c \in Callers, NEW t \in Tokens, J!RevokeToken(c, t)
  PROVE  JwtInv'
<1> DEFINE r == [J!AtRest EXCEPT !.at = "set", !.token = {t}, !.ttl = left[t]]
<1>1. /\ J!Listing /\ J!Valid(t) /\ J!Go(c, r)
      /\ UNCHANGED <<enabled, wired, left, listed, revoked>>
  BY DEF J!RevokeToken
<1>2. left[t] > 0 /\ left[t] \in 0..AccessTokenTTL
  BY <1>1, JwtFields, AccessTokenTTLAssumption DEF J!Valid
<1>3. r \in CallerRecord /\ r.at = "set" /\ r.token = {t} /\ r.ttl = left[t]
  BY <1>2 DEF J!AtRest, CallerRecord
<1> HIDE DEF r
<1>4. CallerOK(r)
  BY <1>1, <1>2, <1>3, JwtFields DEF CallerOK
<1> QED
  BY <1>1, <1>3, <1>4, JwtStep

\* Steps of the clocks and of the blacklist: what a caller may rely on is kept if
\* no token gains time or is issued again, and no revocation is forgotten.
LEMMA CallersRely ==
  ASSUME JwtInv, NEW c \in Callers, caller'[c] = caller[c],
         UNCHANGED <<enabled, wired>>, revoked \subseteq revoked',
         \A t \in caller[c].token : left[t] # -1 =>
             left'[t] \in Int /\ left'[t] # -1 /\ left'[t] <= left[t]
  PROVE  CallerOK(caller[c])'
<1>1. CallerOK(caller[c]) /\ (J!Listing)' = J!Listing /\ caller[c].token \subseteq Tokens
  BY JwtFields DEF J!Listing
<1>2. /\ (\A s, t \in caller[c].token : s = t)
      /\ \A t \in caller[c].token :
          /\ caller[c].at \in {"exists", "accepted", "set"} => left[t] # -1
          /\ caller[c].at = "set" => J!Listing /\ left[t] <= caller[c].ttl
          /\ caller[c].at \in {"exists", "accepted"} /\ caller[c].known => t \in revoked
          /\ caller[c].at = "accepted" /\ caller[c].known /\ J!Valid(t)
                 => ~J!Listing \/ caller[c].failed
  BY <1>1 DEF CallerOK
<1>3. ASSUME NEW t \in caller[c].token, left[t] # -1
      PROVE  /\ left'[t] # -1 /\ (J!Valid(t)' => J!Valid(t))
             /\ left[t] <= caller[c].ttl => left'[t] <= caller[c].ttl
  BY <1>1, <1>3, JwtFields DEF J!Valid
<1> QED
  BY <1>1, <1>2, <1>3 DEF CallerOK

LEMMA JwtGenerate ==
  ASSUME JwtInv, NEW t \in Tokens, J!GenerateToken(t)
  PROVE  JwtInv'
<1>1. /\ left[t] = -1 /\ left' = [left EXCEPT ![t] = AccessTokenTTL]
      /\ UNCHANGED <<enabled, wired, listed, revoked, caller>>
  BY DEF J!GenerateToken
<1>2. left' \in [Tokens -> -1..AccessTokenTTL]
  BY <1>1, AccessTokenTTLAssumption DEF JwtInv, J!TypeOK
<1>3. \A s \in Tokens : left[s] # -1 => left'[s] = left[s]
  BY <1>1 DEF JwtInv, J!TypeOK
<1>4. J!TypeOK'
  BY <1>1, <1>2 DEF JwtInv, J!TypeOK
<1>5. \A s \in revoked' : EntryOK(s)'
  BY <1>1, <1>3, JwtFields DEF JwtInv, EntryOK, J!Listing
<1>6. \A c \in Callers : CallerOK(caller[c])'
  <2> TAKE c \in Callers
  <2>1. \A s \in caller[c].token : left[s] # -1 =>
            left'[s] \in Int /\ left'[s] # -1 /\ left'[s] <= left[s]
    BY <1>3, JwtFields
  <2> QED
    BY <1>1, <2>1, CallersRely
<1> QED
  BY <1>4, <1>5, <1>6 DEF JwtInv

LEMMA JwtRevokeNothing ==
  ASSUME JwtInv, NEW t \in Tokens, J!RevokeNothing(t)
  PROVE  JwtInv'
<1>1. /\ ~J!Listing /\ revoked' = revoked \cup {t}
      /\ UNCHANGED <<enabled, wired, left, listed, caller>>
  BY DEF J!RevokeNothing
<1>2. J!TypeOK'
  BY <1>1 DEF JwtInv, J!TypeOK
<1>3. ~(J!Listing)'
  BY <1>1 DEF J!Listing
<1>4. \A c \in Callers : CallerOK(caller[c])'
  <2> TAKE c \in Callers
  <2>1. \A s \in caller[c].token : left[s] # -1 =>
            left'[s] \in Int /\ left'[s] # -1 /\ left'[s] <= left[s]
    BY <1>1, JwtFields
  <2> QED
    BY <1>1, <2>1, CallersRely
<1> QED
  BY <1>2, <1>3, <1>4 DEF JwtInv, EntryOK

LEMMA JwtRevokeSet ==
  ASSUME JwtInv, NEW c \in Callers, NEW t \in Tokens, J!RevokeSet(c, t)
  PROVE  JwtInv'
<1>1. /\ caller[c].at = "set" /\ t \in caller[c].token
      /\ listed' = [listed EXCEPT ![t] = caller[c].ttl]
      /\ revoked' = revoked \cup {t}
      /\ caller' = [caller EXCEPT ![c] = J!AtRest]
      /\ UNCHANGED <<enabled, wired, left>>
  BY DEF J!RevokeSet, J!Go
<1>2. left[t] # -1 /\ left[t] <= caller[c].ttl
  BY <1>1, JwtFields DEF CallerOK
<1>3. listed' \in [Tokens -> -1..AccessTokenTTL]
  BY <1>1, JwtFields, AccessTokenTTLAssumption DEF JwtInv, J!TypeOK
<1>4. caller' \in [Callers -> CallerRecord]
  BY <1>1, RestingCaller DEF JwtInv, J!TypeOK, CallerRecord
<1>5. J!TypeOK'
  BY <1>1, <1>3, <1>4 DEF JwtInv, J!TypeOK, CallerRecord
<1>6. \A s \in revoked' : EntryOK(s)'
  <2> TAKE s \in revoked'
  <2>1. CASE s = t
    BY <1>1, <1>2, <2>1, JwtFields DEF JwtInv, J!TypeOK, EntryOK
  <2>2. CASE s # t
    <3>1. s \in revoked /\ EntryOK(s) /\ listed'[s] = listed[s] /\ left'[s] = left[s]
      BY <1>1, <2>2, JwtFields DEF JwtInv, J!TypeOK
    <3> QED
      BY <1>1, <3>1 DEF EntryOK, J!Listing
  <2> QED
    BY <2>1, <2>2
<1>7. \A d \in Callers : CallerOK(caller[d])'
  <2> TAKE d \in Callers
  <2>1. CASE d = c
    <3>1. caller'[d].at = "rest" /\ caller'[d].token = {}
      BY <1>1, <2>1, RestingCaller DEF JwtInv, J!TypeOK
    <3> QED
      BY <3>1 DEF CallerOK
  <2>2. CASE d # c
    <3>1. caller'[d] = caller[d]
      BY <1>1, <2>2 DEF JwtInv, J!TypeOK
    <3>2. \A s \in caller[d].token : left[s] # -1 =>
              left'[s] \in Int /\ left'[s] # -1 /\ left'[s] <= left[s]
      BY <1>1, JwtFields
    <3> QED
      BY <1>1, <3>1, <3>2, CallersRely
  <2> QED
    BY <2>1, <2>2
<1> QED
  BY <1>5, <1>6, <1>7 DEF JwtInv

LEMMA JwtTick ==
  ASSUME JwtInv, J!Tick
  PROVE  JwtInv'
<1>1. /\ left' = [t \in Tokens |-> IF left[t] > 0 THEN left[t] - 1 ELSE left[t]]
      /\ listed' = [t \in Tokens |-> IF listed[t] >= 0 THEN listed[t] - 1 ELSE -1]
      /\ UNCHANGED <<enabled, wired, revoked, caller>>
  BY DEF J!Tick
<1>2. \A t \in Tokens : /\ left'[t] = IF left[t] > 0 THEN left[t] - 1 ELSE left[t]
                        /\ listed'[t] = IF listed[t] >= 0 THEN listed[t] - 1 ELSE -1
  BY <1>1
<1>3. \A t \in Tokens : /\ left'[t] \in -1..AccessTokenTTL
                        /\ listed'[t] \in -1..AccessTokenTTL
  BY <1>2, JwtFields, AccessTokenTTLAssumption
<1>4. J!TypeOK'
  BY <1>1, <1>3 DEF JwtInv, J!TypeOK
<1>5. \A t \in Tokens : left[t] # -1 => left'[t] \in Int /\ left'[t] # -1 /\ left'[t] <= left[t]
  BY <1>2, JwtFields
<1>6. \A t \in revoked' : EntryOK(t)'
  BY <1>1, <1>2, JwtFields DEF JwtInv, EntryOK, J!Listing
<1>7. \A c \in Callers : CallerOK(caller[c])'
  BY <1>1, <1>5, JwtFields, CallersRely
<1> QED
  BY <1>4, <1>6, <1>7 DEF JwtInv

LEMMA JwtNext == JwtInv /\ [J!Next]_(J!vars) => JwtInv'
<1> SUFFICES ASSUME JwtInv, [J!Next]_(J!vars) PROVE JwtInv'
  OBVIOUS
<1>1. CASE UNCHANGED J!vars
  BY <1>1 DEF J!vars, JwtInv, J!TypeOK, EntryOK, CallerOK, J!Listing, J!Valid
<1>2. ASSUME NEW c \in Callers, J!Accepted(c) \/ J!RevokeFails(c) PROVE JwtInv'
  BY <1>2, JwtStep, RestingCaller DEF J!Accepted, J!RevokeFails
<1>3. ASSUME NEW t \in Tokens, NEW from \in Tokens, J!RefreshToken(t, from) PROVE JwtInv'
  BY <1>3, JwtGenerate DEF J!RefreshToken
<1> QED
  BY <1>1, <1>2, <1>3, JwtTick, JwtGenerate, JwtRevokeNothing, JwtExistsFails,
     JwtAuthenticate, JwtExists, JwtRevokeToken, JwtRevokeSet DEF J!Next

-----------------------------------------------------------------------------
(* LogPipeline *)

\* A value as it is handed over: no string, or one with "@" somewhere in it.
IsText(s) == s.length \in Nat /\ s.at \in Int /\ s.at < s.length
Handed(g) == g.text = NotString \/ IsText(g.text)

\* A rule keeps less than the whole of a string, unless it is just that long.
LEMMA KeptIsLess ==
  ASSUME NEW kind, NEW s, IsText(s)
  PROVE  /\ kind \in {"password", "token", "custom"} => L!Kept(kind, s) = 0
         /\ s.length > 0 => \/ L!Kept(kind, s) < s.length
                            \/ kind \in {"id_card", "bank_card"} /\ s.length = 10
                            \/ kind = "email" /\ s.at = 1
<1>1. s.length \in Nat /\ s.at \in Int /\ s.at < s.length
  BY DEF IsText
<1>2. CASE kind = "phone"
  BY <1>1, <1>2 DEF L!Kept
<1>3. CASE kind \in {"id_card", "bank_card"}
  BY <1>1, <1>3 DEF L!Kept
<1>4. CASE kind = "email"
  BY <1>1, <1>4 DEF L!Kept
<1>5. CASE kind \notin {"phone", "id_card", "bank_card", "email"}
  BY <1>1, <1>5 DEF L!Kept
<1> QED
  BY <1>2, <1>3, <1>4, <1>5

\* What passes a MaskedLogger is masked, as far as the masker knows its key.
LEMMA MaskFieldMasks ==
  ASSUME NEW g, Handed(g)
  PROVE  L!Masked(L!MaskField(L!Raw(g)))
<1> DEFINE r == L!Raw(g)
           k == L!KindOf(g.key)
           c == IF g.text = NotString THEN 0 ELSE g.text.length
<1>1. r = [key |-> g.key, value |-> "own", text |-> g.text, kind |-> k, clear |-> c]
  BY DEF L!Raw
<1> HIDE DEF r, k, c
<1>2. r.key = g.key /\ r.text = g.text /\ r.kind = k
  BY <1>1
<1>3. L!KindOf(r.key) = k
  BY <1>2 DEF k
<1>4. CASE k = "none" \/ g.text = NotString
  <2>1. L!MaskField(r) = r
    BY <1>2, <1>3, <1>4 DEF L!MaskField
  <2>2. L!Masked(r)
    BY <1>2, <1>4 DEF L!Masked
  <2> QED
    BY <2>1, <2>2 DEF r
<1>5. CASE ~(k = "none" \/ g.text = NotString)
  <2> DEFINE kept == L!Kept(k, g.text)
             m == [r EXCEPT !.clear = kept]
  <2>1. L!MaskField(r) = m
    BY <1>2, <1>3, <1>5 DEF L!MaskField
  <2>2. /\ k \in {"password", "token", "custom"} => kept = 0
        /\ g.text.length > 0 => \/ kept < g.text.length
                                \/ k \in {"id_card", "bank_card"} /\ g.text.length = 10
                                \/ k = "email" /\ g.text.at = 1
    BY <1>5, KeptIsLess DEF Handed
  <2> HIDE DEF kept
  <2>3. m.kind = k /\ m.text = g.text /\ m.clear = kept
    BY <1>1
  <2> HIDE DEF m
  <2>4. L!Masked(m)
    BY <2>2, <2>3 DEF L!Masked, L!AtLimit
  <2> QED
    BY <2>1, <2>4 DEF r
<1> QED
  BY <1>4, <1>5

LEMMA AtMasks ==
  ASSUME NEW i, L!Above("masked", i), NEW S, \A g \in S : Handed(g),
         NEW f \in L!At(i, {L!Raw(g) : g \in S})
  PROVE  L!Masked(f)
<1>1. PICK g \in S : f = L!MaskField(L!Raw(g))
  BY DEF L!At
<1> QED
  BY <1>1, MaskFieldMasks

\* What callers hand over, and the name of a logger, are values of that form.
LEMMA GivenIsHanded ==
  /\ \A g \in L!Given : Handed(g)
  /\ Handed([key |-> "logger", text |-> L!NameText])
<1>1. \A g \in L!Given : Handed(g)
  BY LogAssumption DEF L!Given, Handed, IsText
<1>2. [key |-> "logger", text |-> L!NameText].text = L!NameText /\ IsText(L!NameText)
  BY DEF L!NameText, IsText
<1> QED
  BY <1>1, <1>2 DEF Handed

\* Keys of fields have the types in use.
KeysOK(m) == DOMAIN m \subseteq FieldKeys /\ \A k \in DOMAIN m : m[k] \in SensitiveTypes

LEMMA LogInit == L!Init => LogInv
<1> SUFFICES ASSUME L!Init PROVE LogInv
  OBVIOUS
<1>1. level \in Levels /\ counter \in 0..(Rate - 1)
  BY LogAssumption DEF L!Init, L!Info
<1>2. hooks \in Seq(HookRecord) /\ Len(hooks) = 0
  BY DEF L!Init
<1> QED
  BY <1>1, <1>2, LogAssumption DEF L!Init, LogInv, L!TypeOK, L!MaskedBelow

\* A step that logs nothing, and adds to the fields of the logger what a
\* MaskedLogger, if there is one, has masked.
LEMMA LogDerive ==
  ASSUME LogInv, NEW new,
         L!Above("masked", L!Bottom) => \A f \in new : L!Masked(f),
         preset' = preset \cup new, seen' = {}, KeysOK(sensitive'),
         level' \in Levels, UNCHANGED <<layers, hooks, counter>>
  PROVE  LogInv'
<1>1. L!TypeOK'
  BY DEF LogInv, L!TypeOK, KeysOK
<1>2. L!MaskedBelow'
  BY DEF L!MaskedBelow
<1>3. L!Above("masked", L!Bottom)' = L!Above("masked", L!Bottom)
  BY DEF L!Above, L!Bottom
<1> QED
  BY <1>1, <1>2, <1>3 DEF LogInv

LEMMA LogWith ==
  ASSUME LogInv, NEW g, Handed(g), UNCHANGED <<layers, sensitive, level, hooks, counter>>,
         preset' = preset \cup L!At(L!Bottom, {L!Raw(g)}), seen' = {}
  PROVE  LogInv'
<1>1. {L!Raw(g)} = {L!Raw(h) : h \in {g}}
  OBVIOUS
<1>2. L!Above("masked", L!Bottom)
          => \A f \in L!At(L!Bottom, {L!Raw(g)}) : L!Masked(f)
  BY <1>1, AtMasks
<1>3. KeysOK(sensitive') /\ level' \in Levels
  BY DEF LogInv, L!TypeOK, KeysOK
<1> QED
  BY <1>2, <1>3, LogDerive

LEMMA LogWithContext ==
  ASSUME LogInv, L!WithContext
  PROVE  LogInv'
<1> DEFINE Id(key, value_) == [key |-> key, value |-> value_, text |-> L!IdText, kind |-> "none",
                               clear |-> L!IdText.length]
<1>1. PICK trace \in {"request", "trace"} :
         preset' = preset \cup {Id("trace_id", L!RequestContext(trace)[L!traceIDKey]),
                                Id("request_id", L!RequestContext(trace)[L!requestIDKey])}
  BY DEF L!WithContext
<1> DEFINE new == {Id("trace_id", L!RequestContext(trace)[L!traceIDKey]),
                   Id("request_id", L!RequestContext(trace)[L!requestIDKey])}
<1>2. \A f \in new : f.kind = "none" /\ L!Masked(f)
  BY DEF L!Masked
<1>3. /\ seen' = {} /\ KeysOK(sensitive') /\ level' \in Levels
      /\ UNCHANGED <<layers, hooks, counter>> /\ preset' = preset \cup new
  BY <1>1 DEF L!WithContext, LogInv, L!TypeOK, KeysOK
<1> HIDE DEF new
<1> QED
  BY <1>2, <1>3, LogDerive

LEMMA LogAddHook ==
  ASSUME LogInv, NEW ls \in L!HookLevels, NEW fails \in BOOLEAN, L!AddHook(ls, fails)
  PROVE  LogInv'
<1>1. /\ Len(hooks) < MaxHooks
      /\ hooks' = Append(hooks, [levels |-> ls, fails |-> fails]) /\ seen' = {}
      /\ UNCHANGED <<layers, sensitive, preset, level, counter>>
  BY DEF L!AddHook
<1>2. [levels |-> ls, fails |-> fails] \in HookRecord
  BY DEF HookRecord
<1>3. hooks' \in Seq(HookRecord) /\ Len(hooks') = Len(hooks) + 1 /\ Len(hooks) \in Nat
  BY <1>1, <1>2 DEF LogInv
<1>4. Len(hooks') <= MaxHooks
  BY <1>1, <1>3, LogAssumption
<1>5. L!TypeOK'
  BY <1>1, <1>4 DEF LogInv, L!TypeOK
<1>6. L!Above("masked", L!Bottom)' = L!Above("masked", L!Bottom)
  BY <1>1 DEF L!Above, L!Bottom
<1> QED
  BY <1>1, <1>3, <1>5, <1>6 DEF LogInv, L!MaskedBelow

\* What one call gives to the hooks and writes.
LEMMA LogSeen ==
  ASSUME LogInv, NEW n, NEW given \in L!Fields, L!Log(n, given), NEW s \in seen'
  PROVE  s.by \in 0..Len(hooks) /\ (s.masked => \A f \in s.fields : L!Masked(f))
<1> DEFINE fields == {L!Raw(g) : g \in given}
<1>4. \A g \in given : Handed(g)
  BY GivenIsHanded DEF L!Fields
<1>1. \/ \E h \in L!Fired(n), i \in DOMAIN layers :
            s = [by |-> h, masked |-> L!Above("masked", i), fields |-> L!At(i, fields)]
      \/ s \in L!Output(n, fields)
  <2> DEFINE hooked == {j \in DOMAIN layers : layers[j] = "hooked" /\ L!Reaches(j, n)}
             Told(h, i) == [by |-> h, masked |-> L!Above("masked", i), fields |-> L!At(i, fields)]
  <2>1. seen' = {Told(h, i) : h \in L!Fired(n), i \in hooked} \cup L!Output(n, fields)
    BY DEF L!Log
  <2>2. hooked \subseteq DOMAIN layers
    OBVIOUS
  <2> HIDE DEF hooked, Told
  <2>3. s \in L!Output(n, fields) \/ \E h \in L!Fired(n), i \in hooked : s = Told(h, i)
    BY <2>1, SMT
  <2> QED
    BY <2>2, <2>3 DEF Told
<1>2. ASSUME NEW h \in L!Fired(n), NEW i \in DOMAIN layers,
             s = [by |-> h, masked |-> L!Above("masked", i), fields |-> L!At(i, fields)]
      PROVE  s.by \in 0..Len(hooks) /\ (s.masked => \A f \in s.fields : L!Masked(f))
  <2>1. h \in 0..Len(hooks)
    BY DEF L!Fired, LogInv
  <2>2. s.by = h /\ s.fields = L!At(i, fields) /\ s.masked = L!Above("masked", i)
    BY <1>2
  <2>3. L!Above("masked", i) => \A f \in L!At(i, fields) : L!Masked(f)
    BY <1>4, AtMasks
  <2> QED
    BY <2>1, <2>2, <2>3
<1>3. ASSUME s \in L!Output(n, fields)
      PROVE  s.by \in 0..Len(hooks) /\ (s.masked => \A f \in s.fields : L!Masked(f))
  <2> DEFINE all == preset \cup L!At(L!Bottom, fields)
             under == L!Above("masked", L!Bottom)
  <2>4. s \in IF L!Reaches(L!Bottom, n) /\ n >= level
             THEN {[by |-> 0, masked |-> under, fields |-> all]} ELSE {}
    BY <1>3, Zenon DEF L!Output
  <2>5. s = [by |-> 0, masked |-> under, fields |-> all]
    <3> HIDE DEF all, under
    <3> QED
      BY <2>4
  <2>1. s.by = 0 /\ s.fields = all /\ s.masked = under
    <3> HIDE DEF all, under
    <3> QED
      BY <2>5
  <2>2. 0 \in 0..Len(hooks)
    BY DEF LogInv
  <2>3. L!Above("masked", L!Bottom)
            => \A f \in preset \cup L!At(L!Bottom, fields) : L!Masked(f)
    BY <1>4, AtMasks DEF LogInv
  <2> QED
    BY <2>1, <2>2, <2>3
<1> QED
  BY <1>1, <1>2, <1>3

LEMMA LogLog ==
  ASSUME LogInv, NEW n, NEW given \in L!Fields, L!Log(n, given)
  PROVE  LogInv'
<1>1. /\ counter' = IF L!Asked(n) THEN (counter + 1) % Rate ELSE counter
      /\ UNCHANGED <<layers, sensitive, preset, level, hooks>>
  BY DEF L!Log
<1>2. counter \in 0..(Rate - 1)
  BY DEF LogInv, L!TypeOK, KeysOK
<1>3. counter' \in 0..(Rate - 1)
  BY <1>1, <1>2, LogAssumption
<1>4. L!TypeOK'
  BY <1>1, <1>3, LogSeen DEF LogInv, L!TypeOK
<1>5. L!MaskedBelow'
  BY LogSeen DEF L!MaskedBelow
<1>6. L!Above("masked", L!Bottom)' = L!Above("masked", L!Bottom)
  BY <1>1 DEF L!Above, L!Bottom
<1> QED
  BY <1>1, <1>4, <1>5, <1>6 DEF LogInv

LEMMA LogNext == LogInv /\ [L!Next]_(L!vars) => LogInv'
<1> SUFFICES ASSUME LogInv, [L!Next]_(L!vars) PROVE LogInv'
  OBVIOUS
<1>1. CASE UNCHANGED L!vars
  <2>1. L!Above("masked", L!Bottom)' = L!Above("masked", L!Bottom)
    BY <1>1 DEF L!vars, L!Above, L!Bottom
  <2> QED
    BY <1>1, <2>1 DEF L!vars, LogInv, L!TypeOK, L!MaskedBelow
<1>2. ASSUME NEW k \in FieldKeys, NEW kind \in SensitiveTypes, L!AddSensitiveKey(k, kind) PROVE LogInv'
  <2>1. sensitive' = [j \in DOMAIN sensitive \cup {k} |-> IF j = k THEN kind ELSE sensitive[j]]
    BY <1>2 DEF L!AddSensitiveKey
  <2>2. KeysOK(sensitive')
    BY <2>1 DEF LogInv, L!TypeOK, KeysOK
  <2>3. preset' = preset \cup {} /\ seen' = {} /\ level' \in Levels
        /\ UNCHANGED <<layers, hooks, counter>>
    BY <1>2 DEF L!AddSensitiveKey, LogInv, L!TypeOK
  <2> QED
    BY <2>2, <2>3, LogDerive
<1>3. ASSUME NEW n \in Levels, L!SetLevel(n) PROVE LogInv'
  <2>1. preset' = preset \cup {} /\ seen' = {} /\ KeysOK(sensitive')
        /\ level' \in Levels /\ UNCHANGED <<layers, hooks, counter>>
    BY <1>3 DEF L!SetLevel, LogInv, L!TypeOK, KeysOK
  <2> QED
    BY <2>1, LogDerive
<1>4. ASSUME NEW g \in L!Given, L!With(g) PROVE LogInv'
  BY <1>4, LogWith, GivenIsHanded DEF L!With
<1>5. CASE L!Named
  BY <1>5, LogWith, GivenIsHanded DEF L!Named
<1> QED
  BY <1>1, <1>2, <1>3, <1>4, <1>5, LogWithContext, LogAddHook, LogLog DEF L!Next

-----------------------------------------------------------------------------
(* ConfigFile *)

Sizes == {F!MaxIdle, F!MaxOpen}

LEMMA SizeSettings == \A f \in Sizes : f \in F!Fields /\ F!Settings(f) \subseteq Int
BY DEF Sizes, F!Fields, F!Settings, F!MaxIdle, F!MaxOpen, F!Ports, F!Ranges, F!Amounts,
       F!Lists, F!Formats, F!Texts

LEMMA FileInit == F!Init => FileInv
<1> SUFFICES ASSUME F!Init PROVE FileInv
  OBVIOUS
<1>1. DOMAIN file = {}
  BY DEF F!Init
<1>2. F!NoValue \in F!Samples
  BY DEF F!NoValue, F!Samples, F!IntKinds, F!StringForms
<1> QED
  BY <1>1, <1>2 DEF F!Init, FileInv

LEMMA FileNext == FileInv /\ [F!Next]_(F!vars) => FileInv'
<1> SUFFICES ASSUME FileInv, [F!Next]_(F!vars) PROVE FileInv'
  OBVIOUS
<1>1. CASE UNCHANGED F!vars
  BY <1>1 DEF F!vars, FileInv
<1>2. CASE F!Ask
  BY <1>2 DEF F!Ask, FileInv
<1>3. ASSUME NEW f \in F!Fields, F!Write(f) PROVE FileInv'
  <2>1. PICK x \in F!Settings(f) :
           file' = [g \in DOMAIN file \cup {f} |-> IF g = f THEN x ELSE file[g]]
    BY <1>3 DEF F!Write
  <2>2. DOMAIN file' = DOMAIN file \cup {f}
    BY <2>1
  <2>3. \A g \in DOMAIN file' : file'[g] = IF g = f THEN x ELSE file[g]
    BY <2>1
  <2>4. value' = value
    BY <1>3 DEF F!Write
  <2> QED
    BY <2>1, <2>2, <2>3, <2>4 DEF FileInv
<1> QED
  BY <1>1, <1>2, <1>3 DEF F!Next

\* What a field is without and with the defaults: the same, if the file gives it or
\* its default is zero; else zero and a value every rule takes.
LEMMA Defaulted ==
  ASSUME FileInv, NEW f \in F!Fields \ Sizes
  PROVE  \/ F!Loaded(file)[f] = F!Parsed(file)[f]
         \/ /\ F!Loaded(file)[f] = "ok" /\ F!Parsed(file)[f] = "zero"
            /\ f \notin F!WithoutDefault /\ f # "trace.enabled"
<1>1. CASE f \in DOMAIN file
  BY <1>1 DEF F!Loaded, F!Parsed
<1>2. CASE f \notin DOMAIN file
  <2>1. F!Loaded(file)[f] = F!Default(f) /\ F!Parsed(file)[f] = F!Zero(f)
    BY <1>2 DEF F!Loaded, F!Parsed
  <2>2. F!Zero(f) = "zero"
    BY DEF F!Zero, Sizes
  <2>3. F!Default(f) = IF f \in F!WithoutDefault \cup {"redis.db", "trace.enabled"}
                       THEN "zero" ELSE "ok"
    BY DEF F!Default, Sizes
  <2> QED
    BY <2>1, <2>2, <2>3
<1> QED
  BY <1>1, <1>2

\* A rule for a class of values that are neither zero nor taken by every rule.
LEMMA BadAlike ==
  ASSUME FileInv, NEW S, S \subseteq F!Fields \ Sizes, NEW classes,
         "ok" \notin classes, "zero" \notin classes
  PROVE  F!Bad(F!Loaded(file), S, classes) = F!Bad(F!Parsed(file), S, classes)
BY Defaulted DEF F!Bad

\* A rule against the zero value takes with the defaults what it takes without.
LEMMA BadZero ==
  ASSUME FileInv, NEW S, S \subseteq F!Fields \ Sizes
  PROVE  /\ F!Bad(F!Loaded(file), S, {"zero"}) \subseteq F!Bad(F!Parsed(file), S, {"zero"})
         /\ S \subseteq F!WithoutDefault =>
              F!Bad(F!Loaded(file), S, {"zero"}) = F!Bad(F!Parsed(file), S, {"zero"})
BY Defaulted DEF F!Bad

\* The two pool sizes.
LEMMA PoolSizes ==
  ASSUME FileInv, NEW f \in Sizes
  PROVE  /\ F!Loaded(file)[f] \in Int /\ F!Parsed(file)[f] \in Int
         /\ f \in DOMAIN file => F!Loaded(file)[f] = F!Parsed(file)[f]
         /\ f \notin DOMAIN file => F!Loaded(file)[f] > 0 /\ F!Parsed(file)[f] = 0
<1>1. CASE f \in DOMAIN file
  <2>1. file[f] \in Int
    BY <1>1, SizeSettings DEF FileInv
  <2> QED
    BY <1>1, <2>1, SizeSettings DEF F!Loaded, F!Parsed
<1>2. CASE f \notin DOMAIN file
  <2>1. F!Default(f) \in {10, 100} /\ F!Zero(f) = 0
    BY DEF Sizes, F!Default, F!Zero, F!MaxIdle, F!MaxOpen, F!WithoutDefault
  <2> QED
    BY <1>2, <2>1, SizeSettings DEF F!Loaded, F!Parsed
<1> QED
  BY <1>1, <1>2

\* The names the rules use are names of fields.
LEMMA FieldNames ==
  /\ {"app.name", "app.version", "app.env", "http.port", "grpc.port", "http.read_timeout",
      "http.write_timeout", "database.driver", "database.log_level", "database.port",
      "database.conn_max_lifetime", "database.slow_query_threshold", "redis.port", "redis.db",
      "redis.pool_size", "redis.dial_timeout", "redis.mode", "redis.addrs", "redis.master_name",
      "redis.sentinel_addrs", "consul.port", "consul.check_interval", "consul.check_timeout",
      "nats.url", "nats.max_reconnects", "nats.reconnect_wait", "nats.connect_timeout",
      "log.level", "log.format", "log.output", "log.max_size", "log.max_backups", "log.max_age",
      "trace.service_name", "trace.endpoint", "trace.sample_rate", "trace.enabled"}
     \subseteq F!Fields \ Sizes
  /\ F!WithoutDefault \subseteq F!Fields \ Sizes
BY DEF Sizes, F!Fields, F!MaxIdle, F!MaxOpen, F!Ports, F!Ranges, F!Amounts, F!Lists, F!Formats,
       F!Texts, F!WithoutDefault

LEMMA ServerAlike ==
  ASSUME FileInv
  PROVE  F!ValidateServer(F!Loaded(file)) = F!ValidateServer(F!Parsed(file))
BY BadAlike, FieldNames DEF F!ValidateServer

LEMMA DatabaseAlike ==
  ASSUME FileInv
  PROVE  /\ F!ValidateDatabase(F!Loaded(file)) \subseteq F!ValidateDatabase(F!Parsed(file)) \cup {F!MaxIdle}
         /\ F!ValidateDatabase(F!Parsed(file)) \subseteq F!ValidateDatabase(F!Loaded(file))
<1> DEFINE l == F!Loaded(file)
           r == F!Parsed(file)
           Negative(c) == {f \in Sizes : c[f] < 0}
           Crossed(c) == {f \in {F!MaxIdle} : c[F!MaxIdle] > 0 /\ c[F!MaxOpen] > 0
                                              /\ c[F!MaxIdle] > c[F!MaxOpen]}
           Rest(c) == F!Bad(c, {"database.driver", "database.log_level"}, {"odd"})
                      \cup F!Bad(c, {"database.port"}, {"low", "high"})
                      \cup F!Bad(c, {"database.conn_max_lifetime", "database.slow_query_threshold"}, {"low"})
<1>1. Rest(l) = Rest(r)
  BY BadAlike, FieldNames
<1>2. Negative(l) = Negative(r)
  BY PoolSizes
<1>3. Crossed(r) \subseteq Crossed(l) /\ Crossed(l) \subseteq {F!MaxIdle}
  <2>1. F!MaxIdle \in Sizes /\ F!MaxOpen \in Sizes
    BY DEF Sizes
  <2> QED
    BY <2>1, PoolSizes
<1>4. \A c : F!ValidateDatabase(c) = Rest(c) \cup Negative(c) \cup Crossed(c)
  BY DEF F!ValidateDatabase, Sizes
<1> HIDE DEF Rest, Negative, Crossed, l, r
<1>5. F!ValidateDatabase(l) \subseteq F!ValidateDatabase(r) \cup {F!MaxIdle}
      /\ F!ValidateDatabase(r) \subseteq F!ValidateDatabase(l)
  BY <1>1, <1>2, <1>3, <1>4
<1> QED
  BY <1>5 DEF l, r

LEMMA RedisAlike ==
  ASSUME FileInv
  PROVE  F!ValidateRedis(F!Loaded(file)) = F!ValidateRedis(F!Parsed(file))
<1> DEFINE l == F!Loaded(file)
           r == F!Parsed(file)
           Needed(mode) == CASE mode = "cluster" -> {"redis.addrs"}
                             [] mode = "sentinel" -> {"redis.master_name", "redis.sentinel_addrs"}
                             [] OTHER -> {}
<1>1. l["redis.mode"] = r["redis.mode"]
  BY Defaulted, FieldNames DEF F!WithoutDefault
<1>2. \A mode : Needed(mode) \subseteq F!WithoutDefault
  BY DEF F!WithoutDefault
<1>3. \A mode : Needed(mode) \subseteq F!Fields \ Sizes
  BY <1>2, FieldNames
<1> HIDE DEF Needed
<1>4. F!Bad(l, Needed(l["redis.mode"]), {"zero"}) = F!Bad(r, Needed(r["redis.mode"]), {"zero"})
  BY <1>1, <1>2, <1>3, BadZero
<1>5. /\ F!Bad(l, {"redis.port", "redis.db"}, {"low", "high"})
             = F!Bad(r, {"redis.port", "redis.db"}, {"low", "high"})
      /\ F!Bad(l, {"redis.pool_size", "redis.dial_timeout"}, {"low"})
             = F!Bad(r, {"redis.pool_size", "redis.dial_timeout"}, {"low"})
      /\ F!Bad(l, {"redis.mode"}, {"odd"}) = F!Bad(r, {"redis.mode"}, {"odd"})
  BY BadAlike, FieldNames
<1>6. \A c : F!ValidateRedis(c) = F!Bad(c, {"redis.port", "redis.db"}, {"low", "high"})
                \cup F!Bad(c, {"redis.pool_size", "redis.dial_timeout"}, {"low"})
                \cup F!Bad(c, {"redis.mode"}, {"odd"})
                \cup F!Bad(c, Needed(c["redis.mode"]), {"zero"})
  BY Zenon DEF F!ValidateRedis, Needed
<1> HIDE DEF l, r
<1>7. F!ValidateRedis(l) = F!ValidateRedis(r)
  BY <1>4, <1>5, <1>6
<1> QED
  BY <1>7 DEF l, r

LEMMA OthersAlike ==
  ASSUME FileInv
  PROVE  /\ F!ValidateConsul(F!Loaded(file)) = F!ValidateConsul(F!Parsed(file))
         /\ F!ValidateNATS(F!Loaded(file)) = F!ValidateNATS(F!Parsed(file))
         /\ F!ValidateLog(F!Loaded(file)) = F!ValidateLog(F!Parsed(file))
         /\ F!ValidateTrace(F!Loaded(file)) = F!ValidateTrace(F!Parsed(file))
<1>1. F!ValidateConsul(F!Loaded(file)) = F!ValidateConsul(F!Parsed(file))
  BY BadAlike, FieldNames DEF F!ValidateConsul
<1>2. F!ValidateNATS(F!Loaded(file)) = F!ValidateNATS(F!Parsed(file))
  BY BadAlike, FieldNames DEF F!ValidateNATS
<1>3. F!ValidateLog(F!Loaded(file)) = F!ValidateLog(F!Parsed(file))
  BY BadAlike, FieldNames DEF F!ValidateLog
<1>4. F!ValidateTrace(F!Loaded(file)) = F!ValidateTrace(F!Parsed(file))
  <2> DEFINE S == {"trace.service_name", "trace.endpoint"}
  <2>1. \A f \in S \cup {"trace.enabled"} : F!Loaded(file)[f] = F!Parsed(file)[f]
    BY Defaulted, FieldNames DEF F!WithoutDefault
  <2>2. F!Bad(F!Loaded(file), {"trace.sample_rate"}, {"low", "high"})
            = F!Bad(F!Parsed(file), {"trace.sample_rate"}, {"low", "high"})
    BY BadAlike, FieldNames
  <2> QED
    BY <2>1, <2>2 DEF F!ValidateTrace
<1> QED
  BY <1>1, <1>2, <1>3, <1>4

\* With defaults a file is refused for nothing new but the order of the pool sizes.
LEMMA LoadedIsParsed ==
  ASSUME FileInv
  PROVE  F!ValidateConfig(F!Loaded(file)) \subseteq F!ValidateConfig(F!Parsed(file)) \cup {F!MaxIdle}
<1> DEFINE l == F!Loaded(file)
           r == F!Parsed(file)
<1>1. F!ValidateApp(l) \subseteq F!ValidateApp(r)
  <2>1. F!Bad(l, {"app.name", "app.version"}, {"zero"}) \subseteq F!Bad(r, {"app.name", "app.version"}, {"zero"})
    BY BadZero, FieldNames
  <2>2. F!Bad(l, {"app.env"}, {"odd"}) = F!Bad(r, {"app.env"}, {"odd"})
    BY BadAlike, FieldNames
  <2> QED
    BY <2>1, <2>2 DEF F!ValidateApp
<1>2. F!ValidateServer(l) = F!ValidateServer(r)
  BY ServerAlike
<1>3. F!ValidateDatabase(l) \subseteq F!ValidateDatabase(r) \cup {F!MaxIdle}
  BY DatabaseAlike
<1>4. F!ValidateRedis(l) = F!ValidateRedis(r)
  BY RedisAlike
<1>5. F!ValidateConsul(l) = F!ValidateConsul(r)
  BY OthersAlike
<1>6. F!ValidateNATS(l) = F!ValidateNATS(r)
  BY OthersAlike
<1>7. F!ValidateLog(l) = F!ValidateLog(r)
  BY OthersAlike
<1>8. F!ValidateTrace(l) = F!ValidateTrace(r)
  BY OthersAlike
<1> HIDE DEF l, r
<1>9. F!ValidateConfig(l) \subseteq F!ValidateConfig(r) \cup {F!MaxIdle}
  BY <1>1, <1>2, <1>3, <1>4, <1>5, <1>6, <1>7, <1>8 DEF F!ValidateConfig
<1> QED
  BY <1>9 DEF l, r

\* Without defaults a file is refused for nothing new but a missing name or version.
LEMMA ParsedIsLoaded ==
  ASSUME FileInv
  PROVE  F!ValidateConfig(F!Parsed(file))
             \subseteq F!ValidateConfig(F!Loaded(file)) \cup {"app.name", "app.version"}
<1> DEFINE l == F!Loaded(file)
           r == F!Parsed(file)
<1>1. F!ValidateApp(r) \subseteq F!ValidateApp(l) \cup {"app.name", "app.version"}
  <2>1. F!Bad(l, {"app.env"}, {"odd"}) = F!Bad(r, {"app.env"}, {"odd"})
    BY BadAlike, FieldNames
  <2> QED
    BY <2>1 DEF F!ValidateApp, F!Bad
<1>2. F!ValidateServer(l) = F!ValidateServer(r)
  BY ServerAlike
<1>3. F!ValidateDatabase(r) \subseteq F!ValidateDatabase(l)
  BY DatabaseAlike
<1>4. F!ValidateRedis(l) = F!ValidateRedis(r)
  BY RedisAlike
<1>5. F!ValidateConsul(l) = F!ValidateConsul(r)
  BY OthersAlike
<1>6. F!ValidateNATS(l) = F!ValidateNATS(r)
  BY OthersAlike
<1>7. F!ValidateLog(l) = F!ValidateLog(r)
  BY OthersAlike
<1>8. F!ValidateTrace(l) = F!ValidateTrace(r)
  BY OthersAlike
<1> HIDE DEF l, r
<1>9. F!ValidateConfig(r) \subseteq F!ValidateConfig(l) \cup {"app.name", "app.version"}
  BY <1>1, <1>2, <1>3, <1>4, <1>5, <1>6, <1>7, <1>8 DEF F!ValidateConfig
<1> QED
  BY <1>9 DEF l, r

\* The defaults alone are accepted.
LEMMA DefaultsAccepted ==
  ASSUME FileInv, file = <<>>
  PROVE  F!ValidateAndLoad(file).accepted
<1> DEFINE l == F!Loaded(file)
<1>1. DOMAIN file = {}
  OBVIOUS
<1>2. \A f \in F!Fields : l[f] = F!Default(f)
  BY <1>1 DEF F!Loaded
<1> HIDE DEF l
<1>3. ASSUME NEW f \in F!Fields \ Sizes
      PROVE  \/ l[f] = "ok"
             \/ l[f] = "zero" /\ f \in F!WithoutDefault \cup {"redis.db", "trace.enabled"}
  <2>1. F!Default(f) = IF f \in F!WithoutDefault \cup {"redis.db", "trace.enabled"}
                       THEN "zero" ELSE "ok"
    BY DEF F!Default, Sizes
  <2> QED
    BY <1>2, <2>1
<1>4. l[F!MaxIdle] = 10 /\ l[F!MaxOpen] = 100
  BY <1>2, SizeSettings DEF F!Default, Sizes, F!MaxIdle, F!MaxOpen, F!WithoutDefault
<1>5. l["redis.mode"] = "zero" /\ l["trace.enabled"] = "zero"
  BY <1>2, FieldNames DEF F!Default, Sizes, F!WithoutDefault
<1>6. \A S, classes : S \subseteq F!Fields \ Sizes /\ "ok" \notin classes /\ "zero" \notin classes
          => F!Bad(l, S, classes) = {}
  BY <1>3 DEF F!Bad
<1>7. F!Bad(l, {"app.name", "app.version"}, {"zero"}) = {}
  BY <1>3, FieldNames DEF F!Bad, F!WithoutDefault
<1>8. F!ValidateApp(l) = {} /\ F!ValidateServer(l) = {} /\ F!ValidateConsul(l) = {}
      /\ F!ValidateNATS(l) = {} /\ F!ValidateLog(l) = {}
  BY <1>6, <1>7, FieldNames DEF F!ValidateApp, F!ValidateServer, F!ValidateConsul, F!ValidateNATS,
     F!ValidateLog
<1>9. F!ValidateDatabase(l) = {}
  BY <1>4, <1>6, FieldNames DEF F!ValidateDatabase
<1>10. F!ValidateRedis(l) = {}
  <2>1. F!Bad(l, {}, {"zero"}) = {}
    BY DEF F!Bad
  <2> QED
    BY <1>5, <1>6, <2>1, FieldNames DEF F!ValidateRedis
<1>11. F!ValidateTrace(l) = {}
  BY <1>5, <1>6, FieldNames DEF F!ValidateTrace
<1>12. F!ValidateConfig(l) = {}
  BY <1>8, <1>9, <1>10, <1>11 DEF F!ValidateConfig
<1> QED
  BY <1>12 DEF F!ValidateAndLoad, l

\* What FileInv says of a value the rules are asked about.
LEMMA RulesFit == FileInv => F!RulesAgree
<1> SUFFICES ASSUME FileInv PROVE F!RulesAgree
  OBVIOUS
<1>1. /\ value.n \in Int /\ value.lo \in Int /\ value.hi \in Int
      /\ value.kind = "nil" => value.n = 0
      /\ value.kind = "string" => (value.n = 0 <=> value.form = "empty")
      /\ value.kind # "string" => value.form = "empty"
  BY DEF FileInv, F!Samples
<1> DEFINE port == [value EXCEPT !.lo = 0, !.hi = 65535]
<1>2. port.lo = 0 /\ port.hi = 65535 /\ port.n = value.n /\ port.kind = value.kind
  BY DEF FileInv, F!Samples
<1> HIDE DEF port
<1>3. F!RangeRule(value) = (value.kind \in F!IntKinds /\ (F!MinRule(value) \/ F!MaxRule(value)))
  BY DEF F!RangeRule, F!MinRule, F!MaxRule, F!Measured
<1>4. F!Port(value) = (F!RangeRule(port) /\ value.kind # "int32")
  <2>1. F!Port(value) <=> F!RangeRule(port) /\ value.kind # "int32"
    BY <1>1, <1>2 DEF F!Port, F!RangeRule, F!IntKinds
  <2> QED
    BY <2>1 DEF F!Port, F!RangeRule
<1>5. F!Required(value) => \A form \in F!StringForms : ~F!FormatRule(value, form)
  BY <1>1 DEF F!Required, F!IsEmptyValue, F!FormatRule
<1>6. F!Required(value) /\ value.kind = "string" => F!OneOf(value, F!StringForms)
  BY <1>1 DEF F!Required, F!IsEmptyValue, F!OneOf, F!StringForms
<1> QED
  BY <1>3, <1>4, <1>5, <1>6 DEF F!RulesAgree, port

LEMMA FileFits == FileInv => F!DefaultsFit
BY LoadedIsParsed, ParsedIsLoaded, DefaultsAccepted DEF F!DefaultsFit

-----------------------------------------------------------------------------
(* The composition: a step is a step of one part, and none of the others. *)

LEMMA NatsSteps == [Next]_vars => [N!Next]_(N!vars)
<1> SUFFICES ASSUME Next PROVE [N!Next]_(N!vars)
  BY DEF vars, natsVars, N!vars
<1> QED
  BY Zenon DEF Next, Nats, Health, File, Jwt, Log, natsVars, N!vars, N!Next

LEMMA HealthSteps == [Next]_vars => [H!Next]_(H!vars)
<1> SUFFICES ASSUME Next PROVE [H!Next]_(H!vars)
  BY DEF vars, healthVars, H!vars
<1> QED
  BY Zenon DEF Next, Nats, Health, File, Jwt, Log, healthVars, H!vars, H!Next

LEMMA FileSteps == [Next]_vars => [F!Next]_(F!vars)
<1> SUFFICES ASSUME Next PROVE [F!Next]_(F!vars)
  BY DEF vars, fileVars, F!vars
<1> QED
  BY Zenon DEF Next, Nats, Health, File, Jwt, Log, fileVars, F!vars, F!Next

LEMMA JwtSteps == [Next]_vars => [J!Next]_(J!vars)
<1> SUFFICES ASSUME Next PROVE [J!Next]_(J!vars)
  BY DEF vars, jwtVars, J!vars
<1> QED
  BY Zenon DEF Next, Nats, Health, File, Jwt, Log, jwtVars, J!vars, J!Next

LEMMA LogSteps == [Next]_vars => [L!Next]_(L!vars)
<1> SUFFICES ASSUME Next PROVE [L!Next]_(L!vars)
  BY DEF vars, logVars, L!vars
<1> QED
  BY Zenon DEF Next, Nats, Health, File, Jwt, Log, logVars, L!vars, L!Next

PartsInv == part \in Parts /\ NatsInv /\ HealthInv /\ FileInv /\ JwtInv /\ LogInv

LEMMA PartsInit == Init => PartsInv
BY NatsInit, HealthInit, FileInit, JwtInit, LogInit DEF Init, PartsInv

LEMMA PartKept == [Next]_vars => part' = part
BY Zenon DEF vars, Next, Nats, Health, File, Jwt, Log

LEMMA PartsNext == PartsInv /\ [Next]_vars => PartsInv'
BY PartKept, NatsSteps, HealthSteps, FileSteps, JwtSteps, LogSteps,
   NatsNext, HealthNext, FileNext, JwtNext, LogNext DEF PartsInv

LEMMA Invariant == Spec => []PartsInv
  BY PartsInit, PartsNext, PTL DEF Spec

-----------------------------------------------------------------------------

\* The variables of all parts keep their types, for any numbers of users,
\* subscriptions, probes, checkers, tokens, callers, hooks and fields.
THEOREM TypeCorrect == Spec => []TypeOK
<1>1. PartsInv => TypeOK
  BY DEF PartsInv, NatsInv, HealthInv, JwtInv, LogInv, TypeOK
<1> QED
  BY Invariant, <1>1, PTL

\* Every subscription that still gets messages can be ended, unless its key was
\* written over, however many goroutines subscribe, unsubscribe and close at once.
THEOREM SubscriptionsCanBeEnded == Spec => []LiveIsReachable
<1>1. PartsInv => LiveIsReachable
  BY DEF PartsInv, NatsInv, LiveIsReachable
<1> QED
  BY Invariant, <1>1, PTL

\* A health answer is younger than cache time and deadline together, and up only
\* if every checker was up at some moment of the check.
THEOREM HealthAnswersAreFresh == Spec => []AnswersAreFresh
<1>1. PartsInv => AnswersAreFresh
  BY DEF PartsInv, HealthInv, ProbeOK, AnswersAreFresh, H!AnswersAreFresh
<1> QED
  BY Invariant, <1>1, PTL

\* Defaults and validator fit together for a file with any settings, and the rules
\* for single fields agree on every value asked about.
THEOREM ConfigurationRulesAgree == Spec => []RulesAgree
<1>1. PartsInv => RulesAgree
  BY FileFits, RulesFit DEF PartsInv, RulesAgree
<1> QED
  BY Invariant, <1>1, PTL

\* A token whose revocation was reported is refused while it would be good, with
\* the exceptions the property names, whatever the life of a token.
THEOREM RevokedTokensAreRefused == Spec => []RevokedIsRefused
<1>1. PartsInv => RevokedIsRefused
  BY DEF PartsInv, JwtInv, CallerOK, RevokedIsRefused, J!RevokedIsRefused
<1> QED
  BY Invariant, <1>1, PTL

\* No string under a sensitive key gets below a MaskedLogger unmasked, but those
\* of which its rule keeps the whole, for any strings, any stack of wrappers, any
\* keys and types, hooks and rate of sampling.
THEOREM SensitiveIsMasked == Spec => []MaskedBelow
<1>1. PartsInv => MaskedBelow
  BY DEF PartsInv, LogInv, MaskedBelow
<1> QED
  BY Invariant, <1>1, PTL
=============================================================================
