---------------------------- MODULE HealthManager ----------------------------
(***************************************************************************)
(* Liveness and readiness checks of pkg/app/health.go: two cached answers   *)
(* under one RWMutex, checkers called one after the other outside of it, and *)
(* answers put into the cache by whoever is ready. A checker is up or down; *)
(* one whose context is done, by the deadline or because the client of the  *)
(* request is gone, answers down (PingChecker with a ping that heeds it).   *)
(* Time is kept as the age of an answer and the time it may yet be cached.  *)
(***************************************************************************)
EXTENDS Integers, FiniteSets

CONSTANTS
    Probes,   \* goroutines serving probes
    Checkers, \* checkers that can be registered, each for both kinds
    CacheTTL, Timeout

Kinds == {"liveness", "readiness"}

VARIABLES
    healthy,    \* checkers whose dependency is up
    registered, \* livenessCheckers and readinessCheckers
    cache,      \* livenessCache and readinessCache, with their TTL
    probe       \* each goroutine's place in CheckLiveness or CheckReadiness

vars == <<healthy, registered, cache, probe>>

\* unmet is history: the checkers never up since the check began, if it may say up.
Nothing == [age |-> 0, status |-> "none", unmet |-> {}, ttl |-> 0]
Waiting == [at |-> "idle", kind |-> "liveness", left |-> {}, answer |-> Nothing]

Init ==
    /\ healthy = Checkers
    /\ registered = [k \in Kinds |-> {}]
    /\ cache = [k \in Kinds |-> Nothing]
    /\ probe = [p \in Probes |-> Waiting]

Register(k, c) ==
    /\ c \notin registered[k]
    /\ registered' = [registered EXCEPT ![k] = @ \cup {c}]
    /\ UNCHANGED <<healthy, cache, probe>>

Fails(c) ==
    /\ c \in healthy
    /\ healthy' = healthy \ {c}
    /\ UNCHANGED <<registered, cache, probe>>

Recovers(c) ==
    /\ c \notin healthy
    /\ healthy' = healthy \cup {c}
    /\ probe' = [p \in Probes |->
                    IF probe[p].at = "answered" THEN probe[p]
                    ELSE [probe[p] EXCEPT !.answer.unmet = @ \ {c}]]
    /\ UNCHANGED <<registered, cache>>

-----------------------------------------------------------------------------

Fresh(k) == cache[k].ttl > 0

Hit(p, k) ==
    /\ probe[p].at = "idle" /\ Fresh(k)
    /\ probe' = [probe EXCEPT ![p] = [Waiting EXCEPT !.at = "answered", !.answer = cache[k]]]
    /\ UNCHANGED <<healthy, registered, cache>>

Miss(p, k) ==
    /\ probe[p].at = "idle" /\ ~Fresh(k)
    /\ probe' = [probe EXCEPT ![p] = [Waiting EXCEPT
           !.at = "list", !.kind = k,
           !.answer = [age |-> 0, status |-> "up", unmet |-> Checkers \ healthy, ttl |-> 0]]]
    /\ UNCHANGED <<healthy, registered, cache>>

\* The checkers are taken under a read lock of its own.
List(p) ==
    /\ probe[p].at = "list"
    /\ LET checkers == registered[probe[p].kind] IN
       probe' = [probe EXCEPT ![p].at = "check", ![p].left = checkers,
                              ![p].answer.unmet = @ \cap checkers]
    /\ UNCHANGED <<healthy, registered, cache>>

DownSince(age) == [age |-> age, status |-> "down", unmet |-> {}, ttl |-> 0]

CheckWith(p, c, answer) ==
    /\ probe[p].at = "check" /\ c \in probe[p].left
    /\ probe' = [probe EXCEPT ![p].left = @ \ {c}, ![p].answer = answer]
    /\ UNCHANGED <<healthy, registered, cache>>

Passes(p, c) == c \in healthy /\ probe[p].answer.age < Timeout

\* (Faulty variant of CheckDown: a client that is gone is told up.)
CheckDownGone(p, c) ==
    CheckWith(p, c, IF Passes(p, c) THEN DownSince(probe[p].answer.age) ELSE probe[p].answer)

\* (Checkers come in the order of registration; any order is allowed here.)
CheckUp(p, c) == Passes(p, c) /\ CheckWith(p, c, probe[p].answer)

\* The checker is down, or late, or the client has closed its connection, which
\* ends the context of all checks that follow.
CheckDown(p, c) == CheckWith(p, c, DownSince(probe[p].answer.age))

\* Also when the client is gone, or another probe has cached a newer answer.
CacheResponse(p) ==
    /\ probe[p].at = "check" /\ probe[p].left = {}
    /\ LET answer == [probe[p].answer EXCEPT !.ttl = CacheTTL]
       IN /\ cache' = [cache EXCEPT ![probe[p].kind] = answer]
          /\ probe' = [probe EXCEPT ![p] = [Waiting EXCEPT !.at = "answered", !.answer = answer]]
    /\ UNCHANGED <<healthy, registered>>

Answered(p) ==
    /\ probe[p].at = "answered"
    /\ probe' = [probe EXCEPT ![p] = Waiting]
    /\ UNCHANGED <<healthy, registered, cache>>

ClearCache ==
    /\ cache' = [k \in Kinds |-> Nothing]
    /\ UNCHANGED <<healthy, registered, probe>>

\* A unit of time. Checkers heed the context, so that no check outlives its
\* deadline, and answers are sent at once. What has expired counts as nothing.
Tick ==
    /\ \A p \in Probes : /\ probe[p].at # "answered"
                         /\ probe[p].at # "idle" => probe[p].answer.age < Timeout
    /\ cache' = [k \in Kinds |->
           IF cache[k].ttl <= 1 THEN Nothing
           ELSE [cache[k] EXCEPT !.age = @ + 1, !.ttl = @ - 1]]
    /\ probe' = [p \in Probes |->
           IF probe[p].at = "idle" THEN probe[p] ELSE [probe[p] EXCEPT !.answer.age = @ + 1]]
    /\ UNCHANGED <<healthy, registered>>

Next ==
    \/ Tick \/ ClearCache
    \/ \E c \in Checkers : Fails(c) \/ Recovers(c) \/ (\E k \in Kinds : Register(k, c))
    \/ \E p \in Probes :
        \/ \E k \in Kinds : Hit(p, k) \/ Miss(p, k)
        \/ List(p) \/ (\E c \in Checkers : CheckUp(p, c) \/ CheckDown(p, c))
        \/ CacheResponse(p) \/ Answered(p)

Spec == Init /\ [][Next]_vars

-----------------------------------------------------------------------------
(* Properties *)

Answer == [age : Nat, status : {"none", "up", "down"},
           unmet : SUBSET Checkers, ttl : 0..CacheTTL]

\* Types of the variables.
TypeOK ==
    /\ healthy \subseteq Checkers
    /\ registered \in [Kinds -> SUBSET Checkers]
    /\ cache \in [Kinds -> Answer]
    /\ probe \in [Probes -> [at : {"idle", "list", "check", "answered"}, kind : Kinds,
                             left : SUBSET Checkers, answer : Answer]]

\* With checkers that heed their context, which health.go does not enforce: an
\* answer, cached or not, was begun less than CacheTTL and Timeout ago, although
\* an older check may replace a newer one or come after ClearCache; and one that
\* says up has found every checker registered when it was begun up at some moment
\* since, although they fail and recover meanwhile and probes overlap.
AnswersAreFresh ==
    \A p \in Probes : probe[p].at = "answered" =>
        /\ probe[p].answer.age < CacheTTL + Timeout
        /\ probe[p].answer.status = "up" => probe[p].answer.unmet = {}
=============================================================================
