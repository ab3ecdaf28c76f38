--------------------------- MODULE IPRateLimiter ---------------------------
(***************************************************************************)
(* The per-key token-bucket limiter of pkg/server/middleware/ratelimit.go: *)
(* request goroutines look a key's bucket up (getLimiter: read lock, then   *)
(* write lock with a second check), keep the pointer across the unlock, and *)
(* charge the bucket under its own lock (TokenBucket.AllowN); a background  *)
(* goroutine (cleanup) drops the buckets it finds full.                     *)
(*                                                                          *)
(* Time is a natural number of ticks and a bucket holds whole tokens: Rate  *)
(* is the number of tokens a tick adds.  The code reads the monotonic clock *)
(* inside the bucket's lock, so a bucket never sees time run backwards.     *)
(***************************************************************************)
EXTENDS Integers, FiniteSets

CONSTANTS
    Keys,        \* limiter keys: client IPs, user ids, IP:path pairs
    Callers,     \* request goroutines
    Buckets,     \* bucket objects that may ever be allocated (bound)
    NoBucket,    \* the absent map entry, the nil pointer
    Capacity,    \* capacity of every bucket
    Rate,        \* tokens added per tick
    Sizes,       \* the n of AllowN(key, n)
    MaxTime      \* bound on the clock

ASSUME CapacityAssumption == Capacity \in Nat
ASSUME RateAssumption == Rate \in Nat
ASSUME SizesAssumption == Sizes \subseteq Nat
ASSUME MaxTimeAssumption == MaxTime \in Nat
ASSUME CallersAssumption == IsFiniteSet(Callers)
ASSUME NoBucketAssumption == NoBucket \notin Buckets

VARIABLES
    now,         \* the clock
    made,        \* buckets allocated so far
    tokens,      \* TokenBucket.tokens
    lastUpdate,  \* TokenBucket.lastUpdate
    limiters,    \* IPRateLimiter.limiters
    sweeping,    \* cleanup holds IPRateLimiter.mu
    todo,        \* keys the running cleanup has not visited yet
    pc,          \* what each caller does next
    req,         \* the key and size each caller asks for
    held,        \* the bucket pointer getLimiter returned to each caller
    forgotten,   \* (history) buckets cleanup removed from the map
    granted,     \* (history) all the tokens granted to each key
    overtaken    \* (history) tokens asked for by the requests of each key that
                 \* held its bucket when cleanup dropped it

bucketVars == <<made, tokens, lastUpdate>>
sweepVars == <<sweeping, todo>>
callerVars == <<pc, req, held>>
history == <<forgotten, granted, overtaken>>
vars == <<now, bucketVars, limiters, sweepVars, callerVars, history>>

Requests == [key : Keys, n : Sizes]

TypeOK ==
    /\ now \in 0..MaxTime
    /\ made \in SUBSET Buckets
    /\ tokens \in [Buckets -> 0..Capacity]
    /\ lastUpdate \in [Buckets -> 0..MaxTime]
    /\ limiters \in [Keys -> Buckets \cup {NoBucket}]
    /\ sweeping \in BOOLEAN
    /\ todo \in SUBSET Keys
    /\ pc \in [Callers -> {"idle", "lookup", "create", "allow"}]
    /\ req \in [Callers -> Requests]
    /\ held \in [Callers -> Buckets \cup {NoBucket}]
    /\ forgotten \in SUBSET Buckets
    /\ granted \in [Keys -> Nat]
    /\ overtaken \in [Keys -> Nat]

Init ==
    /\ now = 0
    /\ made = {}
    /\ tokens = [b \in Buckets |-> 0]
    /\ lastUpdate = [b \in Buckets |-> 0]
    /\ limiters = [k \in Keys |-> NoBucket]
    /\ sweeping = FALSE
    /\ todo = {}
    /\ pc = [c \in Callers |-> "idle"]
    /\ req \in [Callers -> Requests]
    /\ held = [c \in Callers |-> NoBucket]
    /\ forgotten = {}
    /\ granted = [k \in Keys |-> 0]
    /\ overtaken = [k \in Keys |-> 0]

-----------------------------------------------------------------------------
(* Request goroutines *)

\* The allocation bound: a request is taken on only while a bucket is left
\* for every caller that may still have to create one.
CanAllocate ==
    Cardinality({c \in Callers : pc[c] \in {"lookup", "create"}})
        < Cardinality(Buckets \ made)

\* A request reaches the limiter: Allow(key) or AllowN(key, n).
Arrive(c) ==
    /\ pc[c] = "idle"
    /\ CanAllocate
    /\ \E r \in Requests : req' = [req EXCEPT ![c] = r]
    /\ pc' = [pc EXCEPT ![c] = "lookup"]
    /\ UNCHANGED <<now, bucketVars, limiters, sweepVars, held, history>>

Take(c, b) ==
    /\ held' = [held EXCEPT ![c] = b]
    /\ pc' = [pc EXCEPT ![c] = "allow"]

\* getLimiter under the read lock.
Lookup(c) ==
    LET b == limiters[req[c].key] IN
    /\ pc[c] = "lookup"
    /\ ~sweeping
    /\ IF b # NoBucket
       THEN Take(c, b)
       ELSE pc' = [pc EXCEPT ![c] = "create"] /\ UNCHANGED held
    /\ UNCHANGED <<now, bucketVars, limiters, sweepVars, req, history>>

\* (Faulty variant of CreateFound) No second check: a new bucket replaces the
\* one another caller registered meanwhile.
CreateFoundNoDoubleCheck(c) ==
    /\ pc[c] = "create"
    /\ ~sweeping
    /\ limiters[req[c].key] # NoBucket
    /\ \E b \in Buckets \ made :
        /\ made' = made \cup {b}
        /\ tokens' = [tokens EXCEPT ![b] = Capacity]
        /\ lastUpdate' = [lastUpdate EXCEPT ![b] = now]
        /\ limiters' = [limiters EXCEPT ![req[c].key] = b]
        /\ Take(c, b)
    /\ UNCHANGED <<now, sweepVars, req, history>>

\* getLimiter under the write lock, the second check succeeding.
CreateFound(c) ==
    /\ pc[c] = "create"
    /\ ~sweeping
    /\ limiters[req[c].key] # NoBucket
    /\ Take(c, limiters[req[c].key])
    /\ UNCHANGED <<now, bucketVars, limiters, sweepVars, req, history>>

\* (Faulty variant of CreateNew) Hands out a bucket that may be in use.
CreateNewShared(c) ==
    /\ pc[c] = "create"
    /\ ~sweeping
    /\ limiters[req[c].key] = NoBucket
    /\ \E b \in Buckets :
        /\ made' = made \cup {b}
        /\ tokens' = [tokens EXCEPT ![b] = Capacity]
        /\ lastUpdate' = [lastUpdate EXCEPT ![b] = now]
        /\ limiters' = [limiters EXCEPT ![req[c].key] = b]
        /\ Take(c, b)
    /\ UNCHANGED <<now, sweepVars, req, history>>

\* getLimiter under the write lock, creating the bucket (NewTokenBucket).
CreateNew(c) ==
    /\ pc[c] = "create"
    /\ ~sweeping
    /\ limiters[req[c].key] = NoBucket
    /\ \E b \in Buckets \ made :
        /\ made' = made \cup {b}
        /\ tokens' = [tokens EXCEPT ![b] = Capacity]
        /\ lastUpdate' = [lastUpdate EXCEPT ![b] = now]
        /\ limiters' = [limiters EXCEPT ![req[c].key] = b]
        /\ Take(c, b)
    /\ UNCHANGED <<now, sweepVars, req, history>>

\* (Faulty variant of Refilled) The refill without the cap.
RefilledUncapped(b) == tokens[b] + Rate * (now - lastUpdate[b])

\* What AllowN finds in bucket b after adding the tokens of the elapsed time.
Refilled(b) ==
    LET t == tokens[b] + Rate * (now - lastUpdate[b])
    IN  IF t > Capacity THEN Capacity ELSE t

\* TokenBucket.AllowN on the pointer the caller holds, granted or refused.
Allow(c) ==
    LET b == held[c]
        k == req[c].key
        n == req[c].n
        enough == Refilled(b) >= n
    IN
    /\ pc[c] = "allow"
    /\ tokens' = [tokens EXCEPT ![b] =
                    IF enough THEN Refilled(b) - n ELSE Refilled(b)]
    /\ lastUpdate' = [lastUpdate EXCEPT ![b] = now]
    /\ pc' = [pc EXCEPT ![c] = "idle"]
    /\ held' = [held EXCEPT ![c] = NoBucket]
    /\ granted' = IF enough THEN [granted EXCEPT ![k] = @ + n] ELSE granted
    /\ UNCHANGED <<now, made, limiters, sweepVars, req, forgotten, overtaken>>

-----------------------------------------------------------------------------
(* The cleanup goroutine *)

\* A tick of the five-minute ticker: take IPRateLimiter.mu, range the map.
SweepStart ==
    /\ ~sweeping
    /\ sweeping' = TRUE
    /\ todo' = {k \in Keys : limiters[k] # NoBucket}
    /\ UNCHANGED <<now, bucketVars, limiters, callerVars, history>>

\* (Faulty variant of LooksFull) Drops a bucket that is one token short.
LooksFullTooEarly(b) == tokens[b] >= Capacity - 1

\* The test of the cleanup loop, on the tokens stored at the last AllowN.
LooksFull(b) == tokens[b] >= Capacity

Holders(b) == {c \in Callers : pc[c] = "allow" /\ held[c] = b}

\* The tokens the requests of the callers in C ask for, counted one by one.
Asked(C, n) == Cardinality(UNION {{c} \X (1..n[c]) : c \in C})

Asking == [c \in Callers |-> req[c].n]

\* One iteration: under the bucket's lock, drop the bucket if it is full,
\* whoever has taken its pointer from the map and not charged it yet.
SweepVisit(k) ==
    /\ sweeping
    /\ k \in todo
    /\ todo' = todo \ {k}
    /\ IF LooksFull(limiters[k])
       THEN /\ limiters' = [limiters EXCEPT ![k] = NoBucket]
            /\ forgotten' = forgotten \cup {limiters[k]}
            /\ overtaken' = [overtaken EXCEPT ![k] =
                                @ + Asked(Holders(limiters[k]), Asking)]
       ELSE UNCHANGED <<limiters, forgotten, overtaken>>
    /\ UNCHANGED <<now, bucketVars, sweeping, callerVars, granted>>

\* (Faulty variant of SweepEnd) Leaves the loop without releasing the lock.
SweepEndNoUnlock ==
    /\ sweeping
    /\ todo = {}
    /\ UNCHANGED vars

SweepEnd ==
    /\ sweeping
    /\ todo = {}
    /\ sweeping' = FALSE
    /\ UNCHANGED <<now, bucketVars, limiters, todo, callerVars, history>>

Tick ==
    /\ now < MaxTime
    /\ now' = now + 1
    /\ UNCHANGED <<bucketVars, limiters, sweepVars, callerVars, history>>

Serve(c) == Lookup(c) \/ CreateFound(c) \/ CreateNew(c) \/ Allow(c)
Sweep == (\E k \in Keys : SweepVisit(k)) \/ SweepEnd

Next ==
    \/ \E c \in Callers : Arrive(c) \/ Serve(c)
    \/ SweepStart \/ Sweep
    \/ Tick

Spec == Init /\ [][Next]_vars

\* A goroutine that can run does; sync.RWMutex lets a waiting goroutine in
\* although the lock is taken again and again, hence strong fairness of the
\* steps that wait for it.  Requests and the ticker owe nothing.
Fairness ==
    /\ \A c \in Callers : SF_vars(Serve(c))
    /\ WF_vars(Sweep)

FairSpec == Spec /\ Fairness

-----------------------------------------------------------------------------
(* Properties *)

\* All that is granted to a key, by whichever bucket, stays within one burst
\* plus the refill since the start, plus what the requests asked for that
\* cleanup overtook between getLimiter and AllowN: those may charge a bucket
\* that is no longer the key's, while the key has a fresh full one.  Dropping
\* a full bucket nobody holds gives the key nothing.
RateBound ==
    \A k \in Keys : granted[k] <= Capacity + Rate * now + overtaken[k]

\* A caller about to charge a bucket holds the one registered for its key, or
\* one that cleanup dropped after the lookup: two goroutines that miss at the
\* same time end up with the same bucket (the double check of getLimiter).
HeldIsRegisteredOrForgotten ==
    \A c \in Callers : pc[c] = "allow" =>
        held[c] = limiters[req[c].key] \/ held[c] \in forgotten

\* No request is ever charged to another key's bucket, and no two keys are
\* registered with one bucket: one client cannot use up another's quota.
KeysIsolated ==
    \A k \in Keys : limiters[k] # NoBucket =>
        /\ \A j \in Keys \ {k} : limiters[j] # limiters[k]
        /\ \A c \in Callers :
              pc[c] = "allow" /\ held[c] = limiters[k] => req[c].key = k

\* A request that entered the limiter gets its answer, although cleanup may
\* hold the map's lock when the request needs it.
Answered == \A c \in Callers : pc[c] = "lookup" ~> pc[c] = "idle"
=============================================================================
