---------------------------- MODULE CacheEntries ----------------------------
(***************************************************************************)
(* What one cache holds under one key: pkg/cache/memory.go, and the Redis   *)
(* server as pkg/cache/redis.go uses it. Times are ticks of half a second   *)
(* and the clock starts at 1, so that 0 can stand for Go's zero time.       *)
(***************************************************************************)
EXTENDS Integers

CONSTANTS
    Values,     \* what callers store
    Number,     \* the content Incr leaves behind, whatever the number is
    NoEntry     \* the absent map entry

ASSUME NumberAssumption == Number \notin Values
ASSUME NoEntryAssumption ==
    NoEntry \notin Values \cup {Number} \cup
                   [value : Values \cup {Number}, expiresAt : Nat]

Contents == Values \cup {Number}

Never == 0      \* cacheItem.expiresAt.IsZero()

Entry == [value : Contents, expiresAt : Nat]

\* An item is found and isExpired() is false.
Live(e, now) ==
    /\ e # NoEntry
    /\ e.expiresAt # Never => now <= e.expiresAt

\* The end of a ttl given to Set: none unless it is positive.
Deadline(ttl, now) == IF ttl > 0 THEN now + ttl ELSE Never

\* memoryCache.Set, and SET in Redis.
Put(v, ttl, now) == [value |-> v, expiresAt |-> Deadline(ttl, now)]

\* memoryCache.Expire: also an item that has expired and was not yet removed.
MemoryExpire(e, ttl, now) ==
    IF e = NoEntry THEN NoEntry ELSE [e EXCEPT !.expiresAt = now + ttl]

\* EXPIRE in Redis, which knows live keys only.
RedisExpire(e, ttl, now) ==
    IF Live(e, now) THEN [e EXCEPT !.expiresAt = now + ttl] ELSE e

\* memoryCache.IncrBy stores a new item without an expiry.
MemoryIncr == [value |-> Number, expiresAt |-> Never]

\* INCRBY in Redis keeps the expiry of a live key.
RedisIncr(e, now) ==
    [value |-> Number, expiresAt |-> IF Live(e, now) THEN e.expiresAt ELSE Never]

\* memoryCache.TTL: -2 without an entry, -1 without an expiry.
MemoryTTL(e, now) ==
    IF ~Live(e, now) THEN -2
    ELSE IF e.expiresAt = Never THEN -1 ELSE e.expiresAt - now

\* TTL in Redis, which answers in whole seconds, rounded to the nearest.
RedisTTL(e, now) ==
    LET ttl == MemoryTTL(e, now) IN IF ttl > 0 THEN ttl + (ttl % 2) ELSE ttl
=============================================================================
