-------------------------- MODULE MultiLevelCache --------------------------
(***************************************************************************)
(* The multi-level cache of pkg/cache/multi.go, seen at one key. A writer   *)
(* goes through the levels one call at a time and a Get fills the upper     *)
(* levels from the one it hit; nothing is locked across levels, so the      *)
(* calls of several clients interleave. A Redis level can fail.             *)
(***************************************************************************)
EXTENDS CacheEntries, FiniteSets

CONSTANTS
    L,            \* len(multiLevelCache.levels)
    RedisLevels,  \* the levels that are redisCaches, the others are memoryCaches
    Faulty,       \* the levels whose calls can fail
    Writers,      \* goroutines that write
    Readers,      \* goroutines that Get
    TTLs,         \* positive ttls that callers pass, in whole seconds
    Unknown,      \* see settled
    MaxTime,      \* bound on the clock
    MaxWrites     \* bound on the write calls

ASSUME LAssumption == L \in Nat \ {0}
ASSUME LevelsAssumption == RedisLevels \subseteq 1..L /\ Faulty \subseteq 1..L
ASSUME ClientsAssumption == Writers \cap Readers = {}
ASSUME TTLsAssumption == TTLs \subseteq {t \in Nat : t > 0 /\ t % 2 = 0}
ASSUME BoundsAssumption == MaxTime \in Nat /\ MaxWrites \in Nat
ASSUME UnknownAssumption == Unknown \notin Contents \cup {NoEntry}

VARIABLES
    now,      \* the clock
    level,    \* what each level holds under the key
    job,      \* the call each client is in
    writes,   \* how many writes have begun
    settled,  \* (history) what the last write left: a content, NoEntry for a
              \* Delete, Unknown if it failed or overlapped another write
    lease,    \* (history) the latest expiry a writer gave the key
    lag       \* (history) the longest time from a TTL to its backfill

vars == <<now, level, job, writes, settled, lease, lag>>

Levels == 1..L
Clients == Writers \cup Readers

\* A call: what it does next, its argument, the level it is at, the level a
\* Get hit, when it read the TTL, and whether a level failed it or another
\* write overlapped it.
Job == [op : {"idle", "set", "delete", "expire", "setnx", "copy", "incr",
              "lookup", "ttl", "fill"},
        value : Contents \cup {NoEntry}, ttl : Int, at : Levels, from : Levels,
        since : Nat, bad : BOOLEAN]

Idle == [op |-> "idle", value |-> NoEntry, ttl |-> 0, at |-> 1, from |-> 1,
         since |-> 0, bad |-> FALSE]

TypeOK ==
    /\ now \in Nat
    /\ level \in [Levels -> Entry \cup {NoEntry}]
    /\ job \in [Clients -> Job]
    /\ \A c \in Clients : job[c].op = "fill" => job[c].at < job[c].from
    /\ writes \in 0..MaxWrites
    /\ settled \in Contents \cup {NoEntry, Unknown}
    /\ lease \in Nat
    /\ lag \in Nat

Init ==
    /\ now = 1
    /\ level = [l \in Levels |-> NoEntry]
    /\ job = [c \in Clients |-> Idle]
    /\ writes = 0
    /\ settled = Unknown
    /\ lease = 0
    /\ lag = 0

Writing == {w \in Writers : job[w].op # "idle"}

Later(s, t) == IF s > t THEN s ELSE t

\* A writer replaces the entry of level l, which may be absent, by e.
Store(l, e) ==
    /\ level' = [level EXCEPT ![l] = e]
    /\ lease' = IF e = NoEntry THEN lease ELSE Later(lease, e.expiresAt)

\* What a Set, a Delete or an Expire makes of the entry of level l.
Applied(c, l) ==
    CASE job[c].op \in {"set", "copy"} -> Put(job[c].value, job[c].ttl, now)
      [] job[c].op = "delete" -> NoEntry
      [] job[c].op = "expire" ->
           IF l \in RedisLevels THEN RedisExpire(level[l], job[c].ttl, now)
           ELSE MemoryExpire(level[l], job[c].ttl, now)

-----------------------------------------------------------------------------
(* Writes                                                                   *)

\* A write begins; every write that is under way overlaps it.
BeginWrite(c) ==
    /\ c \in Writers
    /\ job[c].op = "idle"
    /\ writes < MaxWrites
    /\ writes' = writes + 1
    /\ \E op \in {"set", "delete", "expire", "setnx", "incr"},
          v \in Values \cup {NoEntry}, ttl \in TTLs \cup {0} :
         /\ v # NoEntry <=> op \in {"set", "setnx"}
         /\ op = "expire" => ttl > 0
         /\ op \in {"delete", "incr"} => ttl = 0
         /\ job' = [d \in Clients |->
              IF d = c THEN [Idle EXCEPT !.op = op, !.value = v, !.ttl = ttl,
                                         !.at = IF op \in {"setnx", "incr"} THEN L ELSE 1,
                                         !.bad = Writing # {}]
              ELSE IF d \in Writing THEN [job[d] EXCEPT !.bad = TRUE]
              ELSE job[d]]
    /\ UNCHANGED <<now, level, settled, lease, lag>>

\* What a write that ends without an error leaves.
Outcome(c) ==
    CASE job[c].op \in {"set", "setnx", "copy"} -> job[c].value
      [] job[c].op = "delete" -> NoEntry
      [] job[c].op = "expire" -> settled
      [] job[c].op = "incr" -> Unknown

\* Call c ends; bad says whether an error or an overlap was met.
EndWrite(c, bad) ==
    /\ job' = [job EXCEPT ![c] = Idle]
    /\ settled' = IF bad THEN Unknown ELSE Outcome(c)

\* (Faulty variant of WriteNext) Reports the error of the last level only.
WriteNextLastError(c, failed) ==
    IF job[c].at = L THEN EndWrite(c, failed)
    ELSE /\ job' = [job EXCEPT ![c].at = @ + 1]
         /\ UNCHANGED settled

\* The loop of a write goes to the next level whether or not this one failed.
WriteNext(c, failed) ==
    LET bad == failed \/ job[c].bad IN
    IF job[c].at = L THEN EndWrite(c, bad)
    ELSE /\ job' = [job EXCEPT ![c].at = @ + 1, ![c].bad = bad]
         /\ UNCHANGED settled

\* Set, Delete or Expire calls one level.
WriteStep(c) ==
    /\ job[c].op \in {"set", "delete", "expire"}
    /\ \E failed \in BOOLEAN :
         /\ failed => job[c].at \in Faulty
         /\ WriteNext(c, failed)
         /\ IF failed THEN UNCHANGED <<level, lease>>
            ELSE Store(job[c].at, Applied(c, job[c].at))
    /\ UNCHANGED <<now, writes, lag>>

\* SetNX on the last level: it failed, the key was there, or it won.
SetNXRefused(c) ==
    /\ job[c].op = "setnx"
    /\ \/ /\ L \in Faulty
          /\ EndWrite(c, TRUE)
       \/ /\ Live(level[L], now)
          /\ job' = [job EXCEPT ![c] = Idle]
          /\ UNCHANGED settled
    /\ UNCHANGED <<now, level, writes, lease, lag>>

SetNXWon(c) ==
    /\ job[c].op = "setnx"
    /\ ~Live(level[L], now)
    /\ Store(L, Put(job[c].value, job[c].ttl, now))
    /\ IF L = 1 THEN EndWrite(c, job[c].bad)
       ELSE /\ job' = [job EXCEPT ![c].op = "copy", ![c].at = 1]
            /\ UNCHANGED settled
    /\ UNCHANGED <<now, writes, lag>>

\* The winner sets one upper level; an error is dropped.
SetNXCopy(c) ==
    /\ job[c].op = "copy"
    /\ \/ /\ job[c].at \in Faulty
          /\ UNCHANGED <<level, lease>>
          /\ IF job[c].at = L - 1 THEN EndWrite(c, TRUE)
             ELSE /\ job' = [job EXCEPT ![c].at = @ + 1, ![c].bad = TRUE]
                  /\ UNCHANGED settled
       \/ /\ Store(job[c].at, Put(job[c].value, job[c].ttl, now))
          /\ IF job[c].at = L - 1 THEN EndWrite(c, job[c].bad)
             ELSE /\ job' = [job EXCEPT ![c].at = @ + 1]
                  /\ UNCHANGED settled
    /\ UNCHANGED <<now, writes, lag>>

\* Incr and its like go to the last level only. Redis refuses a content that
\* is not a number.
Incr(c) ==
    /\ job[c].op = "incr"
    /\ \/ /\ L \in Faulty \cup RedisLevels
          /\ UNCHANGED <<level, lease>>
       \/ Store(L, IF L \in RedisLevels THEN RedisIncr(level[L], now) ELSE MemoryIncr)
    /\ EndWrite(c, job[c].bad)
    /\ UNCHANGED <<now, writes, lag>>

-----------------------------------------------------------------------------
(* Get                                                                      *)

BeginGet(c) ==
    /\ c \in Readers
    /\ job[c].op = "idle"
    /\ job' = [job EXCEPT ![c].op = "lookup"]
    /\ UNCHANGED <<now, level, writes, settled, lease, lag>>

\* Get asks one level. Any error counts as a miss, and NotFound follows a miss
\* of the last level.
GetLookup(c) ==
    LET l == job[c].at IN
    /\ job[c].op = "lookup"
    /\ \/ /\ Live(level[l], now)
          /\ job' = [job EXCEPT ![c] =
               IF l = 1 THEN Idle
               ELSE [@ EXCEPT !.op = "ttl", !.value = level[l].value, !.from = l]]
       \/ /\ ~Live(level[l], now) \/ l \in Faulty
          /\ job' = [job EXCEPT ![c] = IF l = L THEN Idle ELSE [@ EXCEPT !.at = l + 1]]
    /\ UNCHANGED <<now, level, writes, settled, lease, lag>>

\* What TTL answers at level l; an error of it is dropped and leaves 0.
TTLAnswers(l) ==
    {IF l \in RedisLevels THEN RedisTTL(level[l], now) ELSE MemoryTTL(level[l], now)}
        \cup (IF l \in Faulty THEN {0} ELSE {})

\* (Faulty variant of GetTTL) Backfills whatever the TTL is.
GetTTLUnguarded(c) ==
    /\ job[c].op = "ttl"
    /\ \E ttl \in TTLAnswers(job[c].from) :
         job' = [job EXCEPT ![c].op = "fill", ![c].ttl = ttl, ![c].at = 1, ![c].since = now]
    /\ UNCHANGED <<now, level, writes, settled, lease, lag>>

\* Get reads the TTL of the level it hit; only a positive one is backfilled.
GetTTL(c) ==
    /\ job[c].op = "ttl"
    /\ \E ttl \in TTLAnswers(job[c].from) :
         job' = [job EXCEPT ![c] =
           IF ttl > 0 THEN [@ EXCEPT !.op = "fill", !.ttl = ttl, !.at = 1, !.since = now]
           ELSE Idle]
    /\ UNCHANGED <<now, level, writes, settled, lease, lag>>

\* (Faulty variant of FillNext) Also fills the level that was hit.
FillNextTooFar(c) ==
    job' = [job EXCEPT ![c] =
              IF @.at = @.from THEN Idle ELSE [@ EXCEPT !.at = job[c].at + 1]]

FillNext(c) ==
    job' = [job EXCEPT ![c] =
              IF @.at + 1 = @.from THEN Idle
              ELSE [@ EXCEPT !.at = job[c].at + 1]]

\* (Faulty variant of FilledTTL) The longest ttl in use, not the one read.
FilledTTLDefault(c) == CHOOSE ttl \in TTLs : \A u \in TTLs : u <= ttl

\* The ttl a backfill passes to Set.
FilledTTL(c) == job[c].ttl

\* Get sets one upper level to the value it read; an error is dropped.
GetFill(c) ==
    /\ job[c].op = "fill"
    /\ \/ level' = [level EXCEPT ![job[c].at] = Put(job[c].value, FilledTTL(c), now)]
       \/ job[c].at \in Faulty /\ UNCHANGED level
    /\ FillNext(c)
    /\ lag' = Later(lag, now - job[c].since)
    /\ UNCHANGED <<now, writes, settled, lease>>

-----------------------------------------------------------------------------
(* The environment                                                          *)

\* memoryCache.cleanup drops an expired item, Redis does so unseen.
Cleanup(l) ==
    /\ l \in Levels
    /\ level[l] # NoEntry
    /\ ~Live(level[l], now)
    /\ level' = [level EXCEPT ![l] = NoEntry]
    /\ UNCHANGED <<now, job, writes, settled, lease, lag>>

Tick ==
    /\ now < MaxTime
    /\ now' = now + 1
    /\ UNCHANGED <<level, job, writes, settled, lease, lag>>

Write(c) ==
    \/ BeginWrite(c)
    \/ WriteStep(c)
    \/ SetNXRefused(c)
    \/ SetNXWon(c)
    \/ SetNXCopy(c)
    \/ Incr(c)

Get(c) ==
    \/ BeginGet(c)
    \/ GetLookup(c)
    \/ GetTTL(c)
    \/ GetFill(c)

Next ==
    \/ \E c \in Writers : Write(c)
    \/ \E c \in Readers : Get(c)
    \/ \E l \in Levels : Cleanup(l)
    \/ Tick

Spec == Init /\ [][Next]_vars

-----------------------------------------------------------------------------
(* Properties                                                               *)

\* A write that succeeded and was not overlapped by another sticks, whatever
\* the Gets around it do: the last level holds what it wrote or nothing, and
\* an upper level that shows anything else shows a backfill that expires.
WritesStick ==
    (Writing = {} /\ settled # Unknown) =>
        /\ Live(level[L], now) => level[L].value = settled
        /\ \A l \in 1..(L - 1) :
             Live(level[l], now) =>
                level[l].value = settled \/ level[l].expiresAt # Never

\* Backfilling adds no lifetime of its own: however stale a copy is and however
\* often it was copied, it ends by the latest expiry a writer gave the key,
\* plus per copy the time between TTL and Set and Redis's rounding. (A bound
\* for each value does not hold: TTL can answer for a newer value than the one
\* Get has read.)
LeaseBound ==
    \A l \in Levels :
        level[l] # NoEntry =>
            level[l].expiresAt <= lease + (L - 1) * (lag + 1)

\* (Violated) A Delete that succeeded on every level leaves the key on none,
\* until it is written again.
DeleteSticks ==
    (Writing = {} /\ settled = NoEntry) => \A l \in Levels : ~Live(level[l], now)
=============================================================================
