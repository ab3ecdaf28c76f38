----------------------- MODULE MultiLevelCache_proofs -----------------------
(* Proofs of the safety properties of MultiLevelCache, for any number of     *)
(* levels, clients, values and writes, and any clock.                        *)
EXTENDS MultiLevelCache, TLAPS

\* What each kind of client does, and what the arguments of its calls are.
CallsOK ==
    /\ \A c \in Writers :
         /\ job[c].op \in {"idle", "set", "delete", "expire", "setnx", "copy", "incr"}
         /\ job[c].op = "copy" => job[c].at < L
         /\ job[c].op \in {"set", "setnx", "copy"} => job[c].value \in Contents
         /\ job[c].ttl \in Nat
    /\ \A c \in Readers :
         /\ job[c].op \in {"idle", "lookup", "ttl", "fill"}
         /\ job[c].op \in {"ttl", "fill"} => job[c].value \in Contents
         /\ job[c].op = "ttl" => job[c].from > 1
         /\ job[c].op = "fill" => /\ job[c].ttl > 0
                                  /\ job[c].at < job[c].from
                                  /\ job[c].since <= now

TypeInv ==
    /\ now \in Nat /\ now > 0
    /\ level \in [Levels -> Entry \cup {NoEntry}]
    /\ job \in [Clients -> Job]
    /\ writes \in 0..MaxWrites
    /\ settled \in Contents \cup {NoEntry, Unknown}
    /\ lease \in Nat
    /\ lag \in Nat
    /\ CallsOK

\* Two writes under way have both been marked as overlapped.
OverlapMarked == \A w, u \in Writing : w # u => job[w].bad

\* The levels lv above n show s, or something that expires.
Fresh(lv, s, n) ==
    \A l \in 1..(n - 1) :
        lv[l] # NoEntry => lv[l].value = s \/ lv[l].expiresAt # Never

Holds(lv, s) == lv[L] # NoEntry => lv[L].value = s

\* While no write replaces contents, the levels show what the last one left.
Steady(jobs) ==
    \A w \in Writers : jobs[w].op \in {"idle", "setnx", "incr", "expire"}

Settled ==
    settled # Unknown /\ Steady(job) =>
        Fresh(level, settled, L) /\ Holds(level, settled)

\* A write that met no error and no other write has done its part of the
\* levels it went through.
Done(j, lv) ==
    /\ j.op \in {"set", "copy"} => Fresh(lv, j.value, j.at)
    /\ j.op = "delete" => Fresh(lv, NoEntry, j.at)
    /\ j.op = "copy" => Holds(lv, j.value)

Progress == \A w \in Writers : ~job[w].bad => Done(job[w], level)

Sticks == OverlapMarked /\ Settled /\ Progress

\* How far an entry of level l can be behind the writers' latest expiry: one
\* delay and one rounding for each level it was copied up.
Slack(l, delay) == (L - l) * (delay + 1)

Leased ==
    /\ \A l \in Levels :
         level[l] # NoEntry => level[l].expiresAt <= lease + Slack(l, lag)
    /\ \A c \in Readers :
         job[c].op = "fill" =>
            job[c].since + job[c].ttl <= lease + Slack(job[c].from, lag) + 1

IInv == TypeInv /\ Sticks /\ Leased

USE NumberAssumption, NoEntryAssumption, LAssumption, LevelsAssumption,
    ClientsAssumption, TTLsAssumption, BoundsAssumption, UnknownAssumption

-----------------------------------------------------------------------------
(* Entries *)

LEMMA PutEntry ==
    ASSUME NEW v \in Contents, NEW ttl \in Int, NEW t \in Nat, t > 0
    PROVE  /\ Put(v, ttl, t) \in Entry /\ Put(v, ttl, t) # NoEntry
           /\ Put(v, ttl, t).value = v
           /\ ttl > 0 => Put(v, ttl, t).expiresAt = t + ttl
           /\ ttl > 0 => Put(v, ttl, t).expiresAt # Never
BY DEF Put, Deadline, Entry, Never, Contents

LEMMA IncrEntry ==
    ASSUME NEW e \in Entry \cup {NoEntry}, NEW t \in Nat,
           NEW f \in {MemoryIncr, RedisIncr(e, t)}
    PROVE  f \in Entry
BY DEF MemoryIncr, RedisIncr, Entry, Never, Live, Contents

\* A positive TTL is that of a live item with an expiry, rounded up by one.
LEMMA TTLBound ==
    ASSUME NEW e \in Entry \cup {NoEntry}, NEW t \in Nat,
           NEW ttl \in {MemoryTTL(e, t), RedisTTL(e, t)}
    PROVE  /\ ttl \in Int
           /\ ttl > 0 => e # NoEntry /\ t + ttl <= e.expiresAt + 1
<1>1. MemoryTTL(e, t) \in Int
      /\ (MemoryTTL(e, t) > 0 => e # NoEntry /\ t + MemoryTTL(e, t) = e.expiresAt)
  BY DEF MemoryTTL, Live, Entry, Never
<1>2. MemoryTTL(e, t) % 2 \in {0, 1}
  BY <1>1
<1>3. CASE ttl = MemoryTTL(e, t)
  <2>1. e # NoEntry => e.expiresAt \in Nat
    BY DEF Entry
  <2> QED
    BY <1>1, <1>3, <2>1
<1>4. CASE ttl = RedisTTL(e, t)
  <2>1. e # NoEntry => e.expiresAt \in Nat
    BY DEF Entry
  <2> QED
    BY <1>1, <1>2, <1>4, <2>1 DEF RedisTTL
<1> QED
  BY <1>3, <1>4

-----------------------------------------------------------------------------
(* Types *)

\* A level call of a write: what it stores is an entry or nothing.
LEMMA AppliedEntry ==
    ASSUME TypeInv, NEW c \in Writers,
           job[c].op \in {"set", "delete", "expire", "copy"}
    PROVE  LET l == job[c].at
               e == Applied(c, l)
           IN  /\ e \in Entry \cup {NoEntry}
               /\ job[c].op \in {"set", "copy"} =>
                    e # NoEntry /\ e.value = job[c].value
               /\ job[c].op = "delete" => e = NoEntry
               /\ job[c].op = "expire" =>
                    /\ e = NoEntry <=> level[l] = NoEntry
                    /\ e # NoEntry => e.value = level[l].value
                    /\ e = level[l] \/ e.expiresAt # Never
<1> DEFINE l == job[c].at
           e == Applied(c, l)
<1>1. /\ l \in Levels /\ level[l] \in Entry \cup {NoEntry}
      /\ job[c].ttl \in Nat /\ now \in Nat /\ now > 0
      /\ job[c].op \in {"set", "copy"} => job[c].value \in Contents
  BY DEF TypeInv, CallsOK, Job, Clients
<1>2. CASE job[c].op \in {"set", "copy"}
  <2>1. e = Put(job[c].value, job[c].ttl, now)
    BY <1>2 DEF Applied
  <2> QED
    BY <1>1, <1>2, <2>1, PutEntry
<1>3. CASE job[c].op = "delete"
  BY <1>3 DEF Applied
<1>4. CASE job[c].op = "expire"
  <2>1. e \in {MemoryExpire(level[l], job[c].ttl, now),
               RedisExpire(level[l], job[c].ttl, now)}
    BY <1>4 DEF Applied
  <2> HIDE DEF e, l
  <2>2. /\ e \in Entry \cup {NoEntry}
        /\ e = NoEntry <=> level[l] = NoEntry
        /\ level[l] # NoEntry => e.value = level[l].value
        /\ e = level[l] \/ e.expiresAt # Never
    <3>1. CASE e = MemoryExpire(level[l], job[c].ttl, now)
      BY <1>1, <3>1 DEF MemoryExpire, Entry, Never, Live, Contents
    <3>2. CASE e = RedisExpire(level[l], job[c].ttl, now)
      BY <1>1, <3>2 DEF RedisExpire, Entry, Never, Live, Contents
    <3> QED
      BY <2>1, <3>1, <3>2
  <2> QED
    BY <1>4, <2>2 DEF e, l
<1> QED
  BY <1>2, <1>3, <1>4

LEMMA InitIInv == Init => IInv
<1> SUFFICES ASSUME Init PROVE IInv
  OBVIOUS
<1>1. Idle \in Job /\ Idle.op = "idle" /\ Idle.ttl = 0
  BY DEF Idle, Job, Levels
<1>2. \A c \in Clients : job[c].op = "idle" /\ job[c].ttl = 0
  BY <1>1 DEF Init
<1>3. CallsOK
  BY <1>2 DEF CallsOK, Clients
<1>4. TypeInv
  BY <1>1, <1>3 DEF Init, TypeInv
<1>5. Writing = {}
  BY <1>2 DEF Writing, Clients
<1>6. OverlapMarked /\ Settled /\ Progress
  BY <1>2, <1>5 DEF OverlapMarked, Settled, Progress, Done, Init, Clients
<1>7. Leased
  BY <1>2 DEF Leased, Init, Clients
<1> QED
  BY <1>4, <1>6, <1>7 DEF IInv, Sticks

\* The end of a write leaves a well-formed call and outcome.
LEMMA EndWriteType ==
    ASSUME TypeInv, NEW c \in Writers, job[c].op # "idle", NEW bad \in BOOLEAN,
           EndWrite(c, bad), now' = now
    PROVE  /\ job' \in [Clients -> Job] /\ CallsOK'
           /\ settled' \in Contents \cup {NoEntry, Unknown}
<1>1. Idle \in Job /\ Idle.op = "idle" /\ Idle.ttl = 0
  BY DEF Idle, Job, Levels
<1>2. job' = [job EXCEPT ![c] = Idle] /\ c \in Clients /\ c \notin Readers
  BY DEF EndWrite, Clients
<1>3. job' \in [Clients -> Job]
  BY <1>1, <1>2 DEF TypeInv
<1>4. CallsOK'
  BY <1>1, <1>2 DEF TypeInv, CallsOK, Clients
<1>5. Outcome(c) \in Contents \cup {NoEntry, Unknown}
  BY DEF TypeInv, CallsOK, Outcome
<1> QED
  BY <1>3, <1>4, <1>5 DEF EndWrite, TypeInv

\* So does a step that changes only the call of one writer's level.
LEMMA AdvanceType ==
    ASSUME TypeInv, NEW c \in Writers, NEW j \in Job,
           job' = [job EXCEPT ![c] = j], now' = now,
           j.op \in {"set", "delete", "expire", "copy"},
           j.op = "copy" => j.at < L,
           j.op \in {"set", "copy"} => j.value \in Contents,
           j.ttl \in Nat
    PROVE  job' \in [Clients -> Job] /\ CallsOK'
<1>1. c \in Clients /\ c \notin Readers
  BY DEF Clients
<1> QED
  BY <1>1 DEF TypeInv, CallsOK, Clients

\* The calls once a write has begun: its own is new, and those under way are
\* only marked.
LEMMA BegunCalls ==
    ASSUME TypeInv, NEW c \in Writers, BeginWrite(c)
    PROVE  /\ job' \in [Clients -> Job]
           /\ job'[c].op \in {"set", "delete", "expire", "setnx", "incr"}
           /\ job'[c].op \in {"set", "delete", "expire"} => job'[c].at = 1
           /\ job'[c].op \in {"set", "setnx"} => job'[c].value \in Contents
           /\ job'[c].ttl \in Nat
           /\ job'[c].bad = (Writing # {})
           /\ \A d \in Clients \ {c} :
                /\ d \in Writing => job'[d].bad
                /\ d \notin Writing => job'[d] = job[d]
                /\ job'[d].op = job[d].op /\ job'[d].value = job[d].value
                /\ job'[d].ttl = job[d].ttl /\ job'[d].at = job[d].at
                /\ job'[d].from = job[d].from /\ job'[d].since = job[d].since
<1>1. PICK op \in {"set", "delete", "expire", "setnx", "incr"},
           v \in Values \cup {NoEntry}, ttl \in TTLs \cup {0} :
        /\ v # NoEntry <=> op \in {"set", "setnx"}
        /\ op = "expire" => ttl > 0
        /\ op \in {"delete", "incr"} => ttl = 0
        /\ job' = [d \in Clients |->
             IF d = c
             THEN [Idle EXCEPT !.op = op, !.value = v, !.ttl = ttl,
                               !.at = IF op \in {"setnx", "incr"} THEN L ELSE 1,
                               !.bad = Writing # {}]
             ELSE IF d \in Writing THEN [job[d] EXCEPT !.bad = TRUE]
             ELSE job[d]]
  BY Zenon DEF BeginWrite
<1> DEFINE late == Writing # {}
           at == IF op \in {"setnx", "incr"} THEN L ELSE 1
           j == [Idle EXCEPT !.op = op, !.value = v, !.ttl = ttl, !.at = at,
                             !.bad = late]
<1>2. ttl \in Nat /\ v \in Contents \cup {NoEntry} /\ late \in BOOLEAN
      /\ 1 \in Levels /\ L \in Levels /\ at \in Levels
  BY DEF Contents, Levels
<1>4. \A d \in Clients :
        /\ d = c => job'[d] = j
        /\ d # c /\ d \in Writing => job'[d] = [job[d] EXCEPT !.bad = TRUE]
        /\ d # c /\ d \notin Writing => job'[d] = job[d]
  BY <1>1
<1> HIDE DEF late, at
<1>3. j \in Job /\ j.op = op /\ j.value = v /\ j.ttl = ttl
      /\ j.at = at /\ j.bad = late
  <2> DEFINE i == [Idle EXCEPT !.op = op, !.value = v, !.ttl = ttl]
  <2>1. Idle \in Job
    BY DEF Idle, Job, Levels
  <2>2. i \in Job /\ i.op = op /\ i.value = v /\ i.ttl = ttl
    <3>1. op \in {"idle", "set", "delete", "expire", "setnx", "copy", "incr",
                  "lookup", "ttl", "fill"}
      OBVIOUS
    <3>2. ttl \in Int
      BY <1>2
    <3> HIDE DEF late, at
    <3> QED
      BY ONLY <1>2, <2>1, <3>1, <3>2 DEF Job
  <2>3. j = [i EXCEPT !.at = at, !.bad = late]
    OBVIOUS
  <2> HIDE DEF i, j
  <2> QED
    BY <1>2, <2>2, <2>3 DEF Job
<1> HIDE DEF j
<1>5. \A d \in Clients : job[d] \in Job
  BY DEF TypeInv
<1>6. ASSUME NEW d \in Clients, d # c
      PROVE  /\ job'[d] \in Job
             /\ d \in Writing => job'[d].bad
             /\ d \notin Writing => job'[d] = job[d]
             /\ job'[d].op = job[d].op /\ job'[d].value = job[d].value
             /\ job'[d].ttl = job[d].ttl /\ job'[d].at = job[d].at
             /\ job'[d].from = job[d].from /\ job'[d].since = job[d].since
  <2>1. CASE d \in Writing
    <3>1. job'[d] = [job[d] EXCEPT !.bad = TRUE]
      BY <1>4, <1>6, <2>1
    <3>2. job[d] \in Job
      BY <1>5
    <3> QED
      BY <2>1, <3>1, <3>2 DEF Job
  <2>2. CASE d \notin Writing
    BY <1>4, <1>5, <1>6, <2>2
  <2> QED
    BY <2>1, <2>2
<1>7. job' \in [Clients -> Job]
  BY <1>1, <1>3, <1>4, <1>6
<1>8. c \in Clients /\ (op \in {"set", "setnx"} => v \in Contents)
  BY <1>1, <1>2 DEF Clients
<1>9. op \in {"set", "delete", "expire"} => at = 1
  BY DEF at
<1>10. /\ job'[c].op \in {"set", "delete", "expire", "setnx", "incr"}
       /\ job'[c].op \in {"set", "delete", "expire"} => job'[c].at = 1
       /\ job'[c].op \in {"set", "setnx"} => job'[c].value \in Contents
       /\ job'[c].ttl \in Nat
       /\ job'[c].bad = (Writing # {})
  BY <1>2, <1>3, <1>4, <1>8, <1>9 DEF late
<1> QED
  BY <1>6, <1>7, <1>10

\* Storing an entry or nothing keeps the levels and the lease.
LEMMA StoreType ==
    ASSUME TypeInv, NEW l \in Levels, NEW e \in Entry \cup {NoEntry}, Store(l, e)
    PROVE  /\ level' \in [Levels -> Entry \cup {NoEntry}]
           /\ lease' \in Nat /\ lease' >= lease
           /\ e # NoEntry => lease' >= e.expiresAt
<1>1. e # NoEntry => e.expiresAt \in Nat
  BY DEF Entry
<1> QED
  BY <1>1 DEF TypeInv, Store, Later

\* Each step keeps the types, and what a call is made of.
LEMMA TypeStep ==
    TypeInv /\ [Next]_vars => TypeInv'
<1> SUFFICES ASSUME TypeInv,
                    [Next]_vars
             PROVE  TypeInv'
  OBVIOUS
<1>1. ASSUME NEW c \in Writers, BeginWrite(c) PROVE TypeInv'
  <2>1. /\ now' = now /\ c \in Clients /\ c \notin Readers
        /\ writes < MaxWrites /\ writes' = writes + 1
        /\ UNCHANGED <<level, settled, lease, lag>>
    BY <1>1 DEF BeginWrite, Clients
  <2>2. /\ job' \in [Clients -> Job]
        /\ job'[c].op \in {"set", "delete", "expire", "setnx", "incr"}
        /\ job'[c].op \in {"set", "setnx"} => job'[c].value \in Contents
        /\ job'[c].ttl \in Nat
        /\ \A d \in Clients \ {c} :
             /\ job'[d].op = job[d].op /\ job'[d].value = job[d].value
             /\ job'[d].ttl = job[d].ttl /\ job'[d].at = job[d].at
             /\ job'[d].from = job[d].from /\ job'[d].since = job[d].since
    BY <1>1, BegunCalls
  <2>3. CallsOK'
    BY <2>1, <2>2 DEF TypeInv, CallsOK, Clients
  <2>4. writes' \in 0..MaxWrites
    BY <2>1 DEF TypeInv
  <2> QED
    BY <2>1, <2>2, <2>3, <2>4 DEF TypeInv
<1>2. ASSUME NEW c \in Writers, WriteStep(c) PROVE TypeInv'
  <2>1. PICK failed \in BOOLEAN :
          /\ WriteNext(c, failed)
          /\ IF failed THEN UNCHANGED <<level, lease>>
             ELSE Store(job[c].at, Applied(c, job[c].at))
    BY <1>2 DEF WriteStep
  <2>2. /\ c \in Clients /\ job[c] \in Job /\ job[c].at \in Levels
        /\ job[c].op \in {"set", "delete", "expire"} /\ job[c].bad \in BOOLEAN
        /\ job[c].ttl \in Nat
        /\ job[c].op = "set" => job[c].value \in Contents
        /\ now' = now /\ writes' = writes /\ lag' = lag
    BY <1>2 DEF WriteStep, TypeInv, CallsOK, Clients, Job
  <2>3. level' \in [Levels -> Entry \cup {NoEntry}] /\ lease' \in Nat
    <3>1. CASE failed
      BY <2>1, <3>1 DEF TypeInv
    <3>2. CASE ~failed
      BY <2>1, <2>2, <3>2, AppliedEntry, StoreType
    <3> QED
      BY <3>1, <3>2
  <2>4. /\ job' \in [Clients -> Job] /\ CallsOK'
        /\ settled' \in Contents \cup {NoEntry, Unknown}
    <3>1. CASE job[c].at = L
      <4>1. EndWrite(c, failed \/ job[c].bad)
        BY <2>1, <3>1 DEF WriteNext
      <4> QED
        BY <2>2, <4>1, EndWriteType
    <3>2. CASE job[c].at # L
      <4> DEFINE bad == failed \/ job[c].bad
                 j == [job[c] EXCEPT !.at = job[c].at + 1, !.bad = bad]
      <4>1. job' = [job EXCEPT ![c] = j] /\ settled' = settled
        BY <2>1, <2>2, <3>2 DEF WriteNext, TypeInv
      <4>3. bad \in BOOLEAN /\ job[c].at + 1 \in Levels
        BY <2>2, <3>2 DEF Levels
      <4> HIDE DEF bad
      <4>2. j \in Job /\ j.op = job[c].op /\ j.value = job[c].value
            /\ j.ttl = job[c].ttl
        BY <2>2, <4>3 DEF Job
      <4> HIDE DEF j
      <4>4. job' \in [Clients -> Job] /\ CallsOK'
        BY <2>2, <4>1, <4>2, AdvanceType
      <4> QED
        BY <4>1, <4>4 DEF TypeInv
    <3> QED
      BY <3>1, <3>2
  <2> QED
    BY <2>2, <2>3, <2>4 DEF TypeInv
<1>3. ASSUME NEW c \in Writers, SetNXRefused(c) PROVE TypeInv'
  <2>1. c \in Clients /\ job[c].op = "setnx" /\ job[c].op # "idle"
        /\ UNCHANGED <<now, level, writes, lease, lag>>
    BY <1>3 DEF SetNXRefused, Clients
  <2>2. CASE EndWrite(c, TRUE)
    BY <2>1, <2>2, EndWriteType DEF TypeInv
  <2>3. CASE job' = [job EXCEPT ![c] = Idle] /\ settled' = settled
    <3>1. Idle \in Job /\ Idle.op = "idle" /\ Idle.ttl = 0
      BY DEF Idle, Job, Levels
    <3>2. job' \in [Clients -> Job]
      BY <2>3, <3>1 DEF TypeInv
    <3>3. CallsOK'
      BY <2>1, <2>3, <3>1 DEF TypeInv, CallsOK, Clients
    <3> QED
      BY <2>1, <2>3, <3>2, <3>3 DEF TypeInv
  <2> QED
    BY <1>3, <2>2, <2>3 DEF SetNXRefused
<1>4. ASSUME NEW c \in Writers, SetNXWon(c) PROVE TypeInv'
  <2>1. /\ c \in Clients /\ job[c] \in Job /\ job[c].op = "setnx"
        /\ job[c].value \in Contents /\ job[c].ttl \in Nat /\ L \in Levels
        /\ job[c].bad \in BOOLEAN
        /\ now' = now /\ writes' = writes /\ lag' = lag
    BY <1>4 DEF SetNXWon, TypeInv, CallsOK, Clients, Job, Levels
  <2>2. Put(job[c].value, job[c].ttl, now) \in Entry
    BY <2>1, PutEntry DEF TypeInv
  <2>3. level' \in [Levels -> Entry \cup {NoEntry}] /\ lease' \in Nat
    BY <1>4, <2>1, <2>2, StoreType DEF SetNXWon
  <2>4. CASE L = 1
    <3>1. EndWrite(c, job[c].bad)
      BY <1>4, <2>4 DEF SetNXWon
    <3> QED
      BY <2>1, <2>3, <3>1, EndWriteType DEF TypeInv
  <2>5. CASE L # 1
    <3> DEFINE j == [job[c] EXCEPT !.op = "copy", !.at = 1]
    <3>1. job' = [job EXCEPT ![c] = j] /\ settled' = settled
      BY <1>4, <2>1, <2>5 DEF SetNXWon, TypeInv
    <3>2. j \in Job /\ j.op = "copy" /\ j.at = 1 /\ j.value = job[c].value
          /\ j.ttl = job[c].ttl /\ 1 < L
      <4>1. 1 \in Levels /\ 1 < L
        BY <2>5 DEF Levels
      <4> QED
        BY <2>1, <4>1 DEF Job
    <3> HIDE DEF j
    <3>3. job' \in [Clients -> Job] /\ CallsOK'
      BY <2>1, <2>5, <3>1, <3>2, AdvanceType
    <3> QED
      BY <2>1, <2>3, <3>1, <3>3 DEF TypeInv
  <2> QED
    BY <2>4, <2>5
<1>5. ASSUME NEW c \in Writers, SetNXCopy(c) PROVE TypeInv'
  <2>1. /\ c \in Clients /\ job[c] \in Job /\ job[c].op = "copy"
        /\ job[c].value \in Contents /\ job[c].ttl \in Nat
        /\ job[c].at \in Levels /\ job[c].at < L /\ job[c].bad \in BOOLEAN
        /\ now' = now /\ writes' = writes /\ lag' = lag
    BY <1>5 DEF SetNXCopy, TypeInv, CallsOK, Clients, Job
  <2>2. Put(job[c].value, job[c].ttl, now) \in Entry
    BY <2>1, PutEntry DEF TypeInv
  <2>3. level' \in [Levels -> Entry \cup {NoEntry}] /\ lease' \in Nat
    <3>1. CASE UNCHANGED <<level, lease>>
      BY <3>1 DEF TypeInv
    <3>2. CASE Store(job[c].at, Put(job[c].value, job[c].ttl, now))
      BY <2>1, <2>2, <3>2, StoreType
    <3> QED
      BY <1>5, <3>1, <3>2 DEF SetNXCopy
  <2>4. PICK bad \in BOOLEAN :
          IF job[c].at = L - 1 THEN EndWrite(c, bad)
          ELSE /\ job' = [job EXCEPT ![c] = [job[c] EXCEPT !.at = job[c].at + 1,
                                                           !.bad = bad]]
               /\ settled' = settled
    <3>1. job[c].bad = job[c].bad /\ [job[c] EXCEPT !.at = job[c].at + 1]
             = [job[c] EXCEPT !.at = job[c].at + 1, !.bad = job[c].bad]
      BY <2>1 DEF Job
    <3> QED
      BY <1>5, <2>1, <3>1 DEF SetNXCopy, TypeInv
  <2>5. CASE job[c].at = L - 1
    BY <2>1, <2>3, <2>4, <2>5, EndWriteType DEF TypeInv
  <2>6. CASE job[c].at # L - 1
    <3> DEFINE j == [job[c] EXCEPT !.at = job[c].at + 1, !.bad = bad]
    <3>1. job' = [job EXCEPT ![c] = j] /\ settled' = settled
      BY <2>4, <2>6
    <3>2. j \in Job /\ j.op = "copy" /\ j.at < L /\ j.value = job[c].value
          /\ j.ttl = job[c].ttl
      <4>1. job[c].at + 1 \in Levels /\ job[c].at + 1 < L
        BY <2>1, <2>6 DEF Levels
      <4> QED
        BY <2>1, <4>1 DEF Job
    <3> HIDE DEF j
    <3>3. job' \in [Clients -> Job] /\ CallsOK'
      BY <2>1, <3>1, <3>2, AdvanceType
    <3> QED
      BY <2>1, <2>3, <3>1, <3>3 DEF TypeInv
  <2> QED
    BY <2>5, <2>6
<1>6. ASSUME NEW c \in Writers, Incr(c) PROVE TypeInv'
  <2>1. /\ c \in Clients /\ job[c].op # "idle" /\ L \in Levels
        /\ job[c].bad \in BOOLEAN /\ EndWrite(c, job[c].bad)
        /\ now' = now /\ writes' = writes /\ lag' = lag
    BY <1>6 DEF Incr, TypeInv, Clients, Job, Levels
  <2>2. level' \in [Levels -> Entry \cup {NoEntry}] /\ lease' \in Nat
    <3>1. CASE UNCHANGED <<level, lease>>
      BY <3>1 DEF TypeInv
    <3> DEFINE e == IF L \in RedisLevels THEN RedisIncr(level[L], now)
                    ELSE MemoryIncr
    <3>2. e \in {MemoryIncr, RedisIncr(level[L], now)}
      OBVIOUS
    <3>3. e \in Entry
      BY <2>1, <3>2, IncrEntry DEF TypeInv
    <3>4. CASE Store(L, e)
      <4> HIDE DEF e
      <4> QED
        BY <2>1, <3>3, <3>4, StoreType
    <3> QED
      BY <1>6, <3>1, <3>4 DEF Incr
  <2> QED
    BY <2>1, <2>2, EndWriteType DEF TypeInv
<1>7. ASSUME NEW c \in Readers, BeginGet(c) PROVE TypeInv'
  BY <1>7 DEF BeginGet, TypeInv, CallsOK, Job, Clients
<1>8. ASSUME NEW c \in Readers, GetLookup(c) PROVE TypeInv'
  <2> DEFINE l == job[c].at
  <2>1. c \in Clients /\ c \notin Writers /\ job[c] \in Job /\ l \in Levels
        /\ level[l] \in Entry \cup {NoEntry}
        /\ UNCHANGED <<now, level, writes, settled, lease, lag>>
    BY <1>8 DEF GetLookup, TypeInv, Clients, Job
  <2>2. PICK j : /\ job' = [job EXCEPT ![c] = j]
                 /\ \/ j = Idle
                    \/ /\ Live(level[l], now) /\ l # 1
                       /\ j = [job[c] EXCEPT !.op = "ttl", !.value = level[l].value,
                                             !.from = l]
                    \/ /\ l # L
                       /\ j = [job[c] EXCEPT !.at = l + 1]
    BY <1>8 DEF GetLookup, TypeInv
  <2>3. j \in Job /\ j.op \in {"idle", "ttl", "lookup"}
        /\ (j.op = "ttl" => j.value \in Contents /\ j.from > 1)
    <3>1. CASE j = Idle
      BY <3>1 DEF Idle, Job, Levels
    <3>2. CASE /\ Live(level[l], now) /\ l # 1
               /\ j = [job[c] EXCEPT !.op = "ttl", !.value = level[l].value,
                                     !.from = l]
      <4>1. level[l].value \in Contents
        BY <2>1, <3>2 DEF Live, Entry
      <4>2. l > 1
        BY <2>1, <3>2 DEF Levels
      <4> QED
        BY <2>1, <3>2, <4>1, <4>2 DEF Job
    <3>3. CASE l # L /\ j = [job[c] EXCEPT !.at = l + 1]
      <4>1. l + 1 \in Levels /\ job[c].op = "lookup"
        BY <1>8, <2>1, <3>3 DEF GetLookup, Levels
      <4> HIDE DEF l
      <4> QED
        BY <2>1, <3>3, <4>1 DEF Job
    <3> QED
      BY <2>2, <3>1, <3>2, <3>3
  <2>4. job' \in [Clients -> Job]
    BY <2>1, <2>2, <2>3 DEF TypeInv
  <2>5. CallsOK'
    BY <2>1, <2>2, <2>3 DEF TypeInv, CallsOK, Clients
  <2> QED
    BY <2>1, <2>4, <2>5 DEF TypeInv
<1>9. ASSUME NEW c \in Readers, GetTTL(c) PROVE TypeInv'
  <2>1. c \in Clients /\ c \notin Writers /\ job[c] \in Job
        /\ job[c].value \in Contents /\ job[c].from \in Levels
        /\ level[job[c].from] \in Entry \cup {NoEntry} /\ now \in Nat
        /\ UNCHANGED <<now, level, writes, settled, lease, lag>>
    BY <1>9 DEF GetTTL, TypeInv, CallsOK, Clients, Job
  <2>2. PICK ttl \in TTLAnswers(job[c].from) :
          job' = [job EXCEPT ![c] =
            IF ttl > 0 THEN [@ EXCEPT !.op = "fill", !.ttl = ttl, !.at = 1,
                                      !.since = now]
            ELSE Idle]
    BY <1>9 DEF GetTTL
  <2>3. ttl \in Int
    BY <2>1, TTLBound DEF TTLAnswers
  <2> DEFINE j == IF ttl > 0
                  THEN [job[c] EXCEPT !.op = "fill", !.ttl = ttl, !.at = 1,
                                      !.since = now]
                  ELSE Idle
  <2>4. job' = [job EXCEPT ![c] = j]
    BY <2>1, <2>2 DEF TypeInv
  <2>5. job[c].from > 1
    BY <1>9, <2>1 DEF GetTTL, TypeInv, CallsOK
  <2>6. /\ j \in Job /\ j.op \in {"idle", "fill"}
        /\ j.op = "fill" => /\ j.value \in Contents /\ j.ttl > 0
                            /\ j.at < j.from /\ j.since <= now
    <3>1. 1 \in Levels
      BY DEF Levels
    <3>2. CASE ttl > 0
      <4>1. j = [job[c] EXCEPT !.op = "fill", !.ttl = ttl, !.at = 1, !.since = now]
        BY <3>2
      <4> HIDE DEF j
      <4>2. j = [op |-> "fill", value |-> job[c].value, ttl |-> ttl, at |-> 1,
                 from |-> job[c].from, since |-> now, bad |-> job[c].bad]
            /\ job[c].bad \in BOOLEAN
        BY <2>1, <4>1 DEF Job
      <4> QED
        BY <2>1, <2>3, <2>5, <3>1, <3>2, <4>2 DEF Job
    <3>3. CASE ~(ttl > 0)
      <4>1. j = Idle
        BY <3>3
      <4> HIDE DEF j
      <4> QED
        BY <3>1, <4>1 DEF Job, Idle
    <3> QED
      BY <3>2, <3>3
  <2> HIDE DEF j
  <2>7. job' \in [Clients -> Job]
    BY <2>1, <2>4, <2>6 DEF TypeInv
  <2>8. CallsOK'
    BY <2>1, <2>4, <2>6 DEF TypeInv, CallsOK, Clients
  <2> QED
    BY <2>1, <2>7, <2>8 DEF TypeInv
<1>10. ASSUME NEW c \in Readers, GetFill(c) PROVE TypeInv'
  <2>1. /\ c \in Clients /\ c \notin Writers /\ job[c] \in Job
        /\ job[c].op = "fill" /\ job[c].value \in Contents
        /\ job[c].ttl \in Int /\ job[c].since <= now /\ job[c].since \in Nat
        /\ job[c].at \in Levels /\ job[c].from \in Levels
        /\ job[c].at < job[c].from /\ now \in Nat /\ lag \in Nat
        /\ UNCHANGED <<now, writes, settled, lease>>
    BY <1>10 DEF GetFill, TypeInv, CallsOK, Clients, Job
  <2>2. lag' \in Nat
    BY <1>10, <2>1 DEF GetFill, Later
  <2>3. level' \in [Levels -> Entry \cup {NoEntry}]
    <3>1. Put(job[c].value, job[c].ttl, now) \in Entry
      BY <2>1, PutEntry DEF TypeInv
    <3> QED
      BY <1>10, <2>1, <3>1 DEF GetFill, FilledTTL, TypeInv
  <2> DEFINE j == IF job[c].at + 1 = job[c].from THEN Idle
                  ELSE [job[c] EXCEPT !.at = job[c].at + 1]
  <2>4. job' = [job EXCEPT ![c] = j]
    BY <1>10, <2>1 DEF GetFill, FillNext, TypeInv
  <2>5. /\ j \in Job /\ j.op \in {"idle", "fill"}
        /\ j.op = "fill" => /\ j.value \in Contents /\ j.ttl = job[c].ttl
                            /\ j.at < j.from /\ j.since = job[c].since
    BY <2>1 DEF Job, Idle, Levels
  <2>6. job[c].ttl > 0
    BY <2>1 DEF TypeInv, CallsOK
  <2> HIDE DEF j
  <2>7. job' \in [Clients -> Job]
    BY <2>1, <2>4, <2>5 DEF TypeInv
  <2>8. CallsOK'
    BY <2>1, <2>4, <2>5, <2>6 DEF TypeInv, CallsOK, Clients
  <2> QED
    BY <2>1, <2>2, <2>3, <2>7, <2>8 DEF TypeInv
<1>11. ASSUME NEW l \in Levels, Cleanup(l) PROVE TypeInv'
  BY <1>11 DEF Cleanup, TypeInv, CallsOK
<1>12. ASSUME Tick PROVE TypeInv'
  <2>1. /\ now' = now + 1 /\ now \in Nat
        /\ UNCHANGED <<level, job, writes, settled, lease, lag>>
    BY <1>12 DEF Tick, TypeInv
  <2>2. \A c \in Readers : job[c].since \in Nat
    BY DEF TypeInv, Clients, Job
  <2>3. CallsOK'
    BY <2>1, <2>2 DEF TypeInv, CallsOK
  <2> QED
    BY <2>1, <2>3 DEF TypeInv
<1>13. ASSUME UNCHANGED vars PROVE TypeInv'
  BY <1>13 DEF vars, TypeInv, CallsOK
<1> QED
  BY <1>1, <1>2, <1>3, <1>4, <1>5, <1>6, <1>7, <1>8, <1>9, <1>10, <1>11, <1>12, <1>13
  DEF Next, Write, Get

-----------------------------------------------------------------------------
(* What a write leaves *)

LEMMA FreshStore ==
    ASSUME NEW lv \in [Levels -> Entry \cup {NoEntry}], NEW l \in Levels, NEW e,
           NEW s, NEW n \in Nat, Fresh(lv, s, n),
           \/ l >= n \/ e = NoEntry \/ e.value = s \/ e.expiresAt # Never
    PROVE  Fresh([lv EXCEPT ![l] = e], s, n)
BY DEF Fresh, Levels

LEMMA FreshNext ==
    ASSUME NEW lv \in [Levels -> Entry \cup {NoEntry}], NEW n \in Levels, NEW e,
           NEW s, Fresh(lv, s, n), e = NoEntry \/ e.value = s
    PROVE  Fresh([lv EXCEPT ![n] = e], s, n + 1)
<1>1. n \in Nat
  BY DEF Levels
<1>2. Fresh([lv EXCEPT ![n] = e], s, n)
  BY <1>1, FreshStore
<1>3. 1..((n + 1) - 1) = 1..(n - 1) \cup {n}
  BY <1>1 DEF Levels
<1> QED
  BY <1>2, <1>3 DEF Fresh

\* Steps that leave the writers' calls alone, and may store something that
\* expires above the last level or remove an entry.
LEMMA OthersStick ==
    ASSUME TypeInv, Sticks, \A w \in Writers : job'[w] = job[w],
           settled' = settled, NEW l \in Levels, NEW e,
           e = NoEntry \/ (l # L /\ e.expiresAt # Never),
           level' = level \/ level' = [level EXCEPT ![l] = e]
    PROVE  Sticks'
<1>1. /\ level \in [Levels -> Entry \cup {NoEntry}]
      /\ \A w \in Writers : job[w].at \in Nat
      /\ L \in Nat /\ L \in Levels
  BY DEF TypeInv, Clients, Job, Levels
<1>2. \A s, n : n \in Nat /\ Fresh(level, s, n) => Fresh(level', s, n)
  BY <1>1, FreshStore
<1>3. \A s : Holds(level, s) => Holds(level', s)
  BY <1>1 DEF Holds
<1>4. OverlapMarked'
  BY DEF Sticks, OverlapMarked, Writing
<1>5. Settled'
  BY <1>1, <1>2, <1>3 DEF Sticks, Settled, Steady
<1>6. Progress'
  BY <1>1, <1>2, <1>3 DEF Sticks, Progress, Done
<1> QED
  BY <1>4, <1>5, <1>6 DEF Sticks

\* The step of one write that has begun: the others are marked if it is not.
LEMMA CallSticks ==
    ASSUME TypeInv, Sticks, NEW c \in Writers, job[c].op # "idle", NEW j,
           job' = [job EXCEPT ![c] = j],
           j.op = "idle" \/ (job[c].bad => j.bad),
           ~j.bad => Done(j, level')
    PROVE  OverlapMarked' /\ Progress'
<1>1. /\ c \in Clients /\ Writers \subseteq Clients /\ DOMAIN job = Clients
      /\ job'[c] = j /\ \A w \in Writers : w # c => job'[w] = job[w]
  BY DEF TypeInv, Clients
<1>2. OverlapMarked'
  BY <1>1 DEF Sticks, OverlapMarked, Writing
<1>3. ASSUME NEW w \in Writers, ~job'[w].bad PROVE Done(job'[w], level')
  <2>1. CASE w = c
    BY <1>1, <1>3, <2>1
  <2>2. CASE w # c
    <3>1. job'[w] = job[w] /\ ~job[w].bad
      BY <1>1, <1>3, <2>2
    <3>2. job[w].op = "idle"
      BY <2>2, <3>1 DEF Sticks, OverlapMarked, Writing
    <3> QED
      BY <3>1, <3>2 DEF Done
  <2> QED
    BY <2>1, <2>2
<1> QED
  BY <1>2, <1>3 DEF Progress

\* A write that ends: either nothing is known, or its outcome is settled.
LEMMA EndSticks ==
    ASSUME TypeInv, Sticks, NEW c \in Writers, job[c].op # "idle",
           NEW bad \in BOOLEAN, EndWrite(c, bad),
           ~bad /\ settled' # Unknown /\ Steady(job') =>
               Fresh(level', Outcome(c), L) /\ Holds(level', Outcome(c))
    PROVE  Sticks'
<1>1. job' = [job EXCEPT ![c] = Idle] /\ Idle.op = "idle"
  BY DEF EndWrite, Idle
<1>2. Done(Idle, level')
  BY <1>1 DEF Done
<1>3. OverlapMarked' /\ Progress'
  BY <1>1, <1>2, CallSticks
<1>4. settled' = IF bad THEN Unknown ELSE Outcome(c)
  BY DEF EndWrite
<1>5. Settled'
  BY <1>4 DEF Settled
<1> QED
  BY <1>3, <1>5 DEF Sticks

\* No step undoes what a write has left.
LEMMA SticksStep ==
    TypeInv /\ Sticks /\ [Next]_vars => Sticks'
<1> SUFFICES ASSUME TypeInv /\ Sticks,
                    [Next]_vars
             PROVE  Sticks'
  OBVIOUS
<1>1. ASSUME NEW c \in Writers, BeginWrite(c) PROVE Sticks'
  <2>1. /\ c \in Clients /\ Writers \subseteq Clients
        /\ settled' = settled /\ level' = level
    BY <1>1 DEF BeginWrite, Clients
  <2>2. /\ job'[c].op \in {"set", "delete", "expire", "setnx", "incr"}
        /\ job'[c].op \in {"set", "delete", "expire"} => job'[c].at = 1
        /\ job'[c].bad = (Writing # {})
        /\ \A d \in Clients \ {c} :
             /\ d \in Writing => job'[d].bad
             /\ d \notin Writing => job'[d] = job[d]
             /\ job'[d].op = job[d].op
    BY <1>1, BegunCalls
  <2>3. OverlapMarked'
    BY <2>1, <2>2 DEF OverlapMarked, Writing
  <2>4. Steady(job') => Steady(job)
    <3>1. job[c].op = "idle"
      BY <1>1 DEF BeginWrite
    <3> QED
      BY <2>1, <2>2, <3>1 DEF Steady
  <2>5. Settled'
    BY <2>1, <2>4 DEF Sticks, Settled
  <2>6. ASSUME NEW w \in Writers, ~job'[w].bad PROVE Done(job'[w], level')
    <3>1. CASE w = c
      <4>1. Fresh(level', job'[c].value, 1) /\ Fresh(level', NoEntry, 1)
        BY DEF Fresh
      <4> QED
        BY <2>2, <3>1, <4>1 DEF Done
    <3>2. CASE w # c
      <4>1. job[w].op = "idle" /\ job'[w].op = job[w].op
        BY <2>1, <2>2, <2>6, <3>2 DEF Writing
      <4> QED
        BY <4>1 DEF Done
    <3> QED
      BY <3>1, <3>2
  <2> QED
    BY <2>3, <2>5, <2>6 DEF Sticks, Progress
<1>2. ASSUME NEW c \in Writers, WriteStep(c) PROVE Sticks'
  <2>1. PICK failed \in BOOLEAN :
          /\ WriteNext(c, failed)
          /\ IF failed THEN UNCHANGED <<level, lease>>
             ELSE Store(job[c].at, Applied(c, job[c].at))
    BY <1>2 DEF WriteStep
  <2> DEFINE l == job[c].at
             e == Applied(c, l)
             bad == failed \/ job[c].bad
  <2>2. /\ c \in Clients /\ job[c] \in Job /\ l \in Levels /\ l \in 1..L
        /\ job[c].op \in {"set", "delete", "expire"} /\ job[c].bad \in BOOLEAN
        /\ level \in [Levels -> Entry \cup {NoEntry}] /\ bad \in BOOLEAN
    BY <1>2 DEF WriteStep, TypeInv, Clients, Job, Levels
  <2>3. ~failed => level' = [level EXCEPT ![l] = e]
    BY <2>1 DEF Store
  <2>4. failed => level' = level
    BY <2>1
  <2>5. /\ job[c].op = "set" => e # NoEntry /\ e.value = job[c].value
        /\ job[c].op = "delete" => e = NoEntry
        /\ job[c].op = "expire" =>
             /\ e = NoEntry <=> level[l] = NoEntry
             /\ e # NoEntry => e.value = level[l].value
             /\ e = level[l] \/ e.expiresAt # Never
    BY <2>2, AppliedEntry
  <2> DEFINE s == IF job[c].op = "delete" THEN NoEntry ELSE job[c].value
  <2>6. ~bad /\ job[c].op \in {"set", "delete"} =>
          Fresh(level', s, l + 1) /\ (l = L => Fresh(level', s, L) /\ Holds(level', s))
    <3> SUFFICES ASSUME ~bad, job[c].op \in {"set", "delete"}
                 PROVE  /\ Fresh(level', s, l + 1)
                        /\ l = L => Fresh(level', s, L) /\ Holds(level', s)
      OBVIOUS
    <3>1. Fresh(level, s, l)
      BY <2>2 DEF Sticks, Progress, Done
    <3>2. level' = [level EXCEPT ![l] = e] /\ (e = NoEntry \/ e.value = s)
      BY <2>3, <2>5
    <3> HIDE DEF l, e, s
    <3>3. Fresh(level', s, l + 1)
      BY <2>2, <3>1, <3>2, FreshNext
    <3>4. l = L => Fresh(level', s, L)
      BY <2>2, <3>1, <3>2, FreshStore
    <3>5. l = L => Holds(level', s)
      BY <2>2, <3>2 DEF Holds
    <3> QED
      BY <3>3, <3>4, <3>5
  <2>7. ASSUME job[c].op = "expire", settled # Unknown, Steady(job)
        PROVE  Fresh(level', settled, L) /\ Holds(level', settled)
    <3>1. Fresh(level, settled, L) /\ Holds(level, settled)
      BY <2>7 DEF Sticks, Settled
    <3>2. CASE failed
      BY <2>4, <3>1, <3>2
    <3>3. CASE ~failed
      <4>1. level' = [level EXCEPT ![l] = e]
        BY <2>3, <3>3
      <4>2. /\ e = NoEntry <=> level[l] = NoEntry
            /\ e # NoEntry => e.value = level[l].value
            /\ e = level[l] \/ e.expiresAt # Never
        BY <2>5, <2>7
      <4> HIDE DEF l, e
      <4>3. l >= L \/ e = NoEntry \/ e.value = settled \/ e.expiresAt # Never
        BY <2>2, <3>1, <4>2 DEF Fresh
      <4>4. Fresh(level', settled, L)
        BY <2>2, <3>1, <4>1, <4>3, FreshStore
      <4>5. Holds(level', settled)
        BY <2>2, <3>1, <4>1, <4>2 DEF Holds, Levels
      <4> QED
        BY <4>4, <4>5
    <3> QED
      BY <3>2, <3>3
  <2>8. \A j : job' = [job EXCEPT ![c] = j] /\ job[c].op = "expire" /\ Steady(job')
               => Steady(job)
    BY <2>2 DEF Steady, TypeInv, Clients
  <2>9. CASE l = L
    <3>1. EndWrite(c, bad)
      BY <2>1, <2>9 DEF WriteNext
    <3>2. job' = [job EXCEPT ![c] = Idle]
      BY <3>1 DEF EndWrite
    <3>3. ASSUME ~bad, settled' # Unknown, Steady(job')
          PROVE  Fresh(level', Outcome(c), L) /\ Holds(level', Outcome(c))
      <4>1. CASE job[c].op \in {"set", "delete"}
        <5>1. Outcome(c) = s
          BY <4>1 DEF Outcome
        <5> QED
          BY <2>6, <2>9, <3>3, <4>1, <5>1
      <4>2. CASE job[c].op = "expire"
        <5>1. Outcome(c) = settled /\ settled' = Outcome(c)
          BY <3>1, <3>3, <4>2 DEF Outcome, EndWrite
        <5> QED
          BY <2>7, <2>8, <3>2, <3>3, <4>2, <5>1
      <4> QED
        BY <2>2, <4>1, <4>2
    <3> HIDE DEF bad
    <3> QED
      BY <2>2, <3>1, <3>3, EndSticks
  <2>10. CASE l # L
    <3> DEFINE j == [job[c] EXCEPT !.at = l + 1, !.bad = bad]
    <3>1. job' = [job EXCEPT ![c] = j] /\ settled' = settled
      BY <2>1, <2>2, <2>10 DEF WriteNext, TypeInv
    <3>2. j.op = job[c].op /\ j.value = job[c].value /\ j.at = l + 1
          /\ j.bad = bad
      <4> HIDE DEF bad
      <4> QED
        BY <2>2 DEF Job
    <3> HIDE DEF j
    <3>3. ~j.bad => Done(j, level')
      BY <2>2, <2>6, <3>2 DEF Done
    <3>4. OverlapMarked' /\ Progress'
      BY <2>2, <3>1, <3>2, <3>3, CallSticks
    <3>5. Steady(job') => job[c].op = "expire" /\ Steady(job)
      <4>1. job'[c] = j
        BY <2>2, <3>1 DEF TypeInv
      <4>2. Steady(job') => job[c].op = "expire"
        BY <2>2, <3>2, <4>1 DEF Steady
      <4> QED
        BY <2>8, <3>1, <4>2
    <3>6. Settled'
      BY <2>7, <3>1, <3>5 DEF Settled
    <3> QED
      BY <3>4, <3>6 DEF Sticks
  <2> QED
    BY <2>9, <2>10
<1>3. ASSUME NEW c \in Writers, SetNXRefused(c) PROVE Sticks'
  <2>1. c \in Clients /\ job[c].op = "setnx" /\ level' = level
    BY <1>3 DEF SetNXRefused, Clients
  <2>2. CASE EndWrite(c, TRUE)
    BY <2>1, <2>2, EndSticks
  <2>3. CASE job' = [job EXCEPT ![c] = Idle] /\ settled' = settled
    <3>1. Idle.op = "idle" /\ Done(Idle, level')
      BY DEF Idle, Done
    <3>2. OverlapMarked' /\ Progress'
      BY <2>1, <2>3, <3>1, CallSticks
    <3>3. Steady(job') => Steady(job)
      BY <2>1, <2>3 DEF Steady, TypeInv, Clients
    <3>4. Settled'
      BY <2>1, <2>3, <3>3 DEF Sticks, Settled
    <3> QED
      BY <3>2, <3>4 DEF Sticks
  <2> QED
    BY <1>3, <2>2, <2>3 DEF SetNXRefused
<1>4. ASSUME NEW c \in Writers, SetNXWon(c) PROVE Sticks'
  <2> DEFINE e == Put(job[c].value, job[c].ttl, now)
  <2>1. /\ c \in Clients /\ job[c] \in Job /\ job[c].op = "setnx"
        /\ job[c].value \in Contents /\ job[c].ttl \in Int /\ L \in Levels
        /\ job[c].bad \in BOOLEAN /\ now \in Nat /\ now > 0
        /\ level \in [Levels -> Entry \cup {NoEntry}]
        /\ level' = [level EXCEPT ![L] = e]
    BY <1>4 DEF SetNXWon, TypeInv, CallsOK, Clients, Job, Levels, Store
  <2>2. e.value = job[c].value
    BY <2>1, PutEntry
  <2> HIDE DEF e
  <2>3. Holds(level', job[c].value)
    BY <2>1, <2>2 DEF Holds
  <2>4. Fresh(level', job[c].value, 1)
    BY DEF Fresh
  <2>5. CASE L = 1
    <3>1. EndWrite(c, job[c].bad)
      BY <1>4, <2>5 DEF SetNXWon
    <3>2. Outcome(c) = job[c].value
      BY <2>1 DEF Outcome
    <3> QED
      BY <2>1, <2>3, <2>4, <2>5, <3>1, <3>2, EndSticks
  <2>6. CASE L # 1
    <3> DEFINE j == [job[c] EXCEPT !.op = "copy", !.at = 1]
    <3>1. job' = [job EXCEPT ![c] = j] /\ settled' = settled
      BY <1>4, <2>1, <2>6 DEF SetNXWon, TypeInv
    <3>2. j.op = "copy" /\ j.at = 1 /\ j.value = job[c].value /\ j.bad = job[c].bad
      BY <2>1 DEF Job
    <3> HIDE DEF j
    <3>3. Done(j, level')
      BY <2>3, <2>4, <3>2 DEF Done
    <3>4. OverlapMarked' /\ Progress'
      BY <2>1, <3>1, <3>2, <3>3, CallSticks
    <3>5. ~Steady(job')
      BY <2>1, <3>1, <3>2 DEF Steady, TypeInv
    <3> QED
      BY <3>4, <3>5 DEF Sticks, Settled
  <2> QED
    BY <2>5, <2>6
<1>5. ASSUME NEW c \in Writers, SetNXCopy(c) PROVE Sticks'
  <2> DEFINE e == Put(job[c].value, job[c].ttl, now)
             l == job[c].at
  <2>1. /\ c \in Clients /\ job[c] \in Job /\ job[c].op = "copy"
        /\ job[c].value \in Contents /\ job[c].ttl \in Int
        /\ job[c].bad \in BOOLEAN /\ now \in Nat /\ now > 0
        /\ l \in Levels /\ l < L /\ l \in Nat /\ L \in Levels
        /\ level \in [Levels -> Entry \cup {NoEntry}]
    BY <1>5 DEF SetNXCopy, TypeInv, CallsOK, Clients, Job, Levels
  <2>2. PICK bad \in BOOLEAN :
          /\ IF job[c].at = L - 1 THEN EndWrite(c, bad)
             ELSE job' = [job EXCEPT ![c] = [job[c] EXCEPT !.at = job[c].at + 1,
                                                           !.bad = bad]]
          /\ ~bad => ~job[c].bad /\ level' = [level EXCEPT ![l] = e]
    <3>1. [job[c] EXCEPT !.at = job[c].at + 1]
             = [job[c] EXCEPT !.at = job[c].at + 1, !.bad = job[c].bad]
      BY <2>1 DEF Job
    <3> QED
      BY <1>5, <2>1, <3>1 DEF SetNXCopy, TypeInv, Store
  <2>3. e.value = job[c].value
    BY <2>1, PutEntry
  <2>4. ~bad => Fresh(level', job[c].value, l + 1) /\ Holds(level', job[c].value)
    <3> SUFFICES ASSUME ~bad
                 PROVE  /\ Fresh(level', job[c].value, l + 1)
                        /\ Holds(level', job[c].value)
      OBVIOUS
    <3>1. /\ level' = [level EXCEPT ![l] = e]
          /\ Fresh(level, job[c].value, l) /\ Holds(level, job[c].value)
      BY <2>1, <2>2 DEF Sticks, Progress, Done
    <3> HIDE DEF e, l
    <3>2. Fresh(level', job[c].value, l + 1)
      BY <2>1, <2>3, <3>1, FreshNext
    <3>3. Holds(level', job[c].value)
      BY <2>1, <3>1 DEF Holds
    <3> QED
      BY <3>2, <3>3
  <2> HIDE DEF e
  <2>5. CASE l = L - 1
    <3>1. Outcome(c) = job[c].value /\ EndWrite(c, bad) /\ l + 1 = L
      BY <2>1, <2>2, <2>5 DEF Outcome
    <3> HIDE DEF l
    <3> QED
      BY <2>1, <2>4, <3>1, EndSticks
  <2>6. CASE l # L - 1
    <3> DEFINE j == [job[c] EXCEPT !.at = l + 1, !.bad = bad]
    <3>1. job' = [job EXCEPT ![c] = j]
      BY <2>2, <2>6
    <3>2. j.op = "copy" /\ j.at = l + 1 /\ j.value = job[c].value /\ j.bad = bad
      BY <2>1 DEF Job
    <3> HIDE DEF j
    <3>3. ~j.bad => Done(j, level')
      BY <2>4, <3>2 DEF Done
    <3>4. OverlapMarked' /\ Progress'
      BY <2>1, <2>2, <3>1, <3>2, <3>3, CallSticks
    <3>5. ~Steady(job')
      BY <2>1, <3>1, <3>2 DEF Steady, TypeInv
    <3> QED
      BY <3>4, <3>5 DEF Sticks, Settled
  <2> QED
    BY <2>5, <2>6
<1>6. ASSUME NEW c \in Writers, Incr(c) PROVE Sticks'
  <2>1. /\ c \in Clients /\ job[c].op = "incr" /\ job[c].bad \in BOOLEAN
        /\ EndWrite(c, job[c].bad)
    BY <1>6 DEF Incr, TypeInv, Clients, Job
  <2>2. settled' = Unknown
    BY <2>1 DEF EndWrite, Outcome
  <2> QED
    BY <2>1, <2>2, EndSticks
<1>7. ASSUME NEW c \in Readers, BeginGet(c) PROVE Sticks'
  <2>1. /\ \A w \in Writers : job'[w] = job[w]
        /\ settled' = settled /\ level' = level /\ 1 \in Levels
    BY <1>7 DEF BeginGet, TypeInv, Clients, Levels
  <2> QED
    BY <2>1, OthersStick
<1>8. ASSUME NEW c \in Readers, GetLookup(c) PROVE Sticks'
  <2>1. /\ \A w \in Writers : job'[w] = job[w]
        /\ settled' = settled /\ level' = level /\ 1 \in Levels
    BY <1>8 DEF GetLookup, TypeInv, Clients, Levels
  <2> QED
    BY <2>1, OthersStick
<1>9. ASSUME NEW c \in Readers, GetTTL(c) PROVE Sticks'
  <2>1. /\ \A w \in Writers : job'[w] = job[w]
        /\ settled' = settled /\ level' = level /\ 1 \in Levels
    BY <1>9 DEF GetTTL, TypeInv, Clients, Levels
  <2> QED
    BY <2>1, OthersStick
<1>10. ASSUME NEW c \in Readers, GetFill(c) PROVE Sticks'
  <2> DEFINE l == job[c].at
             e == Put(job[c].value, job[c].ttl, now)
  <2>1. /\ c \in Clients /\ c \notin Writers /\ job[c] \in Job
        /\ job[c].value \in Contents /\ job[c].ttl \in Int /\ job[c].ttl > 0
        /\ now \in Nat /\ now > 0 /\ l \in Levels /\ l # L
    BY <1>10 DEF GetFill, TypeInv, CallsOK, Clients, Job, Levels
  <2>2. e.expiresAt # Never
    BY <2>1, PutEntry
  <2>3. /\ \A w \in Writers : job'[w] = job[w]
        /\ settled' = settled
        /\ level' = level \/ level' = [level EXCEPT ![l] = e]
    BY <1>10, <2>1 DEF GetFill, FillNext, FilledTTL, TypeInv, Clients
  <2> HIDE DEF l, e
  <2> QED
    BY <2>1, <2>2, <2>3, OthersStick
<1>11. ASSUME NEW l \in Levels, Cleanup(l) PROVE Sticks'
  <2>1. job' = job /\ settled' = settled /\ level' = [level EXCEPT ![l] = NoEntry]
        /\ l \in Levels
    BY <1>11 DEF Cleanup
  <2> QED
    BY <2>1, OthersStick
<1>12. ASSUME Tick PROVE Sticks'
  <2>1. job' = job /\ settled' = settled /\ level' = level /\ 1 \in Levels
    BY <1>12 DEF Tick, Levels
  <2> QED
    BY <2>1, OthersStick
<1>13. ASSUME UNCHANGED vars PROVE Sticks'
  <2>1. job' = job /\ settled' = settled /\ level' = level /\ 1 \in Levels
    BY <1>13 DEF vars, Levels
  <2> QED
    BY <2>1, OthersStick
<1> QED
  BY <1>1, <1>2, <1>3, <1>4, <1>5, <1>6, <1>7, <1>8, <1>9, <1>10, <1>11, <1>12, <1>13
  DEF Next, Write, Get

-----------------------------------------------------------------------------
(* The lease *)

\* The slack grows with the lag.
LEMMA SlackGrows ==
    ASSUME NEW d \in Nat, NEW a \in Nat, NEW b \in Nat, a <= b
    PROVE  d * (a + 1) \in Nat /\ d * (a + 1) <= d * (b + 1)
<1>1. d * (b + 1) = d * (a + 1) + d * (b - a)
  OBVIOUS
<1>2. d * (b - a) >= 0 /\ d * (a + 1) >= 0
  <2> DEFINE x == b - a
             y == a + 1
  <2>1. x \in Nat /\ y \in Nat
    OBVIOUS
  <2> HIDE DEF x, y
  <2>2. d * x \in Nat /\ d * y \in Nat
    BY <2>1
  <2> QED
    BY <2>2 DEF x, y
<1> QED
  BY <1>1, <1>2

\* It grows by a delay and a rounding with each level further up.
LEMMA SlackAbove ==
    ASSUME NEW l \in Levels, NEW m \in Levels, l < m, NEW a \in Nat
    PROVE  (L - m) * (a + 1) + (a + 1) <= (L - l) * (a + 1)
<1> DEFINE d == m - l - 1
           x == L - m
           y == a + 1
<1>1. d \in Nat /\ x \in Nat /\ y \in Nat /\ L - l = x + (d + 1)
  BY DEF Levels
<1> HIDE DEF d, x, y
<1>2. (x + (d + 1)) * y = x * y + (d * y + y) /\ d * y \in Nat /\ x * y \in Nat
  BY <1>1
<1> QED
  BY <1>1, <1>2 DEF x, y

LEMMA SlackNat ==
    ASSUME TypeInv, TypeInv', NEW l \in Levels, lag' >= lag
    PROVE  /\ Slack(l, lag) \in Nat /\ Slack(l, lag') \in Nat
           /\ Slack(l, lag) <= Slack(l, lag')
<1>1. L - l \in Nat /\ lag \in Nat /\ lag' \in Nat
  BY DEF Levels, TypeInv
<1>2. \A d \in Nat : /\ d * (lag + 1) \in Nat /\ d * (lag' + 1) \in Nat
                     /\ d * (lag + 1) <= d * (lag' + 1)
  BY <1>1, SlackGrows
<1> QED
  BY <1>1, <1>2 DEF Slack

\* A level that is left alone, or takes an entry within the lease.
LEMMA LeaseKept ==
    ASSUME TypeInv, TypeInv', Leased, lag' >= lag, lease' >= lease,
           NEW k \in Levels, NEW e, level' = level \/ level' = [level EXCEPT ![k] = e],
           e # NoEntry => e.expiresAt <= lease' + Slack(k, lag')
    PROVE  \A l \in Levels :
             level'[l] # NoEntry => level'[l].expiresAt <= lease' + Slack(l, lag')
<1> SUFFICES ASSUME NEW l \in Levels, level'[l] # NoEntry
             PROVE  level'[l].expiresAt <= lease' + Slack(l, lag')
  OBVIOUS
<1>1. /\ Slack(l, lag) \in Nat /\ Slack(l, lag') \in Nat /\ Slack(l, lag) <= Slack(l, lag')
      /\ lease \in Nat /\ lease' \in Nat
      /\ level[l] \in Entry \cup {NoEntry} /\ DOMAIN level = Levels
  BY SlackNat DEF TypeInv
<1>2. CASE level'[l] = level[l]
  <2>1. level[l].expiresAt <= lease + Slack(l, lag) /\ level[l].expiresAt \in Nat
    BY <1>1, <1>2 DEF Leased, Entry
  <2> QED
    BY <1>1, <1>2, <2>1
<1>3. CASE l = k /\ level'[l] = e
  BY <1>3
<1> QED
  BY <1>1, <1>2, <1>3

\* Backfills under way are not affected by what others do.
LEMMA FillsKept ==
    ASSUME TypeInv, TypeInv', Leased, lag' >= lag, lease' >= lease,
           NEW c \in Readers,
           job'[c].op = "fill" => /\ job[c].op = "fill"
                                  /\ job'[c].since = job[c].since
                                  /\ job'[c].ttl = job[c].ttl
                                  /\ job'[c].from = job[c].from
    PROVE  job'[c].op = "fill" =>
             job'[c].since + job'[c].ttl <= lease' + Slack(job'[c].from, lag') + 1
<1>1. /\ job[c].from \in Levels /\ job[c].since \in Nat /\ job[c].ttl \in Int
      /\ lease \in Nat /\ lease' \in Nat
  BY DEF TypeInv, Clients, Job
<1>2. /\ Slack(job[c].from, lag) \in Nat
      /\ Slack(job[c].from, lag) <= (L - job[c].from) * (lag' + 1)
      /\ (L - job[c].from) * (lag' + 1) \in Nat
  <2>1. /\ \A l \in Levels : L - l \in Nat
        /\ lag \in Nat /\ lag' \in Nat /\ lag <= lag'
    BY DEF Levels, TypeInv
  <2> QED
    BY <1>1, <2>1, SlackGrows DEF Slack
<1> SUFFICES ASSUME job'[c].op = "fill"
             PROVE  job'[c].since + job'[c].ttl <= lease' + Slack(job'[c].from, lag') + 1
  OBVIOUS
<1>3. Slack(job'[c].from, lag') = (L - job[c].from) * (lag' + 1)
  BY DEF Slack
<1>4. job[c].since + job[c].ttl <= lease + Slack(job[c].from, lag) + 1
  BY DEF Leased
<1> QED
  BY <1>1, <1>2, <1>3, <1>4

\* The step of a write: it stores within the new lease, if at all.
LEMMA WriterLeased ==
    ASSUME TypeInv, TypeInv', Leased, lag' = lag, NEW k \in Levels,
           NEW e \in Entry \cup {NoEntry},
           UNCHANGED <<level, lease>> \/ Store(k, e),
           \A r \in Readers : /\ job'[r].op = job[r].op
                              /\ job'[r].since = job[r].since
                              /\ job'[r].ttl = job[r].ttl
                              /\ job'[r].from = job[r].from
    PROVE  Leased'
<1>1. lease \in Nat /\ lease' \in Nat /\ lag \in Nat
  BY DEF TypeInv
<1>2. lease' >= lease /\ lag' >= lag
  BY <1>1, StoreType
<1>3. Slack(k, lag') \in Nat
  BY <1>2, SlackNat
<1>4. \A l \in Levels :
        level'[l] # NoEntry => level'[l].expiresAt <= lease' + Slack(l, lag')
  <2>1. CASE UNCHANGED <<level, lease>>
    <3>1. NoEntry # NoEntry => NoEntry.expiresAt <= lease' + Slack(k, lag')
      OBVIOUS
    <3> QED
      BY <1>2, <2>1, <3>1, LeaseKept
  <2>2. CASE Store(k, e)
    <3>1. level' = [level EXCEPT ![k] = e]
      BY <2>2 DEF Store
    <3>2. e # NoEntry => e.expiresAt \in Nat /\ e.expiresAt <= lease'
      BY <2>2, StoreType DEF Entry
    <3>3. e # NoEntry => e.expiresAt <= lease' + Slack(k, lag')
      BY <1>1, <1>3, <3>2
    <3> QED
      BY <1>2, <3>1, <3>3, LeaseKept
  <2> QED
    BY <2>1, <2>2
<1>5. \A r \in Readers : job'[r].op = "fill" =>
        job'[r].since + job'[r].ttl <= lease' + Slack(job'[r].from, lag') + 1
  BY <1>2, FillsKept
<1> QED
  BY <1>4, <1>5 DEF Leased

\* A step of a Get that stores nothing.
LEMMA ReaderLeased ==
    ASSUME TypeInv, TypeInv', Leased, lag' = lag, lease' = lease, level' = level,
           NEW c \in Readers, \A r \in Readers : r # c => job'[r] = job[r],
           job'[c].op = "fill" =>
             job'[c].since + job'[c].ttl <= lease' + Slack(job'[c].from, lag') + 1
    PROVE  Leased'
<1>1. lease' >= lease /\ lag' >= lag /\ 1 \in Levels
  BY DEF TypeInv, Levels
<1>2. \A l \in Levels :
        level'[l] # NoEntry => level'[l].expiresAt <= lease' + Slack(l, lag')
  <2>1. NoEntry # NoEntry => NoEntry.expiresAt <= lease' + Slack(1, lag')
    OBVIOUS
  <2> QED
    BY <1>1, <2>1, LeaseKept
<1>3. ASSUME NEW r \in Readers, job'[r].op = "fill"
      PROVE  job'[r].since + job'[r].ttl <= lease' + Slack(job'[r].from, lag') + 1
  <2>1. CASE r = c
    BY <1>3, <2>1
  <2>2. CASE r # c
    BY <1>1, <1>3, <2>2, FillsKept
  <2> QED
    BY <2>1, <2>2
<1> QED
  BY <1>2, <1>3 DEF Leased

\* Each step stores within the lease and its slack.
LEMMA LeasedStep ==
    TypeInv /\ TypeInv' /\ Leased /\ [Next]_vars => Leased'
<1> SUFFICES ASSUME TypeInv /\ TypeInv' /\ Leased,
                    [Next]_vars
             PROVE  Leased'
  OBVIOUS
<1>1. ASSUME NEW c \in Writers, BeginWrite(c) PROVE Leased'
  <2>1. lag' = lag /\ UNCHANGED <<level, lease>>
    BY <1>1, Zenon DEF BeginWrite
  <2>2. 1 \in Levels
    BY DEF Levels
  <2>3. \A r \in Readers : /\ job'[r].op = job[r].op
                           /\ job'[r].since = job[r].since
                           /\ job'[r].ttl = job[r].ttl
                           /\ job'[r].from = job[r].from
    BY <1>1, BegunCalls DEF Clients
  <2> QED
    BY <2>1, <2>2, <2>3, WriterLeased
<1>2. ASSUME NEW c \in Writers, WriteStep(c) PROVE Leased'
  <2> DEFINE l == job[c].at
             e == Applied(c, l)
  <2>1. l \in Levels /\ e \in Entry \cup {NoEntry}
    BY <1>2, AppliedEntry DEF WriteStep, TypeInv, Clients, Job
  <2>2. lag' = lag /\ (UNCHANGED <<level, lease>> \/ Store(l, e))
    BY <1>2 DEF WriteStep
  <2>3. \A r \in Readers : job'[r] = job[r]
    BY <1>2 DEF WriteStep, TypeInv, Clients, WriteNext, EndWrite
  <2> HIDE DEF l, e
  <2> QED
    BY <2>1, <2>2, <2>3, WriterLeased
<1>3. ASSUME NEW c \in Writers, SetNXRefused(c) PROVE Leased'
  <2>1. lag' = lag /\ UNCHANGED <<level, lease>> /\ 1 \in Levels
    BY <1>3 DEF SetNXRefused, Levels
  <2>2. \A r \in Readers : job'[r] = job[r]
    BY <1>3 DEF SetNXRefused, TypeInv, Clients, EndWrite
  <2> QED
    BY <2>1, <2>2, WriterLeased
<1>4. ASSUME NEW c \in Writers, SetNXWon(c) PROVE Leased'
  <2> DEFINE e == Put(job[c].value, job[c].ttl, now)
  <2>1. L \in Levels /\ e \in Entry
    BY <1>4, PutEntry DEF SetNXWon, TypeInv, CallsOK, Levels
  <2>2. lag' = lag /\ Store(L, e)
    BY <1>4 DEF SetNXWon
  <2>3. \A r \in Readers : job'[r] = job[r]
    BY <1>4 DEF SetNXWon, TypeInv, Clients, EndWrite
  <2> HIDE DEF e
  <2> QED
    BY <2>1, <2>2, <2>3, WriterLeased
<1>5. ASSUME NEW c \in Writers, SetNXCopy(c) PROVE Leased'
  <2> DEFINE e == Put(job[c].value, job[c].ttl, now)
             l == job[c].at
  <2>1. l \in Levels /\ e \in Entry
    BY <1>5, PutEntry DEF SetNXCopy, TypeInv, CallsOK, Clients, Job
  <2>2. lag' = lag /\ (UNCHANGED <<level, lease>> \/ Store(l, e))
    BY <1>5 DEF SetNXCopy
  <2>3. \A r \in Readers : job'[r] = job[r]
    BY <1>5 DEF SetNXCopy, TypeInv, Clients, EndWrite
  <2> HIDE DEF e, l
  <2> QED
    BY <2>1, <2>2, <2>3, WriterLeased
<1>6. ASSUME NEW c \in Writers, Incr(c) PROVE Leased'
  <2> DEFINE e == IF L \in RedisLevels THEN RedisIncr(level[L], now)
                  ELSE MemoryIncr
  <2>1. L \in Levels /\ level[L] \in Entry \cup {NoEntry} /\ now \in Nat
    BY DEF TypeInv, Levels
  <2>2. e \in {MemoryIncr, RedisIncr(level[L], now)}
    OBVIOUS
  <2>3. e \in Entry
    BY <2>1, <2>2, IncrEntry
  <2>4. lag' = lag /\ (UNCHANGED <<level, lease>> \/ Store(L, e))
    BY <1>6 DEF Incr
  <2>5. \A r \in Readers : job'[r] = job[r]
    BY <1>6 DEF Incr, TypeInv, Clients, EndWrite
  <2> HIDE DEF e
  <2> QED
    BY <2>1, <2>3, <2>4, <2>5, WriterLeased
<1>7. ASSUME NEW c \in Readers, BeginGet(c) PROVE Leased'
  <2>1. /\ lag' = lag /\ lease' = lease /\ level' = level
        /\ \A r \in Readers : r # c => job'[r] = job[r]
        /\ job'[c].op # "fill"
    BY <1>7 DEF BeginGet, TypeInv, Clients, Job, Idle
  <2> QED
    BY <2>1, ReaderLeased
<1>8. ASSUME NEW c \in Readers, GetLookup(c) PROVE Leased'
  <2>1. /\ lag' = lag /\ lease' = lease /\ level' = level
        /\ \A r \in Readers : r # c => job'[r] = job[r]
        /\ c \in Clients /\ job[c] \in Job /\ job[c].op = "lookup"
    BY <1>8 DEF GetLookup, TypeInv, Clients
  <2>2. \/ job'[c] = Idle
        \/ job'[c] = [job[c] EXCEPT !.op = "ttl", !.value = level[job[c].at].value,
                                   !.from = job[c].at]
        \/ job'[c] = [job[c] EXCEPT !.at = job[c].at + 1]
    BY <1>8, <2>1 DEF GetLookup, TypeInv
  <2>3. job'[c].op # "fill"
    <3>1. CASE job'[c] = Idle
      BY <3>1 DEF Idle
    <3>2. CASE job'[c] = [job[c] EXCEPT !.op = "ttl",
                            !.value = level[job[c].at].value, !.from = job[c].at]
      <4>1. job'[c].op = "ttl"
        BY <2>1, <3>2 DEF Job
      <4> QED
        BY <4>1
    <3>3. CASE job'[c] = [job[c] EXCEPT !.at = job[c].at + 1]
      <4>1. job'[c].op = "lookup"
        BY <2>1, <3>3 DEF Job
      <4> QED
        BY <4>1
    <3> QED
      BY <2>2, <3>1, <3>2, <3>3
  <2> QED
    BY <2>1, <2>3, ReaderLeased
<1>9. ASSUME NEW c \in Readers, GetTTL(c) PROVE Leased'
  <2>1. /\ lag' = lag /\ lease' = lease /\ level' = level
        /\ \A r \in Readers : r # c => job'[r] = job[r]
        /\ c \in Clients /\ job[c] \in Job /\ job[c].from \in Levels
        /\ level[job[c].from] \in Entry \cup {NoEntry} /\ now \in Nat
        /\ lease \in Nat
    BY <1>9 DEF GetTTL, TypeInv, Clients, Job
  <2>2. PICK ttl \in TTLAnswers(job[c].from) :
          job' = [job EXCEPT ![c] =
            IF ttl > 0 THEN [@ EXCEPT !.op = "fill", !.ttl = ttl, !.at = 1,
                                      !.since = now]
            ELSE Idle]
    BY <1>9 DEF GetTTL
  <2>3. /\ ttl \in Int
        /\ ttl > 0 => /\ level[job[c].from] # NoEntry
                      /\ now + ttl <= level[job[c].from].expiresAt + 1
    BY <2>1, TTLBound DEF TTLAnswers
  <2>4. job'[c].op = "fill" => /\ ttl > 0 /\ job'[c].since = now
                               /\ job'[c].ttl = ttl
                               /\ job'[c].from = job[c].from
    BY <2>1, <2>2 DEF TypeInv, Job, Idle
  <2>5. ASSUME job'[c].op = "fill"
        PROVE  job'[c].since + job'[c].ttl <= lease' + Slack(job'[c].from, lag') + 1
    <3>1. Slack(job'[c].from, lag') = Slack(job[c].from, lag)
      BY <2>1, <2>4, <2>5 DEF Slack
    <3>2. Slack(job[c].from, lag) \in Nat
      BY <2>1, SlackNat DEF TypeInv
    <3>3. level[job[c].from].expiresAt <= lease + Slack(job[c].from, lag)
          /\ level[job[c].from].expiresAt \in Nat
      BY <2>1, <2>3, <2>4, <2>5 DEF Leased, Entry
    <3> QED
      BY <2>1, <2>3, <2>4, <2>5, <3>1, <3>2, <3>3
  <2> QED
    BY <2>1, <2>5, ReaderLeased
<1>10. ASSUME NEW c \in Readers, GetFill(c) PROVE Leased'
  <2> DEFINE l == job[c].at
             m == job[c].from
             e == Put(job[c].value, job[c].ttl, now)
  <2>1. /\ c \in Clients /\ job[c] \in Job /\ l \in Levels /\ m \in Levels /\ l < m
        /\ job[c].op = "fill" /\ job[c].value \in Contents
        /\ job[c].ttl \in Int /\ job[c].ttl > 0 /\ job[c].since \in Nat
        /\ job[c].since <= now /\ now \in Nat /\ now > 0
        /\ lag \in Nat /\ lag' \in Nat /\ lease \in Nat
    BY <1>10 DEF GetFill, TypeInv, CallsOK, Clients, Job
  <2>2. /\ lag' = Later(lag, now - job[c].since) /\ lease' = lease
        /\ level' = level \/ level' = [level EXCEPT ![l] = e]
        /\ \A r \in Readers : r # c => job'[r] = job[r]
    BY <1>10 DEF GetFill, FilledTTL, FillNext, TypeInv, Clients
  <2>3. lag' >= lag /\ lag' >= now - job[c].since
    BY <2>1, <2>2 DEF Later
  <2>4. e.expiresAt = now + job[c].ttl
    BY <2>1, PutEntry
  <2>5. job[c].since + job[c].ttl <= lease + Slack(m, lag) + 1
    BY <2>1 DEF Leased
  <2>6. e.expiresAt <= lease' + Slack(l, lag')
    <3>1. /\ Slack(l, lag') = (L - l) * (lag' + 1)
          /\ (L - l) * (lag' + 1) \in Nat
          /\ Slack(m, lag) \in Nat /\ (L - m) * (lag' + 1) \in Nat
          /\ Slack(m, lag) <= (L - m) * (lag' + 1)
      <4>1. L - l \in Nat /\ L - m \in Nat
        BY <2>1 DEF Levels
      <4> HIDE DEF l, m
      <4> QED
        BY <2>1, <2>3, <4>1, SlackGrows DEF Slack
    <3>2. (L - m) * (lag' + 1) + (lag' + 1) <= (L - l) * (lag' + 1)
      BY <2>1, SlackAbove
    <3> HIDE DEF l, m, e
    <3> DEFINE x == (L - m) * (lag' + 1)
               y == (L - l) * (lag' + 1)
               z == Slack(m, lag)
    <3>3. x \in Nat /\ y \in Nat /\ z \in Nat /\ z <= x /\ x + (lag' + 1) <= y
      BY <3>1, <3>2
    <3>4. Slack(l, lag') = y
      BY <3>1
    <3>5. job[c].since + job[c].ttl <= lease + z + 1
      BY <2>5
    <3> HIDE DEF x, y, z
    <3>6. now + job[c].ttl <= lease + y
      BY <2>1, <2>3, <3>3, <3>5
    <3> QED
      BY <2>2, <2>4, <3>4, <3>6
  <2> HIDE DEF e
  <2>7. \A k \in Levels :
          level'[k] # NoEntry => level'[k].expiresAt <= lease' + Slack(k, lag')
    BY <2>1, <2>2, <2>3, <2>6, LeaseKept
  <2>8. job'[c].op = "fill" => /\ job'[c].since = job[c].since
                               /\ job'[c].ttl = job[c].ttl
                               /\ job'[c].from = job[c].from
    BY <1>10, <2>1 DEF GetFill, FillNext, TypeInv, Idle, Job
  <2>9. \A r \in Readers : job'[r].op = "fill" =>
          job'[r].since + job'[r].ttl <= lease' + Slack(job'[r].from, lag') + 1
    <3>1. lease' >= lease
      BY <2>1, <2>2
    <3> QED
      BY <2>1, <2>2, <2>3, <2>8, <3>1, FillsKept
  <2> QED
    BY <2>7, <2>9 DEF Leased
<1>11. ASSUME NEW l \in Levels, Cleanup(l) PROVE Leased'
  <2>1. /\ lag' = lag /\ lease' = lease /\ job' = job
        /\ level' = [level EXCEPT ![l] = NoEntry]
    BY <1>11 DEF Cleanup
  <2>2. level' \in [Levels -> Entry \cup {NoEntry}] /\ lease \in Nat /\ lag \in Nat
    BY DEF TypeInv
  <2>3. \A k \in Levels :
          level'[k] # NoEntry => level'[k].expiresAt <= lease' + Slack(k, lag')
    <3>1. lag' >= lag /\ lease' >= lease
      BY <2>1, <2>2
    <3>2. NoEntry # NoEntry => NoEntry.expiresAt <= lease' + Slack(l, lag')
      OBVIOUS
    <3> QED
      BY <2>1, <3>1, <3>2, LeaseKept
  <2>4. \A r \in Readers : job'[r].op = "fill" =>
          job'[r].since + job'[r].ttl <= lease' + Slack(job'[r].from, lag') + 1
    BY <2>1, <2>2, FillsKept
  <2> QED
    BY <2>3, <2>4 DEF Leased
<1>12. ASSUME Tick PROVE Leased'
  <2>1. lag' = lag /\ job' = job /\ UNCHANGED <<level, lease>> /\ 1 \in Levels
    BY <1>12 DEF Tick, Levels
  <2> QED
    BY <2>1, WriterLeased
<1>13. ASSUME UNCHANGED vars PROVE Leased'
  <2>1. lag' = lag /\ job' = job /\ UNCHANGED <<level, lease>> /\ 1 \in Levels
    BY <1>13 DEF vars, Levels
  <2> QED
    BY <2>1, WriterLeased
<1> QED
  BY <1>1, <1>2, <1>3, <1>4, <1>5, <1>6, <1>7, <1>8, <1>9, <1>10, <1>11, <1>12, <1>13
  DEF Next, Write, Get

-----------------------------------------------------------------------------
(* The theorems *)

THEOREM Invariance == Spec => []IInv
<1>1. Init => IInv
  BY InitIInv
<1>2. IInv /\ [Next]_vars => IInv'
  BY TypeStep, SticksStep, LeasedStep DEF IInv
<1> QED
  BY <1>1, <1>2, PTL DEF Spec

\* TypeOK: the levels, the calls and the counters stay well-formed, and a
\* backfill stays below the level that Get hit.
THEOREM TypeCorrect == Spec => []TypeOK
<1>1. IInv => TypeOK
  <2> SUFFICES ASSUME IInv PROVE TypeOK
    OBVIOUS
  <2>1. \A c \in Clients : job[c].op = "fill" => job[c].at < job[c].from
    BY DEF IInv, TypeInv, CallsOK, Clients
  <2> QED
    BY <2>1 DEF IInv, TypeInv, TypeOK
<1> QED
  BY <1>1, Invariance, PTL

\* WritesStick: however Gets, expiries and failures interleave, a write that
\* succeeded on every level and met no other write is what the last level shows,
\* and an upper level shows anything else only until it expires.
THEOREM WritesAreNotUndone == Spec => []WritesStick
<1>1. IInv => WritesStick
  <2> SUFFICES ASSUME IInv, Writing = {}, settled # Unknown
               PROVE  /\ Live(level[L], now) => level[L].value = settled
                      /\ \A l \in 1..(L - 1) :
                           Live(level[l], now) =>
                             level[l].value = settled \/ level[l].expiresAt # Never
    BY DEF WritesStick
  <2>1. Steady(job)
    BY DEF Steady, Writing
  <2>2. Fresh(level, settled, L) /\ Holds(level, settled)
    BY <2>1 DEF IInv, Sticks, Settled
  <2> QED
    BY <2>2 DEF Fresh, Holds, Live
<1> QED
  BY <1>1, Invariance, PTL

\* LeaseBound: no chain of backfills keeps a value past the writers' latest
\* expiry by more than a delay and a rounding for each level it was copied up.
THEOREM BackfillsEnd == Spec => []LeaseBound
<1>1. IInv => LeaseBound
  <2> SUFFICES ASSUME IInv, NEW l \in Levels, level[l] # NoEntry
               PROVE  level[l].expiresAt <= lease + (L - 1) * (lag + 1)
    BY DEF LeaseBound
  <2>1. level[l].expiresAt <= lease + Slack(l, lag)
    BY DEF IInv, Leased
  <2>2. /\ level[l].expiresAt \in Nat /\ lease \in Nat /\ lag \in Nat
        /\ 1 \in Levels /\ l \in Nat /\ 1 <= l /\ l <= L
    BY DEF IInv, TypeInv, Levels, Entry
  <2>3. Slack(l, lag) \in Int /\ (L - 1) * (lag + 1) \in Int
        /\ Slack(l, lag) <= (L - 1) * (lag + 1)
    <3>1. CASE l = 1
      BY <2>2, <3>1 DEF Slack
    <3>2. CASE 1 < l
      <4>1. (L - l) * (lag + 1) + (lag + 1) <= (L - 1) * (lag + 1)
        BY <2>2, <3>2, SlackAbove
      <4>2. (L - l) * (lag + 1) \in Int /\ (L - 1) * (lag + 1) \in Int
        BY <2>2
      <4> DEFINE x == (L - l) * (lag + 1)
                 y == (L - 1) * (lag + 1)
      <4>3. x \in Int /\ y \in Int /\ x + (lag + 1) <= y /\ Slack(l, lag) = x
        BY <4>1, <4>2 DEF Slack
      <4> HIDE DEF x, y
      <4>4. x <= y
        BY <2>2, <4>3
      <4> QED
        BY <4>3, <4>4 DEF y
    <3> QED
      BY <2>2, <3>1, <3>2
  <2> DEFINE x == Slack(l, lag)
             y == (L - 1) * (lag + 1)
  <2>4. x \in Int /\ y \in Int /\ x <= y /\ level[l].expiresAt <= lease + x
    BY <2>1, <2>3
  <2> HIDE DEF x, y
  <2>5. level[l].expiresAt <= lease + y
    BY <2>2, <2>4
  <2> QED
    BY <2>5 DEF y
<1> QED
  BY <1>1, Invariance, PTL
=============================================================================
