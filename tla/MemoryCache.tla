----------------------------- MODULE MemoryCache -----------------------------
(***************************************************************************)
(* pkg/cache/memory.go: a map from keys to pointers of items under an       *)
(* RWMutex. Get, GetRaw, Exists and TTL take the pointer under the lock and *)
(* look at the item after it; Expire changes an item in place; an item that *)
(* has expired stays in the map until cleanup removes it. Values are        *)
(* numbers from 1, and 0 stands for not found. Time is the ticks an item    *)
(* has left; at 0 it lives until the next tick, then it has Expired.        *)
(***************************************************************************)
EXTENDS Integers

CONSTANTS
    Keys,
    Items,     \* addresses of items
    Nil,       \* no item
    MaxNumber, \* bound on the numbers Incr counts to, for TLC
    Ttls       \* positive terms, in ticks

Values == 1..MaxNumber
Forever == -1  \* expiresAt.IsZero()
Expired == -2

VARIABLES
    data,   \* memoryCache.data
    item,   \* what each address holds
    reader, \* the key and item of the read under way
    held,   \* (history) values its key had since it began
    answer  \* of the last read

vars == <<data, item, reader, held, answer>>

Unused == [value |-> 0, left |-> Forever]
NoRead == [key |-> {}, at |-> "idle", item |-> Nil]

Init ==
    /\ data = [k \in Keys |-> Nil]
    /\ item = [i \in Items |-> Unused]
    /\ reader = NoRead
    /\ held = {} /\ answer = <<>>

Present(d, i, k) == d[k] # Nil /\ i[d[k]].left # Expired

\* The value a Get of k alone would answer.
Value(d, i, k) == IF Present(d, i, k) THEN i[d[k]].value ELSE 0

\* An address nobody points to is free for a new item.
InUse == {data[k] : k \in Keys} \cup {reader.item}

Collected(d, i) ==
    [a \in Items |-> IF a \in {d[k] : k \in Keys} \cup {reader.item} THEN i[a] ELSE Unused]

\* The end of every change: a map and items, as the read under way sees them too.
Becomes(d, i) ==
    /\ data' = d
    /\ item' = Collected(d, i)
    /\ held' = held \cup {Value(d, i, k) : k \in reader.key}
    /\ UNCHANGED <<reader, answer>>

\* MSet holds the lock for all its keys (one value and ttl stand for them); a value
\* that cannot be encoded ends it after some of them. Set is that of one key.
SetKeys(ks, v, ttl) == \E new \in [ks -> Items \ InUse] :
    /\ \A j, k \in ks : new[j] = new[k] => j = k
    /\ Becomes([k \in Keys |-> IF k \in ks THEN new[k] ELSE data[k]],
               [a \in Items |-> IF \E k \in ks : new[k] = a
                                THEN [value |-> v, left |-> ttl] ELSE item[a]])

Set == \E ks \in SUBSET Keys \ {{}}, v \in Values, ttl \in Ttls \cup {Forever} : SetKeys(ks, v, ttl)

NewItem(k, v, ttl) == \E new \in Items \ InUse :
    Becomes([data EXCEPT ![k] = new], [item EXCEPT ![new] = [value |-> v, left |-> ttl]])

\* (Faulty variant of SetNX: an item that expired keeps the key taken, and one
\* that lives does not.)
SetNXAnyway == \E k \in Keys, v \in Values, ttl \in Ttls \cup {Forever} : NewItem(k, v, ttl)

SetNX == \E k \in Keys, v \in Values, ttl \in Ttls \cup {Forever} :
    ~Present(data, item, k) /\ NewItem(k, v, ttl)

\* IncrBy and its like: a new item without an expiry.
Incr == \E k \in Keys :
    /\ Value(data, item, k) < MaxNumber
    /\ NewItem(k, Value(data, item, k) + 1, Forever)

\* MDelete, and Delete of one key.
DeleteKeys(ks) == Becomes([k \in Keys |-> IF k \in ks THEN Nil ELSE data[k]], item)

Delete == \E ks \in SUBSET Keys : DeleteKeys(ks)

\* In place, and also for an item that has expired. A term that is not positive is
\* over at once.
ExpireKey(k, left) ==
    /\ data[k] # Nil
    /\ Becomes(data, [item EXCEPT ![data[k]].left = left])

Expire == \E k \in Keys, left \in Ttls \cup {Expired} : ExpireKey(k, left)

\* The write of expiresAt races with a read's test: of an item that had none, the
\* test can see one half of the new time and take it for expired.
ExpireTorn == \E ttl \in Ttls :
    /\ reader.at = "test" /\ \E k \in reader.key : data[k] = reader.item
    /\ reader.item # Nil /\ item[reader.item].left = Forever
    /\ item' = [item EXCEPT ![reader.item].left = ttl]
    /\ reader' = [reader EXCEPT !.at = "torn"]
    /\ UNCHANGED <<data, held, answer>>

\* One sweep of the cleanup goroutine, under the lock.
Cleanup == Becomes([k \in Keys |-> IF Present(data, item, k) THEN data[k] ELSE Nil], item)

Tick == Becomes(data, [a \in Items |->
    [item[a] EXCEPT !.left = CASE @ \in {Forever, Expired} -> @
                               [] @ = 0 -> Expired
                               [] OTHER -> @ - 1]])

\* Get, GetRaw, Exists and TTL.
Lookup == \E k \in Keys :
    /\ reader.at = "idle"
    /\ reader' = [key |-> {k}, at |-> "test", item |-> data[k]]
    /\ held' = {Value(data, item, k)}
    /\ answer' = <<>>
    /\ UNCHANGED <<data, item>>

Answers(v) ==
    /\ reader.at # "idle"
    /\ answer' = [k \in reader.key |-> v]
    /\ reader' = NoRead /\ held' = {}
    /\ item' = [a \in Items |-> IF a \in {data[k] : k \in Keys} THEN item[a] ELSE Unused]
    /\ UNCHANGED data

\* (Faulty variant of Test: does not ask isExpired.)
TestOnly == Answers(IF reader.item = Nil THEN 0 ELSE item[reader.item].value)

Test == Answers(IF \/ reader.item = Nil \/ reader.at = "torn"
                   \/ item[reader.item].left = Expired
                THEN 0 ELSE item[reader.item].value)

\* MGet holds the lock for all its keys and asks isExpired of each at a moment of
\* its own: one that lives until the next tick may have lapsed by then.
MGet == \E late \in SUBSET {k \in Keys : data[k] # Nil /\ item[data[k]].left = 0} :
    /\ reader.at = "idle"
    /\ answer' = [k \in Keys |-> IF k \in late THEN 0 ELSE Value(data, item, k)]
    /\ UNCHANGED <<data, item, reader, held>>

Next == Set \/ SetNX \/ Incr \/ Delete \/ Expire \/ ExpireTorn \/ Cleanup \/ Tick
        \/ Lookup \/ Test \/ MGet

Spec == Init /\ [][Next]_vars

-----------------------------------------------------------------------------
(* Properties *)

\* Types of the variables; addresses are not shared.
TypeOK ==
    /\ data \in [Keys -> Items \cup {Nil}]
    /\ item \in [Items -> [value : 0..MaxNumber, left : Ttls \cup {Forever, Expired} \cup Nat]]
    /\ reader \in [key : SUBSET Keys, at : {"idle", "test", "torn"}, item : Items \cup {Nil}]
    /\ held \subseteq 0..MaxNumber

Promise == INSTANCE CachePromise WITH
    content <- [k \in Keys |-> IF Present(data, item, k) THEN item[data[k]] ELSE Unused],
    lapsed <- [k \in Keys |-> IF data[k] # Nil /\ ~Present(data, item, k)
                              THEN item[data[k]].value ELSE 0],
    asked <- reader.key

\* The memory cache is a map whose changes are single steps, expiry included, and
\* whose reads answer what the key held while they ran, although a read tests an
\* item after it let go of the lock, and expired items linger until the cleanup.
KeepsPromise == Promise!Spec
=============================================================================
