-------------------------- MODULE Background_proofs --------------------------
(***************************************************************************)
(* Proofs about what MCBackground puts next to each other: that a service   *)
(* name has one watcher, and that the memory cache implements CachePromise. *)
(* The asynchronous hook has a liveness property only.                      *)
(***************************************************************************)
EXTENDS MCBackground, TLAPS

\* A goroutine still owes its callback a list: its query is out or answered.
Owes(c) == watcher[c].at \in {"query", "callback"}

\* (ServiceWatch) OneWatcher made inductive: a goroutine counts a list only after it was
\* cancelled, and one that was gives either the list it owes or none.
WatchInv ==
    /\ TypeOK
    /\ \A c \in Calls :
          /\ watcher[c].at # "off" /\ c \notin cancelled => watchers = c
          /\ c \notin cancelled => after[c] = 0
          /\ Owes(c) => after[c] = 0
          /\ after[c] <= 1

\* (MemoryCache) What a caller sees under a key, and what Expire can bring back.
Entry(d, i, k) == IF M!Present(d, i, k) THEN i[d[k]] ELSE M!Unused
Lapsed(d, i, k) == IF d[k] # Nil /\ ~M!Present(d, i, k) THEN i[d[k]].value ELSE 0

\* (MemoryCache) Keys share no item and none is empty; a read under way knows what
\* its key holds now, and the value of the item it took the pointer of, unless
\* that has expired; and only its own key can still point there.
ItemRecord == [value : 0..MaxNumber, left : Nat \cup {M!Forever, M!Expired}]
MapOK(d, i) ==
    /\ d \in [Keys -> Items \cup {Nil}] /\ i \in [Items -> ItemRecord]
    /\ \A j, k \in Keys : d[j] = d[k] /\ d[j] # Nil => j = k
    /\ \A k \in Keys : d[k] # Nil => i[d[k]].value > 0
ReaderOK ==
    /\ reader \in [key : SUBSET Keys, at : {"idle", "test", "torn"}, item : Items \cup {Nil}]
    /\ reader.at = "idle" => reader.key = {} /\ held = {}
    /\ reader.at # "idle" => \E k \in Keys : reader.key = {k}
    /\ \A k \in reader.key : M!Value(data, item, k) \in held
    /\ reader.item # Nil =>
         /\ reader.at = "test" /\ item[reader.item].left # M!Expired
                => item[reader.item].value \in held
         /\ \A k \in Keys : data[k] = reader.item => k \in reader.key
MemoryInv == MapOK(data, item) /\ ReaderOK

-----------------------------------------------------------------------------
(* ServiceWatch *)

LEMMA WatchInit == Init => WatchInv
<1> SUFFICES ASSUME Init PROVE WatchInv
  OBVIOUS
<1>1. /\ 1 \in 1..MaxChange
      /\ [at |-> "off", lastIndex |-> 0, reply |-> 0]
           \in [at : {"off", "top", "query", "callback"},
               lastIndex : 0..MaxChange, reply : 0..MaxChange]
  BY MaxChangeAssumption
<1>2. TypeOK
  BY <1>1 DEF Init, TypeOK
<1> QED
  BY <1>2 DEF Init, WatchInv, Owes

\* The steps of Consul leave the goroutines alone.
LEMMA ConsulStep == ASSUME WatchInv, Change \/ Restore PROVE WatchInv'
<1>1. /\ catalog' \in 1..MaxChange /\ rewound' \in BOOLEAN
      /\ UNCHANGED <<watchers, cancelled, watcher, shown, after>>
  <2>1. CASE Change
    BY <2>1, MaxChangeAssumption DEF WatchInv, TypeOK, Change
  <2>2. CASE Restore
    BY <2>2, MaxChangeAssumption DEF WatchInv, TypeOK, Restore
  <2> QED
    BY <2>1, <2>2
<1> QED
  BY <1>1 DEF WatchInv, TypeOK, Owes

LEMMA WatchStep == ASSUME WatchInv, NEW c \in Calls, Watch(c) PROVE WatchInv'
<1>1. /\ watcher' = [watcher EXCEPT ![c].at = "top"]
      /\ cancelled' = cancelled \cup ({watchers} \ {Nobody})
      /\ watchers' = c
      /\ UNCHANGED <<catalog, rewound, shown, after>>
      /\ watcher[c].at = "off" /\ c \notin cancelled
  BY DEF Watch, Begin
<1>2. TypeOK'
  BY <1>1 DEF WatchInv, TypeOK
<1>3. ASSUME NEW d \in Calls
      PROVE  /\ watcher'[d].at # "off" /\ d \notin cancelled' => watchers' = d
             /\ d \notin cancelled' => after'[d] = 0
             /\ watcher'[d].at \in {"query", "callback"} => after'[d] = 0
             /\ after'[d] <= 1
  <2>1. CASE d = c
    BY <1>1, <2>1 DEF WatchInv, TypeOK
  <2>2. CASE d # c
    <3>1. watcher'[d] = watcher[d]
      BY <1>1, <2>2 DEF WatchInv, TypeOK
    <3>2. watchers = d => d \in cancelled'
      BY <1>1, NobodyAssumption
    <3> QED
      BY <1>1, <2>2, <3>1, <3>2 DEF WatchInv, TypeOK, Owes
  <2> QED
    BY <2>1, <2>2
<1> QED
  BY <1>2, <1>3 DEF WatchInv, Owes

LEMMA CancelStep == ASSUME WatchInv, NEW c \in Calls, Cancel(c) PROVE WatchInv'
  BY DEF WatchInv, TypeOK, Owes, Cancel

LEMMA CloseStep == ASSUME WatchInv, Close PROVE WatchInv'
  BY NobodyAssumption DEF WatchInv, TypeOK, Owes, Close

\* The records of watcher.
Watchers == [Calls -> [at : {"off", "top", "query", "callback"},
                       lastIndex : 0..MaxChange, reply : 0..MaxChange]]

\* The goroutine moves on without giving a list.
LEMMA MoveStep ==
  ASSUME WatchInv, NEW c \in Calls, End(c) \/ Query(c) \/ Again(c) \/ Reply(c)
  PROVE  WatchInv'
<1>0. watcher \in Watchers /\ catalog \in 0..MaxChange
  BY MaxChangeAssumption DEF WatchInv, TypeOK, Watchers
<1>1. /\ watcher' \in Watchers
      /\ \A d \in Calls \ {c} : watcher'[d] = watcher[d]
      /\ watcher[c].at # "off"
      /\ watcher'[c].at = "off" => c \in cancelled
      /\ watcher'[c].at \in {"query", "callback"} => Owes(c) \/ c \notin cancelled
  <2>1. CASE End(c)
    BY <1>0, <2>1 DEF Watchers, End
  <2>2. CASE Query(c)
    BY <1>0, <2>2 DEF Watchers, Query
  <2>3. CASE Again(c)
    BY <1>0, <2>3 DEF Watchers, Again
  <2>4. CASE Reply(c)
    BY <1>0, <2>4 DEF Watchers, Reply, Owes
  <2> QED
    BY <2>1, <2>2, <2>3, <2>4
<1>2. UNCHANGED <<catalog, rewound, watchers, cancelled, shown, after>>
  BY DEF End, Query, Again, Reply
<1>3. TypeOK'
  BY <1>1, <1>2 DEF WatchInv, TypeOK, Watchers
<1>4. ASSUME NEW d \in Calls
      PROVE  /\ watcher'[d].at # "off" /\ d \notin cancelled => watchers = d
             /\ watcher'[d].at \in {"query", "callback"} => after[d] = 0
  BY <1>1 DEF WatchInv, TypeOK, Owes
<1> QED
  BY <1>2, <1>3, <1>4 DEF WatchInv, Owes

LEMMA CallbackStep == ASSUME WatchInv, NEW c \in Calls, Callback(c) PROVE WatchInv'
<1> DEFINE given == IF c \in cancelled THEN after[c] + 1 ELSE after[c]
<1>0. watcher \in Watchers /\ after \in [Calls -> Nat] /\ 0 \in 0..MaxChange
  BY MaxChangeAssumption DEF WatchInv, TypeOK, Watchers
<1>1. /\ watcher' = [watcher EXCEPT ![c].at = "top", ![c].reply = 0]
      /\ shown' = [shown EXCEPT ![c] = watcher[c].reply]
      /\ after' = [after EXCEPT ![c] = given]
      /\ UNCHANGED <<catalog, rewound, watchers, cancelled>>
      /\ watcher[c].at = "callback"
  BY <1>0 DEF Callback
<1>2. after[c] = 0 /\ given \in {0, 1} /\ (c \notin cancelled => given = 0)
  BY <1>1 DEF WatchInv, Owes
<1> HIDE DEF given
<1>3. /\ watcher' \in Watchers /\ watcher'[c].at = "top"
      /\ \A d \in Calls \ {c} : watcher'[d] = watcher[d]
  BY <1>0, <1>1 DEF Watchers
<1>4. TypeOK'
  BY <1>0, <1>1, <1>2, <1>3 DEF WatchInv, TypeOK, Watchers
<1>5. ASSUME NEW d \in Calls
      PROVE  /\ watcher'[d].at # "off" /\ d \notin cancelled => watchers = d
             /\ d \notin cancelled => after'[d] = 0
             /\ watcher'[d].at \in {"query", "callback"} => after'[d] = 0
             /\ after'[d] <= 1
  <2>1. CASE d = c
    <3>1. after'[d] = given
      BY <1>0, <1>1, <2>1
    <3>2. watcher[c].at # "off" /\ (c \notin cancelled => watchers = c)
      BY <1>1 DEF WatchInv
    <3> QED
      BY <1>2, <1>3, <2>1, <3>1, <3>2
  <2>2. CASE d # c
    <3>1. after'[d] = after[d] /\ watcher'[d] = watcher[d]
      BY <1>0, <1>1, <1>3, <2>2
    <3> QED
      BY <3>1 DEF WatchInv, Owes
  <2> QED
    BY <2>1, <2>2
<1> QED
  BY <1>1, <1>4, <1>5 DEF WatchInv, Owes

LEMMA WatchNext == WatchInv /\ [Next]_vars => WatchInv'
<1> SUFFICES ASSUME WatchInv, [Next]_vars PROVE WatchInv'
  OBVIOUS
<1>1. CASE Change \/ Restore
  BY <1>1, ConsulStep
<1>2. CASE Close
  BY <1>2, CloseStep
<1>3. ASSUME NEW c \in Calls, Watch(c) PROVE WatchInv'
  BY <1>3, WatchStep
<1>4. ASSUME NEW c \in Calls, Cancel(c) PROVE WatchInv'
  BY <1>4, CancelStep
<1>5. ASSUME NEW c \in Calls, End(c) \/ Query(c) \/ Again(c) \/ Reply(c) PROVE WatchInv'
  BY <1>5, MoveStep
<1>6. ASSUME NEW c \in Calls, Callback(c) PROVE WatchInv'
  BY <1>6, CallbackStep
<1>7. CASE UNCHANGED vars
  BY <1>7 DEF vars, WatchInv, TypeOK, Owes
<1> QED
  BY <1>1, <1>2, <1>3, <1>4, <1>5, <1>6, <1>7 DEF Next

-----------------------------------------------------------------------------
(* MemoryCache *)

LEMMA UnusedTyped == M!Unused \in ItemRecord /\ M!Forever # M!Expired
  BY MemoryAssumption DEF M!Unused, ItemRecord, M!Forever, M!Expired

LEMMA MemoryInit == M!Init => MemoryInv
  BY UnusedTyped DEF M!Init, MemoryInv, MapOK, ReaderOK, M!NoRead

\* What Becomes leaves behind: items only the map or the read under way point to are
\* as they were meant, and the map does not point to any other.
LEMMA AfterBecomes ==
  ASSUME NEW d, NEW i, MapOK(d, i), ReaderOK, M!Becomes(d, i)
  PROVE  /\ data' = d /\ UNCHANGED <<reader, answer>>
         /\ item' \in [Items -> ItemRecord]
         /\ \A k \in Keys : d[k] # Nil => d[k] \in Items /\ item'[d[k]] = i[d[k]]
         /\ reader.item # Nil => reader.item \in Items /\ item'[reader.item] = i[reader.item]
<1>1. item' = M!Collected(d, i) /\ data' = d /\ UNCHANGED <<reader, answer>>
  BY DEF M!Becomes
<1> DEFINE used == {d[k] : k \in Keys} \cup {reader.item}
<1>2. item' = [a \in Items |-> IF a \in used THEN i[a] ELSE M!Unused]
  BY <1>1 DEF M!Collected
<1>3. item' \in [Items -> ItemRecord]
  <2> HIDE DEF used
  <2> QED
    BY <1>2, UnusedTyped DEF MapOK
<1>4. ASSUME NEW k \in Keys, d[k] # Nil PROVE d[k] \in Items /\ item'[d[k]] = i[d[k]]
  <2>1. d[k] \in Items /\ d[k] \in used
    BY <1>4 DEF MapOK
  <2> HIDE DEF used
  <2> QED
    BY <1>2, <2>1
<1>5. ASSUME reader.item # Nil
      PROVE  reader.item \in Items /\ item'[reader.item] = i[reader.item]
  <2>1. reader.item \in Items /\ reader.item \in used
    BY <1>5 DEF ReaderOK
  <2> HIDE DEF used
  <2> QED
    BY <1>2, <2>1
<1> QED
  BY <1>1, <1>3, <1>4, <1>5

\* A map and items that are good stay so, if of the item of the read under way the
\* value is as before, it comes back to life only under the key that was read, and
\* no other key gets it.
LEMMA BecomesKeeps ==
  ASSUME NEW d, NEW i, MemoryInv, MapOK(d, i), M!Becomes(d, i),
         reader.item # Nil =>
            /\ i[reader.item].value = item[reader.item].value
            /\ item[reader.item].left = M!Expired /\ i[reader.item].left # M!Expired
                  => \E k \in reader.key : d[k] = reader.item
            /\ \A k \in Keys : d[k] = reader.item => k \in reader.key
  PROVE  MemoryInv'
<1>1. /\ data' = d /\ UNCHANGED reader
      /\ item' \in [Items -> ItemRecord]
      /\ \A k \in Keys : d[k] # Nil => d[k] \in Items /\ item'[d[k]] = i[d[k]]
      /\ reader.item # Nil => reader.item \in Items /\ item'[reader.item] = i[reader.item]
  BY AfterBecomes DEF MemoryInv
<1>2. MapOK(data', item')
  BY <1>1 DEF MapOK
<1>3. \A k \in Keys : M!Value(data', item', k) = M!Value(d, i, k)
  BY <1>1 DEF M!Value, M!Present
<1>4. held' = held \cup {M!Value(d, i, k) : k \in reader.key}
  BY DEF M!Becomes
<1>5. /\ reader \in [key : SUBSET Keys, at : {"idle", "test", "torn"}, item : Items \cup {Nil}]
      /\ reader.at = "idle" => reader.key = {} /\ held = {}
      /\ reader.at # "idle" => \E k \in Keys : reader.key = {k}
      /\ reader.item # Nil =>
           /\ reader.at = "test" /\ item[reader.item].left # M!Expired
                  => item[reader.item].value \in held
           /\ \A k \in Keys : data[k] = reader.item => k \in reader.key
  BY DEF MemoryInv, ReaderOK
<1>6. \A k \in reader.key : M!Value(data', item', k) \in held'
  BY <1>3, <1>4, <1>5
<1>7. ASSUME reader.item # Nil, reader.at = "test", i[reader.item].left # M!Expired
      PROVE  i[reader.item].value \in held'
  <2>1. CASE item[reader.item].left # M!Expired
    BY <1>4, <1>5, <1>7, <2>1
  <2>2. CASE item[reader.item].left = M!Expired
    <3>1. PICK k \in reader.key : d[k] = reader.item
      BY <1>7, <2>2
    <3>2. M!Value(d, i, k) = i[reader.item].value
      BY <1>7, <3>1 DEF M!Value, M!Present
    <3> QED
      BY <1>4, <3>1, <3>2
  <2> QED
    BY <2>1, <2>2
<1>8. ReaderOK'
  <2>1. \A k \in reader'.key : M!Value(data, item, k)' \in held'
    BY <1>1, <1>6 DEF M!Value, M!Present
  <2>2. reader'.at = "idle" => reader'.key = {} /\ held' = {}
    BY <1>1, <1>4, <1>5
  <2> QED
    BY <1>1, <1>5, <1>7, <2>1, <2>2 DEF ReaderOK
<1> QED
  BY <1>2, <1>8 DEF MemoryInv, MapOK

\* The content of CachePromise and what lapsed, as MemoryCache puts them in.
Content == [k \in Keys |-> IF M!Present(data, item, k) THEN item[data[k]] ELSE M!Unused]
Gone == [k \in Keys |-> IF data[k] # Nil /\ ~M!Present(data, item, k)
                        THEN item[data[k]].value ELSE 0]

\* The read under way takes note of the content its key has after the step.
Seen ==
    /\ held' = IF reader.key = {} THEN {} ELSE held \cup {Content'[k].value : k \in reader.key}
    /\ UNCHANGED <<reader.key, answer>>

LEMMA ChangeIs ==
  ASSUME NEW next, Content' = next, Seen
  PROVE  M!Promise!Change(next)
<1>1. held' = IF reader.key = {} THEN {} ELSE held \cup {next[k].value : k \in reader.key}
  BY DEF Seen
<1>2. [k \in Keys |-> IF M!Present(data, item, k) THEN item[data[k]] ELSE M!Unused]' = next
  BY DEF Content
<1>3. UNCHANGED <<reader.key, answer>>
  BY DEF Seen
<1> QED
  BY <1>1, <1>2, <1>3 DEF M!Promise!Change

\* What Becomes means to CachePromise.
LEMMA BecomesMaps ==
  ASSUME NEW d, NEW i, MemoryInv, MapOK(d, i), M!Becomes(d, i)
  PROVE  /\ Content' = [k \in Keys |-> Entry(d, i, k)]
         /\ Gone' = [k \in Keys |-> Lapsed(d, i, k)]
         /\ Seen
<1>1. /\ data' = d /\ UNCHANGED <<reader, answer>>
      /\ \A k \in Keys : d[k] # Nil => item'[d[k]] = i[d[k]]
  BY AfterBecomes DEF MemoryInv
<1>2. Content' = [k \in Keys |-> Entry(d, i, k)]
  BY <1>1 DEF Content, Entry, M!Present
<1>3. Gone' = [k \in Keys |-> Lapsed(d, i, k)]
  BY <1>1 DEF Gone, Lapsed, M!Present
<1>4. reader.key \subseteq Keys /\ (reader.key = {} => held = {})
  BY DEF MemoryInv, ReaderOK
<1>5. \A k \in reader.key : M!Value(d, i, k) = Content'[k].value
  <2>1. \A k \in Keys : Content'[k] = Entry(d, i, k)
    BY <1>2
  <2> QED
    BY <1>4, <2>1 DEF M!Value, Entry, M!Unused
<1>6. held' = held \cup {Content'[k].value : k \in reader.key}
  <2>1. held' = held \cup {M!Value(d, i, k) : k \in reader.key}
    BY DEF M!Becomes
  <2> DEFINE content == Content'
  <2>2. \A k \in reader.key : M!Value(d, i, k) = content[k].value
    BY <1>5
  <2> HIDE DEF content
  <2>3. held' = held \cup {content[k].value : k \in reader.key}
    BY <2>1, <2>2
  <2> QED
    BY <2>3 DEF content
<1>7. Seen
  BY <1>1, <1>4, <1>6 DEF Seen
<1> QED
  BY <1>2, <1>3, <1>7

\* Values from 1 stand for what is there, 0 for what is not.
LEMMA EntryTyped ==
  ASSUME NEW d, NEW i, MapOK(d, i), NEW k \in Keys
  PROVE  /\ Entry(d, i, k) \in ItemRecord /\ Lapsed(d, i, k) \in 0..MaxNumber
         /\ M!Present(d, i, k) => /\ Entry(d, i, k) = i[d[k]] /\ d[k] \in Items
                                  /\ Entry(d, i, k).value > 0 /\ Lapsed(d, i, k) = 0
         /\ ~M!Present(d, i, k) => Entry(d, i, k) = M!Unused
<1>1. d[k] # Nil => d[k] \in Items /\ i[d[k]] \in ItemRecord /\ i[d[k]].value > 0
  BY DEF MapOK
<1>2. d[k] # Nil => i[d[k]].value \in 0..MaxNumber
  BY <1>1 DEF ItemRecord
<1>3. M!Present(d, i, k) => d[k] # Nil
  BY DEF M!Present
<1>4. Entry(d, i, k) \in ItemRecord
  BY <1>1, <1>3, UnusedTyped DEF Entry
<1>5. Lapsed(d, i, k) \in 0..MaxNumber
  BY <1>2, MemoryAssumption DEF Lapsed
<1> QED
  BY <1>1, <1>3, <1>4, <1>5 DEF Entry, Lapsed

\* New items under some keys, at addresses nobody points to.
LEMMA PutNext ==
  ASSUME MemoryInv, NEW ks \in SUBSET Keys, NEW v \in M!Values,
         NEW ttl \in Ttls \cup {M!Forever},
         NEW new \in [ks -> Items \ M!InUse],
         \A j, k \in ks : new[j] = new[k] => j = k,
         NEW d \in [Keys -> Items \cup {Nil}], NEW i \in [Items -> ItemRecord],
         \A k \in ks : d[k] = new[k] /\ i[d[k]] = [value |-> v, left |-> ttl],
         \A k \in Keys \ ks : d[k] = data[k],
         \A a \in Items : (\A k \in ks : new[k] # a) => i[a] = item[a],
         M!Becomes(d, i)
  PROVE  /\ MemoryInv'
         /\ \A k \in Keys :
              /\ Content'[k] = IF k \in ks THEN M!Promise!With(v, ttl) ELSE Content[k]
              /\ Gone'[k] = IF k \in ks THEN 0 ELSE Gone[k]
         /\ Seen
<1>0. v \in 1..MaxNumber /\ ttl \in Nat \cup {M!Forever} /\ ttl # M!Expired
  <2>1. v \in 1..MaxNumber
    BY DEF M!Values
  <2>2. \A t \in Ttls : t \in Nat /\ t # -1 /\ t # -2
    BY MemoryAssumption
  <2>3. ttl \in Ttls \/ ttl = -1
    BY DEF M!Forever
  <2>4. ttl \in Nat \cup {-1} /\ ttl # -2
    BY <2>2, <2>3
  <2> QED
    BY <2>1, <2>4 DEF M!Forever, M!Expired
<1>1. /\ [value |-> v, left |-> ttl] \in ItemRecord /\ v > 0 /\ ttl # M!Expired
      /\ M!Promise!With(v, ttl) = [value |-> v, left |-> ttl]
  BY <1>0, MemoryAssumption DEF ItemRecord, M!Promise!With
<1>2. /\ \A k \in ks : new[k] \in Items /\ new[k] # Nil /\ new[k] # reader.item
      /\ \A k \in ks, j \in Keys : new[k] # data[j]
  BY MemoryAssumption DEF M!InUse
<1>3. /\ \A k \in ks : d[k] = new[k] /\ i[d[k]] = [value |-> v, left |-> ttl]
      /\ \A k \in Keys \ ks : d[k] = data[k] /\ (d[k] # Nil => i[d[k]] = item[d[k]])
      /\ reader.item # Nil => i[reader.item] = item[reader.item]
  BY <1>2 DEF MemoryInv, MapOK, ReaderOK
<1>4. MapOK(d, i)
  <2>3. ASSUME NEW j \in Keys, NEW k \in Keys, d[j] = d[k], d[j] # Nil PROVE j = k
    BY <1>2, <1>3, <2>3 DEF MemoryInv, MapOK
  <2>4. ASSUME NEW k \in Keys, d[k] # Nil PROVE i[d[k]].value > 0
    <3>1. CASE k \in ks
      BY <1>1, <1>3, <3>1
    <3>2. CASE k \notin ks
      BY <1>3, <2>4, <3>2 DEF MemoryInv, MapOK
    <3> QED
      BY <3>1, <3>2
  <2> QED
    BY <2>3, <2>4 DEF MapOK
<1>6. ASSUME NEW k \in Keys, d[k] = reader.item, reader.item # Nil PROVE k \in reader.key
  BY <1>2, <1>3, <1>6 DEF MemoryInv, ReaderOK
<1>7. MemoryInv'
  BY <1>3, <1>4, <1>6, BecomesKeeps
<1>8. ASSUME NEW k \in ks PROVE Entry(d, i, k) = M!Promise!With(v, ttl) /\ Lapsed(d, i, k) = 0
  BY <1>1, <1>2, <1>3, <1>8 DEF Entry, Lapsed, M!Present
<1>9. ASSUME NEW k \in Keys \ ks PROVE Entry(d, i, k) = Content[k] /\ Lapsed(d, i, k) = Gone[k]
  BY <1>3, <1>9 DEF Entry, Lapsed, M!Present, Content, Gone
<1>10. /\ Content' = [k \in Keys |-> Entry(d, i, k)] /\ Gone' = [k \in Keys |-> Lapsed(d, i, k)]
       /\ Seen
  BY <1>4, BecomesMaps
<1> QED
  BY <1>7, <1>8, <1>9, <1>10

LEMMA SetMaps == ASSUME MemoryInv, M!Set PROVE MemoryInv' /\ M!Promise!Set
<1>1. PICK ks \in SUBSET Keys \ {{}}, v \in M!Values, ttl \in Ttls \cup {M!Forever} :
         M!SetKeys(ks, v, ttl)
  BY DEF M!Set
<1>2. PICK new \in [ks -> Items \ M!InUse] :
         /\ \A j, k \in ks : new[j] = new[k] => j = k
         /\ M!Becomes([k \in Keys |-> IF k \in ks THEN new[k] ELSE data[k]],
                      [a \in Items |-> IF \E k \in ks : new[k] = a
                                       THEN [value |-> v, left |-> ttl] ELSE item[a]])
  BY <1>1 DEF M!SetKeys
<1> DEFINE d == [k \in Keys |-> IF k \in ks THEN new[k] ELSE data[k]]
           i == [a \in Items |-> IF \E k \in ks : new[k] = a
                                 THEN [value |-> v, left |-> ttl] ELSE item[a]]
           next == [k \in Keys |-> IF k \in ks THEN M!Promise!With(v, ttl) ELSE Content[k]]
           gone == [k \in Keys |-> IF k \in ks THEN 0 ELSE Gone[k]]
<1>3. /\ d \in [Keys -> Items \cup {Nil}] /\ i \in [Items -> ItemRecord]
      /\ \A k \in ks : d[k] = new[k] /\ i[d[k]] = [value |-> v, left |-> ttl]
      /\ \A k \in Keys \ ks : d[k] = data[k]
      /\ \A a \in Items : (\A k \in ks : new[k] # a) => i[a] = item[a]
  BY MemoryAssumption DEF MemoryInv, MapOK, ItemRecord, M!Values, M!Forever
<1>4. MemoryInv' /\ Content' = next /\ Gone' = gone /\ Seen
  <2>1. M!Becomes(d, i)
    BY <1>2
  <2> HIDE DEF d, i
  <2>2. /\ MemoryInv' /\ Seen
        /\ \A k \in Keys :
             /\ Content'[k] = IF k \in ks THEN M!Promise!With(v, ttl) ELSE Content[k]
             /\ Gone'[k] = IF k \in ks THEN 0 ELSE Gone[k]
    BY SMTT(30), <1>2, <1>3, <2>1, PutNext
  <2> QED
    BY <2>2 DEF Content, Gone
<1>5. M!Promise!Change(next)
  <2> HIDE DEF next
  <2> QED
    BY <1>4, ChangeIs DEF M!Promise!Change
<1>6. M!Promise!Set
  BY <1>4, <1>5 DEF M!Promise!Set, Content, Gone
<1> QED
  BY <1>4, <1>6

\* One new item, as SetNX and Incr make it.
LEMMA NewItemMaps ==
  ASSUME MemoryInv, NEW k \in Keys, NEW v \in M!Values, NEW ttl \in Ttls \cup {M!Forever},
         M!NewItem(k, v, ttl)
  PROVE  /\ MemoryInv'
         /\ Content' = [Content EXCEPT ![k] = M!Promise!With(v, ttl)]
         /\ Gone' = [Gone EXCEPT ![k] = 0]
         /\ Seen
<1>1. PICK new \in Items \ M!InUse :
         M!Becomes([data EXCEPT ![k] = new], [item EXCEPT ![new] = [value |-> v, left |-> ttl]])
  BY DEF M!NewItem
<1> DEFINE ks == {k}
           puts == [x \in ks |-> new]
           d == [data EXCEPT ![k] = new]
           i == [item EXCEPT ![new] = [value |-> v, left |-> ttl]]
<1>2. /\ d \in [Keys -> Items \cup {Nil}] /\ i \in [Items -> ItemRecord]
      /\ \A x \in ks : d[x] = puts[x] /\ i[d[x]] = [value |-> v, left |-> ttl]
      /\ \A x \in Keys \ ks : d[x] = data[x]
      /\ \A a \in Items : (\A x \in ks : puts[x] # a) => i[a] = item[a]
  BY MemoryAssumption DEF MemoryInv, MapOK, ItemRecord, M!Values, M!Forever
<1>3. /\ ks \in SUBSET Keys /\ puts \in [ks -> Items \ M!InUse]
      /\ \A j, x \in ks : puts[j] = puts[x] => x = j
  OBVIOUS
<1>4. M!Becomes(d, i)
  BY <1>1
<1>5. \A x \in Keys : x \in ks <=> x = k
  OBVIOUS
<1> HIDE DEF ks, puts, d, i
<1>6. /\ MemoryInv' /\ Seen
      /\ \A x \in Keys :
           /\ Content'[x] = IF x \in ks THEN M!Promise!With(v, ttl) ELSE Content[x]
           /\ Gone'[x] = IF x \in ks THEN 0 ELSE Gone[x]
  BY SMTT(30), <1>2, <1>3, <1>4, PutNext
<1> QED
  BY <1>5, <1>6 DEF Content, Gone

\* What a Get would answer is the value of the entry.
LEMMA ValueOfEntry ==
  ASSUME NEW k \in Keys
  PROVE  M!Value(data, item, k) = Content[k].value
  BY DEF M!Value, Content, M!Unused

LEMMA SetNXMaps == ASSUME MemoryInv, M!SetNX PROVE MemoryInv' /\ M!Promise!SetNX
<1>1. PICK k \in Keys, v \in M!Values, ttl \in Ttls \cup {M!Forever} :
         ~M!Present(data, item, k) /\ M!NewItem(k, v, ttl)
  BY DEF M!SetNX
<1>2. /\ MemoryInv'
      /\ Content' = [Content EXCEPT ![k] = M!Promise!With(v, ttl)]
      /\ Gone' = [Gone EXCEPT ![k] = 0]
      /\ Seen
  BY <1>1, NewItemMaps
<1>3. Content[k].value = 0
  BY <1>1 DEF Content, M!Unused
<1> DEFINE next == [Content EXCEPT ![k] = M!Promise!With(v, ttl)]
<1>4. M!Promise!Change(next)
  <2>1. Content' = next
    BY <1>2
  <2> HIDE DEF next
  <2> QED
    BY <1>2, <2>1, ChangeIs DEF M!Promise!Change
<1>5. M!Promise!SetNX
  BY <1>2, <1>3, <1>4 DEF M!Promise!SetNX, Content, Gone
<1> QED
  BY <1>2, <1>5

LEMMA IncrMaps == ASSUME MemoryInv, M!Incr PROVE MemoryInv' /\ M!Promise!Incr
<1>1. PICK k \in Keys : /\ M!Value(data, item, k) < MaxNumber
                        /\ M!NewItem(k, M!Value(data, item, k) + 1, M!Forever)
  BY DEF M!Incr
<1>2. M!Value(data, item, k) \in 0..MaxNumber
  BY EntryTyped DEF MemoryInv, Entry, Content, M!Value, ItemRecord, M!Unused
<1>3. M!Value(data, item, k) + 1 \in M!Values
  BY <1>1, <1>2, MemoryAssumption DEF M!Values
<1>4. /\ MemoryInv'
      /\ Content' = [Content EXCEPT
                        ![k] = M!Promise!With(M!Value(data, item, k) + 1, M!Forever)]
      /\ Gone' = [Gone EXCEPT ![k] = 0]
      /\ Seen
  BY <1>1, <1>3, NewItemMaps
<1> DEFINE next == [Content EXCEPT ![k] = M!Promise!With(@.value + 1, M!Forever)]
<1>5. Content' = next
  BY <1>4, ValueOfEntry DEF Content
<1>6. M!Promise!Change(next)
  <2> HIDE DEF next
  <2> QED
    BY <1>4, <1>5, ChangeIs DEF M!Promise!Change
<1>7. M!Promise!Incr
  BY <1>4, <1>6 DEF M!Promise!Incr, Content, Gone
<1> QED
  BY <1>4, <1>7

\* Some keys lose their items.
LEMMA DropNext ==
  ASSUME MemoryInv, NEW ks \in SUBSET Keys, NEW d \in [Keys -> Items \cup {Nil}],
         \A k \in ks : d[k] = Nil, \A k \in Keys \ ks : d[k] = data[k],
         M!Becomes(d, item)
  PROVE  /\ MemoryInv'
         /\ \A k \in Keys :
              /\ Content'[k] = IF k \in ks THEN M!Promise!None ELSE Content[k]
              /\ Gone'[k] = IF k \in ks THEN 0 ELSE Gone[k]
         /\ Seen
<1>1. MapOK(d, item)
  BY DEF MemoryInv, MapOK
<1>2. ASSUME NEW k \in Keys, d[k] = reader.item, reader.item # Nil PROVE k \in reader.key
  BY <1>2 DEF MemoryInv, ReaderOK
<1>3. MemoryInv'
  BY <1>1, <1>2, BecomesKeeps
<1>4. M!Promise!None = M!Unused
  BY DEF M!Promise!None, M!Unused
<1>5. ASSUME NEW k \in ks PROVE Entry(d, item, k) = M!Promise!None /\ Lapsed(d, item, k) = 0
  BY <1>4, <1>5 DEF Entry, Lapsed, M!Present
<1>6. ASSUME NEW k \in Keys \ ks
      PROVE  Entry(d, item, k) = Content[k] /\ Lapsed(d, item, k) = Gone[k]
  BY <1>6 DEF Entry, Lapsed, M!Present, Content, Gone
<1>7. /\ Content' = [k \in Keys |-> Entry(d, item, k)]
      /\ Gone' = [k \in Keys |-> Lapsed(d, item, k)]
      /\ Seen
  BY <1>1, BecomesMaps
<1> QED
  BY <1>3, <1>5, <1>6, <1>7

LEMMA DeleteMaps == ASSUME MemoryInv, M!Delete PROVE MemoryInv' /\ M!Promise!Delete
<1>1. PICK ks \in SUBSET Keys : M!DeleteKeys(ks)
  BY DEF M!Delete
<1> DEFINE d == [k \in Keys |-> IF k \in ks THEN Nil ELSE data[k]]
           next == [k \in Keys |-> IF k \in ks THEN M!Promise!None ELSE Content[k]]
           gone == [k \in Keys |-> IF k \in ks THEN 0 ELSE Gone[k]]
<1>2. /\ d \in [Keys -> Items \cup {Nil}]
      /\ \A k \in ks : d[k] = Nil
      /\ \A k \in Keys \ ks : d[k] = data[k]
  BY DEF MemoryInv, MapOK
<1>3. M!Becomes(d, item)
  BY <1>1 DEF M!DeleteKeys
<1>4. /\ MemoryInv' /\ Seen
      /\ \A k \in Keys :
           /\ Content'[k] = IF k \in ks THEN M!Promise!None ELSE Content[k]
           /\ Gone'[k] = IF k \in ks THEN 0 ELSE Gone[k]
  <2> HIDE DEF d
  <2> QED
    BY <1>2, <1>3, DropNext
<1>5. Content' = next /\ Gone' = gone
  BY <1>4 DEF Content, Gone
<1>6. M!Promise!Change(next)
  <2> HIDE DEF next
  <2> QED
    BY <1>4, <1>5, ChangeIs DEF M!Promise!Change
<1>7. M!Promise!Delete
  BY <1>5, <1>6 DEF M!Promise!Delete, Content, Gone
<1> QED
  BY <1>4, <1>7

\* The sweep only takes away what no caller could see.
LEMMA CleanupMaps == ASSUME MemoryInv, M!Cleanup PROVE MemoryInv' /\ M!Promise!Forget
<1> DEFINE d == [k \in Keys |-> IF M!Present(data, item, k) THEN data[k] ELSE Nil]
           ks == {k \in Keys : ~M!Present(data, item, k)}
           gone == [k \in Keys |-> IF k \in Keys THEN 0 ELSE Gone[k]]
<1>1. /\ d \in [Keys -> Items \cup {Nil}] /\ ks \in SUBSET Keys
      /\ \A k \in ks : d[k] = Nil
      /\ \A k \in Keys \ ks : d[k] = data[k]
  BY DEF MemoryInv, MapOK
<1>2. M!Becomes(d, item)
  BY DEF M!Cleanup
<1>3. /\ MemoryInv' /\ Seen
      /\ \A k \in Keys :
           /\ Content'[k] = IF k \in ks THEN M!Promise!None ELSE Content[k]
           /\ Gone'[k] = IF k \in ks THEN 0 ELSE Gone[k]
  <2> HIDE DEF d, ks
  <2> QED
    BY <1>1, <1>2, DropNext
<1>4. \A k \in ks : Content[k] = M!Promise!None
  BY DEF Content, M!Promise!None, M!Unused
<1>5. \A k \in Keys \ ks : Gone[k] = 0
  BY DEF Gone
<1>6. Content' = Content
  BY <1>3, <1>4 DEF Content
<1>7. Gone' = gone
  BY <1>3, <1>5 DEF Gone
<1>8. held' = held
  <2>1. reader.key \subseteq Keys /\ (reader.key = {} => held = {})
    BY DEF MemoryInv, ReaderOK
  <2>2. \A k \in reader.key : Content[k].value \in held
    BY <2>1, ValueOfEntry DEF MemoryInv, ReaderOK
  <2>3. held' = IF reader.key = {} THEN {} ELSE held \cup {Content'[k].value : k \in reader.key}
    BY <1>3 DEF Seen
  <2>4. {Content'[k].value : k \in reader.key} \subseteq held
    BY <1>6, <2>2
  <2> QED
    BY <2>1, <2>3, <2>4
<1>9. UNCHANGED <<reader.key, answer>>
  BY <1>3 DEF Seen
<1>10. Keys \in SUBSET Keys
  OBVIOUS
<1>11. M!Promise!Forget
  BY <1>6, <1>7, <1>8, <1>9, <1>10 DEF M!Promise!Forget, Content, Gone
<1> QED
  BY <1>3, <1>11

\* A new term for an item, from which it follows that it does not have expired.
LEMMA RenewMaps ==
  ASSUME MemoryInv, NEW k \in Keys, NEW ttl \in Ttls, M!ExpireKey(k, ttl)
  PROVE  MemoryInv' /\ M!Promise!Expire
<1>1. /\ data[k] # Nil
      /\ M!Becomes(data, [item EXCEPT ![data[k]].left = ttl])
  BY DEF M!ExpireKey
<1> DEFINE renewed == [item[data[k]] EXCEPT !.left = ttl]
           i == [item EXCEPT ![data[k]] = renewed]
           next == [Content EXCEPT ![k] = M!Promise!With(Content[k].value + Gone[k], ttl)]
           gone == [Gone EXCEPT ![k] = 0]
<1>2. /\ data[k] \in Items /\ item \in [Items -> ItemRecord]
      /\ item[data[k]] \in ItemRecord /\ item[data[k]].value > 0
      /\ \A j \in Keys : data[j] = data[k] => j = k
  BY <1>1 DEF MemoryInv, MapOK
<1>3. /\ renewed \in ItemRecord /\ renewed.value = item[data[k]].value /\ renewed.left = ttl
      /\ ttl # M!Expired
  BY <1>2, MemoryAssumption DEF ItemRecord, M!Expired
<1> HIDE DEF renewed
<1>4. /\ i \in [Items -> ItemRecord] /\ i[data[k]] = renewed
      /\ \A a \in Items : a # data[k] => i[a] = item[a]
  BY <1>2, <1>3
<1>5. M!Becomes(data, i)
  BY <1>1 DEF renewed
<1> HIDE DEF i
<1>6. MapOK(data, i)
  BY <1>2, <1>3, <1>4 DEF MemoryInv, MapOK
<1>7. ASSUME reader.item # Nil
      PROVE  /\ i[reader.item].value = item[reader.item].value
             /\ item[reader.item].left = M!Expired /\ i[reader.item].left # M!Expired
                   => \E x \in reader.key : data[x] = reader.item
             /\ \A x \in Keys : data[x] = reader.item => x \in reader.key
  BY <1>3, <1>4, <1>7 DEF MemoryInv, ReaderOK
<1>8. MemoryInv'
  BY <1>5, <1>6, <1>7, BecomesKeeps
<1>9. Content[k].value + Gone[k] = item[data[k]].value
  BY <1>1, <1>2 DEF Content, Gone, M!Unused, ItemRecord
<1>10. M!Promise!With(Content[k].value + Gone[k], ttl) = renewed
  BY <1>2, <1>9 DEF M!Promise!With, renewed, ItemRecord
<1>11. Entry(data, i, k) = renewed /\ Lapsed(data, i, k) = 0
  BY <1>1, <1>3, <1>4 DEF Entry, Lapsed, M!Present
<1>12. ASSUME NEW j \in Keys, j # k
       PROVE  Entry(data, i, j) = Content[j] /\ Lapsed(data, i, j) = Gone[j]
  <2>1. data[j] # Nil => i[data[j]] = item[data[j]]
    BY <1>2, <1>4, <1>12 DEF MemoryInv, MapOK
  <2> QED
    BY <2>1 DEF Entry, Lapsed, M!Present, Content, Gone
<1>13. /\ Content' = [j \in Keys |-> Entry(data, i, j)]
       /\ Gone' = [j \in Keys |-> Lapsed(data, i, j)]
       /\ Seen
  BY <1>5, <1>6, BecomesMaps
<1>14. Content' = next /\ Gone' = gone
  <2>1. next = [j \in Keys |-> Entry(data, i, j)]
    BY <1>10, <1>11, <1>12 DEF Content
  <2>2. gone = [j \in Keys |-> Lapsed(data, i, j)]
    BY <1>11, <1>12 DEF Gone
  <2> QED
    BY <1>13, <2>1, <2>2
<1>15. M!Promise!Change(next)
  <2> HIDE DEF next
  <2> QED
    BY <1>13, <1>14, ChangeIs DEF M!Promise!Change
<1>16. Content[k].value + Gone[k] > 0
  BY <1>2, <1>9
<1>17. M!Promise!Expire
  BY <1>14, <1>15, <1>16 DEF M!Promise!Expire, Content, Gone
<1> QED
  BY <1>8, <1>17

\* The same for a term that is over at once.
LEMMA LapseMaps ==
  ASSUME MemoryInv, NEW k \in Keys, M!ExpireKey(k, M!Expired)
  PROVE  MemoryInv' /\ M!Promise!Lapse
<1>1. /\ data[k] # Nil
      /\ M!Becomes(data, [item EXCEPT ![data[k]].left = M!Expired])
  BY DEF M!ExpireKey
<1> DEFINE renewed == [item[data[k]] EXCEPT !.left = M!Expired]
           i == [item EXCEPT ![data[k]] = renewed]
           next == [Content EXCEPT ![k] = M!Promise!None]
           gone == [Gone EXCEPT ![k] = Content[k].value + Gone[k]]
<1>2. /\ data[k] \in Items /\ item \in [Items -> ItemRecord]
      /\ item[data[k]] \in ItemRecord /\ item[data[k]].value > 0
      /\ \A j \in Keys : data[j] = data[k] => j = k
  BY <1>1 DEF MemoryInv, MapOK
<1>3. /\ renewed \in ItemRecord /\ renewed.value = item[data[k]].value /\ renewed.left = M!Expired
  BY <1>2, MemoryAssumption DEF ItemRecord, M!Expired
<1> HIDE DEF renewed
<1>4. /\ i \in [Items -> ItemRecord] /\ i[data[k]] = renewed
      /\ \A a \in Items : a # data[k] => i[a] = item[a]
  BY <1>2, <1>3
<1>5. M!Becomes(data, i)
  BY <1>1 DEF renewed
<1> HIDE DEF i
<1>6. MapOK(data, i)
  BY <1>2, <1>3, <1>4 DEF MemoryInv, MapOK
<1>7. ASSUME reader.item # Nil
      PROVE  /\ i[reader.item].value = item[reader.item].value
             /\ item[reader.item].left = M!Expired /\ i[reader.item].left # M!Expired
                   => \E x \in reader.key : data[x] = reader.item
             /\ \A x \in Keys : data[x] = reader.item => x \in reader.key
  BY <1>3, <1>4, <1>7 DEF MemoryInv, ReaderOK
<1>8. MemoryInv'
  BY <1>5, <1>6, <1>7, BecomesKeeps
<1>9. Content[k].value + Gone[k] = item[data[k]].value
  BY <1>1, <1>2 DEF Content, Gone, M!Unused, ItemRecord
<1>11. Entry(data, i, k) = M!Promise!None /\ Lapsed(data, i, k) = Content[k].value + Gone[k]
  BY <1>1, <1>3, <1>4, <1>9 DEF Entry, Lapsed, M!Present, M!Unused, M!Promise!None
<1>12. ASSUME NEW j \in Keys, j # k
       PROVE  Entry(data, i, j) = Content[j] /\ Lapsed(data, i, j) = Gone[j]
  <2>1. data[j] # Nil => i[data[j]] = item[data[j]]
    BY <1>2, <1>4, <1>12 DEF MemoryInv, MapOK
  <2> QED
    BY <2>1 DEF Entry, Lapsed, M!Present, Content, Gone
<1>13. /\ Content' = [j \in Keys |-> Entry(data, i, j)]
       /\ Gone' = [j \in Keys |-> Lapsed(data, i, j)]
       /\ Seen
  BY <1>5, <1>6, BecomesMaps
<1>14. Content' = next /\ Gone' = gone
  <2>1. next = [j \in Keys |-> Entry(data, i, j)]
    BY <1>11, <1>12 DEF Content
  <2>2. gone = [j \in Keys |-> Lapsed(data, i, j)]
    BY <1>11, <1>12 DEF Gone
  <2> QED
    BY <1>13, <2>1, <2>2
<1>15. M!Promise!Change(next)
  <2> HIDE DEF next
  <2> QED
    BY <1>13, <1>14, ChangeIs DEF M!Promise!Change
<1>16. Content[k].value + Gone[k] > 0
  BY <1>2, <1>9
<1>17. M!Promise!Lapse
  BY <1>14, <1>15, <1>16 DEF M!Promise!Lapse, Content, Gone
<1> QED
  BY <1>8, <1>17

LEMMA ExpireMaps ==
  ASSUME MemoryInv, M!Expire
  PROVE  MemoryInv' /\ (M!Promise!Expire \/ M!Promise!Lapse)
BY RenewMaps, LapseMaps DEF M!Expire

\* The read that is under way has its key still pointing at the item: the new term
\* is one the caller of Expire gave it, and the read has no other answer than none.
LEMMA ExpireTornMaps == ASSUME MemoryInv, M!ExpireTorn PROVE MemoryInv' /\ M!Promise!Expire
<1>1. PICK ttl \in Ttls :
         /\ reader.at = "test" /\ \E k \in reader.key : data[k] = reader.item
         /\ reader.item # Nil /\ item[reader.item].left = M!Forever
         /\ item' = [item EXCEPT ![reader.item].left = ttl]
         /\ reader' = [reader EXCEPT !.at = "torn"]
         /\ UNCHANGED <<data, held, answer>>
  BY DEF M!ExpireTorn
<1>2. PICK k \in reader.key : data[k] = reader.item
  BY <1>1
<1> DEFINE renewed == [item[data[k]] EXCEPT !.left = ttl]
           next == [Content EXCEPT ![k] = M!Promise!With(Content[k].value + Gone[k], ttl)]
           gone == [Gone EXCEPT ![k] = 0]
<1>3. /\ k \in Keys /\ reader.key = {k} /\ data[k] # Nil
      /\ data[k] \in Items /\ item \in [Items -> ItemRecord]
      /\ item[data[k]] \in ItemRecord /\ item[data[k]].value > 0
      /\ \A j \in Keys : data[j] = data[k] => j = k
      /\ M!Value(data, item, k) \in held
  BY <1>1, <1>2 DEF MemoryInv, MapOK, ReaderOK
<1>4. /\ renewed \in ItemRecord /\ renewed.value = item[data[k]].value /\ renewed.left = ttl
      /\ ttl # M!Expired
  BY <1>3, MemoryAssumption DEF ItemRecord, M!Expired
<1>5. item' = [item EXCEPT ![data[k]] = renewed]
  BY <1>1, <1>2
<1> HIDE DEF renewed
<1>6. /\ item' \in [Items -> ItemRecord] /\ item'[data[k]] = renewed
      /\ \A a \in Items : a # data[k] => item'[a] = item[a]
  BY <1>3, <1>4, <1>5
<1>7. M!Present(data, item, k)
  BY <1>1, <1>2, <1>3, UnusedTyped DEF M!Present
<1>8. item[data[k]].value \in held
  BY <1>3, <1>7 DEF M!Value
<1>9. MapOK(data', item')
  BY <1>1, <1>3, <1>4, <1>6 DEF MemoryInv, MapOK
<1>10. ReaderOK'
  <2>1. M!Value(data', item', k) \in held'
    BY <1>1, <1>3, <1>4, <1>6, <1>8 DEF M!Value, M!Present
  <2>2. reader'.key = {k} /\ reader'.at = "torn" /\ reader'.item = data[k]
    BY <1>1, <1>2, <1>3 DEF MemoryInv, ReaderOK
  <2>3. reader' \in [key : SUBSET Keys, at : {"idle", "test", "torn"}, item : Items \cup {Nil}]
    BY <1>1 DEF MemoryInv, ReaderOK
  <2>4. \A x \in reader'.key : M!Value(data, item, x)' \in held'
    BY <2>1, <2>2 DEF M!Value, M!Present
  <2>5. \A x \in Keys : data'[x] = reader'.item => x \in reader'.key
    BY <1>1, <1>3, <2>2
  <2> QED
    BY <1>3, <2>2, <2>3, <2>4, <2>5 DEF ReaderOK
<1>11. MemoryInv'
  BY <1>9, <1>10 DEF MemoryInv, MapOK
<1>12. Content[k].value + Gone[k] = item[data[k]].value
  BY <1>3, <1>7 DEF Content, Gone, ItemRecord
<1>13. M!Promise!With(Content[k].value + Gone[k], ttl) = renewed
  BY <1>3, <1>12 DEF M!Promise!With, renewed, ItemRecord
<1>14. Content'[k] = renewed /\ Gone'[k] = 0
  BY <1>1, <1>3, <1>4, <1>6 DEF Content, Gone, M!Present
<1>15. ASSUME NEW j \in Keys, j # k PROVE Content'[j] = Content[j] /\ Gone'[j] = Gone[j]
  <2>1. data[j] # Nil => item'[data[j]] = item[data[j]]
    BY <1>3, <1>6, <1>15 DEF MemoryInv, MapOK
  <2>2. data' = data
    BY <1>1
  <2>3. CASE data[j] = Nil
    BY <2>2, <2>3 DEF M!Present, Content, Gone
  <2>4. CASE data[j] # Nil
    BY <2>1, <2>2, <2>4 DEF M!Present, Content, Gone
  <2> QED
    BY <2>3, <2>4
<1>16. Content' = next /\ Gone' = gone
  BY <1>13, <1>14, <1>15 DEF Content, Gone
<1>17. Seen
  <2>1. held' = held \cup {Content'[x].value : x \in {k}}
    BY <1>1, <1>4, <1>8, <1>14
  <2>2. reader'.key = reader.key
    BY <1>1 DEF MemoryInv, ReaderOK
  <2> QED
    BY <1>1, <1>3, <2>1, <2>2 DEF Seen
<1>18. M!Promise!Change(next)
  <2> HIDE DEF next
  <2> QED
    BY <1>16, <1>17, ChangeIs DEF M!Promise!Change
<1>19. Content[k].value + Gone[k] > 0
  BY <1>3, <1>12
<1>20. M!Promise!Expire
  BY <1>3, <1>16, <1>18, <1>19 DEF M!Promise!Expire, Content, Gone
<1> QED
  BY <1>11, <1>20

LEMMA TickMaps == ASSUME MemoryInv, M!Tick PROVE MemoryInv' /\ M!Promise!Tick
<1> DEFINE older(left) == CASE left \in {M!Forever, M!Expired} -> left
                            [] left = 0 -> M!Expired
                            [] OTHER -> left - 1
           i == [a \in Items |-> [item[a] EXCEPT !.left = older(@)]]
           next == [k \in Keys |->
                      IF Content[k].left = M!Forever THEN Content[k]
                      ELSE IF Content[k].left = 0 THEN M!Promise!None
                      ELSE M!Promise!With(Content[k].value, Content[k].left - 1)]
           gone == [k \in Keys |-> IF Content[k].left = 0 THEN Content[k].value ELSE Gone[k]]
<1>1. M!Becomes(data, i)
  BY DEF M!Tick
<1>2. item \in [Items -> ItemRecord]
  BY DEF MemoryInv, MapOK
<1>3. ASSUME NEW left \in Nat \cup {M!Forever, M!Expired}
      PROVE  /\ older(left) \in Nat \cup {M!Forever, M!Expired}
             /\ left = M!Expired <=> older(left) = M!Expired /\ left # 0
             /\ left = M!Forever => older(left) = M!Forever
             /\ left = 0 => older(left) = M!Expired
             /\ left \notin {M!Forever, M!Expired, 0} => older(left) = left - 1
  BY <1>3 DEF M!Forever, M!Expired
<1> HIDE DEF older
<1>4. ASSUME NEW a \in Items
      PROVE  /\ item[a] \in ItemRecord /\ i[a] \in ItemRecord
             /\ i[a].value = item[a].value /\ i[a].left = older(item[a].left)
             /\ i[a] = [value |-> item[a].value, left |-> older(item[a].left)]
  <2>1. item[a] \in ItemRecord
    BY <1>2
  <2>2. item[a].left \in Nat \cup {M!Forever, M!Expired}
    BY <2>1 DEF ItemRecord
  <2>3. older(item[a].left) \in Nat \cup {M!Forever, M!Expired}
    BY <1>3, <2>2
  <2>4. i[a] = [item[a] EXCEPT !.left = older(item[a].left)]
    OBVIOUS
  <2> HIDE DEF i
  <2> QED
    BY <2>1, <2>3, <2>4 DEF ItemRecord
<1>5. i \in [Items -> ItemRecord]
  <2>1. \A a \in Items : i[a] \in ItemRecord
    BY <1>4
  <2> QED
    BY <2>1
<1> HIDE DEF i
<1>6. MapOK(data, i)
  BY <1>4, <1>5 DEF MemoryInv, MapOK
<1>7. \A a \in Items : item[a].left = M!Expired => i[a].left = M!Expired
  BY <1>3, <1>4 DEF ItemRecord
<1>8. MemoryInv'
  BY <1>1, <1>4, <1>6, <1>7, BecomesKeeps DEF MemoryInv, ReaderOK
<1>9. ASSUME NEW k \in Keys
      PROVE  Entry(data, i, k) = next[k] /\ Lapsed(data, i, k) = gone[k]
  <2>1. CASE data[k] = Nil
    <3>1. Content[k] = M!Unused /\ Gone[k] = 0
      BY <2>1 DEF Content, Gone, M!Present
    <3>2. Entry(data, i, k) = M!Unused /\ Lapsed(data, i, k) = 0
      BY <2>1 DEF Entry, Lapsed, M!Present
    <3> QED
      BY <3>1, <3>2 DEF M!Unused, M!Forever
  <2>2. CASE data[k] # Nil
    <3> DEFINE a == data[k]
    <3>1. a \in Items
      BY <2>2 DEF MemoryInv, MapOK
    <3>2. /\ item[a].left \in Nat \cup {M!Forever, M!Expired}
          /\ item[a] = [value |-> item[a].value, left |-> item[a].left]
      BY <1>4, <3>1 DEF ItemRecord
    <3>3. /\ M!Present(data, item, k) <=> item[a].left # M!Expired
          /\ M!Present(data, i, k) <=> older(item[a].left) # M!Expired
      BY <1>4, <2>2, <3>1 DEF M!Present
    <3>4. CASE item[a].left = M!Expired
      <4>1. ~M!Present(data, item, k) /\ ~M!Present(data, i, k)
        BY <1>3, <3>2, <3>3, <3>4
      <4>2. Content[k] = M!Unused /\ Gone[k] = item[a].value
        BY <2>2, <4>1 DEF Content, Gone
      <4>3. Entry(data, i, k) = M!Unused /\ Lapsed(data, i, k) = item[a].value
        BY <1>4, <2>2, <3>1, <4>1 DEF Entry, Lapsed
      <4>4. next[k] = M!Unused /\ gone[k] = Gone[k]
        BY <4>2 DEF M!Unused, M!Forever
      <4> QED
        BY <4>2, <4>3, <4>4
    <3>5. CASE item[a].left = 0
      <4>1. M!Present(data, item, k) /\ ~M!Present(data, i, k)
        BY <1>3, <3>2, <3>3, <3>5 DEF M!Expired
      <4>2. Content[k] = item[a]
        BY <4>1 DEF Content
      <4>3. Entry(data, i, k) = M!Unused /\ Lapsed(data, i, k) = item[a].value
        BY <1>4, <2>2, <3>1, <4>1 DEF Entry, Lapsed
      <4> QED
        BY <3>5, <4>2, <4>3 DEF M!Promise!None, M!Unused, M!Forever
    <3>6. CASE item[a].left = M!Forever
      <4>1. M!Present(data, item, k) /\ M!Present(data, i, k)
        BY <1>3, <3>2, <3>3, <3>6, UnusedTyped
      <4>2. Content[k] = item[a] /\ Gone[k] = 0
        BY <4>1 DEF Content, Gone
      <4>3. Entry(data, i, k) = item[a] /\ Lapsed(data, i, k) = 0
        BY <1>3, <1>4, <3>1, <3>2, <3>6, <4>1 DEF Entry, Lapsed
      <4> QED
        BY <3>6, <4>2, <4>3 DEF M!Forever
    <3>7. CASE item[a].left \notin {M!Forever, M!Expired, 0}
      <4>1. older(item[a].left) = item[a].left - 1 /\ item[a].left \in Nat \ {0}
        BY <1>3, <3>2, <3>7
      <4>2. M!Present(data, item, k) /\ M!Present(data, i, k)
        BY <3>3, <3>7, <4>1 DEF M!Expired
      <4>3. Content[k] = item[a] /\ Gone[k] = 0
        BY <4>2 DEF Content, Gone
      <4>4. Entry(data, i, k) = M!Promise!With(item[a].value, item[a].left - 1)
        BY <1>4, <3>1, <4>1, <4>2 DEF Entry, M!Promise!With
      <4>5. Lapsed(data, i, k) = 0
        BY <4>2 DEF Lapsed
      <4> QED
        BY <3>7, <4>3, <4>4, <4>5
    <3> QED
      BY <3>4, <3>5, <3>6, <3>7
  <2> QED
    BY <2>1, <2>2
<1>10. /\ Content' = [k \in Keys |-> Entry(data, i, k)]
       /\ Gone' = [k \in Keys |-> Lapsed(data, i, k)]
       /\ Seen
  BY <1>1, <1>6, BecomesMaps
<1>11. Content' = next /\ Gone' = gone
  <2>1. next = [k \in Keys |-> Entry(data, i, k)]
    BY <1>9
  <2>2. gone = [k \in Keys |-> Lapsed(data, i, k)]
    BY <1>9
  <2> QED
    BY <1>10, <2>1, <2>2
<1>12. M!Promise!Change(next)
  <2> HIDE DEF next
  <2> QED
    BY <1>10, <1>11, ChangeIs DEF M!Promise!Change
<1>13. M!Promise!Tick
  BY <1>11, <1>12 DEF M!Promise!Tick, Content, Gone
<1> QED
  BY <1>8, <1>13

LEMMA LookupMaps == ASSUME MemoryInv, M!Lookup PROVE MemoryInv' /\ M!Promise!Begin
<1>1. PICK k \in Keys :
         /\ reader.at = "idle"
         /\ reader' = [key |-> {k}, at |-> "test", item |-> data[k]]
         /\ held' = {M!Value(data, item, k)}
         /\ answer' = <<>>
         /\ UNCHANGED <<data, item>>
  BY DEF M!Lookup
<1>2. /\ data[k] \in Items \cup {Nil}
      /\ \A j \in Keys : data[j] = data[k] /\ data[j] # Nil => j = k
      /\ reader.key = {}
  BY <1>1 DEF MemoryInv, MapOK, ReaderOK
<1>3. data[k] # Nil /\ item[data[k]].left # M!Expired => item[data[k]].value \in held'
  BY <1>1 DEF M!Value, M!Present
<1>4. \A x \in reader'.key : M!Value(data, item, x)' \in held'
  BY <1>1 DEF M!Value, M!Present
<1>5. ReaderOK'
  BY <1>1, <1>2, <1>3, <1>4 DEF ReaderOK
<1>6. MemoryInv'
  BY <1>1, <1>5 DEF MemoryInv, MapOK
<1>7. Content' = Content /\ Gone' = Gone
  BY <1>1 DEF Content, Gone, M!Present
<1>8. held' = {Content[k].value}
  BY <1>1, ValueOfEntry
<1>9. M!Promise!Begin
  BY <1>1, <1>2, <1>7, <1>8 DEF M!Promise!Begin, Content, Gone
<1> QED
  BY <1>6, <1>9

\* The read that took its pointer before answers what its key had, or none.
LEMMA TestMaps == ASSUME MemoryInv, M!Test PROVE MemoryInv' /\ M!Promise!End
<1> DEFINE v == IF \/ reader.item = Nil \/ reader.at = "torn"
                   \/ item[reader.item].left = M!Expired
                THEN 0 ELSE item[reader.item].value
           used == {data[k] : k \in Keys}
<1>1. /\ reader.at # "idle"
      /\ answer' = [k \in reader.key |-> v]
      /\ reader' = M!NoRead /\ held' = {}
      /\ item' = [a \in Items |-> IF a \in used THEN item[a] ELSE M!Unused]
      /\ UNCHANGED data
  BY DEF M!Test, M!Answers
<1>2. PICK k \in Keys : reader.key = {k}
  BY <1>1 DEF MemoryInv, ReaderOK
<1>3. v \in held \cup {0}
  BY <1>1 DEF MemoryInv, ReaderOK
<1> HIDE DEF v
<1>4. \A j \in Keys : data[j] # Nil => data[j] \in Items /\ data[j] \in used
  BY DEF MemoryInv, MapOK
<1> HIDE DEF used
<1>5. /\ item' \in [Items -> ItemRecord]
      /\ \A j \in Keys : data[j] # Nil => item'[data[j]] = item[data[j]]
  BY <1>1, <1>4, UnusedTyped DEF MemoryInv, MapOK
<1>6. MapOK(data', item')
  BY <1>1, <1>5 DEF MemoryInv, MapOK
<1>7. ReaderOK'
  BY <1>1 DEF ReaderOK, M!NoRead
<1>8. MemoryInv'
  BY <1>6, <1>7 DEF MemoryInv, MapOK
<1>9. Content' = Content /\ Gone' = Gone
  BY <1>1, <1>5 DEF Content, Gone, M!Present
<1>10. answer' = [x \in {k} |-> v] /\ reader'.key = {}
  BY <1>1, <1>2 DEF M!NoRead
<1>11. M!Promise!End
  BY <1>1, <1>2, <1>3, <1>9, <1>10 DEF M!Promise!End, Content, Gone
<1> QED
  BY <1>8, <1>11

LEMMA MGetMaps == ASSUME MemoryInv, M!MGet PROVE MemoryInv' /\ M!Promise!MGet
<1>1. PICK late \in SUBSET {k \in Keys : data[k] # Nil /\ item[data[k]].left = 0} :
         /\ reader.at = "idle"
         /\ answer' = [k \in Keys |-> IF k \in late THEN 0 ELSE M!Value(data, item, k)]
         /\ UNCHANGED <<data, item, reader, held>>
  BY DEF M!MGet
<1>2. MemoryInv'
  BY <1>1 DEF MemoryInv, MapOK, ReaderOK, M!Value, M!Present
<1>3. reader.key = {}
  BY <1>1 DEF MemoryInv, ReaderOK
<1>4. answer' = [k \in Keys |-> IF k \in late THEN 0 ELSE Content[k].value]
  BY <1>1, ValueOfEntry
<1>5. Content' = Content /\ Gone' = Gone
  BY <1>1 DEF Content, Gone, M!Present
<1>6. late \in SUBSET {k \in Keys : Content[k].left = 0}
  <2>1. ASSUME NEW k \in late PROVE k \in Keys /\ Content[k].left = 0
    BY <1>1 DEF Content, M!Present, M!Expired
  <2> QED
    BY <2>1
<1>7. M!Promise!MGet
  BY <1>1, <1>3, <1>4, <1>5, <1>6 DEF M!Promise!MGet, Content, Gone
<1> QED
  BY <1>2, <1>7

LEMMA MemoryStays ==
  ASSUME MemoryInv, UNCHANGED M!vars
  PROVE  MemoryInv' /\ UNCHANGED M!Promise!vars
<1>1. UNCHANGED <<data, item, reader, held, answer>>
  BY DEF M!vars
<1>2. MemoryInv'
  BY <1>1 DEF MemoryInv, MapOK, ReaderOK, M!Value, M!Present
<1>3. UNCHANGED M!Promise!vars
  BY <1>1 DEF M!Promise!vars, M!Present
<1> QED
  BY <1>2, <1>3

LEMMA MemoryNext ==
  MemoryInv /\ [M!Next]_(M!vars) => MemoryInv' /\ [M!Promise!Next]_(M!Promise!vars)
<1> SUFFICES ASSUME MemoryInv, [M!Next]_(M!vars)
             PROVE  MemoryInv' /\ [M!Promise!Next]_(M!Promise!vars)
  OBVIOUS
<1>1. CASE M!Set
  BY <1>1, SetMaps DEF M!Promise!Next
<1>2. CASE M!SetNX
  BY <1>2, SetNXMaps DEF M!Promise!Next
<1>3. CASE M!Incr
  BY <1>3, IncrMaps DEF M!Promise!Next
<1>4. CASE M!Delete
  BY <1>4, DeleteMaps DEF M!Promise!Next
<1>5. CASE M!Expire
  BY <1>5, ExpireMaps DEF M!Promise!Next
<1>6. CASE M!ExpireTorn
  BY <1>6, ExpireTornMaps DEF M!Promise!Next
<1>7. CASE M!Cleanup
  BY <1>7, CleanupMaps DEF M!Promise!Next
<1>8. CASE M!Tick
  BY <1>8, TickMaps DEF M!Promise!Next
<1>9. CASE M!Lookup
  BY <1>9, LookupMaps DEF M!Promise!Next
<1>10. CASE M!Test
  BY <1>10, TestMaps DEF M!Promise!Next
<1>11. CASE M!MGet
  BY <1>11, MGetMaps DEF M!Promise!Next
<1>12. CASE UNCHANGED M!vars
  BY <1>12, MemoryStays
<1> QED
  BY <1>1, <1>2, <1>3, <1>4, <1>5, <1>6, <1>7, <1>8, <1>9, <1>10, <1>11, <1>12 DEF M!Next

-----------------------------------------------------------------------------
(* The composition: a step of one part leaves the variables of the others. *)

LEMMA WatchSteps == [BackgroundNext]_<<part, vars, memoryVars, hookVars>> => [Next]_vars
<1> SUFFICES ASSUME BackgroundNext PROVE [Next]_vars
  BY DEF vars
<1> QED
  BY Zenon DEF BackgroundNext, Service, Memory, Hook, vars, Next

LEMMA MemorySteps ==
  [BackgroundNext]_<<part, vars, memoryVars, hookVars>> => [M!Next]_(M!vars)
<1> SUFFICES ASSUME BackgroundNext PROVE [M!Next]_(M!vars)
  BY DEF memoryVars, M!vars
<1> QED
  BY Zenon DEF BackgroundNext, Service, Memory, Hook, memoryVars, M!vars, M!Next

BackgroundInv == WatchInv /\ MemoryInv

LEMMA Invariant == BackgroundSpec => []BackgroundInv
<1>1. BackgroundInit => BackgroundInv
  BY WatchInit, MemoryInit DEF BackgroundInit, BackgroundInv
<1>2. BackgroundInv /\ [BackgroundNext]_<<part, vars, memoryVars, hookVars>> => BackgroundInv'
  BY WatchSteps, MemorySteps, WatchNext, MemoryNext DEF BackgroundInv
<1> QED
  BY <1>1, <1>2, PTL DEF BackgroundSpec

-----------------------------------------------------------------------------

\* A watcher waits on an index Consul has had, and the entry of the map is a call
\* of Watch or empty, for any number of calls.
THEOREM TypeCorrect == BackgroundSpec => []TypeOK
<1>1. BackgroundInv => TypeOK
  BY DEF BackgroundInv, WatchInv
<1> QED
  BY Invariant, <1>1, PTL

\* Of all goroutines of a service name the one in the map is the only one nobody
\* cancelled, and a cancelled one gives its callback one more list at the most,
\* for any number of calls of Watch.
THEOREM OneWatcherAlways == BackgroundSpec => []OneWatcher
<1>1. BackgroundInv => OneWatcher
  BY DEF BackgroundInv, WatchInv, OneWatcher
<1> QED
  BY Invariant, <1>1, PTL

\* The memory cache implements the map with expiry of CachePromise, for any keys,
\* values, terms and addresses: every step of it is a step of the promise or none.
THEOREM MemoryKeepsItsPromise == BackgroundSpec => KeepsPromise
<1>1. BackgroundInit => M!Promise!Init
  <2>1. M!Init => M!Promise!Init
    BY DEF M!Init, M!Promise!Init, M!NoRead, M!Promise!None, M!Present, M!Unused
  <2> QED
    BY <2>1 DEF BackgroundInit
<1>2. BackgroundInv /\ [BackgroundNext]_<<part, vars, memoryVars, hookVars>>
        => [M!Promise!Next]_(M!Promise!vars)
  BY MemorySteps, MemoryNext DEF BackgroundInv
<1> QED
  BY Invariant, <1>1, <1>2, PTL DEF BackgroundSpec, KeepsPromise, M!KeepsPromise, M!Promise!Spec
=============================================================================
