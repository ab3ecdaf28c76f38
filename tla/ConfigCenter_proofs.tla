------------------------ MODULE ConfigCenter_proofs ------------------------
(***************************************************************************)
(* Proofs about the configuration center, for any number of watchers,       *)
(* goroutines that load, callbacks and writes of the key: types, the        *)
(* agreement of the two copies, their order, and the order and the number   *)
(* of the notifications.                                                    *)
(***************************************************************************)
EXTENDS ConfigCenter, TLAPS

-----------------------------------------------------------------------------
(* Types *)

WatchRecord == [at : {"off", "top", "query", "index", "center", "global", "notify"},
                since : 0..MaxIndex, got : Content]
LoadRecord == [at : {"idle", "index", "center", "global"}, got : Content]

LEMMA Records ==
  /\ NoConfig \in Content
  /\ Idle \in LoadRecord
  /\ \A place \in {"top", "off"} : At(place) \in WatchRecord
  BY MaxIndexAssumption DEF NoConfig, Content, Forms, Idle, LoadRecord, At, WatchRecord

LEMMA TypeInit == Init => TypeOK
<1> SUFFICES ASSUME Init PROVE TypeOK
  OBVIOUS
<1>1. store \in Content
  BY MaxIndexAssumption DEF Init, Content, Forms
<1>2. watch \in [Watchers -> WatchRecord] /\ load \in [Loaders -> LoadRecord]
  BY Records DEF Init, At, Idle
<1>3. config \in Content /\ global \in Content
  BY Records DEF Init
<1>4. lastIndex \in 0..MaxIndex /\ seen \in [Callbacks -> 0..MaxIndex]
  BY MaxIndexAssumption DEF Init
<1>5. /\ isWatching \in BOOLEAN /\ stopped \in BOOLEAN
      /\ autoRefresh \in BOOLEAN /\ refreshing \in BOOLEAN
      /\ registered \subseteq Callbacks
      /\ late \in Nat /\ overlap \in BOOLEAN /\ solo \subseteq Watchers \cup Loaders
  BY DEF Init
<1> QED
  BY <1>1, <1>2, <1>3, <1>4, <1>5 DEF TypeOK, WatchRecord, LoadRecord

LEMMA GoLoadType ==
  ASSUME TypeOK, NEW l \in Loaders, NEW at \in {"idle", "index", "center", "global"},
         GoLoad(l, at)
  PROVE  load' \in [Loaders -> LoadRecord]
<1>1. load \in [Loaders -> LoadRecord]
  BY DEF TypeOK, LoadRecord
<1>2. [load[l] EXCEPT !.at = at] \in LoadRecord
  BY <1>1 DEF LoadRecord
<1> QED
  BY <1>1, <1>2, Records DEF GoLoad

LEMMA GoWatchType ==
  ASSUME TypeOK, NEW w \in Watchers,
         NEW at \in {"off", "top", "query", "index", "center", "global", "notify"},
         GoWatch(w, at)
  PROVE  watch' \in [Watchers -> WatchRecord]
<1>1. watch \in [Watchers -> WatchRecord]
  BY DEF TypeOK, WatchRecord
<1>2. [watch[w] EXCEPT !.at = at] \in WatchRecord
  BY <1>1 DEF WatchRecord
<1> QED
  BY <1>1, <1>2, Records DEF GoWatch

LEMMA BookkeepingType ==
  ASSUME TypeOK, NEW t \in Watchers \cup Loaders, Begin(t) \/ Finish(t)
  PROVE  overlap' \in BOOLEAN /\ solo' \subseteq Watchers \cup Loaders
  BY DEF TypeOK, Begin, Finish

\* Writes of the key, RefreshEnd, Stop and OnChange.
LEMMA OutsideType ==
  ASSUME TypeOK, \/ Put \/ Save \/ Delete \/ Stop \/ RefreshEnd
                 \/ \E c \in Callbacks : OnChange(c)
  PROVE  TypeOK'
<1>1. ASSUME NEW form \in Forms, Write(form) PROVE TypeOK'
  <2>1. store.index \in 0..MaxIndex /\ store.index < MaxIndex
    BY <1>1 DEF TypeOK, Write, Content
  <2>2. store.index + 1 \in 0..MaxIndex
    BY <2>1, MaxIndexAssumption
  <2>3. store' \in Content
    BY <1>1, <2>2 DEF Write, Content
  <2> QED
    BY <1>1, <2>3 DEF TypeOK, Write, Content
<1>2. CASE Put \/ Save \/ Delete
  BY <1>1, <1>2 DEF Put, Save, Delete, Forms
<1>3. CASE Stop \/ RefreshEnd
  BY <1>3 DEF TypeOK, Stop, RefreshEnd, Content
<1>4. ASSUME NEW c \in Callbacks, OnChange(c) PROVE TypeOK'
  BY <1>4 DEF TypeOK, OnChange, Content
<1> QED
  BY <1>2, <1>3, <1>4

LEMMA LoadType ==
  ASSUME TypeOK, NEW l \in Loaders, LoadGet(l) \/ LoadStep(l) PROVE TypeOK'
<1>0. load \in [Loaders -> LoadRecord]
  BY DEF TypeOK, LoadRecord
<1>1. load[l].got \in Content
  BY <1>0 DEF LoadRecord
<1>2. CASE LoadGet(l)
  <2>1. [at |-> "index", got |-> store] \in LoadRecord
    BY DEF TypeOK, LoadRecord
  <2>2. load' \in [Loaders -> LoadRecord]
    BY <1>0, <1>2, <2>1 DEF LoadGet
  <2> QED
    BY <1>2, <2>2, BookkeepingType DEF TypeOK, LoadGet, LoadRecord
<1>3. CASE LoadIndex(l)
  <2>1. load' \in [Loaders -> LoadRecord]
    BY <1>3, GoLoadType DEF LoadIndex
  <2>2. lastIndex' \in 0..MaxIndex
    BY <1>1, <1>3 DEF LoadIndex, Content
  <2> QED
    BY <1>3, <2>1, <2>2 DEF TypeOK, LoadIndex, LoadRecord
<1>4. CASE LoadCenter(l)
  <2>1. load' \in [Loaders -> LoadRecord]
    BY <1>4, GoLoadType DEF LoadCenter
  <2> QED
    BY <1>1, <1>4, <2>1 DEF TypeOK, LoadCenter, LoadRecord
<1>5. CASE LoadGlobal(l)
  <2>1. load' \in [Loaders -> LoadRecord]
    BY <1>5, GoLoadType DEF LoadGlobal
  <2> QED
    BY <1>1, <1>5, <2>1, BookkeepingType DEF TypeOK, LoadGlobal, LoadRecord
<1> QED
  BY <1>2, <1>3, <1>4, <1>5 DEF LoadStep

LEMMA WatchType ==
  ASSUME TypeOK, NEW w \in Watchers,
         Watch(w) \/ WatchAgain(w) \/ WatchReply(w) \/ WatchStep(w)
  PROVE  TypeOK'
<1>0. watch \in [Watchers -> WatchRecord]
  BY DEF TypeOK, WatchRecord
<1>1. watch[w].got \in Content
  BY <1>0 DEF WatchRecord
<1>2. CASE Watch(w)
  <2>1. [watch[w] EXCEPT !.at = "top"] \in WatchRecord
    BY <1>0 DEF WatchRecord
  <2>2. watch' \in [Watchers -> WatchRecord]
    BY <1>0, <1>2, <2>1 DEF Watch, Start
  <2> QED
    BY <1>2, <2>2 DEF TypeOK, Watch, Start, WatchRecord
<1>3. CASE WatchAgain(w) \/ WatchEnd(w)
  <2>1. watch' \in [Watchers -> WatchRecord]
    BY <1>3, GoWatchType DEF WatchAgain, WatchEnd
  <2> QED
    BY <1>3, <2>1 DEF TypeOK, WatchAgain, WatchEnd, WatchRecord
<1>4. CASE WatchReply(w)
  <2>1. [at |-> "index", since |-> 0, got |-> store] \in WatchRecord
    BY MaxIndexAssumption DEF TypeOK, WatchRecord
  <2>2. watch' \in [Watchers -> WatchRecord]
    BY <1>0, <1>4, <2>1 DEF WatchReply
  <2> QED
    BY <1>4, <2>2, BookkeepingType DEF TypeOK, WatchReply, WatchRecord
<1>5. CASE WatchQuery(w)
  <2>1. [watch[w] EXCEPT !.at = "query", !.since = lastIndex] \in WatchRecord
    BY <1>0 DEF TypeOK, WatchRecord
  <2>2. watch' \in [Watchers -> WatchRecord]
    BY <1>0, <1>5, <2>1 DEF WatchQuery, Query
  <2> QED
    BY <1>5, <2>2 DEF TypeOK, WatchQuery, Query, WatchRecord
<1>6. CASE WatchIndex(w)
  <2>1. watch' \in [Watchers -> WatchRecord]
    BY <1>6, GoWatchType DEF WatchIndex
  <2>2. lastIndex' \in 0..MaxIndex
    BY <1>1, <1>6 DEF WatchIndex, Content
  <2> QED
    BY <1>6, <2>1, <2>2 DEF TypeOK, WatchIndex, WatchRecord
<1>7. CASE WatchCenter(w)
  <2>1. watch' \in [Watchers -> WatchRecord]
    BY <1>7, GoWatchType DEF WatchCenter
  <2> QED
    BY <1>1, <1>7, <2>1 DEF TypeOK, WatchCenter, WatchRecord
<1>8. CASE WatchGlobal(w)
  <2>1. watch' \in [Watchers -> WatchRecord]
    BY <1>8, GoWatchType DEF WatchGlobal
  <2> QED
    BY <1>1, <1>8, <2>1, BookkeepingType DEF TypeOK, WatchGlobal, WatchRecord
<1>9. CASE WatchNotify(w)
  <2>1. watch' \in [Watchers -> WatchRecord]
    BY <1>9, GoWatchType DEF WatchNotify
  <2>2. watch[w].got.index \in 0..MaxIndex
    BY <1>1 DEF Content
  <2>3. seen' \in [Callbacks -> 0..MaxIndex] /\ late' \in Nat
    BY <1>9, <2>2 DEF TypeOK, WatchNotify
  <2> QED
    BY <1>9, <2>1, <2>3 DEF TypeOK, WatchNotify, WatchRecord
<1> QED
  BY <1>2, <1>3, <1>4, <1>5, <1>6, <1>7, <1>8, <1>9 DEF WatchStep

LEMMA TypeNext == TypeOK /\ [Next]_vars => TypeOK'
<1> SUFFICES ASSUME TypeOK, [Next]_vars PROVE TypeOK'
  OBVIOUS
<1>1. CASE UNCHANGED vars
  BY <1>1 DEF vars, TypeOK, Content
<1> QED
  BY <1>1, OutsideType, LoadType, WatchType DEF Next

-----------------------------------------------------------------------------
(* The two copies *)

\* Goroutines that update the copies, where each is, and the reply it holds.
Workers == Watchers \cup Loaders
Place(t) == IF t \in Watchers THEN watch[t].at ELSE load[t].at
Got(t) == IF t \in Watchers THEN watch[t].got ELSE load[t].got
Holds(t) == Place(t) \in {"index", "center", "global"}

\* Nobody else is updating, and nobody has begun to since t did.
Alone(t) == ~overlap \/ t \in solo

\* Consul's index only grows, and everything here was read from it.
Order ==
    /\ config.index <= store.index /\ global.index <= store.index
    /\ \A t \in Workers : Holds(t) => Got(t).index <= store.index

\* What a worker that is alone knows of the copies, and what they are when there
\* is none. CopiesAgree is its last part.
Copies ==
    /\ \A t \in Workers : Holds(t) /\ Alone(t) =>
          /\ \A u \in Workers : Holds(u) => u = t
          /\ config.index <= Got(t).index /\ global.index <= Got(t).index
          /\ Place(t) = "global" => config = Got(t)
          /\ ~overlap /\ Place(t) # "global" => config = global
    /\ ~overlap /\ (\A t \in Workers : ~Holds(t)) => config = global

-----------------------------------------------------------------------------
(* The notifications *)

\* The goroutine of a Watch that will look at the key once more, or call back.
Active(w) == watch[w].at # "off" /\ ~(stopped /\ watch[w].at = "top")

\* One goroutine of Watch is active at most, and none after it called back behind
\* a Stop.
OneActive ==
    /\ \A v, w \in Watchers : Active(v) /\ Active(w) => v = w
    /\ \A w \in Watchers : Active(w) /\ ~stopped => isWatching
    /\ \A w \in Watchers : Active(w) => late = 0
    /\ ~stopped => late = 0
    /\ late <= 1

\* A reply was read after every callback before it.
Fresh ==
    \A c \in Callbacks :
        /\ seen[c] <= store.index
        /\ \A w \in Watchers :
              watch[w].at \in {"index", "center", "global", "notify"}
                  => seen[c] <= watch[w].got.index /\ watch[w].got.index <= store.index

Inv == TypeOK /\ Order /\ Copies /\ OneActive /\ Fresh

-----------------------------------------------------------------------------
(* What a step can do to the workers and the copies *)

\* The other workers stay where they are.
OthersStay(t) ==
    \A u \in Workers \ {t} : Place(u)' = Place(u) /\ Got(u)' = Got(u)

\* No reply is taken or put into a copy, though one may be given up.
Quiet ==
    /\ store.index <= store'.index
    /\ UNCHANGED <<config, global, overlap, solo>>
    /\ \A t \in Workers : Holds(t)' =>
          Holds(t) /\ Got(t)' = Got(t) /\ (Place(t)' = "global" <=> Place(t) = "global")
    /\ \A t \in Workers : Place(t) = "global" => Place(t)' = "global"

Takes(t) ==
    /\ Begin(t)
    /\ Place(t)' = "index" /\ Got(t)' = store /\ OthersStay(t)
    /\ UNCHANGED <<store, config, global>>

SetsCenter(t) ==
    /\ Place(t) = "center" /\ config' = Got(t)
    /\ Place(t)' = "global" /\ Got(t)' = Got(t) /\ OthersStay(t)
    /\ UNCHANGED <<store, global, overlap, solo>>

SetsGlobal(t) ==
    /\ Place(t) = "global" /\ global' = Got(t)
    /\ Finish(t)
    /\ ~Holds(t)' /\ OthersStay(t)
    /\ UNCHANGED <<store, config>>

LEMMA WorkerPlaces ==
  ASSUME TypeOK
  PROVE  /\ \A w \in Watchers : Place(w) = watch[w].at /\ Got(w) = watch[w].got
         /\ \A l \in Loaders : Place(l) = load[l].at /\ Got(l) = load[l].got
         /\ \A w \in Watchers : Place(w)' = watch'[w].at /\ Got(w)' = watch'[w].got
         /\ \A l \in Loaders : Place(l)' = load'[l].at /\ Got(l)' = load'[l].got
  BY WorkersAssumption DEF Place, Got

LEMMA UpdatingHold == TypeOK => Updating = {t \in Workers : Holds(t)}
<1> SUFFICES ASSUME TypeOK PROVE Updating = {t \in Workers : Holds(t)}
  OBVIOUS
<1>1. \A l \in Loaders : load[l].at # "idle" <=> load[l].at \in {"index", "center", "global"}
  BY DEF TypeOK
<1> QED
  BY <1>1, WorkerPlaces DEF Updating, Holds, Workers

\* Everybody stays where he is, and the copies as they are.
LEMMA OutsideQuiet ==
  ASSUME TypeOK, \/ Put \/ Save \/ Delete \/ Stop \/ RefreshEnd \/ UNCHANGED vars
                 \/ \E c \in Callbacks : OnChange(c)
  PROVE  Quiet
<1>1. UNCHANGED <<config, global, overlap, solo, watch, load>>
  BY DEF Put, Save, Delete, Write, Stop, RefreshEnd, OnChange, vars
<1>2. store.index <= store'.index
  <2>1. store.index \in Int
    BY DEF TypeOK, Content
  <2>2. ASSUME NEW form \in Forms, Write(form) PROVE store'.index = store.index + 1
    BY <2>2 DEF Write
  <2>3. CASE Put \/ Save \/ Delete
    BY <2>1, <2>2, <2>3 DEF Put, Save, Delete, Forms
  <2>4. CASE ~(Put \/ Save \/ Delete)
    BY <2>1, <2>4 DEF Stop, RefreshEnd, OnChange, vars
  <2> QED
    BY <2>3, <2>4
<1> QED
  BY <1>1, <1>2 DEF Quiet, Holds, Place, Got

LEMMA GoLoadPlaces ==
  ASSUME TypeOK, NEW l \in Loaders, NEW at \in {"index", "center", "global", "idle"},
         GoLoad(l, at), UNCHANGED watch
  PROVE  /\ Place(l)' = at /\ OthersStay(l)
         /\ at # "idle" => Got(l)' = Got(l)
<1>1. load \in [Loaders -> LoadRecord]
  BY DEF TypeOK, LoadRecord
<1>2. /\ load'[l].at = at
      /\ at # "idle" => load'[l].got = load[l].got
      /\ \A u \in Loaders \ {l} : load'[u] = load[u]
  BY <1>1 DEF GoLoad, Idle, LoadRecord
<1> QED
  BY <1>2, WorkersAssumption DEF OthersStay, Place, Got, Workers

LEMMA GoWatchPlaces ==
  ASSUME TypeOK, NEW w \in Watchers,
         NEW at \in {"off", "top", "query", "index", "center", "global", "notify"},
         GoWatch(w, at), UNCHANGED load
  PROVE  /\ Place(w)' = at /\ OthersStay(w)
         /\ at \notin {"top", "off"} => Got(w)' = Got(w)
<1>1. watch \in [Watchers -> WatchRecord]
  BY DEF TypeOK, WatchRecord
<1>2. /\ watch'[w].at = at
      /\ at \notin {"top", "off"} => watch'[w].got = watch[w].got
      /\ \A u \in Watchers \ {w} : watch'[u] = watch[u]
  BY <1>1 DEF GoWatch, At, WatchRecord
<1> QED
  BY <1>2, WorkersAssumption DEF OthersStay, Place, Got, Workers

LEMMA LoadKinds ==
  ASSUME TypeOK, NEW l \in Loaders, LoadGet(l) \/ LoadStep(l)
  PROVE  Quiet \/ Takes(l) \/ SetsCenter(l) \/ SetsGlobal(l)
<1>0. store.index \in Int /\ l \in Workers /\ Place(l) = load[l].at /\ Got(l) = load[l].got
  BY WorkerPlaces DEF TypeOK, Content, Workers
<1>1. CASE LoadGet(l)
  <2>1. load \in [Loaders -> LoadRecord]
    BY DEF TypeOK, LoadRecord
  <2>2. /\ load'[l].at = "index" /\ load'[l].got = store
        /\ \A u \in Loaders \ {l} : load'[u] = load[u]
    BY <1>1, <2>1 DEF LoadGet
  <2>3. Place(l)' = "index" /\ Got(l)' = store /\ OthersStay(l)
    BY <1>1, <2>2, WorkersAssumption DEF OthersStay, Place, Got, Workers, LoadGet
  <2> QED
    BY <1>1, <2>3 DEF Takes, LoadGet
<1>2. CASE LoadIndex(l)
  <2>1. PICK at \in {"center", "idle"} : GoLoad(l, at)
    BY <1>2 DEF LoadIndex
  <2>2. /\ Place(l)' = at /\ OthersStay(l)
        /\ at # "idle" => Got(l)' = Got(l)
    BY <1>2, <2>1, GoLoadPlaces DEF LoadIndex
  <2>3. Place(l) = "index"
    BY <1>0, <1>2 DEF LoadIndex
  <2>4. UNCHANGED <<store, config, global, overlap, solo>>
    BY <1>2 DEF LoadIndex
  <2> QED
    BY <1>0, <2>1, <2>2, <2>3, <2>4 DEF Quiet, OthersStay, Holds
<1>3. CASE LoadCenter(l)
  <2>1. Place(l)' = "global" /\ Got(l)' = Got(l) /\ OthersStay(l)
    BY <1>3, GoLoadPlaces DEF LoadCenter
  <2> QED
    BY <1>0, <1>3, <2>1 DEF SetsCenter, LoadCenter
<1>4. CASE LoadGlobal(l)
  <2>1. Place(l)' = "idle" /\ OthersStay(l)
    BY <1>4, GoLoadPlaces DEF LoadGlobal
  <2> QED
    BY <1>0, <1>4, <2>1 DEF SetsGlobal, Holds, LoadGlobal
<1> QED
  BY <1>1, <1>2, <1>3, <1>4 DEF LoadStep

LEMMA WatchKinds ==
  ASSUME TypeOK, NEW w \in Watchers,
         Watch(w) \/ WatchAgain(w) \/ WatchReply(w) \/ WatchStep(w)
  PROVE  Quiet \/ Takes(w) \/ SetsCenter(w) \/ SetsGlobal(w)
<1>0. store.index \in Int /\ w \in Workers /\ Place(w) = watch[w].at /\ Got(w) = watch[w].got
  BY WorkerPlaces DEF TypeOK, Content, Workers
<1>t. watch \in [Watchers -> WatchRecord]
  BY DEF TypeOK, WatchRecord
<1>1. CASE WatchReply(w)
  <2>2. /\ watch'[w].at = "index" /\ watch'[w].got = store
        /\ \A u \in Watchers \ {w} : watch'[u] = watch[u]
    BY <1>1, <1>t DEF WatchReply
  <2>3. Place(w)' = "index" /\ Got(w)' = store /\ OthersStay(w)
    BY <1>1, <2>2, WorkersAssumption DEF OthersStay, Place, Got, Workers, WatchReply
  <2> QED
    BY <1>1, <2>3 DEF Takes, WatchReply
<1>2. CASE WatchIndex(w)
  <2>1. PICK at \in {"center", "top"} : GoWatch(w, at)
    BY <1>2 DEF WatchIndex
  <2>2. /\ Place(w)' = at /\ OthersStay(w)
        /\ at # "top" => Got(w)' = Got(w)
    BY <1>2, <2>1, GoWatchPlaces DEF WatchIndex
  <2>3. Place(w) = "index"
    BY <1>0, <1>2 DEF WatchIndex
  <2>4. UNCHANGED <<store, config, global, overlap, solo>>
    BY <1>2 DEF WatchIndex
  <2> QED
    BY <1>0, <2>1, <2>2, <2>3, <2>4 DEF Quiet, OthersStay, Holds
<1>3. CASE WatchCenter(w)
  <2>1. Place(w)' = "global" /\ Got(w)' = Got(w) /\ OthersStay(w)
    BY <1>3, GoWatchPlaces DEF WatchCenter
  <2> QED
    BY <1>0, <1>3, <2>1 DEF SetsCenter, WatchCenter
<1>4. CASE WatchGlobal(w)
  <2>1. Place(w)' = "notify" /\ OthersStay(w)
    BY <1>4, GoWatchPlaces DEF WatchGlobal
  <2> QED
    BY <1>0, <1>4, <2>1 DEF SetsGlobal, Holds, WatchGlobal
<1>5. CASE Watch(w) \/ WatchQuery(w) \/ WatchAgain(w) \/ WatchEnd(w) \/ WatchNotify(w)
  <2>1. UNCHANGED <<store, config, global, overlap, solo, load>>
    BY <1>5 DEF Watch, Start, WatchQuery, Query, WatchAgain, WatchEnd, WatchNotify
  <2>2. watch[w].at \in {"off", "top", "query", "notify"}
    BY <1>5 DEF Watch, Start, WatchQuery, Query, WatchAgain, WatchEnd, WatchNotify
  <2>3. watch'[w].at \in {"off", "top", "query"} /\ \A u \in Watchers \ {w} : watch'[u] = watch[u]
    <3>1. CASE Watch(w) \/ WatchQuery(w)
      BY <1>t, <3>1 DEF Watch, Start, WatchQuery, Query, WatchRecord
    <3>2. CASE WatchAgain(w) \/ WatchEnd(w) \/ WatchNotify(w)
      BY <1>t, <3>2 DEF WatchAgain, WatchEnd, WatchNotify, GoWatch, At
    <3> QED
      BY <1>5, <3>1, <3>2
  <2>4. OthersStay(w) /\ ~Holds(w) /\ ~Holds(w)'
    BY <2>1, <2>2, <2>3, WorkersAssumption DEF OthersStay, Holds, Place, Got, Workers
  <2> QED
    BY <1>0, <2>1, <2>4 DEF Quiet, OthersStay, Holds
<1> QED
  BY <1>1, <1>2, <1>3, <1>4, <1>5 DEF WatchStep

\* Every step is of one of four kinds, as far as the copies go.
LEMMA StepKinds ==
  ASSUME TypeOK, [Next]_vars
  PROVE  Quiet \/ \E t \in Workers : Takes(t) \/ SetsCenter(t) \/ SetsGlobal(t)
  BY OutsideQuiet, LoadKinds, WatchKinds DEF Next, Workers

\* Indexes are numbers, now and after any step.
LEMMA Indexes ==
  ASSUME TypeOK
  PROVE  /\ store.index \in Int /\ config.index \in Int /\ global.index \in Int
         /\ \A t \in Workers : Got(t).index \in Int
<1>1. \A t \in Workers : Got(t) \in Content
  BY WorkersAssumption DEF TypeOK, Got, Workers
<1> QED
  BY <1>1 DEF TypeOK, Content

-----------------------------------------------------------------------------
(* The steps keep the copies in order *)

LEMMA OrderNext == TypeOK /\ TypeOK' /\ Order /\ [Next]_vars => Order'
<1> SUFFICES ASSUME TypeOK, TypeOK', Order, [Next]_vars PROVE Order'
  OBVIOUS
<1>0. /\ store.index \in Int /\ store'.index \in Int
      /\ config.index \in Int /\ global.index \in Int
      /\ \A t \in Workers : Got(t).index \in Int
  <2>1. store'.index \in Int
    BY DEF TypeOK, Content
  <2> QED
    BY <2>1, Indexes
<1>1. CASE Quiet
  BY <1>0, <1>1 DEF Order, Quiet
<1>2. ASSUME NEW t \in Workers, Takes(t) PROVE Order'
  <2>1. ASSUME NEW u \in Workers, Holds(u)' PROVE Got(u)'.index <= store'.index
    BY <1>0, <1>2, <2>1 DEF Order, Takes, OthersStay, Holds
  <2> QED
    BY <1>2, <2>1 DEF Order, Takes
<1>3. ASSUME NEW t \in Workers, SetsCenter(t) PROVE Order'
  <2>1. ASSUME NEW u \in Workers, Holds(u)' PROVE Got(u)'.index <= store'.index
    BY <1>3, <2>1 DEF Order, SetsCenter, OthersStay, Holds
  <2>2. config'.index <= store'.index
    BY <1>3 DEF Order, SetsCenter, Holds
  <2> QED
    BY <1>3, <2>1, <2>2 DEF Order, SetsCenter
<1>4. ASSUME NEW t \in Workers, SetsGlobal(t) PROVE Order'
  <2>1. ASSUME NEW u \in Workers, Holds(u)' PROVE Got(u)'.index <= store'.index
    BY <1>4, <2>1 DEF Order, SetsGlobal, OthersStay, Holds
  <2>2. global'.index <= store'.index
    BY <1>4 DEF Order, SetsGlobal, Holds
  <2> QED
    BY <1>4, <2>1, <2>2 DEF Order, SetsGlobal
<1> QED
  BY <1>1, <1>2, <1>3, <1>4, StepKinds

\* A worker that takes a reply is alone exactly if nobody else held one.
LEMMA TakesAlone ==
  ASSUME TypeOK, NEW t \in Workers, Takes(t)
  PROVE  /\ \A u \in Workers : Alone(u)' /\ Holds(u)' => u = t
         /\ Alone(t)' => \A u \in Workers : ~Holds(u)
         /\ ~overlap' => ~overlap
<1>1. /\ overlap' = (overlap \/ Updating # {})
      /\ solo' = IF Updating = {} THEN {t} ELSE {}
      /\ OthersStay(t)
  BY DEF Takes, Begin
<1>2. \A u \in Workers \ {t} : Holds(u)' = Holds(u)
  BY <1>1 DEF OthersStay, Holds
<1>3. CASE Updating = {}
  BY <1>1, <1>2, <1>3, UpdatingHold DEF Alone
<1>4. CASE Updating # {}
  BY <1>1, <1>4 DEF Alone
<1> QED
  BY <1>3, <1>4

LEMMA CopiesNext == TypeOK /\ Order /\ Copies /\ [Next]_vars => Copies'
<1> SUFFICES ASSUME TypeOK, Order, Copies, [Next]_vars PROVE Copies'
  OBVIOUS
<1>0. /\ store.index \in Int /\ config.index \in Int /\ global.index \in Int
      /\ \A t \in Workers : Got(t).index \in Int
  BY Indexes
<1> DEFINE Knows(t) ==
      /\ \A u \in Workers : Holds(u) => u = t
      /\ config.index <= Got(t).index /\ global.index <= Got(t).index
      /\ Place(t) = "global" => config = Got(t)
      /\ ~overlap /\ Place(t) # "global" => config = global
<1>k. ASSUME NEW t \in Workers, Holds(t), Alone(t) PROVE Knows(t)
  BY <1>k DEF Copies
<1>s. SUFFICES /\ \A t \in Workers : Holds(t)' /\ Alone(t)' => Knows(t)'
               /\ ~overlap' /\ (\A t \in Workers : ~Holds(t)') => config' = global'
  BY DEF Copies
<1>1. CASE Quiet
  <2>1. ASSUME NEW t \in Workers, Holds(t)', Alone(t)' PROVE Knows(t)'
    <3>1. Holds(t) /\ Alone(t) /\ Got(t)' = Got(t) /\ (Place(t)' = "global" <=> Place(t) = "global")
      BY <1>1, <2>1 DEF Quiet, Alone
    <3>2. Knows(t)
      BY <1>k, <3>1
    <3> QED
      BY <1>1, <3>1, <3>2 DEF Quiet
  <2>2. ASSUME ~overlap', \A t \in Workers : ~Holds(t)' PROVE config' = global'
    <3>1. ~overlap /\ UNCHANGED <<config, global>>
      BY <1>1, <2>2 DEF Quiet
    <3>2. \A t \in Workers : Place(t) # "global"
      BY <1>1, <2>2 DEF Quiet, Holds
    <3>3. CASE \A t \in Workers : ~Holds(t)
      BY <3>1, <3>3 DEF Copies
    <3>4. ASSUME NEW t \in Workers, Holds(t) PROVE config = global
      BY <1>k, <3>1, <3>2, <3>4 DEF Alone
    <3> QED
      BY <3>1, <3>3, <3>4
  <2> QED
    BY <2>1, <2>2
<1>2. ASSUME NEW t \in Workers, Takes(t)
      PROVE  /\ \A u \in Workers : Holds(u)' /\ Alone(u)' => Knows(u)'
             /\ ~overlap' /\ (\A u \in Workers : ~Holds(u)') => config' = global'
  <2>1. Holds(t)' /\ Place(t)' = "index" /\ Got(t)' = store /\ UNCHANGED <<config, global>>
    BY <1>2 DEF Takes, Holds
  <2>2. ASSUME Alone(t)' PROVE Knows(t)'
    <3>1. \A u \in Workers : ~Holds(u)
      BY <1>2, <2>2, TakesAlone
    <3>2. \A u \in Workers : Holds(u)' => u = t
      BY <1>2, <3>1 DEF Takes, OthersStay, Holds
    <3>3. ~overlap' => config' = global'
      BY <1>2, <2>1, <3>1, TakesAlone DEF Copies
    <3>4. config'.index <= Got(t)'.index /\ global'.index <= Got(t)'.index
      BY <2>1 DEF Order
    <3> QED
      BY <2>1, <3>2, <3>3, <3>4
  <2> QED
    BY <1>2, <2>1, <2>2, TakesAlone
<1>3. ASSUME NEW t \in Workers, SetsCenter(t)
      PROVE  /\ \A u \in Workers : Holds(u)' /\ Alone(u)' => Knows(u)'
             /\ ~overlap' /\ (\A u \in Workers : ~Holds(u)') => config' = global'
  <2>1. /\ Holds(t) /\ Holds(t)' /\ Got(t)' = Got(t) /\ Place(t)' = "global"
        /\ config' = Got(t) /\ UNCHANGED <<global, overlap, solo>>
        /\ \A u \in Workers : Holds(u)' = Holds(u) /\ Alone(u)' = Alone(u)
    BY <1>3 DEF SetsCenter, OthersStay, Holds, Alone
  <2>2. ASSUME NEW u \in Workers, Holds(u)', Alone(u)' PROVE Knows(u)'
    <3>1. Knows(u) /\ t = u
      BY <1>k, <2>1, <2>2
    <3> QED
      BY <1>0, <2>1, <3>1
  <2> QED
    BY <2>1, <2>2
<1>4. ASSUME NEW t \in Workers, SetsGlobal(t)
      PROVE  /\ \A u \in Workers : Holds(u)' /\ Alone(u)' => Knows(u)'
             /\ ~overlap' /\ (\A u \in Workers : ~Holds(u)') => config' = global'
  <2>1. /\ Holds(t) /\ ~Holds(t)' /\ Place(t) = "global"
        /\ global' = Got(t) /\ UNCHANGED config
        /\ overlap' = (overlap /\ t \notin solo) /\ UNCHANGED solo
        /\ \A u \in Workers \ {t} : Holds(u)' = Holds(u)
    BY <1>4 DEF SetsGlobal, OthersStay, Holds, Finish
  <2>2. ASSUME NEW u \in Workers, Holds(u)', Alone(u)' PROVE FALSE
    <3>1. u # t /\ Holds(u)
      BY <2>1, <2>2
    <3>2. Alone(u) \/ Alone(t)
      BY <2>1, <2>2 DEF Alone
    <3> QED
      BY <1>k, <2>1, <3>1, <3>2
  <2>3. ASSUME ~overlap' PROVE config' = global'
    <3>1. Alone(t)
      BY <2>1, <2>3 DEF Alone
    <3> QED
      BY <1>k, <2>1, <3>1
  <2> QED
    BY <2>2, <2>3
<1> QED
  BY <1>s, <1>1, <1>2, <1>3, <1>4, StepKinds

\* A step back of a copy is one of an update that was not alone.
LEMMA NoStepBackNext ==
  ASSUME TypeOK, Copies, [Next]_vars
  PROVE  overlap' \/ (config'.index >= config.index /\ global'.index >= global.index)
<1>0. config.index \in Int /\ global.index \in Int
  BY Indexes
<1>1. CASE Quiet
  BY <1>0, <1>1 DEF Quiet
<1>2. ASSUME NEW t \in Workers, Takes(t)
      PROVE  config'.index >= config.index /\ global'.index >= global.index
  BY <1>0, <1>2 DEF Takes
<1>3. ASSUME NEW t \in Workers, SetsCenter(t), ~overlap'
      PROVE  config'.index >= config.index /\ global'.index >= global.index
  <2>1. Holds(t) /\ Alone(t)
    BY <1>3 DEF SetsCenter, Holds, Alone
  <2>2. config.index <= Got(t).index
    BY <2>1 DEF Copies
  <2> QED
    BY <1>0, <1>3, <2>2, Indexes DEF SetsCenter
<1>4. ASSUME NEW t \in Workers, SetsGlobal(t), ~overlap'
      PROVE  config'.index >= config.index /\ global'.index >= global.index
  <2>1. Holds(t) /\ Alone(t)
    BY <1>4 DEF SetsGlobal, Finish, Holds, Alone
  <2>2. global.index <= Got(t).index
    BY <2>1 DEF Copies
  <2> QED
    BY <1>0, <1>4, <2>2, Indexes DEF SetsGlobal
<1> QED
  BY <1>1, <1>2, <1>3, <1>4, StepKinds

-----------------------------------------------------------------------------
(* The steps keep the notifications in order *)

\* A step of Watch's goroutine w: it moves from an active place, or Watch starts
\* it while none is, or it ends.
LEMMA WatchMoves ==
  ASSUME TypeOK, NEW w \in Watchers,
         Watch(w) \/ WatchAgain(w) \/ WatchReply(w) \/ WatchStep(w)
  PROVE  /\ \A u \in Watchers \ {w} : watch'[u] = watch[u]
         /\ \/ Active(w) \/ ~Active(w)'
            \/ ~isWatching /\ ~stopped /\ isWatching'
         /\ UNCHANGED stopped /\ (isWatching => isWatching')
         /\ WatchNotify(w) \/ UNCHANGED <<seen, late>>
<1>t. watch \in [Watchers -> WatchRecord]
  BY DEF TypeOK, WatchRecord
<1>1. CASE Watch(w)
  BY <1>1, <1>t DEF Watch, Start, Active, WatchRecord
<1>2. CASE WatchAgain(w) \/ WatchEnd(w)
  BY <1>2, <1>t DEF WatchAgain, WatchEnd, GoWatch, Active, At
<1>3. CASE WatchReply(w)
  BY <1>3, <1>t DEF WatchReply, Active
<1>4. CASE WatchQuery(w)
  BY <1>4, <1>t DEF WatchQuery, Query, Active, WatchRecord
<1>5. CASE WatchIndex(w) \/ WatchCenter(w) \/ WatchGlobal(w) \/ WatchNotify(w)
  BY <1>5, <1>t DEF WatchIndex, WatchCenter, WatchGlobal, WatchNotify, GoWatch, Active, At
<1> QED
  BY <1>1, <1>2, <1>3, <1>4, <1>5 DEF WatchStep

\* The other steps leave Watch's goroutines and the callbacks' view alone.
LEMMA OtherMoves ==
  ASSUME TypeOK, \/ Put \/ Save \/ Delete \/ Stop \/ RefreshEnd \/ UNCHANGED vars
                 \/ \E l \in Loaders : LoadGet(l) \/ LoadStep(l)
                 \/ \E c \in Callbacks : OnChange(c)
  PROVE  /\ UNCHANGED <<watch, seen, late>>
         /\ UNCHANGED <<stopped, isWatching>> \/ (~stopped /\ stopped')
  BY DEF Put, Save, Delete, Write, Stop, RefreshEnd, LoadGet, LoadStep, LoadIndex,
         LoadCenter, LoadGlobal, OnChange, vars

LEMMA OneActiveNext == TypeOK /\ OneActive /\ [Next]_vars => OneActive'
<1> SUFFICES ASSUME TypeOK, OneActive, [Next]_vars PROVE OneActive'
  OBVIOUS
<1>1. CASE \/ Put \/ Save \/ Delete \/ Stop \/ RefreshEnd \/ UNCHANGED vars
           \/ \E l \in Loaders : LoadGet(l) \/ LoadStep(l)
           \/ \E c \in Callbacks : OnChange(c)
  <2>1. /\ UNCHANGED <<watch, late>>
        /\ UNCHANGED <<stopped, isWatching>> \/ (~stopped /\ stopped')
    BY <1>1, OtherMoves
  <2>2. \A w \in Watchers : Active(w)' => Active(w)
    BY <2>1 DEF Active
  <2> QED
    BY <2>1, <2>2 DEF OneActive
<1>2. ASSUME NEW w \in Watchers,
             Watch(w) \/ WatchAgain(w) \/ WatchReply(w) \/ WatchStep(w)
      PROVE  OneActive'
  <2>1. /\ \A u \in Watchers \ {w} : watch'[u] = watch[u]
        /\ \/ Active(w) \/ ~Active(w)'
           \/ ~isWatching /\ ~stopped /\ isWatching'
        /\ UNCHANGED stopped /\ (isWatching => isWatching')
        /\ WatchNotify(w) \/ UNCHANGED <<seen, late>>
    BY <1>2, WatchMoves
  <2>2. \A u \in Watchers \ {w} : Active(u)' = Active(u)
    BY <2>1 DEF Active
  <2>3. Active(w)' /\ ~Active(w) => \A u \in Watchers : ~Active(u)
    BY <2>1 DEF OneActive
  <2>4. \A u, v \in Watchers : Active(u)' /\ Active(v)' => u = v
    BY <2>2, <2>3 DEF OneActive
  <2>5. \A u \in Watchers : Active(u)' /\ ~stopped' => isWatching'
    BY <2>1, <2>2 DEF OneActive
  <2>6. CASE ~WatchNotify(w)
    <3>1. Active(w)' => late = 0
      BY <2>1 DEF OneActive
    <3> QED
      BY <2>1, <2>2, <2>4, <2>5, <2>6, <3>1 DEF OneActive
  <2>7. CASE WatchNotify(w)
    <3>1. Active(w) /\ late = 0 /\ late' = IF stopped THEN 1 ELSE 0
      BY <2>7 DEF WatchNotify, Active, OneActive
    <3>2. watch'[w].at = "top"
      BY <2>7 DEF WatchNotify, GoWatch, At, TypeOK
    <3>3. stopped => \A u \in Watchers : ~Active(u)'
      BY <2>1, <2>2, <3>1, <3>2 DEF Active, OneActive
    <3> QED
      BY <2>1, <2>4, <2>5, <3>1, <3>3 DEF OneActive
  <2> QED
    BY <2>6, <2>7
<1> QED
  BY <1>1, <1>2 DEF Next

Told == {"index", "center", "global", "notify"}

\* Goroutines that hold a reply are active, so there is one.
LEMMA OneTold ==
  ASSUME OneActive, NEW v \in Watchers, NEW w \in Watchers,
         watch[v].at \in Told, watch[w].at \in Told
  PROVE  v = w
  BY DEF OneActive, Active, Told

\* Whoever holds a reply after a step held it before, or took it from the key.
LEMMA ToldMoves ==
  ASSUME TypeOK, NEW w \in Watchers,
         Watch(w) \/ WatchAgain(w) \/ WatchReply(w) \/ WatchStep(w),
         watch'[w].at \in Told
  PROVE  \/ watch[w].at \in Told /\ watch'[w].got = watch[w].got
         \/ WatchReply(w) /\ watch'[w].got = store
<1>t. watch \in [Watchers -> WatchRecord]
  BY DEF TypeOK, WatchRecord
<1>1. CASE Watch(w) \/ WatchQuery(w)
  BY <1>1, <1>t DEF Watch, Start, WatchQuery, Query, WatchRecord, Told
<1>2. CASE WatchAgain(w) \/ WatchEnd(w) \/ WatchNotify(w)
  BY <1>2, <1>t DEF WatchAgain, WatchEnd, WatchNotify, GoWatch, At, Told
<1>3. CASE WatchReply(w)
  BY <1>3, <1>t DEF WatchReply
<1>4. CASE WatchIndex(w) \/ WatchCenter(w) \/ WatchGlobal(w)
  BY <1>4, <1>t DEF WatchIndex, WatchCenter, WatchGlobal, GoWatch, At, WatchRecord, Told
<1> QED
  BY <1>1, <1>2, <1>3, <1>4 DEF WatchStep

LEMMA CallbacksInOrderNext ==
  ASSUME TypeOK, Fresh, [Next]_vars, NEW c \in Callbacks
  PROVE  /\ seen'[c] >= seen[c]
         /\ seen'[c] <= store.index
<1>0. seen[c] \in Int /\ store.index \in Int /\ seen[c] <= store.index
  BY DEF TypeOK, Content, Fresh
<1>1. CASE UNCHANGED seen
  BY <1>0, <1>1
<1>2. ASSUME NEW w \in Watchers, WatchNotify(w)
      PROVE  seen'[c] >= seen[c] /\ seen'[c] <= store.index
  <2>1. watch[w].got.index \in Int
    BY DEF TypeOK, Content
  <2>2. seen[c] <= watch[w].got.index /\ watch[w].got.index <= store.index
    BY <1>2 DEF Fresh, WatchNotify
  <2>3. seen'[c] \in {seen[c], watch[w].got.index}
    BY <1>2 DEF WatchNotify
  <2> QED
    BY <1>0, <2>1, <2>2, <2>3
<1> QED
  BY <1>1, <1>2, WatchMoves, OtherMoves DEF Next

LEMMA FreshNext == TypeOK /\ TypeOK' /\ OneActive /\ Fresh /\ [Next]_vars => Fresh'
<1> SUFFICES ASSUME TypeOK, TypeOK', OneActive, Fresh, [Next]_vars,
                    NEW c \in Callbacks
             PROVE  /\ seen'[c] <= store'.index
                    /\ \A w \in Watchers : watch'[w].at \in Told
                          => seen'[c] <= watch'[w].got.index
                             /\ watch'[w].got.index <= store'.index
  BY DEF Fresh, Told
<1>0. /\ store.index \in Int /\ store'.index \in Int /\ seen[c] \in Int /\ seen'[c] \in Int
      /\ \A w \in Watchers : watch[w].got.index \in Int
  BY DEF TypeOK, Content
<1>1. store.index <= store'.index
  BY <1>0, StepKinds DEF Quiet, Takes, SetsCenter, SetsGlobal
<1>2. seen'[c] <= store'.index
  BY <1>0, <1>1, CallbacksInOrderNext
<1>3. CASE \/ Put \/ Save \/ Delete \/ Stop \/ RefreshEnd \/ UNCHANGED vars
           \/ \E l \in Loaders : LoadGet(l) \/ LoadStep(l)
           \/ \E d \in Callbacks : OnChange(d)
  <2>1. UNCHANGED <<watch, seen>>
    BY <1>3, OtherMoves
  <2> QED
    BY <1>0, <1>1, <1>2, <2>1 DEF Fresh, Told
<1>4. ASSUME NEW w \in Watchers,
             Watch(w) \/ WatchAgain(w) \/ WatchReply(w) \/ WatchStep(w),
             NEW u \in Watchers, watch'[u].at \in Told
      PROVE  seen'[c] <= watch'[u].got.index /\ watch'[u].got.index <= store'.index
  <2>1. /\ \A v \in Watchers \ {w} : watch'[v] = watch[v]
        /\ WatchNotify(w) \/ UNCHANGED seen
    BY <1>4, WatchMoves
  <2>2. CASE WatchNotify(w)
    <3>1. watch[w].at \in Told /\ watch'[w].at = "top"
      BY <2>2 DEF WatchNotify, GoWatch, At, Told, TypeOK
    <3>2. u # w /\ watch[u].at \in Told
      BY <1>4, <2>1, <3>1 DEF Told
    <3> QED
      BY <3>1, <3>2, OneTold
  <2>3. CASE ~WatchNotify(w) /\ watch[u].at \in Told /\ watch'[u].got = watch[u].got
    BY <1>0, <1>1, <2>1, <2>3 DEF Fresh, Told
  <2>4. CASE u = w /\ WatchReply(w) /\ watch'[w].got = store
    BY <1>0, <1>1, <2>4 DEF Fresh, WatchReply
  <2> QED
    BY <1>4, <2>1, <2>2, <2>3, <2>4, ToldMoves
<1> QED
  BY <1>2, <1>3, <1>4 DEF Next

-----------------------------------------------------------------------------
(* The invariant *)

LEMMA InvInit == Init => Inv
<1> SUFFICES ASSUME Init PROVE Inv
  OBVIOUS
<1>1. \A t \in Workers : ~Holds(t)
  BY WorkersAssumption DEF Init, Workers, Holds, Place
<1>2. Order /\ Copies
  BY <1>1 DEF Init, Order, Copies, NoConfig
<1>3. OneActive /\ Fresh
  BY DEF Init, OneActive, Active, Fresh
<1> QED
  BY <1>2, <1>3, TypeInit DEF Inv

LEMMA InvNext == Inv /\ [Next]_vars => Inv'
  BY TypeNext, OrderNext, CopiesNext, OneActiveNext, FreshNext DEF Inv

LEMMA Invariant == Spec => []Inv
  BY InvInit, InvNext, PTL DEF Spec

\* The variables keep their types: goroutines are in places of consul.go only,
\* and wait on an index Consul has had.
THEOREM TypeCorrect == Spec => []TypeOK
  BY Invariant, PTL DEF Inv

\* The two copies agree whenever no update is under way, unless updates of two
\* goroutines overlapped and none has run alone since, for any number of
\* goroutines that load and watch.
THEOREM TheCopiesAgree == Spec => []CopiesAgree
<1>1. Inv => CopiesAgree
  BY UpdatingHold DEF Inv, Copies, CopiesAgree
<1> QED
  BY Invariant, <1>1, PTL

\* Of all notifications one at most comes after Stop, however many watchers were
\* started before and behind it.
THEOREM OneComesLate == Spec => []OneLateNotification
<1>1. Inv => OneLateNotification
  BY DEF Inv, OneActive, OneLateNotification
<1> QED
  BY Invariant, <1>1, PTL

\* A copy is never replaced by an older configuration, unless updates overlapped.
THEOREM CopiesGoForward == Spec => NoStepBack
<1>1. Inv /\ [Next]_vars =>
        [overlap' \/ (config'.index >= config.index /\ global'.index >= global.index)]_vars
  BY NoStepBackNext DEF Inv
<1> QED
  BY Invariant, <1>1, PTL DEF Spec, NoStepBack

\* A callback never sees an older configuration than before, also across Stop and
\* several calls of Watch.
THEOREM CallbacksGoForward == Spec => CallbacksInOrder
<1>1. Inv /\ [Next]_vars => [\A c \in Callbacks : seen'[c] >= seen[c]]_vars
  BY CallbacksInOrderNext DEF Inv
<1> QED
  BY Invariant, <1>1, PTL DEF Spec, CallbacksInOrder
=============================================================================
