---------------------------- MODULE ConfigCenter ----------------------------
(***************************************************************************)
(* The Consul configuration center, pkg/config/consul.go: Load, the        *)
(* watcher goroutine on blocking queries, the refresh loop, Stop, and the  *)
(* two places a configuration is kept in, ConsulConfigCenter.config and    *)
(* the package's globalConfig (config.go).  Nobody else sets the global    *)
(* one meanwhile: no config.Load of a file, no other center.  The key's    *)
(* content is followed by the Consul index of its last write and by its    *)
(* form.  Errors of a query leave everything as it is, so only the         *)
(* watcher's have an action (WatchAgain).                                  *)
(***************************************************************************)
EXTENDS Integers

CONSTANTS
    Watchers,   \* goroutines Watch can start
    Loaders,    \* goroutines that call Load, autoRefreshLoop's among them
    Callbacks,  \* functions given to OnChange
    MaxIndex    \* bound on Consul's index, for TLC

ASSUME WorkersAssumption == Watchers \cap Loaders = {}
ASSUME MaxIndexAssumption == MaxIndex \in Nat \ {0}

VARIABLES
    store,      \* the key in Consul
    lastIndex,  \* ConsulSource.lastIndex
    config,     \* ConsulConfigCenter.config
    global,     \* globalConfig
    isWatching,
    stopped,    \* ctx cancelled and watchStop closed
    autoRefresh,
    refreshing, \* autoRefreshLoop runs
    registered, \* callbacks
    watch,      \* each watcher's place in Watch and onChangeFn
    load,       \* each loader's place in Load
    seen,       \* (history) index of the configuration a callback saw last
    late,       \* (history) notifications after Stop
    overlap,    \* (history) updates overlapped since both copies were last set
    solo        \* (history) the updater that began with nobody else inside

vars == <<store, lastIndex, config, global, isWatching, stopped, autoRefresh,
          refreshing, registered, watch, load, seen, late, overlap, solo>>

\* "partial" is what Save leaves: its keys are Go field names, and parseConfig
\* finds those only whose mapstructure tag has no underscore.
Forms == {"absent", "broken", "whole", "partial"}
Content == [index : 0..MaxIndex, form : Forms]
Parses(c) == c.form \in {"whole", "partial"}
NoConfig == [index |-> 0, form |-> "absent"]

Updating == {w \in Watchers : watch[w].at \in {"index", "center", "global"}}
            \cup {l \in Loaders : load[l].at # "idle"}

\* Bookkeeping of overlaps, when t comes to hold a reply and when it has set both.
Begin(t) == /\ overlap' = (overlap \/ Updating # {})
            /\ solo' = IF Updating = {} THEN {t} ELSE {}
Finish(t) == /\ overlap' = (overlap /\ t \notin solo)
             /\ UNCHANGED solo

Init ==
    /\ store \in [index : {1}, form : {"absent", "whole"}]
    /\ lastIndex = 0 /\ config = NoConfig /\ global = NoConfig
    /\ isWatching = FALSE /\ stopped = FALSE
    /\ autoRefresh \in BOOLEAN /\ refreshing = FALSE
    /\ registered = {}
    /\ watch = [w \in Watchers |-> [at |-> "off", since |-> 0, got |-> NoConfig]]
    /\ load = [l \in Loaders |-> [at |-> "idle", got |-> NoConfig]]
    /\ seen = [c \in Callbacks |-> 0]
    /\ late = 0 /\ overlap = FALSE /\ solo = {}

-----------------------------------------------------------------------------
(* The key: another process writes it, Save writes it, Delete removes it *)

Write(form) ==
    /\ store.index < MaxIndex
    /\ store' = [index |-> store.index + 1, form |-> form]
    /\ UNCHANGED <<lastIndex, config, global, isWatching, stopped, autoRefresh,
                   refreshing, registered, watch, load, seen, late, overlap, solo>>

Put == \E form \in {"broken", "whole"} : Write(form)

\* Save takes any configuration, loaded here or not.
Save == Write("partial")

Delete == store.form # "absent" /\ Write("absent")

-----------------------------------------------------------------------------
(* Load, of a caller or of the refresh loop *)

Idle == [at |-> "idle", got |-> NoConfig]

GoLoad(l, at) ==
    load' = IF at = "idle" THEN [load EXCEPT ![l] = Idle] ELSE [load EXCEPT ![l].at = at]

LoadGet(l) ==
    /\ load[l].at = "idle"
    /\ store.form # "absent"
    /\ load' = [load EXCEPT ![l] = [at |-> "index", got |-> store]]
    /\ Begin(l)
    /\ UNCHANGED <<store, lastIndex, config, global, isWatching, stopped,
                   autoRefresh, refreshing, registered, watch, seen, late>>

\* (Faulty variant of LoadIndex: cfg is stored before it is parsed.)
LoadIndexUnparsed(l) ==
    /\ load[l].at = "index"
    /\ lastIndex' = load[l].got.index
    /\ config' = IF Parses(load[l].got) THEN config ELSE NoConfig
    /\ GoLoad(l, IF Parses(load[l].got) THEN "center" ELSE "idle")
    /\ UNCHANGED <<store, global, isWatching, stopped, autoRefresh,
                   refreshing, registered, watch, seen, late, overlap, solo>>

\* (Faulty variant of LoadIndex: an index already seen needs no update.)
LoadIndexUnchanged(l) ==
    /\ load[l].at = "index"
    /\ lastIndex' = load[l].got.index
    /\ GoLoad(l, IF Parses(load[l].got) /\ load[l].got.index # lastIndex
                 THEN "center" ELSE "idle")
    /\ UNCHANGED <<store, config, global, isWatching, stopped, autoRefresh,
                   refreshing, registered, watch, seen, late, overlap, solo>>

\* The index is set whether or not the content then parses.
LoadIndex(l) ==
    /\ load[l].at = "index"
    /\ lastIndex' = load[l].got.index
    /\ GoLoad(l, IF Parses(load[l].got) THEN "center" ELSE "idle")
    /\ UNCHANGED <<store, config, global, isWatching, stopped, autoRefresh,
                   refreshing, registered, watch, seen, late, overlap, solo>>

LoadCenter(l) ==
    /\ load[l].at = "center"
    /\ config' = load[l].got
    /\ GoLoad(l, "global")
    /\ UNCHANGED <<store, lastIndex, global, isWatching, stopped, autoRefresh,
                   refreshing, registered, watch, seen, late, overlap, solo>>

LoadGlobal(l) ==
    /\ load[l].at = "global"
    /\ global' = load[l].got
    /\ GoLoad(l, "idle")
    /\ Finish(l)
    /\ UNCHANGED <<store, lastIndex, config, isWatching, stopped, autoRefresh,
                   refreshing, registered, watch, seen, late>>

\* A tick of the refresh loop is a Load like a caller's. With the context done
\* select may still take a tick that is due.
RefreshTick(l) == refreshing /\ LoadGet(l)

RefreshEnd ==
    /\ refreshing /\ stopped
    /\ refreshing' = FALSE
    /\ UNCHANGED <<store, lastIndex, config, global, isWatching, stopped,
                   autoRefresh, registered, watch, load, seen, late, overlap, solo>>

-----------------------------------------------------------------------------
(* Watch, its goroutine, and Stop *)

Start(w) ==
    /\ watch[w].at = "off"
    /\ isWatching' = TRUE
    /\ watch' = [watch EXCEPT ![w].at = "top"]
    /\ refreshing' = (refreshing \/ autoRefresh)
    /\ UNCHANGED <<store, lastIndex, config, global, stopped, autoRefresh,
                   registered, load, seen, late, overlap, solo>>

\* (Faulty variant of Watch: does not look at isWatching.)
WatchAlways(w) == Start(w)

Watch(w) == ~isWatching /\ Start(w)

At(place) == [at |-> place, since |-> 0, got |-> NoConfig]

GoWatch(w, at) == watch' = IF at \in {"top", "off"}
                           THEN [watch EXCEPT ![w] = At(at)]
                           ELSE [watch EXCEPT ![w].at = at]

WatchEnd(w) ==
    /\ watch[w].at = "top" /\ stopped
    /\ GoWatch(w, "off")
    /\ UNCHANGED <<store, lastIndex, config, global, isWatching, stopped, autoRefresh,
                   refreshing, registered, load, seen, late, overlap, solo>>

Query(w) ==
    /\ watch[w].at = "top"
    /\ watch' = [watch EXCEPT ![w].at = "query", ![w].since = lastIndex]
    /\ UNCHANGED <<store, lastIndex, config, global, isWatching, stopped, autoRefresh,
                   refreshing, registered, load, seen, late, overlap, solo>>

\* (Faulty variant of WatchQuery: the loop does not ask whether it was stopped.)
WatchQueryAnyway(w) == Query(w)

WatchQuery(w) == ~stopped /\ Query(w)

\* The query fails, or WaitTime passes without a change.
WatchAgain(w) ==
    /\ watch[w].at = "query"
    /\ GoWatch(w, "top")
    /\ UNCHANGED <<store, lastIndex, config, global, isWatching, stopped, autoRefresh,
                   refreshing, registered, load, seen, late, overlap, solo>>

WatchReply(w) ==
    /\ watch[w].at = "query"
    /\ store.index > watch[w].since
    /\ watch' = [watch EXCEPT ![w] = [at |-> "index", since |-> 0, got |-> store]]
    /\ Begin(w)
    /\ UNCHANGED <<store, lastIndex, config, global, isWatching, stopped, autoRefresh,
                   refreshing, registered, load, seen, late>>

\* (Faulty variant of WatchIndex: waits on the index after the one it got.)
WatchIndexNext(w) ==
    /\ watch[w].at = "index"
    /\ lastIndex' = watch[w].got.index + 1
    /\ GoWatch(w, IF Parses(watch[w].got) THEN "center" ELSE "top")
    /\ UNCHANGED <<store, config, global, isWatching, stopped, autoRefresh,
                   refreshing, registered, load, seen, late, overlap, solo>>

\* A deleted key has an index but no pair: onChangeFn is not called.
WatchIndex(w) ==
    /\ watch[w].at = "index"
    /\ lastIndex' = watch[w].got.index
    /\ GoWatch(w, IF Parses(watch[w].got) THEN "center" ELSE "top")
    /\ UNCHANGED <<store, config, global, isWatching, stopped, autoRefresh,
                   refreshing, registered, load, seen, late, overlap, solo>>

WatchCenter(w) ==
    /\ watch[w].at = "center"
    /\ config' = watch[w].got
    /\ GoWatch(w, "global")
    /\ UNCHANGED <<store, lastIndex, global, isWatching, stopped, autoRefresh,
                   refreshing, registered, load, seen, late, overlap, solo>>

\* (Faulty variant of WatchGlobal: only the center is updated.)
WatchGlobalForgotten(w) ==
    /\ watch[w].at = "global"
    /\ GoWatch(w, "notify")
    /\ Finish(w)
    /\ UNCHANGED <<store, lastIndex, config, global, isWatching, stopped, autoRefresh,
                   refreshing, registered, load, seen, late>>

WatchGlobal(w) ==
    /\ watch[w].at = "global"
    /\ global' = watch[w].got
    /\ GoWatch(w, "notify")
    /\ Finish(w)
    /\ UNCHANGED <<store, lastIndex, config, isWatching, stopped, autoRefresh,
                   refreshing, registered, load, seen, late>>

\* The copy of the callbacks and their calls, one after the other.
WatchNotify(w) ==
    /\ watch[w].at = "notify"
    /\ seen' = [c \in Callbacks |->
                   IF c \in registered THEN watch[w].got.index ELSE seen[c]]
    /\ late' = IF stopped THEN late + 1 ELSE late
    /\ GoWatch(w, "top")
    /\ UNCHANGED <<store, lastIndex, config, global, isWatching, stopped, autoRefresh,
                   refreshing, registered, load, overlap, solo>>

OnChange(c) ==
    /\ registered' = registered \cup {c}
    /\ UNCHANGED <<store, lastIndex, config, global, isWatching, stopped, autoRefresh,
                   refreshing, watch, load, seen, late, overlap, solo>>

\* Once: a second Stop closes a closed channel and panics.
Stop ==
    /\ ~stopped
    /\ stopped' = TRUE
    /\ isWatching' = FALSE
    /\ UNCHANGED <<store, lastIndex, config, global, autoRefresh, refreshing,
                   registered, watch, load, seen, late, overlap, solo>>

-----------------------------------------------------------------------------

LoadStep(l) == LoadIndex(l) \/ LoadCenter(l) \/ LoadGlobal(l)

WatchStep(w) == WatchEnd(w) \/ WatchQuery(w) \/ WatchIndex(w) \/ WatchCenter(w)
                \/ WatchGlobal(w) \/ WatchNotify(w)

Next ==
    \/ Put \/ Save \/ Delete \/ Stop \/ RefreshEnd
    \/ \E l \in Loaders : LoadGet(l) \/ LoadStep(l)
    \/ \E w \in Watchers : Watch(w) \/ WatchAgain(w) \/ WatchReply(w) \/ WatchStep(w)
    \/ \E c \in Callbacks : OnChange(c)

Spec == Init /\ [][Next]_vars

\* Goroutines run, the ticker ticks, and queries do not fail for ever.
Fairness ==
    /\ \A l \in Loaders : WF_vars(LoadStep(l)) /\ WF_vars(RefreshTick(l))
    /\ \A w \in Watchers : WF_vars(WatchStep(w)) /\ SF_vars(WatchReply(w))

FairSpec == Spec /\ Fairness

-----------------------------------------------------------------------------
(* Properties *)

\* Types of the variables, and the places a goroutine of consul.go can be in.
TypeOK ==
    /\ store \in Content /\ config \in Content /\ global \in Content
    /\ lastIndex \in 0..MaxIndex
    /\ isWatching \in BOOLEAN /\ stopped \in BOOLEAN
    /\ autoRefresh \in BOOLEAN /\ refreshing \in BOOLEAN
    /\ registered \subseteq Callbacks
    /\ watch \in [Watchers ->
           [at : {"off", "top", "query", "index", "center", "global", "notify"},
            since : 0..MaxIndex, got : Content]]
    /\ load \in [Loaders -> [at : {"idle", "index", "center", "global"}, got : Content]]
    /\ seen \in [Callbacks -> 0..MaxIndex]
    /\ late \in Nat /\ overlap \in BOOLEAN /\ solo \subseteq Watchers \cup Loaders

\* Get of the center and Get of the package answer the same configuration when
\* no update is under way, unless updates of two goroutines overlapped and none
\* has run alone since: only then can the two locks be taken in different orders.
CopiesAgree == Updating = {} /\ ~overlap => config = global

\* Neither copy goes back to an older configuration unless updates overlapped,
\* although replies are applied some steps after they were given.
NoStepBack ==
    [][overlap' \/ (config'.index >= config.index /\ global'.index >= global.index)]_vars

\* A callback of OnChange never sees an older configuration than the one it saw
\* before, also when Watch is called several times and after Stop.
CallbacksInOrder == [][\A c \in Callbacks : seen'[c] >= seen[c]]_vars

\* Stop does not interrupt a notification, but at most one comes after it.
OneLateNotification == late <= 1

Served == ~stopped /\ \E w \in Watchers : watch[w].at # "off"

\* While the center is watched, both copies reach the content of the key once it
\* settles on one that parses: a missed index is made good by the next query,
\* and what an overlap left behind by the refresh loop, where it is enabled.
CatchesUp ==
    <>[](Served /\ Parses(store) /\ (refreshing \/ ~overlap))
        => <>[](config = store /\ global = store)
=============================================================================
