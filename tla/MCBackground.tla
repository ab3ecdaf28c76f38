--------------------------- MODULE MCBackground ---------------------------
(***************************************************************************)
(* One run for three parts of goupter in which something happens behind the  *)
(* back of a caller: the memory cache, the watch of a service, and the hook  *)
(* with a queue.  They share nothing: a behaviour takes the steps of one of  *)
(* them.                                                                    *)
(***************************************************************************)
EXTENDS ServiceWatch

CONSTANTS Keys, Items, Nil, MaxNumber, Ttls, Loggers, BufferSize

\* A term is positive, and an address is not the one that is none.
ASSUME MemoryAssumption == Ttls \subseteq Nat \ {0} /\ MaxNumber \in Nat /\ Nil \notin Items

VARIABLES
    part,
    data, item, reader, held, answer,                             \* MemoryCache
    logger, ch, run, closed                                       \* AsyncHook

M == INSTANCE MemoryCache
A == INSTANCE AsyncHook WITH cancelled <- closed

memoryVars == <<data, item, reader, held, answer>>
hookVars == <<logger, ch, run, closed>>

BackgroundInit == part \in {"watch", "memory", "hook"} /\ Init /\ M!Init /\ A!Init

Service(Act) == part = "watch" /\ Act /\ UNCHANGED <<part, memoryVars, hookVars>>
Memory(Act) == part = "memory" /\ Act /\ UNCHANGED <<part, vars, hookVars>>
Hook(Act) == part = "hook" /\ Act /\ UNCHANGED <<part, vars, memoryVars>>

BackgroundNext ==
    \/ Service(Change) \/ Service(Restore) \/ Service(Close)
    \/ \E c \in Calls :
        \/ Service(Watch(c)) \/ Service(Cancel(c)) \/ Service(End(c)) \/ Service(Query(c))
        \/ Service(Again(c)) \/ Service(Reply(c)) \/ Service(Callback(c))
    \/ Memory(M!Set) \/ Memory(M!SetNX) \/ Memory(M!Incr) \/ Memory(M!Delete)
    \/ Memory(M!Expire) \/ Memory(M!ExpireTorn) \/ Memory(M!Cleanup) \/ Memory(M!Tick)
    \/ Memory(M!Lookup) \/ Memory(M!Test) \/ Memory(M!MGet)
    \/ Hook(A!Take) \/ Hook(A!Stop) \/ Hook(A!Returns) \/ Hook(A!Close)
    \/ \E g \in Loggers : Hook(A!Call(g)) \/ Hook(A!Fire(g)) \/ Hook(A!Write(g))

\* A part that takes no steps has nothing its fairness could ask for.
BackgroundSpec ==
    BackgroundInit /\ [][BackgroundNext]_<<part, vars, memoryVars, hookVars>> /\ Fairness /\ A!Fairness

-----------------------------------------------------------------------------
(* Properties of the parts other than ServiceWatch, as their modules state them *)

\* The memory cache implements the map with expiry of CachePromise.
KeepsPromise == M!KeepsPromise

\* A goroutine that logs comes back, whatever becomes of an asynchronous hook.
LogCallsReturn == A!LogCallsReturn
=============================================================================
