---------------------------- MODULE ServiceWatch ----------------------------
(***************************************************************************)
(* Watch and Close of pkg/discovery/consul.go for one service name: the     *)
(* goroutine of each Watch, which repeats blocking queries, and the entry   *)
(* of ConsulDiscovery.watchers, which can cancel the latest of them. The    *)
(* list of healthy instances is known by Consul's index of its last change. *)
(***************************************************************************)
EXTENDS Integers, FiniteSets

CONSTANTS
    Calls,      \* calls of Watch
    MaxChange,  \* bound on Consul's index, for TLC
    Nobody      \* no entry in watchers

ASSUME MaxChangeAssumption == MaxChange \in Nat \ {0}
ASSUME NobodyAssumption == Nobody \notin Calls

VARIABLES
    catalog,   \* Consul's index of the service's instances
    rewound,   \* Consul was restored, and its index went back
    watchers,  \* watchers[name]
    cancelled, \* calls whose context is done
    watcher,   \* each call's goroutine: its place, lastIndex, and the reply
    shown,     \* index of the list each callback was given last
    after      \* (history) lists given by each goroutine after it was cancelled

vars == <<catalog, rewound, watchers, cancelled, watcher, shown, after>>

Init ==
    /\ catalog = 1 /\ rewound = FALSE
    /\ watchers = Nobody
    /\ cancelled = {}
    /\ watcher = [c \in Calls |-> [at |-> "off", lastIndex |-> 0, reply |-> 0]]
    /\ shown = [c \in Calls |-> 0]
    /\ after = [c \in Calls |-> 0]

Change ==
    /\ catalog < MaxChange
    /\ catalog' = catalog + 1
    /\ UNCHANGED <<rewound, watchers, cancelled, watcher, shown, after>>

\* Consul is restored from a snapshot and counts from a lower index again.
Restore ==
    /\ ~rewound /\ catalog > 1
    /\ catalog' = 1 /\ rewound' = TRUE
    /\ UNCHANGED <<watchers, cancelled, watcher, shown, after>>

Begin(c) == watcher' = [watcher EXCEPT ![c].at = "top"]

\* (Faulty variant of Watch: the goroutine before is left running.)
WatchBeside(c) ==
    /\ watcher[c].at = "off" /\ c \notin cancelled
    /\ Begin(c)
    /\ watchers' = c
    /\ UNCHANGED <<catalog, rewound, cancelled, shown, after>>

Watch(c) ==
    /\ watcher[c].at = "off" /\ c \notin cancelled
    /\ Begin(c)
    /\ cancelled' = cancelled \cup ({watchers} \ {Nobody})
    /\ watchers' = c
    /\ UNCHANGED <<catalog, rewound, shown, after>>

\* The caller's own context ends. The entry stays.
Cancel(c) ==
    /\ watcher[c].at # "off"
    /\ cancelled' = cancelled \cup {c}
    /\ UNCHANGED <<catalog, rewound, watchers, watcher, shown, after>>

Close ==
    /\ watchers # Nobody
    /\ cancelled' = cancelled \cup {watchers}
    /\ watchers' = Nobody
    /\ UNCHANGED <<catalog, rewound, watcher, shown, after>>

End(c) ==
    /\ watcher[c].at = "top" /\ c \in cancelled
    /\ watcher' = [watcher EXCEPT ![c].at = "off"]
    /\ UNCHANGED <<catalog, rewound, watchers, cancelled, shown, after>>

\* (Faulty variant of Query: it waits for what comes after the present index.)
QueryFromNow(c) ==
    /\ watcher[c].at = "top" /\ c \notin cancelled
    /\ watcher' = [watcher EXCEPT ![c].at = "query", ![c].lastIndex = catalog]
    /\ UNCHANGED <<catalog, rewound, watchers, cancelled, shown, after>>

Query(c) ==
    /\ watcher[c].at = "top" /\ c \notin cancelled
    /\ watcher' = [watcher EXCEPT ![c].at = "query"]
    /\ UNCHANGED <<catalog, rewound, watchers, cancelled, shown, after>>

\* The query fails, or its wait passes: lastIndex stays.
Again(c) ==
    /\ watcher[c].at = "query"
    /\ watcher' = [watcher EXCEPT ![c].at = "top"]
    /\ UNCHANGED <<catalog, rewound, watchers, cancelled, shown, after>>

\* Without the context in its options a query is not interrupted by cancel.
Reply(c) ==
    /\ watcher[c].at = "query"
    /\ catalog > watcher[c].lastIndex
    /\ watcher' = [watcher EXCEPT ![c] =
           [at |-> "callback", lastIndex |-> catalog, reply |-> catalog]]
    /\ UNCHANGED <<catalog, rewound, watchers, cancelled, shown, after>>

\* (Faulty variant of Callback: goes on to the next query without a look at Done.)
CallbackAndQuery(c) ==
    /\ watcher[c].at = "callback"
    /\ shown' = [shown EXCEPT ![c] = watcher[c].reply]
    /\ after' = [after EXCEPT ![c] = IF c \in cancelled THEN @ + 1 ELSE @]
    /\ watcher' = [watcher EXCEPT ![c].at = "query", ![c].reply = 0]
    /\ UNCHANGED <<catalog, rewound, watchers, cancelled>>

Callback(c) ==
    /\ watcher[c].at = "callback"
    /\ shown' = [shown EXCEPT ![c] = watcher[c].reply]
    /\ after' = [after EXCEPT ![c] = IF c \in cancelled THEN @ + 1 ELSE @]
    /\ watcher' = [watcher EXCEPT ![c].at = "top", ![c].reply = 0]
    /\ UNCHANGED <<catalog, rewound, watchers, cancelled>>

Step(c) == End(c) \/ Query(c) \/ Callback(c)

Next ==
    \/ Change \/ Restore \/ Close
    \/ \E c \in Calls : \/ Watch(c) \/ Cancel(c)
                        \/ End(c) \/ Query(c) \/ Again(c) \/ Reply(c) \/ Callback(c)

Spec == Init /\ [][Next]_vars

\* Goroutines run, and queries do not fail for ever.
Fairness == \A c \in Calls : WF_vars(Step(c)) /\ SF_vars(Reply(c))

-----------------------------------------------------------------------------
(* Properties *)

\* Types of the variables.
TypeOK ==
    /\ catalog \in 1..MaxChange /\ rewound \in BOOLEAN
    /\ watchers \in Calls \cup {Nobody}
    /\ cancelled \subseteq Calls
    /\ watcher \in [Calls -> [at : {"off", "top", "query", "callback"},
                              lastIndex : 0..MaxChange, reply : 0..MaxChange]]
    /\ shown \in [Calls -> 0..MaxChange]
    /\ after \in [Calls -> Nat]

\* The name has one watcher: a goroutine that nobody cancelled is the one in the
\* map, which the next Watch and Close reach; and one that was cancelled gives its
\* callback one more list at the most, from the query it was waiting for.
OneWatcher ==
    \A c \in Calls : /\ watcher[c].at # "off" /\ c \notin cancelled => watchers = c
                     /\ after[c] <= 1

\* While its context lives, a watcher's callback is given the instances as they
\* stay in the end, whatever changed between its queries, as long as Consul's index
\* only grows: the comparison with lastIndex drops what a restored Consul says.
ShowsLatest ==
    \A c \in Calls :
        <>[](watcher[c].at # "off" /\ c \notin cancelled /\ ~rewound)
            => <>[](shown[c] = catalog)
=============================================================================
