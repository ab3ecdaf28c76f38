----------------------- MODULE SlidingWindowLimiter -----------------------
(***************************************************************************)
(* The window limiter of pkg/server/middleware/ratelimit.go: AllowN counts  *)
(* what a key was granted in a window that starts at the key's first        *)
(* request, and a background goroutine forgets the windows of idle keys.    *)
(* Every operation runs under the limiter's mutex, cleanup's whole loop     *)
(* too, so each is one step.                                                *)
(***************************************************************************)
EXTENDS Integers

CONSTANTS
    Keys,        \* limiter keys
    Limit,       \* SlidingWindowLimiter.limit
    WindowLen,   \* SlidingWindowLimiter.windowLen, in ticks
    Sizes,       \* the n of AllowN(key, n)
    NoWindow,    \* the absent map entry
    MaxTime      \* bound on the clock

ASSUME LimitAssumption == Limit \in Nat
ASSUME WindowLenAssumption == WindowLen \in Nat \ {0}
ASSUME SizesAssumption == Sizes \subseteq Nat
ASSUME MaxTimeAssumption == MaxTime \in Nat
ASSUME NoWindowAssumption == NoWindow \notin [count : Nat, startTime : Nat]

VARIABLES
    now,      \* the clock
    windows,  \* SlidingWindowLimiter.windows
    granted   \* (history) what each key was granted before each time

vars == <<now, windows, granted>>

Times == 0..MaxTime
Moments == 0..(MaxTime + 1)

\* A window holds what it granted, or one request too large to be granted.
Window == [count : 0..Limit \cup Sizes, startTime : Times]

TypeOK ==
    /\ now \in Times
    /\ windows \in [Keys -> Window \cup {NoWindow}]
    /\ granted \in [Keys -> [Moments -> Nat]]

Init ==
    /\ now = 0
    /\ windows = [k \in Keys |-> NoWindow]
    /\ granted = [k \in Keys |-> [t \in Moments |-> 0]]

Age(w) == now - w.startTime

\* AllowN has to open a new window.
Expired(k) == windows[k] # NoWindow => Age(windows[k]) >= WindowLen

\* What AllowN(k, n) answers.
Allows(k, n) ==
    IF Expired(k) THEN n <= Limit ELSE windows[k].count + n <= Limit

Grant(k, n) ==
    granted' = [granted EXCEPT ![k] =
        [t \in Moments |-> IF t > now THEN granted[k][t] + n ELSE granted[k][t]]]

\* (Faulty variant of AllowFresh) Resets the count of an expired window, not
\* its start.
AllowFreshKeepsStart(k, n) ==
    LET start == IF windows[k] = NoWindow THEN now ELSE windows[k].startTime IN
    /\ Expired(k)
    /\ windows' = [windows EXCEPT ![k] = [count |-> n, startTime |-> start]]
    /\ IF Allows(k, n) THEN Grant(k, n) ELSE UNCHANGED granted
    /\ UNCHANGED now

\* AllowN opening a window: it counts n in it even when it refuses n.
AllowFresh(k, n) ==
    /\ Expired(k)
    /\ windows' = [windows EXCEPT ![k] = [count |-> n, startTime |-> now]]
    /\ IF Allows(k, n) THEN Grant(k, n) ELSE UNCHANGED granted
    /\ UNCHANGED now

\* (Faulty variant of AllowInWindow) Checks the limit before adding n.
AllowInWindowCheckedBefore(k, n) ==
    /\ ~Expired(k)
    /\ windows[k].count <= Limit
    /\ windows' = [windows EXCEPT ![k].count = @ + n]
    /\ Grant(k, n)
    /\ UNCHANGED now

\* AllowN granting from the open window.
AllowInWindow(k, n) ==
    /\ ~Expired(k)
    /\ Allows(k, n)
    /\ windows' = [windows EXCEPT ![k].count = @ + n]
    /\ Grant(k, n)
    /\ UNCHANGED now

\* AllowN refusing from the open window.
Refuse(k, n) ==
    /\ ~Expired(k)
    /\ ~Allows(k, n)
    /\ UNCHANGED vars

\* (Faulty variant of Cleanup) Forgets windows that are still open.
CleanupHalf ==
    /\ windows' = [k \in Keys |->
                    IF windows[k] # NoWindow /\ Age(windows[k]) * 2 >= WindowLen
                    THEN NoWindow ELSE windows[k]]
    /\ UNCHANGED <<now, granted>>

\* A tick of the one-minute ticker: forget the windows twice their length old.
Cleanup ==
    /\ windows' = [k \in Keys |->
                    IF windows[k] # NoWindow /\ Age(windows[k]) >= WindowLen * 2
                    THEN NoWindow ELSE windows[k]]
    /\ UNCHANGED <<now, granted>>

Tick ==
    /\ now < MaxTime
    /\ now' = now + 1
    /\ UNCHANGED <<windows, granted>>

AllowN(k, n) == AllowFresh(k, n) \/ AllowInWindow(k, n) \/ Refuse(k, n)

Next ==
    \/ \E k \in Keys, n \in Sizes : AllowN(k, n)
    \/ Cleanup
    \/ Tick

Spec == Init /\ [][Next]_vars

-----------------------------------------------------------------------------
(* Properties *)

\* The bound the limiter really gives: at most two windows overlap an interval
\* of one window length, so a key never gets more than twice the limit in one.
TwiceTheLimit ==
    \A k \in Keys : \A s, t \in Moments :
        s <= t /\ t - s <= WindowLen => granted[k][t] - granted[k][s] <= 2 * Limit

\* Forgetting windows is invisible: cleanup changes no answer AllowN can give
\* (a forgotten key would have opened a new window anyway).
CleanupInvisible ==
    [][Cleanup => \A k \in Keys, n \in Sizes : Allows(k, n)' = Allows(k, n)]_vars
=============================================================================
