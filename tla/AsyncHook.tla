----------------------------- MODULE AsyncHook -----------------------------
(***************************************************************************)
(* The asynchronous hook of goupter's pkg/log/hook.go: goroutines that log   *)
(* through a HookedLogger leave their entries in a channel, and one          *)
(* goroutine takes them out and fires the wrapped hook, which may take any   *)
(* time or never return.  Entries are only counted.                          *)
(***************************************************************************)
EXTENDS Naturals

CONSTANTS
    Loggers,   \* goroutines that log
    BufferSize \* of the channel, at least 1

VARIABLES
    logger,    \* where each goroutine is in a call of HookedLogger
    ch,        \* entries in the channel
    run,       \* what the goroutine of the hook does
    cancelled  \* Close was called

vars == <<logger, ch, run, cancelled>>

Init ==
    /\ logger = [g \in Loggers |-> "idle"]
    /\ ch = 0 /\ run = "select" /\ cancelled = FALSE

\* Debug, Info, Warn, Error and Fatal of HookedLogger: fireHooks, then the logger.
Call(g) ==
    /\ logger[g] = "idle"
    /\ logger' = [logger EXCEPT ![g] = "hooks"]
    /\ UNCHANGED <<ch, run, cancelled>>

\* (Faulty variant of Fire: it waits for room.)
FireBlocking(g) ==
    /\ logger[g] = "hooks" /\ ch < BufferSize
    /\ logger' = [logger EXCEPT ![g] = "write"]
    /\ ch' = ch + 1
    /\ UNCHANGED <<run, cancelled>>

\* AsyncHook.Fire puts the entry into the channel, or drops it when that is full.
Fire(g) ==
    /\ logger[g] = "hooks"
    /\ logger' = [logger EXCEPT ![g] = "write"]
    /\ ch' = IF ch < BufferSize THEN ch + 1 ELSE ch
    /\ UNCHANGED <<run, cancelled>>

\* The wrapped logger writes, and the call is over.
Write(g) ==
    /\ logger[g] = "write"
    /\ logger' = [logger EXCEPT ![g] = "idle"]
    /\ UNCHANGED <<ch, run, cancelled>>

\* The select of run: an entry, or the end; with both ready it is either.
Take ==
    /\ run = "select" /\ ch > 0
    /\ run' = "firing" /\ ch' = ch - 1
    /\ UNCHANGED <<logger, cancelled>>

Stop ==
    /\ run = "select" /\ cancelled
    /\ run' = "ended"
    /\ UNCHANGED <<logger, ch, cancelled>>

\* The wrapped hook returns, if it does.
Returns ==
    /\ run = "firing"
    /\ run' = "select"
    /\ UNCHANGED <<logger, ch, cancelled>>

\* Close does not wait for the goroutine, nor for the entries in the channel.
Close ==
    /\ cancelled' = TRUE
    /\ UNCHANGED <<logger, ch, run>>

Next ==
    \/ Take \/ Stop \/ Returns \/ Close
    \/ \E g \in Loggers : Call(g) \/ Fire(g) \/ Write(g)

\* Goroutines that can run do; nothing is assumed of the wrapped hook.
Fairness ==
    /\ \A g \in Loggers : WF_vars(Fire(g)) /\ WF_vars(Write(g))
    /\ WF_vars(Take \/ Stop)

Spec == Init /\ [][Next]_vars /\ Fairness

-----------------------------------------------------------------------------
(* Properties *)

\* Types of the variables.
TypeOK ==
    /\ logger \in [Loggers -> {"idle", "hooks", "write"}]
    /\ ch \in 0..BufferSize /\ run \in {"select", "firing", "ended"} /\ cancelled \in BOOLEAN

\* A goroutine that logs comes back, also while the wrapped hook hangs with the
\* channel full, and after Close when nobody empties it any more.
LogCallsReturn == \A g \in Loggers : logger[g] # "idle" ~> logger[g] = "idle"
=============================================================================
