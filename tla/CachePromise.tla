---------------------------- MODULE CachePromise ----------------------------
(***************************************************************************)
(* What a cache of pkg/cache promises its callers: a map in which every     *)
(* change is one step and values lapse by themselves, and reads that take   *)
(* time and answer what the key held at some moment of the read, or that it *)
(* was not found. MemoryCache implements it.                                *)
(***************************************************************************)
EXTENDS Integers

CONSTANTS Keys, Values, Ttls, Forever

VARIABLES
    content, \* the entry of each key: its value, 0 for none, and the ticks it has left
    lapsed,  \* value of a key that lapsed and may be brought back, or 0
    asked,   \* the key the reader asks for, or none
    held,    \* values that key had since the read began
    answer   \* what the last read answered, a map of the keys it asked for

vars == <<content, lapsed, asked, held, answer>>

None == [value |-> 0, left |-> Forever]
With(v, ttl) == [value |-> v, left |-> ttl]

\* A change of content is seen by the read under way.
Change(next) ==
    /\ content' = next
    /\ held' = IF asked = {} THEN {} ELSE held \cup {next[k].value : k \in asked}
    /\ UNCHANGED <<asked, answer>>

Init ==
    /\ content = [k \in Keys |-> None]
    /\ lapsed = [k \in Keys |-> 0]
    /\ asked = {} /\ held = {} /\ answer = <<>>

\* Set, and MSet as one step. The values that lapsed are gone then.
Set == \E ks \in SUBSET Keys, v \in Values, ttl \in Ttls \cup {Forever} :
    /\ Change([k \in Keys |-> IF k \in ks THEN With(v, ttl) ELSE content[k]])
    /\ lapsed' = [k \in Keys |-> IF k \in ks THEN 0 ELSE lapsed[k]]

\* SetNX succeeds on a key without a value only.
SetNX == \E k \in Keys, v \in Values, ttl \in Ttls \cup {Forever} :
    /\ content[k].value = 0
    /\ Change([content EXCEPT ![k] = With(v, ttl)])
    /\ lapsed' = [lapsed EXCEPT ![k] = 0]

\* Incr counts what it found, from 0 if there was nothing, and keeps it for ever.
Incr == \E k \in Keys :
    /\ Change([content EXCEPT ![k] = With(@.value + 1, Forever)])
    /\ lapsed' = [lapsed EXCEPT ![k] = 0]

Delete == \E ks \in SUBSET Keys :
    /\ Change([k \in Keys |-> IF k \in ks THEN None ELSE content[k]])
    /\ lapsed' = [k \in Keys |-> IF k \in ks THEN 0 ELSE lapsed[k]]

\* Expire gives what the key holds, or held until it lapsed, a new term.
Expire == \E k \in Keys, ttl \in Ttls :
    /\ content[k].value + lapsed[k] > 0
    /\ Change([content EXCEPT ![k] = With(content[k].value + lapsed[k], ttl)])
    /\ lapsed' = [lapsed EXCEPT ![k] = 0]

\* A term that is over at once.
Lapse == \E k \in Keys :
    /\ content[k].value + lapsed[k] > 0
    /\ Change([content EXCEPT ![k] = None])
    /\ lapsed' = [lapsed EXCEPT ![k] = content[k].value + lapsed[k]]

Forget == \E ks \in SUBSET Keys :
    /\ lapsed' = [k \in Keys |-> IF k \in ks THEN 0 ELSE lapsed[k]]
    /\ UNCHANGED <<content, asked, held, answer>>

Tick ==
    /\ Change([k \in Keys |->
          IF content[k].left = Forever THEN content[k]
          ELSE IF content[k].left = 0 THEN None
          ELSE With(content[k].value, content[k].left - 1)])
    /\ lapsed' = [k \in Keys |-> IF content[k].left = 0 THEN content[k].value ELSE lapsed[k]]

Begin == \E k \in Keys :
    /\ asked = {}
    /\ asked' = {k} /\ held' = {content[k].value} /\ answer' = <<>>
    /\ UNCHANGED <<content, lapsed>>

End == \E k \in asked, v \in held \cup {0} :
    /\ answer' = [x \in {k} |-> v]
    /\ asked' = {} /\ held' = {}
    /\ UNCHANGED <<content, lapsed>>

\* MGet is one step, so it never sees half of an MSet; a key about to lapse may be
\* found or not.
MGet == \E late \in SUBSET {k \in Keys : content[k].left = 0} :
    /\ asked = {}
    /\ answer' = [k \in Keys |-> IF k \in late THEN 0 ELSE content[k].value]
    /\ UNCHANGED <<content, lapsed, asked, held>>

Next == Set \/ SetNX \/ Incr \/ Delete \/ Expire \/ Lapse \/ Forget \/ Tick \/ Begin \/ End \/ MGet

Spec == Init /\ [][Next]_vars
=============================================================================
