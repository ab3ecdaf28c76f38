----------------------------- MODULE NatsClient -----------------------------
(***************************************************************************)
(* The subscriptions of pkg/mq/nats.go: the map NATSClient.subscriptions    *)
(* against the subscriptions that exist on the connection. The client asks  *)
(* the connection outside its mutex and writes the map inside it. A topic   *)
(* is a sequence of parts, so that the key of a queue subscription, topic   *)
(* and queue with a colon between, can be that of a topic. Publishing and   *)
(* the handlers leave all of this alone.                                    *)
(***************************************************************************)
EXTENDS Sequences, FiniteSets

CONSTANTS
    Users,   \* goroutines that use one client
    Topics,  \* sequences of parts
    Queues,  \* single parts
    Subs,    \* subscriptions the connection can make
    None     \* no subscription

VARIABLES
    conn,          \* the connection
    live,          \* subscriptions the server delivers to
    made,          \* subscriptions made so far
    subscriptions, \* NATSClient.subscriptions
    use,           \* each goroutine's place in an operation
    replaced       \* (history) subscriptions whose key was written over

vars == <<conn, live, made, subscriptions, use, replaced>>

Keys == Topics \cup {t \o <<q>> : t \in Topics, q \in Queues}
AtRest == [at |-> "rest", key |-> <<>>, sub |-> None]

\* Before NewNATSClient there is no connection.
Init ==
    /\ conn = "none"
    /\ live = {} /\ made = {} /\ replaced = {}
    /\ subscriptions = [k \in Keys |-> None]
    /\ use = [u \in Users |-> AtRest]

Go(u, at, key, sub) == use' = [use EXCEPT ![u] = [at |-> at, key |-> key, sub |-> sub]]
Return(u) == use' = [use EXCEPT ![u] = AtRest]

NewNATSClient ==
    /\ conn = "none"
    /\ conn' = "open"
    /\ UNCHANGED <<live, made, subscriptions, use, replaced>>

\* Subscribe and QueueSubscribe at the connection, which refuses when closed.
Ask(u, key) ==
    /\ use[u].at = "rest"
    /\ conn = "open"
    /\ \E s \in Subs \ made :
        /\ live' = live \cup {s}
        /\ made' = made \cup {s}
        /\ Go(u, "store", key, s)
    /\ UNCHANGED <<conn, subscriptions, replaced>>

Subscribe(u) == \E t \in Topics : Ask(u, t)
QueueSubscribe(u) == \E t \in Topics, q \in Queues : Ask(u, t \o <<q>>)

Store(u) ==
    /\ use[u].at = "store"
    /\ subscriptions' = [subscriptions EXCEPT ![use[u].key] = use[u].sub]
    /\ replaced' = replaced \cup ({subscriptions[use[u].key]} \ {None})
    /\ Return(u)
    /\ UNCHANGED <<conn, live, made>>

\* Unsubscribe takes the entry out of the map first.
Unsubscribe(u) ==
    /\ use[u].at = "rest"
    /\ \E key \in Keys : /\ subscriptions[key] # None
                         /\ subscriptions' = [subscriptions EXCEPT ![key] = None]
                         /\ Go(u, "unsubscribe", key, subscriptions[key])
    /\ UNCHANGED <<conn, live, made, replaced>>

\* (Faulty variant of UnsubscribeCall: the entry is deleted after the call.)
UnsubscribeCallDeletes(u) ==
    /\ use[u].at = "unsubscribe"
    /\ live' = live \ {use[u].sub}
    /\ subscriptions' = [subscriptions EXCEPT ![use[u].key] = None]
    /\ Return(u)
    /\ UNCHANGED <<conn, made, replaced>>

\* On a closed connection the call fails, and Unsubscribe with it.
UnsubscribeCall(u) ==
    /\ use[u].at = "unsubscribe"
    /\ live' = live \ {use[u].sub}
    /\ Return(u)
    /\ UNCHANGED <<conn, made, subscriptions, replaced>>

\* Close, under the mutex, then at the connection.
CloseMap(u) ==
    /\ use[u].at = "rest" /\ conn # "none"
    /\ live' = live \ {subscriptions[k] : k \in Keys}
    /\ subscriptions' = [k \in Keys |-> None]
    /\ Go(u, "close", <<>>, None)
    /\ UNCHANGED <<conn, made, replaced>>

CloseConn(u) ==
    /\ use[u].at = "close"
    /\ conn' = "closed"
    /\ live' = {}
    /\ Return(u)
    /\ UNCHANGED <<made, subscriptions, replaced>>

Next ==
    \/ NewNATSClient
    \/ \E u \in Users :
        \/ Subscribe(u) \/ QueueSubscribe(u) \/ Store(u)
        \/ Unsubscribe(u) \/ UnsubscribeCall(u) \/ CloseMap(u) \/ CloseConn(u)

Spec == Init /\ [][Next]_vars

-----------------------------------------------------------------------------
(* Properties *)

\* Types of the variables.
TypeOK ==
    /\ conn \in {"none", "open", "closed"}
    /\ live \subseteq made /\ made \subseteq Subs /\ replaced \subseteq made
    /\ subscriptions \in [Keys -> made \cup {None}]
    /\ use \in [Users -> [at : {"rest", "store", "unsubscribe", "close"},
                          key : Keys \cup {<<>>}, sub : made \cup {None}]]

\* A subscription that still gets messages can be ended by Unsubscribe or Close:
\* it is in the map or in the hands of an operation under way. The one exception
\* is a key subscribed twice, or a queue's key that is also a topic: the later
\* one wins, and the earlier goes on until the connection is closed.
LiveIsReachable ==
    \A s \in live \ replaced :
        \/ \E k \in Keys : subscriptions[k] = s
        \/ \E u \in Users : use[u].sub = s
=============================================================================
