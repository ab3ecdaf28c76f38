---------------------------- MODULE AppLifecycle ----------------------------
(***************************************************************************)
(* Run and Shutdown of pkg/app/app.go with the servers they start and stop  *)
(* (pkg/server/http.go, pkg/server/grpc.go), the service's registration and *)
(* the stores requests use.  Run may be called by several goroutines and    *)
(* Shutdown by others at any time; only the running flag is guarded by the  *)
(* app's mutex, so the steps of one overlap those of the other.             *)
(*                                                                          *)
(* The app has every optional part: both servers, discovery, message queue, *)
(* cache (MemoryCache), database and the default health manager.  Signals   *)
(* count once Run has called signal.Notify; an earlier one ends the process.*)
(***************************************************************************)
EXTENDS Naturals, FiniteSets

CONSTANTS
    Runners,     \* goroutines that call Run, once each
    Stoppers,    \* goroutines that call Shutdown, once each
    MaxRequests  \* bound on the requests in flight in one server

ASSUME CallersAssumption == Runners \cap Stoppers = {}
ASSUME MaxRequestsAssumption == MaxRequests \in Nat

Callers == Runners \cup Stoppers
Resources == {"mq", "cache", "db", "discovery"}

\* Where a Run is before it waits for the signal.
Starting == {"beforeStart", "serveHTTP", "serveGRPC", "register", "afterStart",
             "notify"}
\* Where a Shutdown is once it found the app running.
Stopping == {"beforeStop", "deregister", "stopHTTP", "drainHTTP", "stopGRPC",
             "drainGRPC", "afterStop"} \cup Resources

VARIABLES
    running,     \* App.running
    pc,          \* where each caller is
    expired,     \* callers whose shutdownCtx is done
    endpoints,   \* the builtin routes are registered
    http,        \* the HTTP server; "spawned": Start runs, s.server is nil
    grpc,        \* the gRPC server
    inflight,    \* requests being handled, by server
    registered,  \* the service is registered with discovery
    open,        \* resources not closed yet
    admitted,    \* (history) Runs that found the app not running
    begun,       \* (history) Shutdowns that found the app running
    overtaken,   \* (history) a Shutdown began before its Run had started up
    missed,      \* (history) a Shutdown found s.server nil
    stuck        \* (history) a Deregister failed

history == <<admitted, begun, overtaken, missed, stuck>>
serverVars == <<endpoints, http, grpc, inflight>>
vars == <<running, pc, expired, serverVars, registered, open, history>>

TypeOK ==
    /\ running \in BOOLEAN
    /\ pc \in [Callers -> {"idle", "wait", "failed", "panicked", "returned"}
                              \cup Starting \cup Stopping \cup {"shutdown"}]
    /\ expired \subseteq Callers
    /\ endpoints \in BOOLEAN
    /\ http \in {"off", "spawned", "assigned", "serving", "failed", "closed"}
    /\ grpc \in {"off", "spawned", "serving", "failed", "stopped"}
    /\ inflight \in [{"http", "grpc"} -> 0..MaxRequests]
    /\ registered \in BOOLEAN
    /\ open \subseteq Resources
    /\ admitted \in Nat
    /\ begun \in 0..admitted
    /\ overtaken \in BOOLEAN
    /\ missed \in BOOLEAN
    /\ stuck \in BOOLEAN

Init ==
    /\ running = FALSE
    /\ pc = [c \in Callers |-> "idle"]
    /\ expired = {}
    /\ endpoints = FALSE
    /\ http = "off"
    /\ grpc = "off"
    /\ inflight = [s \in {"http", "grpc"} |-> 0]
    /\ registered = FALSE
    /\ open = Resources
    /\ admitted = 0
    /\ begun = 0
    /\ overtaken = FALSE
    /\ missed = FALSE
    /\ stuck = FALSE

\* Caller c moves from step a to step b.
Goto(c, a, b) == pc[c] = a /\ pc' = [pc EXCEPT ![c] = b]

-----------------------------------------------------------------------------
(* Run *)

RunEnter(c) ==
    /\ ~running
    /\ running' = TRUE
    /\ admitted' = admitted + 1
    /\ Goto(c, "idle", "beforeStart")
    /\ UNCHANGED <<expired, serverVars, registered, open, begun, overtaken,
                   missed, stuck>>

\* "app is already running".
RunRefused(c) ==
    /\ running
    /\ Goto(c, "idle", "failed")
    /\ UNCHANGED <<running, expired, serverVars, registered, open, history>>

\* The hooks before and after the start: an error ends Run and nothing else.
RunHooks(c) ==
    /\ \/ Goto(c, "beforeStart", "serveHTTP")
       \/ Goto(c, "afterStart", "notify")
       \/ \E a \in {"beforeStart", "afterStart"} : Goto(c, a, "failed")
    /\ UNCHANGED <<running, expired, serverVars, registered, open, history>>

\* registerBuiltinHTTPEndpoints, then the goroutine of HTTPServer.Start.  gin
\* panics when a route is registered a second time.
RunServeHTTP(c) ==
    /\ IF endpoints
       THEN Goto(c, "serveHTTP", "panicked") /\ UNCHANGED <<endpoints, http>>
       ELSE /\ Goto(c, "serveHTTP", "serveGRPC")
            /\ endpoints' = TRUE
            /\ http' = "spawned"
    /\ UNCHANGED <<running, expired, grpc, inflight, registered, open, history>>

\* The goroutine of GRPCServer.Start; a stopped server stays stopped.
RunServeGRPC(c) ==
    /\ Goto(c, "serveGRPC", "register")
    /\ grpc' = IF grpc = "off" THEN "spawned" ELSE grpc
    /\ UNCHANGED <<running, expired, endpoints, http, inflight, registered, open,
                   history>>

\* Discovery.Register: an error is logged.
RunRegister(c) ==
    /\ Goto(c, "register", "afterStart")
    /\ registered' \in {TRUE, registered}
    /\ UNCHANGED <<running, expired, serverVars, open, history>>

\* signal.Notify, then the signal that ends the wait.
RunWait(c) ==
    /\ Goto(c, "notify", "wait") \/ Goto(c, "wait", "shutdown")
    /\ UNCHANGED <<running, expired, serverVars, registered, open, history>>

-----------------------------------------------------------------------------
(* Shutdown, called by Run or from outside *)

EntersAt(c) == IF c \in Stoppers THEN "idle" ELSE "shutdown"

\* (Faulty variant of ShutdownEnter) Leaves the flag set.
ShutdownEnterAgain(c) ==
    /\ running
    /\ Goto(c, EntersAt(c), "beforeStop")
    /\ begun' = begun + 1
    /\ overtaken' = (overtaken \/ \E r \in Runners : pc[r] \in Starting)
    /\ UNCHANGED <<running, expired, serverVars, registered, open, admitted,
                   missed, stuck>>

ShutdownEnter(c) ==
    /\ running
    /\ running' = FALSE
    /\ Goto(c, EntersAt(c), "beforeStop")
    /\ begun' = begun + 1
    /\ overtaken' = (overtaken \/ \E r \in Runners : pc[r] \in Starting)
    /\ UNCHANGED <<expired, serverVars, registered, open, admitted, missed, stuck>>

\* The app is not running: return at once, whoever is shutting it down.
ShutdownNothing(c) ==
    /\ ~running
    /\ Goto(c, EntersAt(c), "returned")
    /\ UNCHANGED <<running, expired, serverVars, registered, open, history>>

\* The hooks before and after the stop: errors are logged.
StopHooks(c) ==
    /\ \/ Goto(c, "beforeStop", "deregister")
       \/ Goto(c, "afterStop", "returned")
    /\ UNCHANGED <<running, expired, serverVars, registered, open, history>>

\* (Faulty variant of Deregister) Skipped when the context is done already.
DeregisterSkipped(c) ==
    /\ Goto(c, "deregister", "stopHTTP")
    /\ registered' = (registered /\ c \in expired)
    /\ UNCHANGED <<running, expired, serverVars, open, history>>

\* Discovery.Deregister: its error is dropped.
Deregister(c) ==
    /\ Goto(c, "deregister", "stopHTTP")
    /\ \/ registered' = FALSE /\ UNCHANGED stuck
       \/ stuck' = TRUE /\ UNCHANGED registered
    /\ UNCHANGED <<running, expired, serverVars, open, admitted, begun, overtaken,
                   missed>>

\* HTTPServer.Stop: nothing when s.server is nil, otherwise http.Server's
\* Shutdown, which closes the listener (and keeps a later Listen from serving).
StopHTTP(c) ==
    /\ IF http \in {"off", "spawned"}
       THEN Goto(c, "stopHTTP", "stopGRPC") /\ missed' = TRUE /\ UNCHANGED http
       ELSE Goto(c, "stopHTTP", "drainHTTP") /\ http' = "closed" /\ UNCHANGED missed
    /\ UNCHANGED <<running, expired, endpoints, grpc, inflight, registered, open,
                   admitted, begun, overtaken, stuck>>

\* (Faulty variant of DrainHTTP) Waits for the handlers without a deadline.
DrainHTTPForever(c) ==
    /\ Goto(c, "drainHTTP", "stopGRPC")
    /\ inflight["http"] = 0
    /\ UNCHANGED <<running, expired, serverVars, registered, open, history>>

\* (Faulty variant of DrainHTTP) Closes the listener only, as Close would.
DrainHTTPNot(c) ==
    /\ Goto(c, "drainHTTP", "stopGRPC")
    /\ UNCHANGED <<running, expired, serverVars, registered, open, history>>

\* http.Server.Shutdown returns when the handlers have, or the context is done.
DrainHTTP(c) ==
    /\ Goto(c, "drainHTTP", "stopGRPC")
    /\ inflight["http"] = 0 \/ c \in expired
    /\ UNCHANGED <<running, expired, serverVars, registered, open, history>>

\* GRPCServer.Stop: GracefulStop in a goroutine ...
StopGRPC(c) ==
    /\ Goto(c, "stopGRPC", "drainGRPC")
    /\ grpc' = "stopped"
    /\ UNCHANGED <<running, expired, endpoints, http, inflight, registered, open,
                   history>>

\* ... until it returns or the context is done and Stop cuts it short.
DrainGRPC(c) ==
    /\ Goto(c, "drainGRPC", "mq")
    /\ inflight["grpc"] = 0 \/ c \in expired
    /\ UNCHANGED <<running, expired, serverVars, registered, open, history>>

After == [mq |-> "cache", cache |-> "db", db |-> "discovery",
          discovery |-> "afterStop"]

\* Close the resources in their order; a second MemoryCache.Close panics.
CloseResource(c) ==
    /\ \E r \in Resources :
        /\ Goto(c, r, IF r = "cache" /\ r \notin open THEN "panicked" ELSE After[r])
        /\ open' = open \ {r}
    /\ UNCHANGED <<running, expired, serverVars, registered, history>>

\* The thirty seconds of shutdownCtx pass, or the caller's context is cancelled.
Expire(c) ==
    /\ pc[c] \in Stopping
    /\ c \notin expired
    /\ expired' = expired \cup {c}
    /\ UNCHANGED <<running, pc, serverVars, registered, open, history>>

-----------------------------------------------------------------------------
(* The servers' goroutines and their requests *)

\* HTTPServer.Start assigns s.server ...
HTTPAssign ==
    /\ http = "spawned"
    /\ http' = "assigned"
    /\ UNCHANGED <<running, pc, expired, endpoints, grpc, inflight, registered,
                   open, history>>

\* ... and listens, unless the port is taken.
HTTPListen ==
    /\ http = "assigned"
    /\ http' \in {"serving", "failed"}
    /\ UNCHANGED <<running, pc, expired, endpoints, grpc, inflight, registered,
                   open, history>>

GRPCListen ==
    /\ grpc = "spawned"
    /\ grpc' \in {"serving", "failed"}
    /\ UNCHANGED <<running, pc, expired, endpoints, http, inflight, registered,
                   open, history>>

Serving == {s \in {"http", "grpc"} :
              (s = "http" /\ http = "serving") \/ (s = "grpc" /\ grpc = "serving")}

RequestArrives(s) ==
    /\ s \in Serving
    /\ inflight[s] < MaxRequests
    /\ inflight' = [inflight EXCEPT ![s] = @ + 1]
    /\ UNCHANGED <<running, pc, expired, endpoints, http, grpc, registered, open,
                   history>>

RequestEnds(s) ==
    /\ inflight[s] > 0
    /\ inflight' = [inflight EXCEPT ![s] = @ - 1]
    /\ UNCHANGED <<running, pc, expired, endpoints, http, grpc, registered, open,
                   history>>

-----------------------------------------------------------------------------
RunStep(c) ==
    \/ RunEnter(c) \/ RunRefused(c)
    \/ RunHooks(c)
    \/ RunServeHTTP(c) \/ RunServeGRPC(c)
    \/ RunRegister(c) \/ RunWait(c)

ShutdownCall(c) == ShutdownEnter(c) \/ ShutdownNothing(c)

ShutdownStep(c) ==
    \/ StopHooks(c)
    \/ Deregister(c)
    \/ StopHTTP(c) \/ DrainHTTP(c)
    \/ StopGRPC(c) \/ DrainGRPC(c)
    \/ CloseResource(c)

ServerStep ==
    \/ HTTPAssign \/ HTTPListen \/ GRPCListen
    \/ \E s \in {"http", "grpc"} : RequestArrives(s) \/ RequestEnds(s)

Next ==
    \/ \E c \in Runners : RunStep(c)
    \/ \E c \in Callers : ShutdownCall(c) \/ ShutdownStep(c) \/ Expire(c)
    \/ ServerStep

Spec == Init /\ [][Next]_vars

\* A Shutdown that began runs on (its hooks return) and its deadline passes; handlers may
\* hang, and nothing else is owed.
Fairness == \A c \in Callers : WF_vars(ShutdownStep(c)) /\ WF_vars(Expire(c))

FairSpec == Spec /\ Fairness

-----------------------------------------------------------------------------
(* Properties *)

\* One run is shut down once: two callers are inside Shutdown together only if
\* Run was admitted again after the first had begun, however signals and calls
\* of Shutdown race.
OneShutdownPerRun ==
    \A c, d \in Callers :
        c # d /\ pc[c] \in Stopping /\ pc[d] \in Stopping => admitted >= 2

\* Traffic is taken away before the listener closes: in the first run, once the
\* HTTP listener is closed the service is no longer registered, unless
\* Deregister failed or Shutdown overtook the start-up.
DeregisteredBeforeClosed ==
    admitted = 1 /\ http = "closed" /\ registered => stuck \/ overtaken

\* No request is served over a closed cache or database, unless a shutdown
\* deadline passed or a Shutdown found s.server still nil.
StoresOutliveRequests ==
    inflight["http"] + inflight["grpc"] > 0
        => {"cache", "db"} \subseteq open \/ expired # {} \/ missed

\* Shutdown ends, by its deadline at the latest, although handlers hang.
ShutdownEnds ==
    \A c \in Callers : pc[c] = "beforeStop" ~> pc[c] \in {"returned", "panicked"}
=============================================================================
