------------------------ MODULE AppLifecycle_proofs ------------------------
(* Proofs about AppLifecycle for any number of callers of Run and Shutdown.  *)
EXTENDS AppLifecycle, TLAPS

\* Every admitted Run has been shut down, save the last one while it runs.
Balance == admitted = begun + (IF running THEN 1 ELSE 0)

TypeInv == TypeOK /\ Balance

\* No caller is inside Shutdown before one begun, and one at most after it.
OneStopping ==
    /\ begun = 0 => \A c \in Callers : pc[c] \notin Stopping
    /\ begun = 1 => \A c, d \in Callers :
                        pc[c] \in Stopping /\ pc[d] \in Stopping => c = d

\* While the only run is being shut down: a Run still starting was overtaken,
\* and behind the Deregister step the service is not registered.
Deregistering == {"beforeStop", "deregister"}

Departing ==
    admitted = 1 /\ begun = 1 =>
        /\ (\E r \in Runners : pc[r] \in Starting) => overtaken
        /\ (\A c \in Callers : pc[c] \notin Deregistering)
              => ~registered \/ stuck \/ overtaken

ListenerClosed ==
    http = "closed" =>
        /\ begun > 0
        /\ begun = 1 /\ admitted = 1 =>
              \A c \in Callers : pc[c] \notin Deregistering

\* Unless a deadline passed or s.server was missed, a server that was drained
\* serves nothing, and both are drained before the first resource is closed.
HTTPDrained == http = "closed" /\ inflight["http"] = 0
GRPCDrained == grpc = "stopped" /\ inflight["grpc"] = 0

Drained ==
    /\ ~endpoints => http = "off"
    /\ expired = {} /\ ~missed =>
        /\ \A c \in Callers :
            /\ pc[c] = "drainHTTP" => http = "closed"
            /\ pc[c] \in {"stopGRPC", "drainGRPC"} => HTTPDrained
            /\ pc[c] = "drainGRPC" => grpc = "stopped"
            /\ pc[c] \in Resources => HTTPDrained /\ GRPCDrained
        /\ ~({"cache", "db"} \subseteq open) => HTTPDrained /\ GRPCDrained

USE CallersAssumption, MaxRequestsAssumption

-----------------------------------------------------------------------------
\* Types, and the balance of admitted runs and shutdowns.
LEMMA TypeStep == TypeInv /\ [Next]_vars => TypeInv'
<1> SUFFICES ASSUME TypeInv, [Next]_vars PROVE TypeInv'
  OBVIOUS
<1> DEFINE Goal == TypeInv'
<1> USE DEF TypeInv, TypeOK, Balance, Callers, Starting, Stopping,
            Resources, Goto, EntersAt, serverVars, history
<1>1. ASSUME NEW c \in Runners, RunEnter(c) PROVE Goal
  BY <1>1 DEF RunEnter
<1>2. ASSUME NEW c \in Runners, RunRefused(c) PROVE Goal
  BY <1>2 DEF RunRefused
<1>3. ASSUME NEW c \in Runners, RunHooks(c) PROVE Goal
  BY <1>3 DEF RunHooks
<1>4. ASSUME NEW c \in Runners, RunServeHTTP(c) PROVE Goal
  BY <1>4 DEF RunServeHTTP
<1>5. ASSUME NEW c \in Runners, RunServeGRPC(c) PROVE Goal
  BY <1>5 DEF RunServeGRPC
<1>6. ASSUME NEW c \in Runners, RunRegister(c) PROVE Goal
  BY <1>6 DEF RunRegister
<1>7. ASSUME NEW c \in Runners, RunWait(c) PROVE Goal
  BY <1>7 DEF RunWait
<1>8. ASSUME NEW c \in Callers, ShutdownEnter(c) PROVE Goal
  <2>1. /\ running /\ running' = FALSE
        /\ admitted' = admitted /\ begun' = begun + 1
    BY <1>8 DEF ShutdownEnter
  <2>2. pc' = [pc EXCEPT ![c] = "beforeStop"]
    BY <1>8 DEF ShutdownEnter
  <2>3. overtaken' \in BOOLEAN
    BY <1>8 DEF ShutdownEnter
  <2>4. UNCHANGED <<expired, serverVars, registered, open, missed, stuck>>
    BY <1>8 DEF ShutdownEnter
  <2>5. Balance' /\ begun' \in 0..admitted'
    BY <2>1
  <2>6. TypeOK'
    BY <2>1, <2>2, <2>3, <2>4, <2>5
  <2> QED
    BY <2>5, <2>6
<1>9. ASSUME NEW c \in Callers, ShutdownNothing(c) PROVE Goal
  BY <1>9 DEF ShutdownNothing
<1>10. ASSUME NEW c \in Callers, StopHooks(c) PROVE Goal
  BY <1>10 DEF StopHooks
<1>11. ASSUME NEW c \in Callers, Deregister(c) PROVE Goal
  BY <1>11 DEF Deregister
<1>12. ASSUME NEW c \in Callers, StopHTTP(c) PROVE Goal
  <2>1. CASE http \in {"off", "spawned"}
    BY <1>12, <2>1 DEF StopHTTP
  <2>2. CASE http \notin {"off", "spawned"}
    BY <1>12, <2>2 DEF StopHTTP
  <2> QED
    BY <2>1, <2>2
<1>13. ASSUME NEW c \in Callers, DrainHTTP(c) PROVE Goal
  BY <1>13 DEF DrainHTTP
<1>14. ASSUME NEW c \in Callers, StopGRPC(c) PROVE Goal
  BY <1>14 DEF StopGRPC
<1>15. ASSUME NEW c \in Callers, DrainGRPC(c) PROVE Goal
  BY <1>15 DEF DrainGRPC
<1>16. ASSUME NEW c \in Callers, CloseResource(c) PROVE Goal
  <2>1. PICK r \in Resources :
          /\ Goto(c, r, IF r = "cache" /\ r \notin open THEN "panicked" ELSE After[r])
          /\ open' = open \ {r}
    BY <1>16 DEF CloseResource
  <2>2. After[r] \in Resources \cup {"afterStop"}
    BY DEF After
  <2> QED
    BY <1>16, <2>1, <2>2 DEF CloseResource
<1>17. ASSUME NEW c \in Callers, Expire(c) PROVE Goal
  BY <1>17 DEF Expire
<1>18. ASSUME HTTPAssign PROVE Goal
  BY <1>18 DEF HTTPAssign
<1>19. ASSUME HTTPListen PROVE Goal
  BY <1>19 DEF HTTPListen
<1>20. ASSUME GRPCListen PROVE Goal
  BY <1>20 DEF GRPCListen
<1>21. ASSUME NEW s \in {"http", "grpc"}, RequestArrives(s) PROVE Goal
  BY <1>21 DEF RequestArrives
<1>22. ASSUME NEW s \in {"http", "grpc"}, RequestEnds(s) PROVE Goal
  BY <1>22 DEF RequestEnds
<1>23. ASSUME UNCHANGED vars PROVE Goal
  BY <1>23 DEF vars
<1> QED
  BY <1>1, <1>2, <1>3, <1>4, <1>5, <1>6, <1>7, <1>8, <1>9, <1>10,
     <1>11, <1>12, <1>13, <1>14, <1>15, <1>16, <1>17, <1>18, <1>19,
     <1>20, <1>21, <1>22, <1>23
  DEF Next, RunStep, ShutdownCall, ShutdownStep, ServerStep

\* Shutdown's test-and-reset of running lets one caller in per admitted run.
LEMMA OneStoppingStep == TypeInv /\ OneStopping /\ [Next]_vars => OneStopping'
<1> SUFFICES ASSUME TypeInv /\ OneStopping, [Next]_vars PROVE OneStopping'
  OBVIOUS
<1> DEFINE Goal == OneStopping'
<1> USE DEF TypeInv, TypeOK, Balance, Callers, Starting, Stopping,
            Resources, Goto, EntersAt, serverVars, history,
            OneStopping, After
<1>1. ASSUME NEW c \in Runners, RunEnter(c) PROVE Goal
  BY <1>1 DEF RunEnter
<1>2. ASSUME NEW c \in Runners, RunRefused(c) PROVE Goal
  BY <1>2 DEF RunRefused
<1>3. ASSUME NEW c \in Runners, RunHooks(c) PROVE Goal
  BY <1>3 DEF RunHooks
<1>4. ASSUME NEW c \in Runners, RunServeHTTP(c) PROVE Goal
  BY <1>4 DEF RunServeHTTP
<1>5. ASSUME NEW c \in Runners, RunServeGRPC(c) PROVE Goal
  BY <1>5 DEF RunServeGRPC
<1>6. ASSUME NEW c \in Runners, RunRegister(c) PROVE Goal
  BY <1>6 DEF RunRegister
<1>7. ASSUME NEW c \in Runners, RunWait(c) PROVE Goal
  BY <1>7 DEF RunWait
<1>8. ASSUME NEW c \in Callers, ShutdownEnter(c) PROVE Goal
  BY <1>8 DEF ShutdownEnter
<1>9. ASSUME NEW c \in Callers, ShutdownNothing(c) PROVE Goal
  BY <1>9 DEF ShutdownNothing
<1>10. ASSUME NEW c \in Callers, StopHooks(c) PROVE Goal
  BY <1>10 DEF StopHooks
<1>11. ASSUME NEW c \in Callers, Deregister(c) PROVE Goal
  BY <1>11 DEF Deregister
<1>12. ASSUME NEW c \in Callers, StopHTTP(c) PROVE Goal
  BY <1>12 DEF StopHTTP
<1>13. ASSUME NEW c \in Callers, DrainHTTP(c) PROVE Goal
  BY <1>13 DEF DrainHTTP
<1>14. ASSUME NEW c \in Callers, StopGRPC(c) PROVE Goal
  BY <1>14 DEF StopGRPC
<1>15. ASSUME NEW c \in Callers, DrainGRPC(c) PROVE Goal
  BY <1>15 DEF DrainGRPC
<1>16. ASSUME NEW c \in Callers, CloseResource(c) PROVE Goal
  BY <1>16 DEF CloseResource
<1>17. ASSUME NEW c \in Callers, Expire(c) PROVE Goal
  BY <1>17 DEF Expire
<1>18. ASSUME HTTPAssign PROVE Goal
  BY <1>18 DEF HTTPAssign
<1>19. ASSUME HTTPListen PROVE Goal
  BY <1>19 DEF HTTPListen
<1>20. ASSUME GRPCListen PROVE Goal
  BY <1>20 DEF GRPCListen
<1>21. ASSUME NEW s \in {"http", "grpc"}, RequestArrives(s) PROVE Goal
  BY <1>21 DEF RequestArrives
<1>22. ASSUME NEW s \in {"http", "grpc"}, RequestEnds(s) PROVE Goal
  BY <1>22 DEF RequestEnds
<1>23. ASSUME UNCHANGED vars PROVE Goal
  BY <1>23 DEF vars
<1> QED
  BY <1>1, <1>2, <1>3, <1>4, <1>5, <1>6, <1>7, <1>8, <1>9, <1>10,
     <1>11, <1>12, <1>13, <1>14, <1>15, <1>16, <1>17, <1>18, <1>19,
     <1>20, <1>21, <1>22, <1>23
  DEF Next, RunStep, ShutdownCall, ShutdownStep, ServerStep

\* Deregister, and what a Run still starting can do behind it.
LEMMA DepartingStep == TypeInv /\ OneStopping /\ Departing /\ [Next]_vars => Departing'
<1> SUFFICES ASSUME TypeInv /\ OneStopping /\ Departing, [Next]_vars PROVE Departing'
  OBVIOUS
<1> DEFINE Goal == Departing'
<1> USE DEF TypeInv, TypeOK, Balance, Callers, Starting, Stopping,
            Resources, Goto, EntersAt, serverVars, history,
            OneStopping, After, Departing, Deregistering
<1>1. ASSUME NEW c \in Runners, RunEnter(c) PROVE Goal
  BY <1>1 DEF RunEnter
<1>2. ASSUME NEW c \in Runners, RunRefused(c) PROVE Goal
  BY <1>2 DEF RunRefused
<1>3. ASSUME NEW c \in Runners, RunHooks(c) PROVE Goal
  BY <1>3 DEF RunHooks
<1>4. ASSUME NEW c \in Runners, RunServeHTTP(c) PROVE Goal
  BY <1>4 DEF RunServeHTTP
<1>5. ASSUME NEW c \in Runners, RunServeGRPC(c) PROVE Goal
  BY <1>5 DEF RunServeGRPC
<1>6. ASSUME NEW c \in Runners, RunRegister(c) PROVE Goal
  BY <1>6 DEF RunRegister
<1>7. ASSUME NEW c \in Runners, RunWait(c) PROVE Goal
  BY <1>7 DEF RunWait
<1>8. ASSUME NEW c \in Callers, ShutdownEnter(c) PROVE Goal
  BY <1>8 DEF ShutdownEnter
<1>9. ASSUME NEW c \in Callers, ShutdownNothing(c) PROVE Goal
  BY <1>9 DEF ShutdownNothing
<1>10. ASSUME NEW c \in Callers, StopHooks(c) PROVE Goal
  BY <1>10 DEF StopHooks
<1>11. ASSUME NEW c \in Callers, Deregister(c) PROVE Goal
  BY <1>11 DEF Deregister
<1>12. ASSUME NEW c \in Callers, StopHTTP(c) PROVE Goal
  BY <1>12 DEF StopHTTP
<1>13. ASSUME NEW c \in Callers, DrainHTTP(c) PROVE Goal
  BY <1>13 DEF DrainHTTP
<1>14. ASSUME NEW c \in Callers, StopGRPC(c) PROVE Goal
  BY <1>14 DEF StopGRPC
<1>15. ASSUME NEW c \in Callers, DrainGRPC(c) PROVE Goal
  BY <1>15 DEF DrainGRPC
<1>16. ASSUME NEW c \in Callers, CloseResource(c) PROVE Goal
  BY <1>16 DEF CloseResource
<1>17. ASSUME NEW c \in Callers, Expire(c) PROVE Goal
  BY <1>17 DEF Expire
<1>18. ASSUME HTTPAssign PROVE Goal
  BY <1>18 DEF HTTPAssign
<1>19. ASSUME HTTPListen PROVE Goal
  BY <1>19 DEF HTTPListen
<1>20. ASSUME GRPCListen PROVE Goal
  BY <1>20 DEF GRPCListen
<1>21. ASSUME NEW s \in {"http", "grpc"}, RequestArrives(s) PROVE Goal
  BY <1>21 DEF RequestArrives
<1>22. ASSUME NEW s \in {"http", "grpc"}, RequestEnds(s) PROVE Goal
  BY <1>22 DEF RequestEnds
<1>23. ASSUME UNCHANGED vars PROVE Goal
  BY <1>23 DEF vars
<1> QED
  BY <1>1, <1>2, <1>3, <1>4, <1>5, <1>6, <1>7, <1>8, <1>9, <1>10,
     <1>11, <1>12, <1>13, <1>14, <1>15, <1>16, <1>17, <1>18, <1>19,
     <1>20, <1>21, <1>22, <1>23
  DEF Next, RunStep, ShutdownCall, ShutdownStep, ServerStep

\* The listener is closed by the one caller that has deregistered.
LEMMA ListenerClosedStep == TypeInv /\ OneStopping /\ ListenerClosed /\ [Next]_vars => ListenerClosed'
<1> SUFFICES ASSUME TypeInv /\ OneStopping /\ ListenerClosed, [Next]_vars PROVE ListenerClosed'
  OBVIOUS
<1> DEFINE Goal == ListenerClosed'
<1> USE DEF TypeInv, TypeOK, Balance, Callers, Starting, Stopping,
            Resources, Goto, EntersAt, serverVars, history,
            OneStopping, After, ListenerClosed, Deregistering
<1>1. ASSUME NEW c \in Runners, RunEnter(c) PROVE Goal
  BY <1>1 DEF RunEnter
<1>2. ASSUME NEW c \in Runners, RunRefused(c) PROVE Goal
  BY <1>2 DEF RunRefused
<1>3. ASSUME NEW c \in Runners, RunHooks(c) PROVE Goal
  BY <1>3 DEF RunHooks
<1>4. ASSUME NEW c \in Runners, RunServeHTTP(c) PROVE Goal
  BY <1>4 DEF RunServeHTTP
<1>5. ASSUME NEW c \in Runners, RunServeGRPC(c) PROVE Goal
  BY <1>5 DEF RunServeGRPC
<1>6. ASSUME NEW c \in Runners, RunRegister(c) PROVE Goal
  BY <1>6 DEF RunRegister
<1>7. ASSUME NEW c \in Runners, RunWait(c) PROVE Goal
  BY <1>7 DEF RunWait
<1>8. ASSUME NEW c \in Callers, ShutdownEnter(c) PROVE Goal
  BY <1>8 DEF ShutdownEnter
<1>9. ASSUME NEW c \in Callers, ShutdownNothing(c) PROVE Goal
  BY <1>9 DEF ShutdownNothing
<1>10. ASSUME NEW c \in Callers, StopHooks(c) PROVE Goal
  BY <1>10 DEF StopHooks
<1>11. ASSUME NEW c \in Callers, Deregister(c) PROVE Goal
  BY <1>11 DEF Deregister
<1>12. ASSUME NEW c \in Callers, StopHTTP(c) PROVE Goal
  BY <1>12 DEF StopHTTP
<1>13. ASSUME NEW c \in Callers, DrainHTTP(c) PROVE Goal
  BY <1>13 DEF DrainHTTP
<1>14. ASSUME NEW c \in Callers, StopGRPC(c) PROVE Goal
  BY <1>14 DEF StopGRPC
<1>15. ASSUME NEW c \in Callers, DrainGRPC(c) PROVE Goal
  BY <1>15 DEF DrainGRPC
<1>16. ASSUME NEW c \in Callers, CloseResource(c) PROVE Goal
  BY <1>16 DEF CloseResource
<1>17. ASSUME NEW c \in Callers, Expire(c) PROVE Goal
  BY <1>17 DEF Expire
<1>18. ASSUME HTTPAssign PROVE Goal
  BY <1>18 DEF HTTPAssign
<1>19. ASSUME HTTPListen PROVE Goal
  BY <1>19 DEF HTTPListen
<1>20. ASSUME GRPCListen PROVE Goal
  BY <1>20 DEF GRPCListen
<1>21. ASSUME NEW s \in {"http", "grpc"}, RequestArrives(s) PROVE Goal
  BY <1>21 DEF RequestArrives
<1>22. ASSUME NEW s \in {"http", "grpc"}, RequestEnds(s) PROVE Goal
  BY <1>22 DEF RequestEnds
<1>23. ASSUME UNCHANGED vars PROVE Goal
  BY <1>23 DEF vars
<1> QED
  BY <1>1, <1>2, <1>3, <1>4, <1>5, <1>6, <1>7, <1>8, <1>9, <1>10,
     <1>11, <1>12, <1>13, <1>14, <1>15, <1>16, <1>17, <1>18, <1>19,
     <1>20, <1>21, <1>22, <1>23
  DEF Next, RunStep, ShutdownCall, ShutdownStep, ServerStep

\* The servers are drained in order and stay so.
LEMMA DrainedStep == TypeInv /\ Drained /\ [Next]_vars => Drained'
<1> SUFFICES ASSUME TypeInv /\ Drained, [Next]_vars PROVE Drained'
  OBVIOUS
<1> DEFINE Goal == Drained'
<1> USE DEF TypeInv, TypeOK, Balance, Callers, Starting, Stopping,
            Resources, Goto, EntersAt, serverVars, history, After,
            Drained, HTTPDrained, GRPCDrained, Serving
<1>1. ASSUME NEW c \in Runners, RunEnter(c) PROVE Goal
  BY <1>1 DEF RunEnter
<1>2. ASSUME NEW c \in Runners, RunRefused(c) PROVE Goal
  BY <1>2 DEF RunRefused
<1>3. ASSUME NEW c \in Runners, RunHooks(c) PROVE Goal
  BY <1>3 DEF RunHooks
<1>4. ASSUME NEW c \in Runners, RunServeHTTP(c) PROVE Goal
  BY <1>4 DEF RunServeHTTP
<1>5. ASSUME NEW c \in Runners, RunServeGRPC(c) PROVE Goal
  BY <1>5 DEF RunServeGRPC
<1>6. ASSUME NEW c \in Runners, RunRegister(c) PROVE Goal
  BY <1>6 DEF RunRegister
<1>7. ASSUME NEW c \in Runners, RunWait(c) PROVE Goal
  BY <1>7 DEF RunWait
<1>8. ASSUME NEW c \in Callers, ShutdownEnter(c) PROVE Goal
  BY <1>8 DEF ShutdownEnter
<1>9. ASSUME NEW c \in Callers, ShutdownNothing(c) PROVE Goal
  BY <1>9 DEF ShutdownNothing
<1>10. ASSUME NEW c \in Callers, StopHooks(c) PROVE Goal
  BY <1>10 DEF StopHooks
<1>11. ASSUME NEW c \in Callers, Deregister(c) PROVE Goal
  BY <1>11 DEF Deregister
<1>12. ASSUME NEW c \in Callers, StopHTTP(c) PROVE Goal
  BY <1>12 DEF StopHTTP
<1>13. ASSUME NEW c \in Callers, DrainHTTP(c) PROVE Goal
  BY <1>13 DEF DrainHTTP
<1>14. ASSUME NEW c \in Callers, StopGRPC(c) PROVE Goal
  BY <1>14 DEF StopGRPC
<1>15. ASSUME NEW c \in Callers, DrainGRPC(c) PROVE Goal
  BY <1>15 DEF DrainGRPC
<1>16. ASSUME NEW c \in Callers, CloseResource(c) PROVE Goal
  BY <1>16 DEF CloseResource
<1>17. ASSUME NEW c \in Callers, Expire(c) PROVE Goal
  BY <1>17 DEF Expire
<1>18. ASSUME HTTPAssign PROVE Goal
  BY <1>18 DEF HTTPAssign
<1>19. ASSUME HTTPListen PROVE Goal
  BY <1>19 DEF HTTPListen
<1>20. ASSUME GRPCListen PROVE Goal
  BY <1>20 DEF GRPCListen
<1>21. ASSUME NEW s \in {"http", "grpc"}, RequestArrives(s) PROVE Goal
  BY <1>21 DEF RequestArrives
<1>22. ASSUME NEW s \in {"http", "grpc"}, RequestEnds(s) PROVE Goal
  BY <1>22 DEF RequestEnds
<1>23. ASSUME UNCHANGED vars PROVE Goal
  BY <1>23 DEF vars
<1> QED
  BY <1>1, <1>2, <1>3, <1>4, <1>5, <1>6, <1>7, <1>8, <1>9, <1>10,
     <1>11, <1>12, <1>13, <1>14, <1>15, <1>16, <1>17, <1>18, <1>19,
     <1>20, <1>21, <1>22, <1>23
  DEF Next, RunStep, ShutdownCall, ShutdownStep, ServerStep

-----------------------------------------------------------------------------
IInv == TypeInv /\ OneStopping /\ Departing /\ ListenerClosed /\ Drained

LEMMA InitIInv == Init => IInv
<1> SUFFICES ASSUME Init PROVE IInv
  OBVIOUS
<1>1. TypeInv
  <2>1. /\ inflight \in [{"http", "grpc"} -> 0..MaxRequests]
        /\ admitted \in Nat /\ begun \in 0..admitted /\ Balance
    BY DEF Init, Balance
  <2>2. pc \in [Callers -> {"idle"}]
    BY DEF Init
  <2> QED
    BY <2>1, <2>2 DEF Init, TypeInv, TypeOK
<1>2. OneStopping /\ Departing /\ ListenerClosed /\ Drained
  BY DEF Init, OneStopping, Departing, ListenerClosed, Drained, Stopping,
         Resources
<1> QED
  BY <1>1, <1>2 DEF IInv

LEMMA Invariance == Spec => []IInv
<1>1. IInv /\ [Next]_vars => IInv'
  BY TypeStep, OneStoppingStep, DepartingStep, ListenerClosedStep, DrainedStep
  DEF IInv
<1> QED
  BY InitIInv, <1>1, PTL DEF Spec

-----------------------------------------------------------------------------
\* Every variable keeps its type, and there are never more Shutdowns than Runs
\* (App.Run, App.Shutdown).
THEOREM TypeCorrect == Spec => []TypeOK
<1>1. IInv => TypeOK
  BY DEF IInv, TypeInv
<1> QED
  BY <1>1, Invariance, PTL

\* However calls of Run, calls of Shutdown and signals race, one run is shut
\* down once (the running flag of App.Shutdown).
THEOREM ShutdownIsExclusive == Spec => []OneShutdownPerRun
<1>1. IInv => OneShutdownPerRun
  <2> SUFFICES ASSUME IInv, NEW c \in Callers, NEW d \in Callers, c # d,
                      pc[c] \in Stopping, pc[d] \in Stopping
               PROVE  admitted >= 2
    BY DEF OneShutdownPerRun
  <2>1. begun # 0 /\ begun # 1
    BY DEF IInv, OneStopping
  <2> QED
    BY <2>1 DEF IInv, TypeInv, TypeOK
<1> QED
  BY <1>1, Invariance, PTL

\* Shutdown deregisters before it closes the listener, for any number of callers.
THEOREM DeregistersFirst == Spec => []DeregisteredBeforeClosed
<1>1. IInv => DeregisteredBeforeClosed
  <2> SUFFICES ASSUME IInv, admitted = 1, http = "closed", registered
               PROVE  stuck \/ overtaken
    BY DEF DeregisteredBeforeClosed
  <2>1. begun = 1
    BY DEF IInv, ListenerClosed, TypeInv, TypeOK
  <2>2. \A c \in Callers : pc[c] \notin Deregistering
    BY <2>1 DEF IInv, ListenerClosed
  <2> QED
    BY <2>1, <2>2 DEF IInv, Departing
<1> QED
  BY <1>1, Invariance, PTL

\* The cache and the database are open while a request is served, unless a
\* deadline passed or s.server was missed, for any number of requests.
THEOREM StoresClosedLast == Spec => []StoresOutliveRequests
<1>1. IInv => StoresOutliveRequests
  BY DEF IInv, TypeInv, TypeOK, Drained, HTTPDrained, GRPCDrained,
         StoresOutliveRequests
<1> QED
  BY <1>1, Invariance, PTL
=============================================================================
