----------------------------- MODULE MCRequests -----------------------------
(***************************************************************************)
(* One run for what a request meets on its way: the window limiter, the HTTP *)
(* middleware and the gRPC interceptors. They share nothing here: a          *)
(* behaviour takes the steps of one of them, and the others stay as they     *)
(* began.                                                                    *)
(***************************************************************************)
EXTENDS SlidingWindowLimiter, FiniteSets, Sequences, Functions, TLC

CONSTANTS Requests, Writers, Nobody, MinLength, MaxPieces, Chains, Quiet, GrpcChains

ASSUME RequestsAssumption ==
    /\ IsFiniteSet(Requests) /\ IsFiniteSet(Writers)
    /\ Cardinality(Requests) <= Cardinality(Writers)
    /\ Nobody \notin Requests \cup Writers

\* A chain has a middleware once.
Chained(chains) == \A c \in chains : c \in Seq(STRING) /\ IsInjective(c)
ASSUME ChainsAssumption == Chained(Chains) /\ Chained(GrpcChains)

\* The default order, metrics outside it with authentication and no logger for
\* Recovery, compression, and Logger outside Recovery.
SomeChains == {<<"recovery", "logger", "security", "cors">>,
               <<"metrics", "recovery", "logger", "auth", "roles">>,
               <<"recovery", "gzip", "limit">>,
               <<"logger", "recovery", "ipfilter", "decompress">>}
SomeQuietChains == {c \in SomeChains : c[1] = "metrics"}

\* The default order of interceptors, and the two of it the other way round.
SomeGrpcChains == {<<"recovery", "logging">>,
                   <<"recovery", "logging", "auth", "limit">>,
                   <<"logging", "recovery", "requestid", "auth", "timeout", "limit">>}

VARIABLES
    part,
    chain, req, metrics, pool, attached, panicked, \* HttpChain
    interceptors, call                             \* GrpcChain

C == INSTANCE HttpChain
G == INSTANCE GrpcChain

httpVars == <<chain, req, metrics, pool, attached, panicked>>
grpcVars == <<interceptors, call>>

\* A part that takes no steps has one of its initial states.
RequestsInit ==
    /\ part \in {"window", "http", "grpc"}
    /\ Init /\ C!Init /\ G!Init
    /\ part # "http" => chain = CHOOSE c \in Chains : TRUE
    /\ part # "grpc" => interceptors = (CHOOSE c \in GrpcChains : TRUE) /\ ~call.stream

Windows(A) == part = "window" /\ A /\ UNCHANGED <<part, httpVars, grpcVars>>
Http(A) == part = "http" /\ A /\ UNCHANGED <<part, vars, grpcVars>>
Grpc(A) == part = "grpc" /\ A /\ UNCHANGED <<part, vars, httpVars>>

RequestsNext ==
    \/ \E k \in Keys, n \in Sizes :
        Windows(AllowFresh(k, n)) \/ Windows(AllowInWindow(k, n)) \/ Windows(Refuse(k, n))
    \/ Windows(Cleanup) \/ Windows(Tick)
    \/ Http(C!Reset)
    \/ \E r \in Requests :
        \/ Http(C!Arrive(r)) \/ Http(C!Security(r)) \/ Http(C!CORS(r)) \/ Http(C!IPFilter(r))
        \/ Http(C!BearerAuth(r)) \/ Http(C!RequireRoles(r)) \/ Http(C!RateLimit(r))
        \/ Http(C!Decompress(r)) \/ Http(C!Recovery(r)) \/ Http(C!NoPanic(r))
        \/ Http(C!Recover(r)) \/ Http(C!Logger(r)) \/ Http(C!Log(r)) \/ Http(C!MetricsIn(r))
        \/ Http(C!Record(r)) \/ Http(C!MetricsOut(r)) \/ Http(C!Gzip(r)) \/ Http(C!Close(r))
        \/ Http(C!HandlerWrites(r)) \/ Http(C!HandlerFlushes(r)) \/ Http(C!HandlerReturns(r))
        \/ Http(C!HandlerPanics(r)) \/ Http(C!End(r)) \/ Http(C!Leave(r))
    \/ Grpc(G!Auth) \/ Grpc(G!RateLimit) \/ Grpc(G!Timeout) \/ Grpc(G!RequestID)
    \/ Grpc(G!Recovery) \/ Grpc(G!Recover) \/ Grpc(G!Logging) \/ Grpc(G!Log) \/ Grpc(G!Handler)
    \/ Grpc(G!Through) \/ Grpc(G!Reply)

RequestsSpec == RequestsInit /\ [][RequestsNext]_<<part, vars, httpVars, grpcVars>>

Symmetry == Permutations(Keys) \cup Permutations(Requests)

-----------------------------------------------------------------------------
(* Properties, as the modules state them *)

\* Types of the variables of all parts.
TypesOK == TypeOK /\ C!TypeOK /\ G!TypeOK

\* The gauge and the counters of the metrics add up.
MetricsAddUp == C!MetricsAddUp

\* A request or call that was answered has left a line that says how.
LinesTellTheAnswer == C!LinesTellTheAnswer /\ G!LinesTellTheAnswer

\* A client reads what was written for it, compressed or not.
ClientReadsAnswer == C!ClientReadsAnswer

\* The client of a panicking handler gets the error page. (Does not hold.)
PanicIsAnswered == C!PanicIsAnswered
=============================================================================
