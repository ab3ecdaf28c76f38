------------------------------ MODULE MCParts ------------------------------
(***************************************************************************)
(* One run for parts of goupter that share nothing: a behaviour takes        *)
(* the steps of one of them, and the others stay as they began.             *)
(***************************************************************************)
EXTENDS Integers, TLC

CONSTANTS Users, Queues, Subs, None, Probes, Checkers, CacheTTL, Timeout, MaxSettings,
          Tokens, Callers, AccessTokenTTL,
          FieldKeys, Strings, NotString, SensitiveTypes, Levels, Sensitive, Rate,
          MaxHooks, MaxPreset,
          Topics, Stacks

ASSUME NoneAssumption == None \notin Subs
ASSUME HealthAssumption == CacheTTL \in Nat \ {0} /\ Timeout \in Nat
ASSUME AccessTokenTTLAssumption == AccessTokenTTL \in Nat
ASSUME LogAssumption ==
    /\ Levels \subseteq 0..4 /\ 1 \in Levels  \* a logger starts at info
    /\ DOMAIN Sensitive \subseteq FieldKeys
    /\ \A k \in DOMAIN Sensitive : Sensitive[k] \in SensitiveTypes
    /\ NotString \notin Strings
    /\ \A s \in Strings : s.length \in Nat /\ s.at \in Int /\ s.at < s.length
    /\ Rate \in Nat \ {0} /\ MaxHooks \in Nat

\* The queue of the first topic has the second topic for its key.
SomeTopics == {<<"a">>, <<"a", "q">>}

\* Masking outside, at the bottom, and between sampling and hooks.
SomeStacks == {<<"masked", "hooked", "sampled">>,
               <<"hooked", "sampled", "masked">>,
               <<"named", "sampled", "masked", "hooked">>}

\* A string the rules of id numbers and of addresses leave whole, and one of which
\* both hide a part.
SomeStrings == {[length |-> 10, at |-> 1], [length |-> 18, at |-> 3]}

\* The key of the run is none of those NewDefaultMasker knows.
NoKeys == [k \in {} |-> "custom"]

VARIABLES
    part,
    conn, live, made, subscriptions, use, replaced,                     \* NatsClient
    healthy, registered, cache, probe,                                  \* HealthManager
    file, value,                                                        \* ConfigFile
    enabled, wired, left, listed, revoked, caller,                      \* JwtAuthenticator
    layers, sensitive, preset, level, hooks, counter, seen              \* LogPipeline

N == INSTANCE NatsClient
H == INSTANCE HealthManager
F == INSTANCE ConfigFile
J == INSTANCE JwtAuthenticator
L == INSTANCE LogPipeline

natsVars == <<conn, live, made, subscriptions, use, replaced>>
healthVars == <<healthy, registered, cache, probe>>
fileVars == <<file, value>>
jwtVars == <<enabled, wired, left, listed, revoked, caller>>
logVars == <<layers, sensitive, preset, level, hooks, counter, seen>>
vars == <<part, natsVars, healthVars, fileVars, jwtVars, logVars>>

Parts == {"nats", "health", "file", "jwt", "log"}

\* A part that takes no steps has one of its initial states.
Init ==
    /\ part \in Parts
    /\ N!Init /\ H!Init /\ F!Init /\ J!Init /\ L!Init
    /\ part # "jwt" => enabled /\ wired
    /\ part # "log" => layers = CHOOSE s \in Stacks : TRUE

Nats(A) == part = "nats" /\ A
    /\ UNCHANGED <<part, healthVars, fileVars, jwtVars, logVars>>
Health(A) == part = "health" /\ A
    /\ UNCHANGED <<part, natsVars, fileVars, jwtVars, logVars>>
File(A) == part = "file" /\ A
    /\ UNCHANGED <<part, natsVars, healthVars, jwtVars, logVars>>
Jwt(A) == part = "jwt" /\ A
    /\ UNCHANGED <<part, natsVars, healthVars, fileVars, logVars>>
Log(A) == part = "log" /\ A
    /\ UNCHANGED <<part, natsVars, healthVars, fileVars, jwtVars>>

Next ==
    \/ Nats(N!NewNATSClient)
    \/ \E u \in Users :
        \/ Nats(N!Subscribe(u)) \/ Nats(N!QueueSubscribe(u)) \/ Nats(N!Store(u))
        \/ Nats(N!Unsubscribe(u)) \/ Nats(N!UnsubscribeCall(u))
        \/ Nats(N!CloseMap(u)) \/ Nats(N!CloseConn(u))
    \/ Health(H!Tick) \/ Health(H!ClearCache)
    \/ \E c \in Checkers :
        \/ Health(H!Fails(c)) \/ Health(H!Recovers(c)) \/ \E k \in H!Kinds : Health(H!Register(k, c))
    \/ \E p \in Probes :
        \/ \E k \in H!Kinds : Health(H!Hit(p, k)) \/ Health(H!Miss(p, k))
        \/ Health(H!List(p)) \/ Health(H!CacheResponse(p)) \/ Health(H!Answered(p))
        \/ \E c \in Checkers : Health(H!CheckUp(p, c)) \/ Health(H!CheckDown(p, c))
    \/ File(F!Ask) \/ \E f \in F!Fields : File(F!Write(f))
    \/ Jwt(J!Tick)
    \/ \E t \in Tokens : \/ Jwt(J!GenerateToken(t)) \/ Jwt(J!RevokeNothing(t))
                         \/ \E from \in Tokens : Jwt(J!RefreshToken(t, from))
    \/ \E c \in Callers :
        \/ Jwt(J!ExistsFails(c)) \/ Jwt(J!Accepted(c)) \/ Jwt(J!RevokeFails(c))
        \/ \E t \in Tokens : \/ Jwt(J!Authenticate(c, t)) \/ Jwt(J!Exists(c, t))
                             \/ Jwt(J!RevokeToken(c, t)) \/ Jwt(J!RevokeSet(c, t))
    \/ Log(L!WithContext) \/ Log(L!Named)
    \/ \E k \in FieldKeys, kind \in SensitiveTypes : Log(L!AddSensitiveKey(k, kind))
    \/ \E g \in L!Given : Log(L!With(g))
    \/ \E n \in Levels : Log(L!SetLevel(n))
    \/ \E ls \in L!HookLevels, fails \in BOOLEAN : Log(L!AddHook(ls, fails))
    \/ \E n \in Levels, given \in L!Fields : Log(L!Log(n, given))

Spec == Init /\ [][Next]_vars

Symmetry == Permutations(Probes) \cup Permutations(Checkers)

-----------------------------------------------------------------------------
(* Properties, as the modules state them *)

\* Types of the variables of all parts.
TypeOK ==
    /\ part \in Parts
    /\ N!TypeOK /\ H!TypeOK /\ J!TypeOK /\ L!TypeOK

\* Unsubscribe or Close can end every subscription whose key was not written over.
LiveIsReachable == N!LiveIsReachable

\* Health answers are of bounded age, and up means that every checker was up.
AnswersAreFresh == H!AnswersAreFresh

\* Defaults and validator of the configuration fit together, and the rules for
\* single fields with each other.
RulesAgree == F!DefaultsFit /\ F!RulesAgree

\* A revoked token is refused while it would be good.
RevokedIsRefused == J!RevokedIsRefused

\* Strings under sensitive keys get below a MaskedLogger as their rules leave them.
MaskedBelow == L!MaskedBelow

\* The lines of a request carry its id. (Does not hold.)
RequestIDStands == L!RequestIDStands
=============================================================================
