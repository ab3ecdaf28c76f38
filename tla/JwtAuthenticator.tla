-------------------------- MODULE JwtAuthenticator --------------------------
(***************************************************************************)
(* pkg/auth/jwt/jwt.go: tokens that are issued, refreshed, revoked and      *)
(* asked about, against the blacklist, a cache whose entries end by         *)
(* themselves and whose lookups and writes can fail. A token is good until  *)
(* its time is up: a tick before the cache, which keeps an entry through    *)
(* its last instant. Signatures are not modelled: only the program's own    *)
(* tokens are asked about.                                                  *)
(***************************************************************************)
EXTENDS Integers

CONSTANTS
    Tokens, Callers,
    AccessTokenTTL  \* in ticks, positive

VARIABLES
    enabled, \* BlacklistEnabled
    wired,   \* an authenticator made WithBlacklist; the plugin's own is not
    left,    \* ticks a token is good for; -1 before it is issued
    listed,  \* ticks of its blacklist entry left; -1 without one
    revoked, \* (history) tokens whose RevokeToken reported success
    caller   \* each caller's place in Authenticate or RevokeToken

vars == <<enabled, wired, left, listed, revoked, caller>>

\* at; the token; the ttl computed for it; and (history) what the caller could
\* know: whether the token had been revoked when it began, and if its lookup failed.
AtRest == [at |-> "rest", token |-> {}, ttl |-> 0, known |-> FALSE, failed |-> FALSE]

Init ==
    /\ enabled \in BOOLEAN /\ wired \in BOOLEAN
    /\ left = [t \in Tokens |-> -1]
    /\ listed = [t \in Tokens |-> -1]
    /\ revoked = {}
    /\ caller = [c \in Callers |-> AtRest]

Listing == enabled /\ wired
Valid(t) == left[t] > 0

GenerateToken(t) ==
    /\ left[t] = -1
    /\ left' = [left EXCEPT ![t] = AccessTokenTTL]
    /\ UNCHANGED <<enabled, wired, listed, revoked, caller>>

\* The blacklist is not asked: what was refreshed from a revoked token is good.
RefreshToken(t, from) == Valid(from) /\ GenerateToken(t)

-----------------------------------------------------------------------------

Go(c, step) == caller' = [caller EXCEPT ![c] = step]

\* Parsing, which refuses a token whose time is up.
Authenticate(c, t) ==
    /\ caller[c].at = "rest" /\ Valid(t)
    /\ Go(c, [AtRest EXCEPT !.at = IF Listing THEN "exists" ELSE "accepted",
                            !.token = {t}, !.known = t \in revoked])
    /\ UNCHANGED <<enabled, wired, left, listed, revoked>>

Exists(c, t) ==
    /\ caller[c].at = "exists" /\ t \in caller[c].token
    /\ IF listed[t] >= 0 THEN Go(c, AtRest)
       ELSE Go(c, [caller[c] EXCEPT !.at = "accepted"])
    /\ UNCHANGED <<enabled, wired, left, listed, revoked>>

\* The error of the lookup is dropped, and the token is taken as not revoked.
ExistsFails(c) ==
    /\ caller[c].at = "exists"
    /\ Go(c, [caller[c] EXCEPT !.at = "accepted", !.failed = TRUE])
    /\ UNCHANGED <<enabled, wired, left, listed, revoked>>

Accepted(c) ==
    /\ caller[c].at = "accepted"
    /\ Go(c, AtRest)
    /\ UNCHANGED <<enabled, wired, left, listed, revoked>>

\* Without a blacklist there is nothing to do, and RevokeToken reports success.
RevokeNothing(t) ==
    /\ ~Listing /\ left[t] # -1
    /\ revoked' = revoked \cup {t}
    /\ UNCHANGED <<enabled, wired, left, listed, caller>>

\* The time the token has left becomes the ttl of its entry.
RevokeToken(c, t) ==
    /\ caller[c].at = "rest" /\ Listing /\ Valid(t)
    /\ Go(c, [AtRest EXCEPT !.at = "set", !.token = {t}, !.ttl = left[t]])
    /\ UNCHANGED <<enabled, wired, left, listed, revoked>>

\* (Faulty variant of RevokeSet: the ttl is cut by a margin.)
RevokeSetShort(c, t) ==
    /\ caller[c].at = "set" /\ t \in caller[c].token
    /\ listed' = [listed EXCEPT ![t] = caller[c].ttl - 2]
    /\ revoked' = revoked \cup {t}
    /\ Go(c, AtRest)
    /\ UNCHANGED <<enabled, wired, left>>

RevokeSet(c, t) ==
    /\ caller[c].at = "set" /\ t \in caller[c].token
    /\ listed' = [listed EXCEPT ![t] = caller[c].ttl]
    /\ revoked' = revoked \cup {t}
    /\ Go(c, AtRest)
    /\ UNCHANGED <<enabled, wired, left>>

RevokeFails(c) ==
    /\ caller[c].at = "set"
    /\ Go(c, AtRest)
    /\ UNCHANGED <<enabled, wired, left, listed, revoked>>

\* (Faulty variant of Tick: an entry that has ended goes on.)
TickOn ==
    /\ left' = [t \in Tokens |-> IF left[t] > 0 THEN left[t] - 1 ELSE left[t]]
    /\ listed' = [t \in Tokens |-> listed[t] - 1]
    /\ UNCHANGED <<enabled, wired, revoked, caller>>

Tick ==
    /\ left' = [t \in Tokens |-> IF left[t] > 0 THEN left[t] - 1 ELSE left[t]]
    /\ listed' = [t \in Tokens |-> IF listed[t] >= 0 THEN listed[t] - 1 ELSE -1]
    /\ UNCHANGED <<enabled, wired, revoked, caller>>

Next ==
    \/ Tick
    \/ \E t \in Tokens : \/ GenerateToken(t) \/ RevokeNothing(t)
                         \/ \E from \in Tokens : RefreshToken(t, from)
    \/ \E c \in Callers : \/ ExistsFails(c) \/ Accepted(c) \/ RevokeFails(c)
                          \/ \E t \in Tokens : \/ Authenticate(c, t) \/ Exists(c, t)
                                               \/ RevokeToken(c, t) \/ RevokeSet(c, t)

Spec == Init /\ [][Next]_vars

-----------------------------------------------------------------------------
(* Properties *)

\* Types of the variables.
TypeOK ==
    /\ enabled \in BOOLEAN /\ wired \in BOOLEAN
    /\ left \in [Tokens -> -1..AccessTokenTTL]
    /\ listed \in [Tokens -> -1..AccessTokenTTL]
    /\ revoked \subseteq Tokens
    /\ caller \in [Callers -> [at : {"rest", "exists", "accepted", "set"},
                               token : SUBSET Tokens, ttl : 0..AccessTokenTTL,
                               known : BOOLEAN, failed : BOOLEAN]]

\* A token whose revocation was reported before Authenticate began is refused while
\* it would be good, however long the write of its entry took, as the entry lasts
\* longer than the token. It is accepted only if no blacklist is used, which
\* includes every authenticator that comes from the plugin; if the lookup fails; or
\* if token and entry both ran out between the parsing and the lookup.
RevokedIsRefused ==
    \A c \in Callers : \A t \in caller[c].token :
        caller[c].at = "accepted" /\ caller[c].known /\ Valid(t) => ~Listing \/ caller[c].failed
=============================================================================
