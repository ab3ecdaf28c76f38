----------------------- MODULE IPRateLimiter_proofs -----------------------
(* Proofs of the safety properties of IPRateLimiter, for any number of keys, *)
(* callers and buckets and any capacity and rate.                            *)
EXTENDS IPRateLimiter, FiniteSetTheorems, TLAPS

\* No bucket was updated in the future: AllowN never sees time run backwards.
ClockOK == \A b \in Buckets : lastUpdate[b] <= now

\* Registered and held pointers point to buckets that were allocated.
PointersOK ==
    /\ \A k \in Keys : limiters[k] # NoBucket => limiters[k] \in made
    /\ \A c \in Callers : pc[c] = "allow" => held[c] \in made

\* The map cleanup ranges over does not change under it.
SweepOK == sweeping => \A k \in todo : limiters[k] # NoBucket

\* A bucket cleanup dropped is never registered again.
ForgottenOK ==
    /\ forgotten \subseteq made
    /\ \A k \in Keys : limiters[k] \notin forgotten

\* The requests of a key that are about to charge a dropped bucket.
Strays(k) ==
    {c \in Callers : pc[c] = "allow" /\ held[c] \in forgotten /\ req[c].key = k}

\* What the strays of a key may still be granted.
Owed(k) == Asked(Strays(k), Asking)

\* The account of a key: what its buckets granted, what its strays may still
\* get and what the registered bucket still holds was paid for by one burst,
\* the refill and what the overtaken requests asked for; while no bucket is
\* registered the burst has been given back.
AccountOK ==
    \A k \in Keys :
        /\ limiters[k] = NoBucket =>
              granted[k] + Owed(k) <= Rate * now + overtaken[k]
        /\ limiters[k] # NoBucket =>
              granted[k] + Owed(k) + tokens[limiters[k]]
                  <= Capacity + Rate * lastUpdate[limiters[k]] + overtaken[k]

IInv ==
    /\ TypeOK
    /\ ClockOK
    /\ PointersOK
    /\ SweepOK
    /\ ForgottenOK
    /\ AccountOK
    /\ HeldIsRegisteredOrForgotten
    /\ KeysIsolated

USE CapacityAssumption, RateAssumption, SizesAssumption, MaxTimeAssumption,
    CallersAssumption, NoBucketAssumption

-----------------------------------------------------------------------------
\* The refill between two times is the difference of what was added by each.
LEMMA RefillSplits ==
    ASSUME NEW s \in Nat, NEW t \in Nat, s <= t
    PROVE  /\ Rate * (t - s) \in Nat
           /\ Rate * s \in Nat
           /\ Rate * t \in Nat
           /\ Rate * s + Rate * (t - s) = Rate * t
           /\ Rate * s <= Rate * t
<1>1. PICK d \in Nat : t = s + d
  BY t = s + (t - s), t - s \in Nat
<1>2. t - s = d
  BY <1>1
<1>3. Rate * d \in Nat /\ Rate * s \in Nat /\ Rate * t \in Nat
  BY SMT
<1>4. Rate * (s + d) = Rate * s + Rate * d
  BY SMT
<1> QED
  BY <1>1, <1>2, <1>3, <1>4

\* AllowN finds at least what was stored, at most the capacity, and never more
\* than the elapsed time added.
LEMMA RefilledBounds ==
    ASSUME TypeOK, ClockOK, NEW b \in Buckets
    PROVE  /\ Refilled(b) \in 0..Capacity
           /\ Refilled(b) + Rate * lastUpdate[b] <= tokens[b] + Rate * now
<1>1. /\ tokens[b] \in 0..Capacity /\ lastUpdate[b] \in Nat /\ now \in Nat
      /\ lastUpdate[b] <= now
  BY DEF TypeOK, ClockOK
<1>2. /\ Rate * (now - lastUpdate[b]) \in Nat
      /\ Rate * lastUpdate[b] \in Nat
      /\ Rate * now \in Nat
      /\ Rate * lastUpdate[b] + Rate * (now - lastUpdate[b]) = Rate * now
  BY <1>1, RefillSplits
<1> QED
  BY <1>1, <1>2 DEF Refilled

-----------------------------------------------------------------------------
(* What a set of requests asks for. *)

\* One request asks for its tokens, finitely many.
LEMMA AskedOfOne ==
    ASSUME NEW c, NEW t \in Nat
    PROVE  /\ IsFiniteSet({c} \X (1..t))
           /\ Cardinality({c} \X (1..t)) = t
<1>1. IsFiniteSet({c}) /\ Cardinality({c}) = 1
  BY FS_Singleton
<1>2. IsFiniteSet(1..t) /\ Cardinality(1..t) = t
  BY FS_Interval
<1>3. /\ IsFiniteSet({c} \X (1..t))
      /\ Cardinality({c} \X (1..t)) = Cardinality({c}) * Cardinality(1..t)
  BY <1>1, <1>2, FS_Product, Zenon
<1>4. Cardinality({c}) * Cardinality(1..t) = t
  BY <1>1, <1>2
<1> QED
  BY <1>3, <1>4, Zenon

\* Finitely many requests ask for finitely many tokens.
LEMMA AskedFinite ==
    ASSUME NEW n \in [Callers -> Nat], NEW C \in SUBSET Callers
    PROVE  IsFiniteSet(UNION {{c} \X (1..n[c]) : c \in C})
<1> DEFINE S == {{c} \X (1..n[c]) : c \in C}
           f == [c \in C |-> {c} \X (1..n[c])]
<1>1. IsFiniteSet(C)
  BY FS_Subset, CallersAssumption
<1>2. f \in Surjection(C, S)
  BY DEF Surjection
<1>3. IsFiniteSet(S)
  <2> HIDE DEF f, S
  <2> QED
    BY <1>1, <1>2, FS_Surjection
<1>4. \A T \in S : IsFiniteSet(T)
  <2> SUFFICES ASSUME NEW c \in C PROVE IsFiniteSet({c} \X (1..n[c]))
    OBVIOUS
  <2>1. n[c] \in Nat
    OBVIOUS
  <2> QED
    BY <2>1, AskedOfOne
<1> HIDE DEF S
<1>5. IsFiniteSet(UNION S)
  BY <1>3, <1>4, FS_UNION
<1> QED
  BY <1>5 DEF S

\* Separate requests add up.
LEMMA AskedAddsUp ==
    ASSUME NEW n \in [Callers -> Nat],
           NEW C \in SUBSET Callers, NEW D \in SUBSET Callers, C \cap D = {}
    PROVE  /\ Asked(C, n) \in Nat
           /\ Asked(D, n) \in Nat
           /\ Asked(C \cup D, n) = Asked(C, n) + Asked(D, n)
<1> DEFINE U(E) == UNION {{c} \X (1..n[c]) : c \in E}
<1>1. IsFiniteSet(U(C)) /\ IsFiniteSet(U(D))
  BY AskedFinite
<1>2. U(C \cup D) = U(C) \cup U(D) /\ U(C) \cap U(D) = {}
  <2>1. ASSUME NEW t \in U(C), t \in U(D) PROVE FALSE
    <3>1. PICK c \in C : t \in {c} \X (1..n[c])
      BY <2>1
    <3>2. PICK d \in D : t \in {d} \X (1..n[d])
      BY <2>1
    <3>3. t[1] = c /\ t[1] = d
      BY <3>1, <3>2
    <3> QED
      BY <3>3
  <2>2. U(C \cup D) = U(C) \cup U(D)
    OBVIOUS
  <2> QED
    BY <2>1, <2>2
<1>3. /\ Asked(C, n) = Cardinality(U(C)) /\ Asked(D, n) = Cardinality(U(D))
      /\ Asked(C \cup D, n) = Cardinality(U(C \cup D))
  BY DEF Asked
<1> HIDE DEF U
<1>4. Cardinality(U(C)) \in Nat /\ Cardinality(U(D)) \in Nat
  BY <1>1, FS_CardinalityType
<1>5. Cardinality(U(C) \cup U(D)) = Cardinality(U(C)) + Cardinality(U(D)) - 0
  BY <1>1, <1>2, FS_Union, FS_EmptySet
<1>6. Cardinality(U(C) \cup U(D)) = Cardinality(U(C)) + Cardinality(U(D))
  BY <1>4, <1>5
<1> QED
  BY <1>2, <1>3, <1>4, <1>6, Zenon

\* A request that got its answer asks for no more.
LEMMA AskedWithout ==
    ASSUME NEW n \in [Callers -> Nat], NEW C \in SUBSET Callers, NEW c \in C
    PROVE  /\ Asked(C \ {c}, n) \in Nat
           /\ Asked(C, n) = Asked(C \ {c}, n) + n[c]
<1>1. (C \ {c}) \cap {c} = {} /\ C = (C \ {c}) \cup {c} /\ c \in Callers
  OBVIOUS
<1>2. /\ Asked(C \ {c}, n) \in Nat
      /\ Asked((C \ {c}) \cup {c}, n) = Asked(C \ {c}, n) + Asked({c}, n)
  BY <1>1, AskedAddsUp
<1>3. UNION {{d} \X (1..n[d]) : d \in {c}} = {c} \X (1..n[c])
  OBVIOUS
<1>4. Asked({c}, n) = n[c]
  BY <1>1, <1>3, AskedOfOne DEF Asked
<1> QED
  BY <1>1, <1>2, <1>4

\* Only the requests in the set count.
LEMMA AskedSame ==
    ASSUME NEW n, NEW m, NEW C, \A c \in C : n[c] = m[c]
    PROVE  Asked(C, n) = Asked(C, m)
BY DEF Asked

\* What the strays are owed is a number, and what each asks for one as well.
LEMMA OwedIsNat ==
    ASSUME TypeOK, NEW k
    PROVE  Owed(k) \in Nat /\ Asking \in [Callers -> Nat]
<1>1. Asking \in [Callers -> Nat]
  BY DEF TypeOK, Requests, Asking
<1>2. Strays(k) \in SUBSET Callers /\ {} \in SUBSET Callers
      /\ Strays(k) \cap {} = {}
  BY DEF Strays
<1> QED
  BY <1>1, <1>2, AskedAddsUp DEF Owed

\* A step that leaves the strays of a key and their requests leaves what
\* they are owed.
LEMMA OwedSame ==
    ASSUME TypeOK, TypeOK', NEW k, Strays(k)' = Strays(k),
           \A c \in Strays(k) : req'[c].n = req[c].n
    PROVE  Owed(k)' = Owed(k)
<1>1. \A c \in Strays(k) : Asking[c] = Asking'[c]
  BY DEF Strays, Asking
<1>2. Asked(Strays(k), Asking) = Asked(Strays(k), Asking')
  BY <1>1, AskedSame
<1>3. Owed(k)' = Asked(Strays(k)', Asking')
  BY DEF Owed
<1> QED
  BY <1>2, <1>3 DEF Owed

\* A step that leaves the accounts' buckets, grants and strays keeps them.
LEMMA AccountSame ==
    ASSUME TypeOK, TypeOK', AccountOK,
           UNCHANGED <<now, granted, overtaken, tokens, lastUpdate, limiters>>,
           \A k \in Keys : Strays(k)' = Strays(k),
           \A k \in Keys : \A c \in Strays(k) : req'[c].n = req[c].n
    PROVE  AccountOK'
<1>1. ASSUME NEW k \in Keys PROVE Owed(k)' = Owed(k)
  BY OwedSame
<1> QED
  BY <1>1 DEF AccountOK

-----------------------------------------------------------------------------
LEMMA InitIInv == Init => IInv
<1> SUFFICES ASSUME Init PROVE IInv
  OBVIOUS
<1>1. TypeOK
  <2>1. /\ now \in 0..MaxTime
        /\ tokens \in [Buckets -> 0..Capacity]
        /\ lastUpdate \in [Buckets -> 0..MaxTime]
    BY DEF Init
  <2>2. /\ limiters \in [Keys -> Buckets \cup {NoBucket}]
        /\ held \in [Callers -> Buckets \cup {NoBucket}]
        /\ pc \in [Callers -> {"idle", "lookup", "create", "allow"}]
        /\ req \in [Callers -> Requests]
    BY DEF Init
  <2>3. granted \in [Keys -> Nat] /\ overtaken \in [Keys -> Nat]
    BY DEF Init
  <2>4. made \in SUBSET Buckets /\ todo \in SUBSET Keys
        /\ forgotten \in SUBSET Buckets /\ sweeping \in BOOLEAN
    BY DEF Init
  <2> QED
    BY <2>1, <2>2, <2>3, <2>4 DEF TypeOK
<1>2. ClockOK /\ PointersOK /\ SweepOK /\ ForgottenOK
  BY DEF Init, ClockOK, PointersOK, SweepOK, ForgottenOK
<1>3. AccountOK
  <2> SUFFICES ASSUME NEW k \in Keys
               PROVE  granted[k] + Owed(k) <= Rate * now + overtaken[k]
    BY DEF Init, AccountOK
  <2>1. Strays(k) = {}
    BY DEF Init, Strays
  <2>2. UNION {{c} \X (1..Asking[c]) : c \in {}} = {}
    OBVIOUS
  <2>3. Owed(k) = 0
    BY <2>1, <2>2, FS_EmptySet DEF Owed, Asked
  <2> QED
    BY <2>3, RefillSplits DEF Init
<1>4. HeldIsRegisteredOrForgotten /\ KeysIsolated
  BY DEF Init, HeldIsRegisteredOrForgotten, KeysIsolated
<1> QED
  BY <1>1, <1>2, <1>3, <1>4 DEF IInv

-----------------------------------------------------------------------------
\* Steps that move a caller but touch neither the buckets nor the map.
LEMMA ArriveIInv == \A c \in Callers : IInv /\ Arrive(c) => IInv'
<1> SUFFICES ASSUME NEW c \in Callers, IInv, Arrive(c) PROVE IInv'
  OBVIOUS
<1> USE DEF Arrive, bucketVars, sweepVars, history
<1>1. TypeOK'
  BY DEF IInv, TypeOK
<1>2. ClockOK' /\ PointersOK' /\ SweepOK' /\ ForgottenOK'
  BY DEF IInv, TypeOK, ClockOK, PointersOK, SweepOK, ForgottenOK
<1>3. AccountOK'
  <2>1. ASSUME NEW k \in Keys
        PROVE  /\ Strays(k)' = Strays(k)
               /\ \A d \in Strays(k) : req'[d].n = req[d].n
    BY DEF IInv, TypeOK, ForgottenOK, PointersOK, Strays
  <2> QED
    BY <1>1, <2>1, AccountSame DEF IInv
<1>4. HeldIsRegisteredOrForgotten' /\ KeysIsolated'
  BY DEF IInv, TypeOK, HeldIsRegisteredOrForgotten, KeysIsolated
<1> QED
  BY <1>1, <1>2, <1>3, <1>4 DEF IInv

LEMMA LookupIInv == \A c \in Callers : IInv /\ Lookup(c) => IInv'
<1> SUFFICES ASSUME NEW c \in Callers, IInv, Lookup(c) PROVE IInv'
  OBVIOUS
<1> USE DEF Lookup, Take, bucketVars, sweepVars, history
<1>1. TypeOK'
  BY DEF IInv, TypeOK, Requests
<1>2. ClockOK' /\ PointersOK' /\ SweepOK' /\ ForgottenOK'
  BY DEF IInv, TypeOK, Requests, ClockOK, PointersOK, SweepOK, ForgottenOK
<1>3. AccountOK'
  <2>1. ASSUME NEW k \in Keys
        PROVE  /\ Strays(k)' = Strays(k)
               /\ \A d \in Strays(k) : req'[d].n = req[d].n
    BY DEF IInv, TypeOK, Requests, ForgottenOK, PointersOK, Strays
  <2> QED
    BY <1>1, <2>1, AccountSame DEF IInv
<1>4. HeldIsRegisteredOrForgotten' /\ KeysIsolated'
  BY DEF IInv, TypeOK, Requests, HeldIsRegisteredOrForgotten, KeysIsolated
<1> QED
  BY <1>1, <1>2, <1>3, <1>4 DEF IInv

LEMMA CreateFoundIInv == \A c \in Callers : IInv /\ CreateFound(c) => IInv'
<1> SUFFICES ASSUME NEW c \in Callers, IInv, CreateFound(c) PROVE IInv'
  OBVIOUS
<1> USE DEF CreateFound, Take, bucketVars, sweepVars, history
<1>1. TypeOK'
  BY DEF IInv, TypeOK, Requests
<1>2. ClockOK' /\ PointersOK' /\ SweepOK' /\ ForgottenOK'
  BY DEF IInv, TypeOK, Requests, ClockOK, PointersOK, SweepOK, ForgottenOK
<1>3. AccountOK'
  <2>1. ASSUME NEW k \in Keys
        PROVE  /\ Strays(k)' = Strays(k)
               /\ \A d \in Strays(k) : req'[d].n = req[d].n
    BY DEF IInv, TypeOK, Requests, ForgottenOK, PointersOK, Strays
  <2> QED
    BY <1>1, <2>1, AccountSame DEF IInv
<1>4. HeldIsRegisteredOrForgotten' /\ KeysIsolated'
  BY DEF IInv, TypeOK, Requests, HeldIsRegisteredOrForgotten, KeysIsolated
<1> QED
  BY <1>1, <1>2, <1>3, <1>4 DEF IInv

\* A fresh bucket: no key has it and no caller holds it.
LEMMA CreateNewIInv == \A c \in Callers : IInv /\ CreateNew(c) => IInv'
<1> SUFFICES ASSUME NEW c \in Callers, IInv, CreateNew(c) PROVE IInv'
  OBVIOUS
<1> DEFINE k == req[c].key
<1>1. k \in Keys /\ limiters[k] = NoBucket /\ ~sweeping
  BY DEF IInv, TypeOK, Requests, CreateNew
<1>2. PICK b \in Buckets \ made :
        /\ made' = made \cup {b}
        /\ tokens' = [tokens EXCEPT ![b] = Capacity]
        /\ lastUpdate' = [lastUpdate EXCEPT ![b] = now]
        /\ limiters' = [limiters EXCEPT ![k] = b]
        /\ held' = [held EXCEPT ![c] = b]
        /\ pc' = [pc EXCEPT ![c] = "allow"]
  BY DEF CreateNew, Take
<1>3. UNCHANGED <<now, sweepVars, req, history>>
  BY DEF CreateNew
<1> USE <1>1, <1>2, <1>3 DEF sweepVars, history
<1>4. TypeOK'
  BY DEF IInv, TypeOK, Requests
<1>5. ClockOK'
  BY DEF IInv, TypeOK, ClockOK
<1>6. PointersOK' /\ SweepOK' /\ ForgottenOK'
  BY DEF IInv, TypeOK, PointersOK, SweepOK, ForgottenOK
<1>7. AccountOK'
  <2> SUFFICES ASSUME NEW j \in Keys PROVE AccountOK!(j)'
    BY DEF AccountOK
  <2>3. Owed(j)' = Owed(j) /\ Owed(j) \in Nat
    <3>3. pc[c] = "create" /\ b \notin forgotten
      BY DEF CreateNew, IInv, ForgottenOK
    <3>1. Strays(j)' = Strays(j)
      BY <3>3 DEF IInv, TypeOK, ForgottenOK, Strays
    <3>2. \A d \in Strays(j) : req'[d].n = req[d].n
      OBVIOUS
    <3> QED
      BY <1>4, <3>1, <3>2, OwedSame, OwedIsNat DEF IInv
  <2>1. CASE j = k
    <3>1. granted[k] + Owed(k) <= Rate * now + overtaken[k]
      BY DEF IInv, AccountOK
    <3>2. granted[k] \in Nat /\ overtaken[k] \in Nat /\ Rate * now \in Nat
      BY RefillSplits DEF IInv, TypeOK
    <3>3. limiters'[j] = b /\ tokens'[b] = Capacity /\ lastUpdate'[b] = now
      BY <2>1 DEF IInv, TypeOK
    <3> QED
      BY <2>1, <2>3, <3>1, <3>2, <3>3
  <2>2. CASE j # k
    <3>1. limiters'[j] = limiters[j] /\ limiters[j] # b
      BY <2>2 DEF IInv, TypeOK, PointersOK
    <3>2. AccountOK!(j)
      BY DEF IInv, AccountOK
    <3>3. limiters[j] # NoBucket =>
            /\ tokens'[limiters[j]] = tokens[limiters[j]]
            /\ lastUpdate'[limiters[j]] = lastUpdate[limiters[j]]
      BY <3>1 DEF IInv, TypeOK
    <3> QED
      BY <2>3, <3>1, <3>2, <3>3
  <2> QED
    BY <2>1, <2>2
<1>8. HeldIsRegisteredOrForgotten'
  BY DEF IInv, TypeOK, Requests, PointersOK, HeldIsRegisteredOrForgotten
<1>9. KeysIsolated'
  BY DEF IInv, TypeOK, Requests, PointersOK, KeysIsolated
<1> QED
  BY <1>4, <1>5, <1>6, <1>7, <1>8, <1>9 DEF IInv

\* AllowN: the account of the bucket's key pays for what the caller got; no
\* other key is registered with the bucket.
LEMMA AllowIInv == \A c \in Callers : IInv /\ Allow(c) => IInv'
<1> SUFFICES ASSUME NEW c \in Callers, IInv, Allow(c) PROVE IInv'
  OBVIOUS
<1> DEFINE b == held[c]
           k == req[c].key
           n == req[c].n
           g == Refilled(b) >= n
<1>1. b \in Buckets /\ b \in made /\ k \in Keys /\ n \in Nat /\ pc[c] = "allow"
  BY DEF IInv, TypeOK, PointersOK, Requests, Allow
<1>2. /\ Refilled(b) \in 0..Capacity
      /\ Refilled(b) + Rate * lastUpdate[b] <= tokens[b] + Rate * now
  BY <1>1, RefilledBounds DEF IInv
<1>3. /\ tokens' = [tokens EXCEPT ![b] = IF g THEN Refilled(b) - n ELSE Refilled(b)]
      /\ lastUpdate' = [lastUpdate EXCEPT ![b] = now]
      /\ pc' = [pc EXCEPT ![c] = "idle"]
      /\ held' = [held EXCEPT ![c] = NoBucket]
      /\ UNCHANGED <<now, made, limiters, sweepVars, req, forgotten, overtaken>>
  BY DEF Allow
<1>4. granted' = IF g THEN [granted EXCEPT ![k] = @ + n] ELSE granted
  BY DEF Allow
<1>5. /\ tokens'[b] \in 0..Capacity
      /\ tokens'[b] = IF g THEN Refilled(b) - n ELSE Refilled(b)
      /\ lastUpdate'[b] = now
      /\ \A x \in Buckets \ {b} : /\ tokens'[x] = tokens[x]
                                  /\ lastUpdate'[x] = lastUpdate[x]
  BY <1>1, <1>2, <1>3 DEF IInv, TypeOK
<1>6. TypeOK'
  <2>1. granted' \in [Keys -> Nat]
    BY <1>1, <1>4 DEF IInv, TypeOK
  <2> QED
    BY <1>1, <1>3, <1>5, <2>1 DEF IInv, TypeOK, sweepVars
<1>7. ClockOK'
  BY <1>1, <1>3 DEF IInv, TypeOK, ClockOK
<1>8. PointersOK' /\ SweepOK' /\ ForgottenOK'
  BY <1>1, <1>3 DEF IInv, TypeOK, PointersOK, SweepOK, ForgottenOK, sweepVars
<1>9. AccountOK'
  <2> SUFFICES ASSUME NEW j \in Keys PROVE AccountOK!(j)'
    BY DEF AccountOK
  <2>1. AccountOK!(j) /\ limiters'[j] = limiters[j] /\ now' = now
        /\ overtaken' = overtaken
    BY <1>3 DEF IInv, AccountOK
  <2>2. /\ granted[j] \in Nat /\ overtaken[j] \in Nat /\ Owed(j) \in Nat
        /\ tokens[b] \in Nat /\ Capacity \in Nat
        /\ Rate * now \in Nat /\ Rate * lastUpdate[b] \in Nat
    BY <1>1, OwedIsNat, RefillSplits DEF IInv, TypeOK, ClockOK
  <2>3. CASE limiters[j] = b
    <3>1. j = k
      BY <1>1, <2>3 DEF IInv, KeysIsolated
    <3>2. granted'[j] = IF g THEN granted[j] + n ELSE granted[j]
      BY <1>1, <1>4, <3>1 DEF IInv, TypeOK
    <3>3. Strays(j)' = Strays(j) /\ (\A d \in Strays(j) : req'[d].n = req[d].n)
      BY <1>1, <1>3, <2>3 DEF IInv, TypeOK, ForgottenOK, Strays
    <3>4. Owed(j)' = Owed(j)
      BY <1>6, <3>3, OwedSame DEF IInv
    <3>5. granted[j] + Owed(j) + tokens[b]
             <= Capacity + Rate * lastUpdate[b] + overtaken[j]
      BY <1>1, <2>1, <2>3
    <3>6. granted'[j] + Owed(j) + tokens'[b]
             <= Capacity + Rate * now + overtaken[j]
      <4> QED
        BY <1>1, <1>2, <1>5, <2>2, <3>2, <3>5
    <3> QED
      BY <1>1, <1>5, <2>1, <2>3, <3>4, <3>6
  <2>4. CASE limiters[j] # b
    <3>1. limiters[j] # NoBucket =>
             /\ tokens'[limiters[j]] = tokens[limiters[j]]
             /\ lastUpdate'[limiters[j]] = lastUpdate[limiters[j]]
             /\ tokens[limiters[j]] \in Nat
             /\ Rate * lastUpdate[limiters[j]] \in Nat
      <4> SUFFICES ASSUME limiters[j] # NoBucket
                   PROVE  /\ tokens'[limiters[j]] = tokens[limiters[j]]
                          /\ lastUpdate'[limiters[j]] = lastUpdate[limiters[j]]
                          /\ tokens[limiters[j]] \in Nat
                          /\ Rate * lastUpdate[limiters[j]] \in Nat
        OBVIOUS
      <4>1. limiters[j] \in Buckets
        BY DEF IInv, TypeOK
      <4>2. /\ lastUpdate[limiters[j]] \in Nat /\ now \in Nat
            /\ lastUpdate[limiters[j]] <= now /\ tokens[limiters[j]] \in Nat
        BY <4>1 DEF IInv, TypeOK, ClockOK
      <4>3. Rate * lastUpdate[limiters[j]] \in Nat
        BY <4>2, RefillSplits
      <4> QED
        BY <1>5, <2>4, <4>1, <4>2, <4>3
    <3>2. CASE j # k
      <4>1. granted'[j] = granted[j]
        BY <1>1, <1>4, <3>2 DEF IInv, TypeOK
      <4>2. Strays(j)' = Strays(j) /\ (\A d \in Strays(j) : req'[d].n = req[d].n)
        BY <1>1, <1>3, <3>2 DEF IInv, TypeOK, Strays
      <4>3. Owed(j)' = Owed(j)
        BY <1>6, <4>2, OwedSame DEF IInv
      <4> QED
        BY <2>1, <3>1, <4>1, <4>3
    <3>3. CASE j = k
      <4>1. c \in Strays(j) /\ Strays(j) \in SUBSET Callers
        BY <1>1, <2>4, <3>3 DEF IInv, HeldIsRegisteredOrForgotten, Strays
      <4>2. Strays(j)' = Strays(j) \ {c}
        BY <1>1, <1>3 DEF IInv, TypeOK, Strays
      <4>3. Asking' = Asking /\ Asking[c] = n
        BY <1>3 DEF Asking
      <4>4. Owed(j)' = Asked(Strays(j)', Asking')
        BY DEF Owed
      <4>5. /\ Asked(Strays(j) \ {c}, Asking) \in Nat
            /\ Owed(j) = Asked(Strays(j) \ {c}, Asking) + Asking[c]
        BY <4>1, AskedWithout, OwedIsNat DEF IInv, Owed
      <4>6. Owed(j)' \in Nat /\ Owed(j) = Owed(j)' + n
        BY <4>2, <4>3, <4>4, <4>5
      <4>7. granted'[j] = IF g THEN granted[j] + n ELSE granted[j]
        BY <1>1, <1>4, <3>3 DEF IInv, TypeOK
      <4> QED
        BY <1>1, <2>1, <2>2, <3>1, <4>6, <4>7
    <3> QED
      BY <3>2, <3>3
  <2> QED
    BY <2>3, <2>4
<1>10. HeldIsRegisteredOrForgotten' /\ KeysIsolated'
  BY <1>1, <1>3 DEF IInv, TypeOK, HeldIsRegisteredOrForgotten, KeysIsolated
<1> QED
  BY <1>6, <1>7, <1>8, <1>9, <1>10 DEF IInv

-----------------------------------------------------------------------------
LEMMA SweepStartIInv == IInv /\ SweepStart => IInv'
<1> SUFFICES ASSUME IInv, SweepStart PROVE IInv'
  OBVIOUS
<1> USE DEF SweepStart, bucketVars, callerVars, history
<1>1. TypeOK'
  BY DEF IInv, TypeOK
<1>2. ClockOK' /\ PointersOK' /\ SweepOK' /\ ForgottenOK'
  BY DEF IInv, ClockOK, PointersOK, SweepOK, ForgottenOK
<1>3. AccountOK'
  <2>1. \A k \in Keys : /\ Strays(k)' = Strays(k)
                        /\ \A d \in Strays(k) : req'[d].n = req[d].n
    BY DEF Strays
  <2> QED
    BY <1>1, <2>1, AccountSame DEF IInv
<1>4. HeldIsRegisteredOrForgotten' /\ KeysIsolated'
  BY DEF IInv, HeldIsRegisteredOrForgotten, KeysIsolated
<1> QED
  BY <1>1, <1>2, <1>3, <1>4 DEF IInv

\* cleanup gives a burst back only when the dropped bucket still held it.
LEMMA SweepVisitIInv == \A k \in Keys : IInv /\ SweepVisit(k) => IInv'
<1> SUFFICES ASSUME NEW k \in Keys, IInv, SweepVisit(k) PROVE IInv'
  OBVIOUS
<1> DEFINE b == limiters[k]
<1>1. b \in Buckets /\ b # NoBucket /\ sweeping
  BY DEF IInv, TypeOK, SweepOK, SweepVisit
<1>2. /\ todo' = todo \ {k}
      /\ UNCHANGED <<now, bucketVars, sweeping, callerVars, granted>>
  BY DEF SweepVisit
<1>3. CASE ~LooksFull(b)
  <2>1. UNCHANGED <<limiters, forgotten, overtaken>>
    BY <1>3 DEF SweepVisit
  <2> USE <1>2, <2>1 DEF bucketVars, callerVars
  <2>2. TypeOK'
    BY DEF IInv, TypeOK
  <2>3. ClockOK' /\ PointersOK' /\ SweepOK' /\ ForgottenOK'
    BY DEF IInv, ClockOK, PointersOK, SweepOK, ForgottenOK
  <2>5. AccountOK'
    <3>1. \A j \in Keys : /\ Strays(j)' = Strays(j)
                          /\ \A d \in Strays(j) : req'[d].n = req[d].n
      BY DEF Strays
    <3> QED
      BY <2>2, <3>1, AccountSame DEF IInv
  <2>4. HeldIsRegisteredOrForgotten' /\ KeysIsolated'
    BY DEF IInv, HeldIsRegisteredOrForgotten, KeysIsolated
  <2> QED
    BY <2>2, <2>3, <2>4, <2>5 DEF IInv
<1>4. CASE LooksFull(b)
  <2>1. /\ limiters' = [limiters EXCEPT ![k] = NoBucket]
        /\ forgotten' = forgotten \cup {b}
        /\ overtaken' = [overtaken EXCEPT ![k] = @ + Asked(Holders(b), Asking)]
    BY <1>4 DEF SweepVisit
  <2> USE <1>1, <1>2, <2>1 DEF bucketVars, callerVars
  <2>6. /\ Strays(k) \in SUBSET Callers /\ Holders(b) \in SUBSET Callers
        /\ Strays(k) \cap Holders(b) = {}
    BY DEF IInv, ForgottenOK, Strays, Holders
  <2>7. Asking \in [Callers -> Nat] /\ \A j : Owed(j) \in Nat
    BY OwedIsNat DEF IInv
  <2>8. /\ Asked(Holders(b), Asking) \in Nat
        /\ Asked(Strays(k) \cup Holders(b), Asking)
             = Owed(k) + Asked(Holders(b), Asking)
    BY <2>6, <2>7, AskedAddsUp DEF Owed
  <2>2. TypeOK'
    BY <2>8 DEF IInv, TypeOK
  <2>3. ClockOK' /\ PointersOK' /\ SweepOK'
    BY DEF IInv, TypeOK, ClockOK, PointersOK, SweepOK
  <2>9. ForgottenOK'
    BY DEF IInv, TypeOK, PointersOK, ForgottenOK, KeysIsolated
  <2>4. AccountOK'
    <3> SUFFICES ASSUME NEW j \in Keys PROVE AccountOK!(j)'
      BY DEF AccountOK
    <3>1. AccountOK!(j)
      BY DEF IInv, AccountOK
    <3>2. CASE j # k
      <4>1. Strays(j)' = Strays(j) /\ (\A d \in Strays(j) : req'[d].n = req[d].n)
        BY <3>2 DEF IInv, TypeOK, Requests, KeysIsolated, Strays
      <4>2. Owed(j)' = Owed(j)
        BY <2>2, <4>1, OwedSame DEF IInv
      <4>3. overtaken'[j] = overtaken[j] /\ limiters'[j] = limiters[j]
        BY <3>2 DEF IInv, TypeOK
      <4> QED
        BY <3>1, <4>2, <4>3
    <3>3. CASE j = k
      <4>1. /\ granted[k] \in Nat /\ tokens[b] \in Nat /\ tokens[b] >= Capacity
            /\ lastUpdate[b] \in Nat /\ now \in Nat /\ lastUpdate[b] <= now
            /\ overtaken[k] \in Nat /\ Capacity \in Nat
        BY <1>4 DEF IInv, TypeOK, ClockOK, LooksFull
      <4>2. /\ Rate * lastUpdate[b] \in Nat /\ Rate * now \in Nat
            /\ Rate * lastUpdate[b] <= Rate * now
        BY <4>1, RefillSplits
      <4>3. granted[k] + Owed(k) <= Rate * now + overtaken[k]
        <5> QED
          BY <2>7, <3>1, <3>3, <4>1, <4>2
      <4>4. Strays(k)' = Strays(k) \cup Holders(b)
        BY DEF IInv, TypeOK, Requests, KeysIsolated, Strays, Holders
      <4>5. Asking' = Asking /\ Owed(k)' = Asked(Strays(k)', Asking')
        BY DEF Asking, Owed
      <4>6. Owed(k)' = Owed(k) + Asked(Holders(b), Asking)
        BY <2>8, <4>4, <4>5
      <4>7. overtaken'[k] = overtaken[k] + Asked(Holders(b), Asking)
            /\ limiters'[k] = NoBucket
        BY DEF IInv, TypeOK
      <4> QED
        BY <2>7, <2>8, <3>3, <4>1, <4>2, <4>3, <4>6, <4>7
    <3> QED
      BY <3>2, <3>3
  <2>5. HeldIsRegisteredOrForgotten' /\ KeysIsolated'
    BY DEF IInv, TypeOK, Requests, PointersOK, HeldIsRegisteredOrForgotten,
           KeysIsolated
  <2> QED
    BY <2>2, <2>3, <2>4, <2>5, <2>9 DEF IInv
<1> QED
  BY <1>3, <1>4

LEMMA SweepEndIInv == IInv /\ SweepEnd => IInv'
<1> SUFFICES ASSUME IInv, SweepEnd PROVE IInv'
  OBVIOUS
<1> USE DEF SweepEnd, bucketVars, callerVars, history
<1>1. TypeOK'
  BY DEF IInv, TypeOK
<1>2. ClockOK' /\ PointersOK' /\ SweepOK' /\ ForgottenOK'
  BY DEF IInv, ClockOK, PointersOK, SweepOK, ForgottenOK
<1>3. AccountOK'
  <2>1. \A k \in Keys : /\ Strays(k)' = Strays(k)
                        /\ \A d \in Strays(k) : req'[d].n = req[d].n
    BY DEF Strays
  <2> QED
    BY <1>1, <2>1, AccountSame DEF IInv
<1>4. HeldIsRegisteredOrForgotten' /\ KeysIsolated'
  BY DEF IInv, HeldIsRegisteredOrForgotten, KeysIsolated
<1> QED
  BY <1>1, <1>2, <1>3, <1>4 DEF IInv

LEMMA TickIInv == IInv /\ Tick => IInv'
<1> SUFFICES ASSUME IInv, Tick PROVE IInv'
  OBVIOUS
<1> USE DEF Tick, bucketVars, sweepVars, callerVars, history
<1>1. TypeOK' /\ now \in Nat /\ now' = now + 1
  BY DEF IInv, TypeOK
<1>2. ClockOK'
  BY <1>1 DEF IInv, TypeOK, ClockOK
<1>3. PointersOK' /\ SweepOK' /\ ForgottenOK'
  BY DEF IInv, PointersOK, SweepOK, ForgottenOK
<1>4. AccountOK'
  <2>1. Rate * now \in Nat /\ Rate * (now + 1) \in Nat
        /\ Rate * now <= Rate * (now + 1)
    BY <1>1, RefillSplits, now + 1 \in Nat, now <= now + 1
  <2> SUFFICES ASSUME NEW k \in Keys PROVE AccountOK!(k)'
    BY DEF AccountOK
  <2>2. Strays(k)' = Strays(k) /\ (\A d \in Strays(k) : req'[d].n = req[d].n)
    BY DEF Strays
  <2>3. Owed(k)' = Owed(k) /\ Owed(k) \in Nat
    BY <1>1, <2>2, OwedSame, OwedIsNat DEF IInv
  <2>4. granted[k] \in Nat /\ overtaken[k] \in Nat /\ AccountOK!(k)
    BY DEF IInv, TypeOK, AccountOK
  <2> QED
    BY <1>1, <2>1, <2>3, <2>4
<1>5. HeldIsRegisteredOrForgotten' /\ KeysIsolated'
  BY DEF IInv, HeldIsRegisteredOrForgotten, KeysIsolated
<1> QED
  BY <1>1, <1>2, <1>3, <1>4, <1>5 DEF IInv

LEMMA StutterIInv == IInv /\ UNCHANGED vars => IInv'
<1> SUFFICES ASSUME IInv, UNCHANGED vars PROVE IInv'
  OBVIOUS
<1> USE DEF vars, bucketVars, sweepVars, callerVars, history
<1>1. TypeOK' /\ ClockOK' /\ PointersOK' /\ SweepOK' /\ ForgottenOK'
  BY DEF IInv, TypeOK, ClockOK, PointersOK, SweepOK, ForgottenOK
<1>3. AccountOK'
  <2>1. \A k \in Keys : /\ Strays(k)' = Strays(k)
                        /\ \A d \in Strays(k) : req'[d].n = req[d].n
    BY DEF Strays
  <2> QED
    BY <1>1, <2>1, AccountSame DEF IInv
<1>2. HeldIsRegisteredOrForgotten' /\ KeysIsolated'
  BY DEF IInv, HeldIsRegisteredOrForgotten, KeysIsolated
<1> QED
  BY <1>1, <1>2, <1>3 DEF IInv

LEMMA NextIInv == IInv /\ [Next]_vars => IInv'
BY ArriveIInv, LookupIInv, CreateFoundIInv, CreateNewIInv, AllowIInv,
   SweepStartIInv, SweepVisitIInv, SweepEndIInv, TickIInv, StutterIInv
DEF Next, Serve, Sweep

LEMMA Invariance == Spec => []IInv
BY InitIInv, NextIInv, PTL DEF Spec

-----------------------------------------------------------------------------
\* Every variable keeps its type: tokens never leave 0..Capacity whatever is
\* charged and refilled (TokenBucket.AllowN).
THEOREM TypeCorrect == Spec => []TypeOK
<1>1. IInv => TypeOK
  BY DEF IInv
<1> QED
  BY <1>1, Invariance, PTL

\* All a key is granted stays within one burst, the refill, and what the
\* requests asked for that cleanup overtook, however getLimiter, AllowN and
\* cleanup interleave.
THEOREM RateIsBounded == Spec => []RateBound
<1>1. IInv => RateBound
  <2> SUFFICES ASSUME IInv, NEW k \in Keys
               PROVE  granted[k] <= Capacity + Rate * now + overtaken[k]
    BY DEF RateBound
  <2>1. /\ AccountOK!(k) /\ granted[k] \in Nat /\ overtaken[k] \in Nat
        /\ now \in Nat /\ Rate * now \in Nat /\ Owed(k) \in Nat
    BY OwedIsNat, RefillSplits DEF IInv, AccountOK, TypeOK
  <2>2. CASE limiters[k] = NoBucket
    BY <2>1, <2>2
  <2>3. CASE limiters[k] # NoBucket
    <3> DEFINE b == limiters[k]
    <3>1. /\ tokens[b] \in Nat /\ lastUpdate[b] \in Nat /\ lastUpdate[b] <= now
      BY <2>3 DEF IInv, TypeOK, ClockOK
    <3>2. Rate * lastUpdate[b] \in Nat /\ Rate * lastUpdate[b] <= Rate * now
      BY <2>1, <3>1, RefillSplits
    <3> QED
      BY <2>1, <2>3, <3>1, <3>2
  <2> QED
    BY <2>2, <2>3
<1> QED
  BY <1>1, Invariance, PTL

\* A caller about to charge a bucket holds the registered one or one that
\* cleanup dropped: the double check of getLimiter never loses a bucket.
THEOREM HeldBucketIsKnown == Spec => []HeldIsRegisteredOrForgotten
<1>1. IInv => HeldIsRegisteredOrForgotten
  BY DEF IInv
<1> QED
  BY <1>1, Invariance, PTL

\* No key is registered with, and no caller charges, another key's bucket.
THEOREM KeysAreIsolated == Spec => []KeysIsolated
<1>1. IInv => KeysIsolated
  BY DEF IInv
<1> QED
  BY <1>1, Invariance, PTL
=============================================================================
