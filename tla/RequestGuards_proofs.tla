------------------------ MODULE RequestGuards_proofs ------------------------
(***************************************************************************)
(* RateLimiter for any keys, limits and clock: types, that it implements   *)
(* WindowLimit, and that a refused client who comes back in time is let in.*)
(* ReplayCache for any envelopes, window and capacity: no replay without a *)
(* flood, and nothing spent that was not accepted.                         *)
(***************************************************************************)
EXTENDS RequestGuards, FiniteSetTheorems, SequenceTheorems,
        WellFoundedInduction, TLAPS

\* A bucket holds attempts of the log, and all that are still in the window.
Kept ==
    \A k \in Keys :
        /\ bucket[k] \subseteq log[k]
        /\ \A h \in log[k] : h.at + Window > now => h \in bucket[k]

\* The attempts of a log are numbered in the order of their times.
Ordered ==
    \A k \in Keys : \A h \in log[k] :
        /\ h.id < hits
        /\ h.at <= now
        /\ \A g \in log[k] : g.id <= h.id => g.at <= h.at

\* What a refused client waits for: an attempt ages out, if one must.
Promised ==
    \A k \in Keys :
        promise[k] # 0 =>
            \/ Cardinality(bucket[k]) < Max
            \/ \E h \in bucket[k] : h.at + Window <= promise[k]

IInv == TypeOK /\ Kept /\ Ordered /\ Promised

-----------------------------------------------------------------------------
\* Some attempt of a set is the oldest.
LEMMA OldestExists ==
  ASSUME NEW S \in SUBSET Attempts, S # {}
  PROVE  \E h \in S : IsOldest(h, S)
  <1> DEFINE T == {h.id : h \in S}
  <1>1. T \subseteq Nat /\ T # {}
    BY DEF Attempts
  <1>2. PICK i \in T : \A j \in T : ~ (<< j, i >> \in OpToRel(<, Nat))
    <2> HIDE DEF T
    <2> QED BY <1>1, NatLessThanWellFounded, WFMin
  <1>3. \A j \in T : i <= j
    <2> TAKE j \in T
    <2>1. ~ (j < i)
      BY <1>1, <1>2 DEF OpToRel
    <2> QED BY <1>1, <2>1
  <1>4. PICK h \in S : h.id = i
    OBVIOUS
  <1> QED
    BY <1>3, <1>4 DEF IsOldest

\* What eviction leaves is finite and no larger.
LEMMA LiveFinite ==
  ASSUME TypeOK, NEW k \in Keys
  PROVE  /\ Live(k) \in SUBSET bucket[k]
         /\ Live(k) \in SUBSET Attempts
         /\ IsFiniteSet(Live(k))
         /\ Cardinality(Live(k)) \in Nat
         /\ Cardinality(bucket[k]) \in Nat
         /\ Cardinality(Live(k)) <= Cardinality(bucket[k])
  <1>1. Live(k) \in SUBSET bucket[k]
    BY DEF Live
  <1>2. IsFiniteSet(bucket[k]) /\ bucket[k] \in SUBSET Attempts
    BY DEF TypeOK
  <1>3. /\ IsFiniteSet(Live(k))
        /\ Cardinality(Live(k)) <= Cardinality(bucket[k])
    BY <1>1, <1>2, FS_Subset
  <1> QED
    BY <1>1, <1>2, <1>3, FS_CardinalityType

\* The attempts in the window are the same in the bucket and in the log.
LEMMA LiveIsRecent ==
  ASSUME TypeOK, Kept, NEW k \in Keys
  PROVE  Live(k) = Limit!Recent(k)
  BY DEF Kept, Live, Limit!Recent

\* A bucket that has aged out holds no attempt in the window.
LEMMA AgedIsDead ==
  ASSUME TypeOK, Ordered, NEW k \in Keys, NEW S \in SUBSET log[k],
         Aged(S), NEW g \in S
  PROVE  ~ (g.at + Window > now)
  <1>1. PICK h \in S : IsNewest(h, S) /\ h.at + Window < now
    BY DEF Aged
  <1>2. g.id <= h.id /\ g \in log[k] /\ h \in log[k]
    BY <1>1 DEF IsNewest
  <1>3. g.at <= h.at
    BY <1>2 DEF Ordered
  <1>4. g.at \in Nat /\ h.at \in Nat /\ now \in Nat
    BY <1>2 DEF TypeOK, Attempts
  <1> QED
    BY <1>1, <1>3, <1>4, LimitAssumption

-----------------------------------------------------------------------------
\* The initial state satisfies the invariant.
LEMMA InitInvariant == Init => IInv
  BY FS_EmptySet, LimitAssumption
     DEF Init, IInv, TypeOK, Kept, Ordered, Promised, Attempts

\* What an admitted attempt leaves in the buckets and in the logs.
LEMMA AdmitEffect ==
  ASSUME IInv, NEW k \in Keys, Admit(k)
  PROVE  LET h == [id |-> hits, at |-> now]
         IN  /\ h \in Attempts
             /\ h \notin log[k]
             /\ log'[k] = log[k] \cup {h}
             /\ bucket'[k] = Live(k) \cup {h}
             /\ \A x \in Keys \ {k} :
                   /\ log'[x] = log[x]
                   /\ \/ bucket'[x] = bucket[x]
                      \/ /\ bucket'[x] = {}
                         /\ \A g \in bucket[x] : ~ (g.at + Window > now)
  <1> DEFINE h == [id |-> hits, at |-> now]
             b == [bucket EXCEPT ![k] = Live(k) \cup {h}]
  <1> USE DEF IInv
  <1>1. h \in Attempts /\ h \notin log[k]
    BY DEF TypeOK, Ordered, Attempts
  <1>2. log'[k] = log[k] \cup {h} /\ \A x \in Keys \ {k} : log'[x] = log[x]
    BY DEF Admit, TypeOK
  <1>3. b[k] = Live(k) \cup {h} /\ \A x \in Keys \ {k} : b[x] = bucket[x]
    BY DEF TypeOK
  <1>4. bucket' = Prune(b)
    BY DEF Admit
  <1>5. ~ Aged(b[k])
    <2> SUFFICES ASSUME NEW g \in b[k], IsNewest(g, b[k]), g.at + Window < now
                 PROVE  FALSE
      BY DEF Aged
    <2>1. h.id <= g.id
      BY <1>3 DEF IsNewest
    <2>2. g = h \/ g \in log[k]
      BY <1>3 DEF Kept, Live
    <2>3. g = h
      BY <2>1, <2>2 DEF Ordered, TypeOK, Attempts
    <2> QED
      BY <2>3, LimitAssumption DEF TypeOK
  <1>6. bucket'[k] = b[k]
    BY <1>4, <1>5 DEF Prune
  <1>7. ASSUME NEW x \in Keys \ {k}
        PROVE  \/ bucket'[x] = bucket[x]
               \/ /\ bucket'[x] = {}
                  /\ \A g \in bucket[x] : ~ (g.at + Window > now)
    <2>1. CASE ~ Aged(b[x])
      BY <1>3, <1>4, <2>1 DEF Prune
    <2>2. CASE Aged(b[x])
      <3>1. bucket[x] \in SUBSET log[x] /\ Aged(bucket[x])
        BY <1>3, <2>2 DEF Kept
      <3>2. \A g \in bucket[x] : ~ (g.at + Window > now)
        BY <3>1, AgedIsDead
      <3> QED
        BY <1>3, <1>4, <3>2 DEF Prune
    <2> QED
      BY <2>1, <2>2
  <1> QED
    BY <1>1, <1>2, <1>3, <1>6, <1>7

\* An admitted attempt preserves the invariant.
LEMMA AdmitInvariant ==
  ASSUME IInv, NEW k \in Keys, Admit(k)
  PROVE  IInv'
  <1> DEFINE h == [id |-> hits, at |-> now]
  <1>1. /\ h \in Attempts /\ h \notin log[k]
        /\ log'[k] = log[k] \cup {h}
        /\ bucket'[k] = Live(k) \cup {h}
        /\ \A x \in Keys \ {k} :
              /\ log'[x] = log[x]
              /\ \/ bucket'[x] = bucket[x]
                 \/ /\ bucket'[x] = {}
                    /\ \A g \in bucket[x] : ~ (g.at + Window > now)
    BY AdmitEffect
  <1> HIDE DEF h
  <1> USE DEF IInv
  <1>2. /\ now' = now /\ hits' = hits + 1 /\ now \in Nat /\ hits \in Nat
        /\ promise' = [promise EXCEPT ![k] = 0]
        /\ Cardinality(Live(k)) < Max
    <2>1. ~ (Cardinality(Live(k)) >= Max) /\ Cardinality(Live(k)) \in Nat
      BY LiveFinite DEF Admit, Full
    <2> QED
      BY <2>1, LimitAssumption DEF Admit, TypeOK
  <1>3. TypeOK'
    <2>1. /\ IsFiniteSet(bucket'[k])
          /\ Cardinality(bucket'[k]) <= Max
          /\ bucket'[k] \subseteq Attempts
      <3>1. /\ IsFiniteSet(Live(k)) /\ Cardinality(Live(k)) \in Nat
            /\ Live(k) \subseteq Attempts
        BY LiveFinite
      <3>2. /\ IsFiniteSet(Live(k) \cup {h})
            /\ \/ Cardinality(Live(k) \cup {h}) = Cardinality(Live(k))
               \/ Cardinality(Live(k) \cup {h}) = Cardinality(Live(k)) + 1
        BY <3>1, FS_AddElement
      <3>3. Cardinality(Live(k) \cup {h}) <= Max
        BY <1>2, <3>1, <3>2, LimitAssumption
      <3> QED
        BY <1>1, <3>1, <3>2, <3>3
    <2>2. ASSUME NEW x \in Keys \ {k}
          PROVE  /\ IsFiniteSet(bucket'[x])
                 /\ Cardinality(bucket'[x]) <= Max
                 /\ bucket'[x] \subseteq Attempts
      <3>1. CASE bucket'[x] = bucket[x]
        BY <3>1 DEF TypeOK
      <3>2. CASE bucket'[x] = {}
        BY <3>2, FS_EmptySet, LimitAssumption
      <3> QED
        BY <1>1, <3>1, <3>2
    <2>3. \A x \in Keys : log'[x] \subseteq Attempts
      BY <1>1 DEF TypeOK
    <2>4. bucket' \in [Keys -> SUBSET Attempts]
      <3>1. bucket' = [x \in Keys |-> bucket'[x]]
        BY DEF Admit, Prune
      <3>2. \A x \in Keys : bucket'[x] \in SUBSET Attempts
        BY <2>1, <2>2
      <3> QED
        BY <3>1, <3>2
    <2>5. log' \in [Keys -> SUBSET Attempts]
      <3>1. log' = [x \in Keys |-> log'[x]]
        BY DEF Admit, TypeOK
      <3>2. \A x \in Keys : log'[x] \in SUBSET Attempts
        BY <2>3
      <3> QED
        BY <3>1, <3>2
    <2>6. /\ now' \in Nat /\ hits' \in Nat /\ signing' \in [Keys -> Nat]
          /\ answer' \in [Keys -> {"none", "allowed", "refused"}]
          /\ promise' \in [Keys -> Nat]
      BY <1>2 DEF Admit, TypeOK
    <2> QED
      BY <2>1, <2>2, <2>3, <2>4, <2>5, <2>6 DEF TypeOK
  <1>4. Kept'
    <2> SUFFICES ASSUME NEW x \in Keys
                 PROVE  /\ bucket'[x] \subseteq log'[x]
                        /\ \A g \in log'[x] :
                              g.at + Window > now => g \in bucket'[x]
      BY <1>2 DEF Kept
    <2>1. CASE x = k
      BY <1>1, <2>1 DEF Kept, Live
    <2>2. CASE x # k
      BY <1>1, <2>2 DEF Kept
    <2> QED
      BY <2>1, <2>2
  <1>5. Ordered'
    <2> SUFFICES ASSUME NEW x \in Keys, NEW f \in log'[x]
                 PROVE  /\ f.id < hits + 1
                        /\ f.at <= now
                        /\ \A g \in log'[x] : g.id <= f.id => g.at <= f.at
      BY <1>2 DEF Ordered
    <2>0. \A y \in Keys : log[y] \subseteq Attempts
      BY DEF TypeOK
    <2>1. CASE x # k
      BY <1>1, <1>2, <2>0, <2>1 DEF Ordered, Attempts
    <2>2. CASE x = k
      <3>1. h.id = hits /\ h.at = now
        BY DEF h
      <3>2. f = h \/ f \in log[k]
        BY <1>1, <2>2
      <3>3. f.id < hits + 1 /\ f.at <= now
        BY <1>2, <2>0, <3>1, <3>2 DEF Ordered, Attempts
      <3>4. ASSUME NEW g \in log'[k], g.id <= f.id PROVE g.at <= f.at
        <4>1. g = h \/ g \in log[k]
          BY <1>1
        <4>2. CASE f = h
          BY <1>2, <2>0, <3>1, <4>1, <4>2 DEF Ordered, Attempts
        <4>3. CASE f \in log[k]
          BY <1>2, <2>0, <3>1, <3>4, <4>1, <4>3 DEF Ordered, Attempts
        <4> QED
          BY <3>2, <4>2, <4>3
      <3> QED
        BY <2>2, <3>3, <3>4
    <2> QED
      BY <2>1, <2>2
  <1>6. Promised'
    <2> SUFFICES ASSUME NEW x \in Keys, promise'[x] # 0
                 PROVE  \/ Cardinality(bucket'[x]) < Max
                        \/ \E g \in bucket'[x] : g.at + Window <= promise'[x]
      BY DEF Promised
    <2>1. x # k /\ promise'[x] = promise[x]
      BY <1>2 DEF TypeOK
    <2>2. CASE bucket'[x] = bucket[x]
      BY <2>1, <2>2 DEF Promised
    <2>3. CASE bucket'[x] = {}
      BY <2>3, FS_EmptySet, LimitAssumption
    <2> QED
      BY <1>1, <2>1, <2>2, <2>3
  <1> QED
    BY <1>3, <1>4, <1>5, <1>6

\* A refusal preserves the invariant.
LEMMA RefuseInvariant ==
  ASSUME IInv, NEW k \in Keys, Refuse(k)
  PROVE  IInv'
  <1> USE DEF IInv
  <1>1. PICK h \in Live(k) :
              promise' = [promise EXCEPT ![k] = now + 2 * RetryAfter(h)]
    BY DEF Refuse
  <1>2. /\ h \in Attempts /\ h.at \in Nat /\ now \in Nat
        /\ h.at + Window > now /\ Window \in Nat
    BY LiveFinite, LimitAssumption DEF TypeOK, Attempts, Live
  <1>3. /\ RetryAfter(h) \in Nat
        /\ h.at + Window <= now + 2 * RetryAfter(h)
    BY <1>2 DEF RetryAfter, AtLeastOne
  <1>4. /\ bucket'[k] = Live(k)
        /\ \A x \in Keys \ {k} : bucket'[x] = bucket[x]
    BY DEF Refuse, TypeOK
  <1>5. now' = now /\ hits' = hits /\ log' = log /\ signing' = signing
    BY DEF Refuse
  <1>6. TypeOK'
    <2>1. /\ IsFiniteSet(bucket'[k])
          /\ Cardinality(bucket'[k]) <= Max
          /\ bucket'[k] \subseteq Attempts
      <3>1. Cardinality(bucket[k]) <= Max
        BY DEF TypeOK
      <3> QED
        BY <1>4, <3>1, LiveFinite, LimitAssumption
    <2>2. promise' \in [Keys -> Nat]
      BY <1>1, <1>2, <1>3 DEF TypeOK
    <2>3. /\ bucket' \in [Keys -> SUBSET Attempts]
          /\ answer' \in [Keys -> {"none", "allowed", "refused"}]
      BY LiveFinite DEF Refuse, TypeOK
    <2> QED
      BY <1>4, <1>5, <2>1, <2>2, <2>3 DEF TypeOK
  <1>7. Kept'
    BY <1>4, <1>5 DEF Kept, Live
  <1>8. Ordered'
    BY <1>5 DEF Ordered
  <1>9. Promised'
    BY <1>1, <1>3, <1>4 DEF Promised, TypeOK
  <1> QED
    BY <1>6, <1>7, <1>8, <1>9

\* Clearing buckets together with their logs preserves the invariant.
LEMMA ClearInvariant ==
  ASSUME IInv, NEW S \in SUBSET Keys,
         now' = now, hits' = hits, answer' = answer,
         signing' \in [Keys -> Nat],
         bucket' = [k \in Keys |-> IF k \in S THEN {} ELSE bucket[k]],
         log' = [k \in Keys |-> IF k \in S THEN {} ELSE log[k]],
         promise' = [k \in Keys |-> IF k \in S THEN 0 ELSE promise[k]]
  PROVE  IInv'
  <1> USE DEF IInv
  <1>1. TypeOK'
    BY FS_EmptySet, LimitAssumption DEF TypeOK
  <1>2. Kept'
    BY DEF Kept
  <1>3. Ordered'
    BY DEF Ordered
  <1>4. Promised'
    BY DEF Promised
  <1> QED
    BY <1>1, <1>2, <1>3, <1>4

\* Every step preserves the invariant.
LEMMA NextInvariant == IInv /\ [Next]_vars => IInv'
  <1> SUFFICES ASSUME IInv, [Next]_vars PROVE IInv'
    OBVIOUS
  <1> USE DEF IInv
  <1>1. CASE Tick
    <2>1. /\ now \in Nat /\ now' = now + 1 /\ Window \in Nat
          /\ \A k \in Keys : log[k] \subseteq Attempts
          /\ UNCHANGED << bucket, signing, hits, log, answer, promise >>
      BY <1>1, LimitAssumption DEF Tick, TypeOK
    <2>2. TypeOK'
      BY <2>1 DEF TypeOK
    <2>3. Kept'
      BY <2>1 DEF Kept, Attempts
    <2>4. Ordered'
      BY <2>1 DEF Ordered, Attempts
    <2>5. Promised'
      BY <2>1 DEF Promised
    <2> QED
      BY <2>2, <2>3, <2>4, <2>5
  <1>2. CASE Restart
    <2>1. /\ now' = now /\ hits' = hits /\ answer' = answer
          /\ signing' \in [Keys -> Nat]
          /\ bucket' = [k \in Keys |-> IF k \in Keys THEN {} ELSE bucket[k]]
          /\ log' = [k \in Keys |-> IF k \in Keys THEN {} ELSE log[k]]
          /\ promise' = [k \in Keys |-> IF k \in Keys THEN 0 ELSE promise[k]]
      BY <1>2 DEF Restart
    <2> QED
      BY <2>1, ClearInvariant
  <1>3. ASSUME NEW k \in Keys, SignIn(k) PROVE IInv'
    <2>1. /\ now' = now /\ hits' = hits /\ answer' = answer
          /\ signing' \in [Keys -> Nat]
          /\ bucket' = [x \in Keys |-> IF x \in {k} THEN {} ELSE bucket[x]]
          /\ log' = [x \in Keys |-> IF x \in {k} THEN {} ELSE log[x]]
          /\ promise' = [x \in Keys |-> IF x \in {k} THEN 0 ELSE promise[x]]
      <3>1. /\ now' = now /\ hits' = hits /\ answer' = answer
            /\ signing' = [signing EXCEPT ![k] = @ - 1] /\ signing[k] > 0
            /\ bucket' = [bucket EXCEPT ![k] = {}]
            /\ log' = [log EXCEPT ![k] = {}]
            /\ promise' = [promise EXCEPT ![k] = 0]
        BY <1>3 DEF SignIn
      <3>2. signing' \in [Keys -> Nat]
        BY <3>1 DEF TypeOK
      <3>3. /\ bucket = [x \in Keys |-> bucket[x]]
            /\ log = [x \in Keys |-> log[x]]
            /\ promise = [x \in Keys |-> promise[x]]
        BY DEF TypeOK
      <3> QED
        BY <3>1, <3>2, <3>3
    <2> QED
      BY <2>1, ClearInvariant
  <1>4. ASSUME NEW k \in Keys, SignInFails(k) PROVE IInv'
    BY <1>4 DEF SignInFails, TypeOK, Kept, Ordered, Promised
  <1>5. CASE UNCHANGED vars
    BY <1>5 DEF vars, TypeOK, Kept, Ordered, Promised
  <1> QED
    BY <1>1, <1>2, <1>3, <1>4, <1>5, AdmitInvariant, RefuseInvariant
       DEF Next, Step, Hit

\* The invariant holds in every state.
THEOREM Invariance == Spec => []IInv
  BY InitInvariant, NextInvariant, PTL DEF Spec

\* Buckets never exceed the limit, and everything keeps its type.
THEOREM TypeCorrect == Spec => []TypeOK
  <1>1. IInv => TypeOK
    BY DEF IInv
  <1> QED
    BY Invariance, <1>1, PTL

-----------------------------------------------------------------------------
\* Both modules count alike.
LEMMA SameCardinality ==
  ASSUME NEW S
  PROVE  Limit!Cardinality(S) = Cardinality(S)
  BY Zenon DEF Limit!Cardinality, Cardinality, Limit!IsFiniteSet, IsFiniteSet

\* Every step is a step of the promised limiter, or changes nothing of it.
LEMMA StepImplements ==
  IInv /\ [Next]_vars => [Limit!Next]_(Limit!vars)
  <1> SUFFICES ASSUME IInv, [Next]_vars
               PROVE  Limit!Next \/ UNCHANGED Limit!vars
    BY DEF Limit!vars
  <1> USE DEF IInv
  <1>1. CASE Tick
    BY <1>1 DEF Tick, Limit!Next, Limit!Pass
  <1>2. CASE Restart
    <2>1. Limit!Forget(Keys)
      BY <1>2 DEF Restart, Limit!Forget
    <2> QED
      BY <2>1 DEF Limit!Next
  <1>3. ASSUME NEW k \in Keys, Admit(k) PROVE Limit!Next
    <2>1. Cardinality(Limit!Recent(k)) < Max
      <3>1. ~ (Cardinality(Live(k)) >= Max)
        BY <1>3 DEF Admit, Full
      <3> QED
        BY <3>1, LiveIsRecent, LiveFinite, LimitAssumption
    <2>2. /\ hits' = hits + 1
          /\ log' = [log EXCEPT ![k] = @ \cup {[id |-> hits, at |-> now]}]
          /\ answer' = [answer EXCEPT ![k] = "allowed"]
          /\ now' = now
      BY <1>3 DEF Admit
    <2>3. Limit!Admit(k)
      BY <2>1, <2>2, SameCardinality DEF Limit!Admit
    <2> QED
      BY <2>3 DEF Limit!Next
  <1>4. ASSUME NEW k \in Keys, Refuse(k) PROVE Limit!Next
    <2>1. Live(k) = Limit!Recent(k)
      BY LiveIsRecent
    <2>2. Cardinality(Limit!Recent(k)) >= Max
      BY <1>4, <2>1 DEF Refuse, Full
    <2>3. /\ answer' = [answer EXCEPT ![k] = "refused"]
          /\ UNCHANGED << now, hits, log >>
      BY <1>4 DEF Refuse
    <2>4. Limit!Refuse(k)
      BY <2>2, <2>3, SameCardinality DEF Limit!Refuse
    <2> QED
      BY <2>4 DEF Limit!Next
  <1>5. ASSUME NEW k \in Keys, SignIn(k) PROVE Limit!Next
    <2>1. Limit!Forget({k})
      BY <1>5 DEF SignIn, Limit!Forget, TypeOK
    <2> QED
      BY <2>1 DEF Limit!Next
  <1>6. ASSUME NEW k \in Keys, SignInFails(k) PROVE UNCHANGED Limit!vars
    BY <1>6 DEF SignInFails, Limit!vars
  <1>7. CASE UNCHANGED vars
    BY <1>7 DEF vars, Limit!vars
  <1> QED
    BY <1>1, <1>2, <1>3, <1>4, <1>5, <1>6, <1>7 DEF Next, Step, Hit

\* Evicting, pruning and clearing never change an answer: the limiter
\* implements the promised one.
THEOREM ImplementsWindow == Spec => LimitsTheWindow
  <1>1. Init => Limit!Init
    BY DEF Init, Limit!Init
  <1> QED
    BY <1>1, StepImplements, Invariance, PTL
       DEF Spec, LimitsTheWindow, Limit!Spec

-----------------------------------------------------------------------------
\* Once the promised time has come, a bucket is not full.
LEMMA NotFullInTime ==
  ASSUME IInv, NEW k \in Keys, promise[k] # 0, now >= promise[k]
  PROVE  ~ Full(k)
  <1> USE DEF IInv
  <1>1. CASE Cardinality(bucket[k]) < Max
    BY <1>1, LiveFinite, LimitAssumption DEF Full
  <1>2. ASSUME NEW h \in bucket[k], h.at + Window <= promise[k]
        PROVE  ~ Full(k)
    <2>1. h \notin Live(k)
      BY <1>2, LimitAssumption DEF Live, TypeOK, Attempts
    <2>2. Cardinality(Live(k)) # Cardinality(bucket[k])
      BY <2>1, LiveFinite, FS_Subset DEF TypeOK
    <2>3. Cardinality(bucket[k]) <= Max
      BY DEF TypeOK
    <2> QED
      BY <2>2, <2>3, LiveFinite, LimitAssumption DEF Full
  <1> QED
    BY <1>1, <1>2 DEF Promised

\* A refused client that comes back when it was told to is let in.
THEOREM KeepsPromises == Spec => PromiseKept
  <1>1. IInv /\ [Next]_vars =>
          [\A k \in Keys :
              promise[k] # 0 /\ now >= promise[k] => ~ Refuse(k)]_vars
    BY NotFullInTime DEF Refuse
  <1> QED
    BY <1>1, Invariance, PTL DEF Spec, PromiseKept

-----------------------------------------------------------------------------
(* The limiter among the guards. *)

\* The replay cache and the bounds of the run take nothing away from the
\* limiter and add nothing to it.
THEOREM GuardsLimit == GuardsSpec => Spec
  <1>1. GuardsInit => Init
    BY DEF GuardsInit
  <1>2. [GuardsNext]_guardVars => [Next]_vars
    BY DEF GuardsNext, guardVars, vars, Attempt, Deliver, Cache!Verify, Next
  <1> QED
    BY <1>1, <1>2, PTL DEF GuardsSpec, Spec

-----------------------------------------------------------------------------
(* The replay cache: what is remembered is the end of what was accepted. *)

CacheInv ==
    /\ seen \in Seq(Nonces)
    /\ accepted \in Seq(Nonces)
    /\ Len(seen) <= MaxEntries
    /\ Len(seen) <= Len(accepted)
    /\ Len(seen) < MaxEntries => Len(seen) = Len(accepted)
    /\ \A i \in 1..Len(seen) :
          seen[i] = accepted[Len(accepted) - Len(seen) + i]
    /\ Cache!ReplayNeedsFlood

\* Accepting a nonce that is not remembered.
LEMMA VerifyKeepsEnd ==
  ASSUME CacheInv, NEW n \in Nonces, Cache!Verify(n)
  PROVE  CacheInv'
  <1> DEFINE p == Len(seen)
             q == Len(accepted)
             s == Append(seen, n)
             b == Append(accepted, n)
  <1>1. /\ n \notin Cache!Range(seen)
        /\ seen' = IF Len(s) > MaxEntries THEN Tail(s) ELSE s
        /\ accepted' = b
    BY DEF Cache!Verify, Cache!Remember
  <1>2. /\ p \in Nat /\ q \in Nat /\ MaxEntries \in Nat
        /\ DOMAIN seen = 1..p /\ DOMAIN accepted = 1..q
    BY LenProperties, CacheAssumption DEF CacheInv
  <1>3. /\ s \in Seq(Nonces) /\ Len(s) = p + 1 /\ s[p + 1] = n
        /\ \A i \in 1..p : s[i] = seen[i]
    BY AppendProperties DEF CacheInv
  <1>4. /\ b \in Seq(Nonces) /\ Len(b) = q + 1 /\ b[q + 1] = n
        /\ \A i \in 1..q : b[i] = accepted[i]
    BY AppendProperties DEF CacheInv
  <1>5. /\ p <= MaxEntries /\ p <= q
        /\ p < MaxEntries => p = q
        /\ \A i \in 1..p : seen[i] = accepted[q - p + i]
        /\ \A i, j \in 1..q : i < j /\ accepted[i] = accepted[j] => j - i > MaxEntries
    BY <1>2 DEF CacheInv, Cache!ReplayNeedsFlood
  <1>6. \A i \in 1..p : seen[i] # n
    BY <1>1, <1>2 DEF Cache!Range
  <1>7. /\ s # << >> => /\ Tail(s) \in Seq(Nonces) /\ Len(Tail(s)) = p
                        /\ \A i \in 1..p : Tail(s)[i] = s[i + 1]
        /\ s # << >>
    <2>1. s # << >>
      BY <1>2, <1>3, EmptySeq
    <2>2. Len(s) - 1 = p
      BY <1>2, <1>3
    <2> HIDE DEF s, p
    <2> QED
      BY <1>3, <2>1, <2>2, HeadTailProperties
  <1> HIDE DEF p, q, s, b
  <1>8. \A i \in 1..p + 1 : s[i] = b[(q + 1) - (p + 1) + i]
    <2> TAKE i \in 1..p + 1
    <2>1. CASE i = p + 1
      <3>1. (q + 1) - (p + 1) + i = q + 1
        BY <1>2, <2>1
      <3> QED
        BY <1>3, <1>4, <2>1, <3>1
    <2>2. CASE i # p + 1
      <3>1. /\ i \in 1..p /\ q - p + i \in 1..q
            /\ (q + 1) - (p + 1) + i = q - p + i
        BY <1>2, <1>5, <2>2
      <3> QED
        BY <1>3, <1>4, <1>5, <3>1
    <2> QED
      BY <2>1, <2>2
  <1>9. \A i, j \in 1..q + 1 : i < j /\ b[i] = b[j] => j - i > MaxEntries
    <2> SUFFICES ASSUME NEW i \in 1..q + 1, NEW j \in 1..q + 1,
                        i < j, b[i] = b[j]
                 PROVE  j - i > MaxEntries
      OBVIOUS
    <2>1. i \in 1..q /\ b[i] = accepted[i]
      BY <1>2, <1>4
    <2>2. CASE j \in 1..q
      BY <1>4, <1>5, <2>1, <2>2
    <2>3. CASE j = q + 1
      <3>1. accepted[i] = n
        BY <1>4, <2>1, <2>3
      <3>2. ~ (i > q - p)
        <4> SUFFICES ASSUME i > q - p PROVE FALSE
          OBVIOUS
        <4>1. i - (q - p) \in 1..p /\ q - p + (i - (q - p)) = i
          BY <1>2, <2>1
        <4>2. seen[i - (q - p)] = accepted[i]
          BY <1>5, <4>1
        <4> QED
          BY <1>6, <3>1, <4>1, <4>2
      <3>3. p = MaxEntries
        BY <1>2, <1>5, <2>1, <3>2
      <3> QED
        BY <1>2, <2>1, <2>3, <3>2, <3>3
    <2> QED
      BY <1>2, <2>2, <2>3
  <1>10. Cache!ReplayNeedsFlood'
    BY <1>1, <1>4, <1>9, LenProperties DEF Cache!ReplayNeedsFlood
  <1>11. CASE Len(s) > MaxEntries
    <2>1. seen' = Tail(s) /\ p = MaxEntries /\ Len(seen') = p /\ Len(accepted') = q + 1
      BY <1>1, <1>2, <1>3, <1>4, <1>5, <1>7, <1>11
    <2>2. \A i \in 1..p : seen'[i] = accepted'[(q + 1) - p + i]
      <3> TAKE i \in 1..p
      <3>1. i + 1 \in 1..p + 1 /\ (q + 1) - (p + 1) + (i + 1) = (q + 1) - p + i
        BY <1>2
      <3>2. s[i + 1] = b[(q + 1) - p + i]
        BY <1>8, <3>1
      <3> QED
        BY <1>1, <1>7, <2>1, <3>2
    <2>3. p <= MaxEntries /\ p <= q + 1 /\ ~ (p < MaxEntries)
      BY <1>2, <1>5, <2>1
    <2>4. seen' \in Seq(Nonces) /\ accepted' \in Seq(Nonces)
      BY <1>1, <1>4, <1>7, <2>1
    <2> QED
      BY <1>10, <2>1, <2>2, <2>3, <2>4 DEF CacheInv
  <1>12. CASE ~ (Len(s) > MaxEntries)
    <2>1. seen' = s /\ Len(seen') = p + 1 /\ Len(accepted') = q + 1 /\ p = q
          /\ p + 1 <= MaxEntries
      BY <1>1, <1>2, <1>3, <1>4, <1>5, <1>12
    <2>2. \A i \in 1..p + 1 : seen'[i] = accepted'[(q + 1) - (p + 1) + i]
      BY <1>1, <1>8, <2>1
    <2>3. seen' \in Seq(Nonces) /\ accepted' \in Seq(Nonces)
      BY <1>1, <1>3, <1>4, <2>1
    <2> QED
      BY <1>2, <1>10, <2>1, <2>2, <2>3 DEF CacheInv
  <1> QED
    BY <1>11, <1>12

LEMMA CacheHolds == CacheInv /\ [GuardsNext]_guardVars => CacheInv'
  <1> SUFFICES ASSUME CacheInv, [GuardsNext]_guardVars PROVE CacheInv'
    OBVIOUS
  <1>1. ASSUME UNCHANGED << seen, accepted >> PROVE CacheInv'
    BY <1>1 DEF CacheInv, Cache!ReplayNeedsFlood
  <1>2. ASSUME NEW n \in Nonces, Deliver(n) PROVE CacheInv'
    BY <1>2, VerifyKeepsEnd DEF Deliver
  <1>3. ASSUME Cache!CacheRestart PROVE CacheInv'
    <2>1. seen' = << >> /\ accepted' = << >>
      BY <1>3 DEF Cache!CacheRestart
    <2> QED
      BY <2>1, EmptySeq, CacheAssumption DEF CacheInv, Cache!ReplayNeedsFlood
  <1> QED
    BY <1>1, <1>2, <1>3 DEF GuardsNext, Attempt, guardVars

\* An envelope is accepted twice by one process only when as many others as
\* the cache holds were accepted in between, and only an accepted envelope is
\* refused as a replay.
THEOREM GuardsRefuseReplays == GuardsSpec => []ReplaysRefused
  <1>1. GuardsInit => CacheInv
    BY EmptySeq, CacheAssumption
       DEF GuardsInit, Cache!CacheInit, CacheInv, Cache!ReplayNeedsFlood
  <1>2. CacheInv => ReplaysRefused
    <2> SUFFICES ASSUME CacheInv, NEW i \in DOMAIN seen
                 PROVE  seen[i] \in Cache!Range(accepted)
      BY DEF CacheInv, ReplaysRefused, Cache!OnlyAcceptedAreSpent, Cache!Range
    <2> DEFINE p == Len(seen)
               q == Len(accepted)
    <2>1. /\ p \in Nat /\ q \in Nat /\ p <= q /\ i \in 1..p
          /\ DOMAIN accepted = 1..q /\ seen[i] = accepted[q - p + i]
      BY LenProperties DEF CacheInv
    <2>2. q - p + i \in 1..q
      BY <2>1
    <2> QED
      BY <2>1, <2>2 DEF Cache!Range
  <1> QED
    BY <1>1, <1>2, CacheHolds, PTL DEF GuardsSpec

=============================================================================
