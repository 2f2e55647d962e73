----------------------- MODULE SecretResolverProofs -----------------------
(***************************************************************************)
(* What the resolver promises, for any number of threads, sources, keys,   *)
(* values and ttls.                                                        *)
(*                                                                         *)
(* The argument: a stamp is never later than the moment its value was      *)
(* read, because a call reads the clock before it reads the source.  So an *)
(* entry that differs from what its source holds now was stamped no later  *)
(* than the source last changed, and a ttl counted from the change has     *)
(* run out for the entry as well.                                          *)
(***************************************************************************)
EXTENDS SecretResolver, TLAPS

Clocks ==
    /\ \A t \in Thread : now[t] <= clock
    /\ \A k \in Key : changed[k] <= clock

\* An entry that is not what its source holds is older than the last change.
Outdated(k) == holds[k] # Bad /\ cache[k].value # holds[k] => cache[k].stamp <= changed[k]

Dated == \A k \in present : cache[k].stamp <= clock /\ Outdated(k)

Genuine ==
    /\ \A k \in Key : holds[k] # Bad => holds[k] \in had[k]
    /\ \A k \in Key : cache[k].ok => cache[k].value \in had[k]

ResolverInv == TypeOK /\ Clocks /\ Dated /\ Genuine

-----------------------------------------------------------------------------
(* Operators.                                                               *)

\* The cache is keyed on the identity of the source.
LEMMA KeyIsIdentity ==
    ASSUME NEW s \in Source
    PROVE  cache_key(s) = Identity(s) /\ cache_key(s) \in Key
BY SourceAssumption DEF cache_key, Identity, Key

\* A saturating difference is a natural number no greater than what it starts
\* from.
LEMMA SaturatingSub ==
    ASSUME NEW a \in Nat, NEW b \in Nat
    PROVE  saturating_sub(a, b) \in Nat /\ saturating_sub(a, b) <= a
BY DEF saturating_sub

\* The stamp of a failed refresh is not later than the refresh.
LEMMA RetryStamp ==
    ASSUME NEW s \in Source, NEW n \in Nat
    PROVE  retry_stamp(s, n) \in Nat /\ retry_stamp(s, n) <= n
<1>1. CASE Ttl[s] = Forever
    BY <1>1 DEF retry_stamp
<1>2. CASE Ttl[s] # Forever
    <2>1. Ttl[s] \in Nat
        BY <1>2, TtlAssumption
    <2>2. Ttl[s] \div 2 \in Nat
        BY <2>1
    <2> QED BY <1>2, <2>2, SaturatingSub, Zenon DEF retry_stamp
<1> QED BY <1>1, <1>2

\* The four ways a call ends: the answer, and what becomes of the entry.
LEMMA ResolveCases ==
    ASSUME TypeOK, NEW t \in Thread, Resolve(t)
    PROVE  /\ pending[t] \in Source
           /\ \/ Hit(t, pending[t])
              \/ ReadOk(t, pending[t])
              \/ ServeStale(t, pending[t])
              \/ ReadFails(t, pending[t])
BY DEF TypeOK, Resolve

-----------------------------------------------------------------------------
(* The invariant.                                                           *)

\* Nothing is cached.
LEMMA InitInv == Init => ResolverInv
<1> SUFFICES ASSUME Init PROVE ResolverInv
    OBVIOUS
<1>1. NoEntry \in Entry
    BY DEF NoEntry, Entry
<1>2. TypeOK
    <2>1. had \in [Key -> SUBSET Value]
        BY DEF Init
    <2> QED BY <1>1, <2>1 DEF Init, TypeOK
<1>3. Clocks
    BY DEF Init, Clocks
<1>4. Dated
    BY DEF Init, Dated
<1>5. Genuine
    BY DEF Init, Genuine, NoEntry
<1> QED BY <1>2, <1>3, <1>4, <1>5 DEF ResolverInv

\* Time passes.
LEMMA TickInv == ResolverInv /\ Tick => ResolverInv'
<1> SUFFICES ASSUME ResolverInv, Tick PROVE ResolverInv'
    OBVIOUS
<1> USE DEF ResolverInv, Tick, history
<1>1. TypeOK'
    BY DEF TypeOK
<1>2. Clocks'
    BY DEF TypeOK, Clocks
<1>3. Dated'
    <2>1. \A k \in present : cache[k].stamp \in Nat
        BY Zenon DEF TypeOK, Entry
    <2> QED BY <2>1 DEF TypeOK, Dated, Outdated
<1>4. Genuine'
    BY DEF Genuine
<1> QED BY <1>1, <1>2, <1>3, <1>4

\* A source changes, which dates every entry that differs from it.
LEMMA RotateInv ==
    ASSUME ResolverInv, NEW k \in Key, NEW v \in Value \cup {Bad}, Rotate(k, v)
    PROVE  ResolverInv'
<1> USE DEF ResolverInv, Rotate
<1>1. TypeOK'
    BY DEF TypeOK
<1>2. Clocks'
    BY DEF TypeOK, Clocks
<1>3. Dated'
    BY DEF TypeOK, Dated, Outdated
<1>4. Genuine'
    BY DEF TypeOK, Genuine
<1> QED BY <1>1, <1>2, <1>3, <1>4

\* A call reads the clock.
LEMMA BeginInv ==
    ASSUME ResolverInv, NEW t \in Thread, NEW s \in Source, Begin(t, s)
    PROVE  ResolverInv'
<1> USE DEF ResolverInv, Begin, history
<1>1. TypeOK'
    BY DEF TypeOK
<1>2. Clocks'
    BY DEF TypeOK, Clocks
<1>3. Dated'
    BY DEF Dated, Outdated
<1>4. Genuine'
    BY DEF Genuine
<1> QED BY <1>1, <1>2, <1>3, <1>4

\* A call that stores an entry keeps the invariant when the entry is well
\* formed, not dated ahead of the clock, and either current or that of a
\* source that cannot be read.
LEMMA InsertInv ==
    ASSUME ResolverInv, NEW t \in Thread, NEW k \in Key,
           NEW value \in Value \cup {Bad}, NEW stamp \in Nat, NEW ok \in BOOLEAN,
           NEW result \in Value \cup {Bad},
           ok <=> value # Bad,
           stamp <= clock,
           holds[k] # Bad => value = holds[k],
           ok => value \in had[k],
           failed' \in [Key -> Nat \cup {-1}],
           Insert(k, value, stamp, ok), Return(t, result)
    PROVE  ResolverInv'
<1> DEFINE e == [value |-> value, stamp |-> stamp, ok |-> ok]
<1> USE DEF ResolverInv, Return
<1>1. e \in Entry
    BY ValueAssumption, Zenon DEF Entry
<1>2. cache' = [cache EXCEPT ![k] = e] /\ present' = present \cup {k}
    BY DEF Insert
<1>3. e.value = value /\ e.stamp = stamp /\ e.ok = ok
    OBVIOUS
<1> HIDE DEF e
<1>4. TypeOK'
    BY <1>1, <1>2 DEF TypeOK
<1>5. Clocks'
    BY DEF TypeOK, Clocks
<1>6. cache'[k] = e /\ \A j \in Key \ {k} : cache'[j] = cache[j]
    BY <1>2 DEF TypeOK
<1>7. Dated'
    <2> SUFFICES ASSUME NEW j \in present'
                 PROVE  cache'[j].stamp <= clock' /\ Outdated(j)'
        BY DEF Dated
    <2>1. CASE j = k
        BY <2>1, <1>3, <1>6 DEF Outdated
    <2>2. CASE j # k
        BY <2>2, <1>2, <1>6 DEF TypeOK, Dated, Outdated
    <2> QED BY <2>1, <2>2
<1>8. Genuine'
    BY <1>3, <1>6, Zenon DEF Genuine
<1> QED BY <1>4, <1>5, <1>7, <1>8

\* A call takes the lock, whichever way it ends.
LEMMA ResolveInv ==
    ASSUME ResolverInv, NEW t \in Thread, Resolve(t)
    PROVE  ResolverInv'
<1> DEFINE s == pending[t]
           k == cache_key(s)
<1>1. s \in Source /\ k \in Key /\ k = Identity(s)
    BY ResolveCases, KeyIsIdentity DEF ResolverInv
<1>2. now[t] \in Nat /\ now[t] <= clock /\ clock \in Nat
    BY DEF ResolverInv, TypeOK, Clocks
<1>3. read(s) = holds[k] /\ read(s) \in Value \cup {Bad}
    BY <1>1 DEF read, ResolverInv, TypeOK
<1>4. cache[k] \in Entry /\ cache[k].value \in Value \cup {Bad}
          /\ (cache[k].ok <=> cache[k].value # Bad)
    BY <1>1, ValueAssumption, Zenon DEF ResolverInv, TypeOK, Entry
<1>5. failed \in [Key -> Nat \cup {-1}]
    BY DEF ResolverInv, TypeOK
<1>6. Hit(t, s) \/ ReadOk(t, s) \/ ServeStale(t, s) \/ ReadFails(t, s)
    BY ResolveCases DEF ResolverInv
<1> HIDE DEF s, k
<1>7. CASE Hit(t, s)
    <2>1. /\ UNCHANGED <<clock, holds, present, cache, changed, had, failed>>
          /\ pending' = [pending EXCEPT ![t] = None]
          /\ now' = [now EXCEPT ![t] = 0]
          /\ answer' = IF cache[k].ok THEN cache[k].value ELSE Bad
        BY <1>7 DEF Hit, Return, k
    <2>2. TypeOK'
        BY <2>1, <1>4 DEF ResolverInv, TypeOK
    <2>3. Clocks'
        BY <2>1 DEF ResolverInv, TypeOK, Clocks
    <2>4. Dated' /\ Genuine'
        BY <2>1, Zenon DEF ResolverInv, Dated, Outdated, Genuine
    <2> QED BY <2>2, <2>3, <2>4 DEF ResolverInv
<1>8. CASE ReadOk(t, s)
    <2>1. /\ Insert(k, read(s), now[t], TRUE) /\ Return(t, read(s))
          /\ failed' = [failed EXCEPT ![k] = -1] /\ read(s) # Bad
        BY <1>8, Zenon DEF ReadOk, k
    <2>2. failed' \in [Key -> Nat \cup {-1}]
        BY <2>1, <1>1, <1>5
    <2>3. read(s) \in had[k]
        BY <2>1, <1>1, <1>3, Zenon DEF ResolverInv, Genuine
    <2> QED BY <2>1, <2>2, <2>3, <1>1, <1>2, <1>3, InsertInv, Zenon
<1>9. CASE ServeStale(t, s)
    <2>1. /\ Insert(k, cache[k].value, retry_stamp(s, now[t]), TRUE)
          /\ Return(t, cache[k].value)
          /\ failed' = [failed EXCEPT ![k] = now[t]]
          /\ read(s) = Bad /\ cache[k].ok
        BY <1>9, Zenon DEF ServeStale, k
    <2>2. failed' \in [Key -> Nat \cup {-1}]
        BY <2>1, <1>1, <1>2, <1>5
    <2>3. cache[k].value \in had[k] /\ cache[k].value # Bad
        BY <2>1, <1>1, <1>4, Zenon DEF ResolverInv, Genuine
    <2>4. retry_stamp(s, now[t]) \in Nat /\ retry_stamp(s, now[t]) <= now[t]
        BY <1>1, <1>2, RetryStamp
    <2>5. retry_stamp(s, now[t]) <= clock
        BY <2>4, <1>2
    <2> QED BY <2>1, <2>2, <2>3, <2>4, <2>5, <1>1, <1>3, <1>4, InsertInv, Zenon
<1>10. CASE ReadFails(t, s)
    <2>1. /\ Insert(k, Bad, now[t], FALSE) /\ Return(t, Bad)
          /\ failed' = failed /\ read(s) = Bad
        BY <1>10, Zenon DEF ReadFails, k
    <2> QED BY <2>1, <1>1, <1>2, <1>3, <1>5, InsertInv, Zenon
<1> QED BY <1>6, <1>7, <1>8, <1>9, <1>10

\* ResolverInv is inductive.
LEMMA StepInv == ResolverInv /\ [Next]_vars => ResolverInv'
<1> SUFFICES ASSUME ResolverInv, [Next]_vars PROVE ResolverInv'
    OBVIOUS
<1>1. CASE Tick
    BY <1>1, TickInv
<1>2. CASE \E k \in Key, v \in Value \cup {Bad} : Rotate(k, v)
    BY <1>2, RotateInv
<1>3. CASE \E t \in Thread : Resolve(t)
    BY <1>3, ResolveInv
<1>4. CASE \E t \in Thread, s \in Source : Begin(t, s)
    BY <1>4, BeginInv
<1>5. CASE UNCHANGED vars
    BY <1>5, Zenon DEF vars, history, ResolverInv, TypeOK, Clocks, Dated, Outdated, Genuine
<1> QED BY <1>1, <1>2, <1>3, <1>4, <1>5 DEF Next

\* The resolver keeps its invariant, and with it its types: a cached success
\* always has a value, so `unwrap_or_default` never yields an empty secret.
THEOREM ResolverInvariant == Spec => []ResolverInv
BY InitInv, StepInv, PTL DEF Spec

\* Type correctness: clock readings, stamps and cached values are what their
\* types say, and only a failure is cached without a value.
THEOREM ResolverTypeCorrect == Spec => []TypeOK
<1>1. ResolverInv => TypeOK
    BY DEF ResolverInv
<1> QED BY <1>1, ResolverInvariant, PTL

-----------------------------------------------------------------------------
(* What a call returns.                                                     *)

\* A call of a thread returns only in that thread's own step.
LEMMA ReturnsByResolve ==
    ASSUME TypeOK, [Next]_vars, NEW t \in Thread, Returns(t)
    PROVE  Resolve(t)
<1>1. pending[t] # None /\ pending'[t] = None
    BY DEF Returns
<1>2. ~(UNCHANGED pending)
    BY <1>1
<1>3. PICK u \in Thread : Resolve(u) \/ \E s \in Source : Begin(u, s)
    BY <1>2 DEF Next, Tick, Rotate, vars
<1>4. u = t
    <2>1. CASE Resolve(u)
        <3>1. pending' = [pending EXCEPT ![u] = None]
            BY <2>1, Zenon DEF Resolve, Hit, ReadOk, ServeStale, ReadFails, Return
        <3> QED BY <3>1, <1>1 DEF TypeOK
    <2>2. CASE \E s \in Source : Begin(u, s)
        <3>1. PICK s \in Source : pending' = [pending EXCEPT ![u] = s]
            BY <2>2, Zenon DEF Begin
        <3> QED BY <3>1, <1>1 DEF TypeOK
    <2> QED BY <1>3, <2>1, <2>2
<1>5. ~ \E s \in Source : Begin(t, s)
    BY <1>1 DEF Begin
<1> QED BY <1>3, <1>4, <1>5

\* The answer of a call in terms of the entry and the source as the call
\* finds them under the lock.
LEMMA AnswerOf ==
    ASSUME ResolverInv, [Next]_vars, NEW t \in Thread, Returns(t),
           NEW s, s = pending[t], NEW k, k = Identity(s)
    PROVE  /\ s \in Source /\ k \in Key
           /\ \/ /\ k \in present /\ cache[k].ok /\ fresh(s, now[t])
                 /\ answer' = cache[k].value
              \/ /\ k \in present /\ ~cache[k].ok /\ held(s, now[t])
                 /\ answer' = Bad
              \/ holds[k] # Bad /\ answer' = holds[k]
              \/ /\ k \in present /\ cache[k].ok /\ holds[k] = Bad
                 /\ answer' = cache[k].value
              \/ /\ k \in present => ~cache[k].ok
                 /\ holds[k] = Bad /\ answer' = Bad
<1>1. Resolve(t)
    BY ReturnsByResolve DEF ResolverInv
<1>2. /\ s \in Source
      /\ Hit(t, s) \/ ReadOk(t, s) \/ ServeStale(t, s) \/ ReadFails(t, s)
    BY <1>1, ResolveCases DEF ResolverInv
<1>3. k = cache_key(s) /\ k \in Key /\ read(s) = holds[k]
    BY <1>2, KeyIsIdentity DEF read
<1>4. \A x : Return(t, x) => answer' = x
    BY DEF Return
<1>5. CASE Hit(t, s)
    BY <1>2, <1>3, <1>4, <1>5, Zenon DEF Hit
<1>6. CASE ReadOk(t, s)
    BY <1>2, <1>3, <1>4, <1>6, Zenon DEF ReadOk
<1>7. CASE ServeStale(t, s)
    BY <1>2, <1>3, <1>4, <1>7, Zenon DEF ServeStale
<1>8. CASE ReadFails(t, s)
    BY <1>2, <1>3, <1>4, <1>8, Zenon DEF ReadFails
<1> QED BY <1>2, <1>5, <1>6, <1>7, <1>8, Zenon

\* No source is answered with the value of another (cache_key).
THEOREM AnswersGenuine == Spec => ValueGenuine
<1>1. ASSUME ResolverInv, [Next]_vars, NEW t \in Thread, Returns(t), answer' # Bad
      PROVE  answer' \in had[Identity(pending[t])]
    <2> DEFINE k == Identity(pending[t])
    <2>1. /\ k \in Key
          /\ \/ k \in present /\ cache[k].ok /\ answer' = cache[k].value
             \/ holds[k] # Bad /\ answer' = holds[k]
             \/ answer' = Bad
        BY <1>1, AnswerOf, ZenonT(30)
    <2>2. /\ holds[k] # Bad => holds[k] \in had[k]
          /\ cache[k].ok => cache[k].value \in had[k]
        BY <1>1, <2>1, Zenon DEF ResolverInv, Genuine
    <2> QED BY <1>1, <2>1, <2>2
<1>2. ResolverInv /\ [Next]_vars => Authentic
    BY <1>1 DEF Authentic
<1> QED BY <1>2, ResolverInvariant, PTL DEF Spec, ValueGenuine

\* A secret that was resolved once is never unresolvable again.
THEOREM StaleIsServed == Spec => NeverForgets
<1>1. ASSUME ResolverInv, [Next]_vars, NEW t \in Thread, Returns(t),
             Identity(pending[t]) \in present, cache[Identity(pending[t])].ok
      PROVE  answer' # Bad
    <2>1. Identity(pending[t]) \in Key
        BY <1>1, AnswerOf, Zenon
    <2>2. cache[Identity(pending[t])].value # Bad
        BY <1>1, <2>1, ValueAssumption, Zenon DEF ResolverInv, TypeOK, Entry
    <2> QED BY <1>1, <2>2, AnswerOf
<1>2. ASSUME ResolverInv, [Next]_vars, NEW k \in present, cache[k].ok
      PROVE  k \in present' /\ cache'[k].ok
    <2>1. CASE UNCHANGED <<present, cache>>
        BY <1>2, <2>1
    <2>2. ASSUME NEW t \in Thread, Resolve(t)
          PROVE  k \in present' /\ cache'[k].ok
        <3> DEFINE s == pending[t]
        <3>1. Hit(t, s) \/ ReadOk(t, s) \/ ServeStale(t, s) \/ ReadFails(t, s)
            BY <1>2, <2>2, ResolveCases DEF ResolverInv
        <3>2. k \in Key /\ cache \in [Key -> Entry]
            BY <1>2 DEF ResolverInv, TypeOK
        <3>3. \A j, v, n : Insert(j, v, n, TRUE) => k \in present' /\ cache'[k].ok
            BY <1>2, <3>2 DEF Insert
        <3>4. CASE ReadFails(t, s)
            BY <1>2, <3>2, <3>4, Zenon DEF ReadFails, Insert
        <3>5. CASE Hit(t, s)
            BY <1>2, <3>5, Zenon DEF Hit
        <3> QED BY <3>1, <3>3, <3>4, <3>5, Zenon DEF ReadOk, ServeStale
    <2>3. UNCHANGED <<present, cache>> \/ \E t \in Thread : Resolve(t)
        BY <1>2 DEF Next, Tick, Rotate, Begin, vars
    <2> QED BY <2>1, <2>2, <2>3
<1>3. ResolverInv /\ [Next]_vars => Remembered
    BY <1>1, <1>2, Zenon DEF Remembered
<1> QED BY <1>3, ResolverInvariant, PTL DEF Spec, NeverForgets

\* A rotated secret is picked up within its ttl.
THEOREM RotationPickedUp == Spec => PicksUpRotation
<1>1. ASSUME ResolverInv, [Next]_vars, NEW t \in Thread, Returns(t),
             NEW s, s = pending[t], NEW k, k = Identity(s),
             holds[k] # Bad, Ttl[s] # Forever, cache[k].ok,
             now[t] >= changed[k] + Ttl[s]
      PROVE  answer' = holds[k]
    <2>1. s \in Source /\ k \in Key
        BY <1>1, AnswerOf, Zenon
    <2>2. k = cache_key(s)
        BY <1>1, <2>1, KeyIsIdentity
    <2>3. ASSUME k \in present, fresh(s, now[t])
          PROVE  cache[k].value = holds[k]
        <3>1. now[t] \in Nat /\ changed[k] \in Nat /\ Ttl[s] \in Nat
            BY <1>1, <2>1, TtlAssumption DEF ResolverInv, TypeOK
        <3>2. cache[k].stamp \in Nat
            BY <1>1, <2>1, Zenon DEF ResolverInv, TypeOK, Entry
        <3>3. ~(cache[k].stamp <= changed[k])
            <4>1. saturating_sub(now[t], cache[k].stamp) < Ttl[s]
                BY <1>1, <2>2, <2>3, Zenon DEF fresh
            <4>2. now[t] >= changed[k] + Ttl[s]
                BY <1>1, Zenon
            <4> QED BY <3>1, <3>2, <4>1, <4>2 DEF saturating_sub
        <3> QED BY <1>1, <2>3, <3>3 DEF ResolverInv, Dated, Outdated
    <2> QED BY <1>1, <2>3, AnswerOf
<1>2. ResolverInv /\ [Next]_vars => Current
    <2> SUFFICES ASSUME ResolverInv, [Next]_vars, NEW t \in Thread, Returns(t),
                        holds[Identity(pending[t])] # Bad, Ttl[pending[t]] # Forever,
                        cache[Identity(pending[t])].ok,
                        now[t] >= changed[Identity(pending[t])] + Ttl[pending[t]]
                 PROVE  answer' = holds[Identity(pending[t])]
        BY Zenon DEF Current
    <2> QED BY <1>1, SMTT(30)
<1> QED BY <1>2, ResolverInvariant, PTL DEF Spec, PicksUpRotation

\* A cached failure is held no longer than failure_ttl after the source became
\* readable.
THEOREM FailureExpires == Spec => RecoversFromFailure
<1>1. ASSUME ResolverInv, [Next]_vars, NEW t \in Thread, Returns(t),
             NEW s, s = pending[t], NEW k, k = Identity(s),
             holds[k] # Bad, now[t] >= changed[k] + FailureTtl[s]
      PROVE  answer' # Bad
    <2>1. s \in Source /\ k \in Key
        BY <1>1, AnswerOf, Zenon
    <2>2. k = cache_key(s)
        BY <1>1, <2>1, KeyIsIdentity, Zenon
    <2>3. cache[k].ok <=> cache[k].value # Bad
        BY <1>1, <2>1, ValueAssumption, Zenon DEF ResolverInv, TypeOK, Entry
    <2>4. ASSUME k \in present, ~cache[k].ok
          PROVE  ~held(s, now[t])
        <3>1. now[t] \in Nat /\ changed[k] \in Nat /\ FailureTtl[s] \in Nat
            BY <1>1, <2>1, TtlAssumption DEF ResolverInv, TypeOK
        <3>2. cache[k].stamp \in Nat
            BY <1>1, <2>1, Zenon DEF ResolverInv, TypeOK, Entry
        <3>3. cache[k].stamp <= changed[k]
            BY <1>1, <2>3, <2>4, Zenon DEF ResolverInv, Dated, Outdated
        <3>4. now[t] >= changed[k] + FailureTtl[s]
            BY <1>1, Zenon
        <3>5. ~(saturating_sub(now[t], cache[k].stamp) < FailureTtl[s])
            BY <3>1, <3>2, <3>3, <3>4 DEF saturating_sub
        <3> QED BY <2>2, <3>5, Zenon DEF held
    <2> QED BY <1>1, <2>3, <2>4, AnswerOf
<1>2. ResolverInv /\ [Next]_vars => Recovered
    BY <1>1, Zenon DEF Recovered
<1> QED BY <1>2, ResolverInvariant, PTL DEF Spec, RecoversFromFailure

-----------------------------------------------------------------------------
(* Retries after a failed refresh.                                          *)

\* The last refresh of k failed: the entry is a success, and counts half the
\* ttl of the source that tried as elapsed by then.
Scheduled(k) ==
    /\ k \in present /\ cache[k].ok
    /\ \E z \in Source : /\ Identity(z) = k /\ Ttl[z] # Forever
                        /\ cache[k].stamp + Ttl[z] \div 2 = failed[k]

RetryInv == \A k \in Key : failed[k] # -1 => Scheduled(k)

\* Halving keeps the order, and half is no more than the whole.
LEMMA Halves ==
    ASSUME NEW a \in Nat, NEW b \in Nat, a <= b
    PROVE  a \div 2 \in Nat /\ a \div 2 <= a /\ a \div 2 <= b \div 2
OBVIOUS

\* A refresh is due only when the ttl has passed since time 0, so taking half
\* of it off the clock does not saturate.
LEMMA RetryExact ==
    ASSUME NEW s \in Source, NEW n \in Nat, ~fresh(s, n), cache[cache_key(s)].stamp \in Nat
    PROVE  Ttl[s] # Forever /\ retry_stamp(s, n) + Ttl[s] \div 2 = n
<1> DEFINE w == Ttl[s]
           st == cache[cache_key(s)].stamp
<1>1. w # Forever /\ ~(saturating_sub(n, st) < w)
    BY Zenon DEF fresh
<1>2. w \in Nat /\ st \in Nat
    BY <1>1, TtlAssumption
<1>3. retry_stamp(s, n) = saturating_sub(n, w \div 2)
    BY <1>1, Zenon DEF retry_stamp
<1> HIDE DEF w, st
<1>4. w <= n
    BY <1>1, <1>2 DEF saturating_sub
<1>5. w \div 2 \in Nat /\ w \div 2 <= n
    BY <1>2, <1>4, Halves
<1>6. saturating_sub(n, w \div 2) + w \div 2 = n
    BY <1>5 DEF saturating_sub
<1> QED BY <1>1, <1>3, <1>6 DEF w

\* A call that stores an entry for k leaves the schedule of the others alone.
LEMMA InsertRetry ==
    ASSUME ResolverInv, RetryInv, NEW k \in Key, NEW value, NEW stamp, NEW ok, NEW f,
           Insert(k, value, stamp, ok), failed' = [failed EXCEPT ![k] = f],
           f # -1 => ok /\ \E z \in Source : /\ Identity(z) = k /\ Ttl[z] # Forever
                                          /\ stamp + Ttl[z] \div 2 = f
    PROVE  RetryInv'
<1> SUFFICES ASSUME NEW j \in Key, failed'[j] # -1
             PROVE  Scheduled(j)'
    BY Zenon DEF RetryInv
<1>1. present' = present \cup {k}
    BY Zenon DEF Insert
<1>2. cache \in [Key -> Entry] /\ failed \in [Key -> Nat \cup {-1}]
    BY Zenon DEF ResolverInv, TypeOK
<1>3. CASE j = k
    <2>1. cache'[j].stamp = stamp /\ cache'[j].ok = ok /\ failed'[j] = f
        BY <1>2, <1>3 DEF Insert
    <2> QED BY <1>1, <1>3, <2>1, Zenon DEF Scheduled, Identity
<1>4. CASE j # k
    <2>1. cache'[j] = cache[j] /\ failed'[j] = failed[j]
        BY <1>2, <1>4 DEF Insert
    <2>2. Scheduled(j)
        BY <2>1, Zenon DEF RetryInv
    <2> QED BY <1>1, <2>1, <2>2, Zenon DEF Scheduled, Identity
<1> QED BY <1>3, <1>4, Zenon

\* A step keeps the schedule: a successful read ends it, a failed one sets it,
\* and a failure is cached only where nothing is scheduled.
LEMMA StepRetry ==
    ASSUME ResolverInv, RetryInv, [Next]_vars
    PROVE  RetryInv'
<1>1. CASE UNCHANGED <<present, cache, failed>>
    BY <1>1, Zenon DEF RetryInv, Scheduled, Identity
<1>2. ASSUME NEW t \in Thread, Resolve(t)
      PROVE  RetryInv'
    <2> DEFINE s == pending[t]
               k == cache_key(s)
    <2>1. s \in Source /\ k \in Key /\ k = Identity(s)
        BY <1>2, ResolveCases, KeyIsIdentity DEF ResolverInv
    <2>2. Hit(t, s) \/ ReadOk(t, s) \/ ServeStale(t, s) \/ ReadFails(t, s)
        BY <1>2, ResolveCases DEF ResolverInv
    <2>3. now[t] \in Nat /\ failed \in [Key -> Nat \cup {-1}]
        BY DEF ResolverInv, TypeOK
    <2>4. cache[k].stamp \in Nat
        BY <2>1, Zenon DEF ResolverInv, TypeOK, Entry
    <2> HIDE DEF s
    <2>5. CASE Hit(t, s)
        BY <1>1, <2>5, Zenon DEF Hit
    <2>6. CASE ReadOk(t, s)
        <3>1. Insert(k, read(s), now[t], TRUE) /\ failed' = [failed EXCEPT ![k] = -1]
            BY <2>6, Zenon DEF ReadOk
        <3> QED BY <2>1, <3>1, InsertRetry, Zenon
    <2>7. CASE ServeStale(t, s)
        <3>1. /\ ~fresh(s, now[t]) /\ failed' = [failed EXCEPT ![k] = now[t]]
              /\ Insert(k, cache[k].value, retry_stamp(s, now[t]), TRUE)
            BY <2>7, Zenon DEF ServeStale
        <3>2. Ttl[s] # Forever /\ retry_stamp(s, now[t]) + Ttl[s] \div 2 = now[t]
            BY <2>1, <2>3, <2>4, <3>1, RetryExact
        <3> HIDE DEF k
        <3> QED BY <2>1, <3>1, <3>2, InsertRetry, Zenon
    <2>8. CASE ReadFails(t, s)
        <3>1. /\ k \in present => ~cache[k].ok
              /\ Insert(k, Bad, now[t], FALSE) /\ failed' = failed
            BY <2>8, Zenon DEF ReadFails
        <3>2. failed[k] = -1
            BY <2>1, <3>1, Zenon DEF RetryInv, Scheduled
        <3>3. failed' = [failed EXCEPT ![k] = -1]
            BY <2>1, <2>3, <3>1, <3>2
        <3> QED BY <2>1, <3>1, <3>3, InsertRetry, Zenon
    <2> QED BY <2>2, <2>5, <2>6, <2>7, <2>8, Zenon
<1>3. UNCHANGED <<present, cache, failed>> \/ \E t \in Thread : Resolve(t)
    BY DEF Next, Tick, Rotate, Begin, vars, history
<1> QED BY <1>1, <1>2, <1>3, Zenon

\* After a failed refresh the stale value is served for half a ttl, rounded up,
\* and no longer: the next call then returns what a readable source holds
\* ("schedule a retry at ttl/2"), if no source that shares the entry has a
\* shorter ttl.
THEOREM RetryIsDue == Spec => RetriesAtHalfTtl
<1>1. Init => RetryInv
    BY DEF Init, RetryInv
<1>2. ASSUME ResolverInv, RetryInv, [Next]_vars, NEW t \in Thread, Returns(t),
             NEW s, s = pending[t], NEW k, k = Identity(s),
             failed[k] >= 0, holds[k] # Bad, Ttl[s] # Forever, ShortestOfEntry(s),
             now[t] >= failed[k] + (Ttl[s] - Ttl[s] \div 2)
      PROVE  answer' = holds[k]
    <2>1. s \in Source /\ k \in Key
        BY <1>2, AnswerOf, Zenon
    <2>2. k = cache_key(s)
        BY <1>2, <2>1, KeyIsIdentity, Zenon
    <2>3. failed[k] # -1
        BY <1>2
    <2>4. Scheduled(k)
        BY <1>2, <2>1, <2>3, Zenon DEF RetryInv
    <2>5. PICK z \in Source : /\ Identity(z) = k /\ Ttl[z] # Forever
                              /\ cache[k].stamp + Ttl[z] \div 2 = failed[k]
        BY <2>4, Zenon DEF Scheduled
    <2>6. Ttl[s] <= Ttl[z]
        BY <1>2, <2>5, Zenon DEF ShortestOfEntry
    <2>7. now[t] \in Nat /\ Ttl[s] \in Nat /\ Ttl[z] \in Nat
        BY <1>2, <2>1, <2>5, TtlAssumption DEF ResolverInv, TypeOK
    <2>8. cache[k].stamp \in Nat
        BY <1>2, <2>1, Zenon DEF ResolverInv, TypeOK, Entry
    <2>9. ~fresh(s, now[t])
        <3>1. /\ Ttl[s] \div 2 \in Nat /\ Ttl[z] \div 2 \in Nat
              /\ Ttl[s] \div 2 <= Ttl[s] /\ Ttl[s] \div 2 <= Ttl[z] \div 2
            BY <2>6, <2>7, Halves
        <3>2. now[t] >= cache[k].stamp + Ttl[s]
            <4>1. /\ now[t] >= failed[k] + (Ttl[s] - Ttl[s] \div 2)
                  /\ cache[k].stamp + Ttl[z] \div 2 = failed[k]
                BY <1>2, <2>5, Zenon
            <4> QED BY <2>7, <2>8, <3>1, <4>1
        <3>3. ~(saturating_sub(now[t], cache[k].stamp) < Ttl[s])
            BY <2>7, <2>8, <3>2 DEF saturating_sub
        <3> QED BY <1>2, <2>2, <3>3, Zenon DEF fresh
    <2>10. k \in present /\ cache[k].ok
        BY <2>4, Zenon DEF Scheduled
    <2> QED BY <1>2, <2>9, <2>10, AnswerOf, ZenonT(30)
<1>3. ResolverInv /\ RetryInv /\ [Next]_vars => Retried
    BY <1>2, ZenonT(30) DEF Retried
<1> QED BY <1>1, <1>3, StepRetry, ResolverInvariant, PTL DEF Spec, RetriesAtHalfTtl
=============================================================================
