------------------------- MODULE SharedStateProofs -------------------------
(***************************************************************************)
(* Proofs about two structures that all requests share behind locks.       *)
(* CertCache: for any number of concurrent calls, targets and any          *)
(* capacity.  The recency list of the LRU comes last: which entry is       *)
(* evicted does not matter to the rest.  Metrics: for any records and any  *)
(* buckets.                                                                *)
(***************************************************************************)
EXTENDS CertCache, Metrics, FiniteSetTheorems, TLAPS

-----------------------------------------------------------------------------
(* CertCache: the inductive invariant.                                      *)

\* The types of everything but the recency list.
Typed ==
    /\ pc \in [Task -> PC]
    /\ target \in [Task -> Target \cup {None}]
    /\ waits \in [Task -> Task \cup {None}]
    /\ made \in [Task -> Result]
    /\ channel \in [Task -> Result]
    /\ result \in [Task -> Result]
    /\ cache \in [Target -> Leaf \cup {None}]
    /\ inflight \in [Target -> Task \cup {None}]

\* A task has its argument from its first step on, and a result only at the
\* end.
Called ==
    \A t \in Task :
        /\ pc[t] # "idle" => target[t] \in Target
        /\ pc[t] # "done" => result[t] = None /\ channel[t] = None
        /\ pc[t] \in {"idle", "missed", "mint", "remove", "send"} => waits[t] = None
        /\ pc[t] \in {"idle", "missed", "mint", "await"} => made[t] = None
        /\ pc[t] \in {"remove", "send"} => made[t] # None
        /\ pc[t] = "await" => waits[t] # None

\* The inflight map: a minter holds the entry of its target until it removes
\* it, and every entry belongs to a call for that target which is minting or,
\* after a panic, has ended.
Flights ==
    /\ \A t \in Task : pc[t] \in {"mint", "remove"} => inflight[target[t]] = t
    /\ \A x \in Target : inflight[x] # None =>
            target[inflight[x]] = x /\ pc[inflight[x]] \in {"mint", "remove", "done"}

\* Leaves are filed, published and returned under the name they are for.
Filed ==
    /\ \A x \in Target : cache[x] # None => cache[x].target = x
    /\ \A t \in Task : made[t] \in Leaf => made[t].target = target[t]
    /\ \A t \in Task : channel[t] # None => pc[t] = "done" /\ channel[t] = result[t]
    /\ \A t \in Task : waits[t] # None =>
            waits[t] \in Task /\ target[waits[t]] = target[t]
                /\ pc[waits[t]] \in {"mint", "remove", "send", "done"}
                /\ pc[t] \in {"await", "done"}

CacheInv == Typed /\ Called /\ Flights /\ Filed /\ LeafForTarget /\ WaiterServedByFlight

\* An empty cache with nobody in flight.
LEMMA InitCache == Init => CacheInv
BY NoneAssumption, LeafAssumption
   DEF Init, CacheInv, Typed, Called, Flights, Filed, LeafForTarget,
       WaiterServedByFlight, PC, Result

\* A call looks its name up and is served, or goes on to the inflight map.
LEMMA LookupCache ==
    ASSUME CacheInv, NEW t \in Task, NEW x \in Target, Lookup(t, x)
    PROVE  CacheInv'
<1>1. Typed /\ Called /\ Flights /\ Filed /\ LeafForTarget /\ WaiterServedByFlight
  BY DEF CacheInv
<1>2. /\ pc[t] = "idle" /\ target' = [target EXCEPT ![t] = x]
      /\ UNCHANGED <<waits, made, channel, inflight, cache>>
  BY DEF Lookup, lru_get
<1>3. \/ /\ cache[x] # None /\ pc' = [pc EXCEPT ![t] = "done"]
         /\ result' = [result EXCEPT ![t] = cache[x]]
      \/ pc' = [pc EXCEPT ![t] = "missed"] /\ result' = result
  BY DEF Lookup, Return, Goto
<1>4. Typed'
  BY <1>1, <1>2, <1>3 DEF Typed, PC, Result
<1>5. Called'
  BY <1>1, <1>2, <1>3 DEF Typed, Called
<1>6. Flights'
  BY <1>1, <1>2, <1>3 DEF Typed, Flights
<1>7. Filed'
  BY <1>1, <1>2, <1>3, LeafAssumption DEF Typed, Filed, Called
<1>8. LeafForTarget'
  BY <1>1, <1>2, <1>3, LeafAssumption DEF Typed, LeafForTarget, Filed, Called
<1>9. WaiterServedByFlight'
  BY <1>1, <1>2, <1>3 DEF Typed, WaiterServedByFlight, Filed, Called
<1>10. QED
  BY <1>4, <1>5, <1>6, <1>7, <1>8, <1>9 DEF CacheInv

\* A call enters the inflight map, as the minter or as a waiter.
LEMMA JoinCache ==
    ASSUME CacheInv, NEW t \in Task, Join(t)
    PROVE  CacheInv'
<1>1. Typed /\ Called /\ Flights /\ Filed /\ LeafForTarget /\ WaiterServedByFlight
  BY DEF CacheInv
<1>2. /\ pc[t] = "missed" /\ target[t] \in Target
      /\ UNCHANGED <<target, made, channel, cache, result>>
  BY <1>1 DEF Join, Goto, Called
<1>3. \/ /\ inflight[target[t]] # None /\ inflight' = inflight
         /\ waits' = [waits EXCEPT ![t] = inflight[target[t]]]
         /\ pc' = [pc EXCEPT ![t] = "await"]
      \/ /\ inflight[target[t]] = None /\ waits' = waits
         /\ inflight' = [inflight EXCEPT ![target[t]] = t]
         /\ pc' = [pc EXCEPT ![t] = "mint"]
  BY DEF Join, Goto
<1>4. Typed'
  BY <1>1, <1>2, <1>3 DEF Typed, Called, PC, Result
<1>5. Called'
  BY <1>1, <1>2, <1>3, NoneAssumption, LeafAssumption DEF Typed, Called
<1>6. Flights'
  BY <1>1, <1>2, <1>3, NoneAssumption DEF Typed, Called, Flights
<1>7. Filed'
  BY <1>1, <1>2, <1>3, NoneAssumption, LeafAssumption DEF Typed, Filed, Called, Flights
<1>8. LeafForTarget'
  BY <1>1, <1>2, <1>3, LeafAssumption DEF Typed, LeafForTarget, Filed, Called
<1>9. WaiterServedByFlight'
  BY <1>1, <1>2, <1>3, NoneAssumption DEF Typed, WaiterServedByFlight, Filed, Called, Flights
<1>10. QED
  BY <1>4, <1>5, <1>6, <1>7, <1>8, <1>9 DEF CacheInv

\* The minter stores its leaf, evicting another if the cache is full.
LEMMA MintCache ==
    ASSUME CacheInv, NEW t \in Task, Mint(t)
    PROVE  CacheInv'
<1>1. Typed /\ Called /\ Flights /\ Filed /\ LeafForTarget /\ WaiterServedByFlight
  BY DEF CacheInv
<1>2. /\ pc[t] = "mint" /\ target[t] \in Target
      /\ pc' = [pc EXCEPT ![t] = "remove"]
      /\ UNCHANGED <<target, waits, channel, inflight, result>>
  BY <1>1 DEF Mint, Goto, Called
<1>3. PICK leaf \in Leaf :
          /\ leaf.target = target[t]
          /\ made' = [made EXCEPT ![t] = leaf]
          /\ cache' \in [Target -> Leaf \cup {None}]
          /\ \A y \in Target : cache'[y] \in {cache[y], None} \/ (y = target[t] /\ cache'[y] = leaf)
  <2> DEFINE leaf == [target |-> target[t], by |-> t]
             keys == Promote(target[t])
             evicted(y) == Len(keys) > Capacity /\ y = keys[Len(keys)]
  <2>1. leaf \in Leaf /\ leaf.target = target[t]
    BY <1>2 DEF Leaf
  <2> HIDE DEF leaf
  <2>2. cache' = [y \in Target |->
                      IF y = target[t] THEN leaf
                      ELSE IF evicted(y) THEN None
                      ELSE cache[y]]
    BY DEF Mint, lru_put, leaf
  <2>3. made' = [made EXCEPT ![t] = leaf]
    BY DEF Mint, leaf
  <2> HIDE DEF keys, evicted
  <2>4. /\ cache' \in [Target -> Leaf \cup {None}]
        /\ \A y \in Target :
               cache'[y] \in {cache[y], None} \/ (y = target[t] /\ cache'[y] = leaf)
    <3>1. ASSUME NEW y \in Target
          PROVE  /\ cache'[y] \in {cache[y], None} \/ (y = target[t] /\ cache'[y] = leaf)
                 /\ cache'[y] \in Leaf \cup {None}
      BY <1>1, <2>1, <2>2 DEF Typed
    <3>2. QED
      BY <2>2, <3>1
  <2>5. QED
    BY <2>1, <2>3, <2>4, Zenon
<1>4. Typed'
  BY <1>1, <1>2, <1>3 DEF Typed, Called, PC, Result
<1>5. Called'
  BY <1>1, <1>2, <1>3, NoneAssumption, LeafAssumption DEF Typed, Called
<1>6. Flights'
  BY <1>1, <1>2, <1>3, NoneAssumption DEF Typed, Called, Flights
<1>7. Filed'
  BY <1>1, <1>2, <1>3, NoneAssumption, LeafAssumption DEF Typed, Filed, Called, Flights
<1>8. LeafForTarget'
  BY <1>1, <1>2, <1>3, LeafAssumption DEF Typed, LeafForTarget, Filed, Called
<1>9. WaiterServedByFlight'
  BY <1>1, <1>2, <1>3, NoneAssumption DEF Typed, WaiterServedByFlight, Filed, Called, Flights
<1>10. QED
  BY <1>4, <1>5, <1>6, <1>7, <1>8, <1>9 DEF CacheInv

\* The mint fails and nothing is stored.
LEMMA MintFailsCache ==
    ASSUME CacheInv, NEW t \in Task, MintFails(t)
    PROVE  CacheInv'
<1>1. Typed /\ Called /\ Flights /\ Filed /\ LeafForTarget /\ WaiterServedByFlight
  BY DEF CacheInv
<1>2. /\ pc[t] = "mint" /\ target[t] \in Target
      /\ pc' = [pc EXCEPT ![t] = "remove"]
      /\ UNCHANGED <<target, waits, channel, inflight, result, cache>>
  BY <1>1 DEF MintFails, Goto, Called
<1>3. made' = [made EXCEPT ![t] = Failed]
  BY DEF MintFails
<1>4. Typed'
  BY <1>1, <1>2, <1>3 DEF Typed, Called, PC, Result
<1>5. Called'
  BY <1>1, <1>2, <1>3, NoneAssumption, LeafAssumption DEF Typed, Called
<1>6. Flights'
  BY <1>1, <1>2, <1>3, NoneAssumption DEF Typed, Called, Flights
<1>7. Filed'
  BY <1>1, <1>2, <1>3, NoneAssumption, LeafAssumption DEF Typed, Filed, Called, Flights
<1>8. LeafForTarget'
  BY <1>1, <1>2, <1>3, LeafAssumption DEF Typed, LeafForTarget, Filed, Called
<1>9. WaiterServedByFlight'
  BY <1>1, <1>2, <1>3, NoneAssumption DEF Typed, WaiterServedByFlight, Filed, Called, Flights
<1>10. QED
  BY <1>4, <1>5, <1>6, <1>7, <1>8, <1>9 DEF CacheInv

\* The mint panics: its entry stays in the inflight map for good.
LEMMA MintPanicsCache ==
    ASSUME CacheInv, NEW t \in Task, MintPanics(t)
    PROVE  CacheInv'
<1>1. Typed /\ Called /\ Flights /\ Filed /\ LeafForTarget /\ WaiterServedByFlight
  BY DEF CacheInv
<1>2. /\ pc[t] = "mint" /\ target[t] \in Target
      /\ pc' = [pc EXCEPT ![t] = "done"]
      /\ UNCHANGED <<target, waits, made, inflight, cache>>
  BY <1>1 DEF MintPanics, Return, Called
<1>3. /\ channel' = [channel EXCEPT ![t] = Failed]
      /\ result' = [result EXCEPT ![t] = Failed]
  BY DEF MintPanics, Return
<1>4. Typed'
  BY <1>1, <1>2, <1>3 DEF Typed, Called, PC, Result
<1>5. Called'
  BY <1>1, <1>2, <1>3, NoneAssumption, LeafAssumption DEF Typed, Called
<1>6. Flights'
  BY <1>1, <1>2, <1>3, NoneAssumption DEF Typed, Called, Flights
<1>7. Filed'
  BY <1>1, <1>2, <1>3, NoneAssumption, LeafAssumption DEF Typed, Filed, Called, Flights
<1>8. LeafForTarget'
  BY <1>1, <1>2, <1>3, LeafAssumption DEF Typed, LeafForTarget, Filed, Called
<1>9. WaiterServedByFlight'
  BY <1>1, <1>2, <1>3, NoneAssumption DEF Typed, WaiterServedByFlight, Filed, Called, Flights
<1>10. QED
  BY <1>4, <1>5, <1>6, <1>7, <1>8, <1>9 DEF CacheInv

\* The minter takes its entry out of the inflight map.
LEMMA RemoveCache ==
    ASSUME CacheInv, NEW t \in Task, Remove(t)
    PROVE  CacheInv'
<1>1. Typed /\ Called /\ Flights /\ Filed /\ LeafForTarget /\ WaiterServedByFlight
  BY DEF CacheInv
<1>2. /\ pc[t] = "remove" /\ target[t] \in Target
      /\ pc' = [pc EXCEPT ![t] = "send"]
      /\ UNCHANGED <<target, waits, made, channel, cache, result>>
  BY <1>1 DEF Remove, Goto, Called
<1>3. inflight' = [inflight EXCEPT ![target[t]] = None]
  BY DEF Remove
<1>4. Typed'
  BY <1>1, <1>2, <1>3 DEF Typed, Called, PC, Result
<1>5. Called'
  BY <1>1, <1>2, <1>3, NoneAssumption, LeafAssumption DEF Typed, Called
<1>6. Flights'
  BY <1>1, <1>2, <1>3, NoneAssumption DEF Typed, Called, Flights
<1>7. Filed'
  BY <1>1, <1>2, <1>3, NoneAssumption, LeafAssumption DEF Typed, Filed, Called, Flights
<1>8. LeafForTarget'
  BY <1>1, <1>2, <1>3, LeafAssumption DEF Typed, LeafForTarget, Filed, Called
<1>9. WaiterServedByFlight'
  BY <1>1, <1>2, <1>3, NoneAssumption DEF Typed, WaiterServedByFlight, Filed, Called, Flights
<1>10. QED
  BY <1>4, <1>5, <1>6, <1>7, <1>8, <1>9 DEF CacheInv

\* The minter sends its result to those who wait.
LEMMA PublishCache ==
    ASSUME CacheInv, NEW t \in Task, Publish(t)
    PROVE  CacheInv'
<1>1. Typed /\ Called /\ Flights /\ Filed /\ LeafForTarget /\ WaiterServedByFlight
  BY DEF CacheInv
<1>2. /\ pc[t] = "send" /\ target[t] \in Target
      /\ pc' = [pc EXCEPT ![t] = "done"]
      /\ UNCHANGED <<target, waits, made, inflight, cache>>
  BY <1>1 DEF Publish, Return, Called
<1>3. /\ channel' = [channel EXCEPT ![t] = made[t]]
      /\ result' = [result EXCEPT ![t] = made[t]]
  BY DEF Publish, Return
<1>4. Typed'
  BY <1>1, <1>2, <1>3 DEF Typed, Called, PC, Result
<1>5. Called'
  BY <1>1, <1>2, <1>3, NoneAssumption, LeafAssumption DEF Typed, Called
<1>6. Flights'
  BY <1>1, <1>2, <1>3, NoneAssumption DEF Typed, Called, Flights
<1>7. Filed'
  BY <1>1, <1>2, <1>3, NoneAssumption, LeafAssumption DEF Typed, Filed, Called, Flights
<1>8. LeafForTarget'
  BY <1>1, <1>2, <1>3, LeafAssumption DEF Typed, LeafForTarget, Filed, Called
<1>9. WaiterServedByFlight'
  BY <1>1, <1>2, <1>3, NoneAssumption DEF Typed, WaiterServedByFlight, Filed, Called, Flights
<1>10. QED
  BY <1>4, <1>5, <1>6, <1>7, <1>8, <1>9 DEF CacheInv

\* A waiter takes the result its channel holds.
LEMMA AwakeCache ==
    ASSUME CacheInv, NEW t \in Task, Awake(t)
    PROVE  CacheInv'
<1>1. Typed /\ Called /\ Flights /\ Filed /\ LeafForTarget /\ WaiterServedByFlight
  BY DEF CacheInv
<1>2. /\ pc[t] = "await" /\ target[t] \in Target
      /\ pc' = [pc EXCEPT ![t] = "done"]
      /\ UNCHANGED <<target, waits, made, channel, inflight, cache>>
  BY <1>1 DEF Awake, Return, Called
<1>3. /\ channel[waits[t]] # None
      /\ result' = [result EXCEPT ![t] = channel[waits[t]]]
      /\ waits[t] # None
  BY <1>1 DEF Awake, Return, Called
<1>4. Typed'
  BY <1>1, <1>2, <1>3 DEF Typed, Called, PC, Result
<1>5. Called'
  BY <1>1, <1>2, <1>3, NoneAssumption, LeafAssumption DEF Typed, Called
<1>6. Flights'
  BY <1>1, <1>2, <1>3, NoneAssumption DEF Typed, Called, Flights
<1>7. Filed'
  BY <1>1, <1>2, <1>3, NoneAssumption, LeafAssumption DEF Typed, Filed, Called, Flights
<1>8. LeafForTarget'
  BY <1>1, <1>2, <1>3, LeafAssumption DEF Typed, LeafForTarget, Filed, Called
<1>9. WaiterServedByFlight'
  BY <1>1, <1>2, <1>3, NoneAssumption DEF Typed, WaiterServedByFlight, Filed, Called, Flights
<1>10. QED
  BY <1>4, <1>5, <1>6, <1>7, <1>8, <1>9 DEF CacheInv

\* A waiter's connection goes away.
LEMMA CancelCache ==
    ASSUME CacheInv, NEW t \in Task, Cancel(t)
    PROVE  CacheInv'
<1>1. Typed /\ Called /\ Flights /\ Filed /\ LeafForTarget /\ WaiterServedByFlight
  BY DEF CacheInv
<1>2. /\ pc[t] = "await" /\ target[t] \in Target
      /\ pc' = [pc EXCEPT ![t] = "done"]
      /\ UNCHANGED <<target, waits, made, channel, inflight, cache>>
  BY <1>1 DEF Cancel, Return, Called
<1>3. result' = [result EXCEPT ![t] = None]
  BY DEF Cancel, Return
<1>4. Typed'
  BY <1>1, <1>2, <1>3 DEF Typed, Called, PC, Result
<1>5. Called'
  BY <1>1, <1>2, <1>3, NoneAssumption, LeafAssumption DEF Typed, Called
<1>6. Flights'
  BY <1>1, <1>2, <1>3, NoneAssumption DEF Typed, Called, Flights
<1>7. Filed'
  BY <1>1, <1>2, <1>3, NoneAssumption, LeafAssumption DEF Typed, Filed, Called, Flights
<1>8. LeafForTarget'
  BY <1>1, <1>2, <1>3, LeafAssumption DEF Typed, LeafForTarget, Filed, Called
<1>9. WaiterServedByFlight'
  BY <1>1, <1>2, <1>3, NoneAssumption DEF Typed, WaiterServedByFlight, Filed, Called, Flights
<1>10. QED
  BY <1>4, <1>5, <1>6, <1>7, <1>8, <1>9 DEF CacheInv

\* The invariant holds in every reachable state.
THEOREM CacheInvariant == Spec => []CacheInv
<1>1. Init => CacheInv
  BY InitCache
<1>2. CacheInv /\ [Next]_vars => CacheInv'
  <2> SUFFICES ASSUME CacheInv, [Next]_vars PROVE CacheInv'
    OBVIOUS
  <2>1. CASE UNCHANGED vars
    BY <2>1 DEF vars, CacheInv, Typed, Called, Flights, Filed, LeafForTarget,
                WaiterServedByFlight
  <2>2. ASSUME NEW t \in Task, Step(t) PROVE CacheInv'
    BY <2>2, JoinCache, MintCache, MintFailsCache, MintPanicsCache, RemoveCache,
       PublishCache, AwakeCache DEF Step
  <2>3. QED
    BY <2>1, <2>2, LookupCache, CancelCache DEF Next
<1>3. QED
  BY <1>1, <1>2, PTL DEF Spec

\* Single flight: two calls are never minting for one target at once.
THEOREM SingleFlight == Spec => []OneMinter
<1>1. CacheInv => OneMinter
  BY DEF CacheInv, Flights, OneMinter
<1>2. QED
  BY <1>1, CacheInvariant, PTL

\* A returned leaf is for the target that was asked for.
THEOREM RightLeaf == Spec => []LeafForTarget
<1>1. CacheInv => LeafForTarget
  BY DEF CacheInv
<1>2. QED
  BY <1>1, CacheInvariant, PTL

\* A waiter gets the outcome of the flight it joined.
THEOREM WaitersShare == Spec => []WaiterServedByFlight
<1>1. CacheInv => WaiterServedByFlight
  BY DEF CacheInv
<1>2. QED
  BY <1>1, CacheInvariant, PTL

-----------------------------------------------------------------------------
(* CertCache: the recency list.                                             *)

Recency == order \in Seq(Target)

\* Moving a name to the front of the recency list leaves a list of names.
LEMMA PromoteTyped == ASSUME Recency, NEW x \in Target PROVE Promote(x) \in Seq(Target)
<1>1. <<x>> \in Seq(Target) /\ order \in Seq(Target)
  BY DEF Recency
<1>2. CASE \E i \in DOMAIN order : order[i] = x
  <2> DEFINE i == CHOOSE i \in DOMAIN order : order[i] = x
             before == SubSeq(order, 1, i - 1)
             behind == SubSeq(order, i + 1, Len(order))
  <2>1. i \in 1 .. Len(order)
    BY <1>1, <1>2
  <2> HIDE DEF i
  <2>2. before \in Seq(Target) /\ behind \in Seq(Target)
    BY <1>1, <2>1
  <2> HIDE DEF before, behind
  <2>3. before \o behind \in Seq(Target)
    BY <2>2
  <2>4. <<x>> \o (before \o behind) \in Seq(Target)
    BY <1>1, <2>3
  <2> QED
    BY <1>2, <2>4 DEF Promote, i, before, behind
<1>3. CASE ~ \E i \in DOMAIN order : order[i] = x
  <2>1. <<x>> \o order \in Seq(Target)
    BY <1>1
  <2> QED
    BY <1>3, <2>1 DEF Promote
<1> QED
  BY <1>2, <1>3

\* Every step keeps the recency list a list of names.
LEMMA RecencyKept == ASSUME CacheInv, Recency, [Next]_vars PROVE Recency'
<1>1. CASE order' = order
  BY <1>1 DEF Recency
<1>2. ASSUME NEW t \in Task, NEW x \in Target, Lookup(t, x) PROVE Recency'
  BY <1>1, <1>2, PromoteTyped DEF Lookup, lru_get, Recency
<1>3. ASSUME NEW t \in Task, Mint(t) PROVE Recency'
  <2>1. target[t] \in Target
    BY <1>3 DEF Mint, CacheInv, Called
  <2>2. PICK keys \in Seq(Target) :
            order' = IF Len(keys) > Capacity THEN SubSeq(keys, 1, Capacity) ELSE keys
    BY <1>3, <2>1, PromoteTyped, Zenon DEF Mint, lru_put
  <2>3. ASSUME Len(keys) > Capacity PROVE SubSeq(keys, 1, Capacity) \in Seq(Target)
    BY <2>2, <2>3, CapacityAssumption
  <2> QED
    BY <2>2, <2>3 DEF Recency
<1>4. ASSUME NEW t \in Task,
             Join(t) \/ MintFails(t) \/ MintPanics(t) \/ Remove(t) \/ Publish(t)
                 \/ Awake(t) \/ Cancel(t)
      PROVE  Recency'
  BY <1>1, <1>4, Zenon DEF Join, MintFails, MintPanics, Remove, Publish, Awake, Cancel
<1> QED
  BY <1>1, <1>2, <1>3, <1>4 DEF Next, Step, vars

\* The variables of the certificate cache have their types.
THEOREM CacheTypeCorrect == Spec => []TypeOK
<1>1. Init => Recency
  BY DEF Init, Recency
<1>2. CacheInv /\ Recency /\ [Next]_vars => Recency'
  BY RecencyKept
<1>3. CacheInv /\ Recency => TypeOK
  BY DEF CacheInv, Typed, Recency, TypeOK
<1> QED
  BY <1>1, <1>2, <1>3, CacheInvariant, PTL DEF Spec

-----------------------------------------------------------------------------
(* Metrics: counting records.                                               *)

\* A set of numbers has a least one.
LEMMA LeastNat ==
    ASSUME NEW S \in SUBSET Nat, S # {}
    PROVE  \E m \in S : \A k \in S : m <= k
<1>1. IsWellFoundedOn(OpToRel(<, Nat), Nat)
  BY NatLessThanWellFounded, Zenon
<1>2. PICK m \in S : \A k \in S : <<k, m>> \notin OpToRel(<, Nat)
  BY <1>1, WFMin, Zenon
<1>3. \A k \in Nat : k < m => <<k, m>> \in OpToRel(<, Nat)
  BY DEF OpToRel
<1>4. \A k \in S : ~(k < m)
  BY <1>2, <1>3, Zenon
<1> QED BY <1>4

\* Induction up to n, for a set.
LEMMA UpTo ==
    ASSUME NEW n \in Nat, NEW S, 0 \in S, \A i \in 1..n : i - 1 \in S => i \in S
    PROVE  \A i \in 0..n : i \in S
<1> DEFINE T == {i \in 0..n : i \notin S}
<1> SUFFICES ASSUME T # {} PROVE FALSE
  OBVIOUS
<1>1. PICK m \in T : \A k \in T : m <= k
  <2>1. T \in SUBSET Nat
    OBVIOUS
  <2> HIDE DEF T
  <2> QED BY <2>1, LeastNat
<1>2. m \in 1..n /\ m - 1 \in 0..n /\ ~(m <= m - 1)
  OBVIOUS
<1>3. m - 1 \notin T
  BY <1>1, <1>2
<1> QED BY <1>2, <1>3

\* How many records of s are in S.
Tally(s, S) == Cardinality({i \in DOMAIN s : s[i] \in S})

\* The records of a set can be counted.
LEMMA TallyType ==
    ASSUME NEW s \in Seq(Record), NEW S
    PROVE  /\ IsFiniteSet({i \in DOMAIN s : s[i] \in S})
           /\ Tally(s, S) \in Nat
<1>1. Len(s) \in Nat /\ DOMAIN s = 1..Len(s)
  OBVIOUS
<1>2. IsFiniteSet(1..Len(s))
  BY <1>1, FS_Interval
<1>3. IsFiniteSet({i \in DOMAIN s : s[i] \in S})
  BY <1>1, <1>2, FS_Subset
<1> QED BY <1>3, FS_CardinalityType DEF Tally

\* Another record counts in the sets it belongs to.
LEMMA TallyAppend ==
    ASSUME NEW s \in Seq(Record), NEW r \in Record, NEW S
    PROVE  Tally(Append(s, r), S) = Tally(s, S) + IF r \in S THEN 1 ELSE 0
<1> DEFINE t == Append(s, r)
           A == {i \in DOMAIN s : s[i] \in S}
           B == {i \in DOMAIN t : t[i] \in S}
           n == Len(s) + 1
<1>1. /\ Len(s) \in Nat /\ DOMAIN s = 1..Len(s) /\ DOMAIN t = 1..n
      /\ t[n] = r /\ \A i \in DOMAIN s : t[i] = s[i]
  OBVIOUS
<1>2. n \notin A /\ \A i : i \in DOMAIN t <=> i \in DOMAIN s \/ i = n
  BY <1>1
<1> HIDE DEF t, n
<1>3. IsFiniteSet(A) /\ Cardinality(A) \in Nat
  BY TallyType, Zenon DEF Tally
<1>4. CASE r \in S
  <2>1. B = A \cup {n}
    BY <1>1, <1>2, <1>4
  <2>2. Cardinality(B) = Cardinality(A) + 1
    BY <1>2, <1>3, <2>1, FS_AddElement, Zenon
  <2> QED BY <1>4, <2>2, Zenon DEF Tally, t
<1>5. CASE r \notin S
  <2>1. B = A
    BY <1>1, <1>2, <1>5
  <2> HIDE DEF A, B
  <2>2. Cardinality(B) = Cardinality(A) + 0
    BY <1>3, <2>1
  <2> QED BY <1>5, <2>2, Zenon DEF Tally, t, A, B
<1> QED BY <1>4, <1>5

\* A set that holds none of the records counts none.
LEMMA TallyNone ==
    ASSUME NEW s \in Seq(Record), NEW S, \A i \in DOMAIN s : s[i] \notin S
    PROVE  Tally(s, S) = 0
<1>1. {i \in DOMAIN s : s[i] \in S} = {}
  OBVIOUS
<1> QED BY <1>1, FS_EmptySet DEF Tally

\* Sets that have nothing in common are counted apart.
LEMMA TallyUnion ==
    ASSUME NEW s \in Seq(Record), NEW S, NEW T, S \cap T = {}
    PROVE  Tally(s, S \cup T) = Tally(s, S) + Tally(s, T)
<1> DEFINE A == {i \in DOMAIN s : s[i] \in S}
           B == {i \in DOMAIN s : s[i] \in T}
<1>1. A \cap B = {} /\ {i \in DOMAIN s : s[i] \in S \cup T} = A \cup B
  OBVIOUS
<1>2. IsFiniteSet(A) /\ IsFiniteSet(B) /\ Cardinality(A) \in Nat /\ Cardinality(B) \in Nat
  BY TallyType, Zenon DEF Tally
<1> HIDE DEF A, B
<1>3. Cardinality(A \cup B) = Cardinality(A) + Cardinality(B) - Cardinality(A \cap B)
  BY <1>2, FS_Union
<1>4. Cardinality(A \cap B) = 0
  BY <1>1, FS_EmptySet, Zenon
<1>5. Cardinality(A \cup B) = Cardinality(A) + Cardinality(B)
  BY <1>2, <1>3, <1>4
<1> QED BY <1>1, <1>5, Zenon DEF Tally, A, B

\* The durations whose first bucket is the i-th.
Band(i) == {n \in Nat : n <= BUCKETS[i] /\ \A j \in 1..i - 1 : ~(n <= BUCKETS[j])}

\* Histogram::observe increments the band of the value.
LEMMA ObserveBand ==
    ASSUME NEW hist, hist.counts \in [DOMAIN BUCKETS -> Nat], NEW value \in Nat
    PROVE  /\ observe(hist, value).count = hist.count + 1
           /\ observe(hist, value).counts \in [DOMAIN BUCKETS -> Nat]
           /\ \A i \in DOMAIN BUCKETS :
                observe(hist, value).counts[i] =
                    hist.counts[i] + IF value \in Band(i) THEN 1 ELSE 0
<1> DEFINE fits == {i \in DOMAIN BUCKETS : value <= BUCKETS[i]}
           n == Len(BUCKETS)
           counts == observe(hist, value).counts
<1>1. n \in Nat /\ DOMAIN BUCKETS = 1..n /\ \A i \in 1..n : BUCKETS[i] \in Nat
  BY BucketsAssumption
<1>2. /\ counts = IF fits = {} THEN hist.counts ELSE [hist.counts EXCEPT ![Min(fits)] = @ + 1]
      /\ observe(hist, value).count = hist.count + 1
  BY DEF observe
<1> HIDE DEF counts
<1>3. CASE fits = {}
  <2>1. \A i \in DOMAIN BUCKETS : value \notin Band(i)
    BY <1>3 DEF Band
  <2>2. counts = hist.counts
    BY <1>2, <1>3
  <2>3. \A i \in DOMAIN BUCKETS : counts[i] = hist.counts[i] + 0
    BY <2>2
  <2> QED BY <1>2, <2>1, <2>2, <2>3, Zenon DEF counts
<1>4. CASE fits # {}
  <2> DEFINE b == Min(fits)
  <2>1. b \in fits /\ \A i \in fits : b <= i
    <3>1. fits \in SUBSET Nat
      BY <1>1
    <3> HIDE DEF fits
    <3>2. \E m \in fits : \A k \in fits : m <= k
      BY <1>4, <3>1, LeastNat
    <3> QED BY <3>2, Zenon DEF Min
  <2>2. counts = [hist.counts EXCEPT ![b] = hist.counts[b] + 1]
    BY <1>2, <1>4
  <2> HIDE DEF b
  <2>3. b \in DOMAIN BUCKETS
    BY <2>1
  <2>4. counts \in [DOMAIN BUCKETS -> Nat]
    BY <2>2, <2>3
  <2>5. ASSUME NEW i \in DOMAIN BUCKETS PROVE value \in Band(i) <=> i = b
    <3>1. CASE i = b
      <4>1. \A j \in 1..i - 1 : j \in 1..n /\ ~(b <= j)
        BY <1>1, <2>3, <3>1
      <4>2. \A j \in 1..i - 1 : j \notin fits
        BY <2>1, <4>1
      <4>3. \A j \in 1..i - 1 : ~(value <= BUCKETS[j])
        BY <1>1, <4>1, <4>2
      <4> QED BY <2>1, <3>1, <4>3 DEF Band
    <3>2. CASE i # b
      <4>1. i \in fits => b \in 1..i - 1
        BY <1>1, <2>1, <2>3, <3>2
      <4> QED BY <2>1, <3>2, <4>1 DEF Band
    <3> QED BY <3>1, <3>2
  <2>6. ASSUME NEW i \in DOMAIN BUCKETS
        PROVE  counts[i] = hist.counts[i] + IF i = b THEN 1 ELSE 0
    <3>1. hist.counts[i] \in Nat
      OBVIOUS
    <3>2. CASE i = b
      BY <2>2, <2>3, <3>2
    <3>3. CASE i # b
      <4>1. counts[i] = hist.counts[i]
        BY <2>2, <3>3
      <4>2. counts[i] = hist.counts[i] + 0
        BY <3>1, <4>1
      <4> QED BY <3>3, <4>2
    <3> QED BY <3>2, <3>3
  <2> QED BY <1>2, <2>4, <2>5, <2>6 DEF counts
<1> QED BY <1>3, <1>4

\* render_histogram turns bands into running totals: the i-th is the number of
\* durations up to the i-th bound.
LEMMA Rendered ==
    ASSUME NEW s \in Seq(Record), NEW T \in SUBSET Record, NEW hist,
           \A i \in DOMAIN BUCKETS : hist.counts[i] = Tally(s, {r \in T : r.duration \in Band(i)})
    PROVE  /\ \A i \in DOMAIN BUCKETS :
                render_histogram(hist)[i] = Tally(s, {r \in T : r.duration <= BUCKETS[i]})
           /\ render_histogram(hist)[Len(BUCKETS) + 1] = hist.count
<1> DEFINE n == Len(BUCKETS)
           Up(i) == {r \in T : i # 0 /\ r.duration <= BUCKETS[i]}
           In(i) == {r \in T : r.duration \in Band(i)}
           total == CHOOSE f : f = [i \in 0..n |-> IF i = 0 THEN 0 ELSE f[i - 1] + hist.counts[i]]
           up == [i \in 0..n |-> Tally(s, Up(i))]
<1>1. n \in Nat /\ DOMAIN BUCKETS = 1..n /\ \A i \in 1..n : BUCKETS[i] \in Nat
  BY BucketsAssumption
<1>2. \A r \in T : r.duration \in Nat
  BY RecordAssumption
<1>3. ASSUME NEW i \in 1..n PROVE Up(i) = Up(i - 1) \cup In(i) /\ Up(i - 1) \cap In(i) = {}
  <2>1. i - 1 # 0 => i - 1 \in 1..n /\ i - 1 \in 1..i - 1 /\ BUCKETS[i - 1] < BUCKETS[i]
    <3>1. i - 1 # 0 => i - 1 \in 1..n /\ i - 1 \in 1..i - 1 /\ i - 1 < i
      BY <1>1
    <3> QED BY <1>1, <3>1, BucketsAssumption, Zenon
  <2>2. ASSUME NEW d \in Nat, d <= BUCKETS[i], i - 1 # 0 => ~(d <= BUCKETS[i - 1])
        PROVE  d \in Band(i)
    <3>1. ASSUME NEW j \in 1..i - 1 PROVE ~(d <= BUCKETS[j])
      <4>1. i - 1 # 0 /\ j \in 1..n /\ BUCKETS[j] <= BUCKETS[i - 1]
        <5>1. i - 1 \in 1..n /\ i - 1 # 0 /\ j \in 1..n /\ (j = i - 1 \/ j < i - 1)
          BY <1>1
        <5>2. j < i - 1 => BUCKETS[j] < BUCKETS[i - 1]
          BY <1>1, <5>1, BucketsAssumption, Zenon
        <5> QED BY <1>1, <5>1, <5>2
      <4> QED BY <1>1, <2>1, <2>2, <4>1
    <3> QED BY <2>2, <3>1 DEF Band
  <2>3. ASSUME NEW d \in Nat, d \in Band(i)
        PROVE  d <= BUCKETS[i] /\ (i - 1 # 0 => ~(d <= BUCKETS[i - 1]))
    BY <2>1, <2>3 DEF Band
  <2>4. ASSUME NEW d \in Nat, i - 1 # 0, d <= BUCKETS[i - 1] PROVE d <= BUCKETS[i]
    BY <1>1, <2>1, <2>4
  <2>5. i # 0
    OBVIOUS
  <2> QED BY <1>2, <2>2, <2>3, <2>4, <2>5, Zenon
<1>4. ASSUME NEW i \in 1..n PROVE Tally(s, Up(i)) = Tally(s, Up(i - 1)) + hist.counts[i]
  <2>1. hist.counts[i] = Tally(s, In(i))
    BY <1>1, Zenon
  <2> HIDE DEF Up, In
  <2> QED BY <1>3, <2>1, TallyUnion
<1>5. Tally(s, Up(0)) = 0
  BY TallyNone
<1>6. up = [i \in 0..n |-> IF i = 0 THEN 0 ELSE up[i - 1] + hist.counts[i]]
  <2> HIDE DEF Up
  <2>1. ASSUME NEW i \in 0..n
        PROVE  up[i] = IF i = 0 THEN 0 ELSE up[i - 1] + hist.counts[i]
    <3>1. CASE i = 0
      BY <1>5, <3>1
    <3>2. CASE i # 0
      <4>1. i \in 1..n /\ i - 1 \in 0..n
        BY <1>1, <3>2
      <4> QED BY <1>4, <3>2, <4>1
    <3> QED BY <3>1, <3>2
  <2> QED BY <2>1
<1> HIDE DEF up
<1>7. total = [i \in 0..n |-> IF i = 0 THEN 0 ELSE total[i - 1] + hist.counts[i]]
  BY <1>6, Zenon
<1>8. render_histogram(hist) = Append([i \in DOMAIN BUCKETS |-> total[i]], hist.count)
  BY DEF render_histogram
<1> HIDE DEF total
<1>9. \A i \in 0..n : total[i] = up[i]
  <2> DEFINE S == {i \in 0..n : total[i] = up[i]}
  <2>1. 0 \in S
    BY <1>1, <1>6, <1>7
  <2>2. ASSUME NEW i \in 1..n, i - 1 \in S PROVE i \in S
    <3>1. i \in 0..n /\ i # 0 /\ total[i - 1] = up[i - 1]
      BY <1>1, <2>2
    <3>2. total[i] = total[i - 1] + hist.counts[i] /\ up[i] = up[i - 1] + hist.counts[i]
      BY <1>6, <1>7, <3>1, Zenon
    <3> QED BY <3>1, <3>2
  <2> HIDE DEF S
  <2>3. \A i \in 0..n : i \in S
    BY <1>1, <2>1, <2>2, UpTo, Zenon
  <2> QED BY <2>3 DEF S
<1>10. ASSUME NEW i \in DOMAIN BUCKETS
       PROVE  total[i] = Tally(s, {r \in T : r.duration <= BUCKETS[i]})
  <2>1. i \in 0..n /\ i # 0
    BY <1>1
  <2>2. total[i] = Tally(s, Up(i))
    BY <1>9, <2>1 DEF up
  <2>3. Up(i) = {r \in T : r.duration <= BUCKETS[i]}
    BY <2>1
  <2> QED BY <2>2, <2>3, Zenon
<1>11. \A i \in DOMAIN BUCKETS : total[i] \in Nat
  BY <1>10, TallyType, Zenon
<1> DEFINE totals == [i \in 1..n |-> total[i]]
<1>12. totals \in Seq(Nat) /\ Len(totals) = n
  BY <1>1, <1>11
<1>13. /\ \A i \in 1..n : Append(totals, hist.count)[i] = total[i]
       /\ Append(totals, hist.count)[n + 1] = hist.count
  BY <1>1, <1>12
<1> QED BY <1>1, <1>8, <1>10, <1>13, Zenon

-----------------------------------------------------------------------------
(* Metrics: the registry.                                                   *)

\* The records of a mode and an action.
Of(k) == {r \in Record : <<r.mode, r.action>> = k}

\* hematite_requests_total: every record is in the counter of its labels.
RequestsInv ==
    /\ \A i \in DOMAIN observed : Labels(observed[i]) \in DOMAIN registry.requests
    /\ \A k \in DOMAIN registry.requests :
         registry.requests[k] = Tally(observed, {r \in Record : Labels(r) = k})

\* A histogram holds the number of its records, band by band.
Tells(hist, s, k) ==
    /\ hist.counts \in [DOMAIN BUCKETS -> Nat]
    /\ \A i \in DOMAIN BUCKETS :
         hist.counts[i] = Tally(s, {r \in Of(k) : r.duration \in Band(i)})
    /\ hist.count = Tally(s, Of(k))

\* hematite_request_duration_seconds: every record is in its histogram.
DurationInv ==
    /\ \A i \in DOMAIN observed :
         <<observed[i].mode, observed[i].action>> \in DOMAIN registry.duration
    /\ \A k \in DOMAIN registry.duration : Tells(registry.duration[k], observed, k)

\* hematite_secrets_swaps_total, result missing-required.
SecretsInv ==
    /\ "missing_required" \in DOMAIN registry.secrets
    /\ registry.secrets.missing_required =
         Tally(observed, {r \in Record : r.rejected_by = "secrets"})

\* The inductive invariant: bands, where MetricsAgree has running totals.
MetricsInv == observed \in Seq(Record) /\ RequestsInv /\ DurationInv /\ SecretsInv

\* A histogram that was never observed tells of no record.
LEMMA NewTells ==
    ASSUME NEW s \in Seq(Record), NEW k, \A i \in DOMAIN s : s[i] \notin Of(k)
    PROVE  Tells(new, s, k)
<1>1. Tally(s, Of(k)) = 0 /\ new.count = 0
  BY TallyNone DEF new
<1>2. new.counts \in [DOMAIN BUCKETS -> Nat] /\ \A i \in DOMAIN BUCKETS : new.counts[i] = 0
  BY DEF new
<1>3. \A i \in DOMAIN BUCKETS : Tally(s, {r \in Of(k) : r.duration \in Band(i)}) = 0
  BY TallyNone
<1> QED BY <1>1, <1>2, <1>3 DEF Tells

\* Histogram::observe on the histogram of the record's mode and action.
LEMMA ObserveTells ==
    ASSUME NEW s \in Seq(Record), NEW r \in Record, NEW hist, NEW k, Tells(hist, s, k)
    PROVE  /\ <<r.mode, r.action>> = k => Tells(observe(hist, r.duration), Append(s, r), k)
           /\ <<r.mode, r.action>> # k => Tells(hist, Append(s, r), k)
<1> DEFINE h == observe(hist, r.duration)
           In(i) == {x \in Of(k) : x.duration \in Band(i)}
           t == Append(s, r)
<1>1. r.duration \in Nat
  BY RecordAssumption
<1>2. /\ hist.counts \in [DOMAIN BUCKETS -> Nat] /\ hist.count = Tally(s, Of(k))
      /\ \A i \in DOMAIN BUCKETS : hist.counts[i] = Tally(s, In(i))
  BY DEF Tells
<1>3. \A S : Tally(t, S) = Tally(s, S) + IF r \in S THEN 1 ELSE 0
  BY TallyAppend
<1>4. \A S : Tally(s, S) \in Nat
  BY TallyType, Zenon
<1> HIDE DEF t
<1>5. CASE <<r.mode, r.action>> = k
  <2>1. r \in Of(k) /\ \A i : r \in In(i) <=> r.duration \in Band(i)
    BY <1>5 DEF Of
  <2>2. /\ h.count = hist.count + 1 /\ h.counts \in [DOMAIN BUCKETS -> Nat]
        /\ \A i \in DOMAIN BUCKETS :
             h.counts[i] = hist.counts[i] + IF r.duration \in Band(i) THEN 1 ELSE 0
    BY <1>1, <1>2, ObserveBand, Zenon
  <2> HIDE DEF h, In
  <2>3. h.count = Tally(t, Of(k))
    BY <1>2, <1>3, <2>1, <2>2
  <2>4. \A i \in DOMAIN BUCKETS : h.counts[i] = Tally(t, In(i))
    BY <1>2, <1>3, <2>1, <2>2
  <2> QED BY <1>5, <2>2, <2>3, <2>4, Zenon DEF Tells, t, h, In
<1>6. CASE <<r.mode, r.action>> # k
  <2>1. r \notin Of(k) /\ \A i : r \notin In(i)
    BY <1>6 DEF Of
  <2> HIDE DEF In
  <2>2. \A S : r \notin S => Tally(t, S) = Tally(s, S)
    BY <1>3, <1>4
  <2>3. Tally(t, Of(k)) = Tally(s, Of(k)) /\ \A i : Tally(t, In(i)) = Tally(s, In(i))
    BY <2>1, <2>2
  <2> QED BY <1>2, <1>6, <2>3, Zenon DEF Tells, t, In
<1> QED BY <1>5, <1>6

\* A record adds one to missing_required if it was rejected by secrets: the
\* last of its traces says so, and no other one does.
LEMMA OneMissing ==
    ASSUME NEW r \in Record
    PROVE  swaps_of(r).missing_required = IF r.rejected_by = "secrets" THEN 1 ELSE 0
<1> DEFINE traces == r.request_transforms
           n == Len(traces)
           M == {i \in {j \in DOMAIN traces : traces[j].name = "secrets"} :
                    r.rejected_by = "secrets" /\ traces[i].verdict = "reject"}
<1>1. swaps_of(r).missing_required = Cardinality(M)
  BY DEF swaps_of
<1>2. /\ n \in Nat /\ DOMAIN traces = 1..n
      /\ \A i \in DOMAIN traces : traces[i].verdict = "reject" => i = n
      /\ r.rejected_by = "secrets" =>
           n > 0 /\ traces[n].name = "secrets" /\ traces[n].verdict = "reject"
  BY RecordAssumption
<1>3. CASE r.rejected_by = "secrets"
  <2>1. n \in DOMAIN traces
    BY <1>2, <1>3
  <2>2. M = {n}
    BY <1>2, <1>3, <2>1, Zenon
  <2> QED BY <1>1, <1>3, <2>2, FS_Singleton, Zenon
<1>4. CASE r.rejected_by # "secrets"
  <2>1. M = {}
    BY <1>4
  <2> QED BY <1>1, <1>4, <2>1, FS_EmptySet
<1> QED BY <1>3, <1>4

\* Metrics::new and every record emitted keep the registry in agreement with
\* the records since the start.
THEOREM MetricsInvariant == MetricsSpec => []MetricsInv
<1>1. ASSUME registry = empty, observed = <<>> PROVE MetricsInv
  <2>1. observed \in Seq(Record) /\ DOMAIN observed = {}
    BY <1>1
  <2>2. /\ DOMAIN registry.requests = {} /\ DOMAIN registry.duration = {}
        /\ "missing_required" \in DOMAIN registry.secrets
        /\ registry.secrets.missing_required = 0
    BY <1>1 DEF empty
  <2>3. Tally(observed, {r \in Record : r.rejected_by = "secrets"}) = 0
    BY <2>1, TallyNone, Zenon
  <2> QED BY <2>1, <2>2, <2>3 DEF MetricsInv, RequestsInv, DurationInv, SecretsInv
<1>2. ASSUME MetricsInv, NEW record \in Record, Emit(record) PROVE MetricsInv'
  <2> DEFINE req == Labels(record)
             dur == <<record.mode, record.action>>
             n == Len(observed) + 1
  <2>1. observed \in Seq(Record) /\ observed' = Append(observed, record)
    BY <1>2 DEF MetricsInv, Emit
  <2>2. /\ observed' \in Seq(Record) /\ observed'[n] = record
        /\ \A i \in DOMAIN observed' : i = n \/ i \in DOMAIN observed
        /\ \A i \in DOMAIN observed : observed'[i] = observed[i]
    BY <2>1
  <2>3. registry' = observe_record(registry, record)
    BY <1>2 DEF Emit
  <2>4. \A S : Tally(observed', S) = Tally(observed, S) + IF record \in S THEN 1 ELSE 0
    BY <2>1, TallyAppend
  <2>5. \A S : Tally(observed, S) \in Nat
    BY <2>1, TallyType, Zenon
  <2>6. RequestsInv'
    <3> DEFINE old == registry.requests
               S(k) == {r \in Record : Labels(r) = k}
    <3>1. registry'.requests = [k \in DOMAIN old \cup {req} |->
             (IF k \in DOMAIN old THEN old[k] ELSE 0) + (IF k = req THEN 1 ELSE 0)]
      BY <2>3 DEF observe_record
    <3>2. /\ \A i \in DOMAIN observed : Labels(observed[i]) \in DOMAIN old
          /\ \A k \in DOMAIN old : old[k] = Tally(observed, S(k))
      BY <1>2 DEF MetricsInv, RequestsInv
    <3> HIDE DEF old, req
    <3>3. DOMAIN registry'.requests = DOMAIN old \cup {req}
      BY <3>1
    <3>4. \A i \in DOMAIN observed' : Labels(observed'[i]) \in DOMAIN registry'.requests
      <4>1. Labels(record) = req
        BY DEF req
      <4> QED BY <2>2, <3>2, <3>3, <4>1, Zenon
    <3>5. ASSUME NEW k \in DOMAIN registry'.requests
          PROVE  registry'.requests[k] = Tally(observed', S(k))
      <4>1. record \in S(k) <=> k = req
        BY DEF req
      <4>2. (IF k \in DOMAIN old THEN old[k] ELSE 0) = Tally(observed, S(k))
        <5>1. CASE k \in DOMAIN old
          BY <3>2, <5>1
        <5>2. CASE k \notin DOMAIN old
          <6>1. \A i \in DOMAIN observed : observed[i] \notin S(k)
            BY <3>2, <5>2
          <6> HIDE DEF S
          <6>2. Tally(observed, S(k)) = 0
            BY <2>1, <6>1, TallyNone
          <6> QED BY <5>2, <6>2
        <5> QED BY <5>1, <5>2
      <4>3. registry'.requests[k] = (IF k \in DOMAIN old THEN old[k] ELSE 0)
                                      + (IF k = req THEN 1 ELSE 0)
        BY <3>1, <3>3
      <4> HIDE DEF S
      <4> QED BY <2>4, <4>1, <4>2, <4>3
    <3> QED BY <3>4, <3>5 DEF RequestsInv
  <2>7. DurationInv'
    <3> DEFINE old == registry.duration
               hist(k) == IF k \in DOMAIN old THEN old[k] ELSE new
    <3>1. registry'.duration = [k \in DOMAIN old \cup {dur} |->
             IF k = dur THEN observe(hist(k), record.duration) ELSE hist(k)]
      BY <2>3, Zenon DEF observe_record
    <3>2. /\ \A i \in DOMAIN observed : <<observed[i].mode, observed[i].action>> \in DOMAIN old
          /\ \A k \in DOMAIN old : Tells(old[k], observed, k)
      BY <1>2 DEF MetricsInv, DurationInv
    <3> HIDE DEF old, dur
    <3>3. DOMAIN registry'.duration = DOMAIN old \cup {dur}
      BY <3>1
    <3>4. \A i \in DOMAIN observed' :
            <<observed'[i].mode, observed'[i].action>> \in DOMAIN registry'.duration
      <4>1. <<record.mode, record.action>> = dur
        BY DEF dur
      <4> QED BY <2>2, <3>2, <3>3, <4>1, Zenon
    <3>5. ASSUME NEW k \in DOMAIN registry'.duration
          PROVE  Tells(registry'.duration[k], observed', k)
      <4>1. Tells(hist(k), observed, k)
        <5>1. CASE k \in DOMAIN old
          BY <3>2, <5>1
        <5>2. CASE k \notin DOMAIN old
          <6>1. \A i \in DOMAIN observed : observed[i] \notin Of(k)
            BY <3>2, <5>2 DEF Of
          <6>2. Tells(new, observed, k)
            BY <2>1, <6>1, NewTells
          <6> QED BY <5>2, <6>2
        <5> QED BY <5>1, <5>2
      <4>2. registry'.duration[k] =
              IF k = dur THEN observe(hist(k), record.duration) ELSE hist(k)
        BY <3>1, <3>3
      <4> HIDE DEF hist
      <4>3. /\ dur = k => Tells(observe(hist(k), record.duration), observed', k)
            /\ dur # k => Tells(hist(k), observed', k)
        BY <2>1, <4>1, ObserveTells DEF dur
      <4> QED BY <4>2, <4>3
    <3> QED BY <3>4, <3>5 DEF DurationInv
  <2>8. SecretsInv'
    <3> DEFINE old == registry.secrets
               S == {r \in Record : r.rejected_by = "secrets"}
               more == swaps_of(record)
    <3>1. registry'.secrets = [k \in DOMAIN old |-> old[k] + more[k]]
      BY <2>3 DEF observe_record, add
    <3>2. "missing_required" \in DOMAIN old /\ old.missing_required = Tally(observed, S)
      BY <1>2 DEF MetricsInv, SecretsInv
    <3>3. more.missing_required = IF record \in S THEN 1 ELSE 0
      BY OneMissing
    <3> HIDE DEF old, S, more
    <3>4. /\ "missing_required" \in DOMAIN registry'.secrets
          /\ registry'.secrets.missing_required = old.missing_required + more.missing_required
      BY <3>1, <3>2
    <3>5. registry'.secrets.missing_required = Tally(observed', S)
      BY <2>4, <3>2, <3>3, <3>4
    <3> QED BY <3>4, <3>5 DEF SecretsInv, S
  <2> QED BY <2>2, <2>6, <2>7, <2>8 DEF MetricsInv
<1>3. MetricsInit => MetricsInv
  BY <1>1 DEF MetricsInit
<1>4. MetricsInv /\ [MetricsNext]_metrics_vars => MetricsInv'
  <2> SUFFICES ASSUME MetricsInv, [MetricsNext]_metrics_vars
               PROVE  MetricsInv'
    OBVIOUS
  <2>1. CASE UNCHANGED metrics_vars
    BY <2>1 DEF metrics_vars, MetricsInv, RequestsInv, DurationInv, SecretsInv
  <2>2. CASE Restart
    <3>1. (registry = empty /\ observed = <<>> => MetricsInv)'
      BY <1>1, PTL
    <3> QED BY <2>2, <3>1 DEF Restart
  <2>3. CASE \E record \in Record : Emit(record)
    BY <1>2, <2>3
  <2> QED BY <2>1, <2>2, <2>3 DEF MetricsNext
<1> QED BY <1>3, <1>4, PTL DEF MetricsSpec

\* The metric families tell one story of the records emitted, for any bounds
\* of the buckets and any records.
THEOREM MetricsTrue == MetricsSpec => []MetricsAgree
<1>1. ASSUME MetricsInv PROVE MetricsAgree
  <2>1. observed \in Seq(Record) /\ \A S : Emitted(S) = Tally(observed, S)
    BY <1>1 DEF MetricsInv, Emitted, Tally
  <2>2. ASSUME NEW k \in DOMAIN registry.duration
        PROVE  /\ \A i \in DOMAIN BUCKETS :
                    render_histogram(registry.duration[k])[i] =
                        Emitted({r \in Of(k) : r.duration <= BUCKETS[i]})
               /\ render_histogram(registry.duration[k])[Len(BUCKETS) + 1] = Emitted(Of(k))
    <3>1. Of(k) \in SUBSET Record
      BY DEF Of
    <3>2. /\ \A i \in DOMAIN BUCKETS : registry.duration[k].counts[i] =
                Tally(observed, {r \in Of(k) : r.duration \in Band(i)})
          /\ registry.duration[k].count = Tally(observed, Of(k))
      BY <1>1 DEF MetricsInv, DurationInv, Tells
    <3>3. /\ \A i \in DOMAIN BUCKETS : render_histogram(registry.duration[k])[i] =
                Tally(observed, {r \in Of(k) : r.duration <= BUCKETS[i]})
          /\ render_histogram(registry.duration[k])[Len(BUCKETS) + 1] = registry.duration[k].count
      BY <2>1, <3>1, <3>2, Rendered, Zenon
    <3> QED BY <2>1, <3>2, <3>3, Zenon
  <2>3. /\ \A k \in DOMAIN registry.requests :
             registry.requests[k] = Emitted({r \in Record : Labels(r) = k})
        /\ registry.secrets.missing_required = Emitted({r \in Record : r.rejected_by = "secrets"})
    BY <1>1, <2>1 DEF MetricsInv, RequestsInv, SecretsInv
  <2>4. \A i \in DOMAIN observed :
          /\ Labels(observed[i]) \in DOMAIN registry.requests
          /\ <<observed[i].mode, observed[i].action>> \in DOMAIN registry.duration
    BY <1>1 DEF MetricsInv, RequestsInv, DurationInv
  <2> QED BY <2>2, <2>3, <2>4, Zenon DEF MetricsAgree, Of
<1> QED BY <1>1, MetricsInvariant, PTL
=============================================================================
