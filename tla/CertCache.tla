----------------------------- MODULE CertCache -----------------------------
(***************************************************************************)
(* The per-hostname certificate cache of hematite-proxy (tls.rs            *)
(* `CertCache`): an LRU of minted leaves with single-flight minting.       *)
(*                                                                         *)
(* Every task is one call of `get`.  Tasks interleave at each of the two   *)
(* locks (`cache`, `inflight`) and at the await on the minter's channel.   *)
(* The channel of a flight is identified with the task that mints.         *)
(***************************************************************************)
EXTENDS Integers, Sequences, FiniteSets

CONSTANTS
    Task,       \* calls of get()
    Target,     \* host names and IP literals
    Capacity,   \* of the LRU
    Failed,     \* the outcome of a mint that produced nothing
    None        \* no value

ASSUME CapacityAssumption == Capacity \in Nat \ {0}
ASSUME NoneAssumption == None \notin Task /\ None \notin Target

\* A leaf is known by what it was minted for and by the call that minted it;
\* callers share it by reference.
Leaf == [target : Target, by : Task]
Result == Leaf \cup {Failed, None}

ASSUME LeafAssumption == None \notin Leaf \cup {Failed} /\ Failed \notin Leaf

VARIABLES
    pc,         \* pc[t]: where the call is
    target,     \* target[t]: its argument
    waits,      \* waits[t]: the minter whose channel t awaits
    made,       \* made[t]: what t's own mint produced (`published`)
    channel,    \* channel[t]: what the watch channel of t's flight says once
                \* its sender is gone; None while the sender lives
    result,     \* result[t]: what get() returned
    cache,      \* the LRU's map
    order,      \* the LRU's keys, most recently used first
    inflight    \* inflight[x]: the task minting for x

vars == <<pc, target, waits, made, channel, result, cache, order, inflight>>

PC == {"idle", "missed", "mint", "remove", "send", "await", "done"}

TypeOK ==
    /\ pc \in [Task -> PC]
    /\ target \in [Task -> Target \cup {None}]
    /\ waits \in [Task -> Task \cup {None}]
    /\ made \in [Task -> Result]
    /\ channel \in [Task -> Result]
    /\ result \in [Task -> Result]
    /\ cache \in [Target -> Leaf \cup {None}]
    /\ order \in Seq(Target)
    /\ inflight \in [Target -> Task \cup {None}]

Init ==
    /\ pc = [t \in Task |-> "idle"]
    /\ target = [t \in Task |-> None]
    /\ waits = [t \in Task |-> None]
    /\ made = [t \in Task |-> None]
    /\ channel = [t \in Task |-> None]
    /\ result = [t \in Task |-> None]
    /\ cache = [x \in Target |-> None]
    /\ order = <<>>
    /\ inflight = [x \in Target |-> None]

-----------------------------------------------------------------------------
(* lru::LruCache, as CertCache uses it.                                     *)

\* The key is unlinked from where it stands, and linked in front.
Promote(x) ==
    IF \E i \in DOMAIN order : order[i] = x
    THEN LET i == CHOOSE i \in DOMAIN order : order[i] = x
         IN  <<x>> \o (SubSeq(order, 1, i - 1) \o SubSeq(order, i + 1, Len(order)))
    ELSE <<x>> \o order

lru_get(x) ==
    /\ order' = Promote(x)
    /\ UNCHANGED cache

lru_put(x, leaf) ==
    LET keys == Promote(x)
        full == Len(keys) > Capacity
    IN  /\ order' = IF full THEN SubSeq(keys, 1, Capacity) ELSE keys
        /\ cache' = [y \in Target |->
                        IF y = x THEN leaf
                        ELSE IF full /\ y = keys[Len(keys)] THEN None
                        ELSE cache[y]]

-----------------------------------------------------------------------------
(* CertCache::get.                                                          *)

Return(t, value) ==
    /\ pc' = [pc EXCEPT ![t] = "done"]
    /\ result' = [result EXCEPT ![t] = value]

Goto(t, where) ==
    /\ pc' = [pc EXCEPT ![t] = where]
    /\ UNCHANGED result

\* Under the cache lock: a hit returns at once, and becomes most recent.
Lookup(t, x) ==
    /\ pc[t] = "idle"
    /\ target' = [target EXCEPT ![t] = x]
    /\ IF cache[x] # None
       THEN Return(t, cache[x]) /\ lru_get(x)
       ELSE Goto(t, "missed") /\ UNCHANGED <<cache, order>>
    /\ UNCHANGED <<waits, made, channel, inflight>>

\* Fault: every miss opens a flight of its own.
JoinAlone(t) ==
    LET x == target[t] IN
    /\ pc[t] = "missed"
    /\ inflight' = [inflight EXCEPT ![x] = t]
    /\ Goto(t, "mint")
    /\ UNCHANGED <<target, waits, made, channel, cache, order>>

\* Under the inflight lock: join the flight there is, or open one.
Join(t) ==
    LET x == target[t] IN
    /\ pc[t] = "missed"
    /\ IF inflight[x] # None
       THEN /\ waits' = [waits EXCEPT ![t] = inflight[x]]
            /\ Goto(t, "await")
            /\ UNCHANGED inflight
       ELSE /\ inflight' = [inflight EXCEPT ![x] = t]
            /\ Goto(t, "mint")
            /\ UNCHANGED waits
    /\ UNCHANGED <<target, made, channel, cache, order>>

\* The mint succeeds; the leaf is put under the cache lock.
Mint(t) ==
    LET leaf == [target |-> target[t], by |-> t] IN
    /\ pc[t] = "mint"
    /\ made' = [made EXCEPT ![t] = leaf]
    /\ lru_put(target[t], leaf)
    /\ Goto(t, "remove")
    /\ UNCHANGED <<target, waits, channel, inflight>>

\* The name is no dNSName, or key generation or signing fails.
MintFails(t) ==
    /\ pc[t] = "mint"
    /\ made' = [made EXCEPT ![t] = Failed]
    /\ Goto(t, "remove")
    /\ UNCHANGED <<target, waits, channel, cache, order, inflight>>

\* The mint panics (the leaf's validity leaves the range of dates): the sender
\* is dropped in unwinding, the inflight entry stays.
MintPanics(t) ==
    /\ pc[t] = "mint"
    /\ channel' = [channel EXCEPT ![t] = Failed]
    /\ Return(t, Failed)
    /\ UNCHANGED <<target, waits, made, cache, order, inflight>>

\* Under the inflight lock.
Remove(t) ==
    /\ pc[t] = "remove"
    /\ inflight' = [inflight EXCEPT ![target[t]] = None]
    /\ Goto(t, "send")
    /\ UNCHANGED <<target, waits, made, channel, cache, order>>

\* Fault: nothing is sent, and the sender is kept alive.
PublishNot(t) ==
    /\ pc[t] = "send"
    /\ Return(t, made[t])
    /\ UNCHANGED <<target, waits, made, channel, cache, order, inflight>>

\* tx.send(published), and the sender goes out of scope.
Publish(t) ==
    /\ pc[t] = "send"
    /\ channel' = [channel EXCEPT ![t] = made[t]]
    /\ Return(t, made[t])
    /\ UNCHANGED <<target, waits, made, cache, order, inflight>>

\* Fault: the waiter looks in the cache for the entry in front.
AwakeFront(t) ==
    /\ pc[t] = "await"
    /\ channel[waits[t]] # None
    /\ Return(t, IF order = <<>> THEN Failed ELSE cache[order[1]])
    /\ UNCHANGED <<target, waits, made, channel, cache, order, inflight>>

\* The value is there, or the sender is gone without one.
Awake(t) ==
    /\ pc[t] = "await"
    /\ channel[waits[t]] # None
    /\ Return(t, channel[waits[t]])
    /\ UNCHANGED <<target, waits, made, channel, cache, order, inflight>>

\* The connection that waits for its certificate goes away.
Cancel(t) ==
    /\ pc[t] = "await"
    /\ Return(t, None)
    /\ UNCHANGED <<target, waits, made, channel, cache, order, inflight>>

Step(t) ==
    \/ Join(t)
    \/ Mint(t) \/ MintFails(t) \/ MintPanics(t)
    \/ Remove(t)
    \/ Publish(t)
    \/ Awake(t)

Next ==
    \E t \in Task :
        \/ \E x \in Target : Lookup(t, x)
        \/ Step(t)
        \/ Cancel(t)

Spec == Init /\ [][Next]_vars

\* A task that can run is polled.  Nobody has to call get() or to give up.
FairSpec == Spec /\ \A t \in Task : WF_vars(Step(t))

-----------------------------------------------------------------------------
(* Properties.                                                              *)

\* Single flight: at no time are two tasks minting for the same target.
OneMinter ==
    \A t, u \in Task :
        pc[t] \in {"mint", "remove"} /\ pc[u] \in {"mint", "remove"}
            /\ target[t] = target[u] => t = u

\* Whichever way a leaf comes (cached, awaited or freshly minted), it is a
\* leaf for the host name the call asked for.
LeafForTarget ==
    \A t \in Task : result[t] \in Leaf => result[t].target = target[t]

\* A waiter that is served gets what its own flight produced, never the
\* outcome of another one; and it fails only if that flight failed.
WaiterServedByFlight ==
    \A t \in Task : waits[t] # None /\ result[t] # None =>
        /\ pc[waits[t]] = "done"
        /\ target[waits[t]] = target[t]
        /\ result[t] = result[waits[t]]

\* A call that waits for a flight returns, also when the mint fails or panics.
WaitersReturn ==
    \A t \in Task : pc[t] = "await" ~> pc[t] = "done"

-----------------------------------------------------------------------------
\* tls.rs:171 "concurrent misses for one target mint once", spec/05-listeners.md
\* :41 "concurrent misses for one hostname MUST mint once": two calls that
\* missed while the same flight was on do not both mint.  With room in the
\* cache and no mint failing, a target is minted once.
MintOnce ==
    (\A t \in Task : made[t] # Failed /\ channel[t] # Failed) =>
        \A t, u \in Task :
            made[t] \in Leaf /\ made[u] \in Leaf /\ target[t] = target[u] => t = u
=============================================================================
