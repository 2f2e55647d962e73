-------------------------- MODULE SecretResolver --------------------------
(***************************************************************************)
(* The caching secret resolver of hematite-proxy (resolver.rs              *)
(* `EnvFileResolver`): success is cached for the source's ttl, failure for *)
(* its failure_ttl, and a failed refresh serves the stale value and is     *)
(* tried again after half a ttl.                                           *)
(*                                                                         *)
(* Threads call `resolve` concurrently.  A call reads the clock before it  *)
(* takes the cache lock, so calls may be served in another order than      *)
(* their clock readings; all the rest happens under the lock.  What the    *)
(* sources hold changes at any time.                                       *)
(***************************************************************************)
EXTENDS Integers

CONSTANTS
    Thread,      \* concurrent callers
    Source,      \* the SourceRefs of the configuration
    Name,        \* environment variables and file paths, tagged by kind
    JsonKey,     \* json_keys, with a member for "no json_key"
    NameOf,      \* NameOf[s]: the kind and name of source s
    JsonKeyOf,   \* JsonKeyOf[s]: its json_key
    Ttl,         \* Ttl[s]: its ttl in ms, or Forever
    FailureTtl,  \* FailureTtl[s]: its failure_ttl in ms
    Rotating,    \* the keys that change while the proxy runs: no variable does
    Value,       \* values of secrets
    Bad,         \* what a source holds that cannot be resolved
    Forever,     \* no ttl
    None,        \* no entry, no source
    MaxTime      \* the horizon of the model, in ms

\* What a source reads: a value inside a variable or file.
Key == Name \X JsonKey

ASSUME SourceAssumption ==
    /\ NameOf \in [Source -> Name] /\ JsonKeyOf \in [Source -> JsonKey]
    /\ Rotating \subseteq Key
ASSUME TtlAssumption ==
    /\ Ttl \in [Source -> Nat \cup {Forever}]
    /\ FailureTtl \in [Source -> Nat]
    /\ Forever \notin Nat
    /\ MaxTime \in Nat
ASSUME ValueAssumption == Bad \notin Value /\ None \notin Source

\* A cached success always has a value, a cached failure never has one.
Entry ==
    [value : Value, stamp : Nat, ok : {TRUE}] \cup [value : {Bad}, stamp : Nat, ok : {FALSE}]
NoEntry == [value |-> Bad, stamp |-> 0, ok |-> FALSE]

VARIABLES
    clock,     \* MonotonicClock, in ms
    holds,     \* holds[k]: what reading k gives, Bad if reading fails
    present,   \* the keys that have a cache entry
    cache,     \* cache[k]: the entry, if there is one
    pending,   \* pending[t]: the source thread t is resolving, or None
    now,       \* now[t]: the clock as t's call read it
    answer,    \* what the call that ends in this step returns, Bad for an error
    changed,   \* history: when holds[k] last changed
    had,       \* history: the values k has held
    failed     \* history: when the last refresh of k failed, or -1

history == <<changed, had, failed>>
vars == <<clock, holds, present, cache, pending, now, answer, history>>

Identity(s) == <<NameOf[s], JsonKeyOf[s]>>

\* Fault: the cache is keyed on the path alone.
cache_key_path(s) == <<NameOf[s], CHOOSE j \in JsonKey : TRUE>>

cache_key(s) == <<NameOf[s], JsonKeyOf[s]>>

TypeOK ==
    /\ clock \in Nat
    /\ holds \in [Key -> Value \cup {Bad}]
    /\ present \in SUBSET Key
    /\ cache \in [Key -> Entry]
    /\ pending \in [Thread -> Source \cup {None}]
    /\ now \in [Thread -> Nat]
    /\ answer \in Value \cup {Bad}
    /\ changed \in [Key -> Nat]
    /\ had \in [Key -> SUBSET Value]
    /\ failed \in [Key -> Nat \cup {-1}]

Init ==
    /\ clock = 0
    /\ holds \in [Key -> Value \cup {Bad}]
    /\ present = {}
    /\ cache = [k \in Key |-> NoEntry]
    /\ pending = [t \in Thread |-> None]
    /\ now = [t \in Thread |-> 0]
    /\ answer = Bad
    /\ changed = [k \in Key |-> 0]
    /\ had = [k \in Key |-> {holds[k]} \ {Bad}]
    /\ failed = [k \in Key |-> -1]

-----------------------------------------------------------------------------
(* The environment.                                                         *)

Tick ==
    /\ clock < MaxTime
    /\ clock' = clock + 1
    /\ answer' = Bad
    /\ UNCHANGED <<holds, present, cache, pending, now, history>>

\* A file is written, removed, or loses a field.
Rotate(k, v) ==
    /\ k \in Rotating /\ v # holds[k]
    /\ holds' = [holds EXCEPT ![k] = v]
    /\ changed' = [changed EXCEPT ![k] = clock]
    /\ had' = [had EXCEPT ![k] = @ \cup ({v} \ {Bad})]
    /\ answer' = Bad
    /\ UNCHANGED <<clock, present, cache, pending, now, failed>>

-----------------------------------------------------------------------------
(* resolve.                                                                 *)

\* u64::saturating_sub
saturating_sub(a, b) == IF a >= b THEN a - b ELSE 0

\* EnvFileResolver::read with apply_json_key
read(s) == holds[Identity(s)]

Begin(t, s) ==
    /\ pending[t] = None
    /\ pending' = [pending EXCEPT ![t] = s]
    /\ now' = [now EXCEPT ![t] = clock]
    /\ answer' = Bad
    /\ UNCHANGED <<clock, holds, present, cache, history>>

Return(t, value) ==
    /\ pending' = [pending EXCEPT ![t] = None]
    /\ now' = [now EXCEPT ![t] = 0]
    /\ answer' = value
    /\ UNCHANGED <<clock, holds, changed, had>>

Insert(k, value, stamp, ok) ==
    /\ present' = present \cup {k}
    /\ cache' = [cache EXCEPT ![k] = [value |-> value, stamp |-> stamp, ok |-> ok]]

\* Fault: an entry lives one millisecond longer than its ttl.
fresh_late(s, n) ==
    Ttl[s] # Forever => saturating_sub(n, cache[cache_key(s)].stamp) <= Ttl[s]

\* A cached success that is still good at time n.
fresh(s, n) ==
    Ttl[s] # Forever => saturating_sub(n, cache[cache_key(s)].stamp) < Ttl[s]

\* Fault: the ttl also decides how long a failure is held.
held_by_ttl(s, n) ==
    Ttl[s] # Forever => saturating_sub(n, cache[cache_key(s)].stamp) < Ttl[s]

\* A cached failure that is still held at time n.
held(s, n) == saturating_sub(n, cache[cache_key(s)].stamp) < FailureTtl[s]

\* The cached state answers the call.
Hit(t, s) ==
    LET k == cache_key(s) IN
    /\ k \in present
    /\ IF cache[k].ok THEN fresh(s, now[t]) ELSE held(s, now[t])
    /\ Return(t, IF cache[k].ok THEN cache[k].value ELSE Bad)
    /\ UNCHANGED <<present, cache, failed>>

\* No entry, an expired one, or an expired failure: the source is read.
ReadOk(t, s) ==
    LET k == cache_key(s) IN
    /\ k \in present => IF cache[k].ok THEN ~fresh(s, now[t]) ELSE ~held(s, now[t])
    /\ read(s) # Bad
    /\ Insert(k, read(s), now[t], TRUE)
    /\ failed' = [failed EXCEPT ![k] = -1]
    /\ Return(t, read(s))

\* Fault: a failed refresh is scheduled for a full ttl later.
retry_full(s, n) == n

\* Half a ttl is counted as elapsed already when a refresh fails.
retry_stamp(s, n) == IF Ttl[s] = Forever THEN n ELSE saturating_sub(n, Ttl[s] \div 2)

\* Fault: a failed refresh forgets the value.
ForgetStale(t, s) ==
    LET k == cache_key(s) IN
    /\ k \in present /\ cache[k].ok /\ ~fresh(s, now[t])
    /\ read(s) = Bad
    /\ Insert(k, Bad, now[t], FALSE)
    /\ failed' = [failed EXCEPT ![k] = now[t]]
    /\ Return(t, Bad)

\* A refresh that fails after a prior success.
ServeStale(t, s) ==
    LET k == cache_key(s) IN
    /\ k \in present /\ cache[k].ok /\ ~fresh(s, now[t])
    /\ read(s) = Bad
    /\ Insert(k, cache[k].value, retry_stamp(s, now[t]), TRUE)
    /\ failed' = [failed EXCEPT ![k] = now[t]]
    /\ Return(t, cache[k].value)

\* A first read that fails, or one after a failure that expired.
ReadFails(t, s) ==
    LET k == cache_key(s) IN
    /\ k \in present => ~cache[k].ok /\ ~held(s, now[t])
    /\ read(s) = Bad
    /\ Insert(k, Bad, now[t], FALSE)
    /\ Return(t, Bad)
    /\ UNCHANGED failed

\* resolve, from taking the lock to releasing it.
Resolve(t) ==
    /\ pending[t] # None
    /\ LET s == pending[t] IN
       Hit(t, s) \/ ReadOk(t, s) \/ ServeStale(t, s) \/ ReadFails(t, s)

Next ==
    \/ Tick
    \/ \E k \in Key, v \in Value \cup {Bad} : Rotate(k, v)
    \/ \E t \in Thread : Resolve(t) \/ \E s \in Source : Begin(t, s)

Spec == Init /\ [][Next]_vars

-----------------------------------------------------------------------------
(* Properties.  A call returns in the step that clears `pending`.           *)

Returns(t) == pending[t] # None /\ pending'[t] = None

Authentic ==
    \A t \in Thread : Returns(t) /\ answer' # Bad => answer' \in had[Identity(pending[t])]

\* Every value a call returns was at some time the value of exactly what its
\* source names: no json_key or file answers for another.
ValueGenuine == [][Authentic]_vars

Current ==
    \A t \in Thread : Returns(t) =>
         LET s == pending[t]
             k == Identity(s)
         IN  holds[k] # Bad /\ Ttl[s] # Forever /\ cache[k].ok
                 /\ now[t] >= changed[k] + Ttl[s]
             => answer' = holds[k]

\* A rotated secret is picked up within its ttl: when the source can be read
\* and has not changed for a ttl, a call returns what it holds now, however
\* calls overtook one another and whatever failed before.
PicksUpRotation == [][Current]_vars

Recovered ==
    \A t \in Thread : Returns(t) =>
         LET s == pending[t]
             k == Identity(s)
         IN  holds[k] # Bad /\ now[t] >= changed[k] + FailureTtl[s]
             => answer' # Bad

\* A long ttl never delays recovery: when the source has been readable for a
\* failure_ttl, no call fails.
RecoversFromFailure == [][Recovered]_vars

Remembered ==
    /\ \A k \in present : cache[k].ok => k \in present' /\ cache'[k].ok
    /\ \A t \in Thread : Returns(t) /\ Identity(pending[t]) \in present
         /\ cache[Identity(pending[t])].ok => answer' # Bad

\* A secret that was resolved once is never unresolvable again, whatever
\* happens to its source: its entry stays a success and its calls succeed.
NeverForgets == [][Remembered]_vars

\* No source that shares the cache entry of s has a shorter ttl.
ShortestOfEntry(s) ==
    \A z \in Source : Identity(z) = Identity(s) /\ Ttl[z] # Forever => Ttl[s] <= Ttl[z]

Retried ==
    \A t \in Thread : Returns(t) =>
         LET s == pending[t]
             k == Identity(s)
         IN  failed[k] >= 0 /\ holds[k] # Bad /\ Ttl[s] # Forever /\ ShortestOfEntry(s)
                 /\ now[t] >= failed[k] + (Ttl[s] - Ttl[s] \div 2)
             => answer' = holds[k]

\* "serve the stale value and schedule a retry at ttl/2"
\* (spec/04-transforms.md:87-88): from half a ttl, rounded up, after a failed
\* refresh on, a call reads the source again and returns what a readable
\* source holds.  The retry time is kept in the shared entry, so of the
\* sources that differ in their ttl only, this is promised to the one with
\* the shortest.
RetriesAtHalfTtl == [][Retried]_vars
=============================================================================
