------------------------------ MODULE Metrics ------------------------------
(***************************************************************************)
(* The metrics registry of metrics.rs: what an audit record adds to the    *)
(* counter families, and how a histogram is kept and rendered.  A registry *)
(* has a counter for each set of labels and, for each pair of mode and     *)
(* action, a histogram.                                                    *)
(***************************************************************************)
EXTENDS Integers, Sequences, FiniteSets, FiniteSetsExt

CONSTANTS
    BUCKETS,      \* the upper bounds of the buckets, ascending
    Record,       \* the audit records
    MaxRecords    \* bound on how many are emitted

ASSUME BucketsAssumption ==
    /\ BUCKETS \in Seq(Nat)
    /\ \A i, j \in DOMAIN BUCKETS : i < j => BUCKETS[i] < BUCKETS[j]

\* A record has a mode, an action, a duration, rejected_by ("" if it was not
\* rejected) and a trace for each transform that ran.  As Pipeline has it, the
\* last transform alone may refuse, and is then the one that is named.
ASSUME RecordAssumption ==
    \A r \in Record :
        LET traces == r.request_transforms IN
        /\ r.duration \in Nat /\ Len(traces) \in Nat /\ DOMAIN traces = 1..Len(traces)
        /\ \A i \in DOMAIN traces : traces[i].verdict = "reject" => i = Len(traces)
        /\ r.rejected_by = "secrets" =>
             /\ Len(traces) > 0
             /\ traces[Len(traces)].name = "secrets" /\ traces[Len(traces)].verdict = "reject"

-----------------------------------------------------------------------------
(* Histograms.                                                              *)

new == [counts |-> [i \in DOMAIN BUCKETS |-> 0], sum |-> 0, count |-> 0]

\* Fault: every bucket the value fits in is incremented, and rendering adds
\* them up again.
observe_cumulative(hist, value) ==
    [counts |-> [i \in DOMAIN BUCKETS |->
                    hist.counts[i] + IF value <= BUCKETS[i] THEN 1 ELSE 0],
     sum |-> hist.sum + value,
     count |-> hist.count + 1]

\* Histogram::observe: the first bucket the value fits in, if any.
observe(hist, value) ==
    LET fits == {i \in DOMAIN BUCKETS : value <= BUCKETS[i]} IN
    [counts |-> IF fits = {} THEN hist.counts ELSE [hist.counts EXCEPT ![Min(fits)] = @ + 1],
     sum |-> hist.sum + value,
     count |-> hist.count + 1]

\* render_histogram: running totals, then the "+Inf" bucket.
render_histogram(hist) ==
    LET total[i \in 0..Len(BUCKETS)] == IF i = 0 THEN 0 ELSE total[i - 1] + hist.counts[i]
    IN Append([i \in DOMAIN BUCKETS |-> total[i]], hist.count)

-----------------------------------------------------------------------------
(* Records.                                                                 *)

\* What a record adds to hematite_secrets_swaps_total, by result: the traces
\* of secrets transforms are added up.
swaps_of(record) ==
    LET traces == record.request_transforms
        secrets == {i \in DOMAIN traces : traces[i].name = "secrets"}
    IN [swapped |-> MapThenSumSet(LAMBDA i : traces[i].swapped, secrets),
        source_error |-> MapThenSumSet(LAMBDA i : traces[i].unavailable, secrets),
        missing_required |->
            Cardinality({i \in secrets : /\ record.rejected_by = "secrets"
                                         /\ traces[i].verdict = "reject"})]

add(a, b) == [k \in DOMAIN a |-> a[k] + b[k]]

Labels(record) == <<record.mode, record.action, record.rejected_by>>

\* observe_record; it locks one family after the other, and increments of
\* several records commute.
observe_record(m, record) ==
    LET req_key == Labels(record)
        dur_key == <<record.mode, record.action>>
    IN [requests |-> [k \in DOMAIN m.requests \cup {req_key} |->
                         (IF k \in DOMAIN m.requests THEN m.requests[k] ELSE 0)
                            + (IF k = req_key THEN 1 ELSE 0)],
        duration |-> [k \in DOMAIN m.duration \cup {dur_key} |->
                         LET hist == IF k \in DOMAIN m.duration THEN m.duration[k] ELSE new IN
                         IF k = dur_key THEN observe(hist, record.duration) ELSE hist],
        secrets |-> add(m.secrets, swaps_of(record))]

\* Metrics::new
empty == [requests |-> <<>>, duration |-> <<>>,
          secrets |-> [swapped |-> 0, source_error |-> 0, missing_required |-> 0]]

-----------------------------------------------------------------------------
(* The registry.                                                            *)

VARIABLES
    registry,   \* Metrics
    observed    \* history: the records emitted since the start

metrics_vars == <<registry, observed>>

MetricsInit == registry = empty /\ observed = <<>>

\* MetricsSink::emit
Emit(record) ==
    /\ Len(observed) < MaxRecords
    /\ registry' = observe_record(registry, record)
    /\ observed' = Append(observed, record)

\* The process is started anew.
Restart == observed # <<>> /\ registry' = empty /\ observed' = <<>>

MetricsNext == Restart \/ \E record \in Record : Emit(record)

MetricsSpec == MetricsInit /\ [][MetricsNext]_metrics_vars

\* How many records emitted are in the set.
Emitted(records) == Cardinality({i \in DOMAIN observed : observed[i] \in records})

\* The families tell one story of the records emitted: a request counter is
\* the number of its records, a rendered bucket is the number of requests no
\* longer than its bound, every request is in the counters of its mode and
\* action and in their histogram alike, and the refusals of secrets are
\* counted once each however many traces a record has.
MetricsAgree ==
    /\ \A k \in DOMAIN registry.requests :
        registry.requests[k] = Emitted({r \in Record : Labels(r) = k})
    /\ \A i \in DOMAIN observed :
        /\ Labels(observed[i]) \in DOMAIN registry.requests
        /\ <<observed[i].mode, observed[i].action>> \in DOMAIN registry.duration
    /\ \A k \in DOMAIN registry.duration :
        LET of == {r \in Record : <<r.mode, r.action>> = k}
            rendered == render_histogram(registry.duration[k])
        IN /\ \A i \in DOMAIN BUCKETS :
                rendered[i] = Emitted({r \in of : r.duration <= BUCKETS[i]})
           /\ rendered[Len(BUCKETS) + 1] = Emitted(of)
    /\ registry.secrets.missing_required = Emitted({r \in Record : r.rejected_by = "secrets"})
=============================================================================
