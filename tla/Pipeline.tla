----------------------------- MODULE Pipeline -----------------------------
(***************************************************************************)
(* The kernel's pipeline (hematite-kernel: pipeline.rs, transforms.rs,     *)
(* secrets.rs) together with the checks a configuration has to pass to be  *)
(* built into one (kernel config.rs).                                      *)
(*                                                                         *)
(* A behaviour is one request going through one pipeline, a transform at a *)
(* time and inside the secrets transform a secret at a time, because every *)
(* secret is resolved anew and may fail.  Bytes are abstracted to what the *)
(* properties tell apart: a location of the request (a header's value, the *)
(* values of the query, the path, the body) is the set of proxy tokens and *)
(* credentials that occur in it, in the encoding of that location.         *)
(***************************************************************************)
EXTENDS Integers, Sequences

CONSTANTS
    Host,          \* host names
    Header,        \* header names, canonical
    Token,         \* proxy tokens
    Credential,    \* resolved values of secrets
    Configs,       \* the `transforms:` lists considered
    Requests       \* the requests considered

\* What a rule list matches: hosts, and whether a path glob spells a proxy
\* token, so that it fits the path only as the client sent it.
Rules == [hosts : SUBSET Host, literal : BOOLEAN]
\* match_headers as it is written in the file; names when it is a list.
MatchHeaders == [form : {"absent", "null", "empty", "list"}, names : SUBSET Header]
Secret == [token : Token, value : Credential, headers : MatchHeaders, query : BOOLEAN,
           path : BOOLEAN, body : BOOLEAN, require : BOOLEAN, rules : Rules]

Transform ==
    [name : {"allowlist"}, hosts : SUBSET Host, warn : BOOLEAN]
    \cup [name : {"annotate"}, rules : Rules, headers : SUBSET Header]
    \cup [name : {"header_allowlist"}, rules : Rules, all : BOOLEAN, headers : SUBSET Header]
    \cup [name : {"body_capture"}, rules : Rules]
    \cup [name : {"secrets"}, secrets : Seq(Secret)]

Content == SUBSET (Token \cup Credential)
RequestSummary == [host : Host, headers : [Header -> Content], query : Content,
                   path : Content, body : Content, overCap : BOOLEAN]

ASSUME DisjointAssumption == Token \cap Credential = {}
\* Clients hold tokens, not credentials.
ASSUME RequestsAssumption ==
    Requests \subseteq [host : Host, headers : [Header -> SUBSET Token], query : SUBSET Token,
                       path : SUBSET Token, body : SUBSET Token, overCap : BOOLEAN]
ASSUME ConfigsAssumption == Configs \subseteq Seq(Transform)

VARIABLES
    specs,         \* the transforms: list, as loaded
    req,           \* the request, rewritten in place
    at,            \* index of the transform whose turn it is
    sub,           \* inside a secrets transform: index of the secret
    traces,        \* request_traces: the name, the verdict and whatever of the
                   \* request the annotations repeat
    body_capture,  \* what the record's body_capture group repeats
    request_path,  \* the path as it goes into the record
    outcome,       \* "running" until the pipeline has decided
    applied        \* history: <<transform, secret>> of the swaps performed

vars == <<specs, req, at, sub, traces, body_capture, request_path, outcome, applied>>

TypeOK ==
    /\ specs \in Seq(Transform)
    /\ req \in RequestSummary
    /\ at \in 1..(Len(specs) + 1)
    /\ sub \in Nat
    /\ \A i \in DOMAIN traces :
            /\ traces[i].name = specs[i].name
            /\ traces[i].verdict \in {"continue", "reject", "error"}
            /\ traces[i].seen \in Content
    /\ body_capture \in Content
    /\ request_path \in Content
    /\ outcome \in {"running", "continue", "reject", "error"}
    /\ applied \subseteq (Nat \X Nat)

-----------------------------------------------------------------------------
(* Loading a configuration (build_pipeline_inner).                          *)

swaps_body(t) == t.name = "secrets" /\ \E j \in DOMAIN t.secrets : t.secrets[j].body
captures_body(t) == t.name = "body_capture"

\* The first body_capture does not follow the first body-matching secrets.
body_capture_ordering(ts) ==
    LET secrets_is == {i \in DOMAIN ts : swaps_body(ts[i])}
        capture_is == {i \in DOMAIN ts : captures_body(ts[i])}
    IN  capture_is # {} => \E c \in capture_is : \A i \in secrets_is : c < i

\* The headers the check thinks a secrets transform may rewrite.
secret_swap_headers(t) ==
    UNION {IF t.secrets[j].headers.form \in {"absent", "empty"} THEN Header
           ELSE IF t.secrets[j].headers.form = "list" THEN t.secrets[j].headers.names
           ELSE {} : j \in DOMAIN t.secrets}

\* Fault: only the transform right before annotate is looked at.
annotate_after_neighbour(ts) ==
    \A a \in 2..Len(ts) : ts[a].name = "annotate" /\ ts[a - 1].name = "secrets" =>
        ts[a].headers \cap secret_swap_headers(ts[a - 1]) = {}

\* No annotate captures a header a preceding secrets transform may swap.
annotate_after_secret_swap(ts) ==
    \A a \in DOMAIN ts : ts[a].name = "annotate" =>
        \A p \in 1..(a - 1) : ts[p].name = "secrets" =>
            ts[a].headers \cap secret_swap_headers(ts[p]) = {}

\* Fault: a list without an allowlist is let through.
loads_bare(ts) == body_capture_ordering(ts) /\ annotate_after_secret_swap(ts)

Loads(ts) ==
    /\ \E i \in DOMAIN ts : ts[i].name = "allowlist"
    /\ body_capture_ordering(ts)
    /\ annotate_after_secret_swap(ts)

Init ==
    /\ specs \in {ts \in Configs : Loads(ts)}
    /\ req \in Requests
    /\ at = 1
    /\ sub = 1
    /\ traces = <<>>
    /\ body_capture = {}
    /\ request_path = req.path
    /\ outcome = "running"
    /\ applied = {}

-----------------------------------------------------------------------------
(* evaluate_request.                                                        *)

\* any_rule_matches, on the request as it stands.
Matches(rules, r) ==
    r.host \in rules.hosts /\ (rules.literal => r.path \cap Token # {})

Turn(name) == outcome = "running" /\ at <= Len(specs) /\ specs[at].name = name

\* Fault: a refusal does not stop the loop.
TracedOn(verdict, seen) ==
    /\ traces' = Append(traces, [name |-> specs[at].name, verdict |-> verdict,
                                 seen |-> seen])
    /\ at' = at + 1
    /\ sub' = 1
    /\ UNCHANGED <<specs, request_path, outcome>>

\* The transform returns: its trace, and the end of the loop or the next turn.
Traced(verdict, seen) ==
    /\ traces' = Append(traces, [name |-> specs[at].name, verdict |-> verdict,
                                 seen |-> seen])
    /\ IF verdict = "continue"
       THEN at' = at + 1 /\ outcome' = outcome
       ELSE at' = at /\ outcome' = verdict
    /\ sub' = 1
    /\ UNCHANGED <<specs, request_path>>

\* Allowlist::on_request
Allowlist ==
    /\ Turn("allowlist")
    /\ Traced(IF req.host \in specs[at].hosts \/ specs[at].warn
              THEN "continue" ELSE "reject", {})
    /\ UNCHANGED <<req, body_capture, applied>>

\* Annotate::on_request
Annotate ==
    LET t == specs[at] IN
    /\ Turn("annotate")
    /\ Traced("continue", IF Matches(t.rules, req)
                          THEN UNION {req.headers[h] : h \in t.headers} ELSE {})
    /\ UNCHANGED <<req, body_capture, applied>>

\* HeaderAllowlist::on_request; the annotation only has names.
HeaderAllowlist ==
    LET t == specs[at]
        kept == [h \in Header |-> IF h \in t.headers THEN req.headers[h] ELSE {}]
    IN  /\ Turn("header_allowlist")
        /\ req' = IF t.all \/ Matches(t.rules, req) THEN [req EXCEPT !.headers = kept] ELSE req
        /\ Traced("continue", {})
        /\ UNCHANGED <<body_capture, applied>>

\* BodyCaptureTransform::on_request; a later capture replaces an earlier one.
BodyCapture ==
    /\ Turn("body_capture")
    /\ body_capture' = IF Matches(specs[at].rules, req) THEN req.body ELSE body_capture
    /\ Traced("continue", {})
    /\ UNCHANGED <<req, applied>>

\* `match_headers` absent, null or [] scans all headers.
selected(s, h) == s.headers.form = "list" => h \in s.headers.names

\* replace_all in one location
swap(s, content) ==
    IF s.token \in content THEN (content \ {s.token}) \cup {s.value} ELSE content

\* Fault: the body is not rewritten.
scan_no_body(s, r) ==
    [r EXCEPT !.headers = [h \in Header |-> IF selected(s, h) THEN swap(s, @[h]) ELSE @[h]],
              !.query = IF s.query THEN swap(s, @) ELSE @,
              !.path = IF s.path THEN swap(s, @) ELSE @]

\* scan_and_swap: headers, query, path, body
scan_and_swap(s, r) ==
    [r EXCEPT !.headers = [h \in Header |-> IF selected(s, h) THEN swap(s, @[h]) ELSE @[h]],
              !.query = IF s.query THEN swap(s, @) ELSE @,
              !.path = IF s.path THEN swap(s, @) ELSE @,
              !.body = IF s.body THEN swap(s, @) ELSE @]

ThisSecret == specs[at].secrets[sub]
AtSecret == Turn("secrets") /\ sub <= Len(specs[at].secrets)

NextSecret == sub' = sub + 1 /\ UNCHANGED <<specs, at, traces, request_path, outcome>>

\* Fault: every secret leaves a trace.
SkipTraced ==
    /\ AtSecret
    /\ ~Matches(ThisSecret.rules, req)
    /\ sub' = sub + 1
    /\ traces' = Append(traces, [name |-> "secrets", verdict |-> "continue", seen |-> {}])
    /\ UNCHANGED <<specs, req, at, request_path, outcome, body_capture, applied>>

\* The rules do not match: the secret is not even resolved.
SkipSecret ==
    /\ AtSecret
    /\ ~Matches(ThisSecret.rules, req)
    /\ NextSecret
    /\ UNCHANGED <<req, body_capture, applied>>

\* The source cannot be resolved.
Unavailable ==
    /\ AtSecret
    /\ Matches(ThisSecret.rules, req)
    /\ IF ThisSecret.require THEN Traced("reject", {}) ELSE NextSecret
    /\ UNCHANGED <<req, body_capture, applied>>

\* Fault: a required secret that was not found is passed over.
SwapLenient ==
    LET rewritten == scan_and_swap(ThisSecret, req) IN
    /\ AtSecret
    /\ Matches(ThisSecret.rules, req)
    /\ IF ThisSecret.body /\ req.overCap
       THEN Traced("error", {}) /\ UNCHANGED <<req, applied>>
       ELSE /\ req' = rewritten
            /\ applied' = IF rewritten = req THEN applied ELSE applied \cup {<<at, sub>>}
            /\ NextSecret
    /\ UNCHANGED body_capture

\* Fault: an over-cap body is rewritten like any other.
SwapOverCap ==
    LET rewritten == scan_and_swap(ThisSecret, req) IN
    /\ AtSecret
    /\ Matches(ThisSecret.rules, req)
    /\ IF ThisSecret.require /\ rewritten = req
       THEN Traced("reject", {}) /\ UNCHANGED <<req, applied>>
       ELSE /\ req' = rewritten
            /\ applied' = IF rewritten = req THEN applied ELSE applied \cup {<<at, sub>>}
            /\ NextSecret
    /\ UNCHANGED body_capture

\* Resolved: refuse an over-cap body, scan and swap, refuse a required token
\* that was nowhere.
SwapSecret ==
    LET rewritten == scan_and_swap(ThisSecret, req) IN
    /\ AtSecret
    /\ Matches(ThisSecret.rules, req)
    /\ IF ThisSecret.body /\ req.overCap
       THEN Traced("error", {}) /\ UNCHANGED <<req, applied>>
       ELSE IF ThisSecret.require /\ rewritten = req
       THEN Traced("reject", {}) /\ UNCHANGED <<req, applied>>
       ELSE /\ req' = rewritten
            /\ applied' = IF rewritten = req THEN applied ELSE applied \cup {<<at, sub>>}
            /\ NextSecret
    /\ UNCHANGED body_capture

\* The annotations name sources and locations, never values.
SecretsDone ==
    /\ Turn("secrets")
    /\ sub > Len(specs[at].secrets)
    /\ Traced("continue", {})
    /\ UNCHANGED <<req, body_capture, applied>>

\* All transforms have run: Outcome::Continue with its AllowProof.
Permit ==
    /\ outcome = "running" /\ at > Len(specs)
    /\ outcome' = "continue"
    /\ UNCHANGED <<specs, req, at, sub, traces, body_capture, request_path, applied>>

Next ==
    \/ Allowlist \/ Annotate \/ HeaderAllowlist \/ BodyCapture
    \/ SkipSecret \/ Unavailable \/ SwapSecret \/ SecretsDone
    \/ Permit

Spec == Init /\ [][Next]_vars

-----------------------------------------------------------------------------
(* Properties.                                                              *)

Everywhere == (UNION {req.headers[h] : h \in Header}) \cup req.query \cup req.path \cup req.body

\* INV-1: nothing that goes into the audit record holds a credential: not the
\* annotations, not the captured body, not the path.  The load checks are to
\* see to it, whatever transforms stand between, and do so for the lists that
\* have one body_capture at most and spell no match_headers as null.
RecordHoldsNoCredential ==
    /\ body_capture \cap Credential = {}
    /\ request_path \cap Credential = {}
    /\ \A i \in DOMAIN traces : traces[i].seen \cap Credential = {}

\* Default deny: a request gets its AllowProof only if every allowlist of the
\* list admits its host or only warns, and there is one.
DefaultDeny ==
    outcome = "continue" =>
        /\ \E i \in DOMAIN specs : specs[i].name = "allowlist"
        /\ \A i \in DOMAIN specs : specs[i].name = "allowlist" =>
                req.host \in specs[i].hosts \/ specs[i].warn

\* Custody: a credential is in the request only if a swap put it there that
\* is configured for the request's host; and a token that was swapped is left
\* in no location its secret opted into.
CustodyKept ==
    /\ \A v \in Everywhere \cap Credential :
            \E p \in applied : LET s == specs[p[1]].secrets[p[2]] IN
                s.value = v /\ req.host \in s.rules.hosts
    /\ \A p \in applied : LET s == specs[p[1]].secrets[p[2]] IN
            /\ \A h \in Header : selected(s, h) => s.token \notin req.headers[h]
            /\ s.query => s.token \notin req.query
            /\ s.path => s.token \notin req.path
            /\ s.body => s.token \notin req.body

\* A required secret is never bypassed: when the request is let through, every
\* required secret whose hosts include the request's, and whose rules ask
\* nothing of the path, was found and swapped in.
RequiredSwapped ==
    outcome = "continue" =>
        \A i \in DOMAIN specs : specs[i].name = "secrets" =>
            \A j \in DOMAIN specs[i].secrets :
                LET s == specs[i].secrets[j] IN
                s.require /\ req.host \in s.rules.hosts /\ ~s.rules.literal =>
                    <<i, j>> \in applied /\ traces[i].verdict = "continue"

\* An over-cap body is read-only: only a prefix of it was seen, so no request
\* is let through with a credential swapped into it.
OverCapReadOnly ==
    req.overCap => req.body \cap Credential = {}

\* The traces are a prefix of the list, one per transform that ran, and only
\* the last can be a refusal, which is then the outcome.
TracesTellTheOutcome ==
    /\ \A i \in DOMAIN traces :
            traces[i].verdict # "continue" => i = Len(traces) /\ outcome = traces[i].verdict
    /\ outcome = "continue" => Len(traces) = Len(specs)
    /\ outcome \in {"reject", "error"} =>
            traces # <<>> /\ traces[Len(traces)].verdict = outcome
=============================================================================
