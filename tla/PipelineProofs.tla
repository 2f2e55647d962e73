-------------------------- MODULE PipelineProofs --------------------------
(***************************************************************************)
(* Proofs about Pipeline, for every list of transforms that loads and      *)
(* every request.  PInv is inductive: Flow places the loop in the list and *)
(* the traces behind it, Custody relates what is in the request to the     *)
(* swaps performed so far.                                                 *)
(***************************************************************************)
EXTENDS Pipeline, TLAPS, SequenceTheorems

Verdict == {"continue", "reject", "error"}
Kind == {"allowlist", "annotate", "header_allowlist", "body_capture", "secrets"}
Trace == [name : Kind, verdict : Verdict, seen : Content]
Refused == outcome \in {"reject", "error"}

\* The secret at <<i, j>> of the list.
At(i, j) == specs[i].secrets[j]
IsSecret(i, j) == i \in DOMAIN specs /\ specs[i].name = "secrets" /\ j \in DOMAIN specs[i].secrets
\* Its turn is over.
Past(i, j) == i < at \/ (i = at /\ j < sub)

\* The loop: one trace for every transform that returned, and all but that of
\* a refusal let the request go on.
Flow ==
    /\ specs \in Seq(Transform) /\ Loads(specs)
    /\ at \in 1..(Len(specs) + 1) /\ sub \in Nat \ {0}
    /\ outcome \in {"running", "continue", "reject", "error"}
    /\ traces \in Seq(Trace)
    /\ Len(traces) = IF Refused THEN at ELSE at - 1
    /\ \A i \in 1..Len(traces) : traces[i].name = specs[i].name
    /\ \A i \in 1..(at - 1) : traces[i].verdict = "continue"
    /\ Refused => at <= Len(specs) /\ traces[at].verdict = outcome
    /\ outcome = "continue" => at = Len(specs) + 1

\* The allowlists that had their turn.
Admitted ==
    \A i \in 1..(at - 1) : specs[i].name = "allowlist" =>
        req.host \in specs[i].hosts \/ specs[i].warn

\* The swaps performed: of secrets at or before the turn, for the request's
\* host, none into an over-cap body, and no token survives where it was
\* looked for.
Swapped(i, j) ==
    /\ IsSecret(i, j) /\ i <= at
    /\ req.host \in At(i, j).rules.hosts
    /\ At(i, j).body => ~req.overCap
    /\ \A h \in Header : selected(At(i, j), h) => At(i, j).token \notin req.headers[h]
    /\ At(i, j).query => At(i, j).token \notin req.query
    /\ At(i, j).path => At(i, j).token \notin req.path
    /\ At(i, j).body => At(i, j).token \notin req.body

\* A credential in a location was swapped in by a secret that opted into it.
HeadersAccounted ==
    \A h \in Header : \A v \in req.headers[h] \cap Credential :
        \E i, j \in Nat : <<i, j>> \in applied /\ At(i, j).value = v /\ selected(At(i, j), h)
QueryAccounted ==
    \A v \in req.query \cap Credential :
        \E i, j \in Nat : <<i, j>> \in applied /\ At(i, j).value = v /\ At(i, j).query
PathAccounted ==
    \A v \in req.path \cap Credential :
        \E i, j \in Nat : <<i, j>> \in applied /\ At(i, j).value = v /\ At(i, j).path
BodyAccounted ==
    \A v \in req.body \cap Credential :
        \E i, j \in Nat : <<i, j>> \in applied /\ At(i, j).value = v /\ At(i, j).body

Custody ==
    /\ req \in RequestSummary /\ applied \subseteq (Nat \X Nat)
    /\ \A i, j \in Nat : <<i, j>> \in applied => Swapped(i, j)
    /\ HeadersAccounted /\ QueryAccounted /\ PathAccounted /\ BodyAccounted

\* The required secrets that had their turn.
Required ==
    \A i, j \in Nat :
        /\ IsSecret(i, j) /\ Past(i, j)
        /\ At(i, j).require /\ req.host \in At(i, j).rules.hosts /\ ~At(i, j).rules.literal
        => <<i, j>> \in applied

\* What has gone into the record.
Copies == body_capture \in Content /\ request_path \in Content

PInv == Flow /\ Admitted /\ Custody /\ Required /\ Copies

\* Lists for which the load checks look at everything that matters to the
\* record: body_capture_ordering at the only body_capture, and
\* annotate_after_secret_swap at every header a secret may rewrite.
Plain(ts) ==
    /\ \A i, j \in DOMAIN ts : ts[i].name = "body_capture" /\ ts[j].name = "body_capture" => i = j
    /\ \A i \in DOMAIN ts : ts[i].name = "secrets" =>
            \A j \in DOMAIN ts[i].secrets : ts[i].secrets[j].headers.form # "null"

-----------------------------------------------------------------------------
(* Operators.                                                               *)

\* A secrets transform has a list of secrets.
LEMMA SecretsTyped ==
    ASSUME NEW t \in Transform, t.name = "secrets"
    PROVE  t.secrets \in Seq(Secret)
BY DEF Transform

\* A header_allowlist and an annotate name headers.
LEMMA FilterTyped ==
    ASSUME NEW t \in Transform, t.name \in {"header_allowlist", "annotate"}
    PROVE  t.headers \subseteq Header
BY DEF Transform

\* The fields of a secret.
LEMMA SecretFields ==
    ASSUME NEW s \in Secret
    PROVE  s.token \in Token /\ s.value \in Credential /\ s.token # s.value
BY DisjointAssumption DEF Secret

\* The fields of a request.
LEMMA RequestFields ==
    ASSUME NEW r \in RequestSummary
    PROVE  /\ r.headers \in [Header -> Content]
           /\ r.query \in Content /\ r.path \in Content /\ r.body \in Content
           /\ r.host \in Host /\ r.overCap \in BOOLEAN
BY DEF RequestSummary

\* replace_all leaves no token behind, and brings in nothing but the value.
LEMMA SwapContent ==
    ASSUME NEW s \in Secret, NEW content \in Content
    PROVE  /\ swap(s, content) \in Content
           /\ s.token \notin swap(s, content)
           /\ \A t \in Token : t \in swap(s, content) => t \in content
           /\ \A v \in swap(s, content) : v \notin content => v = s.value /\ s.token \in content
           /\ s.token \in content <=> swap(s, content) # content
<1>1. /\ s.token \in Token /\ s.value \in Credential /\ s.token # s.value /\ s.value \notin Token
  BY SecretFields, DisjointAssumption
<1>2. CASE s.token \in content
  <2>1. swap(s, content) = (content \ {s.token}) \cup {s.value}
    BY <1>2 DEF swap
  <2> QED
    BY <1>1, <1>2, <2>1 DEF Content
<1>3. CASE s.token \notin content
  BY <1>1, <1>3 DEF swap, Content
<1> QED
  BY <1>2, <1>3

\* What a location holds after scan_and_swap, opted into or not.
LEMMA ScanFields ==
    ASSUME NEW s \in Secret, NEW r \in RequestSummary
    PROVE  /\ scan_and_swap(s, r) \in RequestSummary
           /\ scan_and_swap(s, r).host = r.host /\ scan_and_swap(s, r).overCap = r.overCap
           /\ scan_and_swap(s, r).query = IF s.query THEN swap(s, r.query) ELSE r.query
           /\ scan_and_swap(s, r).path = IF s.path THEN swap(s, r.path) ELSE r.path
           /\ scan_and_swap(s, r).body = IF s.body THEN swap(s, r.body) ELSE r.body
           /\ \A h \in Header : scan_and_swap(s, r).headers[h] =
                                IF selected(s, h) THEN swap(s, r.headers[h]) ELSE r.headers[h]
<1> DEFINE hs == [h \in Header |-> IF selected(s, h) THEN swap(s, r.headers[h]) ELSE r.headers[h]]
           q == IF s.query THEN swap(s, r.query) ELSE r.query
           p == IF s.path THEN swap(s, r.path) ELSE r.path
           b == IF s.body THEN swap(s, r.body) ELSE r.body
           new == [r EXCEPT !.headers = hs, !.query = q, !.path = p, !.body = b]
<1>1. /\ hs \in [Header -> Content] /\ q \in Content /\ p \in Content /\ b \in Content
  BY RequestFields, SwapContent
<1>2. scan_and_swap(s, r) = new
  BY DEF scan_and_swap
<1>3. \A h \in Header : hs[h] = IF selected(s, h) THEN swap(s, r.headers[h]) ELSE r.headers[h]
  OBVIOUS
<1> HIDE DEF hs, q, p, b
<1>4. /\ new \in RequestSummary /\ new.host = r.host /\ new.overCap = r.overCap
      /\ new.query = q /\ new.path = p /\ new.body = b /\ new.headers = hs
  BY <1>1, Zenon DEF RequestSummary
<1> HIDE DEF new
<1>5. q = IF s.query THEN swap(s, r.query) ELSE r.query
  BY DEF q
<1>6. p = IF s.path THEN swap(s, r.path) ELSE r.path
  BY DEF p
<1>7. b = IF s.body THEN swap(s, r.body) ELSE r.body
  BY DEF b
<1> QED
  BY <1>2, <1>3, <1>4, <1>5, <1>6, <1>7

-----------------------------------------------------------------------------
(* The loop.                                                                *)

\* A transform that returns leaves its trace at its own index.
LEMMA TracedFlow ==
    ASSUME Flow, NEW name, Turn(name), NEW v \in Verdict, NEW seen \in Content,
           Traced(v, seen)
    PROVE  Flow'
<1> DEFINE tr == [name |-> specs[at].name, verdict |-> v, seen |-> seen]
<1>1. /\ outcome = "running" /\ at <= Len(specs) /\ specs[at].name = name
  BY DEF Turn
<1>2. /\ traces' = Append(traces, tr) /\ specs' = specs /\ sub' = 1
      /\ v = "continue" => at' = at + 1 /\ outcome' = outcome
      /\ v # "continue" => at' = at /\ outcome' = v
  BY DEF Traced
<1>3. /\ tr \in Trace /\ tr.name = specs[at].name /\ tr.verdict = v
  <2>1. specs[at] \in Transform
    BY <1>1 DEF Flow
  <2>2. specs[at].name \in Kind
    BY <2>1 DEF Transform, Kind
  <2> QED
    BY <2>2 DEF Trace
<1> HIDE DEF tr
<1>4. /\ specs \in Seq(Transform) /\ at \in Nat /\ 1 <= at /\ Len(specs) \in Nat
      /\ traces \in Seq(Trace) /\ Len(traces) = at - 1
  BY <1>1 DEF Flow, Refused
<1>5. /\ traces' \in Seq(Trace) /\ Len(traces') = at /\ traces'[at] = tr
      /\ \A i \in 1..(at - 1) : traces'[i] = traces[i]
  BY <1>2, <1>3, <1>4
<1>6. /\ \A i \in 1..(at - 1) : traces[i].name = specs[i].name
      /\ \A i \in 1..(at - 1) : traces[i].verdict = "continue"
  BY <1>4 DEF Flow
<1>7. \A i \in 1..at : traces'[i].name = specs[i].name
  <2> TAKE i \in 1..at
  <2>1. CASE i = at
    BY <1>3, <1>5, <2>1
  <2>2. CASE i # at
    <3>1. i \in 1..(at - 1)
      BY <1>4, <2>2
    <3>2. traces'[i] = traces[i] /\ traces[i].name = specs[i].name
      BY <1>5, <1>6, <3>1, Zenon
    <3> QED
      BY <3>2, Zenon
  <2> QED
    BY <2>1, <2>2, Zenon
<1>8. CASE v = "continue"
  <2>1. at' = at + 1 /\ outcome' = "running" /\ ~Refused'
    BY <1>1, <1>2, <1>8 DEF Refused
  <2>2. \A i \in 1..at : traces'[i].verdict = "continue"
    BY <1>3, <1>4, <1>5, <1>6, <1>8
  <2> QED
    BY <1>1, <1>2, <1>4, <1>5, <1>7, <2>1, <2>2 DEF Flow
<1>9. CASE v # "continue"
  <2>1. at' = at /\ outcome' = v /\ Refused'
    BY <1>2, <1>9 DEF Refused, Verdict
  <2>2. \A i \in 1..(at - 1) : traces'[i].verdict = "continue"
    BY <1>5, <1>6
  <2> QED
    BY <1>1, <1>2, <1>3, <1>4, <1>5, <1>7, <1>9, <2>1, <2>2 DEF Flow, Refused
<1> QED
  BY <1>8, <1>9

\* Going on to the next secret moves the loop only.
LEMMA NextSecretFlow ==
    ASSUME Flow, NextSecret
    PROVE  Flow'
BY DEF Flow, NextSecret, Refused

\* The end of the list is reached by every transform letting the request go on.
LEMMA PermitFlow ==
    ASSUME Flow, Permit
    PROVE  Flow'
<1>1. /\ at = Len(specs) + 1 /\ outcome = "running" /\ outcome' = "continue"
      /\ UNCHANGED <<specs, at, sub, traces>>
  BY DEF Flow, Permit
<1>2. ~Refused /\ ~Refused'
  BY <1>1 DEF Refused
<1> QED
  BY <1>1, <1>2 DEF Flow

\* What a transform that returns does to the place in the list.
LEMMA TracedPlace ==
    ASSUME Flow, NEW v \in Verdict, NEW seen, Traced(v, seen)
    PROVE  /\ specs' = specs /\ sub' = 1 /\ request_path' = request_path
           /\ at' = IF v = "continue" THEN at + 1 ELSE at
           /\ at \in Nat /\ at' \in Nat /\ at <= at'
BY DEF Flow, Traced

\* An allowlist is passed only by a host it admits, or with a warning.
LEMMA AdmittedStep ==
    ASSUME Flow, Admitted, specs' = specs, req'.host = req.host,
           \/ at' = at
           \/ /\ at' = at + 1
              /\ specs[at].name = "allowlist" => req.host \in specs[at].hosts \/ specs[at].warn
    PROVE  Admitted'
<1>1. at \in Nat
  BY DEF Flow
<1> SUFFICES ASSUME NEW i \in 1..(at' - 1), specs[i].name = "allowlist"
             PROVE  req.host \in specs[i].hosts \/ specs[i].warn
  BY DEF Admitted
<1>2. CASE i \in 1..(at - 1)
  BY <1>2 DEF Admitted
<1>3. CASE i \notin 1..(at - 1)
  <2>1. i = at /\ at' = at + 1
    BY <1>1, <1>3
  <2> QED
    BY <1>1, <2>1
<1> QED
  BY <1>2, <1>3

\* A required secret is passed only when it was swapped in.
LEMMA RequiredStep ==
    ASSUME Required, specs' = specs, req'.host = req.host, applied \subseteq applied',
           \A i, j \in Nat : IsSecret(i, j) /\ Past(i, j)' =>
                \/ Past(i, j) \/ <<i, j>> \in applied'
                \/ ~(At(i, j).require /\ req.host \in At(i, j).rules.hosts /\ ~At(i, j).rules.literal)
    PROVE  Required'
BY DEF Required, IsSecret, At

-----------------------------------------------------------------------------
(* Custody.                                                                 *)

\* Nothing comes into the request: header_allowlist takes headers out, and
\* the other transforms than secrets leave the request alone.
LEMMA CustodyLess ==
    ASSUME Custody, Flow, specs' = specs, applied' = applied, at' \in Nat, at <= at',
           req' \in RequestSummary, req'.host = req.host, req'.overCap = req.overCap,
           req'.query = req.query, req'.path = req.path, req'.body = req.body,
           \A h \in Header : req'.headers[h] \subseteq req.headers[h]
    PROVE  Custody'
<1>1. ASSUME NEW i \in Nat, NEW j \in Nat, <<i, j>> \in applied
      PROVE  Swapped(i, j)'
  <2>1. Swapped(i, j)
    BY <1>1 DEF Custody
  <2>2. At(i, j)' = At(i, j) /\ IsSecret(i, j)' = IsSecret(i, j)
    BY DEF At, IsSecret
  <2>3. i <= at'
    BY <2>1 DEF Swapped, Flow
  <2> QED
    BY <2>1, <2>2, <2>3 DEF Swapped
<1>2. HeadersAccounted'
  <2> SUFFICES ASSUME NEW h \in Header, NEW v \in req'.headers[h] \cap Credential
               PROVE  \E i, j \in Nat :
                        <<i, j>> \in applied /\ At(i, j).value = v /\ selected(At(i, j), h)
    BY ZenonT(30) DEF HeadersAccounted, At
  <2>1. v \in req.headers[h] \cap Credential
    OBVIOUS
  <2> QED
    BY <2>1, Zenon DEF Custody, HeadersAccounted
<1>3. QueryAccounted'
  BY Zenon DEF Custody, QueryAccounted, At
<1>4. PathAccounted'
  BY Zenon DEF Custody, PathAccounted, At
<1>5. BodyAccounted'
  BY Zenon DEF Custody, BodyAccounted, At
<1> QED
  BY <1>1, <1>2, <1>3, <1>4, <1>5, Zenon DEF Custody

\* The secret whose turn it is.
LEMMA ThisSecretTyped ==
    ASSUME Flow, AtSecret
    PROVE  /\ at \in Nat /\ sub \in Nat /\ ThisSecret = At(at, sub)
           /\ IsSecret(at, sub) /\ ThisSecret \in Secret
<1>1. /\ specs \in Seq(Transform) /\ at \in 1..(Len(specs) + 1) /\ sub \in Nat /\ 1 <= sub
  BY DEF Flow
<1>2. /\ at <= Len(specs) /\ specs[at].name = "secrets" /\ sub <= Len(specs[at].secrets)
  BY DEF AtSecret, Turn
<1>3. at \in DOMAIN specs /\ specs[at] \in Transform
  BY <1>1, <1>2
<1>4. specs[at].secrets \in Seq(Secret)
  BY <1>2, <1>3, SecretsTyped
<1>5. sub \in DOMAIN specs[at].secrets /\ specs[at].secrets[sub] \in Secret
  BY <1>1, <1>2, <1>4
<1> QED
  BY <1>1, <1>2, <1>3, <1>5 DEF ThisSecret, At, IsSecret

\* A location after the turn of s, which opted into it or not: tokens are
\* only taken out, s's own if it was looked for, and a credential that was
\* not there is s's.
Rewritten(s, opted, old, new) ==
    /\ \A t \in Token : t \in new => t \in old
    /\ opted => s.token \notin new
    /\ \A v \in new : v \notin old => v = s.value /\ opted

\* Swapping a token in one location, where the secret opted in and where not.
LEMMA SwapRewrites ==
    ASSUME NEW s \in Secret, NEW opted, NEW content \in Content
    PROVE  Rewritten(s, opted, content, IF opted THEN swap(s, content) ELSE content)
BY SwapContent DEF Rewritten

\* scan_and_swap rewrites every location the secret opted into, and no other.
LEMMA ScanRewrites ==
    ASSUME NEW s \in Secret, NEW r \in RequestSummary, NEW new, new = scan_and_swap(s, r)
    PROVE  /\ \A h \in Header : Rewritten(s, selected(s, h), r.headers[h], new.headers[h])
           /\ Rewritten(s, s.query, r.query, new.query)
           /\ Rewritten(s, s.path, r.path, new.path)
           /\ Rewritten(s, s.body, r.body, new.body)
<1>1. ASSUME NEW h \in Header
      PROVE  Rewritten(s, selected(s, h), r.headers[h], new.headers[h])
  <2>1. r.headers[h] \in Content
    BY RequestFields
  <2> QED
    BY <2>1, ScanFields, SwapRewrites
<1>2. Rewritten(s, s.query, r.query, new.query)
  <2>1. r.query \in Content
    BY RequestFields
  <2>2. new.query = IF s.query THEN swap(s, r.query) ELSE r.query
    BY ScanFields
  <2> QED
    BY <2>1, <2>2, SwapRewrites
<1>3. Rewritten(s, s.path, r.path, new.path)
  <2>1. r.path \in Content
    BY RequestFields
  <2>2. new.path = IF s.path THEN swap(s, r.path) ELSE r.path
    BY ScanFields
  <2> QED
    BY <2>1, <2>2, SwapRewrites
<1>4. Rewritten(s, s.body, r.body, new.body)
  <2>1. r.body \in Content
    BY RequestFields
  <2>2. new.body = IF s.body THEN swap(s, r.body) ELSE r.body
    BY ScanFields
  <2> QED
    BY <2>1, <2>2, SwapRewrites
<1> QED
  BY <1>1, <1>2, <1>3, <1>4

\* The secret at a place of the list is a secret.
LEMMA SecretTyped ==
    ASSUME Flow, NEW i, NEW j, IsSecret(i, j)
    PROVE  At(i, j) \in Secret
<1>1. specs[i] \in Transform /\ specs[i].name = "secrets" /\ j \in DOMAIN specs[i].secrets
  BY DEF Flow, IsSecret
<1> QED
  BY <1>1, SecretsTyped DEF At


\* A secret that is swapped in accounts for the credential it brings, and
\* leaves no token where it looks.
LEMMA CustodySwap ==
    ASSUME Custody, Flow, AtSecret, Matches(ThisSecret.rules, req),
           ~(ThisSecret.body /\ req.overCap),
           req' = scan_and_swap(ThisSecret, req), specs' = specs, at' = at,
           applied' = IF req' = req THEN applied ELSE applied \cup {<<at, sub>>}
    PROVE  Custody'
<1> DEFINE s == ThisSecret
<1>1. /\ at \in Nat /\ sub \in Nat /\ s = At(at, sub) /\ IsSecret(at, sub) /\ s \in Secret
  BY ThisSecretTyped
<1>2. req \in RequestSummary /\ req.host \in s.rules.hosts /\ (s.body => ~req.overCap)
  BY DEF Custody, Matches
<1>3. /\ applied \subseteq applied' /\ (req' # req => <<at, sub>> \in applied')
      /\ \A p \in applied' : p \in applied \/ p = <<at, sub>>
  OBVIOUS
<1>4. req' \in RequestSummary /\ req'.host = req.host /\ req'.overCap = req.overCap
  BY <1>1, <1>2, ScanFields
<1>5. /\ \A h \in Header : Rewritten(s, selected(s, h), req.headers[h], req'.headers[h])
      /\ Rewritten(s, s.query, req.query, req'.query)
      /\ Rewritten(s, s.path, req.path, req'.path)
      /\ Rewritten(s, s.body, req.body, req'.body)
  BY <1>1, <1>2, ScanRewrites
<1> HIDE DEF s
<1>6. ASSUME NEW i \in Nat, NEW j \in Nat, <<i, j>> \in applied'
      PROVE  Swapped(i, j)'
  <2>1. At(i, j)' = At(i, j) /\ IsSecret(i, j)' = IsSecret(i, j)
    BY DEF At, IsSecret
  <2>2. CASE <<i, j>> \in applied
    <3>1. Swapped(i, j)
      BY <2>2 DEF Custody
    <3>2. At(i, j).token \in Token
      BY <3>1, SecretTyped, SecretFields DEF Swapped
    <3> QED
      BY <1>4, <1>5, <2>1, <3>1, <3>2, ZenonT(30) DEF Swapped, Rewritten
  <2>3. CASE i = at /\ j = sub
    <3>1. At(i, j) = s /\ IsSecret(i, j) /\ i <= at
      BY <1>1, <2>3
    <3> QED
      BY <1>2, <1>4, <1>5, <2>1, <3>1, ZenonT(30) DEF Swapped, Rewritten
  <2> QED
    BY <1>3, <1>6, <2>2, <2>3
<1>7. HeadersAccounted'
  <2> SUFFICES ASSUME NEW h \in Header, NEW v \in req'.headers[h] \cap Credential
               PROVE  \E i, j \in Nat :
                        <<i, j>> \in applied' /\ At(i, j).value = v /\ selected(At(i, j), h)
    BY ZenonT(30) DEF HeadersAccounted, At
  <2>1. CASE v \in req.headers[h]
    BY <1>3, <2>1 DEF Custody, HeadersAccounted
  <2>2. CASE v \notin req.headers[h]
    <3>1. v = s.value /\ selected(s, h) /\ req' # req
      BY <1>5, <2>2, ZenonT(30) DEF Rewritten
    <3> QED
      BY <1>1, <1>3, <3>1
  <2> QED
    BY <2>1, <2>2
<1>8. QueryAccounted'
  <2> SUFFICES ASSUME NEW v \in req'.query \cap Credential
               PROVE  \E i, j \in Nat : <<i, j>> \in applied' /\ At(i, j).value = v /\ At(i, j).query
    BY ZenonT(30) DEF QueryAccounted, At
  <2>1. CASE v \in req.query
    BY <1>3, <2>1 DEF Custody, QueryAccounted
  <2>2. CASE v \notin req.query
    <3>1. v = s.value /\ s.query /\ req' # req
      BY <1>5, <2>2, Zenon DEF Rewritten
    <3> QED
      BY <1>1, <1>3, <3>1
  <2> QED
    BY <2>1, <2>2, Zenon
<1>9. PathAccounted'
  <2> SUFFICES ASSUME NEW v \in req'.path \cap Credential
               PROVE  \E i, j \in Nat : <<i, j>> \in applied' /\ At(i, j).value = v /\ At(i, j).path
    BY ZenonT(30) DEF PathAccounted, At
  <2>1. CASE v \in req.path
    BY <1>3, <2>1 DEF Custody, PathAccounted
  <2>2. CASE v \notin req.path
    <3>1. v = s.value /\ s.path /\ req' # req
      BY <1>5, <2>2, Zenon DEF Rewritten
    <3> QED
      BY <1>1, <1>3, <3>1
  <2> QED
    BY <2>1, <2>2
<1>10. BodyAccounted'
  <2> SUFFICES ASSUME NEW v \in req'.body \cap Credential
               PROVE  \E i, j \in Nat : <<i, j>> \in applied' /\ At(i, j).value = v /\ At(i, j).body
    BY ZenonT(30) DEF BodyAccounted, At
  <2>1. CASE v \in req.body
    BY <1>3, <2>1 DEF Custody, BodyAccounted
  <2>2. CASE v \notin req.body
    <3>1. v = s.value /\ s.body /\ req' # req
      BY <1>5, <2>2, Zenon DEF Rewritten
    <3> QED
      BY <1>1, <1>3, <3>1
  <2> QED
    BY <2>1, <2>2
<1>11. applied' \subseteq (Nat \X Nat)
  BY <1>1, <1>3 DEF Custody
<1> QED
  BY <1>4, <1>6, <1>7, <1>8, <1>9, <1>10, <1>11, Zenon DEF Custody

-----------------------------------------------------------------------------
(* PInv is inductive.                                                       *)

\* A transform that returns passes no required secret: it is another kind,
\* or it had been through its secrets, or it refuses.
LEMMA TracedRequired ==
    ASSUME Flow, Required, NEW name, Turn(name), NEW v \in Verdict, NEW seen,
           Traced(v, seen), req'.host = req.host, applied' = applied,
           v = "continue" => name # "secrets" \/ sub > Len(specs[at].secrets)
    PROVE  Required'
<1>1. /\ specs' = specs /\ sub' = 1 /\ at \in Nat
      /\ at' = IF v = "continue" THEN at + 1 ELSE at
  BY TracedPlace
<1>2. specs[at].name = name /\ at \in DOMAIN specs /\ specs[at] \in Transform /\ sub \in Nat
  BY DEF Turn, Flow
<1>3. ASSUME NEW i \in Nat, NEW j \in Nat, IsSecret(i, j), Past(i, j)'
      PROVE  Past(i, j)
  <2>1. i < at' \/ (i = at' /\ j < 1)
    BY <1>1, <1>3 DEF Past
  <2>2. specs[i].name = "secrets" /\ j \in DOMAIN specs[i].secrets /\ specs[i] \in Transform
    BY <1>3 DEF IsSecret, Flow
  <2>3. specs[i].secrets \in Seq(Secret)
    BY <2>2, SecretsTyped
  <2>4. 1 <= j /\ j <= Len(specs[i].secrets)
    BY <2>2, <2>3
  <2>5. CASE i < at
    BY <2>5 DEF Past
  <2>6. CASE ~(i < at)
    <3>1. v = "continue" /\ i = at
      BY <1>1, <2>1, <2>4, <2>6
    <3>2. sub > Len(specs[i].secrets)
      BY <1>2, <2>2, <3>1
    <3>3. Len(specs[i].secrets) \in Nat
      BY <2>3
    <3> QED
      BY <1>2, <2>4, <3>1, <3>2, <3>3 DEF Past
  <2> QED
    BY <2>5, <2>6
<1> QED
  BY <1>1, <1>3, RequiredStep

\* The transforms that leave the request as it is, and the refusals.
LEMMA TracedPInv ==
    ASSUME PInv, NEW name, Turn(name), NEW v \in Verdict, NEW seen \in Content,
           Traced(v, seen), UNCHANGED <<req, applied>>, body_capture' \in Content,
           v = "continue" => name # "secrets" \/ sub > Len(specs[at].secrets),
           v = "continue" /\ name = "allowlist" => req.host \in specs[at].hosts \/ specs[at].warn
    PROVE  PInv'
<1>1. Flow /\ Admitted /\ Custody /\ Required /\ Copies
  BY DEF PInv
<1>2. /\ specs' = specs /\ request_path' = request_path /\ at \in Nat /\ at' \in Nat /\ at <= at'
      /\ at' = IF v = "continue" THEN at + 1 ELSE at
  BY <1>1, TracedPlace
<1>3. Flow'
  BY <1>1, TracedFlow
<1>4. Admitted'
  BY <1>1, <1>2, AdmittedStep DEF Turn
<1>5. Custody'
  BY <1>1, <1>2, CustodyLess DEF Custody
<1>6. Required'
  BY <1>1, TracedRequired
<1>7. Copies'
  BY <1>1, <1>2 DEF Copies
<1> QED
  BY <1>3, <1>4, <1>5, <1>6, <1>7 DEF PInv

\* A secret's turn goes to the next one.
LEMMA NextSecretRequired ==
    ASSUME Flow, Required, AtSecret, NextSecret, req'.host = req.host, applied \subseteq applied',
           \/ <<at, sub>> \in applied'
           \/ ~(/\ ThisSecret.require /\ req.host \in ThisSecret.rules.hosts
                /\ ~ThisSecret.rules.literal)
    PROVE  Required'
<1>1. /\ specs' = specs /\ sub' = sub + 1 /\ at' = at
  BY DEF NextSecret
<1>2. at \in Nat /\ sub \in Nat /\ ThisSecret = At(at, sub)
  BY ThisSecretTyped
<1>3. \A i, j \in Nat : Past(i, j)' => Past(i, j) \/ (i = at /\ j = sub)
  BY <1>1, <1>2 DEF Past
<1> QED
  BY <1>1, <1>2, <1>3, RequiredStep

\* A secret that is passed over keeps the invariant, if it is not a required one.
LEMMA NextSecretPInv ==
    ASSUME PInv, AtSecret, NextSecret, UNCHANGED <<req, body_capture, applied>>,
           ~(/\ ThisSecret.require /\ req.host \in ThisSecret.rules.hosts
             /\ ~ThisSecret.rules.literal)
    PROVE  PInv'
<1>1. Flow /\ Admitted /\ Custody /\ Required /\ Copies
  BY DEF PInv
<1>2. /\ specs' = specs /\ request_path' = request_path /\ at' = at /\ at \in Nat
  BY <1>1 DEF NextSecret, Flow
<1>3. Flow'
  BY <1>1, NextSecretFlow
<1>4. Admitted'
  BY <1>1, <1>2, AdmittedStep
<1>5. Custody'
  BY <1>1, <1>2, CustodyLess DEF Custody
<1>6. Required'
  BY <1>1, NextSecretRequired
<1>7. Copies'
  BY <1>1, <1>2 DEF Copies
<1> QED
  BY <1>3, <1>4, <1>5, <1>6, <1>7 DEF PInv

\* A request that was just received holds no credential.
LEMMA InitPInv == Init => PInv
<1> SUFFICES ASSUME Init
             PROVE  PInv
  OBVIOUS
<1>1. /\ specs \in Seq(Transform) /\ Loads(specs) /\ req \in Requests /\ at = 1 /\ sub = 1
      /\ traces = <<>> /\ body_capture = {} /\ request_path = req.path
      /\ outcome = "running" /\ applied = {}
  BY ConfigsAssumption DEF Init
<1>2. /\ req \in [host : Host, headers : [Header -> SUBSET Token], query : SUBSET Token,
                  path : SUBSET Token, body : SUBSET Token, overCap : BOOLEAN]
  BY <1>1, RequestsAssumption
<1>3. /\ req.headers \in [Header -> SUBSET Token] /\ req.query \subseteq Token
      /\ req.path \subseteq Token /\ req.body \subseteq Token
  BY <1>2
<1>4. req \in RequestSummary
  BY <1>2 DEF RequestSummary, Content
<1>5. Flow
  BY <1>1 DEF Flow, Refused
<1>6. Custody
  <2>1. HeadersAccounted
    BY <1>3, DisjointAssumption DEF HeadersAccounted
  <2>2. QueryAccounted
    BY <1>3, DisjointAssumption DEF QueryAccounted
  <2>3. PathAccounted
    BY <1>3, DisjointAssumption DEF PathAccounted
  <2>4. BodyAccounted
    BY <1>3, DisjointAssumption DEF BodyAccounted
  <2> QED
    BY <1>1, <1>4, <2>1, <2>2, <2>3, <2>4 DEF Custody
<1>7. Admitted
  BY <1>1 DEF Admitted
<1>8. Required
  <2> SUFFICES ASSUME NEW i \in Nat, NEW j \in Nat, IsSecret(i, j), Past(i, j)
               PROVE  FALSE
    BY DEF Required
  <2>1. 1 <= i /\ specs[i].secrets \in Seq(Secret) /\ j \in DOMAIN specs[i].secrets
    BY <1>1, SecretsTyped DEF IsSecret
  <2>2. 1 <= j
    BY <2>1
  <2> QED
    BY <1>1, <2>1, <2>2 DEF Past
<1>9. Copies
  BY <1>1, <1>3 DEF Copies, Content
<1> QED
  BY <1>5, <1>6, <1>7, <1>8, <1>9 DEF PInv

\* allowlist: reject, warn or go on.
LEMMA AllowlistPInv == PInv /\ Allowlist => PInv'
<1> SUFFICES ASSUME PInv, Allowlist
             PROVE  PInv'
  OBVIOUS
<1> DEFINE v == IF req.host \in specs[at].hosts \/ specs[at].warn THEN "continue" ELSE "reject"
<1>1. Turn("allowlist") /\ Traced(v, {}) /\ UNCHANGED <<req, body_capture, applied>>
  BY DEF Allowlist
<1>2. v \in Verdict /\ (v = "continue" => req.host \in specs[at].hosts \/ specs[at].warn)
  BY DEF Verdict
<1>3. {} \in Content /\ body_capture \in Content
  BY DEF Content, PInv, Copies
<1> HIDE DEF v
<1> QED
  BY <1>1, <1>2, <1>3, TracedPInv

\* annotate: headers are copied into the record.
LEMMA AnnotatePInv == PInv /\ Annotate => PInv'
<1> SUFFICES ASSUME PInv, Annotate
             PROVE  PInv'
  OBVIOUS
<1> DEFINE seen == IF Matches(specs[at].rules, req)
                   THEN UNION {req.headers[h] : h \in specs[at].headers} ELSE {}
<1>1. Turn("annotate") /\ Traced("continue", seen) /\ UNCHANGED <<req, body_capture, applied>>
  BY DEF Annotate
<1>2. specs[at] \in Transform /\ specs[at].name = "annotate"
  BY <1>1 DEF PInv, Flow, Turn
<1>3. specs[at].headers \subseteq Header /\ req.headers \in [Header -> Content]
  BY <1>2, FilterTyped, RequestFields DEF PInv, Custody
<1>4. seen \in Content /\ body_capture \in Content /\ "continue" \in Verdict
  BY <1>3 DEF Content, Verdict, PInv, Copies
<1> HIDE DEF seen
<1> QED
  BY <1>1, <1>4, TracedPInv

\* header_allowlist: the headers it does not name are removed.
LEMMA HeaderAllowlistPInv == PInv /\ HeaderAllowlist => PInv'
<1> SUFFICES ASSUME PInv, HeaderAllowlist
             PROVE  PInv'
  OBVIOUS
<1> DEFINE kept == [h \in Header |-> IF h \in specs[at].headers THEN req.headers[h] ELSE {}]
<1>1. /\ Turn("header_allowlist") /\ Traced("continue", {}) /\ UNCHANGED <<body_capture, applied>>
      /\ req' = [req EXCEPT !.headers = kept] \/ req' = req
  BY DEF HeaderAllowlist
<1>2. Flow /\ Admitted /\ Custody /\ Required /\ Copies
  BY DEF PInv
<1>3. req \in RequestSummary /\ req.headers \in [Header -> Content]
  BY <1>2, RequestFields DEF Custody
<1>4. kept \in [Header -> Content] /\ \A h \in Header : kept[h] \subseteq req.headers[h]
  BY <1>3 DEF Content
<1> HIDE DEF kept
<1>5. /\ req' \in RequestSummary /\ req'.host = req.host /\ req'.overCap = req.overCap
      /\ req'.query = req.query /\ req'.path = req.path /\ req'.body = req.body
      /\ req'.headers = kept \/ req'.headers = req.headers
  BY <1>1, <1>3, <1>4 DEF RequestSummary
<1>6. \A h \in Header : req'.headers[h] \subseteq req.headers[h]
  BY <1>4, <1>5
<1>7. "continue" \in Verdict /\ {} \in Content
  BY DEF Verdict, Content
<1>8. /\ specs' = specs /\ request_path' = request_path
      /\ at' = at + 1 /\ at \in Nat /\ at' \in Nat /\ at <= at'
  BY <1>1, <1>2, <1>7, TracedPlace
<1>9. Flow'
  BY <1>1, <1>2, <1>7, TracedFlow
<1>10. Admitted'
  BY <1>1, <1>2, <1>5, <1>8, AdmittedStep DEF Turn
<1>11. Custody'
  BY <1>1, <1>2, <1>5, <1>6, <1>8, CustodyLess
<1>12. Required'
  BY <1>1, <1>2, <1>5, <1>7, TracedRequired
<1>13. Copies'
  BY <1>1, <1>2, <1>8 DEF Copies
<1> QED
  BY <1>9, <1>10, <1>11, <1>12, <1>13 DEF PInv

\* body_capture: the body is copied into the record.
LEMMA BodyCapturePInv == PInv /\ BodyCapture => PInv'
<1> SUFFICES ASSUME PInv, BodyCapture
             PROVE  PInv'
  OBVIOUS
<1>1. Turn("body_capture") /\ Traced("continue", {}) /\ UNCHANGED <<req, applied>>
  BY DEF BodyCapture
<1>2. body_capture' \in Content
  BY RequestFields DEF BodyCapture, PInv, Copies, Custody
<1>3. "continue" \in Verdict /\ {} \in Content
  BY DEF Verdict, Content
<1> QED
  BY <1>1, <1>2, <1>3, TracedPInv

\* secrets: one whose rules do not match.
LEMMA SkipSecretPInv == PInv /\ SkipSecret => PInv'
<1> SUFFICES ASSUME PInv, SkipSecret
             PROVE  PInv'
  OBVIOUS
<1>1. AtSecret /\ NextSecret /\ UNCHANGED <<req, body_capture, applied>>
  BY DEF SkipSecret
<1>2. ~(/\ ThisSecret.require /\ req.host \in ThisSecret.rules.hosts
        /\ ~ThisSecret.rules.literal)
  BY DEF SkipSecret, Matches
<1> QED
  BY <1>1, <1>2, NextSecretPInv

\* A refusal inside the secrets transform.
LEMMA RefusalPInv ==
    ASSUME PInv, AtSecret, NEW v \in {"reject", "error"}, Traced(v, {}),
           UNCHANGED <<req, body_capture, applied>>
    PROVE  PInv'
<1>1. Turn("secrets")
  BY DEF AtSecret
<1>2. v \in Verdict /\ v # "continue" /\ {} \in Content /\ body_capture \in Content
  BY DEF Verdict, Content, PInv, Copies
<1> QED
  BY <1>1, <1>2, TracedPInv

\* secrets: one that cannot be resolved, refused if required.
LEMMA UnavailablePInv == PInv /\ Unavailable => PInv'
<1> SUFFICES ASSUME PInv, Unavailable
             PROVE  PInv'
  OBVIOUS
<1>1. AtSecret /\ UNCHANGED <<req, body_capture, applied>>
  BY DEF Unavailable
<1>2. CASE ThisSecret.require
  <2>1. Traced("reject", {})
    BY <1>2 DEF Unavailable
  <2> QED
    BY <1>1, <2>1, RefusalPInv
<1>3. CASE ~ThisSecret.require
  <2>1. NextSecret
    BY <1>3 DEF Unavailable
  <2> QED
    BY <1>1, <1>3, <2>1, NextSecretPInv
<1> QED
  BY <1>2, <1>3

\* secrets: one that is swapped in, or refused for an over-cap body or a missing token.
LEMMA SwapSecretPInv == PInv /\ SwapSecret => PInv'
<1> SUFFICES ASSUME PInv, SwapSecret
             PROVE  PInv'
  OBVIOUS
<1> DEFINE new == scan_and_swap(ThisSecret, req)
<1>1. AtSecret /\ Matches(ThisSecret.rules, req) /\ body_capture' = body_capture
  BY DEF SwapSecret
<1>2. \/ Traced("error", {}) /\ UNCHANGED <<req, applied>>
      \/ Traced("reject", {}) /\ UNCHANGED <<req, applied>>
      \/ /\ ~(ThisSecret.body /\ req.overCap) /\ ~(ThisSecret.require /\ new = req)
         /\ req' = new /\ NextSecret
         /\ applied' = IF new = req THEN applied ELSE applied \cup {<<at, sub>>}
  BY DEF SwapSecret
<1>3. CASE Traced("error", {}) /\ UNCHANGED <<req, applied>>
  BY <1>1, <1>3, RefusalPInv
<1>4. CASE Traced("reject", {}) /\ UNCHANGED <<req, applied>>
  BY <1>1, <1>4, RefusalPInv
<1>5. CASE /\ ~(ThisSecret.body /\ req.overCap) /\ ~(ThisSecret.require /\ new = req)
           /\ req' = new /\ NextSecret
           /\ applied' = IF new = req THEN applied ELSE applied \cup {<<at, sub>>}
  <2>1. Flow /\ Admitted /\ Custody /\ Required /\ Copies
    BY DEF PInv
  <2>2. /\ specs' = specs /\ request_path' = request_path /\ at' = at
    BY <1>5 DEF NextSecret
  <2>3. ThisSecret \in Secret /\ req \in RequestSummary
    BY <1>1, <2>1, ThisSecretTyped DEF Custody
  <2>4. req'.host = req.host
    BY <1>5, <2>3, ScanFields, Zenon
  <2>5. /\ applied \subseteq applied'
        /\ \/ <<at, sub>> \in applied'
           \/ ~(/\ ThisSecret.require /\ req.host \in ThisSecret.rules.hosts
                /\ ~ThisSecret.rules.literal)
    BY <1>5
  <2>6. Flow'
    BY <1>5, <2>1, NextSecretFlow
  <2>7. Admitted'
    BY <2>1, <2>2, <2>4, AdmittedStep
  <2>8. Custody'
    BY <1>1, <1>5, <2>1, <2>2, CustodySwap
  <2>9. Required'
    BY <1>1, <1>5, <2>1, <2>4, <2>5, NextSecretRequired
  <2>10. Copies'
    BY <1>1, <2>1, <2>2 DEF Copies
  <2> QED
    BY <2>6, <2>7, <2>8, <2>9, <2>10 DEF PInv
<1> QED
  BY <1>2, <1>3, <1>4, <1>5

\* secrets: the end of its list.
LEMMA SecretsDonePInv == PInv /\ SecretsDone => PInv'
<1> SUFFICES ASSUME PInv, SecretsDone
             PROVE  PInv'
  OBVIOUS
<1>1. /\ Turn("secrets") /\ sub > Len(specs[at].secrets) /\ Traced("continue", {})
      /\ UNCHANGED <<req, body_capture, applied>>
  BY DEF SecretsDone
<1>2. "continue" \in Verdict /\ {} \in Content /\ body_capture \in Content
  BY DEF Verdict, Content, PInv, Copies
<1> QED
  BY <1>1, <1>2, TracedPInv

\* The end of the pipeline.
LEMMA PermitPInv == PInv /\ Permit => PInv'
<1> SUFFICES ASSUME PInv, Permit
             PROVE  PInv'
  OBVIOUS
<1>1. Flow /\ Admitted /\ Custody /\ Required /\ Copies
  BY DEF PInv
<1>2. UNCHANGED <<specs, req, at, sub, body_capture, request_path, applied>>
  BY DEF Permit
<1>3. Flow'
  BY <1>1, PermitFlow
<1>4. Admitted'
  BY <1>1, <1>2, AdmittedStep
<1>5. Custody'
  <2>1. at \in Nat
    BY <1>1 DEF Flow
  <2> QED
    BY <1>1, <1>2, <2>1, CustodyLess DEF Custody
<1>6. Required'
  BY <1>1, <1>2, RequiredStep DEF Past
<1>7. Copies'
  BY <1>1, <1>2 DEF Copies
<1> QED
  BY <1>3, <1>4, <1>5, <1>6, <1>7 DEF PInv

\* A step that changes nothing.
LEMMA StutterPInv == PInv /\ UNCHANGED vars => PInv'
<1> SUFFICES ASSUME PInv, UNCHANGED vars
             PROVE  PInv'
  OBVIOUS
<1>1. Flow /\ Admitted /\ Custody /\ Required /\ Copies
  BY DEF PInv
<1>2. UNCHANGED <<specs, req, at, sub, traces, outcome, body_capture, request_path, applied>>
  BY DEF vars
<1>3. Flow'
  BY <1>1, <1>2 DEF Flow, Refused
<1>4. Admitted'
  BY <1>1, <1>2, AdmittedStep
<1>5. Custody'
  <2>1. at \in Nat
    BY <1>1 DEF Flow
  <2> QED
    BY <1>1, <1>2, <2>1, CustodyLess DEF Custody
<1>6. Required'
  BY <1>1, <1>2, RequiredStep DEF Past
<1>7. Copies'
  BY <1>1, <1>2 DEF Copies
<1> QED
  BY <1>3, <1>4, <1>5, <1>6, <1>7 DEF PInv

\* PInv holds throughout, for every list that loads.
THEOREM PipelineInvariant == Spec => []PInv
<1>1. PInv /\ [Next]_vars => PInv'
  BY AllowlistPInv, AnnotatePInv, HeaderAllowlistPInv, BodyCapturePInv, SkipSecretPInv,
     UnavailablePInv, SwapSecretPInv, SecretsDonePInv, PermitPInv, StutterPInv DEF Next
<1> QED
  BY InitPInv, <1>1, PTL DEF Spec

-----------------------------------------------------------------------------
(* What holds of every run of the pipeline.                                 *)

\* The state is well typed: a trace stands at the index of its transform and
\* a rewritten request is a request.
THEOREM PipelineTypes == Spec => []TypeOK
<1>1. PInv => TypeOK
  <2> SUFFICES ASSUME Flow, Custody, Copies
               PROVE  TypeOK
    BY DEF PInv
  <2>1. /\ specs \in Seq(Transform) /\ at \in 1..(Len(specs) + 1) /\ sub \in Nat
        /\ outcome \in {"running", "continue", "reject", "error"}
    BY DEF Flow
  <2>2. ASSUME NEW i \in DOMAIN traces
        PROVE  /\ traces[i].name = specs[i].name /\ traces[i].seen \in Content
               /\ traces[i].verdict \in {"continue", "reject", "error"}
    <3>1. i \in 1..Len(traces) /\ traces[i] \in Trace
      BY DEF Flow
    <3>2. traces[i].name = specs[i].name
      BY <3>1 DEF Flow
    <3> QED
      BY <3>1, <3>2 DEF Trace, Verdict
  <2> QED
    BY <2>1, <2>2 DEF TypeOK, Custody, Copies
<1> QED
  BY PipelineInvariant, <1>1, PTL

\* Default deny: whatever the list, the AllowProof is only made for a host
\* that every allowlist of it admits or warns about, and there is one.
THEOREM PipelineDefaultDeny == Spec => []DefaultDeny
<1>1. PInv => DefaultDeny
  <2> SUFFICES ASSUME Flow, Admitted, outcome = "continue"
               PROVE  /\ \E i \in DOMAIN specs : specs[i].name = "allowlist"
                      /\ \A i \in DOMAIN specs : specs[i].name = "allowlist" =>
                              req.host \in specs[i].hosts \/ specs[i].warn
    BY DEF PInv, DefaultDeny
  <2>1. \E i \in DOMAIN specs : specs[i].name = "allowlist"
    BY DEF Flow, Loads
  <2>2. specs \in Seq(Transform) /\ at = Len(specs) + 1
    BY DEF Flow
  <2>3. DOMAIN specs = 1..(at - 1)
    BY <2>2
  <2> QED
    BY <2>1, <2>3 DEF Admitted
<1> QED
  BY PipelineInvariant, <1>1, PTL

\* Custody: a credential in the request was swapped in for the request's own
\* host, and no swapped token is left where its secret looked for it.
THEOREM PipelineCustody == Spec => []CustodyKept
<1>1. PInv => CustodyKept
  <2> SUFFICES ASSUME Custody
               PROVE  CustodyKept
    BY DEF PInv
  <2>1. ASSUME NEW v \in Everywhere \cap Credential
        PROVE  \E p \in applied : /\ specs[p[1]].secrets[p[2]].value = v
                                  /\ req.host \in specs[p[1]].secrets[p[2]].rules.hosts
    <3>1. \E i, j \in Nat : <<i, j>> \in applied /\ At(i, j).value = v
      <4>1. HeadersAccounted /\ QueryAccounted /\ PathAccounted /\ BodyAccounted
        BY DEF Custody
      <4>2. CASE v \in UNION {req.headers[h] : h \in Header}
        BY <4>1, <4>2 DEF HeadersAccounted
      <4>3. CASE v \in req.query
        BY <4>1, <4>3, Zenon DEF QueryAccounted
      <4>4. CASE v \in req.path
        BY <4>1, <4>4 DEF PathAccounted
      <4>5. CASE v \in req.body
        BY <4>1, <4>5 DEF BodyAccounted
      <4>6. \/ v \in UNION {req.headers[h] : h \in Header}
            \/ v \in req.query \/ v \in req.path \/ v \in req.body
        BY Zenon DEF Everywhere
      <4> QED
        BY <4>2, <4>3, <4>4, <4>5, <4>6, Zenon
    <3>2. PICK i \in Nat, j \in Nat : <<i, j>> \in applied /\ At(i, j).value = v
      BY <3>1
    <3>3. req.host \in At(i, j).rules.hosts
      BY <3>2, Zenon DEF Custody, Swapped
    <3> QED
      BY <3>2, <3>3, Zenon DEF At
  <2>2. ASSUME NEW p \in applied
        PROVE  LET s == specs[p[1]].secrets[p[2]] IN
               /\ \A h \in Header : selected(s, h) => s.token \notin req.headers[h]
               /\ s.query => s.token \notin req.query
               /\ s.path => s.token \notin req.path
               /\ s.body => s.token \notin req.body
    <3>1. PICK i \in Nat, j \in Nat : p = <<i, j>>
      BY DEF Custody
    <3>2. Swapped(i, j) /\ p[1] = i /\ p[2] = j
      BY <3>1 DEF Custody
    <3> QED
      BY <3>2, Zenon DEF Swapped, At
  <2> QED
    BY <2>1, <2>2, Zenon DEF CustodyKept
<1> QED
  BY PipelineInvariant, <1>1, PTL

\* A required secret is never bypassed: a request that is let through has had
\* every one swapped in that is meant for its host and asks nothing of the
\* path, whatever other transforms and secrets the list has.
THEOREM PipelineRequired == Spec => []RequiredSwapped
<1>1. PInv => RequiredSwapped
  <2> SUFFICES ASSUME Flow, Required, outcome = "continue",
                      NEW i \in DOMAIN specs, specs[i].name = "secrets",
                      NEW j \in DOMAIN specs[i].secrets,
                      At(i, j).require, req.host \in At(i, j).rules.hosts,
                      ~At(i, j).rules.literal
               PROVE  <<i, j>> \in applied /\ traces[i].verdict = "continue"
    BY Zenon DEF PInv, RequiredSwapped, At
  <2>1. specs \in Seq(Transform) /\ at = Len(specs) + 1
    BY Zenon DEF Flow
  <2>2. i \in Nat /\ i < at /\ i \in 1..(at - 1) /\ specs[i] \in Transform
    BY <2>1
  <2>3. j \in Nat
    BY <2>2, SecretsTyped
  <2>4. <<i, j>> \in applied
    BY <2>2, <2>3, Zenon DEF Required, IsSecret, Past
  <2>5. traces[i].verdict = "continue"
    BY <2>2, Zenon DEF Flow
  <2> QED
    BY <2>4, <2>5, Zenon
<1> QED
  BY PipelineInvariant, <1>1, PTL

\* An over-cap body is read-only: no credential gets into a body of which
\* only a prefix was seen.
THEOREM PipelineOverCap == Spec => []OverCapReadOnly
<1>1. PInv => OverCapReadOnly
  <2> SUFFICES ASSUME Custody, req.overCap, NEW v \in req.body \cap Credential
               PROVE  FALSE
    BY DEF PInv, OverCapReadOnly
  <2>1. PICK i \in Nat, j \in Nat : <<i, j>> \in applied /\ At(i, j).body
    BY DEF Custody, BodyAccounted
  <2>2. Swapped(i, j)
    BY <2>1 DEF Custody
  <2> QED
    BY <2>1, <2>2, Zenon DEF Swapped
<1> QED
  BY PipelineInvariant, <1>1, PTL

\* The traces tell the outcome: one per transform that returned, only the last
\* a refusal, and then the outcome.
THEOREM PipelineTraces == Spec => []TracesTellTheOutcome
<1>1. PInv => TracesTellTheOutcome
  <2> SUFFICES ASSUME Flow
               PROVE  TracesTellTheOutcome
    BY DEF PInv
  <2>1. /\ specs \in Seq(Transform) /\ at \in Nat /\ 1 <= at /\ traces \in Seq(Trace)
        /\ Len(traces) = IF Refused THEN at ELSE at - 1
        /\ \A i \in 1..(at - 1) : traces[i].verdict = "continue"
        /\ Refused => traces[at].verdict = outcome
    BY DEF Flow
  <2>2. ASSUME NEW i \in DOMAIN traces, traces[i].verdict # "continue"
        PROVE  i = Len(traces) /\ outcome = traces[i].verdict
    <3>1. i \in 1..Len(traces) /\ i \notin 1..(at - 1)
      BY <2>1, <2>2
    <3>2. Refused /\ i = at
      BY <2>1, <3>1
    <3> QED
      BY <2>1, <3>2
  <2>3. outcome = "continue" => Len(traces) = Len(specs)
    BY <2>1, SMTT(30) DEF Flow, Refused
  <2>4. Refused => traces # <<>> /\ traces[Len(traces)].verdict = outcome
    BY <2>1
  <2> QED
    BY <2>2, <2>3, <2>4 DEF TracesTellTheOutcome, Refused
<1> QED
  BY PipelineInvariant, <1>1, PTL

-----------------------------------------------------------------------------
(* The record.                                                              *)

\* The single body_capture runs before any body-matching secrets.
LEMMA CapturedBodyClean ==
    ASSUME Flow, Custody, Plain(specs), Turn("body_capture")
    PROVE  req.body \cap Credential = {}
<1> SUFFICES ASSUME NEW v \in req.body \cap Credential
             PROVE  FALSE
  OBVIOUS
<1>1. PICK i \in Nat, j \in Nat : <<i, j>> \in applied /\ At(i, j).body
  BY DEF Custody, BodyAccounted
<1>2. IsSecret(i, j) /\ i <= at
  BY <1>1, Zenon DEF Custody, Swapped
<1>3. at \in DOMAIN specs /\ captures_body(specs[at])
  <2>1. specs \in Seq(Transform) /\ at \in 1..Len(specs) /\ specs[at].name = "body_capture"
    BY DEF Flow, Turn
  <2>2. at \in DOMAIN specs
    BY <2>1
  <2> QED
    BY <2>1, <2>2, Zenon DEF captures_body
<1>4. i \in DOMAIN specs /\ swaps_body(specs[i])
  BY <1>1, <1>2 DEF IsSecret, swaps_body, At
<1>5. PICK c \in DOMAIN specs : captures_body(specs[c]) /\ c < i
  BY <1>3, <1>4, Zenon DEF Flow, Loads, body_capture_ordering
<1>6. c = at
  BY <1>3, <1>5 DEF Plain, captures_body
<1> QED
  BY <1>2, <1>5, <1>6 DEF Flow

\* No header an annotate reads was rewritten by a secrets transform before it.
LEMMA AnnotatedHeaderClean ==
    ASSUME Flow, Custody, Plain(specs), Turn("annotate"), NEW h \in specs[at].headers
    PROVE  req.headers[h] \cap Credential = {}
<1> SUFFICES ASSUME NEW v \in req.headers[h] \cap Credential
             PROVE  FALSE
  OBVIOUS
<1>1. at \in DOMAIN specs /\ specs[at] \in Transform /\ specs[at].name = "annotate" /\ at \in Nat
  BY DEF Flow, Turn
<1>2. h \in Header
  BY <1>1, FilterTyped, Zenon
<1>3. PICK i \in Nat, j \in Nat : <<i, j>> \in applied /\ selected(At(i, j), h)
  BY <1>2, Zenon DEF Custody, HeadersAccounted
<1>4. IsSecret(i, j) /\ i <= at
  BY <1>3, Zenon DEF Custody, Swapped
<1>5. /\ i \in DOMAIN specs /\ specs[i].name = "secrets" /\ j \in DOMAIN specs[i].secrets
      /\ At(i, j) \in Secret
  BY <1>4, SecretTyped DEF IsSecret
<1>6. i \in 1..(at - 1)
  <2>1. specs \in Seq(Transform)
    BY Zenon DEF Flow
  <2>2. i # at
    BY <1>1, <1>5
  <2>3. i \in 1..Len(specs)
    BY <1>5, <2>1
  <2> QED
    BY <1>1, <1>4, <2>2, <2>3
<1>7. At(i, j).headers.form \in {"absent", "empty", "list"}
  <2>1. At(i, j).headers.form # "null"
    BY <1>5 DEF Plain, At
  <2> QED
    BY <1>5, <2>1 DEF Secret, MatchHeaders
<1>8. h \in secret_swap_headers(specs[i])
  <2>1. CASE At(i, j).headers.form \in {"absent", "empty"}
    BY <1>2, <1>5, <2>1 DEF secret_swap_headers, At
  <2>2. CASE At(i, j).headers.form = "list"
    BY <1>3, <1>5, <2>2, Zenon DEF secret_swap_headers, At, selected
  <2> QED
    BY <1>7, <2>1, <2>2
<1>9. specs[at].headers \cap secret_swap_headers(specs[i]) = {}
  BY <1>1, <1>5, <1>6, Zenon DEF Flow, Loads, annotate_after_secret_swap
<1> QED
  BY <1>8, <1>9

\* A step that adds a trace that repeats no credential.
LEMMA TracedClean ==
    ASSUME Flow, RecordHoldsNoCredential, NEW v, NEW seen, Traced(v, seen),
           seen \cap Credential = {}, body_capture' \cap Credential = {}
    PROVE  RecordHoldsNoCredential'
<1> DEFINE tr == [name |-> specs[at].name, verdict |-> v, seen |-> seen]
<1>1. traces' = Append(traces, tr) /\ request_path' = request_path
  BY DEF Traced
<1>2. tr.seen = seen
  OBVIOUS
<1> HIDE DEF tr
<1>3. traces \in Seq(Trace)
  BY DEF Flow
<1>4. \A i \in DOMAIN traces' : traces'[i].seen \cap Credential = {}
  <2> TAKE i \in DOMAIN traces'
  <2>1. (i \in DOMAIN traces /\ traces'[i] = traces[i]) \/ traces'[i] = tr
    BY <1>1, <1>3
  <2> QED
    BY <1>2, <2>1 DEF RecordHoldsNoCredential
<1> QED
  BY <1>1, <1>4 DEF RecordHoldsNoCredential

\* A step that writes nothing into the record leaves it as clean as it was.
LEMMA UntracedClean ==
    ASSUME RecordHoldsNoCredential, UNCHANGED <<traces, body_capture, request_path>>
    PROVE  RecordHoldsNoCredential'
BY DEF RecordHoldsNoCredential

\* The audit record holds no credential, for every list that loads, has one
\* body_capture at most and spells no match_headers as null: what the two
\* load checks compare is then enough, whatever stands between.
THEOREM PipelineRecord == Spec => [](Plain(specs) => RecordHoldsNoCredential)
<1>1. Init => RecordHoldsNoCredential
  <2> SUFFICES ASSUME Init
               PROVE  RecordHoldsNoCredential
    OBVIOUS
  <2>1. req.path \subseteq Token
    BY RequestsAssumption DEF Init
  <2> QED
    BY <2>1, DisjointAssumption DEF Init, RecordHoldsNoCredential
<1>2. ASSUME PInv, Plain(specs), RecordHoldsNoCredential, [Next]_vars
      PROVE  RecordHoldsNoCredential'
  <2>1. Flow /\ Custody /\ body_capture \cap Credential = {} /\ {} \cap Credential = {}
    BY <1>2 DEF PInv, RecordHoldsNoCredential
  <2>2. CASE Allowlist
    BY <1>2, <2>1, <2>2, TracedClean DEF Allowlist
  <2>3. CASE Annotate
    <3>1. PICK seen : /\ Traced("continue", seen) /\ Turn("annotate") /\ body_capture' = body_capture
                      /\ seen = {} \/ seen = UNION {req.headers[h] : h \in specs[at].headers}
      BY <2>3 DEF Annotate
    <3>2. seen \cap Credential = {}
      BY <1>2, <2>1, <3>1, AnnotatedHeaderClean, Zenon
    <3> QED
      BY <1>2, <2>1, <3>1, <3>2, TracedClean
  <2>4. CASE HeaderAllowlist
    BY <1>2, <2>1, <2>4, TracedClean DEF HeaderAllowlist
  <2>5. CASE BodyCapture
    <3>1. /\ Traced("continue", {}) /\ Turn("body_capture")
          /\ body_capture' = req.body \/ body_capture' = body_capture
      BY <2>5 DEF BodyCapture
    <3>2. body_capture' \cap Credential = {}
      BY <1>2, <2>1, <3>1, CapturedBodyClean
    <3> QED
      BY <1>2, <2>1, <3>1, <3>2, TracedClean
  <2>6. CASE SkipSecret
    BY <1>2, <2>6, UntracedClean DEF SkipSecret, NextSecret
  <2>7. CASE Unavailable
    <3>1. body_capture' = body_capture /\ (Traced("reject", {}) \/ NextSecret)
      BY <2>7 DEF Unavailable
    <3> QED
      BY <1>2, <2>1, <3>1, TracedClean, UntracedClean DEF NextSecret
  <2>8. CASE SwapSecret
    <3>1. /\ body_capture' = body_capture
          /\ Traced("error", {}) \/ Traced("reject", {}) \/ NextSecret
      BY <2>8 DEF SwapSecret
    <3> QED
      BY <1>2, <2>1, <3>1, TracedClean, UntracedClean DEF NextSecret
  <2>9. CASE SecretsDone
    BY <1>2, <2>1, <2>9, TracedClean DEF SecretsDone
  <2>10. CASE Permit \/ UNCHANGED vars
    BY <1>2, <2>10, UntracedClean DEF Permit, vars
  <2> QED
    BY <1>2, <2>2, <2>3, <2>4, <2>5, <2>6, <2>7, <2>8, <2>9, <2>10 DEF Next
<1>3. PInv /\ [Next]_vars => specs' = specs
  BY DEF Next, Allowlist, Annotate, HeaderAllowlist, BodyCapture, SkipSecret, Unavailable,
         SwapSecret, SecretsDone, Permit, Traced, NextSecret, vars
<1> DEFINE Clean == Plain(specs) => RecordHoldsNoCredential
<1>4. Init => Clean
  BY <1>1
<1>5. PInv /\ Clean /\ [Next]_vars => Clean'
  BY <1>2, <1>3
<1> QED
  BY PipelineInvariant, <1>4, <1>5, PTL DEF Spec
=============================================================================
