------------------------ MODULE RequestHandlerProofs ------------------------
(***************************************************************************)
(* Proofs about RequestHandler, for any set of requests, runtimes, hosts,  *)
(* addresses and policies: its safety invariants hold, and it implements   *)
(* EgressBoundary.                                                         *)
(***************************************************************************)
EXTENDS RequestHandler, TLAPS

Serving == PC \ {"idle", "done"}
Dialling == {"dial", "connect", "tls", "send"}

\* What a handler knows at each of its program points: before it dials, no
\* address; from the pipeline on, a verdict to continue; in the address loop,
\* a next address; after connect(), an address that was tried.
Located(r) ==
    /\ pc[r] # "idle" => rt[r] \in Config /\ host[r] \in Host \cup {Empty}
    /\ pc[r] \in Serving => host[r] \in Host
    /\ pc[r] \in {"idle", "body", "evaluate", "resolve"} =>
            addrs[r] = <<>> /\ tried[r] = <<>>
    /\ pc[r] \in {"resolve"} \cup Dialling => Judged(r) = "continue"
    /\ pc[r] = "dial" => Len(tried[r]) < Len(addrs[r])
    /\ pc[r] \in {"connect", "tls", "send"} => tried[r] # <<>>
    /\ pc[r] = "idle" => rt[r] = Absent
    /\ pc[r] = "body" => ~overCap[r] /\ len[r] <= Cap[rt[r]]
    /\ pc[r] \in Serving \ {"body"} => (overCap[r] <=> len[r] > Cap[rt[r]])
    /\ pc[r] # "done" => reply[r] = NoStatus /\ ~gone[r]
    /\ pc[r] = "idle" => len[r] = 0 /\ ~overCap[r]

\* The invariants about dials and buffer, for one request.
Dialled(r) ==
    /\ tried[r] # <<>> => Judged(r) = "continue"
    /\ Len(tried[r]) <= Len(addrs[r])
    /\ \A i \in 1..Len(tried[r]) : /\ tried[r][i] = addrs[r][i]
                                   /\ addrs[r][i] \notin Deny[rt[r]]
    /\ rt[r] # Absent => len[r] <= Cap[rt[r]] + MaxFrame

\* All the invariants for one request, its record included.
Safe(r) ==
    /\ Len(log[r]) = IF pc[r] = "done" THEN 1 ELSE 0
    /\ Dialled(r)
    /\ \A i \in DOMAIN log[r] : RecordTrue(r, log[r][i])

\* The inductive invariant.
HandlerInv == TypeOK /\ \A r \in Request : Located(r) /\ Safe(r)

\* A step that leaves the handler of q alone.
Same(q) ==
    /\ pc'[q] = pc[q] /\ rt'[q] = rt[q] /\ conn'[q] = conn[q] /\ head'[q] = head[q]
    /\ host'[q] = host[q] /\ len'[q] = len[q] /\ overCap'[q] = overCap[q]
    /\ addrs'[q] = addrs[q] /\ tried'[q] = tried[q] /\ log'[q] = log[q]
    /\ reply'[q] = reply[q] /\ gone'[q] = gone[q]

-----------------------------------------------------------------------------
(* Lemmas about the helpers.                                                *)

\* A head that passes resolve_target names a host; one that does not is
\* recorded with a host or with the empty name.
LEMMA ResolveTarget ==
    ASSUME NEW ctx \in ConnCtx, NEW hd \in RequestHead
    PROVE  /\ resolve_target(ctx, hd).ok \in BOOLEAN
           /\ resolve_target(ctx, hd).host \in Host \cup {Empty}
           /\ resolve_target(ctx, hd).ok => resolve_target(ctx, hd).host \in Host
<1> DEFINE e == extract_target(hd)
<1>1. /\ hd.authority \in Host \cup {Absent}
      /\ hd.host \in Host \cup {Empty, Absent}
      /\ ctx.forced \in Host \cup {Absent}
  BY DEF RequestHead, ConnCtx, Name
<1>2. /\ e.ok \in BOOLEAN
      /\ e.host \in Host \cup {Empty}
      /\ e.ok => e.host \in Host
  <2>1. CASE hd.authority # Absent
    <3>1. e = [ok |-> hd.host \in {Absent, hd.authority}, host |-> hd.authority]
      BY <2>1 DEF extract_target, Target
    <3>2. QED
      BY <3>1, <2>1, <1>1
  <2>2. CASE hd.authority = Absent /\ hd.host \in Host
    BY <2>2 DEF extract_target, Target
  <2>3. CASE hd.authority = Absent /\ hd.host \notin Host
    BY <2>3 DEF extract_target, Target
  <2>4. QED
    BY <2>1, <2>2, <2>3
<1>3. CASE ctx.forced # Absent
  BY <1>3, <1>1 DEF resolve_target, Target
<1>4. CASE ctx.forced = Absent /\ e.ok /\ ctx.sni # Absent
  <2>1. resolve_target(ctx, hd) = [ok |-> ctx.sni = e.host, host |-> e.host]
    BY <1>4 DEF resolve_target, Target
  <2>2. QED
    BY <2>1, <1>2, <1>4
<1>5. CASE ctx.forced = Absent /\ ~(e.ok /\ ctx.sni # Absent)
  BY <1>2, <1>5 DEF resolve_target
<1>6. QED
  BY <1>3, <1>4, <1>5

\* The first record of a request is the only one.
LEMMA OneRecord ==
    ASSUME NEW S, NEW rec \in S, NEW l \in Seq(S), Len(l) = 0
    PROVE  /\ Append(l, rec) \in Seq(S)
           /\ Len(Append(l, rec)) = 1
           /\ DOMAIN Append(l, rec) = {1}
           /\ Append(l, rec)[1] = rec
<1>1. Len(Append(l, rec)) = 1 /\ Append(l, rec) \in Seq(S) /\ Append(l, rec)[1] = rec
  OBVIOUS
<1>2. DOMAIN Append(l, rec) = 1..1
  BY <1>1
<1>3. QED
  BY <1>1, <1>2

\* A sequence that is not empty has a first element, and one after any proper
\* prefix.
LEMMA NotEmpty ==
    ASSUME NEW S, NEW l \in Seq(S), l # <<>>
    PROVE  Len(l) \in Nat /\ Len(l) > 0
OBVIOUS

\* The length of a sequence is a natural number.
LEMMA LenTyped ==
    ASSUME NEW S, NEW l \in Seq(S)
    PROVE  Len(l) \in Nat
OBVIOUS

\* After a proper prefix there is an element.
LEMMA NextElement ==
    ASSUME NEW S, NEW l \in Seq(S), NEW n \in Nat, n < Len(l)
    PROVE  l[n + 1] \in S
<1>1. n + 1 \in 1..Len(l)
  OBVIOUS
<1>2. QED
  BY <1>1

\* The actions in a log of one record.
LEMMA OneAction ==
    ASSUME NEW l, DOMAIN l = {1}, NEW a, l[1].action = a
    PROVE  [i \in DOMAIN l |-> l[i].action] = <<a>>
<1>1. [i \in DOMAIN l |-> l[i].action] = [i \in 1..1 |-> a]
  OBVIOUS
<1>2. QED
  BY <1>1

-----------------------------------------------------------------------------
(* The invariant is inductive.                                              *)

\* The bounds on what is buffered are natural numbers.
LEMMA CapTyped ==
    ASSUME NEW c \in Config
    PROVE  Cap[c] \in Nat /\ MaxFrame \in Nat /\ c # Absent
<1>1. Cap \in [Config -> Nat] /\ MaxFrame \in Nat
  BY PolicyAssumption
<1>2. QED
  BY <1>1, AbsentNoConfig

\* A request that has dialled nothing has dialled nothing it may not.
LEMMA NoDials ==
    ASSUME NEW r \in Request, tried'[r] = <<>>, Len(addrs'[r]) \in Nat,
           rt'[r] # Absent => len'[r] <= Cap[rt'[r]] + MaxFrame
    PROVE  Dialled(r)'
<1>1. Len(tried'[r]) = 0
  OBVIOUS
<1>2. 1..Len(tried'[r]) = {}
  BY <1>1
<1>3. Len(tried'[r]) <= Len(addrs'[r])
  BY <1>1
<1>4. QED
  BY <1>2, <1>3 DEF Dialled

\* What was dialled stays justified while nothing it rests on changes.
LEMMA SameDials ==
    ASSUME NEW r \in Request, Dialled(r),
           rt'[r] = rt[r], host'[r] = host[r], len'[r] = len[r],
           overCap'[r] = overCap[r], addrs'[r] = addrs[r], tried'[r] = tried[r]
    PROVE  Dialled(r)'
BY Zenon DEF Dialled, Judged

\* What is true of a handler stays true while the handler is left alone.
LEMMA Frame ==
    ASSUME NEW q \in Request, Same(q), Located(q), Safe(q)
    PROVE  Located(q)' /\ Safe(q)'
<1>1. Located(q)'
  BY DEF Same, Located, Judged, Serving, Dialling
<1>2. Safe(q)'
  <2>1. Dialled(q)'
    BY SameDials DEF Same, Safe
  <2>2. ASSUME NEW i \in DOMAIN log'[q] PROVE RecordTrue(q, log[q][i])'
    <3>1. RecordTrue(q, log[q][i])
      BY Zenon DEF Same, Safe
    <3>2. /\ reply'[q] = reply[q] /\ gone'[q] = gone[q] /\ tried'[q] = tried[q]
          /\ addrs'[q] = addrs[q] /\ rt'[q] = rt[q] /\ log'[q] = log[q]
      BY DEF Same
    <3>3. Judged(q)' = Judged(q)
      BY DEF Same, Judged
    <3>4. log'[q][i] = log[q][i]
      BY <3>2, Zenon
    <3>5. ListenerTrue(q, log[q][i])'
      <4>1. ListenerTrue(q, log[q][i])
        BY <3>1, Zenon DEF RecordTrue
      <4>2. QED
        BY <3>2, <3>4, <4>1 DEF ListenerTrue
    <3>6. QED
      BY <3>1, <3>2, <3>3, <3>4, <3>5, Zenon DEF RecordTrue
  <2>3. QED
    BY <2>1, <2>2 DEF Same, Safe
<1>3. QED
  BY <1>1, <1>2

\* So a step of one handler preserves the invariant if it does for that one.
LEMMA StepOfOne ==
    ASSUME HandlerInv, NEW r \in Request,
           TypeOK', Located(r)', Safe(r)',
           \A q \in Request \ {r} : Same(q)
    PROVE  HandlerInv'
<1>1. ASSUME NEW q \in Request PROVE (Located(q) /\ Safe(q))'
  <2>1. CASE q = r
    BY <2>1
  <2>2. CASE q # r
    BY <2>2, Frame DEF HandlerInv
  <2>3. QED
    BY <2>1, <2>2
<1>2. QED
  BY <1>1 DEF HandlerInv

\* A handler that has not ended has no record, so none that could be false.
LEMMA StillOpen ==
    ASSUME TypeOK, NEW r \in Request, Safe(r), pc[r] # "done",
           log' = log, pc'[r] # "done", Dialled(r)'
    PROVE  Safe(r)'
<1>1. log'[r] \in Seq(AuditRecord) /\ Len(log'[r]) = 0
  BY DEF TypeOK, Safe
<1>2. DOMAIN log'[r] = {}
  BY <1>1
<1>3. QED
  BY <1>1, <1>2 DEF Safe

\* One that has ended has one, and it must be true.
LEMMA Settled ==
    ASSUME NEW r \in Request, pc'[r] = "done", Len(log'[r]) = 1, DOMAIN log'[r] = {1},
           RecordTrue(r, log[r][1])', Dialled(r)'
    PROVE  Safe(r)'
BY DEF Safe

\* No request has arrived.
LEMMA InitInv == Init => HandlerInv
<1> SUFFICES ASSUME Init PROVE HandlerInv
  OBVIOUS
<1>1. TypeOK
  BY DEF Init, TypeOK, PC, Suspended, ConnCtx, RequestHead, NoConn, NoHead, Name, NoStatus
<1>2. ASSUME NEW r \in Request PROVE Located(r) /\ Safe(r)
  BY AbsentNoConfig DEF Init, Located, Safe, Dialled, Serving, Dialling, PC, NoStatus
<1>3. QED
  BY <1>1, <1>2 DEF HandlerInv

\* A reload changes no request that has its runtime.
LEMMA SwapInv ==
    ASSUME HandlerInv, NEW c \in Config, Swap(c)
    PROVE  HandlerInv'
<1>1. TypeOK'
  BY DEF HandlerInv, TypeOK, Swap, input, body, dial
<1>2. ASSUME NEW q \in Request PROVE (Located(q) /\ Safe(q))'
  BY Frame DEF HandlerInv, Swap, Same, input, body, dial
<1>3. QED
  BY <1>1, <1>2 DEF HandlerInv

AuditAction == {"allow", "reject", "stub", "error", "client_cancel"}
AuditBy == {"none", "listener", "transform", "guard"}

\* The step gives r its first record and no other request one.
Logged(r, action, by, status) ==
    /\ log' \in [Request -> Seq(AuditRecord)]
    /\ Len(log'[r]) = 1
    /\ DOMAIN log'[r] = {1}
    /\ log'[r][1].action = action /\ log'[r][1].by = by /\ log'[r][1].status = status
    /\ \A q \in Request \ {r} : log'[q] = log[q]

\* The actions of a record and what it is by are the ones the handler uses.
LEMMA AuditWords ==
    /\ "none" \in AuditBy /\ "listener" \in AuditBy /\ "transform" \in AuditBy
    /\ "guard" \in AuditBy /\ "allow" \in AuditAction /\ "reject" \in AuditAction
    /\ "stub" \in AuditAction /\ "error" \in AuditAction /\ "client_cancel" \in AuditAction
BY DEF AuditAction, AuditBy

\* Emitting for a request that is still open gives it its one record.
LEMMA Emitted ==
    ASSUME TypeOK, NEW r \in Request, Safe(r), pc[r] # "done",
           NEW action \in AuditAction,
           NEW by \in AuditBy,
           NEW status \in Nat, NEW h \in Host \cup {Empty},
           Emit(r, action, by, status, h)
    PROVE  Logged(r, action, by, status)
<1> DEFINE rec == [action |-> action, by |-> by, status |-> status, host |-> h]
<1>1. log[r] \in Seq(AuditRecord) /\ Len(log[r]) = 0
  BY DEF TypeOK, Safe
<1>0. rec \in AuditRecord
  BY DEF AuditRecord, AuditAction, AuditBy
<1>2. /\ Append(log[r], rec) \in Seq(AuditRecord)
      /\ Len(Append(log[r], rec)) = 1
      /\ DOMAIN Append(log[r], rec) = {1}
      /\ Append(log[r], rec)[1] = rec
  BY <1>0, <1>1, OneRecord
<1>3. log' = [log EXCEPT ![r] = Append(log[r], rec)]
  BY DEF Emit
<1>4. log'[r] = Append(log[r], rec)
  BY <1>3 DEF TypeOK
<1> HIDE DEF rec
<1>5. log' \in [Request -> Seq(AuditRecord)] /\ \A q \in Request \ {r} : log'[q] = log[q]
  BY <1>2, <1>3 DEF TypeOK
<1>6. QED
  BY <1>2, <1>4, <1>5 DEF rec, Logged

\* What must hold for an exit through Finish to record action and by.
Warranted(r, action, by) ==
    /\ action = "allow" => Judged(r) = "continue" /\ tried[r] # <<>>
    /\ by # "listener"
    /\ by = "transform" \/ action = "stub" =>
           \/ Judged(r) = action /\ addrs'[r] = <<>>
           \/ OnResponse[rt[r]] = action /\ tried[r] # <<>>
    /\ by = "guard" => /\ Len(tried[r]) < Len(addrs'[r])
                       /\ addrs'[r][Len(tried[r]) + 1] \in Deny[rt[r]]

\* An error that no rule and no guard caused claims nothing.
LEMMA ErrorWarranted ==
    ASSUME NEW r \in Request
    PROVE  Warranted(r, "error", "none")
BY DEF Warranted

\* An exit of `handle` through Finish preserves the invariant, provided what
\* it records is true.
LEMMA FinishInv ==
    ASSUME HandlerInv, NEW r \in Request, pc[r] \in Serving,
           NEW action \in AuditAction, action # "client_cancel",
           NEW by \in AuditBy,
           NEW status \in Nat \ {NoStatus},
           Finish(r, action, by, status),
           UNCHANGED <<input, body, tried>>,
           addrs' \in [Request -> Seq(Addr)],
           \A q \in Request \ {r} : addrs'[q] = addrs[q],
           tried[r] # <<>> => addrs'[r] = addrs[r],
           Warranted(r, action, by)
    PROVE  HandlerInv'
<1>1. TypeOK /\ Located(r) /\ Safe(r) /\ pc[r] # "done" /\ pc[r] # "idle"
  BY DEF HandlerInv, Serving
<1>2. host[r] \in Host \cup {Empty}
  BY <1>1, Zenon DEF Located
<1>3. Logged(r, action, by, status)
  <2>1. Emit(r, action, by, status, host[r])
    BY Zenon DEF Finish
  <2>2. status \in Nat
    BY Zenon
  <2> QED
    BY <1>1, <1>2, <2>1, <2>2, Emitted, Zenon
<1>4. /\ pc' = [pc EXCEPT ![r] = "done"] /\ reply' = [reply EXCEPT ![r] = status]
      /\ UNCHANGED <<installed, gone, rt, conn, head, host, len, overCap, tried>>
  BY Zenon DEF Finish, input, body
<1>5. TypeOK'
  BY <1>1, <1>3, <1>4, Zenon DEF Logged, TypeOK, PC, Suspended
<1>6. \A q \in Request \ {r} : Same(q)
  BY <1>1, <1>3, <1>4, Zenon DEF Logged, Same, TypeOK
<1>7. pc'[r] = "done" /\ reply'[r] = status
  BY <1>1, <1>4 DEF TypeOK
<1>8. Located(r)'
  BY <1>1, <1>4, <1>7, Zenon DEF Located, Serving, Dialling
<1>9. Safe(r)'
  <2>1. RecordTrue(r, log[r][1])'
    <3>1. Judged(r)' = Judged(r) /\ rt' = rt /\ tried' = tried
      BY <1>4, Zenon DEF Judged
    <3>2. status # NoStatus
      OBVIOUS
    <3>3. QED
      BY <1>3, <1>7, <3>1, <3>2, Zenon DEF Logged, RecordTrue, ListenerTrue, Warranted
  <2>2. Dialled(r)'
    <3>1. CASE tried[r] = <<>>
      <4>1. tried'[r] = <<>> /\ Len(addrs'[r]) \in Nat
        <5>1. tried'[r] = <<>> /\ addrs'[r] \in Seq(Addr)
          BY <3>1, <1>4, Zenon
        <5> QED
          BY <5>1
      <4>2. rt'[r] # Absent => len'[r] <= Cap[rt'[r]] + MaxFrame
        BY <1>1, <1>4, Zenon DEF Safe, Dialled
      <4>3. QED
        BY <4>1, <4>2, NoDials, Zenon
    <3>2. CASE tried[r] # <<>>
      BY <3>2, <1>1, <1>4, SameDials, Zenon DEF Safe
    <3>3. QED
      BY <3>1, <3>2, Zenon
  <2>3. QED
    BY <1>3, <1>7, <2>1, <2>2, Settled, ZenonT(30) DEF Logged
<1>10. QED
  BY <1>5, <1>6, <1>8, <1>9, StepOfOne

\* The same for the exits that leave the addresses alone.
LEMMA FinishSame ==
    ASSUME HandlerInv, NEW r \in Request, pc[r] \in Serving,
           NEW action \in AuditAction, action # "client_cancel",
           NEW by \in AuditBy,
           NEW status \in Nat \ {NoStatus},
           Finish(r, action, by, status),
           UNCHANGED <<input, body, dial>>,
           Warranted(r, action, by)
    PROVE  HandlerInv'
<1>1. addrs' = addrs /\ addrs \in [Request -> Seq(Addr)] /\ UNCHANGED <<input, body, tried>>
  BY DEF HandlerInv, TypeOK, dial
<1>2. /\ addrs' \in [Request -> Seq(Addr)]
      /\ \A q \in Request \ {r} : addrs'[q] = addrs[q]
      /\ tried[r] # <<>> => addrs'[r] = addrs[r]
  BY <1>1
<1>3. QED
  BY <1>1, <1>2, FinishInv

\* A handler that ends with an error answer of its own.
LEMMA ErrorInv ==
    ASSUME HandlerInv, NEW r \in Request, pc[r] \in Serving,
           Finish(r, "error", "none", 502), UNCHANGED <<input, body, dial>>
    PROVE  HandlerInv'
<1>1. PICK status \in Nat \ {NoStatus} : Finish(r, "error", "none", status)
  BY DEF NoStatus
<1>2. QED
  BY <1>1, AuditWords, ErrorWarranted, FinishSame

\* Moving on to another program point preserves the invariant if the handler
\* knows what it must know there.
LEMMA GotoInv ==
    ASSUME HandlerInv, NEW r \in Request, pc[r] \in Serving,
           NEW where \in Serving, Goto(r, where),
           UNCHANGED <<input, body, dial>>,
           pc'[r] = where => Located(r)'
    PROVE  HandlerInv'
<1>1. TypeOK /\ Safe(r) /\ pc[r] # "done"
  BY Zenon DEF HandlerInv, Serving
<1>2. /\ pc' = [pc EXCEPT ![r] = where]
      /\ UNCHANGED <<installed, rt, conn, head, host, len, overCap, addrs, tried,
                     log, reply, gone>>
  BY DEF Goto, input, body, dial
<1>3. TypeOK'
  BY <1>1, <1>2 DEF TypeOK, Serving
<1>4. pc'[r] = where /\ where # "done"
  BY <1>1, <1>2 DEF TypeOK, Serving
<1>5. Safe(r)'
  <2>1. Dialled(r)'
    BY <1>1, <1>2, SameDials, Zenon DEF Safe
  <2>2. QED
    BY <1>1, <1>2, <1>4, <2>1, StillOpen
<1>6. \A q \in Request \ {r} : Same(q)
  BY <1>1, <1>2 DEF Same, TypeOK
<1>7. QED
  BY <1>3, <1>4, <1>5, <1>6, StepOfOne

\* An early end of the handler: a record without a status, and no claim in it
\* that could be false.
LEMMA EarlyEndInv ==
    ASSUME HandlerInv, NEW r \in Request, pc[r] \in Serving,
           NEW action \in {"error", "client_cancel"}, NEW h \in Host \cup {Empty},
           pc' = [pc EXCEPT ![r] = "done"],
           Emit(r, action, "none", NoStatus, h),
           UNCHANGED <<installed, input, body, dial>>,
           NEW status \in Nat, reply' = [reply EXCEPT ![r] = status],
           NEW left \in BOOLEAN, gone' = [gone EXCEPT ![r] = left],
           status # NoStatus => left,
           action = "client_cancel" => left /\ addrs[r] = <<>>
    PROVE  HandlerInv'
<1>1. TypeOK /\ Located(r) /\ Safe(r) /\ pc[r] # "done" /\ pc[r] # "idle"
  BY Zenon DEF HandlerInv, Serving
<1>2. NoStatus \in Nat /\ action \in AuditAction
  BY AuditWords DEF NoStatus
<1>3. Logged(r, action, "none", NoStatus)
  BY <1>1, <1>2, AuditWords, Emitted, Zenon
<1>4. UNCHANGED <<rt, conn, head, host, len, overCap, addrs, tried>>
  BY Zenon DEF input, body, dial
<1>5. pc'[r] = "done" /\ reply'[r] = status /\ gone'[r] = left
  BY <1>1 DEF TypeOK
<1>6. TypeOK'
  BY <1>1, <1>3, <1>4, Zenon DEF Logged, TypeOK, PC
<1>7. Located(r)'
  BY <1>1, <1>4, <1>5, Zenon DEF Located, Serving, Dialling
<1>8. Safe(r)'
  <2>1. RecordTrue(r, log[r][1])'
    <3>1. reply'[r] # NoStatus => gone'[r]
      BY <1>5, Zenon
    <3>2. action = "client_cancel" => gone'[r] /\ addrs'[r] = <<>>
      BY <1>4, <1>5, ZenonT(30)
    <3>3. QED
      BY <1>3, <3>1, <3>2, Zenon DEF Logged, RecordTrue, ListenerTrue
  <2>2. Dialled(r)'
    BY <1>1, <1>4, SameDials, Zenon DEF Safe
  <2>3. QED
    BY <1>3, <1>5, <2>1, <2>2, Settled, Zenon DEF Logged
<1>9. \A q \in Request \ {r} : Same(q)
  BY <1>1, <1>3, <1>4, Zenon DEF Logged, Same, TypeOK
<1>10. QED
  BY <1>6, <1>7, <1>8, <1>9, StepOfOne, Zenon

-----------------------------------------------------------------------------
(* Before the dial: the head, the body, the pipeline, the name.             *)

\* A request arrives: the checks of its head, each with its own answer.
LEMMA AcceptInv ==
    ASSUME HandlerInv, NEW r \in Request, NEW ctx \in Legs, NEW hd \in Heads,
           Accept(r, ctx, hd)
    PROVE  HandlerInv'
<1> DEFINE t == resolve_target(ctx, hd)
           refused == ~t.ok \/ hd.dots
<1>1. TypeOK /\ Located(r) /\ Safe(r) /\ pc[r] = "idle" /\ installed \in Config
  BY Zenon DEF HandlerInv, Accept, TypeOK
<1>2. ctx \in ConnCtx /\ hd \in RequestHead
  BY LegsAssumption, HeadsAssumption
<1>3. t.host \in Host \cup {Empty} /\ (t.ok => t.host \in Host)
  BY <1>2, ResolveTarget
<1> HIDE DEF t
<1>4. /\ rt' = [rt EXCEPT ![r] = installed] /\ conn' = [conn EXCEPT ![r] = ctx]
      /\ head' = [head EXCEPT ![r] = hd] /\ host' = [host EXCEPT ![r] = t.host]
      /\ pc' = [pc EXCEPT ![r] = IF refused THEN "done" ELSE "body"]
      /\ UNCHANGED <<installed, len, overCap, addrs, tried, gone>>
  BY DEF Accept, body, dial, t
<1>5. /\ rt'[r] = installed /\ host'[r] = t.host /\ len'[r] = 0 /\ ~overCap'[r]
      /\ addrs'[r] = <<>> /\ tried'[r] = <<>> /\ ~gone'[r]
  BY <1>1, <1>4, Zenon DEF TypeOK, Located
<1>6. len'[r] <= Cap[rt'[r]] /\ len'[r] <= Cap[rt'[r]] + MaxFrame /\ rt'[r] # Absent
  <2>1. Cap[installed] \in Nat /\ MaxFrame \in Nat /\ installed # Absent
    BY <1>1, CapTyped, Zenon
  <2>2. 0 <= Cap[installed] /\ 0 <= Cap[installed] + MaxFrame
    BY <2>1
  <2>3. QED
    BY <1>5, <2>1, <2>2, Zenon
<1>7. CASE refused
  <2> DEFINE status == 400
  <2>1. status \in Nat /\ status # NoStatus
    BY DEF NoStatus
  <2>2. /\ Emit(r, "reject", "listener", status, t.host)
        /\ reply' = [reply EXCEPT ![r] = status]
    BY <1>7 DEF Accept, t
  <2> HIDE DEF status
  <2>3. Logged(r, "reject", "listener", status)
    <3>1. pc[r] # "done"
      BY <1>1, Zenon
    <3>2. QED
      BY <1>1, <1>3, <2>1, <2>2, <3>1, AuditWords, Emitted, Zenon
  <2>4. TypeOK'
    <3>1. pc' = [pc EXCEPT ![r] = "done"]
      BY <1>4, <1>7, ZenonT(30)
    <3>2. pc' \in [Request -> PC] /\ reply' \in [Request -> Nat]
      BY <1>1, <2>1, <2>2, <3>1, Zenon DEF TypeOK, PC
    <3>3. QED
      BY <1>1, <1>2, <1>3, <1>4, <2>3, <3>2, Zenon DEF Logged, TypeOK, Name
  <2>5. pc'[r] = "done" /\ reply'[r] = status
    BY <1>1, <1>4, <1>7, <2>2, Zenon DEF TypeOK
  <2>6. Located(r)'
    BY <1>1, <1>3, <1>5, <2>5, Zenon DEF Located, Serving, Dialling
  <2>7. RecordTrue(r, log[r][1])'
    <3>1. ListenerTrue(r, log[r][1])'
      BY <1>5, <2>3 DEF Logged, ListenerTrue, status
    <3>2. QED
      BY <1>5, <2>1, <2>3, <2>5, <3>1, Zenon DEF Logged, RecordTrue
  <2>8. Safe(r)'
    <3>1. Dialled(r)'
      <4>1. Len(addrs'[r]) \in Nat
        BY <1>5
      <4> QED
        BY <1>5, <1>6, <4>1, NoDials, Zenon
    <3>2. QED
      BY <2>3, <2>5, <2>7, <3>1, Settled, Zenon DEF Logged
  <2>9. ASSUME NEW q \in Request \ {r} PROVE Same(q)
    <3>1. /\ rt'[q] = rt[q] /\ conn'[q] = conn[q] /\ head'[q] = head[q]
          /\ host'[q] = host[q] /\ pc'[q] = pc[q] /\ reply'[q] = reply[q]
      BY <1>1, <1>4, <2>2, Zenon DEF TypeOK
    <3>2. QED
      BY <1>4, <2>3, <3>1, Zenon DEF Logged, Same
  <2>10. QED
    BY <2>4, <2>6, <2>8, <2>9, StepOfOne, Zenon
<1>8. CASE ~refused
  <2>1. UNCHANGED <<log, reply>>
    BY <1>8 DEF Accept, t
  <2>2. TypeOK'
    BY <1>1, <1>2, <1>3, <1>4, <1>8, <2>1, Zenon DEF TypeOK, PC, Suspended, Name
  <2>3. pc'[r] = "body"
    BY <1>1, <1>4, <1>8 DEF TypeOK
  <2>4. t.host \in Host
    BY <1>3, <1>8
  <2>5. Located(r)'
    BY <1>1, <1>5, <1>6, <2>1, <2>3, <2>4, Zenon DEF Located, Serving, Dialling, NoStatus
  <2>6. Safe(r)'
    <3>1. Dialled(r)'
      <4>1. Len(addrs'[r]) \in Nat
        BY <1>5
      <4> QED
        BY <1>5, <1>6, <4>1, NoDials, Zenon
    <3>2. QED
      BY <1>1, <2>1, <2>3, <3>1, StillOpen, Zenon
  <2>7. \A q \in Request \ {r} : Same(q)
    BY <1>1, <1>4, <2>1 DEF Same, TypeOK
  <2>8. QED
    BY <2>2, <2>5, <2>6, <2>7, StepOfOne
<1>9. QED
  BY <1>7, <1>8

\* A frame of the body is buffered, up to the cap.
LEMMA ReadFrameInv ==
    ASSUME HandlerInv, NEW r \in Request, NEW n \in 0..MaxFrame, ReadFrame(r, n)
    PROVE  HandlerInv'
<1> DEFINE over == len[r] + n > Cap[rt[r]]
           where == IF over THEN "evaluate" ELSE "body"
<1>1. TypeOK /\ Located(r) /\ Safe(r) /\ pc[r] = "body"
  BY Zenon DEF HandlerInv, ReadFrame
<1>2. rt[r] \in Config /\ host[r] \in Host /\ addrs[r] = <<>> /\ tried[r] = <<>>
  BY <1>1, Zenon DEF Located, Serving, PC, Suspended
<1>3. Cap[rt[r]] \in Nat /\ MaxFrame \in Nat /\ n \in Nat /\ n <= MaxFrame
      /\ len[r] \in Nat /\ len[r] <= Cap[rt[r]]
  BY <1>1, <1>2, CapTyped DEF TypeOK, Located
<1>4. /\ len' = [len EXCEPT ![r] = len[r] + n]
      /\ overCap' = [overCap EXCEPT ![r] = over]
      /\ pc' = [pc EXCEPT ![r] = where]
      /\ UNCHANGED <<installed, rt, conn, head, host, addrs, tried, log, reply, gone>>
  BY DEF ReadFrame, Goto, input, dial
<1>5. over \in BOOLEAN /\ where \in {"evaluate", "body"} /\ (where = "evaluate" <=> over)
  OBVIOUS
<1>6. /\ pc'[r] = where /\ len'[r] = len[r] + n /\ (overCap'[r] <=> over)
  BY <1>1, <1>4, ZenonT(30) DEF TypeOK
<1>7. TypeOK'
  <2>1. len' \in [Request -> Nat]
    BY <1>1, <1>3, <1>4 DEF TypeOK
  <2>2. overCap' \in [Request -> BOOLEAN] /\ pc' \in [Request -> PC]
    BY <1>1, <1>4, <1>5, Zenon DEF TypeOK, PC, Suspended
  <2>3. QED
    BY <1>1, <1>4, <2>1, <2>2, Zenon DEF TypeOK
<1>8. Located(r)'
  <2>1. /\ len'[r] <= Cap[rt'[r]] \/ where = "evaluate"
        /\ overCap'[r] <=> len'[r] > Cap[rt'[r]]
        /\ where = "body" => ~overCap'[r]
    <3>1. rt' = rt /\ len'[r] = len[r] + n /\ (overCap'[r] <=> over)
      BY <1>4, <1>6, Zenon
    <3>2. rt'[r] = rt[r]
      BY <3>1
    <3>3. (overCap'[r] <=> len'[r] > Cap[rt[r]]) /\ (len'[r] <= Cap[rt[r]] \/ over)
      BY <1>3, <3>1
    <3> QED
      BY <1>5, <3>1, <3>2, <3>3, Zenon
  <2>2. pc'[r] = "body" \/ pc'[r] = "evaluate"
    BY <1>5, <1>6, Zenon
  <2> HIDE DEF over, where
  <2>3. QED
    BY <1>1, <1>2, <1>4, <1>6, <2>1, <2>2, Zenon DEF Located, Dialling
<1>9. Safe(r)'
  <2>1. len'[r] <= Cap[rt'[r]] + MaxFrame
    <3>1. rt' = rt /\ len'[r] = len[r] + n
      BY <1>4, <1>6, Zenon
    <3> QED
      BY <1>3, <3>1
  <2>2. pc'[r] # "done" /\ tried'[r] = <<>> /\ addrs'[r] = <<>>
    BY <1>2, <1>4, <1>5, <1>6, Zenon
  <2> HIDE DEF over, where
  <2>3. Dialled(r)'
    BY <2>1, <2>2, NoDials, Zenon
  <2>4. QED
    BY <1>1, <1>4, <2>2, <2>3, StillOpen, Zenon
<1>10. \A q \in Request \ {r} : Same(q)
  BY <1>1, <1>4, Zenon DEF Same, TypeOK
<1>11. QED
  BY <1>7, <1>8, <1>9, <1>10, StepOfOne

\* The body has ended below the cap.
LEMMA EndOfBodyInv ==
    ASSUME HandlerInv, NEW r \in Request, EndOfBody(r)
    PROVE  HandlerInv'
<1>1. TypeOK /\ Located(r) /\ pc[r] = "body"
  BY DEF HandlerInv, EndOfBody
<1>2. rt[r] \in Config /\ len[r] \in Nat /\ Cap[rt[r]] \in Nat
  BY <1>1, CapTyped, Zenon DEF Located, TypeOK
<1>3. UNCHANGED <<rt, host, len, overCap, addrs, tried, log, reply, gone>>
  BY DEF EndOfBody, Goto, input, body, dial
<1>4. pc'[r] = "evaluate" => Located(r)'
  <2>1. ~overCap[r] /\ len[r] <= Cap[rt[r]] /\ ~(len[r] > Cap[rt[r]])
    <3>1. ~overCap[r] /\ len[r] <= Cap[rt[r]]
      BY <1>1, Zenon DEF Located
    <3> QED
      BY <1>2, <3>1
  <2> QED
    BY <1>1, <1>2, <1>3, <2>1, Zenon DEF Located, Serving, Dialling, PC, Suspended
<1>5. QED
  BY <1>1, <1>4, GotoInv, Zenon DEF EndOfBody, Serving, PC, Suspended

\* The pipeline refuses, on the request or on the response.
LEMMA ShortCircuitInv ==
    ASSUME HandlerInv, NEW r \in Request, pc[r] \in Serving, NEW outcome,
           ShortCircuit(r, outcome), UNCHANGED <<input, body, dial>>,
           \/ Judged(r) = outcome /\ addrs[r] = <<>>
           \/ OnResponse[rt[r]] = outcome /\ tried[r] # <<>>
    PROVE  HandlerInv'
<1>1. addrs' = addrs
  BY DEF dial
<1>2. CASE outcome = "reject" /\ Finish(r, "reject", "transform", 403)
  <2>1. Warranted(r, "reject", "transform")
    BY <1>1, <1>2 DEF Warranted
  <2>2. PICK status \in Nat \ {NoStatus} : Finish(r, "reject", "transform", status)
    BY <1>2 DEF NoStatus
  <2>3. QED
    BY <2>1, <2>2, AuditWords, FinishSame, Zenon
<1>3. CASE outcome = "stub" /\ Finish(r, "stub", "none", 200)
  <2>1. Warranted(r, "stub", "none")
    BY <1>1, <1>3, Zenon DEF Warranted
  <2>2. PICK status \in Nat \ {NoStatus} : Finish(r, "stub", "none", status)
    BY <1>3 DEF NoStatus
  <2>3. QED
    BY <2>1, <2>2, AuditWords, FinishSame, Zenon
<1>4. CASE outcome = "error" /\ Finish(r, "error", "none", 502)
  BY <1>4, ErrorInv
<1>5. QED
  BY <1>2, <1>3, <1>4 DEF ShortCircuit

\* The pipeline judges the request.
LEMMA EvaluateInv ==
    ASSUME HandlerInv, NEW r \in Request, EvaluateRequest(r)
    PROVE  HandlerInv'
<1>1. TypeOK /\ Located(r) /\ pc[r] = "evaluate" /\ pc[r] \in Serving
  BY Zenon DEF HandlerInv, EvaluateRequest, Serving, PC
<1>2. addrs[r] = <<>> /\ tried[r] = <<>>
  BY <1>1, Zenon DEF Located
<1>3. UNCHANGED <<input, body, dial>>
  BY Zenon DEF EvaluateRequest
<1>4. CASE Judged(r) = "continue" /\ Goto(r, "resolve")
  <2>1. UNCHANGED <<rt, host, len, overCap, addrs, tried, log, reply, gone>>
    BY <1>3, <1>4 DEF Goto, input, body, dial
  <2>2. pc'[r] = "resolve" => Located(r)'
    BY <1>1, <1>4, <2>1, Zenon DEF Located, Serving, Dialling, PC, Suspended, Judged
  <2>3. QED
    BY <1>1, <1>3, <1>4, <2>2, GotoInv, Zenon DEF Serving, PC, Suspended
<1>5. CASE ShortCircuit(r, Judged(r))
  BY <1>1, <1>2, <1>3, <1>5, ShortCircuitInv, Zenon
<1>6. QED
  BY <1>4, <1>5, Zenon DEF EvaluateRequest, Judged

\* The upstream's name is resolved, or is not.
LEMMA ResolveInv ==
    ASSUME HandlerInv, NEW r \in Request, Resolve(r)
    PROVE  HandlerInv'
<1>1. TypeOK /\ Located(r) /\ Safe(r) /\ pc[r] = "resolve" /\ pc[r] \in Serving
  BY Zenon DEF HandlerInv, Resolve, Serving, PC, Suspended
<1>2. host[r] \in Host /\ tried[r] = <<>>
  BY <1>1, Zenon DEF Located
<1>3. PICK found \in lookup_host(host[r]) :
          /\ addrs' = [addrs EXCEPT ![r] = found]
          /\ IF found = <<>> THEN Finish(r, "error", "none", 502) ELSE Goto(r, "dial")
  BY ZenonT(30) DEF Resolve
<1>4. found \in Seq(Addr)
  <2>1. CASE host[r] \in Addr
    <3>1. found = <<host[r]>>
      BY <1>3, <2>1, Zenon DEF lookup_host
    <3>2. QED
      BY <2>1, <3>1
  <2>2. CASE host[r] \notin Addr
    BY <1>2, <1>3, <2>2, AnswersAssumption DEF lookup_host
  <2>3. QED
    BY <2>1, <2>2
<1>5. /\ addrs' \in [Request -> Seq(Addr)] /\ addrs'[r] = found
      /\ \A q \in Request \ {r} : addrs'[q] = addrs[q]
      /\ UNCHANGED <<input, body, tried>>
  BY <1>1, <1>3, <1>4 DEF TypeOK, Resolve
<1>6. CASE found = <<>>
  <2>1. PICK status \in Nat \ {NoStatus} : Finish(r, "error", "none", status)
    BY <1>3, <1>6 DEF NoStatus
  <2>2. tried[r] # <<>> => addrs'[r] = addrs[r]
    BY <1>2, Zenon
  <2>3. QED
    BY <1>1, <1>5, <2>1, <2>2, AuditWords, ErrorWarranted, FinishInv, Zenon
<1>7. CASE found # <<>>
  <2>1. /\ pc' = [pc EXCEPT ![r] = "dial"]
        /\ UNCHANGED <<installed, rt, conn, head, host, len, overCap, tried, log,
                       reply, gone>>
    BY <1>3, <1>5, <1>7 DEF Goto, input, body
  <2>2. pc'[r] = "dial" /\ pc' \in [Request -> PC]
    BY <1>1, <2>1 DEF TypeOK, PC
  <2>3. TypeOK'
    BY <1>1, <1>5, <2>1, <2>2, Zenon DEF TypeOK
  <2>4. Len(tried'[r]) = 0 /\ Len(addrs'[r]) > 0 /\ tried'[r] = <<>>
    <3>1. Len(found) > 0
      BY <1>4, <1>7, NotEmpty
    <3>2. tried'[r] = <<>>
      BY <1>2, <2>1, Zenon
    <3>3. QED
      BY <1>5, <3>1, <3>2, Zenon
  <2>5. Located(r)'
    BY <1>1, <1>2, <2>1, <2>2, <2>4, Zenon DEF Located, Serving, Dialling, PC, Judged
  <2>6. Safe(r)'
    <3>1. rt'[r] # Absent => len'[r] <= Cap[rt'[r]] + MaxFrame
      BY <1>1, <2>1, Zenon DEF Safe, Dialled
    <3>2. Len(addrs'[r]) \in Nat
      <4>1. addrs'[r] \in Seq(Addr)
        BY <1>4, <1>5, Zenon
      <4> QED
        BY <4>1, LenTyped, Zenon
    <3>3. Dialled(r)'
      BY <2>4, <3>1, <3>2, NoDials, Zenon
    <3>4. QED
      BY <1>1, <2>1, <2>2, <3>3, StillOpen
  <2>7. \A q \in Request \ {r} : Same(q)
    BY <1>1, <1>5, <2>1, Zenon DEF Same, TypeOK
  <2>8. QED
    BY <2>3, <2>5, <2>6, <2>7, StepOfOne
<1>8. QED
  BY <1>6, <1>7

\* The next address is dialled, or is denied by the guard.
LEMMA TryAddressInv ==
    ASSUME HandlerInv, NEW r \in Request, TryAddress(r)
    PROVE  HandlerInv'
<1> DEFINE a == addrs[r][Len(tried[r]) + 1]
<1>1. TypeOK /\ Located(r) /\ Safe(r) /\ pc[r] = "dial" /\ pc[r] \in Serving
  BY Zenon DEF HandlerInv, TryAddress, Serving, PC
<1>2. /\ tried[r] \in Seq(Addr) /\ addrs[r] \in Seq(Addr)
      /\ Len(tried[r]) < Len(addrs[r])
  BY <1>1, Zenon DEF TypeOK, Located
<1>3. a \in Addr
  <2>1. Len(tried[r]) \in Nat
    BY <1>2
  <2>2. QED
    BY <1>2, <2>1, NextElement
<1>4. UNCHANGED <<input, body, addrs>>
  BY Zenon DEF TryAddress
<1>5. CASE a \in Deny[rt[r]]
  <2>1. Finish(r, "reject", "guard", 502) /\ UNCHANGED tried
    BY <1>5, Zenon DEF TryAddress
  <2>2. addrs' = addrs /\ UNCHANGED <<input, body, dial>> /\ 502 \in Nat \ {NoStatus}
    BY <1>4, <2>1 DEF dial, NoStatus
  <2>3. Warranted(r, "reject", "guard")
    BY <1>2, <1>5, <2>2 DEF Warranted
  <2>4. QED
    BY <1>1, <2>1, <2>2, <2>3, AuditWords, FinishSame
<1>6. CASE a \notin Deny[rt[r]]
  <2> HIDE DEF a
  <2>1. /\ tried' = [tried EXCEPT ![r] = Append(tried[r], a)]
        /\ pc' = [pc EXCEPT ![r] = "connect"]
        /\ UNCHANGED <<installed, rt, conn, head, host, len, overCap, addrs, log,
                       reply, gone>>
    BY <1>4, <1>6, Zenon DEF TryAddress, Goto, input, body, a
  <2>2. /\ pc'[r] = "connect" /\ pc' \in [Request -> PC]
        /\ tried'[r] = Append(tried[r], a) /\ tried' \in [Request -> Seq(Addr)]
    BY <1>1, <1>2, <1>3, <2>1 DEF TypeOK, PC, Suspended
  <2>3. TypeOK'
    BY <1>1, <2>1, <2>2, Zenon DEF TypeOK
  <2>4. Len(tried'[r]) = Len(tried[r]) + 1 /\ tried'[r] # <<>>
    BY <1>2, <1>3, <2>2
  <2>5. \A i \in 1..Len(tried'[r]) : /\ tried'[r][i] = addrs[r][i]
                                     /\ addrs[r][i] \notin Deny[rt[r]]
    <3>1. \A i \in 1..Len(tried[r]) : tried'[r][i] = tried[r][i]
      BY <1>2, <1>3, <2>2
    <3>2. tried'[r][Len(tried[r]) + 1] = a
      BY <1>2, <1>3, <2>2
    <3>3. TAKE i \in 1..Len(tried'[r])
    <3>4. CASE i \in 1..Len(tried[r])
      BY <1>1, <3>1, <3>4, Zenon DEF Safe, Dialled
    <3>5. CASE i = Len(tried[r]) + 1
      BY <1>6, <3>2, <3>5, Zenon DEF a
    <3>6. QED
      <4>1. Len(tried[r]) \in Nat
        BY <1>2
      <4>2. i \in 1..Len(tried[r]) \/ i = Len(tried[r]) + 1
        BY <2>4, <4>1
      <4> QED
        BY <3>4, <3>5, <4>2, Zenon
  <2>6. Located(r)'
    BY <1>1, <2>1, <2>2, <2>4, Zenon DEF Located, Serving, Dialling, PC, Judged
  <2>7. Safe(r)'
    <3>1. /\ rt'[r] # Absent => len'[r] <= Cap[rt'[r]] + MaxFrame
          /\ Judged(r)' = "continue"
      BY <1>1, <2>1, Zenon DEF Safe, Dialled, Judged, Located, Dialling
    <3>2. Len(tried'[r]) <= Len(addrs'[r])
      BY <1>2, <2>1, <2>4
    <3>3. Dialled(r)'
      BY <2>1, <2>5, <3>1, <3>2, Zenon DEF Dialled
    <3>4. QED
      BY <1>1, <2>1, <2>2, <3>3, StillOpen, Zenon
  <2>8. \A q \in Request \ {r} : Same(q)
    BY <1>1, <2>1, Zenon DEF Same, TypeOK
  <2>9. QED
    BY <2>3, <2>6, <2>7, <2>8, StepOfOne
<1>7. QED
  BY <1>5, <1>6

\* connect() succeeds.
LEMMA ConnectedInv ==
    ASSUME HandlerInv, NEW r \in Request, Connected(r)
    PROVE  HandlerInv'
<1> DEFINE where == IF conn[r].https THEN "tls" ELSE "send"
<1>1. TypeOK /\ Located(r) /\ pc[r] = "connect" /\ pc[r] \in Serving
  BY Zenon DEF HandlerInv, Connected, Serving, PC, Suspended
<1>2. Goto(r, where) /\ UNCHANGED <<input, body, dial>>
  BY DEF Connected
<1>3. where \in {"tls", "send"}
  OBVIOUS
<1>4. UNCHANGED <<rt, host, len, overCap, addrs, tried, log, reply, gone>>
  BY <1>2 DEF Goto, input, body, dial
<1> HIDE DEF where
<1>5. pc'[r] = where => Located(r)'
  BY <1>1, <1>3, <1>4, Zenon DEF Located, Serving, Dialling, PC, Suspended, Judged
<1>6. QED
  BY <1>1, <1>2, <1>3, <1>5, GotoInv, Zenon DEF Serving, PC, Suspended

\* connect() fails: on to the next address, or out with 502.
LEMMA ConnectFailsInv ==
    ASSUME HandlerInv, NEW r \in Request, ConnectFails(r)
    PROVE  HandlerInv'
<1>1. TypeOK /\ Located(r) /\ Safe(r) /\ pc[r] = "connect" /\ pc[r] \in Serving
  BY DEF HandlerInv, ConnectFails, Serving, PC, Suspended
<1>2. UNCHANGED <<input, body, dial>> /\ addrs' = addrs /\ tried' = tried
      /\ addrs \in [Request -> Seq(Addr)]
  BY <1>1, Zenon DEF ConnectFails, dial, TypeOK
<1>3. CASE Len(tried[r]) = Len(addrs[r])
  <2>1. Finish(r, "error", "none", 502)
    BY <1>3 DEF ConnectFails
  <2>2. QED
    BY <1>1, <1>2, <2>1, ErrorInv
<1>4. CASE Len(tried[r]) # Len(addrs[r])
  <2>1. Goto(r, "dial") /\ Len(tried[r]) < Len(addrs[r])
    <3>1. Goto(r, "dial")
      BY <1>4 DEF ConnectFails
    <3>2. tried[r] \in Seq(Addr) /\ addrs[r] \in Seq(Addr)
      BY <1>1, Zenon DEF TypeOK
    <3>3. Len(tried[r]) \in Nat /\ Len(addrs[r]) \in Nat
      BY <3>2
    <3>4. Len(tried[r]) <= Len(addrs[r])
      BY <1>1, Zenon DEF Safe, Dialled
    <3>5. QED
      BY <1>4, <3>1, <3>3, <3>4
  <2>2. UNCHANGED <<rt, host, len, overCap, addrs, tried, log, reply, gone>>
    BY <1>2, <2>1, Zenon DEF Goto, input, body, dial
  <2>3. pc'[r] = "dial" => Located(r)'
    BY <1>1, <2>1, <2>2, Zenon DEF Located, Serving, Dialling, PC, Suspended, Judged
  <2>4. QED
    BY <1>1, <1>2, <2>1, <2>3, GotoInv, Zenon DEF Serving, PC, Suspended
<1>5. QED
  BY <1>3, <1>4

\* The upstream's TLS handshake succeeds.
LEMMA TlsDoneInv ==
    ASSUME HandlerInv, NEW r \in Request, TlsDone(r)
    PROVE  HandlerInv'
<1>1. Located(r) /\ pc[r] = "tls" /\ pc[r] \in Serving
  BY DEF HandlerInv, TlsDone, Serving, PC, Suspended
<1>2. UNCHANGED <<rt, host, len, overCap, addrs, tried, log, reply, gone>>
  BY DEF TlsDone, Goto, input, body, dial
<1>3. pc'[r] = "send" => Located(r)'
  BY <1>1, <1>2, Zenon DEF Located, Serving, Dialling, PC, Suspended, Judged
<1>4. QED
  BY <1>1, <1>3, GotoInv, Zenon DEF TlsDone, Serving, PC, Suspended

\* The upstream's TLS handshake fails.
LEMMA TlsFailsInv ==
    ASSUME HandlerInv, NEW r \in Request, TlsFails(r)
    PROVE  HandlerInv'
<1>1. pc[r] \in Serving /\ Finish(r, "error", "none", 502)
  BY DEF TlsFails, Serving, PC, Suspended
<1>2. UNCHANGED <<input, body, dial>>
  BY DEF TlsFails
<1>3. QED
  BY <1>1, <1>2, ErrorInv

\* The request cannot be sent, or is not answered in time.
LEMMA SendFailsInv ==
    ASSUME HandlerInv, NEW r \in Request, SendFails(r)
    PROVE  HandlerInv'
<1>1. pc[r] \in Serving /\ Finish(r, "error", "none", 502)
  BY DEF SendFails, Serving, PC, Suspended
<1>2. UNCHANGED <<input, body, dial>>
  BY DEF SendFails
<1>3. QED
  BY <1>1, <1>2, ErrorInv

\* Response headers arrive and the response pipeline judges them.
LEMMA RespondInv ==
    ASSUME HandlerInv, NEW r \in Request, NEW status \in Statuses, Respond(r, status)
    PROVE  HandlerInv'
<1>1. TypeOK /\ Located(r) /\ pc[r] = "send" /\ pc[r] \in Serving
  BY Zenon DEF HandlerInv, Respond, Serving, PC, Suspended
<1>2. Judged(r) = "continue" /\ tried[r] # <<>>
  BY <1>1, Zenon DEF Located, Dialling
<1>3. UNCHANGED <<input, body, dial>> /\ addrs' = addrs /\ tried' = tried
      /\ addrs \in [Request -> Seq(Addr)]
  BY <1>1, Zenon DEF Respond, dial, TypeOK
<1>4. CASE Finish(r, "allow", "none", status)
  <2>1. status \in Nat \ {NoStatus}
    BY DEF Statuses, NoStatus
  <2>2. Warranted(r, "allow", "none")
    BY <1>2, Zenon DEF Warranted
  <2>3. QED
    BY <1>1, <1>3, <1>4, <2>1, <2>2, AuditWords, FinishSame, Zenon
<1>5. CASE ShortCircuit(r, OnResponse[rt[r]])
  BY <1>1, <1>2, <1>3, <1>5, ShortCircuitInv, Zenon
<1>6. QED
  BY <1>4, <1>5, Zenon DEF Respond

\* The client's body breaks off while it is buffered.
LEMMA FrameErrorInv ==
    ASSUME HandlerInv, NEW r \in Request, FrameError(r)
    PROVE  HandlerInv'
<1>1. TypeOK /\ Located(r) /\ pc[r] = "body" /\ pc[r] \in Serving
  BY DEF HandlerInv, FrameError, Serving, PC, Suspended
<1>2. host[r] \in Host \cup {Empty} /\ addrs[r] = <<>>
  BY <1>1, Zenon DEF Located
<1>3. /\ pc' = [pc EXCEPT ![r] = "done"]
      /\ Emit(r, "client_cancel", "none", NoStatus, host[r])
      /\ UNCHANGED <<installed, input, body, dial>>
      /\ reply' = [reply EXCEPT ![r] = 400]
      /\ gone' = [gone EXCEPT ![r] = TRUE]
  BY DEF FrameError
<1>4. 400 \in Nat /\ TRUE \in BOOLEAN /\ "client_cancel" \in {"error", "client_cancel"}
  OBVIOUS
<1>5. QED
  BY <1>1, <1>2, <1>3, <1>4, EarlyEndInv, ZenonT(30)

\* The handler is dropped or panics, and PendingAudit writes the record.
LEMMA DropInv ==
    ASSUME HandlerInv, NEW r \in Request, pc[r] \in Serving, PendingAuditDrop(r),
           NEW left \in BOOLEAN, gone' = [gone EXCEPT ![r] = left]
    PROVE  HandlerInv'
<1>1. TypeOK /\ Located(r) /\ pc[r] # "done"
  BY DEF HandlerInv, Serving
<1>2. reply' = [reply EXCEPT ![r] = NoStatus] /\ NoStatus \in Nat
  BY <1>1, Zenon DEF PendingAuditDrop, Located, TypeOK, NoStatus
<1>3. QED
  BY <1>2, EarlyEndInv, ZenonT(30) DEF PendingAuditDrop

\* HandlerInv is inductive.
LEMMA NextInv ==
    ASSUME HandlerInv, [Next]_vars
    PROVE  HandlerInv'
<1>1. CASE UNCHANGED vars
  <2>1. TypeOK'
    BY <1>1, Zenon DEF vars, HandlerInv, TypeOK
  <2>2. ASSUME NEW q \in Request PROVE (Located(q) /\ Safe(q))'
    BY <1>1, Frame, Zenon DEF vars, HandlerInv, Same
  <2>3. QED
    BY <2>1, <2>2 DEF HandlerInv
<1>2. ASSUME NEW c \in Config, Swap(c) PROVE HandlerInv'
  BY <1>2, SwapInv
<1>3. ASSUME NEW r \in Request, Progress(r) PROVE HandlerInv'
  BY <1>3, EvaluateInv, ResolveInv, TryAddressInv, ConnectedInv, ConnectFailsInv,
     SendFailsInv, RespondInv DEF Progress
<1>4. ASSUME NEW r \in Request, Disconnect(r) PROVE HandlerInv'
  <2>1. pc[r] \in Serving /\ PendingAuditDrop(r) /\ gone' = [gone EXCEPT ![r] = TRUE]
    BY <1>4 DEF Disconnect, Serving, PC, Suspended
  <2>2. QED
    BY <2>1, DropInv, ZenonT(30)
<1>5. ASSUME NEW r \in Request, Panic(r) PROVE HandlerInv'
  <2>1. pc[r] \in Serving /\ PendingAuditDrop(r) /\ gone' = gone
    BY <1>5, Zenon DEF Panic, HandlerInv, TypeOK, Serving
  <2>2. gone \in [Request -> BOOLEAN]
    BY DEF HandlerInv, TypeOK
  <2>3. gone[r] \in BOOLEAN /\ gone' = [gone EXCEPT ![r] = gone[r]]
    BY <2>1, <2>2
  <2>4. QED
    BY <2>1, <2>3, DropInv, ZenonT(30)
<1>6. QED
  BY <1>1, <1>2, <1>3, <1>4, <1>5, AcceptInv, ReadFrameInv, EndOfBodyInv,
     FrameErrorInv, TlsDoneInv, TlsFailsInv DEF Next

\* The invariant holds in every reachable state, for every set of requests,
\* every policy and every schedule.
THEOREM HandlerInvariant == Spec => []HandlerInv
<1>1. Init => HandlerInv
  BY InitInv
<1>2. HandlerInv /\ [Next]_vars => HandlerInv'
  BY NextInv
<1>3. QED
  BY <1>1, <1>2, PTL DEF Spec

\* Every variable keeps its type.
THEOREM TypeCorrect == Spec => []TypeOK
<1>1. HandlerInv => TypeOK
  BY DEF HandlerInv
<1>2. QED
  BY <1>1, HandlerInvariant, PTL

\* Exactly one audit record per request, however its handler ends (INV-3).
THEOREM OneRecordPerRequest == Spec => []AuditTotality
<1>1. HandlerInv => AuditTotality
  BY Zenon DEF HandlerInv, Safe, AuditTotality
<1>2. QED
  BY <1>1, HandlerInvariant, PTL

\* No dial without the pipeline's leave, under any schedule of reloads (INV-2).
THEOREM NoDialWithoutLeave == Spec => []PolicyBeforeDial
<1>1. HandlerInv => PolicyBeforeDial
  BY Zenon DEF HandlerInv, Safe, Dialled, PolicyBeforeDial
<1>2. QED
  BY <1>1, HandlerInvariant, PTL

\* The guard of the request's own runtime stands before every connect(), and
\* no denied address is skipped over.
THEOREM GuardHolds == Spec => []GuardedDials
<1>1. HandlerInv => GuardedDials
  BY Zenon DEF HandlerInv, Safe, Dialled, GuardedDials
<1>2. QED
  BY <1>1, HandlerInvariant, PTL

\* Body buffering stays within the cap plus one frame, with an exact flag.
THEOREM BufferHolds == Spec => []BufferBounded
<1>1. HandlerInv => BufferBounded
  BY Zenon DEF HandlerInv, Safe, Dialled, Located, BufferBounded, Serving, PC, Suspended
<1>2. QED
  BY <1>1, HandlerInvariant, PTL

\* What a record says about the request is true.
THEOREM RecordsHold == Spec => []RecordExplains
<1>1. HandlerInv => RecordExplains
  BY Zenon DEF HandlerInv, Safe, RecordExplains
<1>2. QED
  BY <1>1, HandlerInvariant, PTL

-----------------------------------------------------------------------------
(* The handler implements EgressBoundary.                                   *)

\* A step that leaves what the boundary sees of every request alone.
LEMMA BoundaryStutter ==
    ASSUME UNCHANGED <<installed, rt, host, tried, log>>, Phase' = Phase
    PROVE  UNCHANGED Boundary!vars
BY DEF Boundary!vars, Contacted, Records

\* An open request whose handler ends with one record settles.
LEMMA BoundarySettle ==
    ASSUME HandlerInv, NEW r \in Request, pc[r] \in Serving,
           NEW action \in AuditAction,
           NEW by \in AuditBy,
           NEW status \in Nat, NEW h \in Host \cup {Empty},
           Emit(r, action, by, status, h),
           pc' = [pc EXCEPT ![r] = "done"],
           UNCHANGED <<installed, rt, host, tried>>,
           action = "allow" => tried[r] # <<>>
    PROVE  Boundary!Next
<1>1. TypeOK /\ Safe(r) /\ pc[r] # "done" /\ pc[r] # "idle"
  BY DEF HandlerInv, Serving
<1>2. /\ DOMAIN log'[r] = {1}
      /\ log'[r][1].action = action
      /\ \A q \in Request \ {r} : log'[q] = log[q]
  <2>1. Logged(r, action, by, status)
    BY <1>1, Emitted, Zenon
  <2>2. QED
    BY <2>1, Zenon DEF Logged
<1>3. Phase[r] = "open"
  BY <1>1 DEF Phase
<1>4. Phase' = [Phase EXCEPT ![r] = "settled"]
  BY <1>1, ZenonT(30) DEF Phase, TypeOK
<1>5. Records' = [Records EXCEPT ![r] = <<action>>]
  <2>1. [i \in DOMAIN log'[r] |-> log'[r][i].action] = <<action>>
    BY <1>2, OneAction
  <2>2. QED
    BY <1>2, <2>1, ZenonT(30) DEF Records
<1>6. action = "allow" => Contacted[r] # {}
  <2>1. tried[r] # <<>> => 1 \in 1..Len(tried[r])
    BY <1>1 DEF TypeOK
  <2>2. QED
    BY <2>1, ZenonT(30) DEF Contacted
<1>7. Contacted' = Contacted
  BY DEF Contacted
<1>8. Boundary!Settle(r, action)
  BY <1>3, <1>4, <1>5, <1>6, <1>7 DEF Boundary!Settle
<1>9. action \in Boundary!Actions
  BY DEF AuditAction, Boundary!Actions
<1>10. QED
  BY <1>8, <1>9 DEF Boundary!Next

\* The end of a handler is the end of its request at the boundary.
LEMMA BoundaryFinish ==
    ASSUME HandlerInv, NEW r \in Request, pc[r] \in Serving,
           NEW action \in AuditAction,
           NEW by \in AuditBy,
           NEW status \in Nat,
           Finish(r, action, by, status), UNCHANGED <<input, body, tried>>,
           action = "allow" => tried[r] # <<>>
    PROVE  Boundary!Next
<1>1. Located(r) /\ pc[r] # "idle"
  BY DEF HandlerInv, Serving
<1>2. host[r] \in Host \cup {Empty}
  BY <1>1, Zenon DEF Located
<1>3. /\ Emit(r, action, by, status, host[r]) /\ pc' = [pc EXCEPT ![r] = "done"]
  BY Zenon DEF Finish
<1>4. UNCHANGED <<installed, rt, host, tried>>
  BY DEF Finish, input
<1>5. QED
  BY <1>2, <1>3, <1>4, BoundarySettle, ZenonT(30)

\* Moving on inside the handler does not show at the boundary.
LEMMA BoundaryGoto ==
    ASSUME HandlerInv, NEW r \in Request, pc[r] \in Serving, NEW where \in Serving,
           Goto(r, where), UNCHANGED <<rt, host, tried>>
    PROVE  UNCHANGED Boundary!vars
<1>1. pc \in [Request -> PC] /\ pc' = [pc EXCEPT ![r] = where]
  BY DEF HandlerInv, TypeOK, Goto
<1>2. Phase' = Phase
  BY <1>1 DEF Phase, Serving
<1>3. QED
  BY <1>2, BoundaryStutter DEF Goto

\* A request that arrives does so at the boundary, with its record if it is refused.
LEMMA BoundaryAccept ==
    ASSUME HandlerInv, NEW r \in Request, NEW ctx \in Legs, NEW hd \in Heads,
           Accept(r, ctx, hd)
    PROVE  Boundary!Next
<1> DEFINE t == resolve_target(ctx, hd)
           refused == ~t.ok \/ hd.dots
<1>1. TypeOK /\ Safe(r) /\ pc[r] = "idle"
  BY DEF HandlerInv, Accept
<1>2. t.host \in Name /\ t.host \in Host \cup {Empty}
  BY LegsAssumption, HeadsAssumption, ResolveTarget DEF Name
<1> HIDE DEF t
<1>3. /\ rt' = [rt EXCEPT ![r] = installed]
      /\ host' = [host EXCEPT ![r] = t.host]
      /\ pc' = [pc EXCEPT ![r] = IF refused THEN "done" ELSE "body"]
      /\ UNCHANGED <<installed, tried>>
  BY DEF Accept, body, dial, t
<1>4. Phase[r] = "idle" /\ Contacted' = Contacted
  BY <1>1, <1>3 DEF Phase, Contacted
<1>5. CASE refused
  <2>1. PICK status \in Nat : Emit(r, "reject", "listener", status, t.host)
    BY <1>5 DEF Accept, t
  <2>2. Logged(r, "reject", "listener", status)
    <3>1. pc[r] # "done"
      BY <1>1, Zenon
    <3>2. QED
      BY <1>1, <1>2, <2>1, <3>1, AuditWords, Emitted, Zenon
  <2>3. /\ DOMAIN log'[r] = {1}
        /\ log'[r][1].action = "reject"
        /\ \A q \in Request \ {r} : log'[q] = log[q]
    BY <2>2, Zenon DEF Logged
  <2>4. [i \in DOMAIN log'[r] |-> log'[r][i].action] = <<"reject">>
    BY <2>3, OneAction
  <2>5. Records' = [Records EXCEPT ![r] = <<"reject">>]
    BY <2>3, <2>4, ZenonT(30) DEF Records
  <2>6. pc' = [pc EXCEPT ![r] = "done"]
    BY <1>3, <1>5, ZenonT(30)
  <2>7. Phase' = [Phase EXCEPT ![r] = "settled"]
    BY <1>1, <2>6, ZenonT(30) DEF Phase, TypeOK
  <2>8. Boundary!Refuse(r, t.host)
    BY <1>3, <1>4, <2>5, <2>7 DEF Boundary!Refuse
  <2>9. QED
    BY <1>2, <2>8 DEF Boundary!Next
<1>6. CASE ~refused
  <2>1. UNCHANGED log
    BY <1>6 DEF Accept, t
  <2>2. Records' = Records
    BY <2>1 DEF Records
  <2>3. pc' = [pc EXCEPT ![r] = "body"]
    BY <1>3, <1>6
  <2>4. Phase' = [Phase EXCEPT ![r] = "open"]
    BY <1>1, <2>3, ZenonT(30) DEF Phase, TypeOK
  <2>5. Boundary!Accept(r, t.host)
    BY <1>3, <1>4, <2>2, <2>4 DEF Boundary!Accept
  <2>6. QED
    BY <1>2, <2>5 DEF Boundary!Next
<1>7. QED
  BY <1>5, <1>6

\* Dialling an address is a dial at the boundary, with leave.
LEMMA BoundaryTry ==
    ASSUME HandlerInv, NEW r \in Request, TryAddress(r)
    PROVE  Boundary!Next
<1> DEFINE a == addrs[r][Len(tried[r]) + 1]
<1>1. TypeOK /\ Located(r) /\ pc[r] = "dial" /\ pc[r] \in Serving
  BY Zenon DEF HandlerInv, TryAddress, Serving, PC
<1>2. /\ tried[r] \in Seq(Addr) /\ addrs[r] \in Seq(Addr)
      /\ Len(tried[r]) < Len(addrs[r])
  BY <1>1 DEF TypeOK, Located
<1>3. a \in Addr
  <2>1. Len(tried[r]) \in Nat
    BY <1>2
  <2>2. QED
    BY <1>2, <2>1, NextElement, Zenon
<1>4. UNCHANGED <<input, body, addrs>>
  BY DEF TryAddress
<1>5. CASE a \in Deny[rt[r]]
  <2>1. Finish(r, "reject", "guard", 502) /\ UNCHANGED tried
    BY <1>5 DEF TryAddress
  <2>2. UNCHANGED <<input, body, tried>>
    BY <1>4, <2>1
  <2>3. QED
    BY <1>1, <2>1, <2>2, AuditWords, BoundaryFinish
<1>6. CASE a \notin Deny[rt[r]]
  <2> HIDE DEF a
  <2>1. /\ tried' = [tried EXCEPT ![r] = Append(tried[r], a)]
        /\ pc' = [pc EXCEPT ![r] = "connect"]
        /\ UNCHANGED <<installed, rt, host, log>>
    BY <1>4, <1>6 DEF TryAddress, Goto, input, a
  <2>2. Phase[r] = "open" /\ Phase' = Phase
    BY <1>1, <2>1, Zenon DEF Phase, TypeOK
  <2>3. Records' = Records
    BY <2>1 DEF Records
  <2>4. Contacted' = [Contacted EXCEPT ![r] = Contacted[r] \cup {a}]
    <3> DEFINE n == Len(tried[r])
               l == Append(tried[r], a)
    <3>1. /\ n \in Nat /\ Len(l) = n + 1 /\ l[n + 1] = a
          /\ \A i \in 1..n : l[i] = tried[r][i]
      BY <1>2, <1>3
    <3> HIDE DEF l, n
    <3>2. {l[i] : i \in 1..Len(l)} = {tried[r][i] : i \in 1..n} \cup {a}
      <4>1. 1..Len(l) = 1..n \cup {n + 1}
        BY <3>1
      <4>2. {l[i] : i \in 1..Len(l)} = {l[i] : i \in 1..n} \cup {l[n + 1]}
        BY <4>1
      <4>3. {l[i] : i \in 1..n} = {tried[r][i] : i \in 1..n}
        BY <3>1
      <4>4. QED
        BY <3>1, <4>2, <4>3
    <3>3. tried'[r] = l /\ \A q \in Request \ {r} : tried'[q] = tried[q]
      BY <1>1, <2>1 DEF TypeOK, l
    <3>4. {tried'[r][i] : i \in 1..Len(tried'[r])} = Contacted[r] \cup {a}
      BY <3>2, <3>3, ZenonT(30) DEF Contacted, n
    <3>5. Contacted'[r] = Contacted[r] \cup {a}
      BY <3>4, ZenonT(30) DEF Contacted
    <3>6. ASSUME NEW q \in Request \ {r} PROVE Contacted'[q] = Contacted[q]
      <4>1. tried'[q] = tried[q]
        BY <3>3
      <4>2. QED
        BY <4>1 DEF Contacted
    <3>7. /\ Contacted = [q \in Request |-> Contacted[q]]
          /\ Contacted' = [q \in Request |-> Contacted'[q]]
      BY DEF Contacted
    <3>8. QED
      BY <3>5, <3>6, <3>7
  <2>5. host[r] \in Permits[rt[r]]
    <3>1. /\ rt[r] \in Config /\ host[r] \in Host /\ overCap[r] \in BOOLEAN
          /\ Verdict[rt[r]][host[r]][overCap[r]] = "continue"
      BY <1>1, Zenon DEF Located, TypeOK, Dialling, Judged
    <3>2. QED
      BY <3>1 DEF Permits
  <2>6. Boundary!Contact(r, a)
    BY <1>6, <2>1, <2>2, <2>3, <2>4, <2>5 DEF Boundary!Contact
  <2>7. QED
    BY <1>3, <2>6 DEF Boundary!Next
<1>7. QED
  BY <1>5, <1>6

\* Every step of the program is a step of the boundary or leaves it alone.
LEMMA BoundaryStep ==
    ASSUME HandlerInv, [Next]_vars
    PROVE  [Boundary!Next]_(Boundary!vars)
<1>1. CASE UNCHANGED vars
  <2>1. Phase' = Phase
    BY <1>1 DEF Phase, vars
  <2>2. QED
    BY <1>1, <2>1, BoundaryStutter DEF vars
<1>2. ASSUME NEW c \in Config, Swap(c) PROVE Boundary!Next
  <2>1. /\ installed' = c /\ Phase' = Phase /\ Contacted' = Contacted
        /\ Records' = Records /\ UNCHANGED <<rt, host>>
    BY <1>2 DEF Swap, input, dial, Phase, Contacted, Records
  <2>2. Boundary!Install(c)
    BY <2>1 DEF Boundary!Install
  <2>3. QED
    BY <2>2 DEF Boundary!Next
<1>3. ASSUME NEW r \in Request, NEW n \in 0..MaxFrame, ReadFrame(r, n)
      PROVE  UNCHANGED Boundary!vars
  <2> DEFINE where == IF len[r] + n > Cap[rt[r]] THEN "evaluate" ELSE "body"
  <2>1. where \in Serving /\ pc[r] \in Serving
    BY <1>3 DEF ReadFrame, Serving, PC, Suspended
  <2>2. Goto(r, where) /\ UNCHANGED <<rt, host, tried>>
    BY <1>3 DEF ReadFrame, input, dial
  <2> HIDE DEF where
  <2>3. QED
    BY <2>1, <2>2, BoundaryGoto
<1>4. ASSUME NEW r \in Request, EndOfBody(r) \/ TlsDone(r)
      PROVE  UNCHANGED Boundary!vars
  BY <1>4, BoundaryGoto DEF EndOfBody, TlsDone, input, dial, Serving, PC, Suspended
<1>5. ASSUME NEW r \in Request, FrameError(r) PROVE Boundary!Next
  <2>1. Located(r) /\ pc[r] = "body" /\ pc[r] \in Serving
    BY <1>5 DEF HandlerInv, FrameError, Serving, PC, Suspended
  <2>2. host[r] \in Host \cup {Empty}
    BY <2>1, Zenon DEF Located
  <2>3. NoStatus \in Nat
    BY DEF NoStatus
  <2>4. /\ Emit(r, "client_cancel", "none", NoStatus, host[r])
        /\ pc' = [pc EXCEPT ![r] = "done"]
        /\ UNCHANGED <<installed, rt, host, tried>>
    BY <1>5 DEF FrameError, input, dial
  <2>5. QED
    BY <2>1, <2>2, <2>3, <2>4, AuditWords, BoundarySettle, ZenonT(30)
<1>6. ASSUME NEW r \in Request, Disconnect(r) \/ Panic(r) PROVE Boundary!Next
  <2>1. pc[r] \in Serving
    BY <1>6 DEF HandlerInv, TypeOK, Disconnect, Panic, Serving, PC, Suspended
  <2>2. Empty \in Host \cup {Empty}
    OBVIOUS
  <2>3. NoStatus \in Nat
    BY DEF NoStatus
  <2>4. /\ Emit(r, "error", "none", NoStatus, Empty)
        /\ pc' = [pc EXCEPT ![r] = "done"]
        /\ UNCHANGED <<installed, rt, host, tried>>
    BY <1>6, Zenon DEF Disconnect, Panic, PendingAuditDrop, input, dial
  <2>5. QED
    BY <2>1, <2>2, <2>3, <2>4, AuditWords, BoundarySettle, ZenonT(30)
<1>7. ASSUME NEW r \in Request, NEW outcome, pc[r] \in Serving,
             ShortCircuit(r, outcome), UNCHANGED <<input, body, dial>>
      PROVE  Boundary!Next
  <2>1. UNCHANGED <<input, body, tried>> /\ 403 \in Nat /\ 200 \in Nat /\ 502 \in Nat
    BY <1>7 DEF dial
  <2>2. CASE Finish(r, "reject", "transform", 403)
    BY <1>7, <2>1, <2>2, AuditWords, BoundaryFinish
  <2>3. CASE Finish(r, "stub", "none", 200)
    BY <1>7, <2>1, <2>3, AuditWords, BoundaryFinish
  <2>4. CASE Finish(r, "error", "none", 502)
    BY <1>7, <2>1, <2>4, AuditWords, BoundaryFinish
  <2>5. QED
    BY <1>7, <2>2, <2>3, <2>4 DEF ShortCircuit
<1>8. ASSUME NEW r \in Request, TlsFails(r) \/ SendFails(r) PROVE Boundary!Next
  BY <1>8, AuditWords, BoundaryFinish DEF TlsFails, SendFails, dial, Serving, PC, Suspended
<1>9. ASSUME NEW r \in Request, EvaluateRequest(r) PROVE [Boundary!Next]_(Boundary!vars)
  <2>1. pc[r] \in Serving /\ "resolve" \in Serving
        /\ UNCHANGED <<input, body, dial>> /\ UNCHANGED <<rt, host, tried>>
    BY <1>9, Zenon DEF EvaluateRequest, input, dial, Serving, PC, Suspended
  <2>2. CASE Goto(r, "resolve")
    BY <2>1, <2>2, BoundaryGoto
  <2>3. CASE ShortCircuit(r, Judged(r))
    BY <1>7, <2>1, <2>3
  <2>4. QED
    BY <1>9, <2>2, <2>3, Zenon DEF EvaluateRequest, Judged
<1>10. ASSUME NEW r \in Request, Resolve(r) PROVE [Boundary!Next]_(Boundary!vars)
  <2>1. pc[r] \in Serving /\ "dial" \in Serving
        /\ UNCHANGED <<input, body, tried>> /\ UNCHANGED <<rt, host, tried>>
    BY <1>10, Zenon DEF Resolve, input, Serving, PC, Suspended
  <2>2. CASE Goto(r, "dial")
    BY <2>1, <2>2, BoundaryGoto
  <2>3. CASE Finish(r, "error", "none", 502)
    BY <2>1, <2>3, AuditWords, BoundaryFinish
  <2>4. QED
    BY <1>10, <2>2, <2>3 DEF Resolve
<1>11. ASSUME NEW r \in Request, Connected(r) PROVE UNCHANGED Boundary!vars
  <2> DEFINE where == IF conn[r].https THEN "tls" ELSE "send"
  <2>1. where \in Serving /\ pc[r] \in Serving
    BY <1>11 DEF Connected, Serving, PC, Suspended
  <2>2. Goto(r, where) /\ UNCHANGED <<rt, host, tried>>
    BY <1>11 DEF Connected, input, dial
  <2> HIDE DEF where
  <2>3. QED
    BY <2>1, <2>2, BoundaryGoto
<1>12. ASSUME NEW r \in Request, ConnectFails(r) PROVE [Boundary!Next]_(Boundary!vars)
  <2>1. pc[r] \in Serving /\ "dial" \in Serving
        /\ UNCHANGED <<input, body, tried>> /\ UNCHANGED <<rt, host, tried>>
    BY <1>12 DEF ConnectFails, input, dial, Serving, PC, Suspended
  <2>2. CASE Goto(r, "dial")
    BY <2>1, <2>2, BoundaryGoto
  <2>3. CASE Finish(r, "error", "none", 502)
    BY <2>1, <2>3, AuditWords, BoundaryFinish
  <2>4. QED
    BY <1>12, <2>2, <2>3 DEF ConnectFails
<1>13. ASSUME NEW r \in Request, NEW status \in Statuses, Respond(r, status)
       PROVE  Boundary!Next
  <2>1. Located(r) /\ pc[r] = "send" /\ pc[r] \in Serving
    BY <1>13, Zenon DEF HandlerInv, Respond, Serving, PC, Suspended
  <2>2. tried[r] # <<>> /\ status \in Nat
    <3>1. tried[r] # <<>>
      BY <2>1, Zenon DEF Located
    <3>2. status \in Nat
      BY DEF Statuses
    <3>3. QED
      BY <3>1, <3>2, Zenon
  <2>3. UNCHANGED <<input, body, dial>> /\ UNCHANGED <<input, body, tried>>
    BY <1>13, Zenon DEF Respond, dial
  <2>4. CASE Finish(r, "allow", "none", status)
    BY <2>1, <2>2, <2>3, <2>4, AuditWords, BoundaryFinish, Zenon
  <2>5. CASE ShortCircuit(r, OnResponse[rt[r]])
    BY <1>7, <2>1, <2>3, <2>5, Zenon
  <2>6. QED
    BY <1>13, <2>4, <2>5, Zenon DEF Respond
<1>14. ASSUME NEW r \in Request, Progress(r) PROVE [Boundary!Next]_(Boundary!vars)
  BY <1>8, <1>9, <1>10, <1>11, <1>12, <1>13, <1>14, BoundaryTry DEF Progress
<1>15. QED
  BY <1>1, <1>2, <1>3, <1>4, <1>5, <1>6, <1>8, <1>14, BoundaryAccept DEF Next

\* The handler, with its dialler, guard, reloads, disconnects and panics,
\* implements what EgressBoundary promises.
THEOREM HandlerImplementsBoundary == Spec => ImplementsBoundary
<1>1. Init => Boundary!Init
  <2> SUFFICES ASSUME Init PROVE Boundary!Init
    OBVIOUS
  <2>1. Phase = [r \in Request |-> "idle"]
    BY DEF Init, Phase
  <2>2. Contacted = [r \in Request |-> {}]
    BY DEF Init, Contacted
  <2>3. Records = [r \in Request |-> <<>>]
    BY DEF Init, Records
  <2>4. QED
    BY <2>1, <2>2, <2>3 DEF Init, Boundary!Init
<1>2. HandlerInv /\ [Next]_vars => [Boundary!Next]_(Boundary!vars)
  BY BoundaryStep
<1>3. QED
  BY <1>1, <1>2, HandlerInvariant, PTL DEF Spec, ImplementsBoundary, Boundary!Spec
=============================================================================
