--------------------------- MODULE TunnelProofs ---------------------------
(***************************************************************************)
(* Proofs about Tunnel: its invariants hold for any number of connections, *)
(* any runtimes and any hosts, with reloads at any moment.  A connection   *)
(* never reads what belongs to another, so the inductive invariant is one  *)
(* about a single connection.                                              *)
(***************************************************************************)
EXTENDS Tunnel, TLAPS

-----------------------------------------------------------------------------
(* The inductive invariant.                                                 *)

\* A tunnel that is decrypted, and one that is connected to its upstream.
Bumped(c) ==
    target[c] \in Host /\ Judged(c) /\ target[c] \notin Passthrough[judge[c]] /\ link[c] = Absent
Linked(c) ==
    /\ target[c] \in Host /\ Judged(c) /\ target[c] \in Passthrough[judge[c]]
    /\ link[c] # Absent /\ link[c] \notin Deny[judge[c]]

\* A connection of the HTTPS listener.
Origin(c) == target[c] = Absent /\ judge[c] = Absent /\ link[c] = Absent /\ reply[c] = "none"

SniAgrees(c) == target[c] # Absent => sni[c] \in {Absent, target[c]}

\* What is known of a connection from where its task is.
Where(c) ==
    /\ pc[c] \in {"idle", "peek", "head", "greeting", "request"} => Origin(c)
    /\ pc[c] = "evaluate" =>
        target[c] \in Host /\ judge[c] = Absent /\ link[c] = Absent /\ reply[c] = "none"
    /\ pc[c] = "dial" =>
        /\ target[c] \in Host /\ Judged(c) /\ target[c] \in Passthrough[judge[c]]
        /\ link[c] = Absent /\ reply[c] = "none"
    /\ pc[c] = "reply" => (Bumped(c) \/ Linked(c)) /\ reply[c] = "none"
    /\ pc[c] = "sniff" => Bumped(c) /\ reply[c] = "success"
    /\ pc[c] \in {"terminate", "clienthello", "leaf", "served"} =>
        Origin(c) \/ (Bumped(c) /\ reply[c] = "success")
    /\ pc[c] \in {"leaf", "replay", "splice"} => SniAgrees(c)
    /\ pc[c] = "served" => ctx[c].forced = target[c] /\ (ctx[c].https => SniAgrees(c))
    /\ pc[c] \in {"hello", "replay", "splice"} => Linked(c) /\ reply[c] = "success"

\* What has not happened yet.
Fresh(c) ==
    /\ pc[c] # "done" => log[c] = <<>>
    /\ pc[c] \notin {"served", "done"} => ctx[c] = NoCtx /\ ~inner[c]
    /\ pc[c] \notin {"splice", "done"} => ~sent[c]

\* The record of a connection and what its client was told.
Explains(c, r) ==
    /\ ~inner[c]
    /\ r.status = 403 => reply[c] = "denied"
    /\ r.status = 502 => reply[c] = "bad_gateway"
    /\ r.status = 200 => reply[c] = "success" /\ Judged(c)

Recorded(c) ==
    \/ log[c] = <<>> /\ reply[c] \notin {"denied", "bad_gateway"}
    \/ \E r \in Record : log[c] = <<r>> /\ Explains(c, r)

\* TunnelsAreJudged, PassthroughApart and TlsIdentityAgrees of one connection.
Apart(c) ==
    /\ ctx[c].forced # Absent => Bumped(c) /\ ctx[c].forced = target[c]
    /\ link[c] # Absent => Linked(c)
    /\ reply[c] = "success" => Bumped(c) \/ Linked(c)
    /\ sent[c] \/ ctx[c].https => SniAgrees(c)

ConnInv(c) == Where(c) /\ Fresh(c) /\ Recorded(c) /\ Apart(c)

IInv == TypeOK /\ \A c \in Conn : ConnInv(c)

-----------------------------------------------------------------------------
(* Steps of one connection.                                                 *)

rest == <<judge, target, sni, wire, reply, served, log>>

\* What a step of c leaves alone.
Only(c) ==
    \A d \in Conn \ {c} :
        /\ pc'[d] = pc[d] /\ judge'[d] = judge[d] /\ target'[d] = target[d] /\ sni'[d] = sni[d]
        /\ link'[d] = link[d] /\ sent'[d] = sent[d] /\ reply'[d] = reply[d]
        /\ ctx'[d] = ctx[d] /\ inner'[d] = inner[d] /\ log'[d] = log[d]

\* The invariant is about the variables of one connection.
LEMMA SameConn ==
    ASSUME NEW d \in Conn, ConnInv(d),
           pc'[d] = pc[d], judge'[d] = judge[d], target'[d] = target[d], sni'[d] = sni[d],
           link'[d] = link[d], sent'[d] = sent[d], reply'[d] = reply[d],
           ctx'[d] = ctx[d], inner'[d] = inner[d], log'[d] = log[d]
    PROVE  ConnInv(d)'
<1>1. /\ Judged(d)' = Judged(d) /\ Bumped(d)' = Bumped(d) /\ Linked(d)' = Linked(d)
      /\ Origin(d)' = Origin(d) /\ SniAgrees(d)' = SniAgrees(d)
  BY DEF Judged, Bumped, Linked, Origin, SniAgrees
<1>2. Where(d)'
  BY <1>1 DEF ConnInv, Where, Judged
<1>3. Fresh(d)' /\ Apart(d)'
  BY <1>1 DEF ConnInv, Fresh, Apart
<1>4. Recorded(d)'
  BY <1>1 DEF ConnInv, Recorded, Explains
<1> QED
  BY <1>2, <1>3, <1>4 DEF ConnInv

\* Sequences and records, apart from any state.
LEMMA NoneOf == ASSUME NEW s, s = <<>> PROVE DOMAIN s = {} /\ Len(s) = 0
OBVIOUS

\* A log of one record.
LEMMA OneOf ==
    ASSUME NEW s, NEW r, s = <<r>>
    PROVE  s # <<>> /\ DOMAIN s = {1} /\ Len(s) = 1 /\ s[1] = r
OBVIOUS

\* The fields of a connection context.
LEMMA CtxFields ==
    ASSUME NEW f, NEW n, NEW tls
    PROVE  /\ [forced |-> f, sni |-> n, https |-> tls].forced = f
           /\ [forced |-> f, sni |-> n, https |-> tls].https = tls
OBVIOUS

\* A connection that was not bumped forces nothing.
LEMMA NoCtxFields == NoCtx.forced = Absent /\ NoCtx.https = FALSE
BY DEF NoCtx

\* A record stays explained while what it speaks of stays.
LEMMA SameRecord ==
    ASSUME NEW c \in Conn, Recorded(c), Judged(c)' = Judged(c),
           log'[c] = log[c], reply'[c] = reply[c], inner'[c] = inner[c]
    PROVE  Recorded(c)'
BY DEF Recorded, Explains

\* What the client is told at the end of the connection, whose record is r.
Answered(c) ==
    /\ reply' \in [Conn -> Replies] /\ \A d \in Conn \ {c} : reply'[d] = reply[d]
    /\ reply'[c] = "success" => reply[c] = "success"

Told(c, r) ==
    /\ r.status = 403 => reply'[c] = "denied"
    /\ r.status = 502 => reply'[c] = "bad_gateway"
    /\ r.status = 200 => reply'[c] = "success"

\* A denial is recorded as 403.
LEMMA ToldDenied == ASSUME NEW c, NEW r, reply'[c] = "denied", r.status = 403 PROVE Told(c, r)
BY DEF Told

\* A failure of the upstream is recorded as 502.
LEMMA ToldGateway ==
    ASSUME NEW c, NEW r, reply'[c] = "bad_gateway", r.status = 502
    PROVE  Told(c, r)
BY DEF Told

\* A tunnel that was opened is recorded as 200.
LEMMA ToldSuccess == ASSUME NEW c, NEW r, reply'[c] = "success", r.status = 200 PROVE Told(c, r)
BY DEF Told

\* A record without a status claims nothing about the reply.
LEMMA ToldNothing == ASSUME NEW c, NEW r, r.status = 0 PROVE Told(c, r)
BY DEF Told

\* A record that tells what the client was told explains the connection.
LEMMA ToldExplains ==
    ASSUME NEW c, NEW r, Told(c, r), ~inner'[c], reply'[c] = "success" => Judged(c)'
    PROVE  Explains(c, r)'
BY DEF Explains, Told

\* The first record of a connection, if it tells what the client was told.
LEMMA ToldRecorded ==
    ASSUME NEW c, NEW r \in Record, log'[c] = <<r>>, Told(c, r), ~inner'[c],
           reply'[c] = "success" => Judged(c)'
    PROVE  Recorded(c)'
BY ToldExplains DEF Recorded

\* A connection without a record was not refused.
LEMMA NoRecordYet ==
    ASSUME NEW c \in Conn, log'[c] = <<>>, reply'[c] \notin {"denied", "bad_gateway"}
    PROVE  Recorded(c)'
BY DEF Recorded

\* A step of one connection keeps the invariant if it does so for that one.
LEMMA OneConn ==
    ASSUME IInv, NEW c \in Conn, Only(c), TypeOK', ConnInv(c)'
    PROVE  IInv'
<1>1. ASSUME NEW d \in Conn, d # c PROVE ConnInv(d)'
  BY <1>1, SameConn DEF IInv, Only
<1> QED
  BY <1>1 DEF IInv

\* A step that changes nothing but where the task is.
MovesTo(c, where) ==
    /\ Goto(c, where) /\ UNCHANGED <<installed, rest>>
    /\ \/ where = "done"
       \/ pc[c] = "idle" /\ where \in {"peek", "terminate"}
       \/ pc[c] = "peek" /\ where \in {"head", "greeting"}
       \/ pc[c] = "greeting" /\ where = "request"
       \/ pc[c] = "sniff" /\ where = "terminate"
       \/ pc[c] = "terminate" /\ where = "clienthello"

\* Such a step keeps the invariant.
LEMMA Moves ==
    ASSUME IInv, NEW c \in Conn, NEW where \in PC, MovesTo(c, where)
    PROVE  IInv'
<1>1. ConnInv(c) /\ TypeOK
  BY DEF IInv
<1>2. /\ pc' = [pc EXCEPT ![c] = where] /\ pc'[c] = where /\ installed' = installed
      /\ judge' = judge /\ target' = target /\ sni' = sni /\ link' = link /\ sent' = sent
      /\ reply' = reply /\ ctx' = ctx /\ inner' = inner /\ log' = log
  BY <1>1 DEF MovesTo, Goto, rest, wire, served, TypeOK
<1>3. TypeOK' /\ Only(c)
  BY <1>1, <1>2 DEF TypeOK, Only
<1>4. /\ Judged(c)' = Judged(c) /\ Bumped(c)' = Bumped(c) /\ Linked(c)' = Linked(c)
      /\ Origin(c)' = Origin(c) /\ SniAgrees(c)' = SniAgrees(c)
  BY <1>2 DEF Judged, Bumped, Linked, Origin, SniAgrees
<1>5. Where(c)' /\ Fresh(c)'
  BY <1>1, <1>2, <1>4, Zenon DEF MovesTo, ConnInv, Where, Fresh
<1>6. Recorded(c)'
  BY <1>1, <1>2, <1>4, SameRecord DEF ConnInv
<1>7. Apart(c)'
  BY <1>1, <1>2, <1>4, Zenon DEF ConnInv, Apart
<1> QED
  BY <1>3, <1>5, <1>6, <1>7, OneConn DEF ConnInv

\* The steps of that kind: dispatching, and leaving without a record.
LEMMA MovesIInv ==
    ASSUME IInv, NEW c \in Conn,
           \/ Accept(c) \/ Peek(c) \/ HandshakeBreaks(c) \/ ReplyBreaks(c) \/ TlsFails(c)
           \/ Terminate(c) \/ Close(c) \/ Greeting(c, TRUE)
           \/ Sniff(c, "other") \/ Sniff(c, "tls")
    PROVE  IInv'
<1>1. \E where \in PC : MovesTo(c, where)
  BY DEF Accept, Peek, HandshakeBreaks, ReplyBreaks, TlsFails, Terminate, Close, Greeting,
         Sniff, Leave, MovesTo, PC, rest
<1> QED
  BY <1>1, Moves

-----------------------------------------------------------------------------
(* The handshake.                                                           *)

Rec(action, by, status, h) == [action |-> action, by |-> by, status |-> status, host |-> h]

Logs(c, r) == log' = [log EXCEPT ![c] = Append(@, r)]

\* emit appends the record it is given.
LEMMA EmitLogs ==
    ASSUME NEW c, NEW action, NEW by, NEW status, NEW h, Emit(c, action, by, status, h)
    PROVE  Logs(c, Rec(action, by, status, h)) /\ Rec(action, by, status, h).status = status
BY DEF Emit, Logs, Rec

\* The first record of a connection.
LEMMA EmitOne ==
    ASSUME TypeOK, NEW c \in Conn, log[c] = <<>>, NEW r \in Record, Logs(c, r)
    PROVE  /\ log' \in [Conn -> Seq(Record)] /\ log'[c] = <<r>>
           /\ \A d \in Conn \ {c} : log'[d] = log[d]
<1>1. log' = [log EXCEPT ![c] = Append(log[c], r)]
  BY DEF Logs
<1>2. Append(log[c], r) = <<r>> /\ <<r>> \in Seq(Record)
  BY DEF TypeOK
<1> QED
  BY <1>1, <1>2 DEF TypeOK

\* The target is read, from a CONNECT head or a SOCKS request.
LEMMA TargetIInv ==
    ASSUME IInv, NEW c \in Conn, NEW h \in Host, pc[c] \in {"head", "request"},
           target' = [target EXCEPT ![c] = h], Goto(c, "evaluate"),
           UNCHANGED <<installed, judge, sni, wire, reply, served, log>>
    PROVE  IInv'
<1>1. ConnInv(c) /\ TypeOK
  BY DEF IInv
<1>2. /\ pc'[c] = "evaluate" /\ target'[c] = h /\ judge' = judge /\ sni' = sni /\ link' = link
      /\ sent' = sent /\ reply' = reply /\ ctx' = ctx /\ inner' = inner /\ log' = log
  BY <1>1 DEF Goto, wire, served, TypeOK
<1>3. TypeOK' /\ Only(c)
  BY <1>1, <1>2 DEF TypeOK, Only, Goto, PC
<1>4. Origin(c) /\ log[c] = <<>> /\ ctx[c] = NoCtx /\ ~sent[c] /\ ~inner[c]
  BY <1>1, Zenon DEF ConnInv, Where, Fresh
<1>5. Where(c)' /\ Fresh(c)'
  BY <1>2, <1>4, Zenon DEF Origin, Where, Fresh
<1>6. Recorded(c)'
  BY <1>2, <1>4, NoRecordYet, Zenon DEF Origin
<1>7. Apart(c)'
  BY <1>2, <1>4, NoCtxFields, Zenon DEF Origin, Apart
<1> QED
  BY <1>3, <1>5, <1>6, <1>7, OneConn DEF ConnInv

\* A SOCKS client that is turned away is told so, and not recorded.
LEMMA SocksRefusedIInv ==
    ASSUME IInv, NEW c \in Conn, NEW what \in {"no_method", "bad_address", "bad_command", "malformed"},
           pc[c] \in {"greeting", "request"}, Goto(c, "done"), Reply(c, what),
           UNCHANGED <<installed, judge, target, sni, wire, served, log>>
    PROVE  IInv'
<1>1. ConnInv(c) /\ TypeOK
  BY DEF IInv
<1>2. /\ pc'[c] = "done" /\ reply'[c] = what /\ judge' = judge /\ target' = target /\ sni' = sni
      /\ link' = link /\ sent' = sent /\ ctx' = ctx /\ inner' = inner /\ log' = log
  BY <1>1 DEF Goto, Reply, wire, served, TypeOK
<1>3. TypeOK' /\ Only(c)
  BY <1>1, <1>2 DEF TypeOK, Only, Goto, Reply, PC, Replies
<1>4. Origin(c) /\ log[c] = <<>> /\ ctx[c] = NoCtx /\ ~sent[c] /\ ~inner[c]
  BY <1>1, Zenon DEF ConnInv, Where, Fresh
<1>5. Where(c)' /\ Fresh(c)'
  BY <1>2, Zenon DEF Where, Fresh
<1>6. Recorded(c)'
  BY <1>2, <1>4, NoRecordYet, Zenon DEF Origin
<1>7. Apart(c)'
  BY <1>2, <1>4, NoCtxFields, Zenon DEF Origin, Apart
<1> QED
  BY <1>3, <1>5, <1>6, <1>7, OneConn DEF ConnInv

\* The SOCKS greeting and the CONNECT head, with their refusals.
LEMMA HandshakeIInv ==
    ASSUME IInv, NEW c \in Conn,
           \/ \E h \in Host : ReadConnect(c, h)
           \/ \E noAuth \in BOOLEAN : Greeting(c, noAuth)
           \/ \E req \in SocksRequest : Request(c, req)
    PROVE  IInv'
<1>1. ASSUME NEW h \in Host, ReadConnect(c, h) PROVE IInv'
  BY <1>1, TargetIInv, Zenon DEF ReadConnect
<1>2. ASSUME NEW noAuth \in BOOLEAN, Greeting(c, noAuth) PROVE IInv'
  <2>1. CASE noAuth = TRUE
    BY <1>2, <2>1, MovesIInv, Zenon
  <2>2. CASE noAuth = FALSE
    BY <1>2, <2>2, SocksRefusedIInv DEF Greeting
  <2> QED
    BY <2>1, <2>2, Zenon
<1>3. ASSUME NEW req \in SocksRequest, Request(c, req) PROVE IInv'
  <2>1. CASE socks5_refusal(req) = "none"
    BY <1>3, <2>1, TargetIInv DEF Request, SocksRequest
  <2>2. CASE socks5_refusal(req) # "none"
    <3>1. socks5_refusal(req) \in {"bad_address", "bad_command", "malformed"}
      BY <2>2 DEF socks5_refusal
    <3> QED
      BY <1>3, <2>2, <3>1, SocksRefusedIInv DEF Request
  <2> QED
    BY <2>1, <2>2
<1> QED
  BY <1>1, <1>2, <1>3

\* The pipeline judges the tunnel.
LEMMA EvaluateIInv == ASSUME IInv, NEW c \in Conn, Evaluate(c) PROVE IInv'
<1>1. ConnInv(c) /\ TypeOK /\ pc[c] = "evaluate"
  BY DEF IInv, Evaluate
<1>2. /\ target[c] \in Host /\ link[c] = Absent /\ reply[c] = "none"
      /\ log[c] = <<>> /\ ctx[c] = NoCtx /\ ~sent[c] /\ ~inner[c]
  BY <1>1, Zenon DEF ConnInv, Where, Fresh
<1>3. /\ judge'[c] = installed /\ judge' \in [Conn -> Config \cup {Absent}]
      /\ \A d \in Conn \ {c} : judge'[d] = judge[d]
      /\ installed \in Config /\ installed # Absent /\ installed' = installed
      /\ target' = target /\ sni' = sni /\ link' = link /\ sent' = sent
      /\ ctx' = ctx /\ inner' = inner
  BY <1>1, NamesAssumption, Zenon DEF Evaluate, wire, served, TypeOK
<1>4. CASE Verdict[installed][target[c]] # "continue"
  <2> DEFINE by == rejected_by(Verdict[installed][target[c]])
             r == Rec("reject", by, 403, target[c])
  <2>1. by \in {"transform", "listener"} /\ r \in Record
    BY <1>2 DEF rejected_by, Rec, Record
  <2>2. /\ Emit(c, "reject", by, 403, target[c]) /\ Reply(c, "denied") /\ Goto(c, "done")
        /\ reply'[c] = "denied" /\ pc'[c] = "done"
    BY <1>1, <1>4 DEF Evaluate, Reply, Goto, TypeOK
  <2> HIDE DEF by
  <2>3. /\ log' \in [Conn -> Seq(Record)] /\ log'[c] = <<r>>
        /\ \A d \in Conn \ {c} : log'[d] = log[d]
    <3>1. Logs(c, r)
      BY <2>2, EmitLogs
    <3> HIDE DEF r
    <3> QED
      BY <1>1, <1>2, <2>1, <3>1, EmitOne, Zenon
  <2>4. TypeOK' /\ Only(c)
    <3>1. /\ pc' \in [Conn -> PC] /\ reply' \in [Conn -> Replies]
          /\ \A d \in Conn \ {c} : pc'[d] = pc[d] /\ reply'[d] = reply[d]
      BY <1>1, <2>2 DEF TypeOK, Goto, Reply, PC, Replies
    <3> QED
      BY <1>1, <1>3, <2>3, <3>1 DEF TypeOK, Only
  <2>5. Where(c)' /\ Fresh(c)'
    BY <2>2, Zenon DEF Where, Fresh
  <2>6. Recorded(c)'
    <3>1. r.status = 403
      BY DEF Rec
    <3> HIDE DEF r
    <3> QED
      <4>1. r \in Record /\ log'[c] = <<r>> /\ reply'[c] = "denied" /\ ~inner'[c]
        BY <1>2, <1>3, <2>1, <2>2, <2>3, Zenon
      <4>2. Told(c, r) /\ reply'[c] # "success"
        BY <3>1, <4>1, ToldDenied
      <4> QED
        BY <4>1, <4>2, ToldRecorded, Zenon
  <2>7. Apart(c)'
    BY <1>2, <1>3, <2>2, NoCtxFields DEF Apart
  <2> QED
    BY <2>4, <2>5, <2>6, <2>7, OneConn DEF ConnInv
<1>5. CASE Verdict[installed][target[c]] = "continue"
  <2>1. /\ pc'[c] = IF target[c] \in Passthrough[installed] THEN "dial" ELSE "reply"
        /\ Goto(c, pc'[c]) /\ reply' = reply /\ log' = log
    BY <1>1, <1>5, Zenon DEF Evaluate, Goto, TypeOK
  <2>2. TypeOK' /\ Only(c)
    <3>1. pc' \in [Conn -> PC] /\ \A d \in Conn \ {c} : pc'[d] = pc[d]
      BY <1>1, <2>1, Zenon DEF TypeOK, Goto, PC
    <3> QED
      BY <1>1, <1>3, <2>1, <3>1, Zenon DEF TypeOK, Only
  <2>3. Judged(c)'
    BY <1>3, <1>5 DEF Judged
  <2>4. Where(c)' /\ Fresh(c)'
    BY <1>2, <1>3, <2>1, <2>3, Zenon DEF Where, Fresh, Bumped
  <2>5. Recorded(c)'
    BY <1>2, <2>1, NoRecordYet
  <2>6. Apart(c)'
    BY <1>2, <1>3, <2>1, NoCtxFields, Zenon DEF Apart
  <2> QED
    BY <2>2, <2>4, <2>5, <2>6, OneConn DEF ConnInv
<1> QED
  BY <1>4, <1>5

\* The client is told that the tunnel is open.
LEMMA ReplyIInv == ASSUME IInv, NEW c \in Conn, ReplySuccess(c) PROVE IInv'
<1>1. ConnInv(c) /\ TypeOK /\ pc[c] = "reply"
  BY DEF IInv, ReplySuccess
<1>2. /\ Bumped(c) \/ Linked(c)
      /\ log[c] = <<>> /\ ctx[c] = NoCtx /\ ~sent[c] /\ ~inner[c]
  BY <1>1, Zenon DEF ConnInv, Where, Fresh
<1>3. /\ pc'[c] = IF link[c] = Absent THEN "sniff" ELSE "hello"
      /\ reply'[c] = "success" /\ judge' = judge /\ target' = target /\ sni' = sni
      /\ link' = link /\ sent' = sent /\ ctx' = ctx /\ inner' = inner /\ log' = log
      /\ installed' = installed
  BY <1>1 DEF ReplySuccess, Goto, Reply, wire, served, TypeOK
<1>4. /\ pc' \in [Conn -> PC] /\ reply' \in [Conn -> Replies]
      /\ \A d \in Conn \ {c} : pc'[d] = pc[d] /\ reply'[d] = reply[d]
  BY <1>1 DEF ReplySuccess, TypeOK, Goto, Reply, PC, Replies
<1>5. TypeOK' /\ Only(c)
  BY <1>1, <1>3, <1>4 DEF TypeOK, Only
<1>6. Bumped(c)' = Bumped(c) /\ Linked(c)' = Linked(c)
  BY <1>3, Zenon DEF Bumped, Linked, Judged
<1>7. Where(c)' /\ Fresh(c)'
  BY <1>2, <1>3, <1>6, Zenon DEF Where, Fresh, Bumped, Linked
<1>8. Recorded(c)'
  BY <1>2, <1>3, NoRecordYet, Zenon
<1>9. Apart(c)'
  BY <1>1, <1>2, <1>3, <1>6, NoCtxFields, Zenon DEF ConnInv, Apart
<1> QED
  BY <1>5, <1>7, <1>8, <1>9, OneConn DEF ConnInv

-----------------------------------------------------------------------------
(* Bumped tunnels and HTTPS connections.                                    *)

\* A connection is handed to serve_io.
LEMMA ServeIInv ==
    ASSUME IInv, NEW c \in Conn, NEW https \in BOOLEAN, Serve(c, https), UNCHANGED log,
           \/ pc[c] = "sniff" /\ ~https
           \/ pc[c] = "leaf"
    PROVE  IInv'
<1>1. ConnInv(c) /\ TypeOK
  BY DEF IInv
<1>2. log[c] = <<>> /\ ~sent[c] /\ ~inner[c]
  BY <1>1, Zenon DEF ConnInv, Fresh
<1>3. /\ pc'[c] = "served" /\ ctx'[c] = [forced |-> target[c], sni |-> sni[c], https |-> https]
      /\ judge' = judge /\ target' = target /\ sni' = sni /\ link' = link /\ sent' = sent
      /\ inner' = inner /\ log' = log /\ reply' = reply /\ installed' = installed
  BY <1>1 DEF Serve, Goto, wire, TypeOK
<1>4. /\ pc' \in [Conn -> PC] /\ ctx' \in [Conn -> ConnCtx]
      /\ \A d \in Conn \ {c} : pc'[d] = pc[d] /\ ctx'[d] = ctx[d]
  BY <1>1 DEF Serve, TypeOK, Goto, PC, ConnCtx
<1>5. TypeOK' /\ Only(c)
  BY <1>1, <1>3, <1>4 DEF TypeOK, Only
<1>6. /\ Judged(c)' = Judged(c) /\ Bumped(c)' = Bumped(c) /\ Linked(c)' = Linked(c)
      /\ Origin(c)' = Origin(c) /\ SniAgrees(c)' = SniAgrees(c)
  BY <1>3, Zenon DEF Judged, Bumped, Linked, Origin, SniAgrees
<1>7. ctx'[c].forced = target[c] /\ ctx'[c].https = https
  <2> DEFINE x == [forced |-> target[c], sni |-> sni[c], https |-> https]
  <2>1. x.forced = target[c] /\ x.https = https
    BY CtxFields, Zenon
  <2>2. ctx'[c] = x
    BY <1>3, Zenon
  <2> HIDE DEF x
  <2> QED
    BY <2>1, <2>2, Zenon
<1>8. (Origin(c) \/ (Bumped(c) /\ reply[c] = "success")) /\ (https => SniAgrees(c))
  BY <1>1, Zenon DEF ConnInv, Where
<1>9. Where(c)' /\ Fresh(c)'
  BY <1>2, <1>3, <1>6, <1>7, <1>8, Zenon DEF Where, Fresh
<1>10. Recorded(c)'
  BY <1>1, <1>3, <1>6, SameRecord, Zenon DEF ConnInv
<1>11. Apart(c)'
  BY <1>1, <1>2, <1>3, <1>6, <1>7, <1>8, Zenon DEF ConnInv, Apart, Origin
<1> QED
  BY <1>5, <1>9, <1>10, <1>11, OneConn DEF ConnInv

\* The connection ends with its only record, r.
Named(c) ==
    /\ sni' \in [Conn -> Host \cup {Absent}] /\ \A d \in Conn \ {c} : sni'[d] = sni[d]
    /\ sent' \in [Conn -> BOOLEAN] /\ \A d \in Conn \ {c} : sent'[d] = sent[d]
    /\ sent'[c] => SniAgrees(c)'

EndsWith(c, r) ==
    /\ Logs(c, r) /\ Answered(c) /\ Told(c, r) /\ Named(c)
    /\ Goto(c, "done")
    /\ pc[c] # "done" /\ ctx[c] = NoCtx /\ ~inner[c]
    /\ UNCHANGED <<installed, judge, target, link, served>>

\* A connection that ends with a record.
LEMMA EndsIInv ==
    ASSUME IInv, NEW c \in Conn, NEW r \in Record, EndsWith(c, r)
    PROVE  IInv'
<1>1. ConnInv(c) /\ TypeOK
  BY DEF IInv
<1>2. /\ Logs(c, r) /\ Answered(c) /\ Told(c, r) /\ Named(c)
      /\ pc[c] # "done" /\ ctx[c] = NoCtx /\ ~inner[c]
  BY Zenon DEF EndsWith
<1>3. log[c] = <<>>
  BY <1>1, <1>2, Zenon DEF ConnInv, Fresh
<1>4. /\ log' \in [Conn -> Seq(Record)] /\ log'[c] = <<r>>
      /\ \A d \in Conn \ {c} : log'[d] = log[d]
  BY <1>1, <1>2, <1>3, EmitOne, Zenon
<1>5. /\ pc' \in [Conn -> PC] /\ pc'[c] = "done" /\ \A d \in Conn \ {c} : pc'[d] = pc[d]
  <2>1. pc' = [pc EXCEPT ![c] = "done"] /\ pc \in [Conn -> PC]
    BY <1>1, Zenon DEF EndsWith, Goto, TypeOK
  <2> QED
    BY <2>1 DEF PC
<1>6. /\ judge' = judge /\ target' = target /\ link' = link /\ ctx' = ctx /\ inner' = inner
      /\ installed' = installed
  BY DEF EndsWith, served
<1>7. /\ sni' \in [Conn -> Host \cup {Absent}] /\ sent' \in [Conn -> BOOLEAN]
      /\ reply' \in [Conn -> Replies]
      /\ \A d \in Conn \ {c} : sni'[d] = sni[d] /\ sent'[d] = sent[d] /\ reply'[d] = reply[d]
  BY <1>2, Zenon DEF Answered, Named
<1>8. TypeOK'
  BY <1>1, <1>4, <1>5, <1>6, <1>7 DEF TypeOK
<1>9. Only(c)
  BY <1>4, <1>5, <1>6, <1>7, Zenon DEF Only
<1>10. Judged(c)' = Judged(c) /\ Bumped(c)' = Bumped(c) /\ Linked(c)' = Linked(c)
  BY <1>6, Zenon DEF Judged, Bumped, Linked
<1>11. Where(c)' /\ Fresh(c)'
  BY <1>5, Zenon DEF Where, Fresh
<1>12. reply'[c] = "success" => Bumped(c) \/ Linked(c)
  BY <1>1, <1>2, Zenon DEF ConnInv, Apart, Answered
<1>13. Explains(c, r)'
  <2>1. ~inner'[c] /\ (reply'[c] = "success" => Judged(c)')
    BY <1>2, <1>6, <1>10, <1>12, Zenon DEF Bumped, Linked
  <2> QED
    BY <1>2, <2>1, ToldExplains, Zenon
<1>14. Recorded(c)'
  BY <1>4, <1>13, Zenon DEF Recorded
<1>15. Apart(c)'
  <2>1. Apart(c) /\ ctx'[c].forced = Absent /\ ~ctx'[c].https
    BY <1>1, <1>2, <1>6, NoCtxFields, Zenon DEF ConnInv
  <2>2. sent'[c] => SniAgrees(c)'
    BY <1>2, Zenon DEF Named
  <2> QED
    BY <1>6, <1>10, <1>12, <2>1, <2>2, Zenon DEF Apart
<1> QED
  BY <1>8, <1>9, <1>11, <1>14, <1>15, OneConn DEF ConnInv

\* The pieces of EndsWith, when the client is told nothing new.
LEMMA AnsweredAlready ==
    ASSUME TypeOK, NEW c \in Conn, reply' = reply
    PROVE  Answered(c)
BY DEF Answered, TypeOK

\* Nothing was sent upstream yet, so there is no SNI to disagree with.
LEMMA NamedAlready ==
    ASSUME TypeOK, NEW c \in Conn, sni' = sni, sent' = sent, ~sent[c]
    PROVE  Named(c)
BY DEF Named, TypeOK

\* The first bytes tell TLS from HTTP.
LEMMA SniffIInv ==
    ASSUME IInv, NEW c \in Conn, NEW first \in {"tls", "http", "other", "nothing"}, Sniff(c, first)
    PROVE  IInv'
<1>1. CASE first \in {"tls", "other"}
  BY <1>1, MovesIInv, Zenon
<1>2. CASE first = "http"
  BY <1>2, ServeIInv, Zenon DEF Sniff
<1>3. CASE first = "nothing"
  <2>1. /\ ConnInv(c) /\ TypeOK /\ pc[c] = "sniff" /\ Emit(c, "allow", "none", 200, target[c])
        /\ Goto(c, "done") /\ UNCHANGED <<installed, judge, target, sni, wire, reply, served>>
    BY <1>3, Zenon DEF Sniff, IInv
  <2>2. /\ target[c] \in Host /\ reply[c] = "success" /\ ctx[c] = NoCtx /\ ~inner[c] /\ ~sent[c]
    BY <2>1, Zenon DEF ConnInv, Where, Fresh, Bumped
  <2> DEFINE r == Rec("allow", "none", 200, target[c])
  <2>3. r \in Record
    <3>1. target[c] \in Host
      BY <2>2, Zenon
    <3> QED
      BY <3>1 DEF Rec, Record
  <2>4. Logs(c, r) /\ r.status = 200
    BY <2>1, EmitLogs
  <2> HIDE DEF r
  <2>5. Answered(c) /\ Told(c, r)
    <3>1. TypeOK /\ reply' = reply /\ reply'[c] = "success"
      BY <2>1, <2>2, Zenon
    <3> QED
      BY <2>4, <3>1, AnsweredAlready, ToldSuccess
  <2>6. Named(c)
    BY <2>1, <2>2, NamedAlready DEF wire
  <2>7. EndsWith(c, r)
    BY <2>1, <2>2, <2>4, <2>5, <2>6, Zenon DEF EndsWith, wire
  <2> QED
    BY <2>3, <2>7, EndsIInv, Zenon
<1> QED
  BY <1>1, <1>2, <1>3

\* The server name is known, and agrees: TLS goes on, or the tunnel does.
LEMMA NamedIInv ==
    ASSUME IInv, NEW c \in Conn, NEW name \in Host \cup {Absent}, NEW where,
           sni' = [sni EXCEPT ![c] = name], target[c] # Absent => name \in {Absent, target[c]},
           Goto(c, where), UNCHANGED <<installed, judge, target, wire, reply, served, log>>,
           \/ pc[c] = "clienthello" /\ where = "leaf"
           \/ pc[c] = "hello" /\ where \in {"replay", "splice"}
    PROVE  IInv'
<1>1. ConnInv(c) /\ TypeOK
  BY DEF IInv
<1>2. /\ log[c] = <<>> /\ ctx[c] = NoCtx /\ ~sent[c] /\ ~inner[c]
  BY <1>1, Zenon DEF ConnInv, Fresh
<1>3. /\ pc'[c] = where /\ sni'[c] = name
      /\ judge' = judge /\ target' = target /\ link' = link /\ sent' = sent
      /\ ctx' = ctx /\ inner' = inner /\ log' = log /\ reply' = reply /\ installed' = installed
  BY <1>1 DEF Goto, wire, served, TypeOK
<1>4. /\ pc' \in [Conn -> PC] /\ sni' \in [Conn -> Host \cup {Absent}]
      /\ \A d \in Conn \ {c} : pc'[d] = pc[d] /\ sni'[d] = sni[d]
  BY <1>1 DEF TypeOK, Goto, PC
<1>5. TypeOK' /\ Only(c)
  BY <1>1, <1>3, <1>4, Zenon DEF TypeOK, Only
<1>6. /\ Judged(c)' = Judged(c) /\ Bumped(c)' = Bumped(c) /\ Linked(c)' = Linked(c)
      /\ Origin(c)' = Origin(c) /\ SniAgrees(c)'
  BY <1>3, Zenon DEF Judged, Bumped, Linked, Origin, SniAgrees
<1>7. Where(c)' /\ Fresh(c)'
  BY <1>1, <1>2, <1>3, <1>6, Zenon DEF ConnInv, Where, Fresh
<1>8. Recorded(c)'
  BY <1>1, <1>3, <1>6, SameRecord, Zenon DEF ConnInv
<1>9. Apart(c)'
  BY <1>1, <1>3, <1>6, Zenon DEF ConnInv, Apart
<1> QED
  BY <1>5, <1>7, <1>8, <1>9, OneConn, Zenon DEF ConnInv

\* It does not: the connection ends with a record.
LEMMA NameRefusedIInv ==
    ASSUME IInv, NEW c \in Conn, NEW name \in Host \cup {Absent}, NEW h \in Host \cup {Empty},
           pc[c] \in {"clienthello", "hello"},
           sni' = [sni EXCEPT ![c] = name], Goto(c, "done"), Emit(c, "reject", "listener", 0, h),
           UNCHANGED <<installed, judge, target, wire, reply, served>>
    PROVE  IInv'
<1>1. ConnInv(c) /\ TypeOK
  BY DEF IInv
<1>2. /\ ctx[c] = NoCtx /\ ~sent[c] /\ ~inner[c]
  BY <1>1, Zenon DEF ConnInv, Fresh
<1> DEFINE r == Rec("reject", "listener", 0, h)
<1>3. r \in Record
  BY DEF Rec, Record
<1>4. Logs(c, r) /\ r.status = 0
  BY EmitLogs
<1> HIDE DEF r
<1>5. Named(c)
  BY <1>1, <1>2, Zenon DEF Named, TypeOK, wire
<1>6. Answered(c) /\ Told(c, r)
  <2>1. TypeOK
    BY <1>1, Zenon
  <2>2. r.status = 0
    BY <1>4, Zenon
  <2>3. Answered(c)
    BY <2>1, AnsweredAlready, Zenon
  <2>4. Told(c, r)
    BY <2>2, ToldNothing, Zenon
  <2> QED
    BY <2>3, <2>4, Zenon
<1>7. EndsWith(c, r)
  BY <1>2, <1>4, <1>5, <1>6, Zenon DEF EndsWith, wire
<1> QED
  BY <1>3, <1>7, EndsIInv, Zenon

\* The ClientHello is read and its SNI compared with the target.
LEMMA ClientHelloIInv ==
    ASSUME IInv, NEW c \in Conn, NEW name \in Host \cup {Absent}, ClientHello(c, name)
    PROVE  IInv'
<1> DEFINE nameless == target[c] = Absent /\ name = Absent
           mismatch == target[c] # Absent /\ name \notin {Absent, target[c]}
<1>1. CASE nameless \/ mismatch
  <2>1. (IF nameless THEN Empty ELSE target[c]) \in Host \cup {Empty}
    BY <1>1 DEF IInv, TypeOK
  <2> QED
    BY <1>1, <2>1, NameRefusedIInv, Zenon DEF ClientHello
<1>2. CASE ~(nameless \/ mismatch)
  BY <1>2, NamedIInv, Zenon DEF ClientHello
<1> QED
  BY <1>1, <1>2

\* The ClientHello of a passthrough is read and its SNI compared with the target.
LEMMA HelloIInv ==
    ASSUME IInv, NEW c \in Conn, NEW name \in Host \cup {Absent}, NEW some \in BOOLEAN,
           Hello(c, name, some)
    PROVE  IInv'
<1>1. pc[c] = "hello" /\ target[c] \in Host
  BY Zenon DEF Hello, IInv, ConnInv, Where, Linked
<1>2. CASE name \in {Absent, target[c]}
  <2>1. Goto(c, IF some THEN "replay" ELSE "splice")
    BY <1>2, Zenon DEF Hello
  <2> QED
    BY <1>1, <1>2, <2>1, NamedIInv, Zenon DEF Hello
<1>3. CASE name \notin {Absent, target[c]}
  BY <1>1, <1>3, NameRefusedIInv, Zenon DEF Hello
<1> QED
  BY <1>2, <1>3

\* A request inside the tunnel is served.
LEMMA InnerIInv == ASSUME IInv, NEW c \in Conn, InnerRequest(c) PROVE IInv'
<1>1. ConnInv(c) /\ TypeOK /\ pc[c] = "served"
  BY DEF IInv, InnerRequest
<1>2. /\ inner' = [inner EXCEPT ![c] = TRUE]
      /\ pc' = pc /\ judge' = judge /\ target' = target /\ sni' = sni /\ link' = link
      /\ sent' = sent /\ ctx' = ctx /\ log' = log /\ reply' = reply /\ installed' = installed
  BY DEF InnerRequest, wire
<1>3. TypeOK' /\ Only(c)
  BY <1>1, <1>2, Zenon DEF TypeOK, Only
<1>4. /\ Judged(c)' = Judged(c) /\ Bumped(c)' = Bumped(c) /\ Linked(c)' = Linked(c)
      /\ Origin(c)' = Origin(c) /\ SniAgrees(c)' = SniAgrees(c)
  BY <1>2, Zenon DEF Judged, Bumped, Linked, Origin, SniAgrees
<1>5. Where(c)' /\ Fresh(c)' /\ Apart(c)'
  BY <1>1, <1>2, <1>4, Zenon DEF ConnInv, Where, Fresh, Apart
<1>6. Recorded(c)'
  <2>1. log[c] = <<>> /\ reply[c] \notin {"denied", "bad_gateway"}
    BY <1>1, Zenon DEF ConnInv, Fresh, Where, Origin
  <2> QED
    BY <1>2, <2>1, NoRecordYet
<1> QED
  BY <1>3, <1>5, <1>6, OneConn DEF ConnInv

-----------------------------------------------------------------------------
(* Passthrough tunnels.                                                     *)

\* The dial fails or is refused.
NoLink(c) ==
    /\ pc[c] = "dial" /\ target[c] \in Host
    /\ Reply(c, "bad_gateway") /\ Goto(c, "done") /\ UNCHANGED link
    /\ UNCHANGED <<installed, judge, target, sni, sent, served>>

\* A passthrough that gets no link to its upstream.
LEMMA NoLinkIInv ==
    ASSUME IInv, NEW c \in Conn, NoLink(c), NEW action \in {"reject", "error"},
           NEW by \in {"guard", "none"}, Emit(c, action, by, 502, target[c])
    PROVE  IInv'
<1> DEFINE r == Rec(action, by, 502, target[c])
<1>1. ConnInv(c) /\ TypeOK
  BY DEF IInv
<1>2. r \in Record
  <2>1. target[c] \in Host
    BY Zenon DEF NoLink
  <2> QED
    BY <2>1 DEF Rec, Record
<1>3. Logs(c, r) /\ r.status = 502
  BY EmitLogs
<1> HIDE DEF r
<1>4. pc[c] = "dial" /\ ctx[c] = NoCtx /\ ~sent[c] /\ ~inner[c]
  BY <1>1 DEF NoLink, ConnInv, Fresh
<1>5. Named(c)
  BY <1>1, <1>4, NamedAlready, Zenon DEF NoLink
<1>6. Answered(c) /\ Told(c, r)
  <2>1. reply' = [reply EXCEPT ![c] = "bad_gateway"] /\ reply \in [Conn -> Replies]
    BY <1>1 DEF NoLink, Reply, TypeOK
  <2>2. /\ reply' \in [Conn -> Replies] /\ reply'[c] = "bad_gateway"
        /\ \A d \in Conn \ {c} : reply'[d] = reply[d]
    BY <2>1 DEF Replies
  <2> QED
    BY <1>3, <2>2, ToldGateway DEF Answered
<1>7. EndsWith(c, r)
  BY <1>3, <1>4, <1>5, <1>6, Zenon DEF EndsWith, NoLink
<1> QED
  BY <1>2, <1>7, EndsIInv, Zenon

\* The dial succeeds, with an address the judging runtime's guard lets through.
LEMMA LinkIInv ==
    ASSUME IInv, NEW c \in Conn, pc[c] = "dial", NEW a \in Addr, a \notin Deny[judge[c]],
           link' = [link EXCEPT ![c] = a], Goto(c, "reply"), UNCHANGED <<reply, log>>,
           UNCHANGED <<installed, judge, target, sni, sent, served>>
    PROVE  IInv'
<1>1. ConnInv(c) /\ TypeOK
  BY DEF IInv
<1>2. /\ target[c] \in Host /\ Judged(c) /\ target[c] \in Passthrough[judge[c]]
      /\ reply[c] = "none" /\ log[c] = <<>> /\ ctx[c] = NoCtx /\ ~sent[c] /\ ~inner[c]
  BY <1>1, Zenon DEF ConnInv, Where, Fresh
<1>3. /\ pc'[c] = "reply" /\ link'[c] = a /\ a # Absent
      /\ judge' = judge /\ target' = target /\ sni' = sni /\ sent' = sent
      /\ ctx' = ctx /\ inner' = inner /\ log' = log /\ reply' = reply /\ installed' = installed
  BY <1>1, NamesAssumption, Zenon DEF Goto, served, TypeOK
<1>4. /\ pc' \in [Conn -> PC] /\ link' \in [Conn -> Addr \cup {Absent}]
      /\ \A d \in Conn \ {c} : pc'[d] = pc[d] /\ link'[d] = link[d]
  BY <1>1, Zenon DEF TypeOK, Goto, PC
<1>5. TypeOK' /\ Only(c)
  BY <1>1, <1>3, <1>4, Zenon DEF TypeOK, Only
<1>6. Linked(c)'
  BY <1>2, <1>3, Zenon DEF Linked, Judged
<1>7. Where(c)' /\ Fresh(c)'
  BY <1>2, <1>3, <1>6, Zenon DEF Where, Fresh
<1>8. Recorded(c)'
  BY <1>2, <1>3, NoRecordYet, Zenon
<1>9. Apart(c)'
  BY <1>2, <1>3, <1>6, NoCtxFields, Zenon DEF Apart
<1> QED
  BY <1>5, <1>7, <1>8, <1>9, OneConn, Zenon DEF ConnInv

\* An answer holds addresses.
LEMMA FoundAddr ==
    ASSUME NEW h \in Host, NEW found \in lookup_host(h), NEW i \in DOMAIN found
    PROVE  found[i] \in Addr
<1>1. CASE h \in Addr
  <2>1. found = <<h>>
    BY <1>1 DEF lookup_host
  <2> QED
    BY <1>1, <2>1
<1>2. CASE h \notin Addr
  <2>1. found \in Seq(Addr)
    BY <1>2, AnswersAssumption DEF lookup_host
  <2> QED
    BY <2>1
<1> QED
  BY <1>1, <1>2

\* A passthrough dials its upstream.
LEMMA DialIInv == ASSUME IInv, NEW c \in Conn, Dial(c) PROVE IInv'
<1>1. pc[c] = "dial" /\ target[c] \in Host
  BY Zenon DEF Dial, ConnectUpstream, IInv, ConnInv, Where
<1>2. UNCHANGED <<installed, judge, target, sni, sent, served>>
  BY Zenon DEF Dial, ConnectUpstream
<1>3. PICK found \in lookup_host(target[c]), up \in SUBSET Addr :
        \/ \E i \in DOMAIN found :
            /\ StopsAt(found, up, Deny[judge[c]], i)
            /\ IF found[i] \in Deny[judge[c]]
               THEN /\ Emit(c, "reject", "guard", 502, target[c])
                    /\ Reply(c, "bad_gateway") /\ Goto(c, "done") /\ UNCHANGED link
               ELSE /\ link' = [link EXCEPT ![c] = found[i]]
                    /\ Goto(c, "reply") /\ UNCHANGED <<reply, log>>
        \/ /\ Emit(c, "error", "none", 502, target[c])
           /\ Reply(c, "bad_gateway") /\ Goto(c, "done") /\ UNCHANGED link
  BY Zenon DEF Dial, ConnectUpstream
<1>4. ASSUME NEW i \in DOMAIN found, found[i] \notin Deny[judge[c]],
             link' = [link EXCEPT ![c] = found[i]], Goto(c, "reply"), UNCHANGED <<reply, log>>
      PROVE  IInv'
  <2>1. found[i] \in Addr
    BY <1>1, FoundAddr, Zenon
  <2> QED
    BY <1>1, <1>2, <1>4, <2>1, LinkIInv, Zenon
<1>5. ASSUME Reply(c, "bad_gateway"), Goto(c, "done"), UNCHANGED link,
             Emit(c, "reject", "guard", 502, target[c]) \/ Emit(c, "error", "none", 502, target[c])
      PROVE  IInv'
  <2>1. NoLink(c)
    BY <1>1, <1>2, <1>5, Zenon DEF NoLink
  <2> QED
    BY <1>5, <2>1, NoLinkIInv
<1>6. CASE \E i \in DOMAIN found :
            /\ StopsAt(found, up, Deny[judge[c]], i)
            /\ IF found[i] \in Deny[judge[c]]
               THEN /\ Emit(c, "reject", "guard", 502, target[c])
                    /\ Reply(c, "bad_gateway") /\ Goto(c, "done") /\ UNCHANGED link
               ELSE /\ link' = [link EXCEPT ![c] = found[i]]
                    /\ Goto(c, "reply") /\ UNCHANGED <<reply, log>>
  <2>1. PICK i \in DOMAIN found :
            IF found[i] \in Deny[judge[c]]
            THEN /\ Emit(c, "reject", "guard", 502, target[c])
                 /\ Reply(c, "bad_gateway") /\ Goto(c, "done") /\ UNCHANGED link
            ELSE /\ link' = [link EXCEPT ![c] = found[i]]
                 /\ Goto(c, "reply") /\ UNCHANGED <<reply, log>>
    BY <1>6, Zenon
  <2>2. CASE found[i] \in Deny[judge[c]]
    <3>1. /\ Emit(c, "reject", "guard", 502, target[c]) /\ Reply(c, "bad_gateway")
          /\ Goto(c, "done") /\ UNCHANGED link
      BY <2>1, <2>2
    <3> QED
      BY <1>5, <3>1
  <2>3. CASE found[i] \notin Deny[judge[c]]
    BY <1>4, <2>1, <2>3, Zenon
  <2> QED
    BY <2>2, <2>3, Zenon
<1> QED
  BY <1>3, <1>5, <1>6, Zenon

\* The bytes read so far are replayed to the upstream.
LEMMA ReplayIInv == ASSUME IInv, NEW c \in Conn, Replay(c) PROVE IInv'
<1>1. ConnInv(c) /\ TypeOK /\ pc[c] = "replay"
  BY DEF IInv, Replay
<1>2. /\ Linked(c) /\ SniAgrees(c) /\ reply[c] = "success"
      /\ log[c] = <<>> /\ ctx[c] = NoCtx /\ ~inner[c]
  BY <1>1, Zenon DEF ConnInv, Where, Fresh
<1>3. /\ pc'[c] \in {"splice", "done"}
      /\ judge' = judge /\ target' = target /\ sni' = sni /\ link' = link
      /\ ctx' = ctx /\ inner' = inner /\ log' = log /\ reply' = reply /\ installed' = installed
  BY <1>1 DEF Replay, Goto, served, TypeOK
<1>4. /\ pc' \in [Conn -> PC] /\ sent' \in [Conn -> BOOLEAN]
      /\ \A d \in Conn \ {c} : pc'[d] = pc[d] /\ sent'[d] = sent[d]
  BY <1>1, Zenon DEF Replay, TypeOK, Goto, PC
<1>5. TypeOK' /\ Only(c)
  BY <1>1, <1>3, <1>4, Zenon DEF TypeOK, Only
<1>6. Linked(c)' /\ SniAgrees(c)' /\ Judged(c)' = Judged(c)
  BY <1>2, <1>3, Zenon DEF Judged, Linked, SniAgrees
<1>7. Where(c)' /\ Fresh(c)'
  BY <1>2, <1>3, <1>6, Zenon DEF Where, Fresh
<1>8. Recorded(c)'
  BY <1>2, <1>3, NoRecordYet, Zenon
<1>9. Apart(c)'
  BY <1>2, <1>3, <1>6, NoCtxFields, Zenon DEF Apart
<1> QED
  BY <1>5, <1>7, <1>8, <1>9, OneConn DEF ConnInv

\* The two ends are joined.
LEMMA SpliceIInv == ASSUME IInv, NEW c \in Conn, Splice(c) PROVE IInv'
<1>1. ConnInv(c) /\ TypeOK /\ pc[c] = "splice"
  BY DEF IInv, Splice
<1>2. /\ Linked(c) /\ SniAgrees(c) /\ reply[c] = "success" /\ ctx[c] = NoCtx /\ ~inner[c]
  BY <1>1, Zenon DEF ConnInv, Where, Fresh
<1> DEFINE r == Rec("allow", "none", 200, target[c])
<1>3. r \in Record
  <2>1. target[c] \in Host
    BY <1>2, Zenon DEF Linked
  <2> QED
    BY <2>1 DEF Rec, Record
<1>4. Logs(c, r) /\ r.status = 200
  <2>1. Emit(c, "allow", "none", 200, target[c])
    BY Zenon DEF Splice
  <2> QED
    BY <2>1, EmitLogs
<1> HIDE DEF r
<1>5. Answered(c) /\ Told(c, r)
  <2>1. TypeOK /\ reply' = reply /\ reply'[c] = "success"
    BY <1>1, <1>2, Zenon DEF Splice
  <2> QED
    BY <1>4, <2>1, AnsweredAlready, ToldSuccess
<1>6. Named(c)
  <2>1. sni' = sni /\ sent' = [sent EXCEPT ![c] = TRUE] /\ sni \in [Conn -> Host \cup {Absent}]
        /\ sent \in [Conn -> BOOLEAN]
    BY <1>1 DEF Splice, TypeOK
  <2>2. SniAgrees(c)'
    BY <1>2, Zenon DEF SniAgrees, Splice
  <2> QED
    BY <2>1, <2>2 DEF Named
<1>7. EndsWith(c, r)
  BY <1>1, <1>2, <1>4, <1>5, <1>6, Zenon DEF EndsWith, Splice
<1> QED
  BY <1>3, <1>7, EndsIInv, Zenon

-----------------------------------------------------------------------------
(* The theorems.                                                            *)

\* No connection yet.
LEMMA InitIInv == Init => IInv
<1> SUFFICES ASSUME Init PROVE IInv
  OBVIOUS
<1>1. TypeOK
  BY DEF Init, TypeOK, PC, Replies, ConnCtx, NoCtx
<1>2. ASSUME NEW c \in Conn PROVE ConnInv(c)
  <2>1. Where(c) /\ Fresh(c)
    BY Zenon DEF Init, Where, Fresh, Origin
  <2>2. Recorded(c) /\ Apart(c)
    BY NoCtxFields DEF Init, Recorded, Apart
  <2> QED
    BY <2>1, <2>2 DEF ConnInv
<1> QED
  BY <1>1, <1>2 DEF IInv

\* IInv is inductive.
LEMMA NextIInv == ASSUME IInv, [Next]_vars PROVE IInv'
<1>1. ASSUME UNCHANGED <<pc, judge, target, sni, wire, reply, served, log>>, installed' \in Config
      PROVE  IInv'
  <2>1. /\ pc' = pc /\ judge' = judge /\ target' = target /\ sni' = sni /\ link' = link
        /\ sent' = sent /\ reply' = reply /\ ctx' = ctx /\ inner' = inner /\ log' = log
    BY <1>1 DEF wire, served
  <2>2. TypeOK'
    BY <1>1, <2>1 DEF IInv, TypeOK
  <2>3. \A c \in Conn : ConnInv(c)'
    BY <2>1, SameConn, Zenon DEF IInv
  <2> QED
    BY <2>2, <2>3 DEF IInv
<1>2. CASE UNCHANGED vars
  BY <1>1, <1>2, Zenon DEF vars, wire, served, IInv, TypeOK
<1>3. ASSUME NEW rt \in Config, Swap(rt) PROVE IInv'
  BY <1>1, <1>3 DEF Swap
<1>4. ASSUME NEW c \in Conn, TlsDone(c) PROVE IInv'
  BY <1>4, ServeIInv, Zenon DEF TlsDone
<1> QED
  BY <1>2, <1>3, <1>4, MovesIInv, HandshakeIInv, EvaluateIInv, ReplyIInv, SniffIInv,
     ClientHelloIInv, InnerIInv, DialIInv, HelloIInv, ReplayIInv, SpliceIInv, Zenon DEF Next

\* IInv holds throughout.
LEMMA Inductive == Spec => []IInv
<1>1. Init => IInv
  BY InitIInv
<1>2. IInv /\ [Next]_vars => IInv'
  BY NextIInv
<1> QED
  BY <1>1, <1>2, PTL DEF Spec

\* The variables of every connection have their types.
THEOREM TunnelTypeCorrect == Spec => []TypeOK
<1>1. IInv => TypeOK
  BY DEF IInv
<1> QED
  BY <1>1, Inductive, PTL

\* Requests are served under a tunnel's target, and bytes spliced to it, only
\* if the runtime that judged the CONNECT let it through, and connected only
\* to what that runtime's guard allows: with any number of reloads meanwhile.
THEOREM TunnelsAlwaysJudged == Spec => []TunnelsAreJudged
<1>1. IInv => TunnelsAreJudged
  BY Zenon DEF IInv, ConnInv, Apart, Bumped, Linked, TunnelsAreJudged
<1> QED
  BY <1>1, Inductive, PTL

\* No target of the passthrough list is decrypted, no other spliced, and a
\* passthrough client is not told "success" before its upstream is connected.
THEOREM PassthroughAlwaysApart == Spec => []PassthroughApart
<1>1. IInv => PassthroughApart
  BY Zenon DEF IInv, ConnInv, Apart, Bumped, Linked, PassthroughApart
<1> QED
  BY <1>1, Inductive, PTL

\* A known server name is the CONNECT target before a byte goes upstream or a
\* request is served.
THEOREM TlsIdentityAlwaysAgrees == Spec => []TlsIdentityAgrees
<1>1. IInv => TlsIdentityAgrees
  BY Zenon DEF IInv, ConnInv, Apart, SniAgrees, TlsIdentityAgrees
<1> QED
  BY <1>1, Inductive, PTL

\* A connection has one record at most.
LEMMA OneRecordEach ==
    ASSUME IInv, NEW c \in Conn
    PROVE  \/ log[c] = <<>> /\ DOMAIN log[c] = {} /\ Len(log[c]) = 0
                /\ reply[c] \notin {"denied", "bad_gateway"}
           \/ \E r \in Record : /\ log[c] # <<>> /\ DOMAIN log[c] = {1} /\ Len(log[c]) = 1
                                 /\ log[c][1] = r /\ Explains(c, r)
<1>1. Recorded(c)
  BY DEF IInv, ConnInv
<1>2. CASE log[c] = <<>> /\ reply[c] \notin {"denied", "bad_gateway"}
  BY <1>2, NoneOf, Zenon
<1>3. ASSUME NEW r \in Record, log[c] = <<r>>
      PROVE  log[c] # <<>> /\ DOMAIN log[c] = {1} /\ Len(log[c]) = 1 /\ log[c][1] = r
  BY <1>3, OneOf, Zenon
<1> QED
  BY <1>1, <1>2, <1>3, Zenon DEF Recorded

\* A connection has at most one record, and none beside those of its inner
\* requests.
THEOREM NeverDoubleRecord == Spec => []NoDoubleRecord
<1>1. IInv => NoDoubleRecord
  <2> SUFFICES ASSUME IInv, NEW c \in Conn
               PROVE  Len(log[c]) + (IF inner[c] THEN 1 ELSE 0) <= 1
    BY Zenon DEF NoDoubleRecord
  <2>1. CASE Len(log[c]) = 0
    BY <2>1
  <2>2. CASE Len(log[c]) = 1 /\ ~inner[c]
    BY <2>2
  <2>3. Len(log[c]) = 0 \/ \E r \in Record : Len(log[c]) = 1 /\ Explains(c, r)
    BY OneRecordEach, Zenon
  <2>4. \A r \in Record : Explains(c, r) => ~inner[c]
    BY Zenon DEF Explains
  <2> QED
    BY <2>1, <2>2, <2>3, <2>4, Zenon
<1> QED
  BY <1>1, Inductive, PTL

\* The record of a connection says what its client was told, and whoever was
\* refused is on record.
THEOREM RecordsMatchReplies == Spec => []RecordMatchesReply
<1>1. IInv => RecordMatchesReply
  <2>1. ASSUME IInv, NEW c \in Conn, NEW i \in DOMAIN log[c]
        PROVE  Explains(c, log[c][i])
    <3>1. PICK r \in Record : DOMAIN log[c] = {1} /\ log[c][1] = r /\ Explains(c, r)
      BY <2>1, OneRecordEach, Zenon
    <3>2. i = 1
      BY <3>1, Zenon
    <3> QED
      BY <3>1, <3>2, Zenon
  <2>2. ASSUME IInv, NEW c \in Conn, reply[c] \in {"denied", "bad_gateway"} PROVE log[c] # <<>>
    BY <2>2, OneRecordEach, Zenon
  <2>3. ASSUME IInv, NEW c \in Conn
        PROVE  /\ \A i \in DOMAIN log[c] :
                    /\ log[c][i].status = 403 => reply[c] = "denied"
                    /\ log[c][i].status = 502 => reply[c] = "bad_gateway"
                    /\ log[c][i].status = 200 => reply[c] = "success" /\ Judged(c)
               /\ reply[c] \in {"denied", "bad_gateway"} => log[c] # <<>>
    <3>1. ASSUME NEW i \in DOMAIN log[c]
          PROVE  /\ log[c][i].status = 403 => reply[c] = "denied"
                 /\ log[c][i].status = 502 => reply[c] = "bad_gateway"
                 /\ log[c][i].status = 200 => reply[c] = "success" /\ Judged(c)
      <4>1. Explains(c, log[c][i])
        BY <2>1, <2>3
      <4> QED
        BY <4>1, Zenon DEF Explains
    <3>2. reply[c] \in {"denied", "bad_gateway"} => log[c] # <<>>
      BY <2>2, <2>3, Zenon
    <3> QED
      BY <3>1, <3>2, Zenon
  <2> QED
    BY <2>3, Zenon DEF RecordMatchesReply
<1> QED
  BY <1>1, Inductive, PTL
=============================================================================
