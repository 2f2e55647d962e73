-------------------------- MODULE RequestHandler --------------------------
(***************************************************************************)
(* The life of a request in hematite-proxy: http.rs `handle`, with the     *)
(* dialler (dial.rs `connect_upstream`), the guard and the swappable       *)
(* runtime (state.rs) and the audit backstop (audit.rs `PendingAudit`).    *)
(*                                                                         *)
(* Every request is one handler task.  Tasks run concurrently with each    *)
(* other and with reloads that swap the runtime, and a task is suspended   *)
(* at every `.await`: `pc` names the await (or the synchronous stretch) a  *)
(* task is at.  The kernel's pipeline is a constant function here; its     *)
(* inside is the subject of another module.                                *)
(***************************************************************************)
EXTENDS Integers, Sequences

CONSTANTS
    Request,     \* requests, one handler task each
    Config,      \* the runtimes a config load can build
    Host,        \* host names and IP literals, without port, lowercase
    Addr,        \* IP addresses
    Legs,        \* the connections requests arrive on (ConnCtx)
    Heads,       \* the request heads clients send
    Verdict,     \* Verdict[c][h][o]: the request pipeline's outcome for host
                 \* h; o tells whether the body is over the cap
    OnResponse,  \* OnResponse[c]: the response pipeline's outcome
    Deny,        \* Deny[c]: the addresses the guard of c denies
    Cap,         \* Cap[c]: max_request_body_bytes of c
    Answers,     \* Answers[h]: the address lists resolving h can give
    MaxFrame,    \* the largest body frame a client sends
    Empty,       \* the empty string as a host name
    Absent       \* no value (a Rust None)

Name == Host \cup {Empty, Absent}
Outcomes == {"continue", "reject", "stub", "error"}
Statuses == {101, 200}          \* what upstreams answer; the rest is alike
NoStatus == 0

ConnCtx == [forced : Host \cup {Absent}, sni : Host \cup {Absent}, https : BOOLEAN]
RequestHead == [host : Name, authority : Host \cup {Absent}, dots : BOOLEAN, ws : BOOLEAN]

ASSUME NamesDiffer == Empty \notin Host /\ Absent \notin Host /\ Empty # Absent
ASSUME AbsentNoConfig == Absent \notin Config
ASSUME LegsAssumption == Legs \subseteq ConnCtx
ASSUME HeadsAssumption == Heads \subseteq RequestHead
ASSUME PolicyAssumption ==
    /\ Verdict \in [Config -> [Host -> [BOOLEAN -> Outcomes]]]
    /\ OnResponse \in [Config -> Outcomes]
    /\ Deny \in [Config -> SUBSET Addr]
    /\ Cap \in [Config -> Nat]
    /\ MaxFrame \in Nat
ASSUME AnswersAssumption == Answers \in [Host -> SUBSET Seq(Addr)]

VARIABLES
    installed,   \* SharedState: the runtime new handlers pick up
    pc,          \* pc[r]: where the handler of r is
    rt,          \* rt[r]: the runtime `handle` took from current()
    conn,        \* conn[r]: the connection context
    head,        \* head[r]: the request head
    host,        \* host[r]: the target host resolve_target settled on
    len,         \* len[r]: body bytes buffered
    overCap,     \* overCap[r]: the `over_cap` flag
    addrs,       \* addrs[r]: the addresses the target resolved to
    tried,       \* tried[r]: the addresses connect() was called on, in order
    log,         \* log[r]: the audit records emitted for r
    reply,       \* reply[r]: the status returned to the client
    gone         \* gone[r]: the client went away while r was being served

vars == <<installed, pc, rt, conn, head, host, len, overCap, addrs, tried,
          log, reply, gone>>

input == <<rt, conn, head, host>>
body == <<len, overCap>>
dial == <<addrs, tried>>

Suspended == {"body", "resolve", "connect", "tls", "send"}  \* at an .await
PC == {"idle", "evaluate", "dial", "done"} \cup Suspended

AuditRecord == [action : {"allow", "reject", "stub", "error", "client_cancel"},
                by     : {"none", "listener", "transform", "guard"},
                status : Nat,
                host   : Host \cup {Empty}]

TypeOK ==
    /\ installed \in Config
    /\ pc \in [Request -> PC]
    /\ rt \in [Request -> Config \cup {Absent}]
    /\ conn \in [Request -> ConnCtx]
    /\ head \in [Request -> RequestHead]
    /\ host \in [Request -> Name]
    /\ len \in [Request -> Nat]
    /\ overCap \in [Request -> BOOLEAN]
    /\ addrs \in [Request -> Seq(Addr)]
    /\ tried \in [Request -> Seq(Addr)]
    /\ log \in [Request -> Seq(AuditRecord)]
    /\ reply \in [Request -> Nat]
    /\ gone \in [Request -> BOOLEAN]

NoConn == [forced |-> Absent, sni |-> Absent, https |-> FALSE]
NoHead == [host |-> Absent, authority |-> Absent, dots |-> FALSE, ws |-> FALSE]

Init ==
    /\ installed \in Config
    /\ pc = [r \in Request |-> "idle"]
    /\ rt = [r \in Request |-> Absent]
    /\ conn = [r \in Request |-> NoConn]
    /\ head = [r \in Request |-> NoHead]
    /\ host = [r \in Request |-> Absent]
    /\ len = [r \in Request |-> 0]
    /\ overCap = [r \in Request |-> FALSE]
    /\ addrs = [r \in Request |-> <<>>]
    /\ tried = [r \in Request |-> <<>>]
    /\ log = [r \in Request |-> <<>>]
    /\ reply = [r \in Request |-> NoStatus]
    /\ gone = [r \in Request |-> FALSE]

-----------------------------------------------------------------------------
(* Helpers of the handler.                                                  *)

\* Fault: emit does not mark the audit as emitted, so Drop records again.
EmitUnmarked(r, action, by, status, h) ==
    log' = [log EXCEPT ![r] =
               @ \o <<[action |-> action, by |-> by, status |-> status, host |-> h],
                      [action |-> "error", by |-> "none",
                       status |-> NoStatus, host |-> Empty]>>]

\* PendingAudit::emit
Emit(r, action, by, status, h) ==
    log' = [log EXCEPT ![r] = Append(@, [action |-> action, by |-> by,
                                         status |-> status, host |-> h])]

\* The common tail of handle's exits: record the outcome, then answer with
\* the status that was recorded.
Finish(r, action, by, status) ==
    /\ pc' = [pc EXCEPT ![r] = "done"]
    /\ Emit(r, action, by, status, host[r])
    /\ reply' = [reply EXCEPT ![r] = status]
    /\ UNCHANGED <<installed, gone>>

Goto(r, where) ==
    /\ pc' = [pc EXCEPT ![r] = where]
    /\ UNCHANGED <<installed, log, reply, gone>>

Target(ok, h) == [ok |-> ok, host |-> h]

\* An authority in the request target (HTTP/2, absolute form) must agree with
\* a Host header if there is one; without it the Host header decides.
extract_target(hd) ==
    IF hd.authority # Absent
    THEN Target(hd.host \in {Absent, hd.authority}, hd.authority)
    ELSE IF hd.host \in Host THEN Target(TRUE, hd.host) ELSE Target(FALSE, Empty)

\* A tunnel fixes the target; a TLS connection's SNI must name the host.
resolve_target(ctx, hd) ==
    IF ctx.forced # Absent
    THEN Target(TRUE, ctx.forced)
    ELSE LET t == extract_target(hd) IN
         IF t.ok /\ ctx.sni # Absent
         THEN Target(ctx.sni = t.host, t.host)
         ELSE t

-----------------------------------------------------------------------------
(* The environment.                                                         *)

\* SharedState::swap, called by the management API's reload.
Swap(c) ==
    /\ installed' = c
    /\ UNCHANGED <<pc, input, body, dial, log, reply, gone>>

-----------------------------------------------------------------------------
(* The handler, up to the pipeline.                                         *)

\* `handle` starts: take the runtime, settle the target, refuse a malformed
\* head with 400.
Accept(r, ctx, hd) ==
    LET t == resolve_target(ctx, hd)
        refused == ~t.ok \/ hd.dots
    IN  /\ pc[r] = "idle"
        /\ rt' = [rt EXCEPT ![r] = installed]
        /\ conn' = [conn EXCEPT ![r] = ctx]
        /\ head' = [head EXCEPT ![r] = hd]
        /\ host' = [host EXCEPT ![r] = t.host]
        /\ pc' = [pc EXCEPT ![r] = IF refused THEN "done" ELSE "body"]
        /\ IF refused
           THEN /\ Emit(r, "reject", "listener", 400, t.host)
                /\ reply' = [reply EXCEPT ![r] = 400]
           ELSE UNCHANGED <<log, reply>>
        /\ UNCHANGED <<installed, body, dial, gone>>

\* Fault: a body of exactly the cap counts as over it.
ReadFrameEager(r, n) ==
    LET total == len[r] + n
        over == total >= Cap[rt[r]]
    IN  /\ pc[r] = "body"
        /\ len' = [len EXCEPT ![r] = total]
        /\ overCap' = [overCap EXCEPT ![r] = over]
        /\ Goto(r, IF over THEN "evaluate" ELSE "body")
        /\ UNCHANGED <<input, dial>>

\* A body frame of n bytes; a trailer frame has none.  The cap is tested at
\* the head of the loop, before the next frame is awaited.
ReadFrame(r, n) ==
    LET total == len[r] + n
        over == total > Cap[rt[r]]
    IN  /\ pc[r] = "body"
        /\ len' = [len EXCEPT ![r] = total]
        /\ overCap' = [overCap EXCEPT ![r] = over]
        /\ Goto(r, IF over THEN "evaluate" ELSE "body")
        /\ UNCHANGED <<input, dial>>

EndOfBody(r) ==
    /\ pc[r] = "body"
    /\ Goto(r, "evaluate")
    /\ UNCHANGED <<input, body, dial>>

\* The client's body breaks off while it is being buffered: the record has no
\* status, the answer nobody reads is a 400.
FrameError(r) ==
    /\ pc[r] = "body"
    /\ pc' = [pc EXCEPT ![r] = "done"]
    /\ gone' = [gone EXCEPT ![r] = TRUE]
    /\ Emit(r, "client_cancel", "none", NoStatus, host[r])
    /\ reply' = [reply EXCEPT ![r] = 400]
    /\ UNCHANGED <<installed, input, body, dial>>

\* What a pipeline outcome other than "continue" makes of the request.
ShortCircuit(r, outcome) ==
    \/ outcome = "reject" /\ Finish(r, "reject", "transform", 403)
    \/ outcome = "stub" /\ Finish(r, "stub", "none", 200)
    \/ outcome = "error" /\ Finish(r, "error", "none", 502)

\* Fault: the pipeline is the one of the runtime installed by now.
EvaluateReloaded(r) ==
    LET outcome == Verdict[installed][host[r]][overCap[r]] IN
    /\ pc[r] = "evaluate"
    /\ \/ outcome = "continue" /\ Goto(r, "resolve")
       \/ ShortCircuit(r, outcome)
    /\ UNCHANGED <<input, body, dial>>

EvaluateRequest(r) ==
    LET outcome == Verdict[rt[r]][host[r]][overCap[r]] IN
    /\ pc[r] = "evaluate"
    /\ \/ outcome = "continue" /\ Goto(r, "resolve")
       \/ ShortCircuit(r, outcome)
    /\ UNCHANGED <<input, body, dial>>

-----------------------------------------------------------------------------
(* connect_upstream.                                                        *)

\* An IP literal stands for itself; a name is looked up, and a failing lookup
\* is the empty answer.
lookup_host(h) == IF h \in Addr THEN {<<h>>} ELSE Answers[h]

Resolve(r) ==
    /\ pc[r] = "resolve"
    /\ \E found \in lookup_host(host[r]) :
        /\ addrs' = [addrs EXCEPT ![r] = found]
        /\ IF found = <<>>
           THEN Finish(r, "error", "none", 502)
           ELSE Goto(r, "dial")
    /\ UNCHANGED <<input, body, tried>>

\* Fault: the guard is the one of the runtime installed by now.
TryReloaded(r) ==
    LET a == addrs[r][Len(tried[r]) + 1] IN
    /\ pc[r] = "dial"
    /\ IF a \in Deny[installed]
       THEN Finish(r, "reject", "guard", 502) /\ UNCHANGED tried
       ELSE Goto(r, "connect") /\ tried' = [tried EXCEPT ![r] = Append(@, a)]
    /\ UNCHANGED <<input, body, addrs>>

\* The head of the address loop: the guard, then connect().
TryAddress(r) ==
    LET a == addrs[r][Len(tried[r]) + 1] IN
    /\ pc[r] = "dial"
    /\ IF a \in Deny[rt[r]]
       THEN Finish(r, "reject", "guard", 502) /\ UNCHANGED tried
       ELSE Goto(r, "connect") /\ tried' = [tried EXCEPT ![r] = Append(@, a)]
    /\ UNCHANGED <<input, body, addrs>>

Connected(r) ==
    /\ pc[r] = "connect"
    /\ Goto(r, IF conn[r].https THEN "tls" ELSE "send")
    /\ UNCHANGED <<input, body, dial>>

\* Fault: an exhausted address list is resolved again.
ConnectRetries(r) ==
    /\ pc[r] = "connect"
    /\ IF Len(tried[r]) = Len(addrs[r])
       THEN /\ Goto(r, "resolve")
            /\ addrs' = [addrs EXCEPT ![r] = <<>>]
            /\ tried' = [tried EXCEPT ![r] = <<>>]
       ELSE Goto(r, "dial") /\ UNCHANGED dial
    /\ UNCHANGED <<input, body>>

\* Refused or timed out: on to the next address, if there is one.
ConnectFails(r) ==
    /\ pc[r] = "connect"
    /\ IF Len(tried[r]) = Len(addrs[r])
       THEN Finish(r, "error", "none", 502)
       ELSE Goto(r, "dial")
    /\ UNCHANGED <<input, body, dial>>

TlsDone(r) ==
    /\ pc[r] = "tls"
    /\ Goto(r, "send")
    /\ UNCHANGED <<input, body, dial>>

\* The handshake, or turning the host into a server name, fails; the
\* addresses that are left are not tried.
TlsFails(r) ==
    /\ pc[r] = "tls"
    /\ Finish(r, "error", "none", 502)
    /\ UNCHANGED <<input, body, dial>>

-----------------------------------------------------------------------------
(* The exchange with the upstream.                                          *)

\* The request cannot be built or sent, or the response headers time out.
SendFails(r) ==
    /\ pc[r] = "send"
    /\ Finish(r, "error", "none", 502)
    /\ UNCHANGED <<input, body, dial>>

\* Fault: the record template's "allow" survives a response-path refusal.
RespondAllow(r, status) ==
    /\ pc[r] = "send"
    /\ pc' = [pc EXCEPT ![r] = "done"]
    /\ Emit(r, "allow", "none", status, host[r])
    /\ reply' = [reply EXCEPT ![r] =
           IF OnResponse[rt[r]] = "continue" THEN status ELSE 403]
    /\ UNCHANGED <<installed, gone, input, body, dial>>

\* Response headers arrive.  A 101 to a WebSocket handshake bypasses the
\* response pipeline.
Respond(r, status) ==
    /\ pc[r] = "send"
    /\ IF (head[r].ws /\ status = 101) \/ OnResponse[rt[r]] = "continue"
       THEN Finish(r, "allow", "none", status)
       ELSE ShortCircuit(r, OnResponse[rt[r]])
    /\ UNCHANGED <<input, body, dial>>

-----------------------------------------------------------------------------
(* The handler ends early: its future is dropped at an await because the    *)
(* client's connection or stream went away, or its code panics.  Either way *)
(* PendingAudit's Drop emits a record.                                      *)

\* Fault: no record is emitted on drop.
DropSilent(r) ==
    /\ pc' = [pc EXCEPT ![r] = "done"]
    /\ UNCHANGED <<installed, input, body, dial, log, reply>>

PendingAuditDrop(r) ==
    /\ pc' = [pc EXCEPT ![r] = "done"]
    /\ Emit(r, "error", "none", NoStatus, Empty)
    /\ UNCHANGED <<installed, input, body, dial, reply>>

\* Resolving an IP literal does not await.
Disconnect(r) ==
    /\ pc[r] \in Suspended
    /\ ~(pc[r] = "resolve" /\ host[r] \in Addr)
    /\ gone' = [gone EXCEPT ![r] = TRUE]
    /\ PendingAuditDrop(r)

Panic(r) ==
    /\ pc[r] \notin {"idle", "done"}
    /\ UNCHANGED gone
    /\ PendingAuditDrop(r)

-----------------------------------------------------------------------------
\* The steps a handler takes without its client.
Progress(r) ==
    \/ EvaluateRequest(r)
    \/ Resolve(r)
    \/ TryAddress(r)
    \/ Connected(r)
    \/ ConnectFails(r)
    \/ SendFails(r)
    \/ \E status \in Statuses : Respond(r, status)

Next ==
    \/ \E c \in Config : Swap(c)
    \/ \E r \in Request :
        \/ \E ctx \in Legs, hd \in Heads : Accept(r, ctx, hd)
        \/ \E n \in 0..MaxFrame : ReadFrame(r, n)
        \/ EndOfBody(r)
        \/ FrameError(r)
        \/ Progress(r)
        \/ TlsDone(r)
        \/ TlsFails(r)
        \/ Disconnect(r)
        \/ Panic(r)

Spec == Init /\ [][Next]_vars

\* The runtime keeps polling a handler that can run; connect() and the wait
\* for response headers have timeouts, and the OS resolver gives up.  Nothing
\* forces a client to send its body or an upstream to finish a TLS handshake.
FairSpec == Spec /\ \A r \in Request : WF_vars(Progress(r))

-----------------------------------------------------------------------------
(* Properties.                                                              *)

\* The runtime and host of a request, as its pipeline judged it.
Judged(r) == Verdict[rt[r]][host[r]][overCap[r]]

\* INV-3: a request has exactly one audit record once its handler has ended,
\* however it ended, and none before; in particular the backstop in
\* PendingAudit's Drop neither doubles a record nor misses a dropped future.
AuditTotality ==
    \A r \in Request : Len(log[r]) = IF pc[r] = "done" THEN 1 ELSE 0

\* INV-2: an address is dialled for a request only after the pipeline of the
\* runtime the request was accepted under let it through, whatever was
\* reloaded in between.
PolicyBeforeDial ==
    \A r \in Request : tried[r] # <<>> => Judged(r) = "continue"

\* The guard: connect() is called on the resolved addresses in order, and on
\* none that the deny list of the request's own runtime contains.  A denied
\* address is never skipped over to reach a later one.
GuardedDials ==
    \A r \in Request :
        /\ Len(tried[r]) <= Len(addrs[r])
        /\ \A i \in 1..Len(tried[r]) : /\ tried[r][i] = addrs[r][i]
                                      /\ addrs[r][i] \notin Deny[rt[r]]

\* Buffering for inspection holds at most one frame more than the cap, and
\* once the body was read the over-cap flag tells exactly whether more than
\* the cap was buffered, the boundary included.
BufferBounded ==
    \A r \in Request :
        /\ rt[r] # Absent => len[r] <= Cap[rt[r]] + MaxFrame
        /\ pc[r] \in {"evaluate", "resolve", "dial", "connect", "tls", "send"} =>
                (overCap[r] <=> len[r] > Cap[rt[r]])

\* The listener refuses with 400, before any address is looked up.
ListenerTrue(r, rec) == rec.by = "listener" => rec.status = 400 /\ addrs[r] = <<>>

\* A record can be believed: the status in it is the one the client was
\* answered with; "allow" means the upstream was reached; a refusal by the
\* listener or by a transform on the request path means nothing was even
\* resolved; a refusal by the guard names the next address of the list.
RecordTrue(r, rec) ==
    /\ rec.status # NoStatus => reply[r] = rec.status
    /\ reply[r] # NoStatus /\ ~gone[r] => rec.status = reply[r]
    /\ rec.action = "allow" => Judged(r) = "continue" /\ tried[r] # <<>>
    /\ ListenerTrue(r, rec)
    /\ rec.by = "transform" \/ rec.action = "stub" =>
            \/ Judged(r) = rec.action /\ addrs[r] = <<>>
            \/ OnResponse[rt[r]] = rec.action /\ tried[r] # <<>>
    /\ rec.by = "guard" =>
            /\ Len(tried[r]) < Len(addrs[r])
            /\ addrs[r][Len(tried[r]) + 1] \in Deny[rt[r]]
    /\ rec.action = "client_cancel" => gone[r] /\ addrs[r] = <<>>

\* Every record emitted by `handle` is true of what the handler did.
RecordExplains ==
    \A r \in Request : \A i \in DOMAIN log[r] : RecordTrue(r, log[r][i])

\* A request whose body has arrived ends, or waits for an upstream's TLS
\* handshake: no chain of failing addresses and no silent upstream holds it.
RequestsFinish ==
    \A r \in Request :
        pc[r] \in {"evaluate", "resolve", "dial", "connect", "send"}
            ~> pc[r] \in {"tls", "done"}

\* The handler implements the boundary: idle, open and settled requests, the
\* set of addresses contacted, and the actions of the records.
Permits == [c \in Config |->
    {h \in Host : \E over \in BOOLEAN : Verdict[c][h][over] = "continue"}]

Phase == [r \in Request |-> IF pc[r] = "idle" THEN "idle"
                            ELSE IF pc[r] = "done" THEN "settled" ELSE "open"]
Contacted == [r \in Request |-> {tried[r][i] : i \in 1..Len(tried[r])}]
Records == [r \in Request |-> [i \in DOMAIN log[r] |-> log[r][i].action]]

Boundary == INSTANCE EgressBoundary WITH
    Host <- Name, None <- Absent, phase <- Phase, judge <- rt, dest <- host,
    contacted <- Contacted, records <- Records

\* What happens to a request, seen from outside, is what EgressBoundary
\* allows.
ImplementsBoundary == Boundary!Spec
=============================================================================
