------------------------------ MODULE Tunnel ------------------------------
(***************************************************************************)
(* Connections to the HTTPS and tunnel listeners of hematite-proxy         *)
(* (listen.rs, with the parsers of tunnel.rs): CONNECT and SOCKS5          *)
(* handshakes, the pipeline on the synthetic CONNECT, passthrough tunnels  *)
(* that are spliced, and tunnels that are bumped and handed, like HTTPS    *)
(* connections, to `serve_io`, where RequestHandler.tla takes over.        *)
(*                                                                         *)
(* Every connection is a task of its own; tasks run concurrently with      *)
(* reloads.  handle_tunnel reads the installed runtime once for the        *)
(* CONNECT, terminate_and_serve reads it again for the certificate cache.  *)
(***************************************************************************)
EXTENDS Integers, Sequences

CONSTANTS
    Conn,         \* connections
    Config,       \* the runtimes a config load can build
    Host,         \* host names and IP literals, lowercase
    Addr,         \* IP addresses
    Verdict,      \* Verdict[c][h]: the pipeline's outcome for CONNECT h
    Passthrough,  \* Passthrough[c]: hosts matched by tunnel_passthrough
    Deny,         \* Deny[c]: the addresses the guard of c denies
    HasTls,       \* the runtimes with a certificate cache
    Answers,      \* Answers[h]: the address lists resolving h can give
    Empty,        \* the empty string as a host name
    Absent        \* no value (a Rust None)

Outcomes == {"continue", "reject", "stub", "error"}

ASSUME NamesAssumption ==
    Empty \notin Host /\ Absent \notin Host \cup Addr \cup Config /\ Empty # Absent
ASSUME PolicyAssumption ==
    /\ Verdict \in [Config -> [Host -> Outcomes]]
    /\ Passthrough \in [Config -> SUBSET Host]
    /\ Deny \in [Config -> SUBSET Addr]
    /\ HasTls \subseteq Config
ASSUME AnswersAssumption == Answers \in [Host -> SUBSET Seq(Addr)]

VARIABLES
    installed,  \* SharedState: the runtime in force
    pc,         \* pc[c]: where the task of c is
    judge,      \* judge[c]: the runtime that judged the CONNECT
    target,     \* target[c]: the CONNECT target; Absent on the HTTPS listener
    sni,        \* sni[c]: the server name seen in the ClientHello
    link,       \* link[c]: the address a passthrough tunnel is connected to
    sent,       \* sent[c]: bytes of the client may have reached link[c]
    reply,      \* reply[c]: the answer to the CONNECT
    ctx,        \* ctx[c]: the context inner requests are served in
    inner,      \* inner[c]: an inner request arrived
    log         \* log[c]: the records emitted for the connection itself

vars == <<installed, pc, judge, target, sni, link, sent, reply, ctx, inner, log>>

wire == <<link, sent>>
served == <<ctx, inner>>

PC == {"idle", "peek", "head", "greeting", "request", "evaluate", "reply", "sniff",
       "terminate", "clienthello", "leaf", "served", "dial", "hello", "replay",
       "splice", "done"}
Replies == {"none", "no_method", "denied", "bad_gateway", "success",
            "bad_command", "bad_address", "malformed"}
ConnCtx == [forced : Host \cup {Absent}, sni : Host \cup {Absent}, https : BOOLEAN]
NoCtx == [forced |-> Absent, sni |-> Absent, https |-> FALSE]
Record == [action : {"allow", "reject", "error"},
           by     : {"none", "listener", "transform", "guard"},
           status : {0, 200, 403, 502},
           host   : Host \cup {Empty}]

TypeOK ==
    /\ installed \in Config
    /\ pc \in [Conn -> PC]
    /\ judge \in [Conn -> Config \cup {Absent}]
    /\ target \in [Conn -> Host \cup {Absent}]
    /\ sni \in [Conn -> Host \cup {Absent}]
    /\ link \in [Conn -> Addr \cup {Absent}]
    /\ sent \in [Conn -> BOOLEAN]
    /\ reply \in [Conn -> Replies]
    /\ ctx \in [Conn -> ConnCtx]
    /\ inner \in [Conn -> BOOLEAN]
    /\ log \in [Conn -> Seq(Record)]

Init ==
    /\ installed \in Config
    /\ pc = [c \in Conn |-> "idle"]
    /\ judge = [c \in Conn |-> Absent]
    /\ target = [c \in Conn |-> Absent]
    /\ sni = [c \in Conn |-> Absent]
    /\ link = [c \in Conn |-> Absent]
    /\ sent = [c \in Conn |-> FALSE]
    /\ reply = [c \in Conn |-> "none"]
    /\ ctx = [c \in Conn |-> NoCtx]
    /\ inner = [c \in Conn |-> FALSE]
    /\ log = [c \in Conn |-> <<>>]

-----------------------------------------------------------------------------
(* Steps all connections share.                                             *)

Goto(c, where) == pc' = [pc EXCEPT ![c] = where]

Reply(c, what) == reply' = [reply EXCEPT ![c] = what]

Emit(c, action, by, status, h) ==
    log' = [log EXCEPT ![c] = Append(@, [action |-> action, by |-> by,
                                         status |-> status, host |-> h])]

\* The task returns without a word.
Leave(c) ==
    /\ Goto(c, "done")
    /\ UNCHANGED <<installed, judge, target, sni, wire, reply, served, log>>

\* SharedState::swap
Swap(rt) ==
    /\ installed' = rt
    /\ UNCHANGED <<pc, judge, target, sni, wire, reply, served, log>>

-----------------------------------------------------------------------------
(* handle_tunnel: the client's handshake.                                   *)

\* serve_https and serve_tunnel
Accept(c) ==
    /\ pc[c] = "idle"
    /\ Goto(c, "peek") \/ Goto(c, "terminate")
    /\ UNCHANGED <<installed, judge, target, sni, wire, reply, served, log>>

\* dispatch on the first byte; nothing or anything else closes.
Peek(c) ==
    /\ pc[c] = "peek"
    /\ \E where \in {"head", "greeting", "done"} : Goto(c, where)
    /\ UNCHANGED <<installed, judge, target, sni, wire, reply, served, log>>

\* read_connect with parse_connect
ReadConnect(c, h) ==
    /\ pc[c] = "head"
    /\ target' = [target EXCEPT ![c] = h]
    /\ Goto(c, "evaluate")
    /\ UNCHANGED <<installed, judge, sni, wire, reply, served, log>>

\* No CONNECT, a head beyond SNIFF_CAP, or the stream ends or breaks.
HandshakeBreaks(c) ==
    /\ pc[c] \in {"head", "greeting", "request"}
    /\ Leave(c)

\* The method selection of socks5_handshake: no-auth only.
Greeting(c, noAuth) ==
    /\ pc[c] = "greeting"
    /\ IF noAuth
       THEN Goto(c, "request") /\ UNCHANGED reply
       ELSE Goto(c, "done") /\ Reply(c, "no_method")
    /\ UNCHANGED <<installed, judge, target, sni, wire, served, log>>

SocksRequest == [connect : BOOLEAN, address : BOOLEAN, wellformed : BOOLEAN, host : Host]

\* The address type is examined as the request is read, the command after.
socks5_refusal(req) ==
    IF ~req.address THEN "bad_address"
    ELSE IF ~req.connect THEN "bad_command"
    ELSE IF ~req.wellformed THEN "malformed"
    ELSE "none"

Request(c, req) ==
    /\ pc[c] = "request"
    /\ IF socks5_refusal(req) = "none"
       THEN /\ target' = [target EXCEPT ![c] = req.host]
            /\ Goto(c, "evaluate")
            /\ UNCHANGED reply
       ELSE /\ Goto(c, "done")
            /\ Reply(c, socks5_refusal(req))
            /\ UNCHANGED target
    /\ UNCHANGED <<installed, judge, sni, wire, served, log>>

\* Who rejected: emit_tunnel_reject names a transform only for a Reject.
rejected_by(outcome) == IF outcome = "reject" THEN "transform" ELSE "listener"

\* Fault: a denied CONNECT closes the connection without a record.
EvaluateSilent(c) ==
    LET outcome == Verdict[installed][target[c]] IN
    /\ pc[c] = "evaluate"
    /\ judge' = [judge EXCEPT ![c] = installed]
    /\ IF outcome # "continue"
       THEN Reply(c, "denied") /\ Goto(c, "done")
       ELSE /\ Goto(c, IF target[c] \in Passthrough[installed] THEN "dial" ELSE "reply")
            /\ UNCHANGED reply
    /\ UNCHANGED <<installed, target, sni, wire, served, log>>

\* Fault: a passthrough client is told "success" before the dial.
EvaluateHasty(c) ==
    LET outcome == Verdict[installed][target[c]]
        spliced == target[c] \in Passthrough[installed]
    IN
    /\ pc[c] = "evaluate"
    /\ judge' = [judge EXCEPT ![c] = installed]
    /\ IF outcome # "continue"
       THEN /\ Emit(c, "reject", rejected_by(outcome), 403, target[c])
            /\ Reply(c, "denied")
            /\ Goto(c, "done")
       ELSE /\ IF spliced THEN Reply(c, "success") ELSE UNCHANGED reply
            /\ Goto(c, IF spliced THEN "dial" ELSE "reply")
            /\ UNCHANGED log
    /\ UNCHANGED <<installed, target, sni, wire, served>>

\* The pipeline on the synthetic CONNECT, and the fork between passthrough
\* and bumping, under one reading of the runtime.
Evaluate(c) ==
    LET outcome == Verdict[installed][target[c]] IN
    /\ pc[c] = "evaluate"
    /\ judge' = [judge EXCEPT ![c] = installed]
    /\ IF outcome # "continue"
       THEN /\ Emit(c, "reject", rejected_by(outcome), 403, target[c])
            /\ Reply(c, "denied")
            /\ Goto(c, "done")
       ELSE /\ Goto(c, IF target[c] \in Passthrough[installed] THEN "dial" ELSE "reply")
            /\ UNCHANGED <<reply, log>>
    /\ UNCHANGED <<installed, target, sni, wire, served>>

\* The success reply, to a bumped tunnel or to one that is connected.
ReplySuccess(c) ==
    /\ pc[c] = "reply"
    /\ Reply(c, "success")
    /\ Goto(c, IF link[c] = Absent THEN "sniff" ELSE "hello")
    /\ UNCHANGED <<installed, judge, target, sni, wire, served, log>>

\* The client is gone: `write_all(..)?` returns.
ReplyBreaks(c) ==
    /\ pc[c] = "reply"
    /\ Leave(c)

-----------------------------------------------------------------------------
(* Bumped tunnels and HTTPS connections.                                    *)

Serve(c, https) ==
    /\ ctx' = [ctx EXCEPT ![c] = [forced |-> target[c], sni |-> sni[c], https |-> https]]
    /\ Goto(c, "served")
    /\ UNCHANGED <<installed, judge, target, sni, wire, reply, inner>>

\* Fault: the handshake is recorded before it is known what follows.
SniffEager(c, first) ==
    /\ pc[c] = "sniff"
    /\ Emit(c, "allow", "none", 200, target[c])
    /\ \/ first = "tls" /\ Goto(c, "terminate")
                        /\ UNCHANGED <<installed, judge, target, sni, wire, reply, served>>
       \/ first = "http" /\ Serve(c, FALSE)
       \/ first \in {"nothing", "other"} /\ Goto(c, "done")
                        /\ UNCHANGED <<installed, judge, target, sni, wire, reply, served>>

\* sniff_inner on the first inner byte.  None in time: the handshake itself
\* is recorded.
Sniff(c, first) ==
    /\ pc[c] = "sniff"
    /\ \/ /\ first = "tls"
          /\ Goto(c, "terminate")
          /\ UNCHANGED <<installed, judge, target, sni, wire, reply, served, log>>
       \/ first = "http" /\ Serve(c, FALSE) /\ UNCHANGED log
       \/ first = "other" /\ Leave(c)
       \/ /\ first = "nothing"
          /\ Emit(c, "allow", "none", 200, target[c])
          /\ Goto(c, "done")
          /\ UNCHANGED <<installed, judge, target, sni, wire, reply, served>>

\* terminate_and_serve reads the runtime; without TLS there is nothing to serve.
Terminate(c) ==
    /\ pc[c] = "terminate"
    /\ Goto(c, IF installed \in HasTls THEN "clienthello" ELSE "done")
    /\ UNCHANGED <<installed, judge, target, sni, wire, reply, served, log>>

\* The ClientHello times out, no leaf can be minted, the handshake fails.
TlsFails(c) ==
    /\ pc[c] \in {"clienthello", "leaf"}
    /\ Leave(c)

\* Fault: a tunnel's ClientHello is not compared with the CONNECT target.
ClientHelloAny(c, name) ==
    /\ pc[c] = "clienthello"
    /\ sni' = [sni EXCEPT ![c] = name]
    /\ IF target[c] = Absent /\ name = Absent
       THEN Goto(c, "done") /\ Emit(c, "reject", "listener", 0, Empty)
       ELSE Goto(c, "leaf") /\ UNCHANGED log
    /\ UNCHANGED <<installed, judge, target, wire, reply, served>>

\* An origin connection needs an SNI; a tunnel's SNI must be its target.
ClientHello(c, name) ==
    LET nameless == target[c] = Absent /\ name = Absent
        mismatch == target[c] # Absent /\ name \notin {Absent, target[c]}
    IN  /\ pc[c] = "clienthello"
        /\ sni' = [sni EXCEPT ![c] = name]
        /\ IF nameless \/ mismatch
           THEN /\ Goto(c, "done")
                /\ Emit(c, "reject", "listener", 0, IF nameless THEN Empty ELSE target[c])
           ELSE Goto(c, "leaf") /\ UNCHANGED log
        /\ UNCHANGED <<installed, judge, target, wire, reply, served>>

TlsDone(c) ==
    /\ pc[c] = "leaf"
    /\ Serve(c, TRUE)
    /\ UNCHANGED log

\* serve_io: requests arrive (each is a handler with a record of its own), and
\* the connection closes.
InnerRequest(c) ==
    /\ pc[c] = "served"
    /\ inner' = [inner EXCEPT ![c] = TRUE]
    /\ UNCHANGED <<installed, pc, judge, target, sni, wire, reply, ctx, log>>

Close(c) ==
    /\ pc[c] = "served"
    /\ Leave(c)

-----------------------------------------------------------------------------
(* passthrough_tunnel.                                                      *)

lookup_host(h) == IF h \in Addr THEN {<<h>>} ELSE Answers[h]

\* connect_upstream goes through the addresses in order and stops at the first
\* that the guard denies or that answers; `up` answer.
StopsAt(found, up, deny, i) ==
    /\ found[i] \in up \cup deny
    /\ \A j \in 1..(i - 1) : found[j] \notin up \cup deny

\* connect_upstream under a guard that denies `deny`, and what
\* passthrough_tunnel makes of its result.  Nothing shared is read on the way,
\* so it is one step; a failing lookup is the empty answer.
ConnectUpstream(c, deny) ==
    /\ pc[c] = "dial"
    /\ \E found \in lookup_host(target[c]), up \in SUBSET Addr :
        \/ \E i \in DOMAIN found :
            /\ StopsAt(found, up, deny, i)
            /\ IF found[i] \in deny
               THEN /\ Emit(c, "reject", "guard", 502, target[c])
                    /\ Reply(c, "bad_gateway") /\ Goto(c, "done") /\ UNCHANGED link
               ELSE /\ link' = [link EXCEPT ![c] = found[i]]
                    /\ Goto(c, "reply") /\ UNCHANGED <<reply, log>>
        \/ /\ \A i \in DOMAIN found : found[i] \notin up \cup deny
           /\ Emit(c, "error", "none", 502, target[c])
           /\ Reply(c, "bad_gateway") /\ Goto(c, "done") /\ UNCHANGED link
    /\ UNCHANGED <<installed, judge, target, sni, sent, served>>

\* Fault: the guard is the one of the runtime installed by now.
DialReloaded(c) == ConnectUpstream(c, Deny[installed])

\* The dial, before any success reply.
Dial(c) == ConnectUpstream(c, Deny[judge[c]])

\* scan_client_hello_sni on what the client sends first: the server name it
\* finds, or none (no TLS, no SNI, too long, or nothing more within 5 s).
\* `some` tells whether anything was buffered.
Hello(c, name, some) ==
    /\ pc[c] = "hello"
    /\ name # Absent => some
    /\ sni' = [sni EXCEPT ![c] = name]
    /\ IF name \notin {Absent, target[c]}
       THEN Goto(c, "done") /\ Emit(c, "reject", "listener", 0, target[c])
       ELSE Goto(c, IF some THEN "replay" ELSE "splice") /\ UNCHANGED log
    /\ UNCHANGED <<installed, judge, target, wire, reply, served>>

\* The buffered prefix is written to the upstream; on an error `?` returns.
Replay(c) ==
    /\ pc[c] = "replay"
    /\ sent' = [sent EXCEPT ![c] = TRUE]
    /\ Goto(c, "splice") \/ Goto(c, "done")
    /\ UNCHANGED <<installed, judge, target, sni, link, reply, served, log>>

\* copy_bidirectional, until it ends; then the tunnel's record.
Splice(c) ==
    /\ pc[c] = "splice"
    /\ sent' = [sent EXCEPT ![c] = TRUE]
    /\ Emit(c, "allow", "none", 200, target[c])
    /\ Goto(c, "done")
    /\ UNCHANGED <<installed, judge, target, sni, link, reply, served>>

-----------------------------------------------------------------------------
Next ==
    \/ \E rt \in Config : Swap(rt)
    \/ \E c \in Conn :
        \/ Accept(c) \/ Peek(c) \/ HandshakeBreaks(c)
        \/ \E h \in Host : ReadConnect(c, h)
        \/ \E noAuth \in BOOLEAN : Greeting(c, noAuth)
        \/ \E req \in SocksRequest : Request(c, req)
        \/ Evaluate(c) \/ ReplySuccess(c) \/ ReplyBreaks(c)
        \/ \E first \in {"tls", "http", "other", "nothing"} : Sniff(c, first)
        \/ Terminate(c) \/ TlsFails(c) \/ TlsDone(c)
        \/ \E name \in Host \cup {Absent} : ClientHello(c, name)
        \/ InnerRequest(c) \/ Close(c)
        \/ Dial(c) \/ Replay(c) \/ Splice(c)
        \/ \E name \in Host \cup {Absent}, some \in BOOLEAN : Hello(c, name, some)

Spec == Init /\ [][Next]_vars

-----------------------------------------------------------------------------
(* Properties.                                                              *)

\* The CONNECT of c as its pipeline judged it.
Judged(c) == judge[c] # Absent /\ Verdict[judge[c]][target[c]] = "continue"

\* A connection is recorded at most once, and not at all when its inner
\* requests have records of their own (spec/08-audit.md: no second record for
\* the handshake of a bumped tunnel).
NoDoubleRecord ==
    \A c \in Conn : Len(log[c]) + (IF inner[c] THEN 1 ELSE 0) <= 1

\* INV-2 for tunnels: requests are served under a tunnel's target, and bytes
\* are spliced to it, only if the runtime that judged the CONNECT let the
\* target through; an address is connected to only if that same runtime's
\* guard does not deny it.
TunnelsAreJudged ==
    \A c \in Conn :
        /\ ctx[c].forced # Absent => Judged(c) /\ ctx[c].forced = target[c]
        /\ link[c] # Absent => Judged(c) /\ link[c] \notin Deny[judge[c]]

\* Passthrough and bumping exclude each other: a target of the passthrough
\* list is never decrypted, another one never spliced, and a passthrough
\* client is told "success" only once its upstream is connected.
PassthroughApart ==
    \A c \in Conn : target[c] # Absent =>
        /\ ctx[c].forced # Absent => target[c] \notin Passthrough[judge[c]]
        /\ link[c] # Absent => target[c] \in Passthrough[judge[c]]
        /\ reply[c] = "success" /\ target[c] \in Passthrough[judge[c]] => link[c] # Absent

\* Threat T6: when the server name of a tunnel's ClientHello is known, it is
\* the CONNECT target before a byte goes upstream or a request is served.
TlsIdentityAgrees ==
    \A c \in Conn : (sent[c] \/ ctx[c].https) /\ target[c] # Absent =>
        sni[c] \in {Absent, target[c]}

\* A record agrees with what the client was told: a refusal by policy or by
\* the dial is answered with it, an allowed tunnel was told "success"; and
\* whoever was refused, is on record.
RecordMatchesReply ==
    \A c \in Conn :
        /\ \A i \in DOMAIN log[c] :
            /\ log[c][i].status = 403 => reply[c] = "denied"
            /\ log[c][i].status = 502 => reply[c] = "bad_gateway"
            /\ log[c][i].status = 200 => reply[c] = "success" /\ Judged(c)
        /\ reply[c] \in {"denied", "bad_gateway"} => log[c] # <<>>

-----------------------------------------------------------------------------
(* What the documentation says and the code does not do.                    *)

\* listen.rs:389-390 "Exactly one audit record is emitted per tunnel" (the
\* passthrough ones).
PassthroughRecorded ==
    \A c \in Conn : pc[c] = "done" /\ link[c] # Absent => Len(log[c]) = 1
=============================================================================
