-------------------------------- MODULE Dns --------------------------------
(***************************************************************************)
(* The DNS server: hematite-dns server.rs, resolve.rs and what wire.rs     *)
(* makes of a message, with main.rs `spawn_dns` and the callback that      *)
(* counts decisions.                                                       *)
(*                                                                         *)
(* Every datagram and every TCP connection is a task of its own.  A query  *)
(* for a passthrough name is forwarded over a UDP socket the task binds    *)
(* for it alone; whatever arrives there first is relayed as it is.  The    *)
(* network loses, delays, duplicates and reorders datagrams, the upstream  *)
(* resolver may answer late or never, and the operating system may give    *)
(* the port of a socket that was closed to the next one at once.           *)
(***************************************************************************)
EXTENDS Naturals, FiniteSets

CONSTANTS
    Query,        \* incoming datagrams and connections, one task each
    Name,         \* query names, lowercased and without a trailing dot
    Record,       \* Record[n]: "A", "CNAME" or None, the static record of n
    Passthrough,  \* the names some passthrough glob matches
    Message,      \* messages clients send
    Malformed,    \* a message parse_query refuses
    Port,         \* local UDP ports
    None          \* no value

Qtype == {"A", "CNAME", "AAAA"}

\* A message that parses: the length of its first question, and of the rest.
Request == [id : Nat, name : Name, qtype : Qtype, question : Nat, rest : Nat]

Reply == [of : Request, by : {"server", "upstream"},
          data : {"record", "proxy_ip", "empty", "servfail", "relayed"}, len : Nat]

ASSUME DnsAssumption ==
    /\ Record \in [Name -> {"A", "CNAME", None}]
    /\ Passthrough \subseteq Name
    /\ Message \subseteq Request \cup {Malformed} /\ Malformed \notin Request
    /\ None \notin {"A", "CNAME"} /\ None \notin Port /\ None \notin Request \cup {Malformed}
    /\ None \notin Nat /\ None \notin Reply
    /\ IsFiniteSet(Query)

VARIABLES
    pc,        \* pc[q]: where the task of q is
    over,      \* over[q]: the transport q came in on
    msg,       \* msg[q]: the request, as the task has it
    port,      \* port[q]: the socket of q's forward
    inbox,     \* inbox[q]: what has arrived on that socket
    net,       \* datagrams between the server and the upstream resolver
    reply,     \* reply[q]: what respond returned
    frame,     \* frame[q]: the length prefix of a reply over TCP
    counted,   \* hematite_dns_queries_total, by outcome
    via        \* history: the port q was forwarded from

task == <<pc, over, msg, port, inbox, via>>
vars == <<task, net, reply, frame, counted>>

Outcome == {"static", "intercept", "passthrough", "error"}
Datagram == [kind : {"query", "answer"}, port : Port, of : Request]

\* Lengths in bytes: a header, an answer record with an address, one with a
\* name (of the single length Target), the receive buffers, the largest
\* payload of a UDP datagram and of a TCP message.
Header == 12
ARecord == 16
Target == 20
Buffer == 4096
MaxUdp == 65507
MaxTcp == 65535

u16 == {n \in Nat : n < 65536}

\* `n as u16`.
as_u16(n) == n % 65536

\* m is no longer than n bytes.
AtMost(m, n) == m # Malformed => Header + m.question + m.rest <= n

TypeOK ==
    /\ pc \in [Query -> {"idle", "reading", "respond", "forward", "reply", "done"}]
    /\ over \in [Query -> {"udp", "tcp"}]
    /\ msg \in [Query -> Request \cup {Malformed, None}]
    /\ port \in [Query -> Port \cup {None}]
    /\ inbox \in [Query -> SUBSET Request]
    /\ net \subseteq Datagram
    /\ reply \in [Query -> Reply \cup {None}]
    /\ frame \in [Query -> u16 \cup {None}]
    /\ counted \in [Outcome -> Nat]
    /\ via \in [Query -> Port \cup {None}]

Init ==
    /\ pc = [q \in Query |-> "idle"]
    /\ over = [q \in Query |-> "udp"]
    /\ msg = [q \in Query |-> None]
    /\ port = [q \in Query |-> None]
    /\ inbox = [q \in Query |-> {}]
    /\ net = {}
    /\ reply = [q \in Query |-> None]
    /\ frame = [q \in Query |-> None]
    /\ counted = [o \in Outcome |-> 0]
    /\ via = [q \in Query |-> None]

-----------------------------------------------------------------------------
(* Receiving.                                                               *)

\* A datagram longer than the buffer is cut: in its question, which makes it
\* unreadable, or behind it, which parse_query does not notice.
Cut(m) ==
    CASE AtMost(m, Buffer) -> m
      [] ~AtMost(m, Buffer) /\ Header + m.question > Buffer -> Malformed
      [] OTHER -> [m EXCEPT !.rest = Buffer - Header - m.question]

\* serve_udp: recv_from into a buffer all queries share, copied before the
\* task is spawned.
ReceiveUdp(q, m) ==
    /\ pc[q] = "idle" /\ AtMost(m, MaxUdp)
    /\ pc' = [pc EXCEPT ![q] = "respond"]
    /\ msg' = [msg EXCEPT ![q] = Cut(m)]
    /\ UNCHANGED <<over, port, inbox, via, net, reply, frame, counted>>

\* serve_tcp: a connection; the length and the body are read by its task.
AcceptTcp(q) ==
    /\ pc[q] = "idle"
    /\ pc' = [pc EXCEPT ![q] = "reading"]
    /\ over' = [over EXCEPT ![q] = "tcp"]
    /\ UNCHANGED <<msg, port, inbox, via, net, reply, frame, counted>>

ReadTcp(q, m) ==
    /\ pc[q] = "reading" /\ AtMost(m, MaxTcp)
    /\ pc' = [pc EXCEPT ![q] = "respond"]
    /\ msg' = [msg EXCEPT ![q] = m]
    /\ UNCHANGED <<over, port, inbox, via, net, reply, frame, counted>>

\* read_exact fails: the client closed before the announced length arrived.
CloseTcp(q) ==
    /\ pc[q] = "reading"
    /\ pc' = [pc EXCEPT ![q] = "done"]
    /\ UNCHANGED <<over, msg, port, inbox, via, net, reply, frame, counted>>

-----------------------------------------------------------------------------
(* Answering.                                                               *)

\* resolve, with the kind `respond` reports for it: a static record, then the
\* passthrough globs, then the proxy's own address; a name that exists but
\* not for the type is an empty NOERROR.
resolve(m) ==
    LET answers == CASE Record[m.name] = "A" -> m.qtype = "A"
                     [] Record[m.name] = "CNAME" -> m.qtype \in {"A", "CNAME"}
                     [] OTHER -> m.qtype = "A"
    IN CASE Record[m.name] # None ->
              [kind |-> "static", data |-> IF answers THEN "record" ELSE "empty"]
         [] Record[m.name] = None /\ m.name \in Passthrough ->
              [kind |-> "passthrough", data |-> "relayed"]
         [] OTHER ->
              [kind |-> "intercept", data |-> IF answers THEN "proxy_ip" ELSE "empty"]

\* build_response, build_empty_noerror and build_servfail: a header with the
\* query's id, its question, and the answer.
build(m, data) ==
    [of |-> m, by |-> "server", data |-> data,
     len |-> Header + m.question +
             CASE data \in {"empty", "servfail"} -> 0
               [] data = "record" /\ Record[m.name] = "CNAME" -> Target
               [] OTHER -> ARecord]

\* `respond` returns r after it has counted the outcome; the socket of a
\* forward is closed when forward returns.
Return(q, r, outcome) ==
    /\ pc' = [pc EXCEPT ![q] = "reply"]
    /\ reply' = [reply EXCEPT ![q] = r]
    /\ counted' = [counted EXCEPT ![outcome] = @ + 1]
    /\ port' = [port EXCEPT ![q] = None]
    /\ inbox' = [inbox EXCEPT ![q] = {}]
    /\ UNCHANGED <<over, msg, via, frame>>

Servfail(q) == Return(q, build(msg[q], "servfail"), "error")

\* parse_query returns None: no reply, and nothing is counted.
Drop(q) ==
    /\ pc[q] = "respond" /\ msg[q] = Malformed
    /\ pc' = [pc EXCEPT ![q] = "done"]
    /\ UNCHANGED <<over, msg, port, inbox, via, net, reply, frame, counted>>

AnswerLocally(q) ==
    /\ pc[q] = "respond" /\ msg[q] # Malformed
    /\ LET d == resolve(msg[q]) IN
       d.kind # "passthrough" /\ Return(q, build(msg[q], d.data), d.kind)
    /\ UNCHANGED net

Forwards(q) ==
    pc[q] = "respond" /\ msg[q] # Malformed /\ resolve(msg[q]).kind = "passthrough"

\* Fault: every forward uses the same socket.
SharedSocket(p) == TRUE

\* A port the OS may give to a new socket: one that no socket has now.
Ephemeral(p) == \A q \in Query : port[q] # p

\* bind to port 0, connect, send.
SendUpstream(q) ==
    \E p \in Port :
        /\ Ephemeral(p)
        /\ port' = [port EXCEPT ![q] = p]
        /\ via' = [via EXCEPT ![q] = p]
        /\ net' = net \cup {[kind |-> "query", port |-> p, of |-> msg[q]]}

\* Fault: the decision is counted when it is made, and its failure again.
ForwardCounting(q) ==
    /\ Forwards(q) /\ AtMost(msg[q], MaxUdp) /\ SendUpstream(q)
    /\ pc' = [pc EXCEPT ![q] = "forward"]
    /\ counted' = [counted EXCEPT !["passthrough"] = @ + 1]
    /\ UNCHANGED <<over, msg, inbox, reply, frame>>

\* forward, up to where it waits.
Forward(q) ==
    /\ Forwards(q) /\ AtMost(msg[q], MaxUdp) /\ SendUpstream(q)
    /\ pc' = [pc EXCEPT ![q] = "forward"]
    /\ UNCHANGED <<over, msg, inbox, reply, frame, counted>>

\* bind, connect or send fails: for want of a socket, or because the request
\* came over TCP and is too large for a datagram.
ForwardFails(q) == Forwards(q) /\ Servfail(q) /\ UNCHANGED net

\* recv: the first datagram in the socket's buffer, whatever it is.
Relay(q) ==
    /\ pc[q] = "forward"
    /\ \E m \in inbox[q], n \in {Header, Buffer} :
        Return(q, [of |-> m, by |-> "upstream", data |-> "relayed", len |-> n], "passthrough")
    /\ UNCHANGED net

\* Fault: the timer is only looked at when something arrives.
TimeoutLate(q) ==
    /\ pc[q] = "forward" /\ inbox[q] # {}
    /\ Servfail(q)
    /\ UNCHANGED net

\* The timer; recv is polled before it, so nothing has arrived.
Timeout(q) ==
    /\ pc[q] = "forward" /\ inbox[q] = {}
    /\ Servfail(q)
    /\ UNCHANGED net

\* recv fails: the socket is connected, so an ICMP error reaches it.
RecvFails(q) == pc[q] = "forward" /\ Servfail(q) /\ UNCHANGED net

\* send_to, or the two writes of serve_tcp: response.len() as u16, then the
\* response.  Errors are ignored.
Send(q) ==
    /\ pc[q] = "reply"
    /\ pc' = [pc EXCEPT ![q] = "done"]
    /\ frame' = [frame EXCEPT ![q] = IF over[q] = "tcp" THEN as_u16(reply[q].len) ELSE None]
    /\ UNCHANGED <<over, msg, port, inbox, via, net, reply, counted>>

-----------------------------------------------------------------------------
(* The network and the upstream resolver.                                   *)

\* The resolver answers a query, at any time.
UpstreamAnswers(d) ==
    /\ d \in net /\ d.kind = "query"
    /\ net' = (net \ {d}) \cup {[d EXCEPT !.kind = "answer"]}
    /\ UNCHANGED <<task, reply, frame, counted>>

\* An answer reaches its port, once or, if it is duplicated, again; if no
\* socket has the port it is gone.
Deliver(d, again) ==
    /\ d \in net /\ d.kind = "answer"
    /\ inbox' = [q \in Query |-> IF port[q] = d.port THEN inbox[q] \cup {d.of} ELSE inbox[q]]
    /\ net' = IF again THEN net ELSE net \ {d}
    /\ UNCHANGED <<pc, over, msg, port, via, reply, frame, counted>>

Lose(d) ==
    /\ d \in net
    /\ net' = net \ {d}
    /\ UNCHANGED <<task, reply, frame, counted>>

Receive(q) ==
    \/ \E m \in Message : ReceiveUdp(q, m) \/ ReadTcp(q, m)
    \/ AcceptTcp(q)
    \/ CloseTcp(q)

\* The steps a spawned task takes by itself.
Respond(q) ==
    \/ Drop(q) \/ AnswerLocally(q)
    \/ Forward(q) \/ ForwardFails(q)
    \/ Relay(q) \/ Timeout(q)
    \/ Send(q)

Next ==
    \/ \E q \in Query : Receive(q) \/ Respond(q) \/ RecvFails(q)
    \/ \E d \in net :
        \/ UpstreamAnswers(d)
        \/ \E again \in BOOLEAN : Deliver(d, again)
        \/ Lose(d)

Spec == Init /\ [][Next]_vars

\* Spawned tasks run and timers fire; clients, the network and the upstream
\* resolver owe nothing, not even an ICMP error.
FairSpec == Spec /\ \A q \in Query : WF_vars(Respond(q))

-----------------------------------------------------------------------------
(* Properties.                                                              *)

\* However late, often and out of order answers arrive, what a client gets is
\* about its own query, or about one whose task had the same port before and
\* has stopped waiting: an answer a client still waits for is never given to
\* another.  It comes from where the order of precedence says: the records'
\* names are never asked upstream, a passthrough name is never given the
\* proxy's address, and a SERVFAIL is only ever the answer to a query that was
\* to be forwarded.  Over TCP it is framed by its own length, if the question
\* leaves room for an answer in the 16 bits `as u16` keeps.
RepliesTrue ==
    \A q \in Query : reply[q] # None =>
        /\ \/ reply[q].of = msg[q]
           \/ /\ reply[q].by = "upstream"
              /\ \E o \in Query \ {q} :
                    /\ via[o] = via[q] /\ pc[o] \in {"reply", "done"}
                    /\ reply[q].of = msg[o]
        /\ reply[q].data = "record" => Record[msg[q].name] # None
        /\ reply[q].data \in {"relayed", "servfail"} <=>
              Record[msg[q].name] = None /\ msg[q].name \in Passthrough
        /\ reply[q].data = "empty" => msg[q].qtype # "A"
        /\ frame[q] # None /\ Header + msg[q].question + Target <= MaxTcp =>
              frame[q] = reply[q].len

\* "forward the query to the upstream resolver and relay its answer"
\* (spec/06-dns.md:33-34): what is relayed is the resolver's answer to the
\* query of this client.
AnswerIsOwn ==
    \A q \in Query : reply[q] # None /\ reply[q].by = "upstream" => reply[q].of = msg[q]

\* with_on_decision: "Called once per resolved query".  The counters add up to
\* the queries that got a reply, errors to those that got a SERVFAIL and
\* passthroughs to those that got the resolver's own answer; a message that is
\* dropped counts nowhere.
CountedOnce ==
    LET With(S) == Cardinality({q \in Query : reply[q] # None /\ reply[q].data \in S}) IN
    /\ counted["error"] = With({"servfail"})
    /\ counted["passthrough"] = With({"relayed"})
    /\ counted["static"] + counted["intercept"] = With({"record", "proxy_ip", "empty"})
    /\ counted["static"] >= With({"record"})

\* "Upstream resolver queries MUST carry a timeout (5 s); on failure return
\* SERVFAIL": a query that can be parsed is answered, whatever the network and
\* the resolver do.
QueriesAnswered ==
    \A q \in Query : (pc[q] = "respond" /\ msg[q] # Malformed) ~>
                     (pc[q] = "done" /\ reply[q] # None)
=============================================================================
