----------------------------- MODULE DnsProofs -----------------------------
(***************************************************************************)
(* Proofs about Dns, for any number of queries, names and messages, and    *)
(* any loss, delay, duplication and reordering of datagrams.               *)
(***************************************************************************)
EXTENDS Dns, FiniteSetTheorems, TLAPS

-----------------------------------------------------------------------------
(* The inductive invariant.                                                 *)

Passed(m) == Record[m.name] = None /\ m.name \in Passthrough

\* What a reply says, given the message it is for.
Says(m, data) ==
    /\ data = "record" => Record[m.name] # None
    /\ data \in {"relayed", "servfail"} <=> Passed(m)
    /\ data = "empty" => m.qtype # "A"

\* A reply to m is no longer than its header, question and a record, or than
\* what was received from the resolver.
Short(m, len) == len <= Header + m.question + Target \/ len <= Buffer

\* A query, from where its task is.
QueryInv(q) ==
    /\ pc[q] \notin {"reply", "done"} => reply[q] = None
    /\ pc[q] # "done" => frame[q] = None
    /\ pc[q] # "forward" => port[q] = None /\ inbox[q] = {}
    /\ pc[q] = "respond" => msg[q] \in Request \cup {Malformed}
    /\ pc[q] = "forward" => msg[q] \in Request /\ port[q] \in Port /\ Passed(msg[q])
    /\ pc[q] = "reply" => reply[q] # None
    /\ reply[q] # None =>
          msg[q] \in Request /\ Says(msg[q], reply[q].data) /\ Short(msg[q], reply[q].len)
    /\ reply[q] # None /\ frame[q] # None =>
          (Header + msg[q].question + Target <= MaxTcp => frame[q] = reply[q].len)

IInv == TypeOK /\ (\A q \in Query : QueryInv(q)) /\ CountedOnce

\* What q may be told: about its own request, or about one whose task had
\* the same port and has stopped waiting.
Told(q) ==
    {msg[o] : o \in {k \in Query : via[k] = via[q] /\ (k = q \/ pc[k] \in {"reply", "done"})}}

\* The requests that were forwarded from port p.
Sent(p) ==
    {msg[o] : o \in {k \in Query : via[k] = p /\ pc[k] \in {"forward", "reply", "done"}}}

\* Sockets are private while they are open, so that what arrives at one of
\* them is not what the task of another still waits for.
OwnInv ==
    /\ \A q, r \in Query : port[q] = port[r] /\ port[q] # None => q = r
    /\ \A q \in Query : pc[q] = "forward" => port[q] = via[q]
    /\ \A d \in net : d.of \in Sent(d.port)
    /\ \A q \in Query : \A m \in inbox[q] : m \in Told(q)
    /\ \A q \in Query : reply[q] # None =>
          reply[q].of = msg[q] \/ (reply[q].by = "upstream" /\ reply[q].of \in Told(q))

-----------------------------------------------------------------------------
\* A query that parses has an id, a name, a type and a question.
LEMMA RequestFields ==
    ASSUME NEW m \in Request
    PROVE  m # Malformed /\ m.name \in Name /\ m.question \in Nat /\ m.rest \in Nat
BY DnsAssumption DEF Request

\* What is left of a request in the buffer is a request or cannot be read.
LEMMA CutRequest ==
    ASSUME NEW m \in Request \cup {Malformed}
    PROVE  Cut(m) \in Request \cup {Malformed}
<1>1. CASE m = Malformed
  BY <1>1 DEF Cut, AtMost
<1>2. CASE m \in Request /\ ~AtMost(m, Buffer) /\ ~(Header + m.question > Buffer)
  <2>1. Buffer - Header - m.question \in Nat
    BY <1>2, RequestFields DEF Header, Buffer
  <2>2. [m EXCEPT !.rest = Buffer - Header - m.question] \in Request
    BY <1>2, <2>1 DEF Request
  <2> QED
    BY <1>2, <2>2 DEF Cut
<1> QED
  BY <1>1, <1>2 DEF Cut

\* resolve answers by the precedence, and passes on what is to be passed on.
LEMMA ResolveKind ==
    ASSUME NEW m \in Request
    PROVE  /\ resolve(m).kind = "passthrough" <=> Passed(m)
           /\ resolve(m).kind # "passthrough" =>
                /\ resolve(m).data \in {"record", "proxy_ip", "empty"}
                /\ Says(m, resolve(m).data)
                /\ \/ resolve(m).kind = "static"
                   \/ resolve(m).kind = "intercept" /\ resolve(m).data # "record"
<1>1. m.name \in Name /\ Record[m.name] \in {"A", "CNAME", None} /\ None \notin {"A", "CNAME"}
  BY RequestFields, DnsAssumption
<1> QED
  BY <1>1 DEF resolve, Passed, Says

\* What build makes is a reply to the message it is given.
LEMMA BuildReply ==
    ASSUME NEW m \in Request, NEW data \in {"record", "proxy_ip", "empty", "servfail"}
    PROVE  /\ build(m, data) \in Reply /\ build(m, data).data = data /\ build(m, data).of = m
           /\ Short(m, build(m, data).len)
<1>1. m.question \in Nat
  BY RequestFields
<1>2. build(m, data).len \in Nat /\ Short(m, build(m, data).len)
  BY <1>1 DEF build, Short, Header, Target, ARecord
<1> QED
  BY <1>2 DEF build, Reply

-----------------------------------------------------------------------------
(* Counting.                                                                *)

Got(S) == {q \in Query : reply[q] # None /\ reply[q].data \in S}

Outcomes(error, passthrough, static, intercept) ==
    /\ error = Cardinality(Got({"servfail"}))
    /\ passthrough = Cardinality(Got({"relayed"}))
    /\ static + intercept = Cardinality(Got({"record", "proxy_ip", "empty"}))
    /\ static >= Cardinality(Got({"record"}))

\* CountedOnce, with the four counters as arguments.
LEMMA CountedIs ==
    CountedOnce <=> Outcomes(counted["error"], counted["passthrough"],
                             counted["static"], counted["intercept"])
BY Zenon DEF CountedOnce, Outcomes, Got

\* There are finitely many queries, so those with a kind of reply can be counted.
LEMMA GotFinite ==
    ASSUME NEW S PROVE IsFiniteSet(Got(S)) /\ Cardinality(Got(S)) \in Nat
<1>1. IsFiniteSet(Got(S))
  BY DnsAssumption, FS_Subset DEF Got
<1> QED
  BY <1>1, FS_CardinalityType

\* A reply that was not there adds one to the sets its data belongs to.
LEMMA GotMore ==
    ASSUME NEW q \in Query, NEW r \in Reply, reply \in [Query -> Reply \cup {None}],
           reply[q] = None, reply' = [reply EXCEPT ![q] = r], NEW S
    PROVE  Cardinality(Got(S))' = Cardinality(Got(S)) + IF r.data \in S THEN 1 ELSE 0
<1>1. /\ reply'[q] = r /\ r # None /\ q \notin Got(S)
      /\ \A p \in Query \ {q} : reply'[p] = reply[p]
  BY DnsAssumption DEF Got
<1>2. CASE r.data \in S
  <2>1. Got(S)' = Got(S) \cup {q}
    BY <1>1, <1>2 DEF Got
  <2>2. Cardinality(Got(S) \cup {q}) = Cardinality(Got(S)) + 1
    BY <1>1, GotFinite, FS_AddElement, Zenon
  <2> QED
    BY <1>2, <2>1, <2>2
<1>3. CASE r.data \notin S
  <2>1. Got(S)' = Got(S)
    BY <1>1, <1>3 DEF Got
  <2> QED
    BY <1>3, <2>1, GotFinite
<1> QED
  BY <1>2, <1>3

\* The outcome `respond` counts, for the data of its reply.
Fits(outcome, data) ==
    \/ outcome = "error" /\ data = "servfail"
    \/ outcome = "passthrough" /\ data = "relayed"
    \/ outcome = "static" /\ data \in {"record", "proxy_ip", "empty"}
    \/ outcome = "intercept" /\ data \in {"proxy_ip", "empty"}

\* A reply that is counted under an outcome that fits it keeps the counters exact.
LEMMA ReturnCounts ==
    ASSUME TypeOK, CountedOnce, NEW q \in Query, NEW r \in Reply, NEW outcome \in Outcome,
           reply[q] = None, Return(q, r, outcome), Fits(outcome, r.data)
    PROVE  CountedOnce'
<1> DEFINE n(S) == Cardinality(Got(S))
<1>1. reply \in [Query -> Reply \cup {None}] /\ reply' = [reply EXCEPT ![q] = r]
  BY DEF TypeOK, Return
<1>2. /\ n({"servfail"})' = n({"servfail"}) + IF r.data = "servfail" THEN 1 ELSE 0
      /\ n({"relayed"})' = n({"relayed"}) + IF r.data = "relayed" THEN 1 ELSE 0
      /\ n({"record", "proxy_ip", "empty"})' = n({"record", "proxy_ip", "empty"}) +
            IF r.data \in {"record", "proxy_ip", "empty"} THEN 1 ELSE 0
      /\ n({"record"})' = n({"record"}) + IF r.data = "record" THEN 1 ELSE 0
  BY <1>1, GotMore, Zenon
<1>3. /\ n({"servfail"}) \in Nat /\ n({"relayed"}) \in Nat /\ n({"record"}) \in Nat
      /\ n({"record", "proxy_ip", "empty"}) \in Nat
  BY GotFinite
<1>4. Outcomes(counted["error"], counted["passthrough"], counted["static"], counted["intercept"])
  BY CountedIs
<1>5. /\ counted["error"] \in Nat /\ counted["passthrough"] \in Nat
      /\ counted["static"] \in Nat /\ counted["intercept"] \in Nat
      /\ counted'["error"] = counted["error"] + IF outcome = "error" THEN 1 ELSE 0
      /\ counted'["passthrough"] = counted["passthrough"] + IF outcome = "passthrough" THEN 1 ELSE 0
      /\ counted'["static"] = counted["static"] + IF outcome = "static" THEN 1 ELSE 0
      /\ counted'["intercept"] = counted["intercept"] + IF outcome = "intercept" THEN 1 ELSE 0
  BY DEF Return, TypeOK, Outcome
<1> HIDE DEF n
<1>6. /\ counted'["error"] = n({"servfail"})'
      /\ counted'["passthrough"] = n({"relayed"})'
      /\ counted'["static"] + counted'["intercept"] = n({"record", "proxy_ip", "empty"})'
      /\ counted'["static"] >= n({"record"})'
  <2>1. /\ counted["error"] = n({"servfail"}) /\ counted["passthrough"] = n({"relayed"})
        /\ counted["static"] + counted["intercept"] = n({"record", "proxy_ip", "empty"})
        /\ counted["static"] >= n({"record"})
    BY <1>4 DEF n, Outcomes
  <2> QED
    BY <1>2, <1>3, <1>5, <2>1 DEF Fits
<1>7. Outcomes(counted["error"], counted["passthrough"], counted["static"], counted["intercept"])'
  BY <1>6 DEF n, Outcomes
<1> QED
  BY <1>7, CountedIs, PTL

-----------------------------------------------------------------------------
(* The steps of a query.                                                    *)

\* What a step of q leaves alone.
Only(q) ==
    \A p \in Query \ {q} :
        /\ pc'[p] = pc[p] /\ msg'[p] = msg[p] /\ port'[p] = port[p] /\ inbox'[p] = inbox[p]
        /\ via'[p] = via[p] /\ reply'[p] = reply[p] /\ frame'[p] = frame[p]

\* What is true of a query does not depend on the others.
LEMMA SameQuery ==
    ASSUME NEW p \in Query, QueryInv(p),
           pc'[p] = pc[p], msg'[p] = msg[p], port'[p] = port[p], inbox'[p] = inbox[p],
           reply'[p] = reply[p], frame'[p] = frame[p]
    PROVE  QueryInv(p)'
BY DEF QueryInv, Says, Passed, Short

\* A step of one query keeps the invariant if it does so for that query.
LEMMA OneQuery ==
    ASSUME IInv, NEW q \in Query, Only(q), TypeOK', QueryInv(q)', CountedOnce'
    PROVE  IInv'
<1>1. ASSUME NEW p \in Query, p # q PROVE QueryInv(p)'
  BY <1>1, SameQuery DEF IInv, Only
<1> QED
  BY <1>1 DEF IInv

\* The counters stay exact while no reply is made.
LEMMA SameCount == ASSUME CountedOnce, UNCHANGED <<reply, counted>> PROVE CountedOnce'
BY Zenon DEF CountedOnce

\* A query arrives by UDP or TCP.
LEMMA ReceiveIInv == ASSUME IInv, NEW q \in Query, Receive(q) PROVE IInv'
<1>1. TypeOK /\ QueryInv(q) /\ CountedOnce
  BY DEF IInv
<1>2. /\ UNCHANGED <<port, inbox, via, net, reply, frame, counted>>
      /\ pc[q] \in {"idle", "reading"} /\ reply[q] = None /\ frame[q] = None
      /\ port[q] = None /\ inbox[q] = {}
  BY <1>1 DEF Receive, ReceiveUdp, AcceptTcp, ReadTcp, CloseTcp, QueryInv
<1>3. \/ pc' = [pc EXCEPT ![q] = "reading"] /\ over' = [over EXCEPT ![q] = "tcp"] /\ msg' = msg
      \/ pc' = [pc EXCEPT ![q] = "done"] /\ over' = over /\ msg' = msg
      \/ /\ pc' = [pc EXCEPT ![q] = "respond"] /\ over' = over
         /\ \E m \in Request \cup {Malformed} : msg' = [msg EXCEPT ![q] = m]
  <2>1. \A m \in Message : m \in Request \cup {Malformed} /\ Cut(m) \in Request \cup {Malformed}
    BY DnsAssumption, CutRequest
  <2> QED
    BY <2>1 DEF Receive, ReceiveUdp, AcceptTcp, ReadTcp, CloseTcp
<1>4. TypeOK' /\ Only(q)
  BY <1>1, <1>2, <1>3 DEF TypeOK, Only
<1>5. QueryInv(q)'
  BY <1>1, <1>2, <1>3 DEF TypeOK, QueryInv
<1> QED
  BY <1>1, <1>2, <1>4, <1>5, OneQuery, SameCount

\* A message that does not parse gets no reply.
LEMMA DropIInv == ASSUME IInv, NEW q \in Query, Drop(q) PROVE IInv'
<1>1. TypeOK /\ QueryInv(q) /\ CountedOnce
  BY DEF IInv
<1>2. TypeOK' /\ Only(q)
  BY <1>1 DEF Drop, TypeOK, Only
<1>3. QueryInv(q)'
  BY <1>1 DEF Drop, TypeOK, QueryInv
<1> QED
  BY <1>1, <1>2, <1>3, OneQuery, SameCount DEF Drop

\* respond returns.
Returns(q, r, outcome) ==
    /\ pc[q] \in {"respond", "forward"} /\ msg[q] \in Request
    /\ Return(q, r, outcome) /\ UNCHANGED net
    /\ Says(msg[q], r.data) /\ Short(msg[q], r.len) /\ Fits(outcome, r.data)

\* respond returns a reply that says what the precedence demands.
LEMMA ReturnsIInv ==
    ASSUME IInv, NEW q \in Query, NEW r \in Reply, NEW outcome \in Outcome, Returns(q, r, outcome)
    PROVE  IInv'
<1>1. TypeOK /\ QueryInv(q) /\ CountedOnce
  BY DEF IInv
<1>2. reply[q] = None /\ frame[q] = None
  BY <1>1 DEF QueryInv, Returns
<1>3. TypeOK' /\ Only(q)
  BY <1>1 DEF Returns, Return, TypeOK, Only, Outcome
<1>4. QueryInv(q)'
  <2>1. /\ pc'[q] = "reply" /\ reply'[q] = r /\ port'[q] = None /\ inbox'[q] = {}
        /\ msg' = msg /\ frame' = frame /\ r # None
    BY <1>1, DnsAssumption DEF Returns, Return, TypeOK
  <2> QED
    BY <1>2, <2>1 DEF QueryInv, Returns
<1>5. CountedOnce'
  BY <1>1, <1>2, ReturnCounts DEF Returns
<1> QED
  BY <1>3, <1>4, <1>5, OneQuery

\* respond returns SERVFAIL for a query that was to be passed on.
LEMMA ServfailIInv ==
    ASSUME IInv, NEW q \in Query, pc[q] \in {"respond", "forward"}, msg[q] \in Request,
           Passed(msg[q]), Servfail(q), UNCHANGED net
    PROVE  Returns(q, build(msg[q], "servfail"), "error") /\ IInv'
<1>1. /\ build(msg[q], "servfail") \in Reply /\ build(msg[q], "servfail").data = "servfail"
      /\ Short(msg[q], build(msg[q], "servfail").len)
  BY BuildReply
<1>2. Says(msg[q], "servfail") /\ Fits("error", "servfail")
  BY DEF Says, Fits
<1>3. Returns(q, build(msg[q], "servfail"), "error")
  BY <1>1, <1>2 DEF Returns, Servfail
<1> QED
  BY <1>1, <1>3, ReturnsIInv DEF Outcome

\* respond answers by itself, with a record, the proxy's address or nothing.
LEMMA LocalIInv ==
    ASSUME IInv, NEW q \in Query, AnswerLocally(q)
    PROVE  \E r \in Reply, outcome \in Outcome : Returns(q, r, outcome) /\ r.of = msg[q]
<1>1. msg[q] \in Request
  BY DEF IInv, QueryInv, AnswerLocally
<1> DEFINE d == resolve(msg[q])
           r == build(msg[q], d.data)
<1>2. /\ d.data \in {"record", "proxy_ip", "empty"} /\ Says(msg[q], d.data)
      /\ d.kind \in Outcome /\ Fits(d.kind, d.data)
  BY <1>1, ResolveKind DEF AnswerLocally, Outcome, Fits
<1>3. r \in Reply /\ r.data = d.data /\ r.of = msg[q] /\ Short(msg[q], r.len)
  BY <1>1, <1>2, BuildReply
<1>4. pc[q] = "respond" /\ Return(q, r, d.kind) /\ UNCHANGED net
  BY DEF AnswerLocally
<1> HIDE DEF d, r
<1>5. Returns(q, r, d.kind)
  BY <1>1, <1>2, <1>3, <1>4 DEF Returns
<1> QED
  BY <1>2, <1>3, <1>5

\* respond relays what the upstream resolver sent.
LEMMA RelayReturns ==
    ASSUME IInv, NEW q \in Query, Relay(q)
    PROVE  \E r \in Reply : /\ Returns(q, r, "passthrough")
                            /\ r.by = "upstream" /\ r.of \in inbox[q]
<1>1. PICK m \in inbox[q], n \in {Header, Buffer} :
        Return(q, [of |-> m, by |-> "upstream", data |-> "relayed", len |-> n], "passthrough")
  BY DEF Relay
<1> DEFINE r == [of |-> m, by |-> "upstream", data |-> "relayed", len |-> n]
<1>2. /\ r \in Reply /\ r.data = "relayed" /\ r.of = m /\ r.by = "upstream"
      /\ Short(msg[q], r.len)
  BY DEF IInv, TypeOK, Reply, Short, Header, Buffer
<1>3. pc[q] = "forward" /\ msg[q] \in Request /\ Passed(msg[q]) /\ UNCHANGED net
  BY DEF Relay, IInv, QueryInv
<1>4. Says(msg[q], "relayed") /\ Fits("passthrough", "relayed")
  BY <1>3 DEF Says, Fits
<1> HIDE DEF r
<1>5. Return(q, r, "passthrough")
  BY <1>1 DEF r
<1>6. Returns(q, r, "passthrough")
  BY <1>2, <1>3, <1>4, <1>5 DEF Returns
<1> QED
  BY <1>2, <1>6

\* A task binds a socket and sends its query on.
LEMMA ForwardIInv == ASSUME IInv, NEW q \in Query, Forward(q) PROVE IInv'
<1>1. TypeOK /\ QueryInv(q) /\ CountedOnce /\ pc[q] = "respond"
  BY DEF IInv, Forward, Forwards
<1>2. msg[q] \in Request /\ Passed(msg[q])
  <2>1. msg[q] \in Request
    BY <1>1 DEF QueryInv, Forward, Forwards
  <2> QED
    BY <2>1, ResolveKind DEF Forward, Forwards
<1>3. PICK p \in Port : /\ port' = [port EXCEPT ![q] = p] /\ via' = [via EXCEPT ![q] = p]
                        /\ net' = net \cup {[kind |-> "query", port |-> p, of |-> msg[q]]}
  BY Zenon DEF Forward, SendUpstream
<1>4. TypeOK' /\ Only(q)
  BY <1>1, <1>2, <1>3 DEF Forward, TypeOK, Only, Datagram
<1>5. QueryInv(q)'
  BY <1>1, <1>2, <1>3 DEF Forward, TypeOK, QueryInv
<1> QED
  BY <1>1, <1>4, <1>5, OneQuery, SameCount DEF Forward

\* What `as u16` leaves of a length.
LEMMA Truncates ==
    ASSUME NEW n \in Nat
    PROVE  as_u16(n) \in u16 /\ (n <= MaxTcp => as_u16(n) = n)
BY DEF as_u16, u16, MaxTcp

\* A reply is sent, over TCP behind its length in 16 bits.
LEMMA SendIInv == ASSUME IInv, NEW q \in Query, Send(q) PROVE IInv'
<1>1. TypeOK /\ QueryInv(q) /\ CountedOnce /\ pc[q] = "reply" /\ reply[q] # None
  BY DEF IInv, Send, QueryInv
<1>2. reply[q].len \in Nat
  BY <1>1 DEF TypeOK, Reply
<1>3. /\ as_u16(reply[q].len) \in u16
      /\ Header + msg[q].question + Target <= MaxTcp => as_u16(reply[q].len) = reply[q].len
  <2>1. msg[q].question \in Nat /\ Short(msg[q], reply[q].len)
    BY <1>1, RequestFields DEF QueryInv
  <2>2. Header + msg[q].question + Target <= MaxTcp => reply[q].len <= MaxTcp
    BY <1>2, <2>1 DEF Short, Header, Target, Buffer, MaxTcp
  <2> QED
    BY <1>2, <2>2, Truncates
<1>4. TypeOK' /\ Only(q)
  BY <1>1, <1>3 DEF Send, TypeOK, Only
<1>5. QueryInv(q)'
  <2>1. /\ pc'[q] = "done" /\ frame'[q] = IF over[q] = "tcp" THEN as_u16(reply[q].len) ELSE None
        /\ UNCHANGED <<msg, port, inbox, reply>>
    BY <1>1 DEF Send, TypeOK
  <2> QED
    BY <1>1, <1>3, <2>1 DEF QueryInv
<1> QED
  BY <1>1, <1>4, <1>5, OneQuery, SameCount DEF Send

\* respond, whichever way it ends.
LEMMA RespondIInv == ASSUME IInv, NEW q \in Query, Respond(q) \/ RecvFails(q) PROVE IInv'
<1>1. CASE AnswerLocally(q)
  BY <1>1, LocalIInv, ReturnsIInv
<1>2. CASE Relay(q)
  <2>1. "passthrough" \in Outcome
    BY DEF Outcome
  <2> QED
    BY <1>2, <2>1, RelayReturns, ReturnsIInv
<1>3. CASE ForwardFails(q)
  <2>1. msg[q] \in Request
    BY <1>3 DEF IInv, QueryInv, ForwardFails, Forwards
  <2>2. Passed(msg[q])
    BY <1>3, <2>1, ResolveKind DEF ForwardFails, Forwards
  <2> QED
    BY <1>3, <2>1, <2>2, ServfailIInv DEF ForwardFails, Forwards
<1>4. CASE Timeout(q) \/ RecvFails(q)
  <2>1. pc[q] = "forward" /\ Servfail(q) /\ UNCHANGED net
    BY <1>4 DEF Timeout, RecvFails
  <2>2. msg[q] \in Request /\ Passed(msg[q])
    BY <2>1 DEF IInv, QueryInv
  <2> QED
    BY <2>1, <2>2, ServfailIInv, Zenon
<1> QED
  BY <1>1, <1>2, <1>3, <1>4, DropIInv, ForwardIInv, SendIInv DEF Respond

-----------------------------------------------------------------------------
(* The network.                                                             *)

\* The network may fill the inboxes of bound sockets, and changes nothing else of a query.
LEMMA NetIInv ==
    ASSUME IInv, UNCHANGED <<pc, over, msg, port, via, reply, frame, counted>>,
           net' \subseteq Datagram, inbox' \in [Query -> SUBSET Request],
           \A q \in Query : port[q] = None => inbox'[q] = inbox[q]
    PROVE  IInv'
<1>1. TypeOK'
  BY DEF IInv, TypeOK
<1>2. \A q \in Query : QueryInv(q)'
  BY Zenon DEF IInv, QueryInv
<1> QED
  BY <1>1, <1>2, SameCount DEF IInv

\* A datagram is answered, delivered once or twice, or lost.
LEMMA DatagramIInv ==
    ASSUME IInv, NEW d \in net, NEW again \in BOOLEAN,
           UpstreamAnswers(d) \/ Deliver(d, again) \/ Lose(d)
    PROVE  IInv'
<1>1. TypeOK /\ d \in Datagram /\ d.port \in Port /\ d.of \in Request
  BY DEF IInv, TypeOK, Datagram
<1>2. CASE UpstreamAnswers(d)
  <2>1. [d EXCEPT !.kind = "answer"] \in Datagram
    BY <1>1 DEF Datagram
  <2> QED
    BY <1>1, <1>2, <2>1, NetIInv DEF UpstreamAnswers, task, TypeOK
<1>3. CASE Lose(d)
  BY <1>1, <1>3, NetIInv DEF Lose, task, TypeOK
<1>4. CASE Deliver(d, again)
  <2>1. net' \subseteq Datagram
    BY <1>1, <1>4 DEF Deliver, TypeOK
  <2>2. /\ inbox' \in [Query -> SUBSET Request]
        /\ \A q \in Query : port[q] = None => inbox'[q] = inbox[q]
    BY <1>1, <1>4, DnsAssumption, SMTT(30) DEF Deliver, TypeOK
  <2> QED
    BY <1>4, <2>1, <2>2, NetIInv DEF Deliver
<1> QED
  BY <1>2, <1>3, <1>4

\* Nothing received, nothing counted.
LEMMA InitIInv == Init => IInv
<1> SUFFICES ASSUME Init PROVE IInv
  OBVIOUS
<1>1. TypeOK
  BY DEF Init, TypeOK, Outcome
<1>2. \A q \in Query : QueryInv(q)
  BY DEF Init, QueryInv
<1>3. CountedOnce
  <2>1. ASSUME NEW S PROVE Got(S) = {}
    BY DEF Init, Got
  <2>2. ASSUME NEW S PROVE Cardinality(Got(S)) = 0
    BY <2>1, FS_EmptySet
  <2>3. Outcomes(counted["error"], counted["passthrough"], counted["static"], counted["intercept"])
    <3>1. \A o \in Outcome : counted[o] = 0
      BY DEF Init
    <3> QED
      BY <2>2, <3>1 DEF Outcomes, Outcome
  <2> QED
    BY <2>3, CountedIs
<1> QED
  BY <1>1, <1>2, <1>3 DEF IInv

\* IInv is inductive.
LEMMA NextIInv == ASSUME IInv, [Next]_vars PROVE IInv'
<1>1. CASE UNCHANGED vars
  BY <1>1, NetIInv, Zenon DEF vars, task, IInv, TypeOK
<1>2. ASSUME NEW q \in Query, Receive(q) \/ Respond(q) \/ RecvFails(q) PROVE IInv'
  BY <1>2, ReceiveIInv, RespondIInv
<1>3. ASSUME NEW d \in net, UpstreamAnswers(d) \/ Lose(d) PROVE IInv'
  BY <1>3, DatagramIInv, Zenon
<1>4. ASSUME NEW d \in net, NEW again \in BOOLEAN, Deliver(d, again) PROVE IInv'
  BY <1>4, DatagramIInv
<1> QED
  BY <1>1, <1>2, <1>3, <1>4 DEF Next

\* IInv holds throughout.
LEMMA Inductive == Spec => []IInv
<1>1. Init => IInv
  BY InitIInv
<1>2. IInv /\ [Next]_vars => IInv'
  BY NextIInv
<1> QED
  BY <1>1, <1>2, PTL DEF Spec

-----------------------------------------------------------------------------
(* Sockets.                                                                 *)

\* What a step leaves of a query that has been forwarded: its request, its
\* port, and that it has stopped waiting if it has.
Stable ==
    \A o \in Query : pc[o] \in {"forward", "reply", "done"} =>
        /\ msg'[o] = msg[o] /\ via'[o] = via[o]
        /\ pc'[o] \in {"forward", "reply", "done"}
        /\ pc[o] # "forward" => pc'[o] # "forward"

\* A step of q leaves the others alone, and q too if it has been forwarded.
LEMMA StableOne ==
    ASSUME NEW q \in Query, Only(q),
           pc[q] \in {"forward", "reply", "done"} =>
               msg'[q] = msg[q] /\ via'[q] = via[q] /\ pc'[q] \in {"reply", "done"}
    PROVE  Stable
BY DEF Only, Stable

\* What was true of a datagram, an inbox or a reply stays true of it.
LEMMA StableTold ==
    ASSUME Stable
    PROVE  /\ \A p : Sent(p) \subseteq Sent(p)'
           /\ \A q \in Query : pc[q] \in {"forward", "reply", "done"} => Told(q) \subseteq Told(q)'
<1>1. ASSUME NEW p, NEW m \in Sent(p) PROVE m \in Sent(p)'
  BY <1>1, Zenon DEF Sent, Stable
<1>2. ASSUME NEW q \in Query, pc[q] \in {"forward", "reply", "done"}, NEW m \in Told(q)
      PROVE  m \in Told(q)'
  <2>1. PICK o \in Query : /\ via[o] = via[q] /\ msg[o] = m
                           /\ o = q \/ pc[o] \in {"reply", "done"}
    BY <1>2, Zenon DEF Told
  <2>2. /\ via'[q] = via[q] /\ via'[o] = via[o] /\ msg'[o] = msg[o]
        /\ o = q \/ pc'[o] \in {"reply", "done"}
    BY <1>2, <2>1 DEF Stable
  <2>3. via'[o] = via'[q] /\ m = msg'[o]
    BY <2>1, <2>2, Zenon
  <2> QED
    BY <2>2, <2>3 DEF Told
<1> QED
  BY <1>1, <1>2, Zenon

\* Only a task that waits has a socket and an inbox, and only one that does
\* not wait any more has a reply.
LEMMA Waiting ==
    ASSUME IInv, NEW q \in Query
    PROVE  /\ port[q] # None \/ inbox[q] # {} => pc[q] = "forward"
           /\ reply[q] # None => pc[q] \in {"reply", "done"}
<1>1. QueryInv(q)
  BY DEF IInv
<1>2. /\ pc[q] # "forward" => port[q] = None /\ inbox[q] = {}
      /\ pc[q] \notin {"reply", "done"} => reply[q] = None
  BY <1>1, Zenon DEF QueryInv
<1> QED
  BY <1>2

\* A query's step that sends nothing upstream.
LEMMA OwnKept ==
    ASSUME IInv, OwnInv, NEW q \in Query, Only(q), Stable, net' = net,
           port'[q] = None, inbox'[q] = {}, pc'[q] # "forward",
           reply'[q] # None => \/ reply'[q].of = msg'[q]
                               \/ reply'[q].by = "upstream" /\ reply'[q].of \in Told(q)'
    PROVE  OwnInv'
<1>1. /\ \A j, k \in Query : port'[j] = port'[k] /\ port'[j] # None => j = k
      /\ \A k \in Query : pc'[k] = "forward" => port'[k] = via'[k]
  <2>1. /\ \A j, k \in Query : port[j] = port[k] /\ port[j] # None => j = k
        /\ \A k \in Query : pc[k] = "forward" => port[k] = via[k]
    BY Zenon DEF OwnInv
  <2>2. \A k \in Query \ {q} : port'[k] = port[k] /\ via'[k] = via[k] /\ pc'[k] = pc[k]
    BY Zenon DEF Only
  <2>3. port'[q] = None /\ pc'[q] # "forward"
    OBVIOUS
  <2>4. ASSUME NEW j \in Query, NEW k \in Query, port'[j] = port'[k], port'[j] # None
        PROVE  j = k
    BY <2>1, <2>2, <2>3, <2>4
  <2>5. ASSUME NEW k \in Query, pc'[k] = "forward" PROVE port'[k] = via'[k]
    BY <2>1, <2>2, <2>3, <2>5
  <2> QED
    BY <2>4, <2>5, Zenon
<1>2. \A d \in net' : d.of \in Sent(d.port)'
  BY StableTold, Zenon DEF OwnInv
<1>3. ASSUME NEW k \in Query, NEW m \in inbox'[k] PROVE m \in Told(k)'
  <2>1. k # q /\ m \in inbox[k]
    BY <1>3 DEF Only
  <2> QED
    BY <2>1, Waiting, StableTold DEF OwnInv
<1>4. ASSUME NEW k \in Query, reply'[k] # None
      PROVE  reply'[k].of = msg'[k] \/ (reply'[k].by = "upstream" /\ reply'[k].of \in Told(k)')
  <2>1. CASE k = q
    BY <1>4, <2>1 DEF Told
  <2>2. CASE k # q
    <3>1. reply'[k] = reply[k] /\ msg'[k] = msg[k] /\ pc[k] \in {"reply", "done"}
      BY <1>4, <2>2, Waiting DEF Only
    <3> QED
      BY <1>4, <3>1, StableTold DEF OwnInv
  <2> QED
    BY <2>1, <2>2
<1> QED
  BY <1>1, <1>2, <1>3, <1>4, Zenon DEF OwnInv

\* A task that returns gives its client what it may be told.
LEMMA ReturnOwn ==
    ASSUME IInv, OwnInv, NEW q \in Query, NEW r \in Reply, NEW outcome \in Outcome,
           Returns(q, r, outcome),
           r.of = msg[q] \/ (r.by = "upstream" /\ pc[q] = "forward" /\ r.of \in Told(q))
    PROVE  OwnInv'
<1>1. /\ Only(q) /\ net' = net /\ port'[q] = None /\ inbox'[q] = {} /\ reply'[q] = r
      /\ msg' = msg /\ via' = via /\ pc'[q] = "reply"
  BY Zenon DEF IInv, TypeOK, Returns, Return, Only
<1>2. Stable
  BY <1>1, StableOne, Zenon
<1>3. r.of = msg'[q] \/ (r.by = "upstream" /\ r.of \in Told(q)')
  BY <1>1, <1>2, StableTold, Zenon
<1> QED
  BY <1>1, <1>2, <1>3, OwnKept, Zenon

\* A task that binds a socket shares it with nobody.
LEMMA ForwardOwn ==
    ASSUME IInv, OwnInv, NEW q \in Query, Forward(q)
    PROVE  OwnInv'
<1>1. PICK p \in Port : /\ Ephemeral(p) /\ port' = [port EXCEPT ![q] = p]
                        /\ via' = [via EXCEPT ![q] = p]
                        /\ net' = net \cup {[kind |-> "query", port |-> p, of |-> msg[q]]}
  BY Zenon DEF Forward, SendUpstream
<1>2. /\ port'[q] = p /\ via'[q] = p /\ pc[q] = "respond" /\ pc'[q] = "forward"
      /\ Only(q) /\ UNCHANGED <<msg, inbox, reply>>
  BY <1>1 DEF IInv, TypeOK, Forward, Forwards, Only
<1>3. Stable
  BY <1>2, StableOne
<1>4. inbox[q] = {} /\ reply[q] = None
  BY <1>2, Waiting
<1>5. /\ \A j, k \in Query : port'[j] = port'[k] /\ port'[j] # None => j = k
      /\ \A k \in Query : pc'[k] = "forward" => port'[k] = via'[k]
  <2>1. /\ \A j, k \in Query : port[j] = port[k] /\ port[j] # None => j = k
        /\ \A k \in Query : pc[k] = "forward" => port[k] = via[k]
        /\ \A k \in Query : port[k] # p
    BY <1>1, Zenon DEF OwnInv, Ephemeral
  <2>2. \A k \in Query \ {q} : port'[k] = port[k] /\ via'[k] = via[k] /\ pc'[k] = pc[k]
    BY <1>2, Zenon DEF Only
  <2>3. port'[q] = p /\ via'[q] = p
    BY <1>2, Zenon
  <2>4. ASSUME NEW j \in Query, NEW k \in Query, port'[j] = port'[k], port'[j] # None
        PROVE  j = k
    BY <2>1, <2>2, <2>3, <2>4
  <2>5. ASSUME NEW k \in Query, pc'[k] = "forward" PROVE port'[k] = via'[k]
    BY <2>1, <2>2, <2>3, <2>5
  <2> QED
    BY <2>4, <2>5, Zenon
<1>6. ASSUME NEW d \in net' PROVE d.of \in Sent(d.port)'
  <2>1. CASE d \in net
    BY <2>1, <1>3, StableTold, Zenon DEF OwnInv
  <2>2. CASE d = [kind |-> "query", port |-> p, of |-> msg[q]]
    BY <2>2, <1>2, Zenon DEF Sent
  <2> QED
    BY <1>1, <2>1, <2>2
<1>7. \A k \in Query : \A m \in inbox'[k] : m \in Told(k)'
  BY <1>2, <1>3, Waiting, StableTold, Zenon DEF OwnInv
<1>8. \A k \in Query : reply'[k] # None =>
          reply'[k].of = msg'[k] \/ (reply'[k].by = "upstream" /\ reply'[k].of \in Told(k)')
  BY <1>2, <1>3, Waiting, StableTold, Zenon DEF OwnInv
<1> QED
  BY <1>5, <1>6, <1>7, <1>8, Zenon DEF OwnInv

\* What arrives at an open socket is about the query of its task, or about one
\* that has closed its own.
LEMMA ArrivesTold ==
    ASSUME IInv, OwnInv, NEW d \in net, NEW q \in Query, port[q] = d.port
    PROVE  d.of \in Told(q)
<1>1. port[q] # None
  BY DnsAssumption DEF IInv, TypeOK, Datagram
<1>2. port[q] = via[q]
  BY <1>1, Waiting, Zenon DEF OwnInv
<1>3. PICK o \in Query : /\ via[o] = d.port /\ msg[o] = d.of
                         /\ pc[o] \in {"forward", "reply", "done"}
  BY Zenon DEF OwnInv, Sent
<1>4. pc[o] = "forward" => o = q
  <2>1. pc[o] = "forward" => port[o] = via[o]
    BY Zenon DEF OwnInv
  <2>2. port[o] = port[q] => o = q
    BY <1>1, Zenon DEF OwnInv
  <2> QED
    BY <1>3, <2>1, <2>2
<1> QED
  BY <1>2, <1>3, <1>4 DEF Told

\* What the network does leaves a datagram about a query that was forwarded
\* from the port it names.
LEMMA DatagramOwn ==
    ASSUME IInv, OwnInv, NEW d \in net, NEW again \in BOOLEAN,
           UpstreamAnswers(d) \/ Deliver(d, again) \/ Lose(d)
    PROVE  OwnInv'
<1>1. UNCHANGED <<pc, port, msg, via, reply>>
  BY DEF UpstreamAnswers, Deliver, Lose, task
<1>2. \A e \in net' : \E o \in net : e.port = o.port /\ e.of = o.of
  <2>1. [d EXCEPT !.kind = "answer"].port = d.port /\ [d EXCEPT !.kind = "answer"].of = d.of
    BY DEF IInv, TypeOK, Datagram
  <2> QED
    BY <2>1, Zenon DEF UpstreamAnswers, Deliver, Lose
<1>3. ASSUME NEW q \in Query, NEW m \in inbox'[q] PROVE m \in Told(q)
  <2>1. m \in inbox[q] \/ (port[q] = d.port /\ m = d.of)
    <3>1. CASE Deliver(d, again)
      <4>1. inbox'[q] = IF port[q] = d.port THEN inbox[q] \cup {d.of} ELSE inbox[q]
        BY <3>1 DEF Deliver
      <4> QED
        BY <1>3, <4>1
    <3>2. CASE UpstreamAnswers(d) \/ Lose(d)
      BY <1>3, <3>2, Zenon DEF UpstreamAnswers, Lose, task
    <3> QED
      BY <3>1, <3>2
  <2> QED
    BY <2>1, ArrivesTold, Zenon DEF OwnInv
<1>4. (\A p : Sent(p)' = Sent(p)) /\ \A q \in Query : Told(q)' = Told(q)
  BY <1>1, Zenon DEF Sent, Told
<1>5. \A e \in net' : e.of \in Sent(e.port)'
  BY <1>2, <1>4, Zenon DEF OwnInv
<1> QED
  BY <1>1, <1>3, <1>4, <1>5, Zenon DEF OwnInv

\* OwnInv is inductive, given IInv.
LEMMA NextOwn == ASSUME IInv, OwnInv, [Next]_vars PROVE OwnInv'
<1>1. CASE UNCHANGED vars
  <2>1. (\A p : Sent(p)' = Sent(p)) /\ \A q \in Query : Told(q)' = Told(q)
    BY <1>1, Zenon DEF vars, task, Sent, Told
  <2> QED
    BY <1>1, <2>1, Zenon DEF vars, task, OwnInv
<1>2. ASSUME NEW q \in Query, Receive(q) \/ Drop(q) \/ Send(q) PROVE OwnInv'
  <2>1. QueryInv(q) /\ TypeOK
    BY DEF IInv
  <2>2. /\ pc[q] \in {"idle", "reading", "respond", "reply"} /\ net' = net
        /\ UNCHANGED <<port, inbox, via, reply>> /\ pc'[q] # "forward"
        /\ pc[q] = "reply" => msg' = msg /\ pc'[q] = "done"
        /\ \A p \in Query \ {q} : msg'[p] = msg[p] /\ pc'[p] = pc[p] /\ frame'[p] = frame[p]
    BY <1>2, <2>1, Zenon DEF Receive, ReceiveUdp, AcceptTcp, ReadTcp, CloseTcp, Drop, Send, TypeOK
  <2>3. port[q] = None /\ inbox[q] = {} /\ (pc[q] # "reply" => reply[q] = None)
    BY <2>2, Waiting, Zenon
  <2>4. Only(q)
    BY <2>2, Zenon DEF Only
  <2>5. Stable
    BY <2>2, <2>4, StableOne, Zenon
  <2>6. reply'[q] # None => \/ reply'[q].of = msg'[q]
                            \/ reply'[q].by = "upstream" /\ reply'[q].of \in Told(q)'
    <3>1. CASE pc[q] = "reply"
      <4>1. Told(q) \subseteq Told(q)' /\ reply' = reply /\ msg' = msg
        BY <2>2, <2>5, <3>1, StableTold
      <4> QED
        BY <4>1, Zenon DEF OwnInv
    <3>2. CASE pc[q] # "reply"
      BY <2>2, <2>3, <3>2
    <3> QED
      BY <3>1, <3>2
  <2> QED
    BY <2>2, <2>3, <2>4, <2>5, <2>6, OwnKept, Zenon
<1>3. ASSUME NEW q \in Query, AnswerLocally(q) PROVE OwnInv'
  BY <1>3, LocalIInv, ReturnOwn, Zenon
<1>4. ASSUME NEW q \in Query, Relay(q) PROVE OwnInv'
  <2>1. PICK r \in Reply : /\ Returns(q, r, "passthrough")
                           /\ r.by = "upstream" /\ r.of \in inbox[q]
    BY <1>4, RelayReturns
  <2>2. r.of \in Told(q) /\ pc[q] = "forward" /\ "passthrough" \in Outcome
    BY <1>4, <2>1, Zenon DEF OwnInv, Outcome, Relay
  <2> QED
    BY <2>1, <2>2, ReturnOwn
<1>5. ASSUME NEW q \in Query, ForwardFails(q) \/ Timeout(q) \/ RecvFails(q) PROVE OwnInv'
  <2>1. pc[q] \in {"respond", "forward"} /\ Servfail(q) /\ net' = net
    BY <1>5 DEF ForwardFails, Forwards, Timeout, RecvFails
  <2>2. msg[q] \in Request
    BY <1>5, Zenon DEF ForwardFails, Forwards, Timeout, RecvFails, IInv, QueryInv
  <2>3. Passed(msg[q])
    BY <1>5, <2>2, ResolveKind, Zenon DEF ForwardFails, Forwards, Timeout, RecvFails, IInv, QueryInv
  <2>4. Returns(q, build(msg[q], "servfail"), "error")
    BY <2>1, <2>2, <2>3, ServfailIInv, Zenon
  <2>5. build(msg[q], "servfail") \in Reply /\ build(msg[q], "servfail").of = msg[q]
    BY <2>2, BuildReply
  <2> QED
    BY <2>4, <2>5, ReturnOwn, Zenon DEF Outcome
<1>6. ASSUME NEW q \in Query, Forward(q) PROVE OwnInv'
  BY <1>6, ForwardOwn
<1>7. ASSUME NEW d \in net, UpstreamAnswers(d) \/ Lose(d) PROVE OwnInv'
  BY <1>7, DatagramOwn, Zenon
<1>8. ASSUME NEW d \in net, NEW again \in BOOLEAN, Deliver(d, again) PROVE OwnInv'
  BY <1>8, DatagramOwn, Zenon
<1> QED
  BY <1>1, <1>2, <1>3, <1>4, <1>5, <1>6, <1>7, <1>8, Zenon DEF Next, Respond

-----------------------------------------------------------------------------
(* The theorems.                                                            *)

\* The variables of the DNS server have their types.
THEOREM DnsTypeCorrect == Spec => []TypeOK
<1>1. IInv => TypeOK
  BY DEF IInv
<1> QED
  BY <1>1, Inductive, PTL

\* Every query that is answered is counted once, under the outcome its reply
\* has, whatever the network does.
THEOREM QueriesCountedOnce == Spec => []CountedOnce
<1>1. IInv => CountedOnce
  BY DEF IInv
<1> QED
  BY <1>1, Inductive, PTL

\* Whatever the network delays, duplicates and reorders, and however soon the
\* operating system hands out a port again, a client is told about its own
\* query or about one whose task has stopped waiting on the same port, from
\* where the order of precedence says, and behind the right length.
THEOREM RepliesAlwaysTrue == Spec => []RepliesTrue
<1>1. Init => OwnInv
  BY DEF Init, OwnInv
<1>2. IInv /\ OwnInv /\ [Next]_vars => OwnInv'
  BY NextOwn
<1>3. IInv /\ OwnInv => RepliesTrue
  <2> SUFFICES ASSUME IInv, OwnInv, NEW q \in Query, reply[q] # None
               PROVE  /\ \/ reply[q].of = msg[q]
                         \/ /\ reply[q].by = "upstream"
                            /\ \E o \in Query \ {q} :
                                  /\ via[o] = via[q] /\ pc[o] \in {"reply", "done"}
                                  /\ reply[q].of = msg[o]
                      /\ Says(msg[q], reply[q].data)
                      /\ frame[q] # None /\ Header + msg[q].question + Target <= MaxTcp =>
                            frame[q] = reply[q].len
    BY Zenon DEF RepliesTrue, Says, Passed
  <2>1. CASE reply[q].of # msg[q]
    <3>1. reply[q].by = "upstream" /\ reply[q].of \in Told(q)
      BY <2>1, Zenon DEF OwnInv
    <3> QED
      BY <2>1, <3>1, Zenon DEF Told, IInv, QueryInv
  <2> QED
    BY <2>1, Zenon DEF IInv, QueryInv
<1> QED
  BY <1>1, <1>2, <1>3, Inductive, PTL DEF Spec
=============================================================================
