---------------------------- MODULE Algorithms ----------------------------
(***************************************************************************)
(* The pure functions of the proxy against what they are meant to compute, *)
(* on every input of the given sets: beside those of Policy the codecs and *)
(* the wire parsers; and the metrics registry.                             *)
(***************************************************************************)
EXTENDS Policy, Codecs, Wire, Metrics

CONSTANTS
    ByteCases,     \* sequences of bytes
    TextCases,     \* sequences of ASCII bytes
    ReplaceCases,  \* [text, needle, replacement]
    QueryCases,    \* [query, proxy, secret]
    AuthorityCases, \* authorities
    SocksCases,    \* SOCKS5 targets
    HelloCases,    \* [sid, exts, split, lie, cut]
    NameCases,     \* DNS names, as sequences of labels
    HopCases       \* [headers, websocket]

Step ==
    \/ PolicyStep
    \/ Try("bytes", ByteCases) \/ Try("text", TextCases)
    \/ Try("replace", ReplaceCases) \/ Try("query", QueryCases)
    \/ Try("authority", AuthorityCases) \/ Try("socks", SocksCases)
    \/ Try("hello", HelloCases) \/ Try("name", NameCases) \/ Try("hop", HopCases)

\* A behaviour tries inputs or emits records.  Each step is one of PolicyNext
\* and MetricsNext or leaves their variables alone.
Next ==
    \/ observed = <<>> /\ Step /\ UNCHANGED metrics_vars
    \/ input = Idle /\ MetricsNext /\ UNCHANGED input

Init == PolicyInit /\ MetricsInit

Spec == Init /\ [][Next]_<<input, metrics_vars>>

-----------------------------------------------------------------------------
(* Codecs.                                                                  *)

\* The text with each place of P, and the n - 1 bytes behind it, replaced.
Patched(text, P, n, r) ==
    FlattenSeq([i \in DOMAIN text |->
        IF i \in P THEN r
        ELSE IF \E j \in P : j < i /\ i < j + n THEN <<>> ELSE <<text[i]>>])

\* The pairs of a query: its key with "=", and its value.
Pairs(query) ==
    LET pairs == split_on(query, Amp)
        at(p) == SelectInSeq(p, LAMBDA b : b = Equal)
    IN [i \in DOMAIN pairs |->
           [key |-> SubSeq(pairs[i], 1, at(pairs[i])),
            value |-> SubSeq(pairs[i], at(pairs[i]) + 1, Len(pairs[i]))]]

\* The swap engine reaches the upstream intact: encoding is undone by
\* decoding, a Basic credential decodes to the replaced plain text, a swapped
\* query has the same pairs and keys, and its values decode to the replaced
\* ones whatever bytes the secret has; replacement takes the leftmost
\* occurrences and counts them; and a path has a dot segment exactly if one of
\* its segments spells "." or "..", escaped or not.
CodecsAgree ==
    /\ On("bytes") =>
        /\ base64_decode(base64_encode(c)) = c /\ Canonical(base64_encode(c))
        /\ percent_decode(percent_encode(c)) = c
    /\ On("text") =>
        /\ Canonical(trim(c)) <=> /\ base64_decode(c) # Invalid
                                  /\ base64_encode(base64_decode(c)) = trim(c)
        /\ LET segments == split_on(c, Slash) IN
           has_dot_segment(c) <=>
               \E i \in DOMAIN segments : \/ segments[i] \in Dot
                                          \/ \E a, b \in Dot : segments[i] = a \o b
    /\ On("replace") =>
        LET done == replace_all(c.text, c.needle, c.replacement)
            P == Replaced(c.text, c.needle)
            swapped == swap_header_value(Basic \o base64_encode(c.text), c.needle, c.replacement)
        IN /\ done = [out |-> Patched(c.text, P, Len(c.needle), c.replacement),
                      count |-> Cardinality(P)]
           /\ base64_decode(SubSeq(swapped, 7, Len(swapped))) = done.out
    /\ On("query") =>
        LET before == Pairs(c.query)
            afterwards == Pairs(swap_query(c.query, c.proxy, c.secret))
        IN /\ Len(afterwards) = Len(before)
           /\ \A i \in DOMAIN before :
                /\ afterwards[i].key = before[i].key
                /\ before[i].key = <<>> => afterwards[i] = before[i]
                /\ before[i].key # <<>> =>
                    percent_decode(afterwards[i].value) =
                        replace_all(before[i].value, c.proxy, c.secret).out

-----------------------------------------------------------------------------
(* The wire.                                                                *)

Zeros(n) == [i \in 1..n |-> 0]
Sized(s) == <<Len(s) \div 256, Len(s) % 256>> \o s

\* A ClientHello with a session id of `sid` bytes and extensions: a name for
\* server_name, <<>> for some other one.  `lie` is added to the length of the
\* extension block; with `split` the message is longer than its record.
Hello(h) ==
    LET ext(name) ==
            IF name = <<>> THEN <<0, 10>> \o Sized(<<7>>)
            ELSE <<0, 0>> \o Sized(Sized(<<0>> \o Sized(name)))
        exts == FlattenSeq([i \in DOMAIN h.exts |-> ext(h.exts[i])])
        body == Zeros(34) \o <<h.sid>> \o Zeros(h.sid) \o Sized(<<19, 1>>) \o <<1, 0>>
                    \o <<0, Len(exts) + h.lie>> \o exts
        message == <<1, 0, 0, Len(body) + h.split>> \o body
    IN <<22, 3, 1>> \o Sized(message)

\* The first name among the extensions.
NameIn(h) ==
    LET named == SelectSeq(h.exts, LAMBDA name : name # <<>>) IN
    IF named = <<>> THEN NoSni ELSE Sni(lowercase(named[1]))

\* What stands in front of a question: a query, with id 258.
DnsHeader == <<1, 2, 1, 0, 0, 1, 0, 0, 0, 0, 0, 0>>

\* Parsers that read from a socket decide on what they have: no prefix of a
\* message is taken for another message, and more bytes never change what was
\* decided (the name in a ClientHello is looked for again whenever bytes
\* arrive).  A hello that fits a record yields its first name, one that does
\* not yields none.  The two readers of authorities agree on host and port
\* wherever both accept, so the target of a CONNECT and a Host header that
\* spell it the same are the same.  After stripping, no header is left that
\* belongs to the hop or that Connection names, and stripping again changes
\* nothing.
WireAgree ==
    /\ On("authority") =>
        LET a == split_authority(c, 443)
            h == split_host_port(c)
        IN a # Nothing => /\ a.host = h.host
                          /\ a.port = IF h.port = Nothing THEN 443 ELSE h.port
    /\ On("socks") =>
        LET request == SocksRequest(c.target)
            greeting == <<Len(c.methods)>> \o c.methods
        IN /\ parse_socks5_request(request) = [c.target EXCEPT !.host =
                                                IF c.target.atyp = 3 THEN lowercase(@) ELSE @]
           /\ \A n \in 0..Len(request) - 1 :
                parse_socks5_request(SubSeq(request, 1, n)) = "malformed"
           /\ parse_socks5_methods(greeting) =
                IF Contains(c.methods, 0) THEN "noauth" ELSE "unacceptable"
           /\ \A n \in 0..Len(greeting) - 1 : parse_socks5_methods(SubSeq(greeting, 1, n)) = Nothing
    /\ On("hello") =>
        LET buf == Hello(c)
            result == scan_client_hello_sni(buf)
        IN /\ \A n \in 0..Len(buf) - 1 : scan_client_hello_sni(SubSeq(buf, 1, n)) = Incomplete
           /\ scan_client_hello_sni(buf \o buf) = result
           /\ result # Incomplete
           /\ c.split > 0 => result = NoSni
           /\ c.split = 0 /\ c.lie >= 0 => result = NameIn(c)
           /\ result \in {NoSni, NameIn(c)}
    /\ On("name") =>
        LET question == encode_name(c) \o <<0, 1, 0, 1>>
            query == DnsHeader \o question
        IN /\ parse_query(query) =
                [id |-> 258, name |-> [i \in DOMAIN c |-> lowercase(c[i])],
                 qtype |-> 1, qclass |-> 1, question_raw |-> question]
           /\ \A n \in 0..Len(query) - 1 : parse_query(SubSeq(query, 1, n)) = Nothing
    /\ On("hop") =>
        LET out == strip_hop_by_hop(c.headers, c.websocket) IN
        /\ strip_hop_by_hop(out, c.websocket) = out
        /\ \A i \in DOMAIN out :
            \/ out[i].name \notin HOP_BY_HOP \cup connection_named(c.headers)
            \/ out[i] = [name |-> "te", tokens |-> {"trailers"}]
            \/ c.websocket /\ out[i].name \in {"upgrade", "connection"}
=============================================================================
