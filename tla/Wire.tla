------------------------------- MODULE Wire -------------------------------
(***************************************************************************)
(* What the proxy reads off the wire itself: authorities (http.rs          *)
(* `split_host_port`, tunnel.rs `split_authority`), SOCKS5 greetings and   *)
(* requests, the server name in a TLS ClientHello (tunnel.rs), the         *)
(* question of a DNS query (wire.rs) and hop-by-hop headers (hop.rs).      *)
(* Bytes are numbers below 256 and text is ASCII, without the space a      *)
(* Host header is trimmed of.                                              *)
(***************************************************************************)
EXTENDS Integers, Sequences, FiniteSets, SequencesExt

CONSTANT Nothing   \* a Rust None

lowercase(s) == [i \in DOMAIN s |-> IF s[i] \in 65..90 THEN s[i] + 32 ELSE s[i]]

\* Bytes are counted from 0 here, as in the code.
byte(s, i) == s[i + 1]
u16(s, i) == 256 * byte(s, i) + byte(s, i + 1)
\* slice::get of a range
get(s, from, to) == IF to <= Len(s) THEN SubSeq(s, from + 1, to) ELSE Nothing
has(s, i) == i < Len(s)

-----------------------------------------------------------------------------
(* Authorities.                                                             *)

Colon == 58
Open == 91
Close == 93
Digit == 48..57

\* u16::from_str: digits after an optional sign, no overflow.
parse_u16(s) ==
    LET digits == IF s # <<>> /\ s[1] = 43 THEN Tail(s) ELSE s
        value == FoldLeft(LAMBDA n, c : 10 * n + c - 48, 0, digits)
    IN IF digits # <<>> /\ (\A i \in DOMAIN digits : digits[i] \in Digit) /\ value < 65536
       THEN value ELSE Nothing

after(s, i) == SubSeq(s, i + 1, Len(s))
places(s, x) == {i \in DOMAIN s : s[i] = x}

\* split_host_port, of a Host header or an :authority: never fails, and drops
\* a port it cannot read.  An open bracket that is not closed is no bracket.
split_host_port(s) ==
    IF IsPrefix(<<Open>>, s) /\ places(s, Close) # {}
    THEN LET end == Min(places(s, Close))
             tail == after(s, end)
         IN [host |-> lowercase(SubSeq(s, 2, end - 1)),
             port |-> IF IsPrefix(<<Colon>>, tail) THEN parse_u16(Tail(tail)) ELSE Nothing]
    ELSE IF Cardinality(places(s, Colon)) = 1
    THEN LET colon == Max(places(s, Colon)) IN
         [host |-> lowercase(SubSeq(s, 1, colon - 1)), port |-> parse_u16(after(s, colon))]
    ELSE [host |-> lowercase(s), port |-> Nothing]

\* split_authority, of a CONNECT target: fails on a bracket that is not closed
\* and on a port it cannot read.
split_authority(s, default_port) ==
    LET bracket == IsPrefix(<<Open>>, s)
        end == IF bracket THEN Min(places(s, Close)) ELSE Max(places(s, Colon)) - 1
        ported == IF bracket THEN IsPrefix(<<Colon>>, after(s, end))
                  ELSE Cardinality(places(s, Colon)) = 1
        port == IF ported THEN parse_u16(after(s, end + 1)) ELSE default_port
        host == IF bracket THEN SubSeq(s, 2, end - 1)
                ELSE IF ported THEN SubSeq(s, 1, end) ELSE s
    IN IF (bracket /\ places(s, Close) = {}) \/ port = Nothing THEN Nothing
       ELSE [host |-> lowercase(host), port |-> port]

-----------------------------------------------------------------------------
(* SOCKS5.                                                                  *)

\* parse_socks5_methods: after the version byte.
parse_socks5_methods(rest) ==
    IF ~has(rest, 0) \/ get(rest, 1, 1 + byte(rest, 0)) = Nothing THEN Nothing
    ELSE IF Contains(get(rest, 1, 1 + byte(rest, 0)), 0) THEN "noauth" ELSE "unacceptable"

\* parse_socks5_request; an address is its type and its bytes.
parse_socks5_request(req) ==
    LET atyp == byte(req, 3)
        end == CASE atyp = 1 -> 8 [] atyp = 4 -> 20 [] OTHER -> 5 + byte(req, 4)
        host == get(req, IF atyp = 3 THEN 5 ELSE 4, end)
    IN IF Len(req) < 4 \/ byte(req, 0) # 5 THEN "malformed"
       ELSE IF byte(req, 1) # 1 THEN "command"
       ELSE IF atyp \notin {1, 3, 4} THEN "address"
       ELSE IF \/ atyp = 3 /\ ~has(req, 4)
               \/ host = Nothing
               \/ get(req, end, end + 2) = Nothing THEN "malformed"
       ELSE [atyp |-> atyp, host |-> IF atyp = 3 THEN lowercase(host) ELSE host,
             port |-> u16(req, end)]

\* RFC 1928: the request for a target.
SocksRequest(target) ==
    <<5, 1, 0, target.atyp>>
        \o (IF target.atyp = 3 THEN <<Len(target.host)>> ELSE <<>>) \o target.host
        \o <<target.port \div 256, target.port % 256>>

-----------------------------------------------------------------------------
(* The server name of a ClientHello.                                        *)

Incomplete == [scan |-> "incomplete"]
NoSni == [scan |-> "nosni"]
NotTls == [scan |-> "nottls"]
Sni(name) == [scan |-> "sni", name |-> name]

\* The name in a server_name extension.
server_name(ext) ==
    IF Len(ext) < 5 \/ byte(ext, 2) # 0 \/ get(ext, 5, 5 + u16(ext, 3)) = Nothing THEN NoSni
    ELSE Sni(lowercase(get(ext, 5, 5 + u16(ext, 3))))

\* The extensions of a hello from i on; ext_end is what the block claims.
extensions(body, start, ext_end) ==
    LET from[i \in start..Len(body) + 1] ==
            IF i + 4 > Min({ext_end, Len(body)}) THEN NoSni
            ELSE LET ext == get(body, i + 4, i + 4 + u16(body, i + 2)) IN
                 IF ext = Nothing THEN NoSni
                 ELSE IF u16(body, i) = 0 THEN server_name(ext)
                 ELSE from[i + 4 + Len(ext)]
    IN from[start]

\* The fields before the extensions, each skipped by its length.
hello(body) ==
    LET suites == 35 + byte(body, 34)
        methods == suites + 2 + u16(body, suites)
        exts == methods + 1 + byte(body, methods)
    IN IF ~has(body, 34) \/ ~has(body, suites + 1) \/ ~has(body, methods) THEN NotTls
       ELSE IF ~has(body, exts + 1) THEN NoSni
       ELSE extensions(body, exts + 2, exts + 2 + u16(body, exts))

\* The handshake message; one that goes on in a later record is given up.
handshake(record) ==
    LET hs_len == 65536 * byte(record, 1) + u16(record, 2) IN
    IF Len(record) < 4 \/ byte(record, 0) # 1 THEN NotTls
    ELSE IF Len(record) - 4 < hs_len THEN NoSni
    ELSE hello(get(record, 4, 4 + hs_len))

\* Fault: what has arrived of the record is scanned.
scan_eager(buf) ==
    IF Len(buf) < 9 THEN Incomplete
    ELSE IF byte(buf, 0) # 22 THEN NotTls
    ELSE handshake(get(buf, 5, Len(buf)))

scan_client_hello_sni(buf) ==
    IF Len(buf) < 5 THEN Incomplete
    ELSE IF byte(buf, 0) # 22 THEN NotTls
    ELSE IF get(buf, 5, 5 + u16(buf, 3)) = Nothing THEN Incomplete
    ELSE handshake(get(buf, 5, 5 + u16(buf, 3)))

-----------------------------------------------------------------------------
(* The question of a DNS query.                                             *)

\* The labels of QNAME, then its end; Nothing on a label that is cut short or
\* a compression pointer.
labels(msg) ==
    LET from[i \in 12..Len(msg)] ==
            IF ~has(msg, i) \/ byte(msg, i) >= 64 THEN Nothing
            ELSE IF byte(msg, i) = 0 THEN [names |-> <<>>, end |-> i + 1]
            ELSE IF ~has(msg, i + byte(msg, i)) THEN Nothing
            ELSE LET rest == from[i + 1 + byte(msg, i)] IN
                 IF rest = Nothing THEN Nothing
                 ELSE [names |-> <<get(msg, i + 1, i + 1 + byte(msg, i))>> \o rest.names,
                       end |-> rest.end]
    IN from[12]

\* parse_query: a query, not a response, with a question that is all there.
parse_query(msg) ==
    IF Len(msg) < 12 \/ byte(msg, 2) >= 128 \/ u16(msg, 4) < 1 THEN Nothing
    ELSE LET q == labels(msg) IN
         IF q = Nothing \/ ~has(msg, q.end + 3) THEN Nothing
         ELSE [id |-> u16(msg, 0),
               name |-> [i \in DOMAIN q.names |-> lowercase(q.names[i])],
               qtype |-> u16(msg, q.end), qclass |-> u16(msg, q.end + 2),
               question_raw |-> get(msg, 12, q.end + 4)]

\* encode_name; the length of a label is cast to a byte.
encode_name(names) ==
    FlattenSeq([i \in DOMAIN names |->
        IF names[i] = <<>> THEN <<>> ELSE <<Len(names[i]) % 256>> \o names[i]]) \o <<0>>

-----------------------------------------------------------------------------
(* Hop-by-hop headers.  A header is its name and the tokens of its value,   *)
(* both in lower case.                                                      *)

HOP_BY_HOP == {"connection", "proxy-connection", "keep-alive", "proxy-authenticate",
               "proxy-authorization", "te", "trailer", "transfer-encoding", "upgrade"}

connection_named(headers) ==
    UNION {headers[i].tokens : i \in {j \in DOMAIN headers : headers[j].name = "connection"}}

strip_hop_by_hop(headers, websocket) ==
    LET kept(h) ==
            CASE h.name = "te" -> "trailers" \in h.tokens
              [] websocket /\ h.name \in {"upgrade", "connection"} -> TRUE
              [] OTHER -> h.name \notin HOP_BY_HOP \cup connection_named(headers)
        rewritten(h) == IF h.name = "te" THEN [h EXCEPT !.tokens = {"trailers"}] ELSE h
        chosen == SelectSeq(headers, kept)
    IN [i \in DOMAIN chosen |-> rewritten(chosen[i])]
=============================================================================
