--------------------------- MODULE MCAlgorithms ---------------------------
(***************************************************************************)
(* Inputs for the functions of Algorithms: all short texts over the        *)
(* characters each function tells apart, and addresses of three and five   *)
(* bits, IPv4-mapped if the two leading ones are 10.                       *)
(***************************************************************************)
EXTENDS Algorithms

MCChar == {"a", "A", "b", ".", "*", "/", "-", "5", "m"}

Texts(chars, n) == UNION {[1..k -> chars] : k \in 0..n}

MCGlob == [pattern : Texts({"a", "A", ".", "*"}, 4), host : Texts({"a", "b", "."}, 4)]

MCCidr == [net : Address, prefix : 0..Width6 + 1, ip : Address]

MCPath == [pattern : Texts({"a", "/", "*"}, 4), path : Texts({"a", "/"}, 4)]

Names == Texts({"a", "A", "-"}, 3)
MCHeader == [entry : Names \cup {<<"/", "A", "/">>, <<"/", ".", "a", "/">>}, name : Names]

Clauses ==
    {[slash |-> TRUE, net |-> [v |-> 4, bits |-> 4], prefix |-> 2],
     [slash |-> FALSE, pattern |-> <<"*", ".", "a">>]}
Rules == [host : Clauses, methods : {Err, {"GET"}}, paths : {Err, {<<"/", "*">>, <<"a">>}}]
RuleHosts == {[name |-> <<"b", ".", "a">>, ip |-> Err], [name |-> <<"b", "a">>, ip |-> Err],
              [name |-> <<"5">>, ip |-> [v |-> 4, bits |-> 5]],
              [name |-> <<"m">>, ip |-> [v |-> 6, bits |-> 21]]}
MCRule == [rules : {R \in SUBSET Rules : Cardinality(R) <= 2}, host : RuleHosts,
           method : {"GET", "PUT"}, path : {<<"/", "b">>, <<"a">>, <<"b">>}]

\* Bytes that are unreserved, reserved in a query, escapes, and the extremes.
MCBytes == Texts({0, 46, 37, 255}, 4)

\* Tokens of paths; and base64, with padding where it may and may not be.
PathTokens == {<<46>>, <<37, 50, 101>>, <<37, 50, 69>>, <<37>>, <<37, 43>>, <<47>>, <<97>>}
Groups == {<<65, 65, 65, 65>>, <<65, 65, 61, 61>>, <<66, 66, 61, 61>>, <<65, 65, 65, 61>>,
           <<65, 65, 61, 65>>, <<65, 61, 61, 61>>, <<97, 48, 43, 47>>}
MCText ==
    {FlattenSeq(s) : s \in Texts(PathTokens, 4)} \cup Texts({65, 47, 61, 45}, 4)
    \cup {g \o h : g \in Groups, h \in Groups} \cup {<<32>> \o g \o <<32>> : g \in Groups}

MCReplace == [text : Texts({97, 98}, 5), needle : Texts({97, 98}, 3),
              replacement : {<<>>, <<97>>, <<98, 97>>}]

\* A token, and secrets that would break the query unless encoded.
MCQuery == [query : Texts({97, 98, 61, 38}, 5), proxy : {<<97>>, <<97, 98>>},
            secret : {<<>>, <<38, 61>>, <<37, 97>>, <<97>>, <<43, 200>>}]

MCAuthority == Texts({91, 93, 58, 97, 65, 56}, 5)

MCSocks ==
    [target : [atyp : {1}, host : {<<10, 0, 0, 1>>}, port : {0, 443, 65535}]
              \cup [atyp : {3}, host : Texts({97, 65, 46}, 2), port : {443}]
              \cup [atyp : {4}, host : {[i \in 1..16 |-> i]}, port : {443}],
     methods : Texts({0, 2}, 3)]

MCHello == [sid : {0, 1, 32}, exts : Texts({<<>>, <<65>>, <<97, 98>>}, 3),
            split : {0, 1, 9}, lie : -2..2]

MCName == UNION {[1..k -> {<<97>>, <<65, 98>>, [i \in 1..63 |-> 97]}] : k \in 0..2}

Headers == [name : {"connection"}, tokens : SUBSET {"close", "x-a", "te"}]
           \cup [name : {"te"}, tokens : SUBSET {"trailers", "gzip"}]
           \cup [name : {"upgrade", "keep-alive", "x-a", "x-b"}, tokens : {{}}]
MCHop == [headers : Texts(Headers, 3), websocket : BOOLEAN]

MCBuckets == <<1, 3>>
Trace(name, verdict, swapped, unavailable) ==
    [name |-> name, verdict |-> verdict, swapped |-> swapped, unavailable |-> unavailable]
Passed == Trace("secrets", "continue", 2, 1)
Refused(name) == Trace(name, "reject", 0, 1)
MCRecord ==
    [mode : {"http"}, action : {"allow"}, rejected_by : {""}, duration : {0, 3, 4},
     request_transforms : {<<>>, <<Passed, Passed>>}]
    \cup UNION {[mode : {"http", "tunnel"}, action : {"reject"}, rejected_by : {name},
                 duration : {1},
                 request_transforms : {<<Refused(name)>>, <<Passed, Refused(name)>>}] :
                    name \in {"secrets", "annotate"}}

-----------------------------------------------------------------------------
(* Configurations.  A section is absent, set to nothing, or has some keys.  *)

Str(v) == [kind |-> "text", val |-> v]
Bool(v) == [kind |-> "bool", val |-> v]
Number(v) == [kind |-> "int", val |-> v]

MCKey == {path[2] : path \in Path} \cup {"unknown"}
MCWord == {"v4", "v6", "h", "e", "t", "c", "k", "m"}

\* Trees of the sections of f that f does not map to Absent.
Pruned(f) == [s \in {t \in DOMAIN f : f[t] # Absent} |-> f[s]]

Sections(section) ==
    CASE section = "dns" -> {Absent, Null, [enabled |-> Bool(FALSE)], [proxy_ip |-> Str("v4")]}
      [] section = "proxy" -> {Absent, [tunnel_listen |-> Str("t")]}
      [] section = "tls" -> {Absent, Null, [ca_cert |-> Str("c"), ca_key |-> Str("k")]}
      [] OTHER -> {Absent, [listen |-> Str("m")]}

Trees == {Pruned([dns |-> d, proxy |-> p, tls |-> t, management |-> m]) :
              d \in Sections("dns"), p \in Sections("proxy"), t \in Sections("tls"),
              m \in Sections("management")}
         \cup {[otlp |-> [sample_ratio |-> Number(1)]]}

Overrides(path) ==
    CASE path = <<"dns", "enabled">> -> {Bool(TRUE), Bool(FALSE)}
      [] path = <<"dns", "proxy_ip">> -> {Str("v4"), Str("v6")}
      [] path = <<"proxy", "https_listen">> -> {Str("h"), Number(443)}
      [] path = <<"otlp", "sample_ratio">> -> {Number(1), Number(2)}
      [] OTHER -> {Str("e")}

\* At most two variables are set.
Envs == UNION {{e \in [P -> UNION {Overrides(p) : p \in P}] : \A p \in P : e[p] \in Overrides(p)} :
                   P \in {Q \in SUBSET Path : Cardinality(Q) <= 2}}

Plain == [timeout |-> Absent, records |-> {"A"}, deny |-> Absent, format |-> "json",
          builds |-> TRUE, transforms |-> {}, passthrough |-> {}]
Odd == {[Plain EXCEPT !.timeout = Err], [Plain EXCEPT !.records = {"TXT"}],
        [Plain EXCEPT !.deny = Err], [Plain EXCEPT !.format = "xml"],
        [Plain EXCEPT !.builds = FALSE]}

\* Patterns that compile.
Patterns == {p \in Texts({"a", "b", ".", "*"}, 4) : parse_glob(p) # Err}
Policies == {[Plain EXCEPT !.passthrough = {d},
                           !.transforms = {[name |-> n, hosts |-> {[slash |-> FALSE, pattern |-> r]}]}] :
                 d \in Patterns, r \in Patterns, n \in {"secrets", "allowlist"}}

MCLoad == [tree : Trees, lists : {Plain}, env : Envs, key : {"", "secret"}]
          \cup [tree : {<<>>}, lists : Odd \cup Policies, env : {<<>>}, key : {""}]

MCHostSpace == Texts({"a", "b", "."}, 4)
=============================================================================
