---------------------------- MODULE MCPipeline ----------------------------
(***************************************************************************)
(* Values for the constants of Pipeline: every order of up to MaxLen of a  *)
(* set of transforms that cover the forms a configuration can take.        *)
(***************************************************************************)
EXTENDS Pipeline, FiniteSets

CONSTANTS api, other, auth, id, tok, cred, MaxLen

MCHost == {api, other}
MCHeader == {auth, id}

OnApi == [hosts |-> {api}, literal |-> FALSE]
OnTokenPath == [hosts |-> {api}, literal |-> TRUE]
\* A list; its names outside Header are left out.
Listed(names) == [form |-> "list", names |-> names]
NoList(form) == [form |-> form, names |-> {}]

Sec(headers, path, body, require, rules) ==
    [token |-> tok, value |-> cred, headers |-> headers, query |-> path, path |-> path,
     body |-> body, require |-> require, rules |-> rules]

Allow == [name |-> "allowlist", hosts |-> {api}, warn |-> FALSE]
AllowWarn == [name |-> "allowlist", hosts |-> {}, warn |-> TRUE]
NoteAuth == [name |-> "annotate", rules |-> OnApi, headers |-> {auth}]
NoteId == [name |-> "annotate", rules |-> OnApi, headers |-> {id}]
Filter == [name |-> "header_allowlist", rules |-> OnApi, all |-> TRUE, headers |-> {auth}]
FilterApi == [name |-> "header_allowlist", rules |-> OnApi, all |-> FALSE, headers |-> {id}]
Capture == [name |-> "body_capture", rules |-> OnApi]
\* The token in one header; in the path, where the first swap takes it away
\* from the rules of the second; in the body and any header, and required.
InHeader == [name |-> "secrets",
             secrets |-> <<Sec(Listed({auth}), FALSE, FALSE, FALSE, OnApi)>>]
InPath == [name |-> "secrets",
           secrets |-> <<Sec(Listed({}), TRUE, FALSE, FALSE, OnTokenPath),
                         Sec(Listed({auth}), FALSE, TRUE, TRUE, OnTokenPath)>>]
InBody == [name |-> "secrets",
           secrets |-> <<Sec(NoList("absent"), FALSE, TRUE, TRUE, OnApi)>>]

Transforms == {Allow, AllowWarn, NoteAuth, NoteId, Filter, FilterApi, Capture,
               InHeader, InPath, InBody}

\* Lists without repetition.
MCConfigs ==
    UNION {{f \in [1..n -> Transforms] : \A i, j \in 1..n : f[i] = f[j] => i = j}
           : n \in 1..MaxLen}
CaptureTwice == {<<Allow, Capture, InBody, Capture>>}

\* The token in one place, in all places, or nowhere.
Placed(h, over, places) ==
    LET in(x) == IF x \in places THEN {tok} ELSE {} IN
    [host |-> h, headers |-> [n \in MCHeader |-> in(n)], query |-> in("query"),
     path |-> in("path"), body |-> in("body"), overCap |-> over]
Places == {{auth}, {id, "body"}, {"path", "query"}, {auth, id, "query", "path", "body"}, {}}
MCRequests == {Placed(h, over, places) : h \in MCHost, over \in BOOLEAN, places \in Places}
=============================================================================
