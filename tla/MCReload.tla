----------------------------- MODULE MCReload -----------------------------
(***************************************************************************)
(* Values for the constants of Reload: two configurations that ConfigLoad  *)
(* accepts, and one for each way to be refused.                            *)
(***************************************************************************)
EXTENDS Reload, TLC

CONSTANTS old, broken, moved, overlapping, err, null

MCConfig == {old, broken, moved, overlapping}

L == INSTANCE ConfigLoad WITH
    Char <- STRING, Key <- STRING, Word <- STRING, Err <- err, Null <- null,
    Width4 <- 3, Width6 <- 5, Mapped <- 2

Text(v) == [kind |-> "text", val |-> v]

\* The sections and lists of each file.  Only `moved` has no tunnel listener;
\* `broken` has one and no CA.
Tree(c) ==
    LET management == [listen |-> Text("m")]
        tls == [ca_cert |-> Text("c"), ca_key |-> Text("k")]
        proxy == [tunnel_listen |-> Text("t")]
    IN CASE c = moved -> [management |-> management]
         [] c = broken -> [management |-> management, proxy |-> proxy]
         [] OTHER -> [management |-> management, proxy |-> proxy, tls |-> tls]

Lists(c) ==
    [timeout |-> Absent, records |-> {}, deny |-> Absent, format |-> "json", builds |-> TRUE,
     transforms |-> IF c = old THEN {}
                    ELSE {[name |-> "secrets",
                           hosts |-> {[slash |-> FALSE, pattern |-> <<"*", ".", "a">>]}]},
     passthrough |-> IF c = overlapping THEN {<<"b", ".", "a">>} ELSE {<<"b">>}]

Loaded(c) == L!load_str(Tree(c), Lists(c), <<>>, "key")

MCLoads == {old, moved, overlapping}
MCCompiles == {old, moved}
MCMitm == {old, overlapping}
MCListen ==
    [c \in MCConfig |->
        [http |-> "default", https |-> Absent, tunnel |-> IF c = moved THEN Absent ELSE "t",
         dns |-> Absent, management |-> "m"]]

\* That is what ConfigLoad makes of the files.
ASSUME MCConfigsAssumption ==
    /\ MCLoads = {c \in MCConfig : Loaded(c) # err}
    /\ MCCompiles = {c \in MCLoads : L!compiles(Loaded(c))}
    /\ MCMitm = {c \in MCLoads : L!mitm(Loaded(c))}
    /\ \A c \in MCLoads : MCListen[c] = Loaded(c).listen
=============================================================================
