----------------------------- MODULE MCTunnel -----------------------------
(***************************************************************************)
(* Values for the constants of Tunnel: two runtimes that disagree about    *)
(* everything, so that a reload in the middle of a connection matters.     *)
(***************************************************************************)
EXTENDS Tunnel

CONSTANTS one, two, api, raw, ip1, ip2

MCConfig == {one, two}
MCHost == {api, raw}
MCAddr == {ip1, ip2}
\* one: api is bumped, raw spliced; two: api is spliced, raw is rejected.
MCVerdict == [c \in MCConfig |-> [h \in MCHost |->
    IF c = two /\ h = raw THEN "reject" ELSE "continue"]]
MCPassthrough == [c \in MCConfig |-> IF c = one THEN {raw} ELSE {api, raw}]
MCDeny == [c \in MCConfig |-> IF c = one THEN {ip2} ELSE {ip1}]
MCAnswers == [h \in MCHost |-> {<<>>, <<ip1, ip2>>, <<ip2>>}]
MCHasTls == {one}
=============================================================================
