------------------------- MODULE MCRequestHandler -------------------------
(***************************************************************************)
(* Values for the constants of RequestHandler.  Two runtimes disagree on   *)
(* everything: what they let through, what their guards deny, how large a  *)
(* body they buffer, what their response pipelines do.                     *)
(***************************************************************************)
EXTENDS RequestHandler

CONSTANTS open, strict,   \* runtimes
          api, other,     \* host names
          ip1, ip2        \* addresses; ip1 is also used as an IP-literal host

MCConfig == {open, strict}
MCHost == {api, other, ip1}
MCAddr == {ip1, ip2}

\* `open` lets everything through but errors on an over-cap body for `other`
\* and stubs `ip1`; `strict` allows `api` only, and only with a body within
\* the cap.
MCVerdict ==
    [c \in MCConfig |-> [h \in MCHost |-> [over \in BOOLEAN |->
        IF c = open
        THEN CASE h = other /\ over -> "error"
               [] h = ip1 /\ over -> "stub"
               [] OTHER -> "continue"
        ELSE IF h = api /\ ~over THEN "continue" ELSE "reject"]]]

MCDeny == [c \in MCConfig |-> IF c = open THEN {} ELSE {ip2}]
MCCap == [c \in MCConfig |-> IF c = open THEN 2 ELSE 1]

\* Names resolve to nothing (or an error), to one address or to two in either
\* order, and each time anew.
MCAnswers == [h \in MCHost |-> {<<>>, <<ip1>>, <<ip1, ip2>>, <<ip2, ip1>>}]

Failing == [c \in MCConfig |-> IF c = open THEN "continue" ELSE "error"]

Plain == [forced |-> Absent, sni |-> Absent, https |-> FALSE]
Https == [forced |-> Absent, sni |-> api, https |-> TRUE]
Tunnel == [forced |-> other, sni |-> Absent, https |-> FALSE]
TlsTunnel == [forced |-> api, sni |-> api, https |-> TRUE]
AllLegs == {Plain, Https, Tunnel, TlsTunnel}

\* Every head: with and without Host, with and without an authority.
AllHeads == RequestHead
=============================================================================
