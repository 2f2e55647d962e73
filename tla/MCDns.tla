------------------------------- MODULE MCDns -------------------------------
(***************************************************************************)
(* Values for the constants of Dns.  All clients use the same id.  Next to *)
(* ordinary questions there are the largest one that leaves room for an    *)
(* answer, one that does not, and two messages one byte above the buffer,  *)
(* of which one is cut in its question and the other behind it.            *)
(***************************************************************************)
EXTENDS Dns

CONSTANTS fixed, alias, corp, app   \* names

MCName == {fixed, alias, corp, app}
\* corp has no record; fixed is a passthrough name as well, and has one.
MCRecord == [n \in MCName |-> CASE n = fixed -> "A" [] n = alias -> "CNAME" [] OTHER -> None]
MCPassthrough == {corp, fixed}

Ask(n, t, len, more) ==
    [id |-> 7, name |-> n, qtype |-> t, question |-> len, rest |-> more]
MCMessage ==
    {Ask(corp, t, 21, 0) : t \in {"A", "AAAA"}} \cup
    {Ask(fixed, "AAAA", 21, 0), Ask(alias, "A", 21, 0), Ask(app, "CNAME", 21, 0), Malformed,
     Ask(app, "A", 65503, 0), Ask(app, "A", 65508, 0), Ask(app, "A", 4085, 0),
     Ask(corp, "A", 21, 4064), Ask(corp, "A", 65508, 0)}

\* Two queries for passthrough names.
Forwarded == {Ask(corp, t, 21, 0) : t \in {"A", "AAAA"}}
=============================================================================
