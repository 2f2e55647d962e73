-------------------------- MODULE EgressBoundary --------------------------
(***************************************************************************)
(* What hematite promises about one request, whatever the code in between  *)
(* does: the request is judged by the one configuration that was installed *)
(* when it was accepted; the network is contacted on its behalf only if    *)
(* that configuration lets its host through, and only at addresses the     *)
(* same configuration does not deny; it ends with exactly one audit        *)
(* record; nothing is contacted once it has ended; and a record that says  *)
(* "allow" is about a request for which the network was contacted.         *)
(*                                                                         *)
(* RequestHandler.tla implements this specification.                       *)
(***************************************************************************)
EXTENDS Sequences

CONSTANTS
    Request,    \* requests
    Config,     \* configurations
    Host,       \* host names and IP literals
    Addr,       \* addresses that can be dialled
    Permits,    \* Permits[c]: the hosts whose requests c may let through
    Deny,       \* Deny[c]: the addresses that c forbids to dial
    None        \* no configuration, no host

VARIABLES
    installed,  \* the configuration new requests are judged by
    phase,      \* phase[r]: "idle", "open" or "settled"
    judge,      \* judge[r]: the configuration r was accepted under
    dest,       \* dest[r]: the host r is for
    contacted,  \* contacted[r]: the addresses dialled for r
    records     \* records[r]: the actions of the audit records about r

vars == <<installed, phase, judge, dest, contacted, records>>

Actions == {"allow", "reject", "stub", "error", "client_cancel"}

Init ==
    /\ installed \in Config
    /\ phase = [r \in Request |-> "idle"]
    /\ judge = [r \in Request |-> None]
    /\ dest = [r \in Request |-> None]
    /\ contacted = [r \in Request |-> {}]
    /\ records = [r \in Request |-> <<>>]

\* Another configuration takes over for the requests still to come.
Install(c) ==
    /\ installed' = c
    /\ UNCHANGED <<phase, judge, dest, contacted, records>>

Accept(r, h) ==
    /\ phase[r] = "idle"
    /\ phase' = [phase EXCEPT ![r] = "open"]
    /\ judge' = [judge EXCEPT ![r] = installed]
    /\ dest' = [dest EXCEPT ![r] = h]
    /\ UNCHANGED <<installed, contacted, records>>

\* A malformed request is accepted and settled at once.
Refuse(r, h) ==
    /\ phase[r] = "idle"
    /\ phase' = [phase EXCEPT ![r] = "settled"]
    /\ judge' = [judge EXCEPT ![r] = installed]
    /\ dest' = [dest EXCEPT ![r] = h]
    /\ records' = [records EXCEPT ![r] = <<"reject">>]
    /\ UNCHANGED <<installed, contacted>>

Contact(r, a) ==
    /\ phase[r] = "open"
    /\ dest[r] \in Permits[judge[r]]
    /\ a \notin Deny[judge[r]]
    /\ contacted' = [contacted EXCEPT ![r] = @ \cup {a}]
    /\ UNCHANGED <<installed, phase, judge, dest, records>>

Settle(r, action) ==
    /\ phase[r] = "open"
    /\ action = "allow" => contacted[r] # {}
    /\ phase' = [phase EXCEPT ![r] = "settled"]
    /\ records' = [records EXCEPT ![r] = <<action>>]
    /\ UNCHANGED <<installed, judge, dest, contacted>>

Next ==
    \/ \E c \in Config : Install(c)
    \/ \E r \in Request, h \in Host \cup {None} : Accept(r, h) \/ Refuse(r, h)
    \/ \E r \in Request, a \in Addr : Contact(r, a)
    \/ \E r \in Request, action \in Actions : Settle(r, action)

Spec == Init /\ [][Next]_vars
=============================================================================
