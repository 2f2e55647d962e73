------------------------------ MODULE Reload ------------------------------
(***************************************************************************)
(* The life of the process around its configuration: start-up (main.rs)    *)
(* and reloading (management.rs `serve_management` and `reload`), with the *)
(* parts of config.rs that read files and state.rs `SharedState`.          *)
(*                                                                         *)
(* Every authorised POST /v1/reload is a task of its own on a              *)
(* multi-threaded runtime, so two of them interleave between any two file  *)
(* reads, with each other and with the operator who rewrites the files.    *)
(* What a configuration file says is a constant function of its contents,  *)
(* which ConfigLoad defines.                                               *)
(***************************************************************************)
EXTENDS Naturals, Sequences, FiniteSets

CONSTANTS
    Call,        \* POST /v1/reload requests
    Config,      \* contents the configuration file can have
    Loads,       \* the contents load_str accepts
    Listen,      \* Listen[c]: ListenKeys, the address c asks for or Absent
    Compiles,    \* the contents build_runtime compiles, files aside
    Mitm,        \* the contents with an HTTPS or tunnel listener: a CA is read
    Ca,          \* generations of the CA, one certificate and one key each
    Unreadable,  \* a file that is missing, or no PEM
    Absent       \* no value (a Rust None)

ASSUME ReloadAssumption ==
    /\ Loads \subseteq Config /\ Compiles \subseteq Config /\ Mitm \subseteq Config
    /\ \A c \in Loads : c \in Mitm <=> Listen[c]["https"] # Absent \/ Listen[c]["tunnel"] # Absent
    /\ Unreadable \notin Config \cup Ca
    /\ Absent \notin Config \cup Ca \cup Call
    /\ IsFiniteSet(Call)

VARIABLES
    config_file, cert_file, key_file,   \* the files on disk
    installed,   \* SharedState: the runtime in force, or what main has read of it
    listening,   \* the listener addresses of the start (current_listen)
    phase,       \* how far main is: loading, the listener to bind next, serving
    bound,       \* the listeners that were bound
    pc,          \* pc[k]: where the reload task of call k is
    got,         \* got[k]: the runtime k has read so far
    status,      \* status[k]: the status k ended with, 0 before
    current,     \* history: current[k], no file was written since k began
    swaps,       \* history: the calls that installed a runtime, in order
    counted      \* hematite_config_reloads_total, by result

files == <<config_file, cert_file, key_file>>
history == <<current, swaps>>
process == <<phase, bound, listening>>
vars == <<files, installed, process, pc, got, status, history, counted>>

\* The listeners in the order main binds them.
Listeners == <<"http", "https", "tunnel", "dns", "management">>
Loading == 0
Serving == Len(Listeners) + 1
Exited == Serving + 1

Runtime == [config : Config, cert : Ca \cup {Absent}, key : Ca \cup {Absent}]
Nothing == [config |-> Absent, cert |-> Absent, key |-> Absent]
PC == {"idle", "read", "cert", "key", "swap", "count", "done"}
Status == {0, 200, 401, 422, 500}   \* 0: no answer yet

TypeOK ==
    /\ config_file \in Config \cup {Unreadable}
    /\ cert_file \in Ca \cup {Unreadable}
    /\ key_file \in Ca \cup {Unreadable}
    /\ installed \in Runtime \cup {Nothing}
    /\ phase \in Loading..Exited
    /\ listening \in {Listen[c] : c \in Config} \cup {Absent}
    /\ bound \subseteq {Listeners[i] : i \in DOMAIN Listeners}
    /\ pc \in [Call -> PC]
    /\ got \in [Call -> Runtime \cup {Nothing}]
    /\ status \in [Call -> Status]
    /\ current \in [Call -> BOOLEAN]
    /\ swaps \in Seq(Call)
    /\ counted \in [ok : Nat, error : Nat]

\* The runtime the files describe.
OnDisk == [config |-> config_file,
           cert |-> IF config_file \in Mitm THEN cert_file ELSE Absent,
           key |-> IF config_file \in Mitm THEN key_file ELSE Absent]

\* The files are as somebody left them.
Init ==
    /\ config_file \in Config \cup {Unreadable}
    /\ cert_file \in Ca \cup {Unreadable}
    /\ key_file \in Ca \cup {Unreadable}
    /\ installed = Nothing
    /\ listening = Absent
    /\ phase = Loading
    /\ bound = {}
    /\ pc = [k \in Call |-> "idle"]
    /\ got = [k \in Call |-> Nothing]
    /\ status = [k \in Call |-> 0]
    /\ current = [k \in Call |-> TRUE]
    /\ swaps = <<>>
    /\ counted = [ok |-> 0, error |-> 0]

-----------------------------------------------------------------------------
(* The environment.                                                         *)

\* The operator rewrites a file.
Write ==
    /\ phase # Exited
    /\ \/ /\ config_file' \in (Config \cup {Unreadable}) \ {config_file}
          /\ UNCHANGED <<cert_file, key_file>>
       \/ /\ cert_file' \in (Ca \cup {Unreadable}) \ {cert_file}
          /\ UNCHANGED <<config_file, key_file>>
       \/ /\ key_file' \in (Ca \cup {Unreadable}) \ {key_file}
          /\ UNCHANGED <<config_file, cert_file>>
    /\ current' = [k \in Call |-> pc[k] = "idle"]
    /\ UNCHANGED <<installed, process, pc, got, status, swaps, counted>>

Running(k) == pc[k] \notin {"idle", "done"}

\* Fault: the reload is part of the request's own future.
DisconnectDrops(k) ==
    /\ Running(k)
    /\ pc' = [pc EXCEPT ![k] = "dropped"]
    /\ UNCHANGED <<files, installed, process, got, status, history, counted>>

\* The client goes away: its connection's future is dropped, which holds
\* nothing but the handle of the task.
Disconnect(k) == Running(k) /\ UNCHANGED vars

-----------------------------------------------------------------------------
(* Start-up.                                                                *)

StartFails ==
    /\ phase' = Exited
    /\ UNCHANGED <<installed, listening>>

\* main up to the runtime: a file that cannot be read or is refused ends the
\* process before anything is bound.  The files are read one after another.
LoadConfig ==
    /\ phase = Loading /\ installed = Nothing
    /\ IF config_file \in Loads \cap Compiles
       THEN /\ phase' = IF config_file \in Mitm THEN Loading ELSE 1
            /\ installed' = [Nothing EXCEPT !.config = config_file]
            /\ listening' = Listen[config_file]
       ELSE StartFails
    /\ UNCHANGED <<files, bound, pc, got, status, history, counted>>

LoadCert ==
    /\ phase = Loading /\ installed.config # Absent /\ installed.cert = Absent
    /\ IF cert_file # Unreadable
       THEN installed' = [installed EXCEPT !.cert = cert_file] /\ UNCHANGED <<phase, listening>>
       ELSE StartFails
    /\ UNCHANGED <<files, bound, pc, got, status, history, counted>>

LoadKey ==
    /\ phase = Loading /\ installed.cert # Absent
    /\ IF key_file # Unreadable
       THEN /\ phase' = 1
            /\ installed' = [installed EXCEPT !.key = key_file]
            /\ UNCHANGED listening
       ELSE StartFails
    /\ UNCHANGED <<files, bound, pc, got, status, history, counted>>

\* The asynchronous runtime, the telemetry exporters or the operating system's
\* root certificates are not to be had.
LoadFails ==
    /\ phase = Loading /\ StartFails
    /\ UNCHANGED <<files, bound, pc, got, status, history, counted>>

\* Only these are worth a process that does not start.
Needed == {"http", "management"}

Wanted(listener) ==
    /\ listening[listener] # Absent
    /\ listener = "https" => installed.cert # Absent

\* The next listener is bound, if it is configured.
Bind ==
    /\ phase \in DOMAIN Listeners
    /\ bound' = IF Wanted(Listeners[phase]) THEN bound \cup {Listeners[phase]} ELSE bound
    /\ phase' = phase + 1
    /\ UNCHANGED <<files, installed, listening, pc, got, status, history, counted>>

\* Its address cannot be bound, or DNS has a setting it cannot use: the
\* process goes on without it, or ends and with it its sockets.
BindFails ==
    /\ phase \in DOMAIN Listeners
    /\ Wanted(Listeners[phase])
    /\ IF Listeners[phase] \in Needed
       THEN phase' = Exited /\ bound' = {}
       ELSE phase' = phase + 1 /\ UNCHANGED bound
    /\ UNCHANGED <<files, installed, listening, pc, got, status, history, counted>>

-----------------------------------------------------------------------------
(* The call.                                                                *)

Goto(k, where) ==
    /\ pc' = [pc EXCEPT ![k] = where]
    /\ UNCHANGED <<status, counted>>

End(k, with) ==
    /\ pc' = [pc EXCEPT ![k] = "done"]
    /\ status' = [status EXCEPT ![k] = with]

\* `reload` returns an error, counted; what it has read is dropped.
Refuse(k, with) ==
    /\ End(k, with)
    /\ counted' = [counted EXCEPT !.error = @ + 1]
    /\ got' = [got EXCEPT ![k] = Nothing]

\* serve_management: the bearer token, then a spawned task.
Post(k, authorized) ==
    /\ pc[k] = "idle" /\ "management" \in bound
    /\ IF authorized THEN Goto(k, "read") ELSE End(k, 401) /\ UNCHANGED counted
    /\ UNCHANGED <<files, installed, process, got, history>>

\* Fault: changed listener addresses are let through.
refuses_not(c) == c \notin Loads \/ c \notin Compiles

\* load_str, the listener comparison, and the part of
\* build_runtime_with_metrics that reads no file.
refuses(c) == c \notin Loads \/ Listen[c] # listening \/ c \notin Compiles

ReadConfig(k) ==
    /\ pc[k] = "read"
    /\ IF config_file = Unreadable THEN Refuse(k, 500)
       ELSE IF refuses(config_file) THEN Refuse(k, 422)
       ELSE /\ Goto(k, IF config_file \in Mitm THEN "cert" ELSE "swap")
            /\ got' = [got EXCEPT ![k].config = config_file]
    /\ UNCHANGED <<files, installed, process, history>>

\* The operating system has no root certificates.
NoRoots(k) ==
    /\ pc[k] = "read" /\ config_file # Unreadable
    /\ Refuse(k, 422)
    /\ UNCHANGED <<files, installed, process, history>>

\* read_to_string(tls.ca_cert); a file that is no certificate fails as well.
ReadCert(k) ==
    /\ pc[k] = "cert"
    /\ IF cert_file = Unreadable
       THEN Refuse(k, 422)
       ELSE Goto(k, "key") /\ got' = [got EXCEPT ![k].cert = cert_file]
    /\ UNCHANGED <<files, installed, process, history>>

\* Fault: the new runtime is in force before its key has been read.
ReadKeyLate(k) ==
    /\ pc[k] = "key"
    /\ installed' = [got[k] EXCEPT !.key = got[k].cert]
    /\ swaps' = Append(swaps, k)
    /\ IF key_file = Unreadable
       THEN Refuse(k, 422)
       ELSE Goto(k, "swap") /\ got' = [got EXCEPT ![k].key = key_file]
    /\ UNCHANGED <<files, process, current>>

\* read_to_string(tls.ca_key), and SigningCa::from_pem, which does not compare
\* the key with the certificate.
ReadKey(k) ==
    /\ pc[k] = "key"
    /\ IF key_file = Unreadable
       THEN Refuse(k, 422)
       ELSE Goto(k, "swap") /\ got' = [got EXCEPT ![k].key = key_file]
    /\ UNCHANGED <<files, installed, process, history>>

\* Fault: the certificate cache in force is kept, with the CA in it.
SwapKeepsCa(k) ==
    /\ pc[k] = "swap"
    /\ installed' = IF installed.cert # Absent
                    THEN [installed EXCEPT !.config = got[k].config] ELSE got[k]
    /\ swaps' = Append(swaps, k)
    /\ Goto(k, "count")
    /\ UNCHANGED <<files, process, got, current>>

\* SharedState::swap, of the pipeline, the guard and the certificate cache at
\* once; the DNS server and the listeners are not part of a Runtime.
Swap(k) ==
    /\ pc[k] = "swap"
    /\ installed' = got[k]
    /\ swaps' = Append(swaps, k)
    /\ Goto(k, "count")
    /\ UNCHANGED <<files, process, got, current>>

Count(k) ==
    /\ pc[k] = "count"
    /\ End(k, 200)
    /\ counted' = [counted EXCEPT !.ok = @ + 1]
    /\ UNCHANGED <<files, installed, process, got, history>>

\* The task panics while it parses or compiles: the join error is a 500.
Panic(k) ==
    /\ pc[k] \in {"read", "cert", "key"}
    /\ End(k, 500)
    /\ got' = [got EXCEPT ![k] = Nothing]
    /\ UNCHANGED <<files, installed, process, history, counted>>

Task(k) == ReadConfig(k) \/ ReadCert(k) \/ ReadKey(k) \/ Swap(k) \/ Count(k)

Next ==
    \/ LoadConfig \/ LoadCert \/ LoadKey \/ LoadFails \/ Bind \/ BindFails
    \/ Write
    \/ \E k \in Call :
        \/ \E authorized \in BOOLEAN : Post(k, authorized)
        \/ Task(k) \/ NoRoots(k) \/ Panic(k)
        \/ Disconnect(k)

Spec == Init /\ [][Next]_vars

\* A spawned task runs; nobody has to write files, call or disconnect.
FairSpec == Spec /\ \A k \in Call : WF_vars(Task(k))

-----------------------------------------------------------------------------
(* Properties.                                                              *)

\* Fail closed: from the first listener on, and however reloads, failures and
\* rewritten files interleave, the runtime in force was accepted by every
\* check and is for the listeners of the start; a TLS listener that is bound
\* has a complete CA in it; and a process that serves has bound what it cannot
\* do without.
RuntimeSound ==
    /\ phase \in 1..Serving =>
        /\ installed.config \in Loads \cap Compiles
        /\ Listen[installed.config] = listening
    /\ bound \cap {"https", "tunnel"} # {} => installed.cert \in Ca /\ installed.key \in Ca
    /\ phase = Serving => {l \in Needed : listening[l] # Absent} \subseteq bound

\* The answer tells what happened: a call that is refused, unauthorised or
\* fails has left the runtime alone ("the old config MUST keep serving
\* untouched"), one that is answered 200 has installed one, once; and the
\* counter of successful reloads says how many.
AnswerTrue ==
    /\ \A k \in Call : Cardinality({i \in DOMAIN swaps : swaps[i] = k}) =
                       IF pc[k] = "count" \/ status[k] = 200 THEN 1 ELSE 0
    /\ counted.ok = Cardinality({k \in Call : status[k] = 200})
    /\ counted.ok + counted.error <= Cardinality({k \in Call : pc[k] = "done"})

\* What is in force is the last runtime swapped in, whole, and it is what the
\* files say unless one was written after that call began: a reload mixes two
\* versions of the files, or puts an older one back, only if it overlaps a
\* write.
InForceIsOnDisk ==
    swaps # <<>> =>
        LET k == swaps[Len(swaps)] IN
        installed = got[k] /\ (current[k] => installed = OnDisk)

\* "Reload MUST complete even if the requesting client disconnects."
ReloadsComplete ==
    \A k \in Call : Running(k) ~> pc[k] = "done"
=============================================================================
