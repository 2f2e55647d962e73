--------------------------- MODULE ReloadProofs ---------------------------
(***************************************************************************)
(* Proofs about Reload: its invariants hold for any set of calls, any      *)
(* configurations and any generations of the CA.                           *)
(***************************************************************************)
EXTENDS Reload, FiniteSetTheorems, TLAPS

-----------------------------------------------------------------------------
(* The inductive invariant.                                                 *)

\* What `refuses` lets through.
Accepted(c) == c \in Loads /\ c \in Compiles /\ Listen[c] = listening

Complete(r) == r.config \in Mitm => r.cert \in Ca /\ r.key \in Ca

\* Start-up: a runtime is in force from the first listener on, sockets belong
\* to a process that lives, are configured, and are bound in order.
StartInv ==
    /\ phase = Loading /\ installed # Nothing =>
            /\ installed \in Runtime /\ installed.config \in Mitm /\ installed.key = Absent
            /\ Accepted(installed.config)
    /\ phase \in 1..Serving => /\ installed \in Runtime
                               /\ Accepted(installed.config) /\ Complete(installed)
    /\ bound # {} => phase \in 1..Serving
    /\ \A i \in 1..5 : Listeners[i] \in bound => i < phase /\ listening[Listeners[i]] # Absent
    /\ phase \in 2..Serving /\ listening["http"] # Absent => "http" \in bound
    /\ phase = Serving /\ listening["management"] # Absent => "management" \in bound
    /\ \A k \in Call : pc[k] # "idle" => phase = Serving

\* A call: what it has read so far, and that it is what is on disk if nothing
\* was written since.
CallInv(k) ==
    /\ pc[k] \in {"idle", "read"} => got[k] = Nothing
    /\ pc[k] \in {"cert", "key", "swap", "count"} => got[k] \in Runtime /\ Accepted(got[k].config)
    /\ pc[k] = "cert" => /\ got[k].config \in Mitm
                         /\ got[k].cert = Absent /\ got[k].key = Absent
                         /\ current[k] => got[k].config = config_file
    /\ pc[k] = "key" => /\ got[k].config \in Mitm /\ got[k].cert \in Ca /\ got[k].key = Absent
                        /\ current[k] => got[k].config = config_file /\ got[k].cert = cert_file
    /\ pc[k] = "swap" => Complete(got[k]) /\ (current[k] => got[k] = OnDisk)
    /\ pc[k] # "done" <=> status[k] = 0

Installed(k) == pc[k] = "count" \/ status[k] = 200

\* The runtimes swapped in: one by each call that says so, the last in force.
SwapInv ==
    /\ \A i, j \in DOMAIN swaps : swaps[i] = swaps[j] => i = j
    /\ \A i \in DOMAIN swaps : Installed(swaps[i])
    /\ \A k \in Call : Installed(k) => \E i \in DOMAIN swaps : swaps[i] = k
    /\ InForceIsOnDisk

CountInv ==
    /\ counted.ok = Cardinality({k \in Call : status[k] = 200})
    /\ counted.ok + counted.error <= Cardinality({k \in Call : pc[k] = "done"})

IInv == TypeOK /\ StartInv /\ (\A k \in Call : CallInv(k)) /\ SwapInv /\ CountInv

-----------------------------------------------------------------------------
\* The order in which main binds the listeners.
LEMMA Places ==
    /\ DOMAIN Listeners = 1..5
    /\ Listeners[1] = "http" /\ Listeners[2] = "https" /\ Listeners[3] = "tunnel"
    /\ Listeners[4] = "dns" /\ Listeners[5] = "management"
    /\ Loading = 0 /\ Serving = 6 /\ Exited = 7
BY DEF Listeners, Loading, Serving, Exited

\* Before the first load there is no runtime.
LEMMA NothingIsNoRuntime == Nothing \notin Runtime
BY ReloadAssumption DEF Nothing, Runtime

\* A sequence is a function on the numbers up to its length.
LEMMA Lengths ==
    ASSUME NEW S, NEW s \in Seq(S)
    PROVE  /\ Len(s) \in Nat /\ DOMAIN s = 1..Len(s) /\ s \in [1..Len(s) -> S]
           /\ <<>> \in Seq(S) /\ Len(<<>>) = 0 /\ (s # <<>> => Len(s) \in Nat \ {0})
OBVIOUS

\* An element is appended behind the others.
LEMMA Appended ==
    ASSUME NEW S, NEW s \in Seq(S), NEW x \in S
    PROVE  /\ Append(s, x) \in Seq(S) /\ Append(s, x) # <<>>
           /\ Len(Append(s, x)) = Len(s) + 1
           /\ \A i \in 1..Len(s) : Append(s, x)[i] = s[i]
           /\ Append(s, x)[Len(s) + 1] = x
OBVIOUS

\* Nobody is counted at the start.
LEMMA CountEmpty == Cardinality({}) = 0
BY FS_EmptySet

\* One more call ends with 200.
LEMMA CountOne ==
    ASSUME NEW S, NEW k, IsFiniteSet(S), k \notin S
    PROVE  Cardinality(S \cup {k}) = Cardinality(S) + 1 /\ Cardinality(S) \in Nat
BY FS_AddElement, FS_CardinalityType

\* Whether a call has swapped shows in its place and its answer.
LEMMA InstalledSame ==
    ASSUME NEW j, pc'[j] = pc[j], status'[j] = status[j]
    PROVE  Installed(j)' <=> Installed(j)
BY DEF Installed

\* A call has swapped from the swap on, and stays so when answered 200.
LEMMA InstalledWhen ==
    ASSUME NEW j
    PROVE  /\ pc[j] = "count" => Installed(j) /\ (status'[j] = 200 => Installed(j)')
           /\ pc'[j] = "count" => Installed(j)'
BY DEF Installed

\* A call that has said nothing yet and is not about to has not swapped.
LEMMA NotInstalled ==
    ASSUME NEW j
    PROVE  /\ status[j] = 0 /\ pc[j] # "count" => ~Installed(j)
           /\ status'[j] \in {0, 401, 422, 500} /\ pc'[j] # "count" => ~Installed(j)'
BY DEF Installed

\* The history of swaps is one of calls.
LEMMA SwapsTyped ==
    ASSUME TypeOK
    PROVE  swaps \in Seq(Call) /\ \A i \in DOMAIN swaps : swaps[i] \in Call
BY Lengths DEF TypeOK

\* Nothing is loaded and nobody has called.
LEMMA InitIInv == Init => IInv
<1> SUFFICES ASSUME Init PROVE IInv
  OBVIOUS
<1>1. TypeOK
  BY Places DEF Init, TypeOK, PC, Status
<1>2. StartInv
  BY Places DEF Init, StartInv
<1>3. \A k \in Call : CallInv(k)
  BY DEF Init, CallInv
<1>4. SwapInv
  BY DEF Init, SwapInv, Installed, InForceIsOnDisk
<1>5. CountInv
  <2>1. {k \in Call : status[k] = 200} = {} /\ {k \in Call : pc[k] = "done"} = {}
    BY DEF Init
  <2>2. /\ Cardinality({k \in Call : status[k] = 200}) = 0
        /\ Cardinality({k \in Call : pc[k] = "done"}) = 0
    BY <2>1, CountEmpty, Zenon
  <2>3. counted.ok = 0 /\ counted.error = 0
    BY DEF Init
  <2> QED
    BY <2>2, <2>3 DEF CountInv
<1> QED
  BY <1>1, <1>2, <1>3, <1>4, <1>5 DEF IInv

-----------------------------------------------------------------------------
(* Start-up.                                                                *)

\* What start-up leaves alone.
Quiet == UNCHANGED <<files, pc, got, status, history, counted>>

\* Before a call has begun nothing has been swapped in.
LEMMA NoCallYet ==
    ASSUME IInv, phase # Serving
    PROVE  /\ \A k \in Call : pc[k] = "idle" /\ status[k] = 0 /\ got[k] = Nothing
           /\ swaps = <<>>
<1>1. \A k \in Call : pc[k] = "idle" /\ status[k] = 0 /\ got[k] = Nothing
  BY DEF IInv, StartInv, CallInv
<1>2. swaps \in Seq(Call) /\ \A i \in DOMAIN swaps : FALSE
  BY <1>1 DEF IInv, TypeOK, SwapInv, Installed
<1>3. DOMAIN swaps = 1..Len(swaps) /\ Len(swaps) \in Nat
  BY <1>2, Lengths
<1>4. ASSUME swaps # <<>> PROVE FALSE
  <2>1. Len(swaps) \in Nat \ {0}
    BY <1>2, <1>4
  <2>2. 1 \in DOMAIN swaps
    BY <1>3, <2>1
  <2> QED
    BY <1>2, <2>2
<1> QED
  BY <1>1, <1>4

\* There is no call before the management listener serves.
LEMMA StartUpCalls ==
    ASSUME IInv, phase # Serving, Quiet
    PROVE  (\A k \in Call : CallInv(k)') /\ SwapInv' /\ CountInv'
<1>1. \A k \in Call : CallInv(k)'
  BY NoCallYet DEF Quiet, CallInv, files, history
<1>2. SwapInv'
  BY NoCallYet DEF Quiet, SwapInv, Installed, InForceIsOnDisk, files, history
<1>3. CountInv'
  BY DEF IInv, CountInv, Quiet
<1> QED
  BY <1>1, <1>2, <1>3

\* main reads a file: it gives up, has more to read, or has a runtime.
LEMMA LoadStep ==
    ASSUME IInv, phase = Loading, Quiet, UNCHANGED bound, phase' \in {0, 1, 7},
           phase' # 7 => /\ installed' \in Runtime /\ Accepted(installed.config)'
                         /\ listening' \in {Listen[c] : c \in Config},
           phase' = 0 => installed'.config \in Mitm /\ installed'.key = Absent,
           phase' = 1 => Complete(installed)',
           phase' = 7 => UNCHANGED <<installed, listening>>
    PROVE  IInv'
<1>1. phase = 0 /\ phase # Serving /\ bound = {}
  BY Places DEF IInv, StartInv, TypeOK
<1>2. TypeOK'
  <2>1. phase' \in Loading..Exited
    BY Places
  <2>2. /\ installed' \in Runtime \cup {Nothing}
        /\ listening' \in {Listen[c] : c \in Config} \cup {Absent}
    BY Zenon DEF IInv, TypeOK
  <2> QED
    BY <2>1, <2>2, Zenon DEF IInv, TypeOK, Quiet, files, history
<1>3. StartInv'
  BY <1>1, Places, NoCallYet DEF StartInv, Quiet
<1> QED
  BY <1>1, <1>2, <1>3, StartUpCalls DEF IInv

\* main reads the configuration, the certificate and the key, or gives up.
LEMMA LoadIInv == ASSUME IInv, LoadConfig \/ LoadCert \/ LoadKey \/ LoadFails PROVE IInv'
<1>1. phase = Loading /\ phase = 0 /\ Quiet /\ UNCHANGED bound
  BY Places DEF LoadConfig, LoadCert, LoadKey, LoadFails, Quiet
<1>2. CASE StartFails
  BY <1>1, <1>2, LoadStep, Places DEF StartFails
<1>3. CASE LoadConfig /\ ~StartFails
  <2>1. /\ config_file \in Loads \cap Compiles /\ config_file \in Config
        /\ phase' = IF config_file \in Mitm THEN 0 ELSE 1
        /\ installed' = [Nothing EXCEPT !.config = config_file]
        /\ listening' = Listen[config_file]
    BY <1>3, ReloadAssumption, Places DEF LoadConfig
  <2>2. /\ installed' \in Runtime /\ installed'.config = config_file
        /\ installed'.cert = Absent /\ installed'.key = Absent
    BY <2>1 DEF Nothing, Runtime
  <2>3. Accepted(installed.config)' /\ (phase' = 1 => Complete(installed)')
    BY <2>1, <2>2 DEF Accepted, Complete
  <2> QED
    BY <1>1, <2>1, <2>2, <2>3, LoadStep
<1>4. ASSUME installed.config # Absent
      PROVE  /\ installed \in Runtime /\ installed.config \in Mitm /\ installed.key = Absent
             /\ Accepted(installed.config) /\ listening \in {Listen[c] : c \in Config}
  <2>1. installed # Nothing
    BY <1>4 DEF Nothing
  <2>2. /\ installed \in Runtime /\ installed.config \in Mitm /\ installed.key = Absent
        /\ Accepted(installed.config)
    BY <1>1, <2>1, Zenon DEF IInv, StartInv
  <2> QED
    BY <2>2, ReloadAssumption DEF Accepted
<1>5. CASE LoadCert /\ ~StartFails
  <2>1. /\ installed.config # Absent /\ cert_file \in Ca /\ phase' = 0 /\ listening' = listening
        /\ installed' = [installed EXCEPT !.cert = cert_file]
    BY <1>1, <1>5 DEF LoadCert, IInv, TypeOK
  <2>2. /\ installed' \in Runtime /\ installed'.config = installed.config
        /\ installed'.key = Absent
    BY <1>4, <2>1 DEF Runtime
  <2>3. Accepted(installed.config)'
    BY <1>4, <2>1, <2>2 DEF Accepted
  <2> QED
    BY <1>1, <1>4, <2>1, <2>2, <2>3, LoadStep
<1>6. CASE LoadKey /\ ~StartFails
  <2>1. /\ installed.cert # Absent /\ key_file \in Ca /\ phase' = 1 /\ listening' = listening
        /\ installed' = [installed EXCEPT !.key = key_file]
    BY <1>1, <1>6 DEF LoadKey, IInv, TypeOK
  <2>2. installed.config # Absent
    BY <2>1, ReloadAssumption DEF IInv, TypeOK, Runtime, Nothing
  <2>3. /\ installed' \in Runtime /\ installed'.config = installed.config
        /\ installed'.cert \in Ca /\ installed'.key \in Ca
    BY <1>4, <2>1, <2>2 DEF Runtime
  <2>4. Accepted(installed.config)' /\ Complete(installed)'
    BY <1>4, <2>1, <2>2, <2>3 DEF Accepted, Complete
  <2> QED
    BY <1>1, <1>4, <2>1, <2>2, <2>3, <2>4, LoadStep
<1> QED
  BY <1>2, <1>3, <1>5, <1>6 DEF LoadFails

\* main binds the next listener, skips it, or gives up.
LEMMA BindIInv == ASSUME IInv, Bind \/ BindFails PROVE IInv'
<1>1. phase \in 1..5 /\ phase # Serving /\ Quiet /\ UNCHANGED <<installed, listening>>
  BY Places DEF Bind, BindFails, Quiet
<1>2. CASE phase' = phase + 1 /\ Wanted(Listeners[phase])
           /\ bound' = bound \cup {Listeners[phase]}
  <2>1. TypeOK'
    BY <1>1, <1>2, Places DEF IInv, TypeOK, Quiet, files, history
  <2>2. StartInv'
    BY <1>1, <1>2, Places, NoCallYet, SMTT(30) DEF IInv, StartInv, Quiet, Wanted, Accepted, Complete
  <2> QED
    BY <1>1, <2>1, <2>2, StartUpCalls DEF IInv
<1>3. CASE phase' = phase + 1 /\ bound' = bound
           /\ (~Wanted(Listeners[phase]) \/ Listeners[phase] \notin Needed)
  <2>1. TypeOK'
    <3>1. phase' \in Loading..Exited
      BY <1>1, <1>3, Places
    <3> QED
      BY <1>1, <1>3, <3>1, Zenon DEF IInv, TypeOK, Quiet, files, history
  <2>2. StartInv'
    BY <1>1, <1>3, Places, NoCallYet, SMTT(30)
       DEF IInv, StartInv, Quiet, Wanted, Needed, Accepted, Complete
  <2> QED
    BY <1>1, <2>1, <2>2, StartUpCalls DEF IInv
<1>4. CASE phase' = Exited /\ bound' = {}
  <2>1. TypeOK'
    <3>1. phase' \in Loading..Exited
      BY <1>4, Places
    <3> QED
      BY <1>1, <1>4, <3>1 DEF IInv, TypeOK, Quiet, files, history
  <2>2. StartInv'
    BY <1>1, <1>4, Places, NoCallYet DEF StartInv, Quiet
  <2> QED
    BY <1>1, <2>1, <2>2, StartUpCalls DEF IInv
<1> QED
  BY <1>2, <1>3, <1>4 DEF Bind, BindFails

-----------------------------------------------------------------------------
(* The operator writes a file.                                              *)

\* A write changes the files and what every call in progress may claim of them.
LEMMA WriteIInv == ASSUME IInv, Write PROVE IInv'
<1>1. TypeOK'
  BY DEF IInv, TypeOK, Write, process
<1>2. StartInv'
  BY Zenon DEF IInv, StartInv, Write, process, Accepted, Complete
<1>3. ASSUME NEW k \in Call PROVE CallInv(k)'
  <2>1. CallInv(k) /\ (pc[k] # "idle" => ~current'[k])
    BY Zenon DEF IInv, Write
  <2> QED
    BY <2>1, Zenon DEF CallInv, Write, process, Accepted, Complete
<1>4. SwapInv'
  <2>1. ASSUME NEW k \in Call, Installed(k) PROVE ~current'[k]
    <3>1. pc[k] # "idle"
      BY <2>1 DEF IInv, CallInv, Installed
    <3> QED
      BY <3>1, Zenon DEF Write
  <2>2. ASSUME swaps # <<>> PROVE swaps[Len(swaps)] \in Call /\ Len(swaps) \in DOMAIN swaps
    BY <2>2, Lengths DEF IInv, TypeOK
  <2>3. InForceIsOnDisk'
    BY <2>1, <2>2 DEF IInv, SwapInv, InForceIsOnDisk, Write
  <2> QED
    BY <2>3 DEF IInv, SwapInv, Installed, Write
<1>5. CountInv'
  BY DEF IInv, CountInv, Write
<1> QED
  BY <1>1, <1>2, <1>3, <1>4, <1>5 DEF IInv

-----------------------------------------------------------------------------
(* A call.                                                                  *)

\* What a step of one call leaves alone.
Step(k) ==
    /\ \A j \in Call \ {k} : pc'[j] = pc[j] /\ got'[j] = got[j] /\ status'[j] = status[j]
    /\ UNCHANGED <<files, process, current>>

\* A step of one call keeps what is known of the others.
LEMMA OtherCalls ==
    ASSUME IInv, NEW k \in Call, Step(k), NEW j \in Call, j # k
    PROVE  CallInv(j)'
<1>1. CallInv(j)
  BY DEF IInv
<1>2. /\ pc'[j] = pc[j] /\ got'[j] = got[j] /\ status'[j] = status[j]
      /\ current' = current /\ listening' = listening
      /\ config_file' = config_file /\ cert_file' = cert_file /\ key_file' = key_file
  BY Zenon DEF Step, files, process
<1>3. OnDisk' = OnDisk
  BY <1>2, Zenon DEF OnDisk
<1> QED
  BY <1>1, <1>2, <1>3, Zenon DEF CallInv, Accepted, Complete

\* Once serving, a call's step keeps what start-up established.
LEMMA StartKept ==
    ASSUME IInv, NEW k \in Call, Step(k), phase = Serving,
           installed' = installed
             \/ (installed' \in Runtime /\ Accepted(installed'.config) /\ Complete(installed'))
    PROVE  StartInv'
<1>1. phase' = phase /\ bound' = bound /\ listening' = listening
  BY Zenon DEF Step, process
<1>2. phase # Loading
  BY Places
<1> QED
  BY <1>1, <1>2, Zenon DEF IInv, StartInv, Accepted, Complete

\* A call that is still reading is not among those that have swapped.
LEMMA SwapKept ==
    ASSUME IInv, NEW k \in Call, Step(k), ~Installed(k), ~Installed(k)',
           UNCHANGED <<installed, swaps>>
    PROVE  SwapInv'
<1>1. swaps \in Seq(Call) /\ swaps' = swaps /\ installed' = installed
  BY DEF IInv, TypeOK
<1>2. \A i \in DOMAIN swaps : swaps[i] \in Call /\ Installed(swaps[i])
  BY <1>1, Lengths DEF IInv, SwapInv
<1>3. \A j \in Call : Installed(j)' = Installed(j)
  BY DEF Installed, Step
<1>4. ASSUME swaps # <<>> PROVE /\ swaps[Len(swaps)] \in Call /\ swaps[Len(swaps)] # k
                                /\ Len(swaps) \in DOMAIN swaps
  BY <1>1, <1>2, <1>4, Lengths
<1>5. OnDisk' = OnDisk /\ current' = current
  BY Zenon DEF Step, files, OnDisk
<1>6. InForceIsOnDisk'
  BY <1>1, <1>4, <1>5 DEF IInv, SwapInv, InForceIsOnDisk, Step
<1> QED
  BY <1>1, <1>2, <1>3, <1>6 DEF IInv, SwapInv

\* A call that ends without a runtime: refused, unauthorised or panicked.
EndsRefused(k, with) ==
    /\ pc[k] \in {"idle", "read", "cert", "key"} /\ phase = Serving
    /\ End(k, with)
    /\ got' = [got EXCEPT ![k] = Nothing]
    /\ UNCHANGED counted \/ counted' = [counted EXCEPT !.error = @ + 1]
    /\ UNCHANGED <<files, installed, process, history>>

\* A call that is refused changes nothing but its own answer and the counter.
LEMMA Refused ==
    ASSUME IInv, NEW k \in Call, NEW with \in {401, 422, 500}, EndsRefused(k, with)
    PROVE  IInv'
<1> USE DEF EndsRefused
<1>1. Step(k) /\ pc'[k] = "done" /\ status'[k] = with /\ got'[k] = Nothing /\ status[k] = 0
  BY DEF IInv, TypeOK, CallInv, Step, End, history
<1>2. TypeOK'
  BY DEF IInv, TypeOK, PC, Status, End, files, process, history
<1>3. CallInv(k)'
  BY <1>1 DEF CallInv
<1>4. SwapInv'
  <2>1. ~Installed(k) /\ ~Installed(k)'
    BY <1>1, NotInstalled
  <2>2. UNCHANGED <<installed, swaps>>
    BY DEF history
  <2> QED
    BY <1>1, <2>1, <2>2, SwapKept
<1>5. CountInv'
  <2> DEFINE ok == {j \in Call : status[j] = 200}
             done == {j \in Call : pc[j] = "done"}
  <2>1. {j \in Call : status'[j] = 200} = ok
    BY <1>1 DEF Step
  <2>2. {j \in Call : pc'[j] = "done"} = done \cup {k} /\ k \notin done
    BY <1>1 DEF Step
  <2>3. IsFiniteSet(done)
    BY ReloadAssumption, FS_Subset
  <2>4. counted.ok = Cardinality(ok) /\ counted.ok + counted.error <= Cardinality(done)
    BY DEF IInv, CountInv
  <2> HIDE DEF ok, done
  <2>5. Cardinality(done \cup {k}) = Cardinality(done) + 1 /\ Cardinality(done) \in Nat
    BY <2>2, <2>3, CountOne
  <2>6. /\ counted.ok \in Nat /\ counted.error \in Nat /\ counted'.ok = counted.ok
        /\ counted'.error = counted.error \/ counted'.error = counted.error + 1
    BY DEF IInv, TypeOK
  <2>7. /\ Cardinality({j \in Call : status'[j] = 200}) = Cardinality(ok)
        /\ Cardinality({j \in Call : pc'[j] = "done"}) = Cardinality(done \cup {k})
    BY <2>1, <2>2, ZenonT(30)
  <2>8. /\ counted'.ok = Cardinality({j \in Call : status'[j] = 200})
        /\ counted'.ok + counted'.error <= Cardinality({j \in Call : pc'[j] = "done"})
    BY <2>4, <2>5, <2>6, <2>7, SMT
  <2> QED
    BY <2>8 DEF CountInv
<1> QED
  BY <1>1, <1>2, <1>3, <1>4, <1>5, OtherCalls, StartKept DEF IInv

\* A call that goes on to read.
LEMMA GoesOn ==
    ASSUME IInv, NEW k \in Call, pc[k] \in {"idle", "read", "cert", "key"}, phase = Serving,
           NEW where \in {"read", "cert", "key", "swap"}, Goto(k, where),
           NEW r \in Runtime \cup {Nothing}, got' = [got EXCEPT ![k] = r],
           CallInv(k)',
           UNCHANGED <<files, installed, process, history>>
    PROVE  IInv'
<1>1. Step(k) /\ pc'[k] = where /\ status' = status /\ status[k] = 0
  <2>1. TypeOK /\ CallInv(k)
    BY DEF IInv
  <2>2. pc' = [pc EXCEPT ![k] = where] /\ status' = status /\ UNCHANGED <<files, process, current>>
    BY DEF Goto, history
  <2>3. pc \in [Call -> PC] /\ got \in [Call -> Runtime \cup {Nothing}]
    BY <2>1 DEF TypeOK
  <2>4. status[k] = 0
    BY <2>1, Zenon DEF CallInv
  <2>5. Step(k)
    BY <2>2, <2>3 DEF Step
  <2> QED
    BY <2>2, <2>3, <2>4, <2>5
<1>2. TypeOK'
  BY Zenon DEF IInv, TypeOK, PC, Goto, files, process, history
<1>3. SwapInv'
  <2>1. ~Installed(k) /\ ~Installed(k)'
    BY <1>1, NotInstalled, Zenon
  <2>2. UNCHANGED <<installed, swaps>>
    BY DEF history
  <2> QED
    BY <1>1, <2>1, <2>2, SwapKept, Zenon
<1>4. CountInv'
  <2>1. {j \in Call : pc'[j] = "done"} = {j \in Call : pc[j] = "done"}
    BY <1>1, Zenon DEF Step
  <2>2. UNCHANGED <<status, counted>>
    BY DEF Goto
  <2> QED
    BY <2>1, <2>2, Zenon DEF IInv, CountInv
<1> QED
  BY <1>1, <1>2, <1>3, <1>4, OtherCalls, StartKept, Zenon DEF IInv

\* A call arrives and is authenticated.
LEMMA PostIInv ==
    ASSUME IInv, NEW k \in Call, NEW authorized \in BOOLEAN, Post(k, authorized)
    PROVE  IInv'
<1>1. phase = Serving
  BY Places DEF IInv, StartInv, Post
<1>2. got[k] = Nothing /\ got' = [got EXCEPT ![k] = Nothing]
  <2>1. got[k] = Nothing /\ got' = got
    BY Zenon DEF IInv, CallInv, Post
  <2>2. got \in [Call -> Runtime \cup {Nothing}]
    BY DEF IInv, TypeOK
  <2> QED
    BY <2>1, <2>2
<1>3. CASE authorized
  <2>1. CallInv(k) /\ Goto(k, "read") /\ pc'[k] = "read" /\ got'[k] = Nothing
    BY <1>2, <1>3, Zenon DEF IInv, TypeOK, Post, Goto
  <2>2. CallInv(k)'
    BY <2>1, Zenon DEF CallInv, Goto, Post
  <2> QED
    BY <1>1, <1>2, <2>1, <2>2, GoesOn, Zenon DEF Post
<1>4. CASE ~authorized
  <2>1. EndsRefused(k, 401)
    BY <1>1, <1>2, <1>4, Zenon DEF Post, EndsRefused
  <2> QED
    BY <2>1, Refused
<1> QED
  BY <1>3, <1>4

\* A call reads a file and checks what it read, is refused, or panics.
LEMMA ReadIInv ==
    ASSUME IInv, NEW k \in Call, ReadConfig(k) \/ NoRoots(k) \/ ReadCert(k) \/ ReadKey(k) \/ Panic(k)
    PROVE  IInv'
<1>1. /\ phase = Serving /\ pc[k] \in {"read", "cert", "key"} /\ CallInv(k)
      /\ UNCHANGED <<files, installed, process, history>>
  BY DEF IInv, StartInv, ReadConfig, NoRoots, ReadCert, ReadKey, Panic
<1>2. CASE \E with \in {422, 500} : Refuse(k, with)
  <2>1. PICK with \in {422, 500} : Refuse(k, with)
    BY <1>2
  <2> QED
    <3>1. EndsRefused(k, with)
      BY <1>1, <2>1 DEF Refuse, EndsRefused
    <3> QED
      BY <3>1, Refused
<1>3. CASE Panic(k)
  <2>1. EndsRefused(k, 500)
    BY <1>1, <1>3 DEF Panic, EndsRefused
  <2> QED
    BY <2>1, Refused
<1>4. CASE /\ pc[k] = "read" /\ config_file # Unreadable /\ ~refuses(config_file)
           /\ Goto(k, IF config_file \in Mitm THEN "cert" ELSE "swap")
           /\ got' = [got EXCEPT ![k].config = config_file]
  <2> DEFINE r == [config |-> config_file, cert |-> Absent, key |-> Absent]
  <2>1. config_file \in Config /\ r \in Runtime /\ Accepted(config_file)
    BY <1>4 DEF IInv, TypeOK, refuses, Runtime, Accepted
  <2>2. got' = [got EXCEPT ![k] = r] /\ got'[k] = r
    <3>1. got[k] = Nothing /\ got \in [Call -> Runtime \cup {Nothing}]
      BY <1>1, <1>4 DEF CallInv, IInv, TypeOK
    <3>2. [got[k] EXCEPT !.config = config_file] = r
      BY <3>1 DEF Nothing
    <3> QED
      BY <1>4, <3>1, <3>2, Zenon
  <2>3. CallInv(k)'
    <3>1. /\ pc'[k] = IF config_file \in Mitm THEN "cert" ELSE "swap"
          /\ status'[k] = status[k] /\ config_file' = config_file /\ listening' = listening
      BY <1>1, <1>4 DEF Goto, IInv, TypeOK, files, process
    <3>2. Accepted(got[k].config)'
      <4>1. r.config = config_file /\ got'[k] = r /\ listening' = listening
        BY <2>2, <3>1
      <4> QED
        BY <2>1, <4>1, Zenon DEF Accepted
    <3> QED
      BY <1>1, <1>4, <2>1, <2>2, <3>1, <3>2 DEF CallInv, Complete, OnDisk
  <2> QED
    BY <1>1, <1>4, <2>1, <2>2, <2>3, GoesOn, Zenon
<1>5. CASE /\ pc[k] = "cert" /\ cert_file # Unreadable /\ Goto(k, "key")
           /\ got' = [got EXCEPT ![k].cert = cert_file]
  <2> DEFINE r == [got[k] EXCEPT !.cert = cert_file]
  <2>1. cert_file \in Ca /\ got[k] \in Runtime /\ r \in Runtime
    BY <1>1, <1>5 DEF IInv, TypeOK, CallInv, Runtime
  <2>2. got' = [got EXCEPT ![k] = r] /\ got'[k] = r
    BY <1>5 DEF IInv, TypeOK
  <2>3. /\ r.config = got[k].config /\ r.cert = cert_file /\ r.key = got[k].key
    BY <2>1 DEF Runtime
  <2>4. /\ pc'[k] = "key" /\ status'[k] = status[k] /\ listening' = listening
        /\ config_file' = config_file /\ cert_file' = cert_file /\ current' = current
    BY <1>1, <1>5 DEF Goto, IInv, TypeOK, files, process, history
  <2> HIDE DEF r
  <2>5. CallInv(k)'
    BY <1>1, <1>5, <2>1, <2>2, <2>3, <2>4 DEF CallInv, Accepted
  <2> QED
    BY <1>1, <1>5, <2>1, <2>2, <2>5, GoesOn, Zenon
<1>6. CASE /\ pc[k] = "key" /\ key_file # Unreadable /\ Goto(k, "swap")
           /\ got' = [got EXCEPT ![k].key = key_file]
  <2> DEFINE r == [got[k] EXCEPT !.key = key_file]
  <2>1. key_file \in Ca /\ got[k] \in Runtime /\ r \in Runtime
    BY <1>1, <1>6 DEF IInv, TypeOK, CallInv, Runtime
  <2>2. got' = [got EXCEPT ![k] = r] /\ got'[k] = r
    BY <1>6 DEF IInv, TypeOK
  <2>3. /\ r.config = got[k].config /\ r.cert = got[k].cert /\ r.key = key_file
        /\ r = [config |-> r.config, cert |-> r.cert, key |-> r.key]
    BY <2>1 DEF Runtime
  <2>4. /\ pc'[k] = "swap" /\ status'[k] = status[k] /\ listening' = listening
        /\ config_file' = config_file /\ cert_file' = cert_file /\ key_file' = key_file
        /\ current' = current
    BY <1>1, <1>6 DEF Goto, IInv, TypeOK, files, process, history
  <2> HIDE DEF r
  <2>5. CallInv(k)'
    BY <1>1, <1>6, <2>1, <2>2, <2>3, <2>4 DEF CallInv, Accepted, Complete, OnDisk
  <2> QED
    BY <1>1, <1>6, <2>1, <2>2, <2>5, GoesOn, Zenon
<1> QED
  BY <1>2, <1>3, <1>4, <1>5, <1>6 DEF ReadConfig, NoRoots, ReadCert, ReadKey

\* A call installs the runtime it has built.
LEMMA SwapIInv == ASSUME IInv, NEW k \in Call, Swap(k) PROVE IInv'
<1>1. /\ pc[k] = "swap" /\ pc'[k] = "count" /\ status' = status /\ counted' = counted
      /\ got' = got /\ installed' = got[k] /\ swaps' = Append(swaps, k)
      /\ status[k] = 0 /\ ~Installed(k) /\ Step(k) /\ phase = Serving
  <2>1. TypeOK /\ CallInv(k) /\ StartInv
    BY DEF IInv
  <2>2. /\ pc[k] = "swap" /\ pc' = [pc EXCEPT ![k] = "count"]
        /\ status' = status /\ counted' = counted /\ got' = got
        /\ installed' = got[k] /\ swaps' = Append(swaps, k)
        /\ UNCHANGED <<files, process, current>>
    BY DEF Swap, Goto
  <2>3. pc \in [Call -> PC]
    BY <2>1 DEF TypeOK
  <2>4. status[k] = 0
    BY <2>1, <2>2, Zenon DEF CallInv
  <2>5. phase = Serving
    <3>1. pc[k] # "idle" => phase = Serving
      BY <2>1, Zenon DEF StartInv
    <3> QED
      BY <2>2, <3>1
  <2>6. ~Installed(k)
    <3>1. pc[k] = "swap"
      BY <2>2, Zenon
    <3> QED
      BY <2>4, <3>1 DEF Installed
  <2>7. Step(k)
    BY <2>2, <2>3 DEF Step
  <2> QED
    BY <2>2, <2>3, <2>4, <2>5, <2>6, <2>7
<1>2. got[k] \in Runtime /\ Accepted(got[k].config) /\ Complete(got[k])
  BY <1>1, Zenon DEF IInv, CallInv
<1>3. swaps \in Seq(Call) /\ DOMAIN swaps = 1..Len(swaps) /\ Len(swaps) \in Nat
      /\ swaps \in [1..Len(swaps) -> Call]
  BY Lengths DEF IInv, TypeOK
<1>4. /\ swaps' \in Seq(Call) /\ Len(swaps') = Len(swaps) + 1
      /\ DOMAIN swaps' = 1..(Len(swaps) + 1)
      /\ \A i \in 1..Len(swaps) : swaps'[i] = swaps[i]
      /\ swaps'[Len(swaps) + 1] = k
  <2>1. swaps' = Append(swaps, k) /\ swaps \in Seq(Call)
    BY <1>1, <1>3
  <2>2. /\ Append(swaps, k) \in Seq(Call) /\ Len(Append(swaps, k)) = Len(swaps) + 1
        /\ \A i \in 1..Len(swaps) : Append(swaps, k)[i] = swaps[i]
        /\ Append(swaps, k)[Len(swaps) + 1] = k
    BY <2>1, Appended
  <2>3. DOMAIN swaps' = 1..Len(swaps')
    BY <2>1, <2>2, Lengths, Zenon
  <2> QED
    BY <2>1, <2>2, <2>3, Zenon
<1>5. TypeOK'
  <2>1. TypeOK
    BY DEF IInv
  <2>2. pc' \in [Call -> PC]
    BY <2>1, Zenon DEF TypeOK, PC, Swap, Goto
  <2>3. UNCHANGED <<config_file, cert_file, key_file, phase, bound, listening, current>>
    BY DEF Swap, files, process
  <2> QED
    BY <1>1, <1>2, <1>4, <2>1, <2>2, <2>3, Zenon DEF TypeOK
<1>6. CallInv(k)'
  <2>1. CallInv(k) /\ listening' = listening
    BY DEF IInv, Swap, process
  <2> QED
    BY <1>1, <2>1, Zenon DEF CallInv, Accepted
<1>7. SwapInv'
  <2>1. \A i \in 1..Len(swaps) : swaps[i] \in Call /\ Installed(swaps[i]) /\ swaps[i] # k
    <3>1. \A i \in DOMAIN swaps : Installed(swaps[i])
      BY DEF IInv, SwapInv
    <3>2. ~Installed(k)
      BY <1>1
    <3>3. \A i \in 1..Len(swaps) : i \in DOMAIN swaps /\ swaps[i] \in Call
      BY <1>3
    <3> QED
      BY <3>1, <3>2, <3>3, Zenon
  <2>2. \A j \in Call : Installed(j)' <=> Installed(j) \/ j = k
    <3>1. \A j \in Call \ {k} : pc'[j] = pc[j] /\ status'[j] = status[j]
      BY <1>1, Zenon DEF Step
    <3>2. pc'[k] = "count"
      BY <1>1, Zenon
    <3> QED
      BY <3>1, <3>2, InstalledSame, InstalledWhen, Zenon
  <2>3. (\A i, j \in DOMAIN swaps : swaps[i] = swaps[j] => i = j)'
    BY <1>3, <1>4, <2>1 DEF IInv, SwapInv
  <2>4. (\A i \in DOMAIN swaps : Installed(swaps[i]))'
    <3> SUFFICES ASSUME NEW i \in DOMAIN swaps' PROVE Installed(swaps[i])'
      OBVIOUS
    <3>1. CASE i \in 1..Len(swaps)
      BY <1>4, <2>1, <2>2, <3>1, Zenon
    <3>2. CASE i = Len(swaps) + 1
      BY <1>4, <2>2, <3>2, Zenon
    <3> QED
      BY <1>3, <1>4, <3>1, <3>2
  <2>5. (\A j \in Call : Installed(j) => \E i \in DOMAIN swaps : swaps[i] = j)'
    BY <1>3, <1>4, <2>2 DEF IInv, SwapInv
  <2>6. InForceIsOnDisk'
    <3>1. OnDisk' = OnDisk /\ current' = current
      BY Zenon DEF Swap, OnDisk, files
    <3>2. current[k] => got[k] = OnDisk
      BY <1>1, Zenon DEF IInv, CallInv
    <3> QED
      BY <1>1, <1>4, <3>1, <3>2, Zenon DEF InForceIsOnDisk
  <2> QED
    BY <2>3, <2>4, <2>5, <2>6 DEF SwapInv
<1>8. CountInv'
  <2>1. {j \in Call : pc'[j] = "done"} = {j \in Call : pc[j] = "done"}
    BY <1>1, Zenon DEF Step
  <2> QED
    BY <1>1, <2>1, Zenon DEF IInv, CountInv
<1>9. StartInv'
  BY <1>1, <1>2, StartKept, Zenon
<1> QED
  BY <1>1, <1>5, <1>6, <1>7, <1>8, <1>9, OtherCalls DEF IInv

\* A call that swapped is counted and answered 200.
LEMMA CountIInv == ASSUME IInv, NEW k \in Call, Count(k) PROVE IInv'
<1>1. /\ pc[k] = "count" /\ pc'[k] = "done" /\ status[k] = 0 /\ got' = got
      /\ installed' = installed /\ swaps' = swaps /\ current' = current
      /\ Step(k) /\ phase = Serving
  BY DEF IInv, TypeOK, StartInv, CallInv, Count, End, Step, history
<1>0. status'[k] = 200
  BY DEF IInv, TypeOK, Count, End
<1>2. TypeOK'
  BY DEF IInv, TypeOK, PC, Status, Count, End, files, process, history
<1>3. CallInv(k)'
  BY <1>0, <1>1, SMTT(30) DEF CallInv
<1>4. SwapInv'
  <2>1. \A j \in Call : Installed(j)' <=> Installed(j)
    <3>1. Installed(k) /\ Installed(k)'
      BY <1>0, <1>1, InstalledWhen
    <3>2. \A j \in Call \ {k} : pc'[j] = pc[j] /\ status'[j] = status[j]
      BY <1>1, Zenon DEF Step
    <3> QED
      BY <3>1, <3>2, InstalledSame, Zenon
  <2>2. \A i \in DOMAIN swaps : swaps[i] \in Call
    BY SwapsTyped, Zenon DEF IInv
  <2>3. OnDisk' = OnDisk
    BY DEF Count, OnDisk, files
  <2>4. InForceIsOnDisk'
    BY <1>1, <2>3, Zenon DEF IInv, SwapInv, InForceIsOnDisk
  <2> QED
    BY <1>1, <2>1, <2>2, <2>4, Zenon DEF IInv, SwapInv
<1>5. CountInv'
  <2> DEFINE ok == {j \in Call : status[j] = 200}
             done == {j \in Call : pc[j] = "done"}
  <2>1. {j \in Call : status'[j] = 200} = ok \cup {k} /\ k \notin ok
    <3>1. \A j \in Call \ {k} : status'[j] = status[j]
      BY <1>1, Zenon DEF Step
    <3> QED
      BY <1>0, <1>1, <3>1
  <2>2. {j \in Call : pc'[j] = "done"} = done \cup {k} /\ k \notin done
    BY <1>1 DEF Step
  <2>3. IsFiniteSet(ok) /\ IsFiniteSet(done)
    BY ReloadAssumption, FS_Subset
  <2>4. counted.ok = Cardinality(ok) /\ counted.ok + counted.error <= Cardinality(done)
    BY DEF IInv, CountInv
  <2>5. /\ counted.ok \in Nat /\ counted.error \in Nat
        /\ counted'.ok = counted.ok + 1 /\ counted'.error = counted.error
    BY DEF IInv, TypeOK, Count
  <2> HIDE DEF ok, done
  <2>6. /\ Cardinality(ok \cup {k}) = Cardinality(ok) + 1
        /\ Cardinality(done \cup {k}) = Cardinality(done) + 1 /\ Cardinality(done) \in Nat
    BY <2>1, <2>2, <2>3, CountOne, Zenon
  <2>7. /\ Cardinality({j \in Call : status'[j] = 200}) = Cardinality(ok) + 1
        /\ Cardinality({j \in Call : pc'[j] = "done"}) = Cardinality(done) + 1
    BY <2>1, <2>2, <2>6, Zenon
  <2>8. /\ counted'.ok = Cardinality({j \in Call : status'[j] = 200})
        /\ counted'.ok + counted'.error <= Cardinality({j \in Call : pc'[j] = "done"})
    BY <2>4, <2>5, <2>6, <2>7
  <2> QED
    BY <2>8, Zenon DEF CountInv
<1> QED
  BY <1>1, <1>2, <1>3, <1>4, <1>5, OtherCalls, StartKept, Zenon DEF IInv

\* IInv is inductive.
LEMMA NextIInv == ASSUME IInv, [Next]_vars PROVE IInv'
<1>1. CASE UNCHANGED vars
  <2> USE <1>1 DEF vars, files, process, history, IInv
  <2>1. TypeOK'
    BY Zenon DEF TypeOK
  <2>2. StartInv'
    BY Zenon DEF StartInv, Accepted, Complete
  <2>3. \A k \in Call : CallInv(k)'
    BY Zenon DEF CallInv, Accepted, Complete, OnDisk
  <2>4. SwapInv'
    <3>1. OnDisk' = OnDisk /\ \A k \in Call : Installed(k)' = Installed(k)
      BY Zenon DEF OnDisk, Installed
    <3>2. swaps' = swaps /\ installed' = installed /\ got' = got /\ current' = current
      OBVIOUS
    <3>3. \A i \in DOMAIN swaps : swaps[i] \in Call
      BY SwapsTyped, Zenon
    <3>4. InForceIsOnDisk'
      BY <3>1, <3>2, Zenon DEF SwapInv, InForceIsOnDisk
    <3> QED
      BY <3>1, <3>2, <3>3, <3>4, Zenon DEF SwapInv
  <2>5. CountInv'
    BY Zenon DEF CountInv
  <2> QED
    BY <2>1, <2>2, <2>3, <2>4, <2>5
<1>2. ASSUME NEW k \in Call, Task(k) PROVE IInv'
  BY <1>2, ReadIInv, SwapIInv, CountIInv DEF Task
<1>3. ASSUME NEW k \in Call, NoRoots(k) \/ Panic(k) PROVE IInv'
  BY <1>3, ReadIInv
<1>4. ASSUME NEW k \in Call, Disconnect(k) PROVE IInv'
  BY <1>1, <1>4 DEF Disconnect
<1> QED
  BY <1>1, <1>2, <1>3, <1>4, LoadIInv, BindIInv, WriteIInv, PostIInv DEF Next

-----------------------------------------------------------------------------
(* The theorems.                                                            *)

\* IInv holds throughout.
LEMMA Inductive == Spec => []IInv
<1>1. Init => IInv
  BY InitIInv
<1>2. IInv /\ [Next]_vars => IInv'
  BY NextIInv
<1> QED
  BY <1>1, <1>2, PTL DEF Spec

\* The variables of start-up and reload have their types, for any number of
\* calls.
THEOREM ReloadTypeCorrect == Spec => []TypeOK
<1>1. IInv => TypeOK
  BY DEF IInv
<1> QED
  BY <1>1, Inductive, PTL

\* Fail closed, for any number of concurrent reloads and any configurations:
\* the runtime in force passed every check, a bound TLS listener has a whole
\* CA, and a serving process has the listeners it needs.
THEOREM RuntimeAlwaysSound == Spec => []RuntimeSound
<1>1. IInv => RuntimeSound
  <2> SUFFICES ASSUME IInv PROVE RuntimeSound
    OBVIOUS
  <2>1. ASSUME phase \in 1..Serving
        PROVE  installed.config \in Loads \cap Compiles /\ Listen[installed.config] = listening
    BY <2>1, Zenon DEF IInv, StartInv, Accepted
  <2>2. ASSUME bound \cap {"https", "tunnel"} # {}
        PROVE  installed.cert \in Ca /\ installed.key \in Ca
    <3>1. phase \in 1..Serving /\ Accepted(installed.config) /\ Complete(installed)
      BY <2>2, Zenon DEF IInv, StartInv
    <3>2. \A i \in 1..5 : Listeners[i] \in bound => listening[Listeners[i]] # Absent
      BY Zenon DEF IInv, StartInv
    <3>3. listening["https"] # Absent \/ listening["tunnel"] # Absent
      BY <2>2, <3>2, Places
    <3> QED
      BY <3>1, <3>3, ReloadAssumption, Zenon DEF Accepted, Complete
  <2>3. ASSUME phase = Serving PROVE {l \in Needed : listening[l] # Absent} \subseteq bound
    <3>1. /\ phase \in 2..Serving /\ listening["http"] # Absent => "http" \in bound
          /\ phase = Serving /\ listening["management"] # Absent => "management" \in bound
      BY Zenon DEF IInv, StartInv
    <3>2. phase \in 2..Serving
      BY <2>3, Places
    <3> QED
      BY <2>3, <3>1, <3>2, Zenon DEF Needed
  <2> QED
    BY <2>1, <2>2, <2>3, Zenon DEF RuntimeSound
<1> QED
  BY <1>1, Inductive, PTL

\* The answer of every reload call tells what it did to the runtime, and the
\* counters agree with the answers.
THEOREM AnswersTrue == Spec => []AnswerTrue
<1>1. IInv => AnswerTrue
  <2> SUFFICES ASSUME IInv PROVE AnswerTrue
    OBVIOUS
  <2>1. ASSUME NEW k \in Call
        PROVE  Cardinality({i \in DOMAIN swaps : swaps[i] = k}) =
               IF pc[k] = "count" \/ status[k] = 200 THEN 1 ELSE 0
    <3>1. CASE Installed(k)
      <4>1. PICK i \in DOMAIN swaps : swaps[i] = k
        BY <3>1 DEF IInv, SwapInv
      <4>2. {j \in DOMAIN swaps : swaps[j] = k} = {i}
        BY <4>1 DEF IInv, SwapInv
      <4>3. Cardinality({i}) = 1
        BY FS_Singleton
      <4> QED
        BY <3>1, <4>2, <4>3 DEF Installed
    <3>2. CASE ~Installed(k)
      <4>1. {j \in DOMAIN swaps : swaps[j] = k} = {}
        BY <3>2 DEF IInv, SwapInv
      <4> QED
        BY <3>2, <4>1, CountEmpty DEF Installed
    <3> QED
      BY <3>1, <3>2
  <2> QED
    BY <2>1, Zenon DEF IInv, CountInv, AnswerTrue
<1> QED
  BY <1>1, Inductive, PTL

\* What is in force is the last runtime swapped in, and what the files say
\* unless one of them was written while that reload ran.
THEOREM InForceAlwaysOnDisk == Spec => []InForceIsOnDisk
<1>1. IInv => InForceIsOnDisk
  BY DEF IInv, SwapInv
<1> QED
  BY <1>1, Inductive, PTL
=============================================================================
