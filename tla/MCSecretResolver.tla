------------------------- MODULE MCSecretResolver -------------------------
(***************************************************************************)
(* Values for the constants of SecretResolver.                             *)
(***************************************************************************)
EXTENDS SecretResolver, TLC

CONSTANTS file, user, pass, short, long, other

\* The field user of a file, with two ttls, and its field pass.
MCSource == {short, long, other}
MCName == {file}
MCJsonKey == {user, pass}

MCNameOf == [s \in Source |-> file]
MCJsonKeyOf == [s \in Source |-> IF s = other THEN pass ELSE user]

\* user is rotated; pass never is, and never expires.
MCRotating == {<<file, user>>}
MCTtl == [s \in Source |-> CASE s = short -> 2 [] s = long -> 3 [] OTHER -> Forever]
MCFailureTtl == [s \in Source |-> 2]

\* Callers and values are interchangeable.
Symmetry == Permutations(Thread) \cup Permutations(Value)
=============================================================================
