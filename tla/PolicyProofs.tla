--------------------------- MODULE PolicyProofs ---------------------------
(***************************************************************************)
(* The matchers and the loading of a configuration decide what they are    *)
(* meant to decide, for every text, address, rule list and tree.           *)
(***************************************************************************)
EXTENDS Policy, WellFoundedInduction, TLAPS

-----------------------------------------------------------------------------
(* Induction, recursion and texts.                                          *)

\* A set of numbers has a least one.
LEMMA LeastNat ==
    ASSUME NEW S \in SUBSET Nat, S # {}
    PROVE  \E m \in S : \A k \in S : m <= k
<1>1. IsWellFoundedOn(OpToRel(<, Nat), Nat)
  BY NatLessThanWellFounded, Zenon
<1>2. PICK m \in S : \A k \in S : <<k, m>> \notin OpToRel(<, Nat)
  BY <1>1, WFMin, Zenon
<1>3. \A k \in Nat : k < m => <<k, m>> \in OpToRel(<, Nat)
  BY DEF OpToRel
<1>4. \A k \in S : ~(k < m)
  BY <1>2, <1>3, Zenon
<1> QED BY <1>4

\* Induction up to n, for a set.
LEMMA UpTo ==
    ASSUME NEW n \in Nat, NEW S, 0 \in S, \A i \in 1..n : i - 1 \in S => i \in S
    PROVE  \A i \in 0..n : i \in S
<1> DEFINE T == {i \in 0..n : i \notin S}
<1> SUFFICES ASSUME T # {} PROVE FALSE
  OBVIOUS
<1>1. PICK m \in T : \A k \in T : m <= k
  <2>1. T \in SUBSET Nat
    OBVIOUS
  <2> HIDE DEF T
  <2> QED BY <2>1, LeastNat
<1>2. m \in 1..n /\ m - 1 \in 0..n /\ ~(m <= m - 1)
  OBVIOUS
<1>3. m - 1 \notin T
  BY <1>1, <1>2
<1> QED BY <1>2, <1>3

\* A sequence that is not empty has a last element.
LEMMA NonEmpty ==
    ASSUME NEW S, NEW s \in Seq(S), s # <<>>
    PROVE  Len(s) \in Nat /\ Len(s) >= 1 /\ s[Len(s)] \in S
OBVIOUS

\* Texts with the same characters at the same places are equal.
LEMMA SameText ==
    ASSUME NEW s \in Text, NEW t \in Text, Len(s) = Len(t), \A i \in 1..Len(s) : s[i] = t[i]
    PROVE  s = t
BY DEF Text

\* Changing one element keeps a sequence a sequence of its length.
LEMMA ExceptSeq ==
    ASSUME NEW S, NEW s \in Seq(S), NEW i \in 1..Len(s), NEW x \in S
    PROVE  /\ [s EXCEPT ![i] = x] \in Seq(S) /\ Len([s EXCEPT ![i] = x]) = Len(s)
           /\ [s EXCEPT ![i] = x] # <<>>
<1> DEFINE t == [s EXCEPT ![i] = x]
<1>1. Len(s) \in Nat /\ t \in [1..Len(s) -> S]
  OBVIOUS
<1> HIDE DEF t
<1>2. t \in Seq(S) /\ Len(t) = Len(s)
  BY <1>1
<1> QED BY <1>2 DEF t

\* `part` follows k characters of s, character by character: str::starts_with
\* on the rest of s.
LEMMA FollowsMeans ==
    ASSUME NEW s \in Text, NEW part \in Text, NEW k \in Nat
    PROVE  Follows(s, part, k) <=>
             k + Len(part) <= Len(s) /\ \A i \in 1..Len(part) : s[k + i] = part[i]
<1> SUFFICES ASSUME k + Len(part) <= Len(s)
             PROVE  Follows(s, part, k) <=> \A i \in 1..Len(part) : s[k + i] = part[i]
  BY DEF Follows
<1> DEFINE u == SubSeq(s, k + 1, k + Len(part))
<1>1. u \in Text /\ Len(u) = Len(part) /\ \A i \in 1..Len(part) : u[i] = s[k + i]
  BY DEF Text
<1>2. Follows(s, part, k) <=> u = part
  BY DEF Follows
<1> HIDE DEF u
<1>3. u = part <=> \A i \in 1..Len(part) : u[i] = part[i]
  BY <1>1, SameText
<1> QED BY <1>1, <1>2, <1>3

\* The n steps of a loop on a state in A, and a run of them from `base`.
Steps(step, n, A) == step \in [1..n -> [A -> A]]
Run(f, step, n, A, base) ==
    f \in [0..n -> A] /\ f[0] = base /\ \A i \in 1..n : f[i] = step[i][f[i - 1]]

\* A loop has a run: functions defined by recursion up to n exist.
LEMMA Recursion ==
    ASSUME NEW n \in Nat, NEW A, NEW base \in A, NEW step, Steps(step, n, A)
    PROVE  \E f : Run(f, step, n, A, base)
<1> USE DEF Steps
<1> DEFINE Ok(f, k) == f[0] = base /\ \A i \in 1..k : f[i] = step[i][f[i - 1]]
           S == {k \in 0..n : \E f \in [0..k -> A] : Ok(f, k)}
<1>1. 0 \in S
  <2> DEFINE f == [i \in 0..0 |-> base]
  <2>1. f \in [0..0 -> A] /\ Ok(f, 0)
    OBVIOUS
  <2> HIDE DEF f, Ok
  <2> QED BY <2>1
<1>2. ASSUME NEW k \in 1..n, k - 1 \in S
      PROVE  k \in S
  <2>1. PICK f \in [0..(k - 1) -> A] : Ok(f, k - 1)
    BY <1>2
  <2> DEFINE x == step[k][f[k - 1]]
             g == [i \in 0..k |-> IF i = k THEN x ELSE f[i]]
  <2>2. x \in A
    OBVIOUS
  <2>3. g \in [0..k -> A]
    BY <2>2
  <2>4. g[0] = base
    BY <2>1
  <2>5. ASSUME NEW i \in 1..k
        PROVE  g[i] = step[i][g[i - 1]]
    <3>1. CASE i = k
      <4>1. k \in 0..k /\ k - 1 \in 0..k /\ k - 1 # k
        OBVIOUS
      <4>2. g[k] = x /\ g[k - 1] = f[k - 1]
        BY <4>1
      <4> QED BY <3>1, <4>2
    <3>2. CASE i # k
      <4>1. i \in 1..(k - 1) /\ i - 1 \in 0..k /\ i - 1 # k /\ i \in 0..k
        BY <3>2
      <4>2. f[i] = step[i][f[i - 1]]
        BY <2>1, <4>1
      <4> QED BY <3>2, <4>1, <4>2
    <3> QED BY <3>1, <3>2
  <2> HIDE DEF g
  <2>6. Ok(g, k)
    BY <2>4, <2>5
  <2> HIDE DEF Ok
  <2> QED BY <2>3, <2>6
<1> HIDE DEF S
<1>3. \A k \in 0..n : k \in S
  BY <1>1, <1>2, UpTo, Zenon
<1> QED BY <1>3 DEF S, Run

\* Two functions that start alike and take the same steps are the same.
LEMMA SameSteps ==
    ASSUME NEW n \in Nat, NEW f, NEW g, f[0] = g[0],
           \A i \in 1..n : f[i - 1] = g[i - 1] => f[i] = g[i]
    PROVE  \A i \in 0..n : f[i] = g[i]
<1> DEFINE S == {i \in 0..n : f[i] = g[i]}
<1>1. 0 \in S
  OBVIOUS
<1>2. \A i \in 1..n : i - 1 \in S => i \in S
  OBVIOUS
<1> HIDE DEF S
<1>3. \A i \in 0..n : i \in S
  BY <1>1, <1>2, UpTo
<1> QED BY <1>3 DEF S

-----------------------------------------------------------------------------
(* Path globs.                                                              *)

\* p holds the parts that the first i characters of s make.
Splits(p, s, ch) ==
    /\ p \in [0..Len(s) -> Seq(Text) \ {<<>>}]
    /\ p[0] = << <<>> >>
    /\ \A i \in 1..Len(s) :
         p[i] = IF s[i] = ch THEN Append(p[i - 1], <<>>)
                ELSE [p[i - 1] EXCEPT ![Len(p[i - 1])] = Append(@, s[i])]

\* rest holds how much of the path precedes what is left, part by part.
Rests(rest, F, path) ==
    /\ rest \in [0..Len(F) - 1 -> -1..Len(path)]
    /\ rest[0] = IF Follows(path, F[1], 0) THEN Len(F[1]) ELSE Nowhere
    /\ \A k \in 1..Len(F) - 1 : rest[k] = find(path, F[k + 1], rest[k - 1])

\* The end of PathGlob::matches.
Ends(rest, F, pattern, path) ==
    LET end == Len(path) - Len(F[Len(F)]) IN
    IF Len(F) = 1 THEN pattern = path
    ELSE rest[Len(F) - 2] # Nowhere /\ rest[Len(F) - 2] <= end /\ Follows(path, F[Len(F)], end)

\* r holds what the first i characters of the pattern can reach.
Reaches(r, pattern, path) ==
    /\ r[0] = {0}
    /\ \A i \in 1..Len(pattern) :
         r[i] = IF pattern[i] = "*" THEN {j \in 0..Len(path) : \E k \in r[i - 1] : k <= j}
                ELSE {j \in 1..Len(path) : j - 1 \in r[i - 1] /\ path[j] = pattern[i]}

\* The places the last part may begin at, once the parts before it are placed.
Begins(rest, n, k) ==
    IF n = 1 THEN k = 0 ELSE rest[n - 2] # Nowhere /\ rest[n - 2] <= k

\* What the first i characters reach is what the last of their parts can end
\* at, behind the leftmost places of the parts before it.
Placed(R, n, last, rest, path) ==
    \A j : j \in R <=> /\ j \in 0..Len(path) /\ Begins(rest, n, j - Len(last))
                       /\ Follows(path, last, j - Len(last))

\* The i-th character ends one part at a `ch` and otherwise grows the last one.
Grows(p, s, ch, i) ==
    LET n == Len(p[i - 1]) IN
    /\ n \in Nat /\ n >= 1 /\ p[i - 1][n] \in Text /\ s[i] \in Char
    /\ s[i] = ch => Len(p[i]) = n + 1 /\ p[i][n + 1] = <<>> /\ p[i][n] = p[i - 1][n]
    /\ s[i] # ch => Len(p[i]) = n /\ p[i][n] = Append(p[i - 1][n], s[i])

\* PathGlob::matches decides what "*" means, although it only tries the
\* leftmost place of every part.
THEOREM PathAgrees ==
    \A pattern, path \in Text : path_matches(pattern, path) <=> PathMeans(pattern, path)
\* str::split takes one character at a time.
<1>1. ASSUME NEW s \in Text, NEW ch
      PROVE  \E p : Splits(p, s, ch) /\ split(s, ch) = p[Len(s)]
  <2> DEFINE A == Seq(Text) \ {<<>>}
             base == << <<>> >>
             n == Len(s)
             next(i, before) == IF s[i] = ch THEN Append(before, <<>>)
                                ELSE [before EXCEPT ![Len(before)] = Append(@, s[i])]
             step == [i \in 1..n |-> [before \in A |-> next(i, before)]]
             g[i \in 0..n] == IF i = 0 THEN base ELSE next(i, g[i - 1])
  <2>1. n \in Nat /\ \A i \in 1..n : s[i] \in Char
    BY DEF Text
  <2>2. <<>> \in Text /\ base \in A
    BY DEF Text
  <2>3. ASSUME NEW i \in 1..n, NEW before \in A
        PROVE  next(i, before) \in A
    <3>1. Len(before) \in 1..Len(before) /\ before[Len(before)] \in Text
      OBVIOUS
    <3>2. Append(before, <<>>) \in A
      BY <2>2
    <3>3. Append(before[Len(before)], s[i]) \in Text
      BY <2>1, <3>1 DEF Text
    <3>4. [before EXCEPT ![Len(before)] = Append(@, s[i])] \in A
      BY <3>1, <3>3, ExceptSeq
    <3> QED BY <3>2, <3>4
  <2>4. split(s, ch) = g[n]
    BY DEF split
  <2>5. g = CHOOSE f : f = [i \in 0..n |-> IF i = 0 THEN base ELSE next(i, f[i - 1])]
    OBVIOUS
  <2>6. ASSUME NEW i, NEW x
        PROVE  next(i, x) = IF s[i] = ch THEN Append(x, <<>>)
                            ELSE [x EXCEPT ![Len(x)] = Append(@, s[i])]
    OBVIOUS
  <2> HIDE DEF A, base, next, n, g
  <2>7. Steps(step, n, A)
    BY <2>3 DEF Steps
  <2>8. \A i \in 1..n, x \in A : step[i][x] = next(i, x)
    OBVIOUS
  <2> HIDE DEF step
  <2>9. PICK f : Run(f, step, n, A, base)
    BY <2>1, <2>2, <2>7, Recursion
  <2>10. \A i \in 1..n : f[i] = next(i, f[i - 1])
    BY <2>1, <2>8, <2>9 DEF Run
  <2>11. f = [i \in 0..n |-> IF i = 0 THEN base ELSE next(i, f[i - 1])]
    BY <2>1, <2>9, <2>10 DEF Run
  <2>12. g = [i \in 0..n |-> IF i = 0 THEN base ELSE next(i, g[i - 1])]
    BY <2>5, <2>11, Zenon
  <2>13. \A i \in 0..n : g[i] = f[i]
    <3>0. n \in Nat BY <2>1
    <3>1. g[0] = f[0]
      BY <2>1, <2>9, <2>12 DEF Run
    <3>3. \A i \in 1..n : g[i] = next(i, g[i - 1])
      BY <2>1, <2>9, <2>12 DEF Run
    <3>2. \A i \in 1..n : g[i - 1] = f[i - 1] => g[i] = f[i]
      BY <2>10, <3>3
    <3> QED BY <3>0, <3>1, <3>2, SameSteps
  <2>14. split(s, ch) = f[n]
    BY <2>1, <2>4, <2>13
  <2>15. \A i \in 1..n : f[i] = IF s[i] = ch THEN Append(f[i - 1], <<>>)
                            ELSE [f[i - 1] EXCEPT ![Len(f[i - 1])] = Append(@, s[i])]
    BY <2>6, <2>10, Zenon
  <2> QED BY <2>9, <2>14, <2>15, Zenon DEF A, base, n, Run, Splits
\* The parts of the first i characters keep their places in all the parts,
\* the one that is still growing excepted.
<1>2. ASSUME NEW s \in Text, NEW ch, NEW p, Splits(p, s, ch)
      PROVE  \A i \in 0..Len(s) :
                 /\ Len(p[i]) <= Len(p[Len(s)])
                 /\ \A k \in 1..Len(p[i]) - 1 : p[i][k] = p[Len(s)][k]
  <2> USE <1>2
  <2> USE DEF Splits
  <2> DEFINE n == Len(s)  F == p[n]
             Kept(i) == Len(p[i]) <= Len(F) /\ \A k \in 1..Len(p[i]) - 1 : p[i][k] = F[k]
             S == {j \in 0..n : Kept(n - j)}
  <2>1. n \in Nat
    BY DEF Text
  <2>2. \A i \in 0..n : p[i] \in Seq(Text) /\ Len(p[i]) \in Nat /\ Len(p[i]) >= 1
    <3> SUFFICES ASSUME NEW i \in 0..n
                 PROVE  p[i] \in Seq(Text) /\ Len(p[i]) \in Nat /\ Len(p[i]) >= 1
      OBVIOUS
    <3>1. p[i] \in Seq(Text) /\ p[i] # <<>>
      BY Zenon
    <3> HIDE DEF n
    <3> QED BY <3>1, NonEmpty
  <2>3. 0 \in S
    BY <2>1, <2>2
  <2>4. ASSUME NEW j \in 1..n, j - 1 \in S
        PROVE  j \in S
    <3> DEFINE i == n - j
    <3>1. i \in 0..n /\ i + 1 \in 1..n /\ i + 1 \in 0..n /\ n - (j - 1) = i + 1 /\ (i + 1) - 1 = i
      BY <2>1
    <3>2. Kept(i + 1)
      BY <2>4, <3>1
    <3>3. Len(p[i]) <= Len(p[i + 1]) /\ \A k \in 1..Len(p[i]) - 1 : p[i + 1][k] = p[i][k]
      <4> DEFINE b == p[i]  m == Len(b)
      <4>1. b \in Seq(Text) /\ m \in Nat /\ m >= 1
        BY <2>2, <3>1
      <4>2. CASE s[i + 1] = ch
        <5>1. p[i + 1] = Append(b, <<>>)
          BY <3>1, <4>2, Zenon
        <5> HIDE DEF b
        <5> QED BY <4>1, <5>1 DEF b
      <4>3. CASE s[i + 1] # ch
        <5>1. p[i + 1] = [b EXCEPT ![m] = Append(@, s[i + 1])]
          BY <3>1, <4>3, Zenon
        <5> HIDE DEF b, m
        <5>2. DOMAIN b = 1..m
          BY <4>1 DEF m
        <5>3. \A k \in 1..m - 1 : p[i + 1][k] = b[k]
          BY <4>1, <5>1, <5>2
        <5>4. p[i + 1] \in Seq(Text) /\ DOMAIN p[i + 1] = 1..m
          BY <2>2, <3>1, <5>1, <5>2, Zenon
        <5>5. Len(p[i + 1]) = m
          BY <4>1, <5>4
        <5> QED BY <5>3, <5>5, <4>1 DEF b, m
      <4> QED BY <4>2, <4>3
    <3>4. Kept(i)
      BY <2>2, <3>1, <3>2, <3>3
    <3> QED BY <3>4
  <2> HIDE DEF S
  <2>5. \A j \in 0..n : j \in S
    BY <2>1, <2>3, <2>4, UpTo, Zenon
  <2>6. ASSUME NEW i \in 0..n PROVE Kept(i)
    <3>1. n - i \in 0..n /\ n - (n - i) = i
      BY <2>1
    <3> HIDE DEF Kept
    <3>2. Kept(n - (n - i))
      BY <2>5, <3>1 DEF S
    <3> QED BY <3>1, <3>2
  <2> QED BY <2>6
\* What str::find returns.
<1>3. ASSUME NEW s \in Text, NEW part \in Text, NEW from \in -1..Len(s)
      PROVE  /\ find(s, part, from) \in -1..Len(s)
             /\ from = Nowhere => find(s, part, from) = Nowhere
             /\ from # Nowhere /\ find(s, part, from) = Nowhere =>
                  \A i \in from..Len(s) : ~Follows(s, part, i)
             /\ from # Nowhere /\ find(s, part, from) # Nowhere =>
                  LET m == find(s, part, from) - Len(part) IN
                  /\ m \in from..Len(s) /\ Follows(s, part, m)
                  /\ \A i \in from..Len(s) : Follows(s, part, i) => m <= i
  <2> DEFINE at == {i \in from..Len(s) : from # Nowhere /\ Follows(s, part, i)}
  <2>1. Len(s) \in Nat /\ Len(part) \in Nat
    BY DEF Text
  <2>2. find(s, part, from) = IF at = {} THEN Nowhere ELSE Min(at) + Len(part)
    BY DEF find
  <2>3. CASE at = {}
    BY <2>1, <2>2, <2>3 DEF Nowhere
  <2>4. CASE at # {}
    <3>1. from # Nowhere /\ at \in SUBSET Nat
      BY <2>1, <2>4 DEF Nowhere
    <3>2. PICK m \in at : \A k \in at : m <= k
      <4> HIDE DEF at
      <4> QED BY <2>4, <3>1, LeastNat
    <3>3. Min(at) \in at /\ \A k \in at : Min(at) <= k
      <4>1. Min(at) = CHOOSE x \in at : \A y \in at : x =< y
        BY DEF Min
      <4> HIDE DEF at
      <4> QED BY <3>2, <4>1
    <3>4. Min(at) + Len(part) <= Len(s)
      BY <3>3 DEF Follows
    <3> DEFINE f == find(s, part, from)
    <3>5. f = Min(at) + Len(part)
      BY <2>2, <2>4
    <3>6. f - Len(part) = Min(at) /\ Min(at) \in from..Len(s) /\ Follows(s, part, Min(at))
      BY <2>1, <3>3, <3>5
    <3>7. \A i \in from..Len(s) : Follows(s, part, i) => Min(at) <= i
      BY <3>1, <3>3
    <3>8. f \in -1..Len(s) /\ f # Nowhere
      BY <2>1, <3>1, <3>4, <3>5, <3>6 DEF Nowhere
    <3> HIDE DEF f
    <3> QED BY <3>1, <3>6, <3>7, <3>8 DEF f
  <2> QED BY <2>3, <2>4
<1>4. ASSUME NEW s \in Text, NEW part \in Text, NEW x \in Char, NEW k \in Nat
      PROVE  Follows(s, Append(part, x), k) <=>
               /\ Follows(s, part, k)
               /\ k + Len(part) + 1 <= Len(s) /\ s[k + Len(part) + 1] = x
  <2> DEFINE l == Len(part)  t == Append(part, x)
  <2>1. l \in Nat /\ Len(s) \in Nat /\ t \in Text /\ Len(t) = l + 1 /\ t[l + 1] = x
        /\ \A i \in 1..l : t[i] = part[i]
    BY DEF Text
  <2> HIDE DEF t, l
  <2>3. Follows(s, t, k) <=> k + l + 1 <= Len(s) /\ \A i \in 1..l + 1 : s[k + i] = t[i]
    <3>1. Follows(s, t, k) <=> k + Len(t) <= Len(s) /\ \A i \in 1..Len(t) : s[k + i] = t[i]
      BY <2>1, FollowsMeans, Zenon
    <3>2. k + Len(t) = k + l + 1
      BY <2>1
    <3> QED BY <2>1, <3>1, <3>2
  <2>4. Follows(s, part, k) <=> k + l <= Len(s) /\ \A i \in 1..l : s[k + i] = part[i]
    BY <2>1, FollowsMeans DEF l
  <2>5. Follows(s, t, k) <=> Follows(s, part, k) /\ k + l + 1 <= Len(s) /\ s[k + l + 1] = x
    <3>1. (\A i \in 1..l + 1 : s[k + i] = t[i])
             <=> (\A i \in 1..l : s[k + i] = part[i]) /\ s[k + (l + 1)] = x
      <4>1. \A i : i \in 1..l + 1 <=> i \in 1..l \/ i = l + 1
        BY <2>1
      <4>2. (\A i \in 1..l + 1 : s[k + i] = t[i])
               <=> (\A i \in 1..l : s[k + i] = t[i]) /\ s[k + (l + 1)] = t[l + 1]
        BY <4>1, Zenon
      <4>3. (\A i \in 1..l : s[k + i] = t[i]) <=> (\A i \in 1..l : s[k + i] = part[i])
        BY <2>1, Zenon
      <4> QED BY <2>1, <4>2, <4>3, Zenon
    <3>2. k + (l + 1) = k + l + 1 /\ (k + l + 1 <= Len(s) => k + l <= Len(s))
      BY <2>1
    <3> QED BY <2>3, <2>4, <3>1, <3>2
  <2> QED BY <2>5 DEF t, l
\* The loop of PathGlob::matches over the parts, and its last test.
<1>5. ASSUME NEW pattern \in Text, NEW path \in Text, NEW F, F = split(pattern, "*"),
             F \in Seq(Text), F # <<>>
      PROVE  \E rest : /\ Rests(rest, F, path)
                       /\ path_matches(pattern, path) <=> Ends(rest, F, pattern, path)
  <2> USE <1>5
  <2> DEFINE n == Len(F) - 1
             A == -1..Len(path)
             base == IF Follows(path, F[1], 0) THEN Len(F[1]) ELSE Nowhere
             next(k, before) == find(path, F[k + 1], before)
             step == [k \in 1..n |-> [before \in A |-> next(k, before)]]
             g[k \in 0..n] == IF k = 0 THEN base ELSE next(k, g[k - 1])
  <2>0. path_matches(pattern, path) <=> Ends(g, F, pattern, path)
    BY DEF path_matches, Ends
  <2>1. n \in Nat /\ Len(path) \in Nat /\ F[1] \in Text /\ \A k \in 1..n : F[k + 1] \in Text
    BY DEF Text
  <2>2. base \in A
    BY <2>1 DEF Nowhere, Follows, Text
  <2>3. ASSUME NEW k \in 1..n, NEW before \in A
        PROVE  next(k, before) \in A
    BY <2>1, <1>3, Zenon
  <2>4. g = CHOOSE f : f = [k \in 0..n |-> IF k = 0 THEN base ELSE next(k, f[k - 1])]
    OBVIOUS
  <2> HIDE DEF A, base, next, n, g
  <2>5. Steps(step, n, A)
    BY <2>3 DEF Steps
  <2>6. \A k \in 1..n, x \in A : step[k][x] = next(k, x)
    OBVIOUS
  <2> HIDE DEF step
  <2>7. PICK f : Run(f, step, n, A, base)
    BY <2>1, <2>2, <2>5, Recursion
  <2>8. \A k \in 1..n : f[k] = next(k, f[k - 1])
    BY <2>1, <2>6, <2>7 DEF Run
  <2>9. f = [k \in 0..n |-> IF k = 0 THEN base ELSE next(k, f[k - 1])]
    BY <2>1, <2>7, <2>8 DEF Run
  <2>10. g = [k \in 0..n |-> IF k = 0 THEN base ELSE next(k, g[k - 1])]
    BY <2>4, <2>9, Zenon
  <2>11. g[0] = base /\ \A k \in 1..n : g[k] = next(k, g[k - 1])
    BY <2>1, <2>10
  <2>12. 0 \in {i \in 0..n : g[i] \in A}
    BY <2>1, <2>2, <2>11
  <2>13. \A k \in 0..n : g[k] \in A
    <3> DEFINE S == {i \in 0..n : g[i] \in A}
    <3>1. \A i \in 1..n : i - 1 \in S => i \in S
      BY <2>3, <2>11
    <3> HIDE DEF S
    <3>2. 0 \in S
      BY <2>12 DEF S
    <3>3. n \in Nat
      BY <2>1
    <3>4. \A i \in 0..n : i \in S
      BY <3>1, <3>2, <3>3, UpTo, Zenon
    <3> QED BY <3>4 DEF S
  <2>14. Rests(g, F, path)
    BY <2>1, <2>10, <2>11, <2>13, Zenon DEF A, base, n, next, Rests
  <2> QED BY <2>0, <2>14
\* Reach takes one character of the pattern at a time.
<1>6. ASSUME NEW pattern \in Text, NEW path \in Text
      PROVE  \E r : Reaches(r, pattern, path) /\ Reach(pattern, path) = r[Len(pattern)]
  <2> DEFINE n == Len(pattern)
             A == SUBSET Nat
             base == {0}
             next(i, before) ==
                 IF pattern[i] = "*" THEN {j \in 0..Len(path) : \E k \in before : k <= j}
                 ELSE {j \in 1..Len(path) : j - 1 \in before /\ path[j] = pattern[i]}
             step == [i \in 1..n |-> [before \in A |-> next(i, before)]]
             g[i \in 0..n] == IF i = 0 THEN base ELSE next(i, g[i - 1])
  <2>1. n \in Nat /\ base \in A
    BY DEF Text
  <2>2. ASSUME NEW i \in 1..n, NEW before \in A
        PROVE  next(i, before) \in A
    OBVIOUS
  <2>3. Reach(pattern, path) = g[n]
    BY DEF Reach
  <2>4. g = CHOOSE f : f = [i \in 0..n |-> IF i = 0 THEN base ELSE next(i, f[i - 1])]
    OBVIOUS
  <2> HIDE DEF A, base, next, n, g
  <2>5. Steps(step, n, A)
    BY <2>2 DEF Steps
  <2>6. \A i \in 1..n, x \in A : step[i][x] = next(i, x)
    OBVIOUS
  <2> HIDE DEF step
  <2>7. PICK f : Run(f, step, n, A, base)
    BY <2>1, <2>5, Recursion
  <2>8. f = [i \in 0..n |-> IF i = 0 THEN base ELSE next(i, f[i - 1])]
    BY <2>1, <2>6, <2>7 DEF Run
  <2>9. g = [i \in 0..n |-> IF i = 0 THEN base ELSE next(i, g[i - 1])]
    BY <2>4, <2>8, Zenon
  <2>10. g[0] = base /\ \A i \in 1..n : g[i] = next(i, g[i - 1])
    BY <2>1, <2>9
  <2> QED BY <2>3, <2>10, Zenon DEF base, n, next, Reaches
\* Where the leftmost place of a part ends decides what any place can reach.
<1>7. ASSUME NEW path \in Text, NEW part \in Text, NEW from \in -1..Len(path),
             NEW j \in 0..Len(path)
      PROVE  (\E k \in 0..Len(path) : /\ from # Nowhere /\ from <= k - Len(part)
                                      /\ Follows(path, part, k - Len(part)) /\ k <= j)
             <=> find(path, part, from) # Nowhere /\ find(path, part, from) <= j
  <2> DEFINE l == Len(part)  M == Len(path)  f == find(path, part, from)  m == f - l
             P(i) == Follows(path, part, i)
  <2>1. l \in Nat /\ M \in Nat
    BY DEF Text
  <2>2. /\ f \in -1..M
        /\ from = Nowhere => f = Nowhere
        /\ from # Nowhere /\ f = Nowhere => \A i \in from..M : ~P(i)
        /\ from # Nowhere /\ f # Nowhere =>
             m \in from..M /\ P(m) /\ \A i \in from..M : P(i) => m <= i
    BY <1>3, Zenon
  <2> HIDE DEF l, M, f, P
  <2>3. ASSUME NEW k \in 0..M, from # Nowhere, from <= k - l, P(k - l), k <= j
        PROVE  f # Nowhere /\ f <= j
    <3>1. k - l \in from..M
      BY <2>1, <2>3
    <3> QED BY <2>1, <2>2, <2>3, <3>1
  <2>4. ASSUME f # Nowhere, f <= j
        PROVE  \E k \in 0..M : from # Nowhere /\ from <= k - l /\ P(k - l) /\ k <= j
    <3>1. f \in 0..M /\ from # Nowhere /\ from <= f - l /\ P(f - l)
      BY <2>1, <2>2, <2>4 DEF Nowhere
    <3> QED BY <2>4, <3>1
  <2> QED BY <2>3, <2>4 DEF l, M, f, P
\* A character that is no "*" makes the last part longer.
<1>8. ASSUME NEW path \in Text, NEW n \in Nat, n >= 1, NEW last \in Text, NEW x \in Char,
             NEW rest, n > 1 => rest[n - 2] \in -1..Len(path),
             NEW R, Placed(R, n, last, rest, path)
      PROVE  Placed({j \in 1..Len(path) : j - 1 \in R /\ path[j] = x}, n, Append(last, x), rest, path)
  <2> USE <1>8
  <2> DEFINE l == Len(last)  M == Len(path)
             B(k) == Begins(rest, n, k)
             P(k) == Follows(path, last, k)
             P1(k) == Follows(path, Append(last, x), k)
             R1 == {j \in 1..M : j - 1 \in R /\ path[j] = x}
  <2>1. l \in Nat /\ M \in Nat /\ Append(last, x) \in Text /\ Len(Append(last, x)) = l + 1
    BY DEF Text
  <2>2. \A j : j \in R <=> j \in 0..M /\ B(j - l) /\ P(j - l)
    BY DEF Placed
  <2>3. \A k \in Int : B(k) => k >= 0
    BY <2>1 DEF Begins, Nowhere
  <2>4. \A k \in Int : k >= 0 => (P1(k) <=> P(k) /\ k + l + 1 <= M /\ path[k + l + 1] = x)
    BY <1>4
  <2> HIDE DEF B, P, P1, l, M
  <2>5. ASSUME NEW j
        PROVE  j \in R1 <=> j \in 0..M /\ B(j - (l + 1)) /\ P1(j - (l + 1))
    <3>1. CASE j \notin 0..M
      BY <2>1, <3>1
    <3>2. CASE j \in 0..M
      <4> DEFINE k == j - (l + 1)
      <4>1. k \in Int /\ k + l + 1 = j /\ j - 1 - l = k /\ j <= M
        BY <2>1, <3>2
      <4>2. j \in R1 <=> j \in 1..M /\ B(k) /\ P(k) /\ path[j] = x
        BY <2>1, <2>2, <3>2, <4>1
      <4>3. B(k) => (P1(k) <=> P(k) /\ path[j] = x)
        BY <2>3, <2>4, <4>1
      <4>4. B(k) => j \in 1..M
        BY <2>1, <2>3, <3>2, <4>1
      <4> QED BY <3>2, <4>2, <4>3, <4>4
    <3> QED BY <3>1, <3>2
  <2> QED BY <2>1, <2>5 DEF B, P1, l, M, Placed
\* A "*" begins a part: it can be anywhere behind the leftmost place of the
\* one before.
<1>9. ASSUME NEW path \in Text, NEW n \in Nat, n >= 1, NEW last \in Text,
             NEW rest, n > 1 => rest[n - 2] \in -1..Len(path),
             rest[n - 1] = IF n = 1 THEN IF Follows(path, last, 0) THEN Len(last) ELSE Nowhere
                           ELSE find(path, last, rest[n - 2]),
             NEW R, Placed(R, n, last, rest, path)
      PROVE  Placed({j \in 0..Len(path) : \E k \in R : k <= j}, n + 1, <<>>, rest, path)
  <2> USE <1>9
  <2> DEFINE l == Len(last)  M == Len(path)
             P(k) == Follows(path, last, k)
             R1 == {j \in 0..M : \E k \in R : k <= j}
  <2>1. l \in Nat /\ M \in Nat /\ (n + 1) - 2 = n - 1 /\ n + 1 # 1
    BY DEF Text
  <2>2. \A j : j \in R <=> j \in 0..M /\ Begins(rest, n, j - l) /\ P(j - l)
    BY DEF Placed
  <2>3. \A j \in 0..M : Follows(path, <<>>, j)
    BY <2>1 DEF Follows, Text
  <2>4. \A j \in 0..M : Begins(rest, n + 1, j) <=> rest[n - 1] # Nowhere /\ rest[n - 1] <= j
    BY <2>1 DEF Begins
  <2>5. ASSUME NEW j \in 0..M
        PROVE  (\E k \in R : k <= j) <=> rest[n - 1] # Nowhere /\ rest[n - 1] <= j
    <3>1. CASE n = 1
      <4>1. rest[n - 1] = IF P(0) THEN l ELSE Nowhere
        BY <3>1
      <4>2. \A k : k \in R <=> k \in 0..M /\ k = l /\ P(0)
        <5>1. \A k : k \in 0..M => (k - l = 0 <=> k = l)
          BY <2>1
        <5> QED BY <2>2, <3>1, <5>1 DEF Begins
      <4>3. P(0) => l \in 0..M
        BY <2>1 DEF Follows
      <4> HIDE DEF P, l, M
      <4> QED BY <2>1, <4>1, <4>2, <4>3 DEF Nowhere
    <3>2. CASE n # 1
      <4>1. rest[n - 2] \in -1..M /\ rest[n - 1] = find(path, last, rest[n - 2])
        BY <3>2
      <4>2. \A k : k \in R <=> /\ k \in 0..M /\ rest[n - 2] # Nowhere /\ rest[n - 2] <= k - l
                               /\ P(k - l)
        BY <2>2, <3>2 DEF Begins
      <4>3. (\E k \in 0..M : /\ rest[n - 2] # Nowhere /\ rest[n - 2] <= k - l
                             /\ P(k - l) /\ k <= j)
               <=> rest[n - 1] # Nowhere /\ rest[n - 1] <= j
        <5>1. PICK from \in -1..M : from = rest[n - 2]
          BY <4>1
        <5>2. (\E k \in 0..M : from # Nowhere /\ from <= k - l /\ P(k - l) /\ k <= j)
                 <=> find(path, last, from) # Nowhere /\ find(path, last, from) <= j
          BY <1>7
        <5> QED BY <4>1, <5>1, <5>2, Zenon
      <4> HIDE DEF P, l, M
      <4> QED BY <4>2, <4>3
    <3> QED BY <3>1, <3>2
  <2>6. \A j : j \in R1 <=> j \in 0..M /\ Begins(rest, n + 1, j) /\ Follows(path, <<>>, j)
    BY <2>3, <2>4, <2>5
  <2>7. Len(<<>>) = 0 /\ \A j \in 0..M : j - 0 = j
    BY <2>1
  <2> HIDE DEF M, R1
  <2>8. \A j : j \in R1 <=> j \in 0..M /\ Begins(rest, n + 1, j - 0) /\ Follows(path, <<>>, j - 0)
    BY <2>6, <2>7
  <2> QED BY <2>7, <2>8 DEF M, R1, Placed
\* A step of a split.
<1>10. ASSUME NEW s \in Text, NEW ch, NEW p, Splits(p, s, ch), NEW i \in 1..Len(s)
       PROVE  Grows(p, s, ch, i)
  <2> USE <1>10 DEF Grows
  <2> DEFINE b == p[i - 1]  n == Len(b)
  <2>0. i - 1 \in 0..Len(s) /\ i \in 0..Len(s) /\ s[i] \in Char
    BY DEF Text
  <2>1. b \in Seq(Text) /\ b # <<>> /\ s[i] \in Char /\ p[i] \in Seq(Text)
    BY <2>0, Zenon DEF Splits
  <2>2. n \in Nat /\ n >= 1 /\ b[n] \in Text
    <3> HIDE DEF b
    <3> QED BY <2>1, NonEmpty
  <2>3. p[i] = IF s[i] = ch THEN Append(b, <<>>) ELSE [b EXCEPT ![n] = Append(@, s[i])]
    BY DEF Splits
  <2> HIDE DEF b
  <2>4. CASE s[i] = ch
    <3>1. p[i] = Append(b, <<>>)
      BY <2>3, <2>4
    <3> QED BY <2>1, <2>2, <2>4, <3>1 DEF b
  <2>5. CASE s[i] # ch
    <3>1. p[i] = [b EXCEPT ![n] = Append(@, s[i])]
      BY <2>3, <2>5
    <3>2. DOMAIN b = 1..n /\ n \in DOMAIN b
      BY <2>1, <2>2
    <3>3. p[i][n] = Append(b[n], s[i])
      BY <3>1, <3>2
    <3>4. DOMAIN p[i] = 1..n
      BY <3>1, <3>2
    <3>5. Len(p[i]) = n
      BY <2>1, <2>2, <3>4
    <3> QED BY <2>1, <2>2, <2>5, <3>3, <3>5 DEF b
  <2> QED BY <2>4, <2>5, Zenon
\* PathGlob::matches decides what "*" means, although it only tries the
\* leftmost place of every part.
<1>11. ASSUME NEW pattern \in Text, NEW path \in Text
       PROVE  path_matches(pattern, path) <=> PathMeans(pattern, path)
  <2> DEFINE N == Len(pattern)  M == Len(path)
  <2>1. PICK p : Splits(p, pattern, "*") /\ split(pattern, "*") = p[N]
    BY <1>1
  <2>2. PICK r : Reaches(r, pattern, path) /\ Reach(pattern, path) = r[N]
    BY <1>6
  <2> DEFINE F == p[N]
             n(i) == Len(p[i])
             last(i) == p[i][n(i)]
  <2>3. N \in Nat /\ M \in Nat
    BY DEF Text
  <2>4. \A i \in 0..N : p[i] \in Seq(Text) /\ p[i] # <<>>
    BY <2>1 DEF Splits
  <2>5. \A i \in 0..N : n(i) \in Nat /\ n(i) >= 1 /\ last(i) \in Text
    <3> SUFFICES ASSUME NEW i \in 0..N
                 PROVE  n(i) \in Nat /\ n(i) >= 1 /\ last(i) \in Text
      OBVIOUS
    <3> DEFINE b == p[i]
    <3>1. b \in Seq(Text) /\ b # <<>>
      BY <2>4
    <3> HIDE DEF b
    <3>2. Len(b) \in Nat /\ Len(b) >= 1 /\ b[Len(b)] \in Text
      BY <3>1, NonEmpty
    <3> QED BY <3>2 DEF b
  <2>6. N \in 0..N /\ F = split(pattern, "*") /\ F \in Seq(Text) /\ F # <<>>
    BY <2>1, <2>3, <2>4
  <2>7. PICK rest : /\ Rests(rest, F, path)
                    /\ path_matches(pattern, path) <=> Ends(rest, F, pattern, path)
    BY <2>6, <1>5
  <2>8. \A i \in 0..N : /\ n(i) <= Len(F)
                         /\ \A k \in 1..n(i) - 1 : p[i][k] = F[k]
    BY <2>1, <1>2
  <2> DEFINE T == {i \in 0..N : Placed(r[i], n(i), last(i), rest, path)}
             W == {i \in 0..N : n(i) = 1 => last(i) = SubSeq(pattern, 1, i)}
  <2>9. ASSUME NEW i \in 0..N, n(i) > 1
        PROVE  rest[n(i) - 2] \in -1..M
    <3>1. n(i) \in Nat /\ n(i) <= Len(F) /\ Len(F) \in Nat
      BY <2>5, <2>6, <2>8
    <3> HIDE DEF n
    <3>2. n(i) - 2 \in 0..Len(F) - 1
      BY <2>9, <3>1
    <3> QED BY <2>7, <3>2 DEF Rests
  <2>10. 0 \in T /\ 0 \in W
    <3>1. p[0] = << <<>> >> /\ r[0] = {0} /\ 0 \in 0..N
      BY <2>1, <2>2, <2>3 DEF Splits, Reaches
    <3>2. n(0) = 1 /\ last(0) = <<>> /\ SubSeq(pattern, 1, 0) = <<>>
      BY <3>1 DEF Text
    <3>3. Follows(path, <<>>, 0)
      BY <2>3 DEF Follows, Text
    <3>4. Placed({0}, 1, <<>>, rest, path)
      BY <2>3, <3>3 DEF Placed, Begins
    <3> QED BY <3>1, <3>2, <3>4, Zenon
  <2>11. ASSUME NEW i \in 1..N, i - 1 \in T
         PROVE  i \in T
    <3> DEFINE m == n(i - 1)  L == last(i - 1)  x == pattern[i]  R == r[i - 1]
    <3>1. i \in 0..N /\ i - 1 \in 0..N
      BY <2>3
    <3>0. /\ m \in Nat /\ m >= 1 /\ L \in Text /\ x \in Char
          /\ x = "*" => n(i) = m + 1 /\ p[i][m + 1] = <<>> /\ p[i][m] = L
          /\ x # "*" => n(i) = m /\ p[i][m] = Append(L, x)
      <4>1. Grows(p, pattern, "*", i)
        BY <2>1, <1>10
      <4> QED BY <4>1, Zenon DEF Grows
    <3>2. /\ m \in Nat /\ m >= 1 /\ L \in Text /\ x \in Char
          /\ x = "*" => n(i) = m + 1 /\ last(i) = <<>> /\ p[i][m] = L
          /\ x # "*" => n(i) = m /\ last(i) = Append(L, x)
      BY <3>0, Zenon
    <3>3. r[i] = IF x = "*" THEN {j \in 0..M : \E k \in R : k <= j}
                 ELSE {j \in 1..M : j - 1 \in R /\ path[j] = x}
      BY <2>2, Zenon DEF Reaches
    <3>4. Placed(R, m, L, rest, path) /\ (m > 1 => rest[m - 2] \in -1..M)
      BY <2>9, <2>11, <3>1
    <3>5. CASE x # "*"
      <4>1. Placed({j \in 1..M : j - 1 \in R /\ path[j] = x}, m, Append(L, x), rest, path)
        <5> HIDE DEF m, L, x, R
        <5> QED BY <3>2, <3>4, <1>8, Zenon
      <4> QED BY <3>1, <3>2, <3>3, <3>5, <4>1, Zenon
    <3>6. CASE x = "*"
      <4>1. n(i) <= Len(F) /\ p[i][m] = F[m] /\ n(i) = m + 1 /\ Len(F) \in Nat
        <5>1. n(i) = m + 1 /\ m \in Nat /\ m >= 1 /\ Len(F) \in Nat
          BY <2>6, <3>2, <3>6
        <5>2. n(i) <= Len(F) /\ \A k \in 1..n(i) - 1 : p[i][k] = F[k]
          BY <2>8, <3>1
        <5> HIDE DEF m, n, F
        <5>3. m \in 1..n(i) - 1
          BY <5>1
        <5> QED BY <5>1, <5>2, <5>3
      <4>2. L = F[m]
        BY <3>2, <3>6, <4>1
      <4> HIDE DEF m, L
      <4>3. /\ m = 1 => rest[m - 1] = IF Follows(path, L, 0) THEN Len(L) ELSE Nowhere
            /\ m # 1 => rest[m - 1] = find(path, L, rest[m - 2])
        <5>1. rest[0] = IF Follows(path, F[1], 0) THEN Len(F[1]) ELSE Nowhere
          BY <2>7 DEF Rests
        <5>2. \A k \in 1..Len(F) - 1 : rest[k] = find(path, F[k + 1], rest[k - 1])
          BY <2>7 DEF Rests
        <5>3. m # 1 => m - 1 \in 1..Len(F) - 1 /\ (m - 1) + 1 = m /\ (m - 1) - 1 = m - 2
          BY <3>2, <4>1
        <5>4. m = 1 => m - 1 = 0
          OBVIOUS
        <5> HIDE DEF F
        <5> QED BY <4>2, <5>1, <5>2, <5>3, <5>4
      <4>4. Placed({j \in 0..M : \E k \in R : k <= j}, m + 1, <<>>, rest, path)
        <5> HIDE DEF R
        <5> QED BY <3>2, <3>4, <4>3, <1>9
      <4> QED BY <3>1, <3>2, <3>3, <3>6, <4>4, Zenon DEF m
    <3> QED BY <3>5, <3>6
  <2>12. ASSUME NEW i \in 1..N, i - 1 \in W
         PROVE  i \in W
    <3> DEFINE m == n(i - 1)  L == last(i - 1)  x == pattern[i]
    <3>0. /\ m \in Nat /\ m >= 1 /\ L \in Text /\ x \in Char
          /\ x = "*" => n(i) = m + 1 /\ p[i][m + 1] = <<>> /\ p[i][m] = L
          /\ x # "*" => n(i) = m /\ p[i][m] = Append(L, x)
      <4>1. Grows(p, pattern, "*", i)
        BY <2>1, <1>10
      <4> QED BY <4>1, Zenon DEF Grows
    <3>1. /\ m \in Nat /\ m >= 1 /\ L \in Text /\ x \in Char
          /\ x = "*" => n(i) = m + 1
          /\ x # "*" => n(i) = m /\ last(i) = Append(L, x)
      BY <3>0, Zenon
    <3>2. SubSeq(pattern, 1, i) = Append(SubSeq(pattern, 1, i - 1), x)
      BY DEF Text
    <3>3. i \in 0..N /\ (m = 1 => L = SubSeq(pattern, 1, i - 1))
      BY <2>12
    <3> HIDE DEF m, L, x, last, n
    <3>4. n(i) = 1 => m = 1 /\ x # "*"
      BY <3>1
    <3> QED BY <3>1, <3>2, <3>3, <3>4, Zenon DEF m, L, x
  <2> HIDE DEF T, W
  <2>13. N \in T /\ N \in W
    <3>1. \A i \in 0..N : i \in T
      BY <2>3, <2>10, <2>11, UpTo, Zenon
    <3>2. \A i \in 0..N : i \in W
      BY <2>3, <2>10, <2>12, UpTo, Zenon
    <3> QED BY <2>3, <3>1, <3>2
  <2> DEFINE L == F[Len(F)]  l == Len(L)
  <2>14. Len(F) \in Nat /\ Len(F) >= 1 /\ L \in Text /\ l \in Nat
    BY <2>3, <2>5 DEF Text
  <2>15. PathMeans(pattern, path) <=> Begins(rest, Len(F), M - l) /\ Follows(path, L, M - l)
    <3>1. PathMeans(pattern, path) <=> M \in r[N]
      BY <2>2 DEF PathMeans
    <3>2. Placed(r[N], Len(F), L, rest, path)
      BY <2>13 DEF T
    <3> QED BY <2>3, <3>1, <3>2 DEF Placed
  <2>16. CASE Len(F) # 1
    BY <2>7, <2>15, <2>16 DEF Begins, Ends
  <2>17. CASE Len(F) = 1
    <3>1. L = SubSeq(pattern, 1, N)
      BY <2>13, <2>17 DEF W
    <3>2. L = pattern
      BY <3>1 DEF Text
    <3>3. PathMeans(pattern, path) <=> M = l /\ Follows(path, L, 0)
      BY <2>3, <2>14, <2>15, <2>17 DEF Begins
    <3>4. M = l => (Follows(path, L, 0) <=> path = L)
      <4>1. SubSeq(path, 1, M) = path
        BY DEF Text
      <4>2. l \in Nat /\ 0 + 1 = 1 /\ 0 + l = l /\ (M = l => l <= M)
        BY <2>3
      <4>3. Follows(path, L, 0) <=> 0 + l <= M /\ SubSeq(path, 0 + 1, 0 + l) = L
        BY Zenon DEF Follows
      <4> QED BY <4>1, <4>2, <4>3
    <3> QED BY <2>7, <2>17, <3>2, <3>3, <3>4 DEF Ends
  <2> QED BY <2>16, <2>17
<1> QED BY <1>11

-----------------------------------------------------------------------------
(* CIDR prefixes.                                                           *)

\* Cidr::contains compares the leading bits of the address, or of the IPv4
\* address that it maps; and an IPv4 address cannot hide behind its mapping.
THEOREM CidrAgrees ==
    \A net, ip \in Address, prefix \in Nat :
        LET k == parse_cidr(net, prefix) IN
        k # Err => /\ contains(k, ip) <=> CidrMeans(k, ip)
                   /\ ip.v = 4 /\ contains(k, ip) => contains(k, MappedForm(ip))
<1>1. ASSUME NEW x \in Nat, NEW m \in Nat, m >= 1
      PROVE  /\ x \div m \in Nat /\ x % m \in 0..m - 1
             /\ x = m * (x \div m) + (x % m)
  BY <1>1
<1>2. ASSUME NEW m \in Nat, m >= 1, NEW q \in Nat, NEW r \in 0..m - 1
      PROVE  (m * q + r) \div m = q /\ (m * q + r) % m = r
  BY <1>2
<1>3. ASSUME NEW x \in Nat, NEW m \in Nat, m >= 1
      PROVE  x \div m = 2 * (x \div (2 * m)) + ((x \div m) % 2)
  BY <1>3
<1>4. ASSUME NEW x \in Nat, NEW y \in Nat, NEW m \in Nat, m >= 1
      PROVE  x - (x % m) = y - (y % m) <=> x \div m = y \div m
  BY <1>4
<1>5. ASSUME NEW m \in Nat, m >= 1, NEW x \in 0..m - 1
      PROVE  x \div m = 0
  BY <1>5
\* The powers of two.
<1>6. /\ \A n \in 0..Width6 : pow2[n] \in Nat /\ pow2[n] >= 1
      /\ pow2[0] = 1 /\ \A n \in 1..Width6 : pow2[n] = 2 * pow2[n - 1]
  <2> DEFINE A == Nat \ {0}
             n == Width6
             next(i, x) == 2 * x
             step == [i \in 1..n |-> [x \in A |-> 2 * x]]
  <2>1. n \in Nat /\ 1 \in A
    BY WidthAssumption
  <2>2. pow2 = CHOOSE f : f = [i \in 0..n |-> IF i = 0 THEN 1 ELSE 2 * f[i - 1]]
    BY DEF pow2
  <2>3. Steps(step, n, A)
    BY DEF Steps
  <2>4. \A i \in 1..n, x \in A : step[i][x] = 2 * x
    OBVIOUS
  <2> HIDE DEF A, n, step
  <2>5. PICK f : Run(f, step, n, A, 1)
    BY <2>1, <2>3, Recursion
  <2>6. f = [i \in 0..n |-> IF i = 0 THEN 1 ELSE 2 * f[i - 1]]
    BY <2>1, <2>4, <2>5 DEF Run
  <2>7. pow2 = [i \in 0..n |-> IF i = 0 THEN 1 ELSE 2 * pow2[i - 1]]
    BY <2>2, <2>6, Zenon
  <2>8. pow2[0] = 1 /\ \A i \in 1..n : pow2[i] = 2 * pow2[i - 1]
    BY <2>1, <2>7
  <2> DEFINE S == {i \in 0..n : pow2[i] \in A}
  <2>9. 0 \in S
    BY <2>1, <2>8
  <2>10. \A i \in 1..n : i - 1 \in S => i \in S
    BY <2>1, <2>8 DEF A
  <2> HIDE DEF S
  <2>11. \A i \in 0..n : i \in S
    BY <2>1, <2>9, <2>10, UpTo
  <2> QED BY <2>8, <2>11 DEF A, n, S
\* Masked to a prefix, two numbers of w bits are equal exactly if their
\* leading bits are.
<1>7. ASSUME NEW w \in 0..Width6, NEW x \in 0..pow2[w] - 1, NEW y \in 0..pow2[w] - 1,
             NEW p \in 0..w
      PROVE  masked(x, p, w) = masked(y, p, w)
               <=> \A b \in 1..p : (x \div pow2[w - b]) % 2 = (y \div pow2[w - b]) % 2
  <2> DEFINE q(z, b) == z \div pow2[w - b]
             Same(k) == \A b \in 1..k : q(x, b) % 2 = q(y, b) % 2
             S == {k \in 0..w : q(x, k) = q(y, k) <=> Same(k)}
  <2>1. w \in Nat /\ p \in Nat /\ \A b \in 0..w : w - b \in 0..Width6
    BY WidthAssumption
  <2>2. \A b \in 0..w : pow2[w - b] \in Nat /\ pow2[w - b] >= 1
    BY <2>1, <1>6
  <2>3. x \in Nat /\ y \in Nat
    OBVIOUS
  <2>4. \A z \in Nat, b \in 0..w : q(z, b) \in Nat
    BY <2>2, <1>1
  <2>5. ASSUME NEW b \in 1..w, NEW z \in Nat
        PROVE  q(z, b) = 2 * q(z, b - 1) + (q(z, b) % 2)
    <3> DEFINE m == pow2[w - b]
    <3>1. w - (b - 1) \in 1..Width6 /\ w - (b - 1) - 1 = w - b
      BY <2>1, WidthAssumption
    <3>2. pow2[w - (b - 1)] = 2 * m /\ m \in Nat /\ m >= 1
      BY <2>2, <3>1, <1>6
    <3> HIDE DEF m
    <3>3. z \div m = 2 * (z \div (2 * m)) + ((z \div m) % 2)
      BY <3>2, <1>3, Zenon
    <3> QED BY <3>2, <3>3 DEF m
  <2>6. 0 \in S
    <3>1. w - 0 = w /\ pow2[w] \in Nat /\ pow2[w] >= 1
      BY <2>1, <1>6
    <3>2. q(x, 0) = 0 /\ q(y, 0) = 0
      BY <3>1, <1>5
    <3> QED BY <2>1, <3>2
  <2>7. ASSUME NEW k \in 1..w, k - 1 \in S
        PROVE  k \in S
    <3>1. k - 1 \in 0..w /\ k \in 0..w /\ \A b : b \in 1..k <=> b \in 1..k - 1 \/ b = k
      BY <2>1
    <3>2. Same(k) <=> Same(k - 1) /\ q(x, k) % 2 = q(y, k) % 2
      BY <3>1, Zenon
    <3>3. /\ q(x, k) = 2 * q(x, k - 1) + (q(x, k) % 2)
          /\ q(y, k) = 2 * q(y, k - 1) + (q(y, k) % 2)
      BY <2>3, <2>5
    <3>4. /\ q(x, k) \in Nat /\ q(y, k) \in Nat
          /\ q(x, k - 1) \in Nat /\ q(y, k - 1) \in Nat
      BY <2>3, <2>4, <3>1
    <3>5. q(x, k - 1) = q(y, k - 1) <=> Same(k - 1)
      BY <2>7
    <3> HIDE DEF q, Same
    <3>6. q(x, k) = q(y, k) <=> q(x, k - 1) = q(y, k - 1) /\ q(x, k) % 2 = q(y, k) % 2
      BY <3>3, <3>4
    <3> QED BY <3>1, <3>2, <3>5, <3>6
  <2> HIDE DEF S
  <2>8. p \in S
    <3>1. \A k \in 0..w : k \in S
      BY <2>1, <2>6, <2>7, UpTo
    <3> QED BY <3>1
  <2>9. q(x, p) = q(y, p) <=> Same(p)
    BY <2>8 DEF S
  <2>10. CASE p = 0
    BY <2>10 DEF masked
  <2>11. CASE p # 0
    <3>1. (w - p) % w = w - p
      BY <2>1, <2>11
    <3> DEFINE m == pow2[w - p]
    <3>2. masked(x, p, w) = x - (x % m) /\ masked(y, p, w) = y - (y % m)
      BY <2>11, <3>1, Zenon DEF masked, shifted_mask
    <3>3. m \in Nat /\ m >= 1
      BY <2>2
    <3> HIDE DEF m
    <3>4. x - (x % m) = y - (y % m) <=> x \div m = y \div m
      BY <2>3, <3>3, <1>4, Zenon
    <3> QED BY <2>9, <3>2, <3>4, Zenon DEF m
  <2> QED BY <2>10, <2>11
\* The bits of an address, and of its canonical form.
<1>8. ASSUME NEW ip \in Address
      PROVE  to_canonical(ip) \in Address
  <2> DEFINE m == pow2[Width4]
  <2>1. m \in Nat /\ m >= 1
    BY WidthAssumption, <1>6
  <2>2. ip.bits \in Nat
    BY WidthAssumption, <1>6 DEF Address
  <2>3. ip.bits % m \in 0..m - 1
    BY <2>1, <2>2, <1>1
  <2>4. to_canonical(ip) \in {ip, [v |-> 4, bits |-> ip.bits % m]}
    BY DEF to_canonical
  <2>5. [v |-> 4, bits |-> ip.bits % m] \in Address
    BY <2>3 DEF Address
  <2> QED BY <2>4, <2>5
<1>9. ASSUME NEW net \in Address, NEW prefix \in Nat, prefix <= Width(net.v), NEW ip \in Address
      PROVE  contains_literal([net |-> net, prefix |-> prefix], ip)
               <=> ip.v = net.v /\ \A b \in 1..prefix : Bit(ip, b) = Bit(net, b)
  <2> USE <1>9
  <2>1. contains_literal([net |-> net, prefix |-> prefix], ip) <=>
          /\ net.v = ip.v
          /\ masked(net.bits, prefix, Width(ip.v)) = masked(ip.bits, prefix, Width(ip.v))
    BY DEF contains_literal
  <2>2. CASE net.v # ip.v
    BY <2>1, <2>2
  <2>3. CASE net.v = ip.v
    <3> DEFINE w == Width(ip.v)
    <3>1. w \in 0..Width6 /\ prefix \in 0..w
      BY <2>3, WidthAssumption DEF Width
    <3>2. net.bits \in 0..pow2[w] - 1 /\ ip.bits \in 0..pow2[w] - 1
      BY <2>3 DEF Address, Width
    <3>3. /\ \A b : Bit(ip, b) = (ip.bits \div pow2[w - b]) % 2
          /\ \A b : Bit(net, b) = (net.bits \div pow2[w - b]) % 2
      BY <2>3 DEF Bit
    <3> HIDE DEF w
    <3>4. masked(ip.bits, prefix, w) = masked(net.bits, prefix, w)
            <=> \A b \in 1..prefix :
                 (ip.bits \div pow2[w - b]) % 2 = (net.bits \div pow2[w - b]) % 2
      BY <3>1, <3>2, <1>7, Zenon
    <3> QED BY <2>1, <2>3, <3>3, <3>4 DEF w
  <2> QED BY <2>2, <2>3
\* Cidr::contains compares the leading bits of the address, or of the IPv4
\* address that it maps; and an IPv4 address cannot hide behind its mapping.
<1>10. ASSUME NEW net \in Address, NEW prefix \in Nat, parse_cidr(net, prefix) # Err,
              NEW ip \in Address
       PROVE  LET k == parse_cidr(net, prefix) IN
              /\ contains(k, ip) <=> CidrMeans(k, ip)
              /\ ip.v = 4 /\ contains(k, ip) => contains(k, MappedForm(ip))
  <2> USE <1>10
  <2> DEFINE k == [net |-> net, prefix |-> prefix]  can == to_canonical(ip)
  <2>1. parse_cidr(net, prefix) = k /\ prefix <= Width(net.v)
    <3>1. net.v \in {4, 6}
      BY DEF Address
    <3>2. Width(net.v) \in Nat
      BY WidthAssumption DEF Width
    <3> QED BY <3>2 DEF parse_cidr
  <2>2. contains(k, ip) <=> contains_literal(k, ip) \/ contains_literal(k, can)
    BY DEF contains
  <2>3. can \in Address
    BY <1>8
  <2>4. \A form \in Address : contains_literal(k, form) <=>
            form.v = net.v /\ \A b \in 1..prefix : Bit(form, b) = Bit(net, b)
    BY <2>1, <1>9
  <2>5. CidrMeans(k, ip) <=> \E form \in {ip, can} :
            form.v = net.v /\ \A b \in 1..prefix : Bit(form, b) = Bit(net, b)
    BY DEF CidrMeans
  <2>6. contains(k, ip) <=> CidrMeans(k, ip)
    <3> HIDE DEF k, can
    <3> QED BY <2>2, <2>3, <2>4, <2>5
  <2>7. ASSUME ip.v = 4, contains(k, ip)
        PROVE  contains(k, MappedForm(ip))
    <3> DEFINE m == pow2[Width4]  six == MappedForm(ip)
    <3>1. m \in Nat /\ m >= 1 /\ Mapped \in Nat
      BY WidthAssumption, <1>6
    <3>2. ip = [v |-> 4, bits |-> ip.bits] /\ ip.bits \in 0..m - 1
      BY <2>7 DEF Address
    <3>3. can = ip
      BY <2>7 DEF to_canonical
    <3>4. contains_literal(k, ip)
      BY <2>2, <2>7, <3>3
    <3>5. (m * Mapped + ip.bits) \div m = Mapped /\ (m * Mapped + ip.bits) % m = ip.bits
      <4> HIDE DEF m
      <4> QED BY <3>1, <3>2, <1>2
    <3>6. six.v = 6 /\ six.bits = m * Mapped + ip.bits
      BY <3>1 DEF MappedForm
    <3>7. to_canonical(six) = [v |-> 4, bits |-> ip.bits]
      <4> HIDE DEF m, six
      <4> QED BY <3>5, <3>6 DEF to_canonical, m
    <3>8. to_canonical(six) = ip /\ to_canonical(six) # six
      BY <3>2, <3>6, <3>7
    <3> QED BY <3>4, <3>8 DEF contains
  <2> QED BY <2>1, <2>6, <2>7
<1> QED BY <1>10

-----------------------------------------------------------------------------
(* Overrides.                                                               *)

\* The loop of apply_env_overrides.
Overriding(run, tree, env) ==
    /\ run[0] = [tree |-> tree, returned |-> FALSE]
    /\ \A i \in 1..11 : run[i] = override(run[i - 1], ENV_KEYS[i], env)

\* A key of a tree holds the override of `path`.
Written(tree, path, env) ==
    LET section == lookup(tree, path[1]) IN
    /\ IsSection(section) /\ path[2] \in DOMAIN section
    /\ section[path[2]] = typed(path, env[path])

\* After i overrides.
Overridden(acc, tree, env, i) ==
    /\ {"tree", "returned"} \subseteq DOMAIN acc
    /\ \A s : LET section == lookup(acc.tree, s) IN
          section = Null \/ section = Absent \/ IsSection(section)
    /\ \A s : lookup(acc.tree, s) = Null => lookup(tree, s) = Null
    /\ acc.returned => Lost(tree, env, i)
    /\ \A j \in 1..i : ENV_KEYS[j] \in DOMAIN env /\ ~Lost(tree, env, j) =>
          Written(acc.tree, ENV_KEYS[j], env)

\* `wrote` is the tree with the override of `path`, and nothing else lost.
Adds(wrote, tree, path, env) ==
    /\ Written(wrote, path, env)
    /\ \A s : s # path[1] => lookup(wrote, s) = lookup(tree, s)
    /\ \A other : other = <<other[1], other[2]>> /\ Written(tree, other, env) =>
          Written(wrote, other, env)

\* An override that is set is in the tree, unless it comes after one for a
\* section that the file leaves empty.
THEOREM OverridesHold ==
    \A tree, env : IsTree(tree) /\ (\A path \in DOMAIN env : env[path] \in Scalar) =>
        \A i \in DOMAIN ENV_KEYS : ENV_KEYS[i] \in DOMAIN env /\ ~Lost(tree, env, i) =>
            value(apply_env_overrides(tree, env), ENV_KEYS[i][1], ENV_KEYS[i][2], Absent)
              = env[ENV_KEYS[i]].val
\* The keys are pairs of a section and a key, and there are eleven of them.
<1>1. /\ Len(ENV_KEYS) = 11 /\ DOMAIN ENV_KEYS = 1..11
      /\ \A i \in 1..11 : ENV_KEYS[i] = <<ENV_KEYS[i][1], ENV_KEYS[i][2]>> /\ ENV_KEYS[i][2] \in Key
  <2>1. Len(ENV_KEYS) = 11 /\ DOMAIN ENV_KEYS = 1..11
    BY DEF ENV_KEYS
  <2>2. \A i \in 1..11 : ENV_KEYS[i][2] \in Key
    BY <2>1, KeyAssumption DEF Path
  <2>3. ASSUME NEW i \in 1..11
        PROVE  ENV_KEYS[i] = <<ENV_KEYS[i][1], ENV_KEYS[i][2]>>
    <3>1. i \in {1, 2, 3, 4, 5, 6, 7, 8, 9, 10, 11}
      OBVIOUS
    <3> QED BY <3>1 DEF ENV_KEYS
  <2> QED BY <2>1, <2>2, <2>3
\* A mapping of scalars is neither absent nor null, and stays one.
<1>2. ASSUME NEW x, IsSection(x), NEW k \in Key, NEW v \in Scalar
      PROVE  IsSection(put(x, k, v)) /\ x # Null /\ x # Absent
  <2> USE <1>2
  <2>1. DOMAIN x \in SUBSET Key /\ x \in [DOMAIN x -> Scalar]
    BY DEF IsSection
  <2>2. x # Null /\ x # Absent
    BY <2>1, KeyAssumption, Zenon
  <2>3. put(x, k, v) = [y \in DOMAIN x \cup {k} |-> IF y = k THEN v ELSE x[y]]
    BY DEF put
  <2> DEFINE D == DOMAIN x \cup {k}
  <2>4. \A y \in D : (IF y = k THEN v ELSE x[y]) \in Scalar
    BY <2>1
  <2>5. [y \in D |-> IF y = k THEN v ELSE x[y]] \in [D -> Scalar]
    BY <2>4, Zenon
  <2>6. DOMAIN put(x, k, v) = D /\ put(x, k, v) \in [D -> Scalar]
    BY <2>3, <2>5
  <2>7. D \subseteq Key
    BY <2>1
  <2> QED BY <2>2, <2>6, <2>7 DEF IsSection
<1>3. ASSUME NEW path, NEW raw \in Scalar
      PROVE  typed(path, raw) \in Scalar /\ typed(path, raw).val = raw.val
  <2>1. CASE raw.kind = "int"
    <3>1. raw \in [kind : {"int", "float"}, val : Nat]
      BY <2>1 DEF Scalar
    <3>2. [raw EXCEPT !.kind = "float"] \in [kind : {"int", "float"}, val : Nat]
          /\ [raw EXCEPT !.kind = "float"].val = raw.val
      BY <3>1
    <3> QED BY <3>2 DEF typed, Scalar
  <2>2. CASE raw.kind # "int"
    BY <2>2 DEF typed
  <2> QED BY <2>1, <2>2
<1>4. ASSUME NEW tree, NEW env
      PROVE  \E run : Overriding(run, tree, env) /\ apply_env_overrides(tree, env) = run[11].tree
  <2> DEFINE base == [tree |-> tree, returned |-> FALSE]
             next(i, acc) == override(acc, ENV_KEYS[i], env)
             g[i \in 0..11] == IF i = 0 THEN base ELSE next(i, g[i - 1])
             Ok(f, k) == f[0] = base /\ \A i \in 1..k : f[i] = next(i, f[i - 1])
             S == {k \in 0..11 : \E f : Ok(f, k)}
  <2>1. apply_env_overrides(tree, env) = g[11].tree
    BY <1>1 DEF apply_env_overrides
  <2>2. g = CHOOSE f : f = [i \in 0..11 |-> IF i = 0 THEN base ELSE next(i, f[i - 1])]
    OBVIOUS
  <2>3. ASSUME NEW i, NEW acc
        PROVE  next(i, acc) = override(acc, ENV_KEYS[i], env)
    OBVIOUS
  <2> HIDE DEF g, base, next
  <2>4. 0 \in S
    <3> DEFINE f == [i \in 0..0 |-> base]
    <3>1. Ok(f, 0)
      OBVIOUS
    <3> HIDE DEF f, Ok
    <3> QED BY <3>1
  <2>5. ASSUME NEW k \in 1..11, k - 1 \in S
        PROVE  k \in S
    <3>1. PICK f : Ok(f, k - 1)
      BY <2>5
    <3> DEFINE h == [i \in 0..k |-> IF i = k THEN next(k, f[k - 1]) ELSE f[i]]
    <3>2. h[k] = next(k, f[k - 1]) /\ \A i \in 0..k - 1 : h[i] = f[i]
      OBVIOUS
    <3> HIDE DEF h
    <3>3. h[0] = base
      BY <3>1, <3>2
    <3>4. ASSUME NEW i \in 1..k
          PROVE  h[i] = next(i, h[i - 1])
      <4>1. h[i - 1] = f[i - 1]
        BY <3>2
      <4>2. CASE i = k
        BY <3>2, <4>1, <4>2
      <4>3. CASE i # k
        <5>1. i \in 1..k - 1 /\ i \in 0..k - 1
          BY <4>3
        <5> QED BY <3>1, <3>2, <4>1, <5>1
      <4> QED BY <4>2, <4>3
    <3>5. Ok(h, k)
      BY <3>3, <3>4
    <3> HIDE DEF Ok
    <3> QED BY <3>5
  <2>6. PICK f : Ok(f, 11)
    <3> HIDE DEF S
    <3>1. \A k \in 0..11 : k \in S
      BY <2>4, <2>5, UpTo
    <3> QED BY <3>1 DEF S
  <2> DEFINE e == [i \in 0..11 |-> f[i]]
  <2>7. e = [i \in 0..11 |-> IF i = 0 THEN base ELSE next(i, e[i - 1])]
    BY <2>6
  <2> HIDE DEF e
  <2>8. g = [i \in 0..11 |-> IF i = 0 THEN base ELSE next(i, g[i - 1])]
    BY <2>2, <2>7, Zenon
  <2>9. g[0] = base /\ \A i \in 1..11 : g[i] = next(i, g[i - 1])
    BY <2>8
  <2>10. Overriding(g, tree, env)
    BY <2>3, <2>9 DEF Overriding, base
  <2> QED BY <2>1, <2>10
<1>5. IsSection(<<>>)
  <2>1. DOMAIN <<>> = {}
    OBVIOUS
  <2>2. <<>> \in [{} -> Scalar]
    OBVIOUS
  <2> QED BY <2>1, <2>2 DEF IsSection
<1>6. ASSUME NEW x, IsSection(x)
      PROVE  x # Null /\ x # Absent
  <2> USE <1>6
  <2>1. DOMAIN x \in SUBSET Key /\ x \in [DOMAIN x -> Scalar]
    BY DEF IsSection
  <2> QED BY <2>1, KeyAssumption, Zenon
\* What one override does to a tree, once it is not refused.
<1>7. ASSUME NEW t, NEW path, path = <<path[1], path[2]>>, path[2] \in Key,
             NEW env, env[path] \in Scalar,
             NEW wrote, NEW section, section = lookup(t, path[1]),
             section = Absent \/ IsSection(section),
             wrote = put(t, path[1], put(IF section = Absent THEN <<>> ELSE section,
                                       path[2], typed(path, env[path])))
      PROVE  Adds(wrote, t, path, env)
  <2> USE <1>7
  <2> DEFINE old == IF section = Absent THEN <<>> ELSE section
             v == typed(path, env[path])
             mine == put(old, path[2], v)
  <2>1. IsSection(old) /\ v \in Scalar
    BY <1>5, <1>3
  <2>2. IsSection(mine)
    BY <2>1, <1>2
  <2>3. /\ DOMAIN mine = DOMAIN old \cup {path[2]} /\ mine[path[2]] = v
        /\ \A x \in DOMAIN old : x # path[2] => mine[x] = old[x]
    <3> HIDE DEF old, v
    <3> QED BY DEF put
  <2>4. wrote = put(t, path[1], mine)
    OBVIOUS
  <2> HIDE DEF mine
  <2>5. lookup(wrote, path[1]) = mine /\ \A s : s # path[1] => lookup(wrote, s) = lookup(t, s)
    <3>1. wrote = [x \in DOMAIN t \cup {path[1]} |-> IF x = path[1] THEN mine ELSE t[x]]
      BY <2>4 DEF put
    <3> QED BY <3>1 DEF lookup
  <2>6. Written(wrote, path, env)
    BY <2>2, <2>3, <2>5 DEF Written
  <2>7. ASSUME NEW other, other = <<other[1], other[2]>>, Written(t, other, env)
        PROVE  Written(wrote, other, env)
    <3>1. CASE other[1] # path[1]
      BY <2>5, <2>7, <3>1 DEF Written
    <3>2. CASE other[1] = path[1] /\ other[2] = path[2]
      <4>1. other = path
        BY <2>7, <3>2
      <4> QED BY <2>6, <4>1
    <3>3. CASE other[1] = path[1] /\ other[2] # path[2]
      <4>1. /\ IsSection(section) /\ other[2] \in DOMAIN section
            /\ section[other[2]] = typed(other, env[other])
        BY <2>7, <3>3 DEF Written
      <4>2. section # Absent
        BY <4>1, <1>6
      <4>3. old = section
        BY <4>2
      <4>4. lookup(wrote, other[1]) = mine
        BY <2>5, <3>3
      <4> HIDE DEF old
      <4>5. other[2] \in DOMAIN mine /\ mine[other[2]] = section[other[2]]
        BY <2>3, <3>3, <4>1, <4>3
      <4> QED BY <2>2, <4>1, <4>4, <4>5 DEF Written
    <3> QED BY <3>1, <3>2, <3>3
  <2> QED BY <2>5, <2>6, <2>7 DEF Adds
<1>8. ASSUME NEW tree, NEW env, \A path \in DOMAIN env : env[path] \in Scalar,
             NEW i \in 1..11, NEW acc, Overridden(acc, tree, env, i - 1)
      PROVE  Overridden(override(acc, ENV_KEYS[i], env), tree, env, i)
  <2> USE <1>8
  <2> DEFINE path == ENV_KEYS[i]
             section == lookup(acc.tree, path[1])
             L(j) == Lost(tree, env, j)
             old == IF section = Absent THEN <<>> ELSE section
             wrote == put(acc.tree, path[1], put(old, path[2], typed(path, env[path])))
  <2>1. /\ {"tree", "returned"} \subseteq DOMAIN acc
        /\ \A s : lookup(acc.tree, s) = Null \/ lookup(acc.tree, s) = Absent \/ IsSection(lookup(acc.tree, s))
        /\ \A s : lookup(acc.tree, s) = Null => lookup(tree, s) = Null
        /\ acc.returned => L(i - 1)
        /\ \A j \in 1..i - 1 : ENV_KEYS[j] \in DOMAIN env /\ ~L(j) =>
              Written(acc.tree, ENV_KEYS[j], env)
    BY Zenon DEF Overridden
  <2>2. override(acc, path, env) =
          IF acc.returned \/ path \notin DOMAIN env THEN acc
          ELSE IF section = Null THEN [acc EXCEPT !.returned = TRUE]
          ELSE [acc EXCEPT !.tree = wrote]
    BY DEF override
  <2>3. \A j : j \in 1..i <=> j \in 1..i - 1 \/ j = i
    OBVIOUS
  <2>4. L(i - 1) => L(i)
    BY <2>3 DEF Lost
  <2>5. path \in DOMAIN env /\ section = Null => L(i)
    <3>1. i \in 1..i
      OBVIOUS
    <3> QED BY <2>1, <3>1, Zenon DEF Lost
  <2>6. \A j \in 1..11 : ENV_KEYS[j] = <<ENV_KEYS[j][1], ENV_KEYS[j][2]>> /\ ENV_KEYS[j][2] \in Key
    BY <1>1
  <2> HIDE DEF path, section, L, wrote
  <2>7. CASE acc.returned \/ path \notin DOMAIN env
    <3>1. override(acc, path, env) = acc
      BY <2>2, <2>7
    <3>2. acc.returned => L(i)
      BY <2>1, <2>4, Zenon
    <3>3. \A j \in 1..i : ENV_KEYS[j] \in DOMAIN env /\ ~L(j) => Written(acc.tree, ENV_KEYS[j], env)
      BY <2>1, <2>3, <2>7, <3>2, Zenon DEF path
    <3> QED BY <2>1, <3>1, <3>2, <3>3, Zenon DEF Overridden, L, path
  <2>8. CASE ~acc.returned /\ path \in DOMAIN env /\ section = Null
    <3> DEFINE a == [acc EXCEPT !.returned = TRUE]
    <3>1. override(acc, path, env) = a
      BY <2>2, <2>8
    <3>3. {"tree", "returned"} \subseteq DOMAIN a /\ a.tree = acc.tree
      BY <2>1
    <3>4. L(i)
      BY <2>5, <2>8
    <3> HIDE DEF a
    <3>5. \A j \in 1..i : ENV_KEYS[j] \in DOMAIN env /\ ~L(j) => Written(acc.tree, ENV_KEYS[j], env)
      BY <2>1, <2>3, <3>4, Zenon
    <3> QED BY <2>1, <3>1, <3>3, <3>4, <3>5, Zenon DEF Overridden, L, path
  <2>9. CASE ~acc.returned /\ path \in DOMAIN env /\ section # Null
    <3> DEFINE a == [acc EXCEPT !.tree = wrote]
    <3>1. override(acc, path, env) = a
      BY <2>2, <2>9
    <3>3. {"tree", "returned"} \subseteq DOMAIN a /\ a.tree = wrote /\ ~a.returned
      BY <2>1, <2>9
    <3> HIDE DEF a
    <3>4. section = lookup(acc.tree, path[1]) /\ (section = Absent \/ IsSection(section))
      BY <2>1, <2>9, Zenon DEF section
    <3>5. path = <<path[1], path[2]>> /\ path[2] \in Key /\ env[path] \in Scalar
      BY <2>6, <2>9 DEF path
    <3>6. /\ Written(wrote, path, env)
          /\ \A s : s # path[1] => lookup(wrote, s) = lookup(acc.tree, s)
          /\ \A other : other = <<other[1], other[2]>> /\ Written(acc.tree, other, env) =>
               Written(wrote, other, env)
      <4>1. wrote = put(acc.tree, path[1], put(IF section = Absent THEN <<>> ELSE section,
                                             path[2], typed(path, env[path])))
        BY DEF wrote
      <4>2. Adds(wrote, acc.tree, path, env)
        BY <3>4, <3>5, <4>1, <1>7, Zenon
      <4> QED BY <4>2 DEF Adds
    <3>7. IsSection(lookup(wrote, path[1]))
      BY <3>6 DEF Written
    <3>8. lookup(wrote, path[1]) # Null
      BY <3>7, <1>6
    <3>9. \A s : lookup(wrote, s) = Null \/ lookup(wrote, s) = Absent \/ IsSection(lookup(wrote, s))
      BY <2>1, <3>6, <3>7
    <3>10. \A s : lookup(wrote, s) = Null => lookup(tree, s) = Null
      BY <2>1, <3>6, <3>8
    <3>11. \A j \in 1..i : ENV_KEYS[j] \in DOMAIN env /\ ~L(j) => Written(wrote, ENV_KEYS[j], env)
      <4> SUFFICES ASSUME NEW j \in 1..i, ENV_KEYS[j] \in DOMAIN env, ~L(j)
                   PROVE  Written(wrote, ENV_KEYS[j], env)
        OBVIOUS
      <4>1. CASE j = i
        BY <3>6, <4>1 DEF path
      <4>2. CASE j # i
        <5>1. j \in 1..i - 1 /\ j \in 1..11
          BY <4>2
        <5>2. Written(acc.tree, ENV_KEYS[j], env)
          BY <2>1, <5>1, Zenon
        <5> QED BY <2>6, <3>6, <5>1, <5>2, Zenon
      <4> QED BY <4>1, <4>2
    <3> QED BY <3>1, <3>3, <3>9, <3>10, <3>11, Zenon DEF Overridden, L, path
  <2> QED BY <2>7, <2>8, <2>9
\* An override that is set is in the tree, unless it comes after one for a
\* section that the file leaves empty.
<1>9. ASSUME NEW tree, IsTree(tree), NEW env, \A path \in DOMAIN env : env[path] \in Scalar,
             NEW i \in DOMAIN ENV_KEYS, ENV_KEYS[i] \in DOMAIN env, ~Lost(tree, env, i)
      PROVE  value(apply_env_overrides(tree, env), ENV_KEYS[i][1], ENV_KEYS[i][2], Absent)
               = env[ENV_KEYS[i]].val
  <2> USE <1>9
  <2>1. PICK run : Overriding(run, tree, env) /\ apply_env_overrides(tree, env) = run[11].tree
    BY <1>4
  <2> DEFINE S == {k \in 0..11 : Overridden(run[k], tree, env, k)}
  <2>2. 0 \in S
    <3>1. run[0] = [tree |-> tree, returned |-> FALSE]
      BY <2>1 DEF Overriding
    <3>2. \A s : lookup(tree, s) = Null \/ lookup(tree, s) = Absent \/ IsSection(lookup(tree, s))
      BY DEF IsTree, lookup
    <3>3. \A j : j \notin 1..0
      OBVIOUS
    <3>4. /\ run[0].tree = tree /\ run[0].returned = FALSE
          /\ {"tree", "returned"} \subseteq DOMAIN run[0]
      BY <3>1
    <3>5. Overridden(run[0], tree, env, 0)
      BY <3>2, <3>3, <3>4, Zenon DEF Overridden
    <3> QED BY <3>5
  <2>3. ASSUME NEW k \in 1..11, k - 1 \in S
        PROVE  k \in S
    <3>1. Overridden(run[k - 1], tree, env, k - 1)
      BY <2>3
    <3>2. Overridden(override(run[k - 1], ENV_KEYS[k], env), tree, env, k)
      BY <3>1, <1>8, Zenon
    <3>3. k \in 0..11
      OBVIOUS
    <3>4. run[k] = override(run[k - 1], ENV_KEYS[k], env)
      BY <2>1, Zenon DEF Overriding
    <3> QED BY <3>2, <3>3, <3>4, Zenon
  <2> HIDE DEF S
  <2>4. 11 \in S
    <3>1. \A k \in 0..11 : k \in S
      BY <2>2, <2>3, UpTo
    <3> QED BY <3>1
  <2> DEFINE T == apply_env_overrides(tree, env)  path == ENV_KEYS[i]
  <2>5. i \in 1..11
    BY <1>1
  <2>6. Written(T, path, env)
    BY <2>1, <2>4, <2>5, Zenon DEF S, Overridden
  <2> HIDE DEF T, path
  <2> DEFINE section == lookup(T, path[1])
  <2>7. IsSection(section) /\ path[2] \in DOMAIN section /\ section[path[2]] = typed(path, env[path])
    BY <2>6, Zenon DEF Written
  <2>8. section # Null /\ section # Absent
    BY <2>7, <1>6, Zenon
  <2>9. section = T[path[1]]
    BY <2>8 DEF lookup
  <2>10. env[path] \in Scalar
    BY DEF path
  <2>11. typed(path, env[path]) # Absent /\ typed(path, env[path]).val = env[path].val
    BY <2>10, <1>3, KeyAssumption
  <2>12. lookup(T[path[1]], path[2]) = typed(path, env[path])
    BY <2>7, <2>9, Zenon DEF lookup
  <2>13. value(T, path[1], path[2], Absent) = env[path].val
    BY <2>8, <2>11, <2>12 DEF value
  <2> QED BY <2>13 DEF T, path
<1> QED BY <1>9

-----------------------------------------------------------------------------
(* Domain globs.                                                            *)

\* str::ends_with compares the last characters.
LEMMA SuffixMeans ==
    ASSUME NEW s \in Text, NEW t \in Text
    PROVE  ends_with(t, s) <=>
              /\ Len(s) <= Len(t)
              /\ \A i \in 1..Len(s) : s[i] = t[Len(t) - Len(s) + i]
<1> DEFINE d == Len(t) - Len(s)
<1>1. CASE Len(s) <= Len(t)
  <2>1. d \in Nat /\ d + Len(s) = Len(t)
    BY <1>1 DEF Text
  <2>2. ends_with(t, s) <=> Follows(t, s, d)
    BY <1>1 DEF ends_with
  <2> HIDE DEF d
  <2>3. Follows(t, s, d) <=> d + Len(s) <= Len(t) /\ \A i \in 1..Len(s) : t[d + i] = s[i]
    BY <2>1, FollowsMeans
  <2> QED BY <1>1, <2>1, <2>2, <2>3 DEF d
<1>2. CASE ~(Len(s) <= Len(t))
  BY <1>2 DEF ends_with
<1> QED BY <1>1, <1>2

\* A text ends in a dot if its last character is one: the test of
\* strip_suffix('.') in DomainGlob::matches.
LEMMA DotSuffix ==
    ASSUME NEW t \in Text, Len(t) >= 1
    PROVE  ends_with(t, <<".">>) <=> t[Len(t)] = "."
<1> DEFINE s == <<".">>
<1>1. s \in Text /\ Len(s) = 1 /\ s[1] = "."
  BY CharAssumption DEF Text
<1> HIDE DEF s
<1>2. ends_with(t, s) <=> Len(s) <= Len(t) /\ \A i \in 1..Len(s) : s[i] = t[Len(t) - Len(s) + i]
  BY <1>1, SuffixMeans, Zenon
<1>3. Len(t) \in Nat /\ Len(t) - 1 + 1 = Len(t) /\ \A i : i \in 1..1 <=> i = 1
  BY DEF Text
<1>4. ends_with(t, s) <=> s[1] = t[Len(t) - 1 + 1]
  BY <1>1, <1>2, <1>3
<1> QED BY <1>1, <1>3, <1>4 DEF s

\* to_ascii_lowercase lowers each character in its place.
LEMMA LowerText ==
    ASSUME NEW s \in Text
    PROVE  /\ to_ascii_lowercase(s) \in Text
           /\ Len(to_ascii_lowercase(s)) = Len(s)
           /\ \A i \in 1..Len(s) :
                to_ascii_lowercase(s)[i] = IF s[i] = "A" THEN "a" ELSE s[i]
<1> DEFINE low(x) == IF x = "A" THEN "a" ELSE x
<1>1. to_ascii_lowercase(s) = [i \in 1..Len(s) |-> low(s[i])]
  BY DEF Text, to_ascii_lowercase
<1>2. ASSUME NEW i \in 1..Len(s) PROVE low(s[i]) \in Char
  <2>1. s[i] \in Char
    BY DEF Text
  <2>2. "a" \in Char
    BY CharAssumption
  <2> QED BY <2>1, <2>2, Zenon
<1>3. \A i \in 1..Len(s) : low(s[i]) = IF s[i] = "A" THEN "a" ELSE s[i]
  OBVIOUS
<1> HIDE DEF low
<1> QED BY <1>1, <1>2, <1>3 DEF Text

\* A host lowered and without its trailing dot, the form DomainGlob::matches
\* compares, is a text.
LEMMA NormalText ==
    ASSUME NEW s \in Text
    PROVE  normal(s) \in Text
<1> DEFINE h == to_ascii_lowercase(s)
<1>1. h \in Text BY LowerText
<1> HIDE DEF h
<1>2. normal(s) = IF ends_with(h, <<".">>) THEN SubSeq(h, 1, Len(h) - 1) ELSE h
  BY DEF normal, h
<1>3. SubSeq(h, 1, Len(h) - 1) \in Text
  BY <1>1 DEF Text
<1> QED BY <1>1, <1>2, <1>3

\* What DomainGlob::parse accepts.
LEMMA ParsedGlob ==
    ASSUME NEW p \in Text, parse_glob(p) # Err
    PROVE  LET l == to_ascii_lowercase(p)
               w == starts_with(l, <<"*", ".">>)
           IN  /\ l \in Text
               /\ parse_glob(p).wildcard = w
               /\ parse_glob(p).suffix \in Text /\ parse_glob(p).suffix # <<>>
               /\ \A i \in 1..Len(parse_glob(p).suffix) : parse_glob(p).suffix[i] # "*"
               /\ ~w => parse_glob(p).suffix = l
               /\ w => /\ Len(l) = Len(parse_glob(p).suffix) + 2 /\ l[1] = "*" /\ l[2] = "."
                       /\ \A i \in 1..Len(parse_glob(p).suffix) : parse_glob(p).suffix[i] = l[i + 2]
                       /\ parse_glob(p).suffix = SubSeq(l, 3, Len(l))
<1> DEFINE l == to_ascii_lowercase(p)  w == starts_with(l, <<"*", ".">>)
           x == IF w THEN SubSeq(l, 3, Len(l)) ELSE l
<1>1. l \in Text BY LowerText
<1>2. parse_glob(p) = IF x = <<>> \/ \E i \in DOMAIN x : x[i] = "*" THEN Err
                      ELSE [suffix |-> x, wildcard |-> w]
  BY DEF parse_glob
<1> HIDE DEF l
<1>3. w => Len(l) >= 2 /\ l[1] = "*" /\ l[2] = "."
  <2> DEFINE sub == SubSeq(l, 1, 2)
  <2>1. w => Len(l) >= 2 /\ sub = <<"*", ".">>
    BY DEF starts_with, Follows
  <2>2. Len(l) >= 2 => sub[1] = l[1] /\ sub[2] = l[2]
    BY <1>1 DEF Text
  <2> HIDE DEF sub
  <2> QED BY <2>1, <2>2
<1>4. x \in Text
  <2>1. SubSeq(l, 3, Len(l)) \in Text
    BY <1>1 DEF Text
  <2> QED BY <1>1, <2>1
<1>5. w => Len(l) = Len(x) + 2 /\ \A i \in 1..Len(x) : x[i] = l[i + 2]
  BY <1>1, <1>3 DEF Text
<1> HIDE DEF w, x
<1>6. ~w => x = l  BY DEF x
<1>7. w => x = SubSeq(l, 3, Len(l)) BY DEF x
<1>8. x # <<>> /\ \A i \in 1..Len(x) : x[i] # "*"
  BY <1>2, <1>4 DEF Text
<1>9. parse_glob(p) = [suffix |-> x, wildcard |-> w]
  BY <1>2
<1>10. parse_glob(p).suffix = x /\ parse_glob(p).wildcard = w
  BY <1>9
<1> QED BY <1>1, <1>10, <1>3, <1>4, <1>5, <1>6, <1>7, <1>8 DEF l, w

\* A glob matches the names of its domain, and with "*." the names below it.
LEMMA GlobMatches ==
    ASSUME NEW p \in Text, parse_glob(p) # Err, NEW host \in Text
    PROVE  LET g == parse_glob(p)
               h == normal(host)
               d == Len(h) - Len(g.suffix)
           IN  glob_matches(g, host) <=>
                  \/ h = g.suffix
                  \/ /\ g.wildcard /\ d >= 1 /\ h[d] = "."
                     /\ \A i \in 1..Len(g.suffix) : g.suffix[i] = h[d + i]
<1> DEFINE g == parse_glob(p)  h == normal(host)  x == g.suffix
<1>1. h \in Text BY NormalText
<1>2. x \in Text BY ParsedGlob
<1>3. glob_matches(g, host) <=> h = x \/ (g.wildcard /\ ends_with(h, x) /\ h[Len(h) - Len(x)] = ".")
  BY DEF glob_matches
<1>4. ends_with(h, x) <=> Len(x) <= Len(h) /\ \A i \in 1..Len(x) : x[i] = h[Len(h) - Len(x) + i]
  BY <1>1, <1>2, SuffixMeans, Zenon
<1> HIDE DEF x, h
<1>5. ends_with(h, x) /\ Len(x) = Len(h) => h = x
  BY <1>1, <1>2, <1>4, SameText
<1>6. Len(x) \in Nat /\ Len(h) \in Nat
  BY <1>1, <1>2 DEF Text
<1>7. ends_with(h, x) /\ h # x => Len(h) - Len(x) >= 1
  BY <1>4, <1>5, <1>6
<1>8. Len(h) - Len(x) >= 1 => Len(x) <= Len(h)
  BY <1>6
<1> HIDE DEF g
<1>9. glob_matches(g, host) <=>
        \/ h = x
        \/ /\ g.wildcard /\ Len(h) - Len(x) >= 1 /\ h[Len(h) - Len(x)] = "."
           /\ \A i \in 1..Len(x) : x[i] = h[Len(h) - Len(x) + i]
  BY <1>3, <1>4, <1>7, <1>8, Zenon
<1> QED BY <1>9, Zenon DEF g, h, x

\* DomainGlob::matches decides what a glob means: its domain, and with "*."
\* any name below it and never a longer label.
THEOREM GlobAgrees ==
    ASSUME NEW p \in Text, parse_glob(p) # Err, NEW host \in Text
    PROVE  glob_matches(parse_glob(p), host) <=> GlobMeans(p, host)
<1> DEFINE g == parse_glob(p)  h == normal(host)  x == g.suffix  l == to_ascii_lowercase(p)
           w == starts_with(l, <<"*", ".">>)
<1> SUFFICES glob_matches(g, host) <=> GlobMeans(p, host)
  OBVIOUS
<1>1. h \in Text BY NormalText
<1>2. /\ l \in Text /\ g.wildcard = w /\ x \in Text /\ (~w => x = l)
      /\ w => /\ Len(l) = Len(x) + 2 /\ l[1] = "*" /\ l[2] = "."
              /\ \A i \in 1..Len(x) : x[i] = l[i + 2]
              /\ x = SubSeq(l, 3, Len(l))
  BY ParsedGlob
<1>3. GlobMeans(p, host) <=> h = l \/ (w /\ (h = SubSeq(l, 3, Len(l)) \/ ends_with(h, Tail(l))))
  BY DEF GlobMeans
<1>4. glob_matches(g, host) <=>
        \/ h = x
        \/ /\ g.wildcard /\ Len(h) - Len(x) >= 1 /\ h[Len(h) - Len(x)] = "."
           /\ \A i \in 1..Len(x) : x[i] = h[Len(h) - Len(x) + i]
  BY GlobMatches, Zenon
<1> HIDE DEF g, h, x, l, w
<1>5. CASE ~w
  BY <1>2, <1>3, <1>4, <1>5, Zenon
<1>6. CASE w
  <2> DEFINE b == Tail(l)
  <2>1. /\ b \in Text /\ Len(b) = Len(x) + 1 /\ b[1] = "."
        /\ \A i \in 1..Len(x) : b[i + 1] = x[i]
    BY <1>2, <1>6 DEF Text
  <2>2. Len(x) \in Nat /\ Len(h) \in Nat
    BY <1>1, <1>2 DEF Text
  <2> HIDE DEF b
  <2>3. ends_with(h, b) <=> Len(b) <= Len(h) /\ \A i \in 1..Len(b) : b[i] = h[Len(h) - Len(b) + i]
    BY <1>1, <2>1, SuffixMeans, Zenon
  <2>4. ASSUME ends_with(h, b)
        PROVE  /\ Len(h) - Len(x) >= 1 /\ h[Len(h) - Len(x)] = "."
               /\ \A i \in 1..Len(x) : x[i] = h[Len(h) - Len(x) + i]
    <3>1. Len(h) - Len(x) >= 1 /\ h[Len(h) - Len(x)] = b[1]
      BY <2>1, <2>2, <2>3, <2>4
    <3>2. ASSUME NEW i \in 1..Len(x)
          PROVE  x[i] = h[Len(h) - Len(x) + i]
      <4>1. i + 1 \in 1..Len(b) /\ Len(h) - Len(b) + (i + 1) = Len(h) - Len(x) + i
        BY <2>1, <2>2
      <4> QED BY <2>1, <2>3, <2>4, <4>1
    <3> QED BY <2>1, <3>1, <3>2
  <2>5. ASSUME Len(h) - Len(x) >= 1, h[Len(h) - Len(x)] = ".",
               \A i \in 1..Len(x) : x[i] = h[Len(h) - Len(x) + i]
        PROVE  ends_with(h, b)
    <3>1. Len(b) <= Len(h)
      BY <2>1, <2>2, <2>5
    <3>2. ASSUME NEW i \in 1..Len(b)
          PROVE  b[i] = h[Len(h) - Len(b) + i]
      <4>1. CASE i = 1
        BY <2>1, <2>2, <2>5, <4>1
      <4>2. CASE i # 1
        <5>1. i - 1 \in 1..Len(x) /\ Len(h) - Len(x) + (i - 1) = Len(h) - Len(b) + i
              /\ (i - 1) + 1 = i
          BY <2>1, <2>2, <4>2
        <5>2. b[(i - 1) + 1] = x[i - 1]
          BY <2>1, <5>1, Zenon
        <5>3. x[i - 1] = h[Len(h) - Len(x) + (i - 1)]
          BY <2>5, <5>1, Zenon
        <5> QED BY <5>1, <5>2, <5>3, Zenon
      <4> QED BY <4>1, <4>2
    <3> QED BY <2>3, <3>1, <3>2, Zenon
  <2>6. ASSUME h = l PROVE ends_with(h, b)
    <3>1. Len(h) - Len(x) = 2
      BY <1>2, <1>6, <2>6, <2>2
    <3>2. \A i \in 1..Len(x) : x[i] = h[2 + i]
      BY <1>2, <1>6, <2>6, <2>2
    <3>3. h[2] = "."
      BY <1>2, <1>6, <2>6
    <3> QED BY <3>1, <3>2, <3>3, <2>5
  <2>7. h = SubSeq(l, 3, Len(l)) <=> h = x
    BY <1>2, <1>6
  <2> QED BY <1>2, <1>3, <1>4, <1>6, <2>4, <2>5, <2>6, <2>7, Zenon DEF b
<1> QED BY <1>5, <1>6

\* The overlap test of build_runtime_with_metrics is sound: if it finds none
\* between a passthrough domain and a rule's host pattern, then no host
\* matches both.  A name that still ends in a dot when one was taken off is
\* not a host.
THEOREM OverlapSound ==
    \A d, host \in Text : \A clause :
        /\ parse_glob(d) # Err /\ ~clause.slash /\ clause.pattern \in Text
        /\ parse_glob(clause.pattern) # Err /\ ~overlaps(d, clause)
        /\ ~ends_with(normal(host), <<".">>)
        => ~(glob_matches(parse_glob(d), host) /\ glob_matches(parse_glob(clause.pattern), host))
\* A pattern whose glob matches a host ends in the same characters as the
\* host, and reads as itself when it is taken for a host.
<1>1. ASSUME NEW p \in Text, parse_glob(p) # Err, NEW host \in Text,
             ~ends_with(normal(host), <<".">>), glob_matches(parse_glob(p), host)
      PROVE  LET x == parse_glob(p).suffix
                 w == parse_glob(p).wildcard
                 h == normal(host)
                 n == normal(p)
             IN  /\ x \in Text /\ n \in Text /\ h \in Text
                 /\ Len(x) <= Len(h) /\ \A i \in 1..Len(x) : x[i] = h[Len(h) - Len(x) + i]
                 /\ h # x => w /\ Len(h) - Len(x) >= 1 /\ h[Len(h) - Len(x)] = "."
                 /\ Len(x) <= Len(n) /\ \A i \in 1..Len(x) : x[i] = n[Len(n) - Len(x) + i]
                 /\ w => Len(n) - Len(x) >= 1 /\ n[Len(n) - Len(x)] = "."
                 /\ ~w => n = x
  <2> USE <1>1
  <2> DEFINE g == parse_glob(p)  h == normal(host)  x == g.suffix  l == to_ascii_lowercase(p)
             w == g.wildcard  n == normal(p)
  <2>1. h \in Text BY NormalText
  <2>2. /\ l \in Text /\ x \in Text /\ x # <<>> /\ (~w => x = l)
        /\ w => /\ Len(l) = Len(x) + 2 /\ l[2] = "."
                /\ \A i \in 1..Len(x) : x[i] = l[i + 2]
    BY ParsedGlob, Zenon
  <2>3. /\ h # x => w /\ Len(h) - Len(x) >= 1 /\ h[Len(h) - Len(x)] = "."
        /\ h # x => \A i \in 1..Len(x) : x[i] = h[Len(h) - Len(x) + i]
    BY GlobMatches, Zenon
  <2>4. n = IF ends_with(l, <<".">>) THEN SubSeq(l, 1, Len(l) - 1) ELSE l
    BY DEF normal
  <2>5. ~ends_with(h, <<".">>)
    OBVIOUS
  <2> HIDE DEF g, h, x, l, w, n
  <2>6. Len(x) \in Nat /\ Len(h) \in Nat /\ Len(l) \in Nat /\ Len(x) >= 1
    BY <2>1, <2>2 DEF Text
  <2>7. Len(x) <= Len(h) /\ \A i \in 1..Len(x) : x[i] = h[Len(h) - Len(x) + i]
    BY <2>3, <2>6
  <2>8. Len(x) <= Len(l) /\ \A i \in 1..Len(x) : x[i] = l[Len(l) - Len(x) + i]
    <3>1. CASE w
      <4>1. Len(l) - Len(x) = 2
        BY <2>2, <2>6, <3>1
      <4> QED BY <2>2, <2>6, <3>1, <4>1
    <3>2. CASE ~w
      BY <2>2, <2>6, <3>2
    <3> QED BY <3>1, <3>2
  <2>10. x[Len(x)] = h[Len(h)] /\ x[Len(x)] = l[Len(l)]
    BY <2>6, <2>7, <2>8
  <2>11. n = l
    <3>1. h[Len(h)] # "."
      BY <2>1, <2>5, <2>6, <2>7, DotSuffix
    <3>2. ~ends_with(l, <<".">>)
      BY <2>2, <2>6, <2>8, <2>10, <3>1, DotSuffix
    <3> QED BY <2>4, <3>2
  <2>12. w => Len(l) - Len(x) >= 1 /\ l[Len(l) - Len(x)] = "."
    BY <2>2, <2>6
  <2> QED BY <2>1, <2>2, <2>3, <2>7, <2>8, <2>11, <2>12, Zenon DEF g, h, x, w, n
\* Of two patterns that match a host, the one with the longer suffix is
\* matched by the other, or they have the same suffix and match either way.
<1>2. ASSUME NEW p \in Text, parse_glob(p) # Err, NEW q \in Text, parse_glob(q) # Err,
             NEW host \in Text, ~ends_with(normal(host), <<".">>),
             glob_matches(parse_glob(p), host), glob_matches(parse_glob(q), host),
             Len(parse_glob(p).suffix) <= Len(parse_glob(q).suffix)
      PROVE  glob_matches(parse_glob(p), q) \/ glob_matches(parse_glob(q), p)
  <2> USE <1>2
  <2> DEFINE P == parse_glob(p).suffix  Q == parse_glob(q).suffix
             w == parse_glob(p).wildcard  v == parse_glob(q).wildcard
             h == normal(host)  m == normal(p)  n == normal(q)
  <2>1. /\ P \in Text /\ m \in Text /\ h \in Text
        /\ Len(P) <= Len(h) /\ \A i \in 1..Len(P) : P[i] = h[Len(h) - Len(P) + i]
        /\ h # P => w /\ Len(h) - Len(P) >= 1 /\ h[Len(h) - Len(P)] = "."
        /\ ~w => m = P
    BY <1>1, Zenon
  <2>2. /\ Q \in Text /\ n \in Text
        /\ Len(Q) <= Len(h) /\ \A i \in 1..Len(Q) : Q[i] = h[Len(h) - Len(Q) + i]
        /\ Len(Q) <= Len(n) /\ \A i \in 1..Len(Q) : Q[i] = n[Len(n) - Len(Q) + i]
        /\ v => Len(n) - Len(Q) >= 1 /\ n[Len(n) - Len(Q)] = "."
        /\ ~v => n = Q
    BY <1>1, Zenon
  <2>3. glob_matches(parse_glob(p), q) <=>
           \/ n = P
           \/ /\ w /\ Len(n) - Len(P) >= 1 /\ n[Len(n) - Len(P)] = "."
              /\ \A i \in 1..Len(P) : P[i] = n[Len(n) - Len(P) + i]
    BY GlobMatches, Zenon
  <2>4. m = Q => glob_matches(parse_glob(q), p)
    BY GlobMatches, Zenon
  <2>5. Len(P) <= Len(Q)
    OBVIOUS
  <2> HIDE DEF P, Q, w, v, h, m, n
  <2>6. Len(P) \in Nat /\ Len(Q) \in Nat /\ Len(h) \in Nat /\ Len(n) \in Nat
    BY <2>1, <2>2 DEF Text
  <2>7. \A i \in 1..Len(P) : P[i] = n[Len(n) - Len(P) + i]
    <3> SUFFICES ASSUME NEW i \in 1..Len(P) PROVE P[i] = n[Len(n) - Len(P) + i]
      OBVIOUS
    <3> DEFINE k == Len(Q) - Len(P) + i
    <3>1. /\ k \in 1..Len(Q) /\ Len(h) - Len(Q) + k = Len(h) - Len(P) + i
          /\ Len(n) - Len(Q) + k = Len(n) - Len(P) + i
      BY <2>5, <2>6
    <3> HIDE DEF k
    <3>2. P[i] = h[Len(h) - Len(P) + i] /\ Q[k] = h[Len(h) - Len(Q) + k]
          /\ Q[k] = n[Len(n) - Len(Q) + k]
      BY <2>1, <2>2, <3>1
    <3> QED BY <3>1, <3>2, Zenon
  <2>8. CASE Len(P) = Len(Q)
    <3>1. P = Q
      <4>1. \A i \in 1..Len(P) : P[i] = Q[i]
        BY <2>1, <2>2, <2>8
      <4> QED BY <2>1, <2>2, <2>8, <4>1, SameText
    <3>2. CASE ~w
      BY <2>1, <2>4, <3>1, <3>2
    <3>3. CASE ~v
      BY <2>2, <2>3, <3>1, <3>3
    <3>4. CASE w /\ v
      BY <2>2, <2>3, <2>7, <3>1, <3>4
    <3> QED BY <3>2, <3>3, <3>4
  <2>9. CASE Len(P) < Len(Q)
    <3>1. h # P
      BY <2>2, <2>6, <2>9
    <3> DEFINE k == Len(Q) - Len(P)
    <3>2. /\ k \in 1..Len(Q) /\ Len(h) - Len(Q) + k = Len(h) - Len(P)
          /\ Len(n) - Len(Q) + k = Len(n) - Len(P) /\ Len(n) - Len(P) >= 1
      BY <2>2, <2>6, <2>9
    <3> HIDE DEF k
    <3>3. Q[k] = h[Len(h) - Len(P)] /\ Q[k] = n[Len(n) - Len(P)]
      BY <2>2, <3>2, Zenon
    <3> QED BY <2>1, <2>3, <2>7, <3>1, <3>2, <3>3
  <2> QED BY <2>5, <2>6, <2>8, <2>9
\* The overlap test of build_runtime_with_metrics is sound: if it finds none
\* between a passthrough domain and a rule's host pattern, then no host
\* matches both.  A name that still ends in a dot when one was taken off is
\* not a host.
<1>3. ASSUME NEW d \in Text, parse_glob(d) # Err,
             NEW clause, ~clause.slash, clause.pattern \in Text,
             parse_glob(clause.pattern) # Err,
             ~overlaps(d, clause),
             NEW host \in Text, ~ends_with(normal(host), <<".">>)
      PROVE  ~(glob_matches(parse_glob(d), host) /\ glob_matches(parse_glob(clause.pattern), host))
  <2> USE <1>3
  <2> DEFINE r == clause.pattern
  <2> SUFFICES ASSUME glob_matches(parse_glob(d), host), glob_matches(parse_glob(r), host)
               PROVE  glob_matches(parse_glob(d), r) \/ glob_matches(parse_glob(r), d)
    BY DEF overlaps
  <2>1. Len(parse_glob(d).suffix) \in Nat /\ Len(parse_glob(r).suffix) \in Nat
    <3>1. parse_glob(d).suffix \in Text /\ parse_glob(r).suffix \in Text
      BY ParsedGlob, Zenon
    <3> QED BY <3>1 DEF Text
  <2>2. CASE Len(parse_glob(d).suffix) <= Len(parse_glob(r).suffix)
    BY <2>2, <1>2, Zenon
  <2>3. CASE Len(parse_glob(r).suffix) <= Len(parse_glob(d).suffix)
    BY <2>3, <1>2, Zenon
  <2>4. \/ Len(parse_glob(d).suffix) <= Len(parse_glob(r).suffix)
        \/ Len(parse_glob(r).suffix) <= Len(parse_glob(d).suffix)
    BY <2>1
  <2> QED BY <2>2, <2>3, <2>4, Zenon
<1> QED BY <1>3, Zenon

-----------------------------------------------------------------------------
(* Header names.                                                            *)

\* HeaderNameEntry::matches reads a name and its canonical form alike, and an
\* entry that is no expression is matched by its own spellings only.
THEOREM HeaderAgrees ==
    \A entry, name \in Text, allow_regex \in BOOLEAN :
        LET e == parse_header(entry, allow_regex) IN
        e # Err =>
            /\ header_matches(e, name) <=> header_matches(e, canonical_name(name))
            /\ ~e.regex => (header_matches(e, name) <=>
                            canonical_name(entry) = canonical_name(name))
\* The letters of a canonical name.
<1>1. ASSUME NEW s \in Text
      PROVE  /\ canonical_name(s) \in Text /\ Len(canonical_name(s)) = Len(s)
             /\ \A i \in 1..Len(s) :
                  canonical_name(s)[i] = IF i = 1 \/ s[i - 1] = "-" THEN to_ascii_uppercase(s[i])
                                         ELSE IF s[i] = "A" THEN "a" ELSE s[i]
  <2> DEFINE letter(i) == IF i = 1 \/ s[i - 1] = "-" THEN to_ascii_uppercase(s[i])
                       ELSE IF s[i] = "A" THEN "a" ELSE s[i]
  <2>1. ASSUME NEW x
        PROVE  to_ascii_lowercase(<<x>>)[1] = IF x = "A" THEN "a" ELSE x
    BY DEF to_ascii_lowercase
  <2>2. canonical_name(s) = [i \in 1..Len(s) |-> letter(i)]
    BY <2>1 DEF canonical_name, Text
  <2>3. ASSUME NEW i \in 1..Len(s)
        PROVE  letter(i) \in Char
    <3>1. s[i] \in Char /\ "a" \in Char /\ "A" \in Char
      BY CharAssumption DEF Text
    <3> QED BY <3>1, Zenon DEF to_ascii_uppercase
  <2>4. \A i \in 1..Len(s) : letter(i) = IF i = 1 \/ s[i - 1] = "-" THEN to_ascii_uppercase(s[i])
                                      ELSE IF s[i] = "A" THEN "a" ELSE s[i]
    OBVIOUS
  <2> HIDE DEF letter
  <2> QED BY <2>2, <2>3, <2>4 DEF Text
\* The canonical form of a name differs from it in case only.
<1>2. ASSUME NEW s \in Text
      PROVE  to_ascii_lowercase(canonical_name(s)) = to_ascii_lowercase(s)
  <2> DEFINE t == canonical_name(s)  a == to_ascii_lowercase(t)  b == to_ascii_lowercase(s)
  <2>1. /\ t \in Text /\ Len(t) = Len(s)
        /\ \A i \in 1..Len(s) : t[i] = IF i = 1 \/ s[i - 1] = "-" THEN to_ascii_uppercase(s[i])
                                       ELSE IF s[i] = "A" THEN "a" ELSE s[i]
    BY <1>1
  <2> HIDE DEF t
  <2>2. /\ a \in Text /\ Len(a) = Len(s)
        /\ \A i \in 1..Len(s) : a[i] = IF t[i] = "A" THEN "a" ELSE t[i]
    BY <2>1, LowerText
  <2>3. /\ b \in Text /\ Len(b) = Len(s)
        /\ \A i \in 1..Len(s) : b[i] = IF s[i] = "A" THEN "a" ELSE s[i]
    BY LowerText
  <2> HIDE DEF a, b
  <2>4. \A i \in 1..Len(s) : a[i] = b[i]
    BY <2>1, <2>2, <2>3 DEF to_ascii_uppercase
  <2>5. a = b
    BY <2>2, <2>3, <2>4, SameText
  <2> QED BY <2>5 DEF a, b, t
\* Names that differ in case only have the same canonical form.
<1>3. ASSUME NEW s \in Text, NEW t \in Text
      PROVE  to_ascii_lowercase(s) = to_ascii_lowercase(t) <=> canonical_name(s) = canonical_name(t)
  <2>1. ASSUME canonical_name(s) = canonical_name(t)
        PROVE  to_ascii_lowercase(s) = to_ascii_lowercase(t)
    <3>1. /\ to_ascii_lowercase(canonical_name(s)) = to_ascii_lowercase(s)
          /\ to_ascii_lowercase(canonical_name(t)) = to_ascii_lowercase(t)
      BY <1>2
    <3> QED BY <2>1, <3>1
  <2>2. ASSUME to_ascii_lowercase(s) = to_ascii_lowercase(t)
        PROVE  canonical_name(s) = canonical_name(t)
    <3> DEFINE x == canonical_name(s)  y == canonical_name(t)
               low(ch) == IF ch = "A" THEN "a" ELSE ch
    <3>1. Len(s) = Len(t) /\ \A i \in 1..Len(s) : low(s[i]) = low(t[i])
      BY <2>2, LowerText
    <3>2. x \in Text /\ Len(x) = Len(s) /\ y \in Text /\ Len(y) = Len(s) /\ Len(s) \in Nat
      BY <3>1, <1>1 DEF Text
    <3>3. ASSUME NEW i \in 1..Len(s)
          PROVE  x[i] = y[i]
      <4> DEFINE first(u) == i = 1 \/ u[i - 1] = "-"
      <4>1. /\ x[i] = IF first(s) THEN to_ascii_uppercase(s[i]) ELSE low(s[i])
            /\ y[i] = IF first(t) THEN to_ascii_uppercase(t[i]) ELSE low(t[i])
        BY <3>1, <1>1
      <4>2. i # 1 => i - 1 \in 1..Len(s)
        BY <3>2
      <4>3. i # 1 => low(s[i - 1]) = low(t[i - 1])
        BY <3>1, <4>2
      <4>4. first(s) <=> first(t)
        BY <4>3
      <4>5. low(s[i]) = low(t[i])
        BY <3>1
      <4>6. to_ascii_uppercase(s[i]) = to_ascii_uppercase(t[i])
        BY <4>5 DEF to_ascii_uppercase
      <4> HIDE DEF first, low
      <4> QED BY <4>1, <4>4, <4>5, <4>6
    <3> HIDE DEF x, y
    <3>4. x = y
      BY <3>2, <3>3, SameText
    <3> QED BY <3>4 DEF x, y
  <2> QED BY <2>1, <2>2
\* HeaderNameEntry::matches reads a name and its canonical form alike, and an
\* entry that is no expression is matched by its own spellings only.
<1>4. ASSUME NEW entry \in Text, NEW name \in Text, NEW allow_regex \in BOOLEAN,
             parse_header(entry, allow_regex) # Err
      PROVE  LET e == parse_header(entry, allow_regex) IN
             /\ header_matches(e, name) <=> header_matches(e, canonical_name(name))
             /\ ~e.regex => (header_matches(e, name) <=>
                             canonical_name(entry) = canonical_name(name))
  <2> USE <1>4
  <2> DEFINE e == parse_header(entry, allow_regex)
             low(s) == to_ascii_lowercase(s)
  <2>1. low(canonical_name(name)) = low(name)
    BY <1>2
  <2>2. header_matches(e, name) <=> header_matches(e, canonical_name(name))
    BY <2>1 DEF header_matches
  <2>3. low(entry) = low(name) <=> canonical_name(entry) = canonical_name(name)
    BY <1>3
  <2>4. ~e.regex => e.text = low(entry)
    <3>1. \/ e = [regex |-> TRUE, text |-> SubSeq(entry, 2, Len(entry) - 1)]
          \/ e = [regex |-> FALSE, text |-> low(entry)]
      BY Zenon DEF parse_header
    <3> QED BY <3>1
  <2>5. ~e.regex => (header_matches(e, name) <=> e.text = low(name))
    BY DEF header_matches
  <2> HIDE DEF e, low
  <2> QED BY <2>2, <2>3, <2>4, <2>5 DEF e, low
<1> QED BY <1>4

-----------------------------------------------------------------------------
(* Whatever is tried.                                                       *)

\* Every input tried is one of the given ones.
Tried ==
    /\ On("glob") => c \in GlobCases
    /\ On("cidr") => c \in CidrCases
    /\ On("path") => c \in PathCases
    /\ On("header") => c \in HeaderCases
    /\ On("rule") => c \in RuleCases
    /\ On("load") => c \in LoadCases

\* A matcher or load_str is only ever tried on one of its given inputs.
LEMMA OnlyGivenInputs == PolicySpec => []Tried
<1>1. PolicyInit => Tried
  BY DEF PolicyInit, Idle, Tried, On
<1>2. Tried /\ [PolicyNext]_input => Tried'
  <2> SUFFICES ASSUME Tried, [PolicyNext]_input
               PROVE  Tried'
    OBVIOUS
  <2>1. CASE UNCHANGED input
    BY <2>1 DEF Tried, On, c
  <2>2. CASE Forget
    BY <2>2 DEF Forget, Idle, Tried, On
  <2>3. ASSUME NEW of, NEW cases, Try(of, cases)
        PROVE  input'.of = of /\ input'.case \in cases
    BY <2>3 DEF Try
  <2>4. CASE PolicyStep
    <3>1. \/ input'.of = "glob" /\ input'.case \in GlobCases
          \/ input'.of = "cidr" /\ input'.case \in CidrCases
          \/ input'.of = "path" /\ input'.case \in PathCases
          \/ input'.of = "header" /\ input'.case \in HeaderCases
          \/ input'.of = "rule" /\ input'.case \in RuleCases
          \/ input'.of = "load" /\ input'.case \in LoadCases
          \/ Forget
      BY <2>3, <2>4 DEF PolicyStep
    <3> QED BY <2>2, <3>1 DEF Tried, On, c
  <2>5. CASE Elsewhere
    BY <2>5 DEF Elsewhere, Tried, On
  <2> QED BY <2>1, <2>4, <2>5 DEF PolicyNext
<1> QED BY <1>1, <1>2, PTL DEF PolicySpec

\* A compiled clause matches the hosts it means.
LEMMA HostAgrees ==
    ASSUME NEW clause \in Clause, parse_host(clause) # Err, NEW host,
           host.name \in Text, host.ip \in Address \cup {Err}
    PROVE  host_matches(clause, host) <=> HostMeans(clause, host)
<1>1. CASE clause.slash
  <2>1. clause.net \in Address /\ clause.prefix \in Nat
    BY <1>1, Zenon DEF Clause
  <2>2. parse_host(clause) = parse_cidr(clause.net, clause.prefix)
    BY <1>1 DEF parse_host
  <2>3. host.ip # Err =>
          (contains(parse_host(clause), host.ip) <=> CidrMeans(parse_host(clause), host.ip))
    BY <2>1, <2>2, CidrAgrees
  <2> QED BY <1>1, <2>3 DEF host_matches, HostMeans
<1>2. CASE ~clause.slash
  <2>1. clause.pattern \in Text
    BY <1>2, Zenon DEF Clause
  <2>2. parse_host(clause) = parse_glob(clause.pattern)
    BY <1>2 DEF parse_host
  <2>3. glob_matches(parse_host(clause), host.name) <=> GlobMeans(clause.pattern, host.name)
    BY <2>1, <2>2, GlobAgrees
  <2> QED BY <1>2, <2>3 DEF host_matches, HostMeans
<1> QED BY <1>1, <1>2

\* A list of compiled rules matches a request exactly if one of them means it.
LEMMA RulesAgree ==
    ASSUME NEW x \in RuleCases
    PROVE  any_rule_matches(x.rules, x.host, x.method, x.path) <=>
             \E r \in x.rules :
                 /\ HostMeans(r.host, x.host)
                 /\ r.methods # Err => x.method \in r.methods
                 /\ r.paths # Err => \E p \in r.paths : PathMeans(p, x.path)
<1>1. /\ x.host.name \in Text /\ x.host.ip \in Address \cup {Err} /\ x.path \in Text
      /\ \A r \in x.rules : /\ r.host \in Clause /\ parse_host(r.host) # Err
                            /\ r.paths # Err => r.paths \subseteq Text
  BY CompiledRules, Zenon
<1>2. ASSUME NEW r \in x.rules
      PROVE  rule_matches(r, x.host, x.method, x.path) <=>
                 /\ HostMeans(r.host, x.host)
                 /\ r.methods # Err => x.method \in r.methods
                 /\ r.paths # Err => \E p \in r.paths : PathMeans(p, x.path)
  <2>1. host_matches(r.host, x.host) <=> HostMeans(r.host, x.host)
    BY <1>1, HostAgrees
  <2>2. r.paths # Err => \A p \in r.paths : path_matches(p, x.path) <=> PathMeans(p, x.path)
    BY <1>1, PathAgrees
  <2> QED BY <2>1, <2>2, Zenon DEF rule_matches
<1> QED BY <1>2, Zenon DEF any_rule_matches

\* The matchers of matcher.rs decide what they are meant to decide, on every
\* pattern, host, address, path, header name and compiled rule list: the
\* inputs of any run satisfy MatchersAgree.
THEOREM MatchersCorrect == PolicySpec => []MatchersAgree
<1>1. ASSUME Tried PROVE MatchersAgree
  <2>1. On("glob") => LET g == parse_glob(c.pattern) IN
          g # Err => (glob_matches(g, c.host) <=> GlobMeans(c.pattern, c.host))
    <3>1. \A x \in GlobCases : parse_glob(x.pattern) # Err =>
            (glob_matches(parse_glob(x.pattern), x.host) <=> GlobMeans(x.pattern, x.host))
      BY MatcherCases, GlobAgrees
    <3> QED BY <1>1, <3>1 DEF Tried
  <2>2. On("cidr") => LET k == parse_cidr(c.net, c.prefix) IN
          k # Err => /\ contains(k, c.ip) <=> CidrMeans(k, c.ip)
                     /\ c.ip.v = 4 /\ contains(k, c.ip) => contains(k, MappedForm(c.ip))
    <3>1. \A x \in CidrCases : LET k == parse_cidr(x.net, x.prefix) IN
            k # Err => /\ contains(k, x.ip) <=> CidrMeans(k, x.ip)
                       /\ x.ip.v = 4 /\ contains(k, x.ip) => contains(k, MappedForm(x.ip))
      BY MatcherCases, CidrAgrees
    <3> QED BY <1>1, <3>1, Zenon DEF Tried
  <2>3. On("path") => (path_matches(c.pattern, c.path) <=> PathMeans(c.pattern, c.path))
    <3>1. \A x \in PathCases : path_matches(x.pattern, x.path) <=> PathMeans(x.pattern, x.path)
      BY MatcherCases, PathAgrees
    <3> QED BY <1>1, <3>1 DEF Tried
  <2>4. On("header") =>
          \A allow_regex \in BOOLEAN : LET e == parse_header(c.entry, allow_regex) IN
              e # Err =>
                  /\ header_matches(e, c.name) <=> header_matches(e, canonical_name(c.name))
                  /\ ~e.regex => (header_matches(e, c.name) <=>
                                  canonical_name(c.entry) = canonical_name(c.name))
    <3>1. \A x \in HeaderCases, allow_regex \in BOOLEAN :
            LET e == parse_header(x.entry, allow_regex) IN
            e # Err =>
                /\ header_matches(e, x.name) <=> header_matches(e, canonical_name(x.name))
                /\ ~e.regex => (header_matches(e, x.name) <=>
                                canonical_name(x.entry) = canonical_name(x.name))
      BY MatcherCases, HeaderAgrees
    <3> QED BY <1>1, <3>1, Zenon DEF Tried
  <2>5. On("rule") =>
          (any_rule_matches(c.rules, c.host, c.method, c.path) <=>
              \E r \in c.rules :
                  /\ HostMeans(r.host, c.host)
                  /\ r.methods # Err => c.method \in r.methods
                  /\ r.paths # Err => \E p \in r.paths : PathMeans(p, c.path))
    BY <1>1, RulesAgree, Zenon DEF Tried
  <2> QED BY <2>1, <2>2, <2>3, <2>4, <2>5, Zenon DEF MatchersAgree
<1> QED BY <1>1, OnlyGivenInputs, PTL

\* load_str: what loads can be served, overrides hold, and no host that is
\* tunnelled past the pipeline has a rule in it.
LEMMA LoadsSound ==
    ASSUME NEW x \in LoadCases, load_str(x.tree, x.lists, x.env, x.key) # Err
    PROVE  LET config == load_str(x.tree, x.lists, x.env, x.key) IN
           /\ config.listen.https # Absent \/ config.listen.tunnel # Absent => mitm(config)
           /\ config.listen.dns # Absent => value(config.tree, "dns", "proxy_ip", Absent) = "v4"
           /\ config.listen.management # Absent => config.key # ""
           /\ \A i \in DOMAIN ENV_KEYS :
                ENV_KEYS[i] \in DOMAIN x.env /\ ~Lost(x.tree, x.env, i) =>
                    value(config.tree, ENV_KEYS[i][1], ENV_KEYS[i][2], Absent) = x.env[ENV_KEYS[i]].val
           /\ compiles(config) =>
                \A host \in {h \in HostSpace : Named(h)}, d \in config.passthrough,
                   t \in config.transforms :
                    t.name # "allowlist" /\ glob_matches(parse_glob(d), host) =>
                        \A clause \in t.hosts :
                            ~clause.slash /\ parse_glob(clause.pattern) # Err =>
                                ~glob_matches(parse_glob(clause.pattern), host)
<1> DEFINE T == apply_env_overrides(x.tree, x.env)
           config == load_str(x.tree, x.lists, x.env, x.key)
<1>1. /\ IsTree(x.tree) /\ x.lists.passthrough \subseteq Text
      /\ \A path \in DOMAIN x.env : x.env[path] \in Scalar
      /\ \A t \in x.lists.transforms : t.hosts \subseteq Clause
  BY ConfigCases
<1>2. /\ valid(T, x.lists, x.key)
      /\ config = [tree |-> T, listen |-> listen_keys(T), key |-> x.key,
                   transforms |-> x.lists.transforms, passthrough |-> x.lists.passthrough]
  BY DEF load_str
<1> HIDE DEF T, config
<1>3. /\ config.tree = T /\ config.listen = listen_keys(T) /\ config.key = x.key
      /\ config.transforms = x.lists.transforms /\ config.passthrough = x.lists.passthrough
  BY <1>2
<1>4. config.listen.https # Absent \/ config.listen.tunnel # Absent => mitm(config)
  BY <1>2, <1>3, Zenon DEF valid, mitm
<1>5. config.listen.dns # Absent => value(config.tree, "dns", "proxy_ip", Absent) = "v4"
  BY <1>2, <1>3, Zenon DEF valid, listen_keys
<1>6. config.listen.management # Absent => config.key # ""
  BY <1>2, <1>3, Zenon DEF valid
<1>7. \A i \in DOMAIN ENV_KEYS :
        ENV_KEYS[i] \in DOMAIN x.env /\ ~Lost(x.tree, x.env, i) =>
            value(config.tree, ENV_KEYS[i][1], ENV_KEYS[i][2], Absent) = x.env[ENV_KEYS[i]].val
  <2>1. \A i \in DOMAIN ENV_KEYS :
          ENV_KEYS[i] \in DOMAIN x.env /\ ~Lost(x.tree, x.env, i) =>
              value(T, ENV_KEYS[i][1], ENV_KEYS[i][2], Absent) = x.env[ENV_KEYS[i]].val
    BY <1>1, OverridesHold, Zenon DEF T
  <2> QED BY <1>3, <2>1, Zenon
<1>8. ASSUME compiles(config), NEW host \in HostSpace, Named(host), NEW d \in config.passthrough,
             NEW t \in config.transforms, t.name # "allowlist", glob_matches(parse_glob(d), host),
             NEW clause \in t.hosts, ~clause.slash, parse_glob(clause.pattern) # Err
      PROVE  ~glob_matches(parse_glob(clause.pattern), host)
  <2>1. d \in Text /\ parse_glob(d) # Err /\ host \in Text /\ ~ends_with(normal(host), <<".">>)
    <3>1. d \in Text /\ host \in Text
      BY <1>1, <1>3, <1>8, ConfigCases, Zenon
    <3>2. parse_glob(d) # Err
      BY <1>8, Zenon DEF compiles
    <3> QED BY <1>8, <3>1, <3>2, Zenon DEF Named
  <2>2. clause.pattern \in Text
    <3>1. clause \in Clause
      BY <1>1, <1>3, <1>8, Zenon
    <3> QED BY <1>8, <3>1, Zenon DEF Clause
  <2>3. ~overlaps(d, clause)
    BY <1>8, Zenon DEF compiles
  <2> QED BY <1>8, <2>1, <2>2, <2>3, OverlapSound, Zenon
<1>9. compiles(config) =>
        \A host \in {h \in HostSpace : Named(h)}, d \in config.passthrough, t \in config.transforms :
            t.name # "allowlist" /\ glob_matches(parse_glob(d), host) =>
                \A clause \in t.hosts :
                    ~clause.slash /\ parse_glob(clause.pattern) # Err =>
                        ~glob_matches(parse_glob(clause.pattern), host)
  BY <1>8, Zenon
<1> QED BY <1>4, <1>5, <1>6, <1>7, <1>9, Zenon DEF config

\* Whatever file, environment and policy are given, what load_str accepts
\* satisfies LoadSound.
THEOREM LoadCorrect == PolicySpec => []LoadSound
<1>1. ASSUME Tried PROVE LoadSound
  BY <1>1, LoadsSound, Zenon DEF Tried, LoadSound
<1> QED BY <1>1, OnlyGivenInputs, PTL
=============================================================================
