----------------------------- MODULE Matchers -----------------------------
(***************************************************************************)
(* The shared matcher of the kernel, matcher.rs: domain globs, CIDR        *)
(* prefixes, path globs, host clauses and rules, as functions; and, next   *)
(* to each, what it is meant to decide.  Text is a sequence of characters; *)
(* "A" stands for the upper case letters and "a" for its lower case.       *)
(***************************************************************************)
EXTENDS Integers, Sequences, FiniteSetsExt

CONSTANTS
    Char,     \* the characters of a text
    Err,      \* a construct that fails to compile
    Width4,   \* bits of an IPv4 address (32)
    Width6,   \* bits of an IPv6 address (128)
    Mapped    \* the leading Width6 - Width4 bits of an IPv4-mapped address

ASSUME CharAssumption == {"a", "A", "."} \subseteq Char
ASSUME WidthAssumption ==
    Width4 \in Nat /\ Width6 \in Nat /\ Width4 < Width6 /\ Mapped \in Nat

Text == Seq(Char)

to_ascii_lowercase(s) == [i \in DOMAIN s |-> IF s[i] = "A" THEN "a" ELSE s[i]]

\* `part` follows the first i characters of s.
Follows(s, part, i) ==
    i + Len(part) <= Len(s) /\ SubSeq(s, i + 1, i + Len(part)) = part

starts_with(s, part) == Follows(s, part, 0)
ends_with(s, part) == Len(part) <= Len(s) /\ Follows(s, part, Len(s) - Len(part))

\* str::split on a character: the parts that the first i characters make.
split(s, c) ==
    LET parts[i \in 0..Len(s)] ==
            IF i = 0 THEN << <<>> >>
            ELSE LET before == parts[i - 1] IN
                 IF s[i] = c THEN Append(before, <<>>)
                 ELSE [before EXCEPT ![Len(before)] = Append(@, s[i])]
    IN parts[Len(s)]

-----------------------------------------------------------------------------
(* Domain globs.                                                            *)

\* DomainGlob::parse
parse_glob(pattern) ==
    LET p == to_ascii_lowercase(pattern)
        wildcard == starts_with(p, <<"*", ".">>)
        suffix == IF wildcard THEN SubSeq(p, 3, Len(p)) ELSE p
    IN IF suffix = <<>> \/ \E i \in DOMAIN suffix : suffix[i] = "*" THEN Err
       ELSE [suffix |-> suffix, wildcard |-> wildcard]

normal(host) ==
    LET h == to_ascii_lowercase(host) IN
    IF ends_with(h, <<".">>) THEN SubSeq(h, 1, Len(h) - 1) ELSE h

\* Fault: any host that ends with the suffix.
glob_matches_unbounded(g, host) ==
    LET h == normal(host) IN
    h = g.suffix \/ (g.wildcard /\ ends_with(h, g.suffix))

\* DomainGlob::matches: the suffix itself, or anything that ends with it at a
\* label boundary.
glob_matches(g, host) ==
    LET h == normal(host) IN
    \/ h = g.suffix
    \/ /\ g.wildcard /\ ends_with(h, g.suffix)
       /\ h[Len(h) - Len(g.suffix)] = "."

\* A domain, and for "*." every name with further labels in front of it.
GlobMeans(pattern, host) ==
    LET p == to_ascii_lowercase(pattern)
        h == normal(host)
    IN \/ h = p
       \/ /\ starts_with(p, <<"*", ".">>)
          /\ \/ h = SubSeq(p, 3, Len(p))
             \/ ends_with(h, Tail(p))

-----------------------------------------------------------------------------
(* CIDR prefixes.  An address is [v, bits], bits a number of its width.     *)

\* 1 << n
pow2[n \in 0..Width6] == IF n = 0 THEN 1 ELSE 2 * pow2[n - 1]

Width(v) == IF v = 4 THEN Width4 ELSE Width6

Address ==
    [v : {4}, bits : 0..pow2[Width4] - 1] \cup [v : {6}, bits : 0..pow2[Width6] - 1]

\* Cidr::parse: a prefix length is required, and at most the width.
parse_cidr(net, prefix) ==
    IF prefix > Width(net.v) THEN Err ELSE [net |-> net, prefix |-> prefix]

\* x & (MAX << n): what is shifted by the width itself is not shifted at all.
shifted_mask(x, n, width) == x - (x % pow2[n % width])

\* x & mask, with 0 for the mask of an empty prefix.
masked(x, prefix, width) ==
    IF prefix = 0 THEN 0 ELSE shifted_mask(x, width - prefix, width)

\* IpAddr::to_canonical
to_canonical(ip) ==
    IF ip.v = 6 /\ ip.bits \div pow2[Width4] = Mapped
    THEN [v |-> 4, bits |-> ip.bits % pow2[Width4]]
    ELSE ip

contains_literal(c, ip) ==
    /\ c.net.v = ip.v
    /\ masked(c.net.bits, c.prefix, Width(ip.v)) = masked(ip.bits, c.prefix, Width(ip.v))

\* Cidr::contains
contains(c, ip) ==
    \/ contains_literal(c, ip)
    \/ to_canonical(ip) # ip /\ contains_literal(c, to_canonical(ip))

\* The b-th bit from the left.
Bit(ip, b) == (ip.bits \div pow2[Width(ip.v) - b]) % 2

CidrMeans(c, ip) ==
    \E form \in {ip, to_canonical(ip)} :
        form.v = c.net.v /\ \A b \in 1..c.prefix : Bit(form, b) = Bit(c.net, b)

\* The IPv4-mapped form of an IPv4 address.
MappedForm(ip) == [v |-> 6, bits |-> Mapped * pow2[Width4] + ip.bits]

-----------------------------------------------------------------------------
(* Path globs.                                                              *)

Nowhere == -1

\* str::find behind the first `from` characters: how many characters precede
\* what is left once the leftmost occurrence is taken off.
find(s, part, from) ==
    LET at == {i \in from..Len(s) : from # Nowhere /\ Follows(s, part, i)} IN
    IF at = {} THEN Nowhere ELSE Min(at) + Len(part)

\* PathGlob::matches: the first part is a prefix, each middle part is found
\* leftmost in what is left, the last part is a suffix of what is left then.
\* parts[k + 1] is the code's parts[k], and rest[k] says how many characters
\* of the path precede `rest` once it is dealt with.
path_matches(pattern, path) ==
    LET parts == split(pattern, "*")
        rest[k \in 0..Len(parts) - 1] ==
            IF k = 0 THEN IF Follows(path, parts[1], 0) THEN Len(parts[1]) ELSE Nowhere
            ELSE find(path, parts[k + 1], rest[k - 1])
        from == rest[Len(parts) - 2]
        end == Len(path) - Len(parts[Len(parts)])
    IN IF Len(parts) = 1 THEN pattern = path
       ELSE from # Nowhere /\ from <= end /\ Follows(path, parts[Len(parts)], end)

\* "*" matches any run of characters, anything else itself: the numbers of
\* characters of the path that the first i of the pattern can match.
Reach(pattern, path) ==
    LET reach[i \in 0..Len(pattern)] ==
            IF i = 0 THEN {0}
            ELSE LET before == reach[i - 1] IN
                 IF pattern[i] = "*" THEN {j \in 0..Len(path) : \E k \in before : k <= j}
                 ELSE {j \in 1..Len(path) : j - 1 \in before /\ path[j] = pattern[i]}
    IN reach[Len(pattern)]

PathMeans(pattern, path) == Len(path) \in Reach(pattern, path)

-----------------------------------------------------------------------------
(* Header names.                                                            *)

to_ascii_uppercase(c) == IF c = "a" THEN "A" ELSE c

\* canonical_name: every token between dashes starts with a capital.
canonical_name(name) ==
    [i \in DOMAIN name |->
        IF i = 1 \/ name[i - 1] = "-" THEN to_ascii_uppercase(name[i])
        ELSE to_ascii_lowercase(<<name[i]>>)[1]]

\* HeaderNameEntry::parse; a regular expression is between slashes.
parse_header(entry, allow_regex) ==
    IF Len(entry) >= 2 /\ entry[1] = "/" /\ entry[Len(entry)] = "/"
    THEN IF allow_regex THEN [regex |-> TRUE, text |-> SubSeq(entry, 2, Len(entry) - 1)] ELSE Err
    ELSE IF entry = <<>> THEN Err
    ELSE [regex |-> FALSE, text |-> to_ascii_lowercase(entry)]

\* The regex crate, for expressions of letters and dots: the expression is
\* found somewhere in the name, "." standing for any character.
is_match(text, name) ==
    \E at \in 0..Len(name) - Len(text) : \A i \in DOMAIN text :
        text[i] = "." \/ to_ascii_lowercase(<<text[i]>>) = <<name[at + i]>>

\* HeaderNameEntry::matches
header_matches(entry, name) ==
    IF entry.regex THEN is_match(entry.text, to_ascii_lowercase(name))
    ELSE entry.text = to_ascii_lowercase(name)

-----------------------------------------------------------------------------
(* Rules.                                                                   *)

Clause ==
    [slash : {TRUE}, net : Address, prefix : Nat] \cup [slash : {FALSE}, pattern : Text]

\* HostClause::parse: a slash makes it a CIDR.  A clause is written as
\* [net, prefix] or as the text of a pattern.
parse_host(clause) ==
    IF clause.slash THEN parse_cidr(clause.net, clause.prefix)
    ELSE parse_glob(clause.pattern)

\* HostClause::matches; a CIDR matches IP literals only (matches_host).  A
\* host has its text, and the address it parses to or Err.
host_matches(clause, host) ==
    IF clause.slash
    THEN host.ip # Err /\ contains(parse_host(clause), host.ip)
    ELSE glob_matches(parse_host(clause), host.name)

\* Rule::matches; methods and paths are sets, or Err when absent.
rule_matches(rule, host, method, path) ==
    /\ host_matches(rule.host, host)
    /\ rule.methods = Err \/ method \in rule.methods
    /\ rule.paths = Err \/ \E p \in rule.paths : path_matches(p, path)

any_rule_matches(rules, host, method, path) ==
    \E rule \in rules : rule_matches(rule, host, method, path)
=============================================================================
