------------------------------ MODULE Codecs ------------------------------
(***************************************************************************)
(* The byte codecs of the swap engine and of the request path: codec.rs,   *)
(* `swap_header_value` and `swap_query` of secrets.rs, `percent_decode`    *)
(* and `has_dot_segment` of http.rs.  A byte is a number below 256; text   *)
(* is its ASCII bytes, on which from_utf8_lossy is the identity.  Next to  *)
(* each, what it is meant to compute.                                      *)
(***************************************************************************)
EXTENDS Integers, Sequences, SequencesExt

CONSTANT Invalid   \* a Rust None

Digits == 48..57
Upper == 65..90
Lower == 97..122
Unreserved == Digits \cup Upper \cup Lower \cup {45, 46, 95, 126}   \* - . _ ~
Percent == 37
Plus == 43
Slash == 47
Amp == 38
Equal == 61

Min2(a, b) == IF a <= b THEN a ELSE b

\* slice::chunks
chunks(s, n) ==
    [k \in 1..(Len(s) + n - 1) \div n |-> SubSeq(s, n * (k - 1) + 1, Min2(n * k, Len(s)))]

split_on(s, c) ==
    FoldLeft(LAMBDA parts, x : IF x = c THEN Append(parts, <<>>)
                               ELSE [parts EXCEPT ![Len(parts)] = Append(@, x)],
             << <<>> >>, s)

join(parts, c) ==
    Tail(FlattenSeq([i \in DOMAIN parts |-> <<c>> \o parts[i]]))

-----------------------------------------------------------------------------
(* Base64.                                                                  *)

Pad == Equal
Space == 32

\* The table B64, and `val`, its inverse.
symbol(d) == CASE d < 26 -> 65 + d [] d \in 26..51 -> 71 + d [] d \in 52..61 -> d - 4
               [] d = 62 -> Plus [] OTHER -> Slash
Symbols == Upper \cup Lower \cup Digits \cup {Plus, Slash}
val(c) == CHOOSE d \in 0..63 : symbol(d) = c

base64_encode(input) ==
    LET digits(c) ==
            LET n == c[1] * 65536 + (IF Len(c) > 1 THEN c[2] * 256 ELSE 0)
                                  + (IF Len(c) > 2 THEN c[3] ELSE 0)
            IN <<symbol(n \div 262144), symbol((n \div 4096) % 64),
                 IF Len(c) > 1 THEN symbol((n \div 64) % 64) ELSE Pad,
                 IF Len(c) > 2 THEN symbol(n % 64) ELSE Pad>>
        parts == chunks(input, 3)
    IN FlattenSeq([k \in DOMAIN parts |-> digits(parts[k])])

trim(s) ==
    LET solid == {i \in DOMAIN s : s[i] # Space} IN
    IF solid = {} THEN <<>> ELSE SubSeq(s, Min(solid), Max(solid))

\* Padding is looked for in each group of four, not at the end alone.
base64_decode(input) ==
    LET text == trim(input)
        parts == chunks(text, 4)
        pad(c) == Quantify(1..4, LAMBDA i : c[i] = Pad)
        valid(c) == pad(c) <= 2 /\ \A i \in 1..4 : c[i] \in Symbols \/ (c[i] = Pad /\ i > 2)
        v(c, i) == IF c[i] = Pad THEN 0 ELSE val(c[i])
        n(c) == v(c, 1) * 262144 + v(c, 2) * 4096 + v(c, 3) * 64 + v(c, 4)
        bytes(c) == SubSeq(<<n(c) \div 65536, (n(c) \div 256) % 256, n(c) % 256>>, 1, 3 - pad(c))
    IN IF Len(text) % 4 # 0 \/ \E k \in DOMAIN parts : ~valid(parts[k]) THEN Invalid
       ELSE FlattenSeq([k \in DOMAIN parts |-> bytes(parts[k])])

\* Standard base64: padding only at the very end, unused bits zero.
Canonical(text) ==
    LET n == Len(text)
        body == IF n = 0 \/ text[n] # Pad THEN n ELSE IF text[n - 1] # Pad THEN n - 1 ELSE n - 2
    IN /\ n % 4 = 0
       /\ \A i \in 1..body : text[i] \in Symbols
       /\ body % 4 = 2 => val(text[body]) % 16 = 0
       /\ body % 4 = 3 => val(text[body]) % 4 = 0

-----------------------------------------------------------------------------
(* Percent encoding.                                                        *)

hex(d) == IF d < 10 THEN 48 + d ELSE 55 + d

percent_encode(bytes) ==
    FlattenSeq([i \in DOMAIN bytes |->
        IF bytes[i] \in Unreserved THEN <<bytes[i]>>
        ELSE <<Percent, hex(bytes[i] \div 16), hex(bytes[i] % 16)>>])

is_hex(c) == c \in Digits \cup 65..70 \cup 97..102
hex_value(c) == CASE c \in Digits -> c - 48 [] c \in Upper -> c - 55 [] OTHER -> c - 87

\* u8::from_str_radix of two characters; a sign before the digit is accepted.
from_str_radix(a, b) ==
    IF is_hex(b) /\ is_hex(a) THEN 16 * hex_value(a) + hex_value(b)
    ELSE IF is_hex(b) /\ a = Plus THEN hex_value(b)
    ELSE Invalid

\* Invalid escapes pass through.
percent_decode(segment) ==
    LET escape(i) == segment[i] = Percent /\ i + 2 <= Len(segment)
                     /\ from_str_radix(segment[i + 1], segment[i + 2]) # Invalid
        from[i \in 1..Len(segment) + 3] ==
            IF i > Len(segment) THEN <<>>
            ELSE IF escape(i)
            THEN <<from_str_radix(segment[i + 1], segment[i + 2])>> \o from[i + 3]
            ELSE <<segment[i]>> \o from[i + 1]
    IN from[1]

has_dot_segment(path) ==
    LET segments == split_on(path, Slash) IN
    \E i \in DOMAIN segments : percent_decode(segments[i]) \in {<<46>>, <<46, 46>>}

\* The ways to write "." in a path.
Dot == {<<46>>, <<Percent, 50, 101>>, <<Percent, 50, 69>>}

-----------------------------------------------------------------------------
(* Replacement.                                                             *)

occurs_at(haystack, needle, i) ==
    i + Len(needle) - 1 <= Len(haystack) /\ SubSeq(haystack, i, i + Len(needle) - 1) = needle

\* Bytes and number of replacements.
replace_all(haystack, needle, replacement) ==
    LET from[i \in 1..Len(haystack) + Len(needle)] ==
            IF i > Len(haystack) THEN [out |-> <<>>, count |-> 0]
            ELSE IF occurs_at(haystack, needle, i)
            THEN [out |-> replacement \o from[i + Len(needle)].out,
                  count |-> from[i + Len(needle)].count + 1]
            ELSE [out |-> <<haystack[i]>> \o from[i + 1].out, count |-> from[i + 1].count]
    IN IF needle = <<>> THEN [out |-> haystack, count |-> 0] ELSE from[1]

\* The places replaced: occurrences that do not overlap, none of which could
\* have been taken earlier.
Replaced(haystack, needle) ==
    LET n == Len(needle)
        at == {i \in 1..Len(haystack) : n > 0 /\ occurs_at(haystack, needle, i)}
        taken[i \in 1..Len(haystack)] == i \in at /\ \A j \in (i - n + 1)..(i - 1) : j < 1 \/ ~taken[j]
    IN {i \in at : taken[i]}

Basic == <<66, 97, 115, 105, 99, Space>>

\* A Basic credential is swapped inside its base64.
swap_header_value(value, proxy, secret) ==
    LET plain == IF IsPrefix(Basic, value)
                 THEN base64_decode(SubSeq(value, 7, Len(value))) ELSE Invalid
        done == replace_all(IF plain # Invalid THEN plain ELSE value, proxy, secret)
    IN IF done.count = 0 THEN value
       ELSE IF plain # Invalid THEN Basic \o base64_encode(done.out) ELSE done.out

\* Fault: the secret goes into the query as it is.
swap_query_raw(query, proxy, secret) ==
    LET pairs == split_on(query, Amp)
        rebuilt(pair) ==
            LET at == SelectInSeq(pair, LAMBDA c : c = Equal) IN
            IF at = 0 THEN pair
            ELSE SubSeq(pair, 1, at)
                    \o replace_all(SubSeq(pair, at + 1, Len(pair)), proxy, secret).out
    IN join([i \in DOMAIN pairs |-> rebuilt(pairs[i])], Amp)

\* swap_query, with the query itself for None.
swap_query(query, proxy, secret) ==
    LET pairs == split_on(query, Amp)
        rebuilt(pair) ==
            LET at == SelectInSeq(pair, LAMBDA c : c = Equal) IN
            IF at = 0 THEN pair
            ELSE SubSeq(pair, 1, at)
                    \o replace_all(SubSeq(pair, at + 1, Len(pair)), proxy, percent_encode(secret)).out
    IN join([i \in DOMAIN pairs |-> rebuilt(pairs[i])], Amp)
=============================================================================
