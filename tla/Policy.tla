------------------------------ MODULE Policy ------------------------------
(***************************************************************************)
(* The functions that decide what the proxy does with a host, against what *)
(* they are meant to decide, on every input of the given sets: matchers    *)
(* and configuration loading.  A behaviour picks one input.                *)
(***************************************************************************)
EXTENDS ConfigLoad

CONSTANTS
    GlobCases,     \* [pattern, host]
    CidrCases,     \* [net, prefix, ip]
    PathCases,     \* [pattern, path]
    HeaderCases,   \* [entry, name]
    RuleCases,     \* [rules, host, method, path]
    LoadCases,     \* [tree, lists, env, key]
    HostSpace      \* hosts a configuration is tried on

\* The inputs are ones the code can be given: texts and addresses, rules that
\* have been compiled, and a tree that has been read from YAML.
ASSUME MatcherCases ==
    /\ GlobCases \subseteq [pattern : Text, host : Text]
    /\ CidrCases \subseteq [net : Address, prefix : Nat, ip : Address]
    /\ PathCases \subseteq [pattern : Text, path : Text]
    /\ HeaderCases \subseteq [entry : Text, name : Text]

ASSUME CompiledRules ==
    \A x \in RuleCases :
        /\ x.host.name \in Text /\ x.host.ip \in Address \cup {Err} /\ x.path \in Text
        /\ \A r \in x.rules :
             /\ r.host \in Clause /\ parse_host(r.host) # Err
             /\ r.paths # Err => r.paths \subseteq Text

ASSUME ConfigCases ==
    /\ HostSpace \subseteq Text
    /\ \A x \in LoadCases :
         /\ IsTree(x.tree)
         /\ \A path \in DOMAIN x.env : x.env[path] \in Scalar
         /\ x.lists.passthrough \subseteq Text
         /\ \A t \in x.lists.transforms : t.hosts \subseteq Clause

VARIABLE input   \* [of, case]: the function tried and its input

Idle == [of |-> "nothing", case |-> Absent]

PolicyInit == input = Idle

\* One input is tried.
Try(of, cases) == input = Idle /\ \E x \in cases : input' = [of |-> of, case |-> x]

Forget == input # Idle /\ input' = Idle

PolicyStep ==
    \/ Try("glob", GlobCases) \/ Try("cidr", CidrCases) \/ Try("path", PathCases)
    \/ Try("header", HeaderCases) \/ Try("rule", RuleCases) \/ Try("load", LoadCases)
    \/ Forget

\* The functions of other modules are tried on the same variable.
Elsewhere ==
    input = Idle /\ input'.of \notin {"glob", "cidr", "path", "header", "rule", "load"}

PolicyNext == PolicyStep \/ Elsewhere

PolicySpec == PolicyInit /\ [][PolicyNext]_input

On(of) == input.of = of
c == input.case

-----------------------------------------------------------------------------
(* Matchers.                                                                *)

HostMeans(clause, host) ==
    IF clause.slash THEN host.ip # Err /\ CidrMeans(parse_host(clause), host.ip)
    ELSE GlobMeans(clause.pattern, host.name)

\* One matching semantics for every transform: a glob is a domain or any name
\* below it and never a longer label; a CIDR compares leading bits and treats
\* an IPv4-mapped address as the IPv4 address it is ("an AAAA record must not
\* carry a denied address past an IPv4 rule"); "*" in a path is any run of
\* characters although the code only ever looks for the leftmost place;
\* header names match in any case; a rule list matches if a rule does.
MatchersAgree ==
    /\ On("glob") => LET g == parse_glob(c.pattern) IN
        g # Err => (glob_matches(g, c.host) <=> GlobMeans(c.pattern, c.host))
    /\ On("cidr") => LET k == parse_cidr(c.net, c.prefix) IN
        k # Err => /\ contains(k, c.ip) <=> CidrMeans(k, c.ip)
                   /\ c.ip.v = 4 /\ contains(k, c.ip) => contains(k, MappedForm(c.ip))
    /\ On("path") => (path_matches(c.pattern, c.path) <=> PathMeans(c.pattern, c.path))
    /\ On("header") =>
        \A allow_regex \in BOOLEAN : LET e == parse_header(c.entry, allow_regex) IN
            e # Err =>
                /\ header_matches(e, c.name) <=> header_matches(e, canonical_name(c.name))
                /\ ~e.regex => (header_matches(e, c.name) <=>
                                canonical_name(c.entry) = canonical_name(c.name))
    /\ On("rule") =>
        (any_rule_matches(c.rules, c.host, c.method, c.path) <=>
            \E r \in c.rules :
                /\ HostMeans(r.host, c.host)
                /\ r.methods # Err => c.method \in r.methods
                /\ r.paths # Err => \E p \in r.paths : PathMeans(p, c.path))

-----------------------------------------------------------------------------
(* Configuration.                                                           *)

\* An override is lost only behind a section that is set to nothing.
Lost(tree, env, i) ==
    \E j \in 1..i : ENV_KEYS[j] \in DOMAIN env /\ lookup(tree, ENV_KEYS[j][1]) = Null

\* A name that still ends in a dot when one was taken off names nothing.
Named(host) == ~ends_with(normal(host), <<".">>)

\* What loads can be served, whether a setting came from the file or from the
\* environment: a TLS listener has a CA ("required when the HTTPS or tunnel
\* listener is enabled", spec/09-config.md:72-73; spec/05-listeners.md:123
\* would let a tunnel that only passes through do without), DNS has an IPv4
\* address to answer with, the management API has a key.  An override that is
\* set is in force, unless it comes after one for a section the file leaves
\* empty.  What compiles has no host that is tunnelled past a rule of a
\* transform ("a policy that cannot run is a load error"), rules for CIDRs
\* excepted, which the overlap test does not see.
LoadSound ==
    On("load") =>
        LET config == load_str(c.tree, c.lists, c.env, c.key) IN
        config # Err =>
            /\ config.listen.https # Absent \/ config.listen.tunnel # Absent => mitm(config)
            /\ config.listen.dns # Absent => value(config.tree, "dns", "proxy_ip", Absent) = "v4"
            /\ config.listen.management # Absent => config.key # ""
            /\ \A i \in DOMAIN ENV_KEYS :
                ENV_KEYS[i] \in DOMAIN c.env /\ ~Lost(c.tree, c.env, i) =>
                    value(config.tree, ENV_KEYS[i][1], ENV_KEYS[i][2], Absent) = c.env[ENV_KEYS[i]].val
            /\ compiles(config) =>
                \A host \in {h \in HostSpace : Named(h)}, d \in config.passthrough,
                   t \in config.transforms :
                    t.name # "allowlist" /\ glob_matches(parse_glob(d), host) =>
                        \A clause \in t.hosts :
                            ~clause.slash /\ parse_glob(clause.pattern) # Err =>
                                ~glob_matches(parse_glob(clause.pattern), host)
=============================================================================
