---------------------------- MODULE ConfigLoad ----------------------------
(***************************************************************************)
(* Loading a configuration, config.rs of hematite-proxy: environment       *)
(* overrides on the YAML tree, deserialisation, defaults, validation       *)
(* (`load_str`), and the part of `build_runtime_with_metrics` that reads   *)
(* no file.                                                                *)
(*                                                                         *)
(* A tree maps the sections that are present to mappings of keys to        *)
(* scalars, or to Null; a scalar is [kind, val].  Transforms and lists are *)
(* not reached by overrides and stand beside the tree, in `lists`; whether *)
(* the pipeline builds is Pipeline's `Loads`.                              *)
(***************************************************************************)
EXTENDS Matchers

CONSTANTS
    Absent,   \* a Rust None
    Null,     \* a section without a value
    Key,      \* the names of keys
    Word      \* the texts a scalar can be

\* ENV_KEYS, in its order, with observability.otlp as a section of its own;
\* the keys left out are treated like their neighbours and nothing depends on
\* them.
ENV_KEYS == <<
    <<"dns", "enabled">>, <<"dns", "proxy_ip">>,
    <<"proxy", "http_listen">>, <<"proxy", "https_listen">>, <<"proxy", "tunnel_listen">>,
    <<"tls", "ca_cert">>, <<"tls", "ca_key">>,
    <<"management", "listen">>,
    <<"otlp", "enabled">>, <<"otlp", "endpoint">>, <<"otlp", "sample_ratio">> >>

Path == {ENV_KEYS[i] : i \in DOMAIN ENV_KEYS}

\* The values of a YAML tree.
Scalar ==
    [kind : {"bool"}, val : BOOLEAN] \cup [kind : {"int", "float"}, val : Nat]
    \cup [kind : {"text"}, val : Word]
IsSection(x) == DOMAIN x \subseteq Key /\ x \in [DOMAIN x -> Scalar]
IsTree(x) == \A s \in DOMAIN x : x[s] = Null \/ IsSection(x[s])

ASSUME KeyAssumption ==
    /\ \A path \in Path : path[2] \in Key
    /\ Absent \notin Scalar /\ Absent # Null
    /\ \A S \in SUBSET Key : Absent \notin [S -> Scalar] /\ Null \notin [S -> Scalar]

\* What RawConfig expects of a key.
kind_of(path) ==
    IF path[2] = "enabled" THEN "bool" ELSE IF path[2] = "sample_ratio" THEN "float" ELSE "text"

\* Fields without a default.
required(section) ==
    CASE section = "tls" -> {"ca_cert", "ca_key"}
      [] section = "management" -> {"listen"}
      [] OTHER -> {}

\* Sections that are an Option: Null is None there and an error elsewhere.
optional == {"dns", "tls", "management"}

put(f, k, v) == [x \in DOMAIN f \cup {k} |-> IF x = k THEN v ELSE f[x]]
lookup(f, k) == IF k \in DOMAIN f THEN f[k] ELSE Absent

\* The YAML type of an override: bool, integer, float or text by its form, but
\* a number for sample_ratio is always a float.
typed(path, raw) ==
    IF kind_of(path) = "float" /\ raw.kind = "int" THEN [raw EXCEPT !.kind = "float"] ELSE raw

\* One override: a missing section is created; a section that is no mapping
\* ends the whole loop.
override(acc, path, env) ==
    LET section == lookup(acc.tree, path[1]) IN
    IF acc.returned \/ path \notin DOMAIN env THEN acc
    ELSE IF section = Null THEN [acc EXCEPT !.returned = TRUE]
    ELSE [acc EXCEPT !.tree =
            put(@, path[1], put(IF section = Absent THEN <<>> ELSE section,
                                path[2], typed(path, env[path])))]

apply_env_overrides(tree, env) ==
    LET run[i \in 0..Len(ENV_KEYS)] ==
            IF i = 0 THEN [tree |-> tree, returned |-> FALSE]
            ELSE LET before == run[i - 1] IN override(before, ENV_KEYS[i], env)
    IN run[Len(ENV_KEYS)].tree

\* An integer will do for a float.
accepts(path) == {kind_of(path)} \cup IF kind_of(path) = "float" THEN {"int"} ELSE {}

\* serde_yaml::from_value, with deny_unknown_fields.
deserializes(tree) ==
    \A section \in DOMAIN tree :
        IF tree[section] = Null THEN section \in optional
        ELSE /\ required(section) \subseteq DOMAIN tree[section]
             /\ \A key \in DOMAIN tree[section] :
                    /\ <<section, key>> \in Path
                    /\ tree[section][key].kind \in accepts(<<section, key>>)

\* A key of a section that is present, or its default.
value(tree, section, key, default) ==
    IF lookup(tree, section) \in {Absent, Null} THEN default
    ELSE LET v == lookup(tree[section], key) IN IF v = Absent THEN default ELSE v.val

present(tree, section) == lookup(tree, section) \notin {Absent, Null}
dns_enabled(tree) == present(tree, "dns") /\ value(tree, "dns", "enabled", TRUE)

\* ListenKeys; the address of the DNS listener has a default of its own.
listen_keys(tree) ==
    [http |-> value(tree, "proxy", "http_listen", "default"),
     https |-> value(tree, "proxy", "https_listen", Absent),
     tunnel |-> value(tree, "proxy", "tunnel_listen", Absent),
     dns |-> IF dns_enabled(tree) THEN "default" ELSE Absent,
     management |-> value(tree, "management", "listen", Absent)]

\* The validation of load_str.  `key` is the management key in the
\* environment, "" if it is empty or unset.
valid(tree, lists, key) ==
    LET listen == listen_keys(tree) IN
    /\ lists.timeout # Err
    /\ dns_enabled(tree) => /\ value(tree, "dns", "proxy_ip", Absent) = "v4"
                            /\ lists.records \subseteq {"A", "CNAME"}
    /\ listen.https # Absent \/ listen.tunnel # Absent => present(tree, "tls")
    /\ lists.deny # Err
    /\ value(tree, "otlp", "enabled", FALSE) => value(tree, "otlp", "endpoint", Absent) # Absent
    /\ value(tree, "otlp", "sample_ratio", 1) \in 0..1
    /\ lists.format \in {"json", "text"}
    /\ listen.management # Absent => key # ""
    /\ lists.builds

\* Fault: the file is validated, then overridden.
load_str_early(tree, lists, env, key) ==
    LET overridden == apply_env_overrides(tree, env) IN
    IF ~deserializes(overridden) \/ ~deserializes(tree) \/ ~valid(tree, lists, key) THEN Err
    ELSE [tree |-> overridden, listen |-> listen_keys(overridden), key |-> key,
          transforms |-> lists.transforms, passthrough |-> lists.passthrough]

load_str(tree, lists, env, key) ==
    LET overridden == apply_env_overrides(tree, env) IN
    IF ~deserializes(overridden) \/ ~valid(overridden, lists, key) THEN Err
    ELSE [tree |-> overridden, listen |-> listen_keys(overridden), key |-> key,
          transforms |-> lists.transforms, passthrough |-> lists.passthrough]

\* The overlap test of one rule's host with one passthrough domain.  It reads
\* the text of both as patterns: that of a CIDR is never one of a domain.
overlaps(domain, clause) ==
    /\ ~clause.slash
    /\ \/ glob_matches(parse_glob(domain), clause.pattern)
       \/ parse_glob(clause.pattern) # Err /\ glob_matches(parse_glob(clause.pattern), domain)

\* build_runtime_with_metrics up to the first file: the passthrough domains
\* parse, and no transform but the allowlist has a rule for one of them.
compiles(config) ==
    /\ \A d \in config.passthrough : parse_glob(d) # Err
    /\ \A t \in config.transforms : t.name # "allowlist" =>
        \A d \in config.passthrough, clause \in t.hosts : ~overlaps(d, clause)

\* Whether the runtime has a certificate cache: the CA files are read then.
mitm(config) ==
    /\ present(config.tree, "tls")
    /\ config.listen.https # Absent \/ config.listen.tunnel # Absent
=============================================================================
