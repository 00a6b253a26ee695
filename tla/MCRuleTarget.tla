---------------------------- MODULE MCRuleTarget ----------------------------
EXTENDS RuleTarget, TLC

CONSTANTS root, a, b, c, d, v, w, u

\* Address spaces in which a node may be met at two depths, a folder may list
\* one above it, and namesakes lie at different depths
MCSpaces ==
    {(root :> x) @@ (a :> y) @@ (b :> z) @@ (c :> {d, v}) @@ (d :> {w}) :
        x \in SUBSET {a, b, v}, y \in SUBSET {c, w}, z \in SUBSET {d, root, u}}

MCPayloads ==
    {[kind |-> "int", v |-> x] : x \in {-20, 0, 10, 30, 70}}
        \cup {[kind |-> "float", v |-> x] : x \in {-19, 5, 19, 30}}
        \cup {[kind |-> "bool", v |-> x] : x \in {0, 10}}
        \cup {[kind |-> "digits", v |-> x] : x \in {10, 19}}
        \cup {[kind |-> "text", v |-> x] : x \in {0, 10}}
        \cup {[kind |-> k, v |-> 0] : k \in {"null", "list", "object"}}

MCNumbers == [value |-> 30, temperature |-> 10, data |-> 70]

\* JSON and plain texts, and objects with any of the fields that are looked for
MCMessages ==
    {[form |-> "json", value |-> p] : p \in {q \in MCPayloads : q.kind # "object"}}
        \cup {[form |-> "plain", value |-> p] :
                 p \in {q \in MCPayloads : q.kind = "text"} \cup {[kind |-> "digits", v |-> 19]}}
        \cup {[form |-> "object",
               fields |-> [name \in names |-> [kind |-> "int", v |-> MCNumbers[name]]]] :
                 names \in SUBSET DOMAIN MCNumbers}

=============================================================================
