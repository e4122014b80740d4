-------------------------- MODULE MCHostedGateway --------------------------
(***************************************************************************)
(* A small gateway in a process whose policy files come in every layout of *)
(* a few lines, whose agents send arguments that JSON may or may not       *)
(* carry, and whose audit log is queried after every step.                *)
(***************************************************************************)
EXTENDS HostedGateway, TLC

CONSTANTS send, ghost, srv, srv2

MCMetadata == {[server |-> srv, risk |-> "EXTERNAL_SEND"]}
MCRegistry == (send :> [server |-> srv, risk |-> "EXTERNAL_SEND"])

Line(indent, key, value) == [indent |-> indent, key |-> key, value |-> value]

\* A policy file with an entry for a tool nobody registered, and an empty one.
GhostFile ==
    <<Line(0, "tools", Section), Line(2, ghost, Section),
      Line(4, "risk", "DELETE"), Line(4, "approval", "required")>>
EdgeFiles == {<<>>, GhostFile}

\* The same lines in every layout: sections that nest, end early, come twice.
Layouts(lines) ==
    {[i \in DOMAIN lines |-> Line(indents[i], lines[i].key, lines[i].value)] :
        indents \in [DOMAIN lines -> {0, 2, 4}]}
TwoTools ==
    GhostFile \o <<Line(2, send, Section), Line(4, "approval", "never"),
                   Line(4, "risk", "DELETE")>>
SameTool ==
    <<Line(0, send, Section), Line(2, send, Section), Line(2, "risk", "DELETE"),
      Line(0, send, Section), Line(2, "approval", "never")>>
MCPolicyFiles == EdgeFiles \cup Layouts(TwoTools) \cup Layouts(SameTool)
\* The configurations of three of them.
EdgePolicies ==
    {<<>>, ghost :> "required", send :> "never" @@ ghost :> "required"}

MCPolicyLines ==
    [indent : {0, 2, 4}, key : {"tools", "risk", "approval", send, ghost},
     value : {Section, "DELETE", "required", "never"}]

MCFilters == [tool : {None}, type : {None, "POLICY_CHECKED"}, since : {None, 2},
              limit : {None, 1, 3}]

\* All heaps of two nodes, which may refer to each other and to themselves, with
\* two numbers and the string of the same digit.
MCCharacters == Punctuation \cup {"0", "1", "a", "b"}
MCRoot == Ref("x")
MCScalars ==
    {Number(<<"1">>), Number(<<"1", "1">>), String(<<"1">>), Unsupported}
MCSortedKeys == <<"a", "b">>
MCIndices == <<"0", "1">>
JsonNodes ==
    {Exotic}
    \cup {Array(values) : values \in UNION {[1 .. n -> JsValue] : n \in 0 .. 2}}
    \cup {Object(keys, at) : keys \in {<<"a", "b">>, <<"b", "a">>},
                             at \in [{"a", "b"} -> JsValue]}
    \cup {Object(<<"a">>, at) : at \in [{"a"} -> JsValue]}
JsonHeaps == [Nodes -> JsonNodes]

\* Arguments that can be hashed, and some that refer to themselves.
EdgeArguments ==
    {[n \in Nodes |-> Object(<<"a">>, [key \in {"a"} |-> value])] :
        value \in {Number(<<"1">>), MCRoot}}
EdgeUncanonical == {a \in EdgeArguments : CanonicalText(a, MCRoot) = None}

MCMessages == {{"rate", "timeout"}}

Symmetry == Permutations(Requests) \cup Permutations(Operators)
                \cup Permutations(GrantIds)
=============================================================================
