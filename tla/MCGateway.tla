----------------------------- MODULE MCGateway -----------------------------
(***************************************************************************)
(* Small gateways: the host registers a gated tool, may register it again  *)
(* under another server, and may load a policy that lets it run freely.    *)
(***************************************************************************)
EXTENDS Gateway, TLC

CONSTANTS send, ghost, srv, srv2

MCMetadata == {[server |-> srv, risk |-> "EXTERNAL_SEND"]}
MCMetadata2 == MCMetadata \cup {[server |-> srv2, risk |-> "DELETE"]}
MCRegistry == (send :> [server |-> srv, risk |-> "EXTERNAL_SEND"])
NoPolicy == <<>>
LaxPolicy == (send :> "never")
MCPolicies == {NoPolicy, LaxPolicy}
\* Beside the gated tool one that needs no approval, both with executors.
ReadMetadata == MCMetadata \cup {[server |-> srv, risk |-> "READ_ONLY"]}
ReadRegistry == MCRegistry @@ (ghost :> [server |-> srv, risk |-> "READ_ONLY"])
OnlyDefaults == {NoPolicy}

MCMessages == {{"rate", "timeout"}}

Symmetry == Permutations(Requests) \cup Permutations(Operators)
                \cup Permutations(GrantIds)
=============================================================================
