-------------------------- MODULE MCApprovalStore --------------------------
(***************************************************************************)
(* A small approval store: one grant, two operators, and every field that  *)
(* a proposal has with two values or more: server, tool, arguments,        *)
(* principal, session, stable action id and request id. Every operation is *)
(* on one grant or on all of them, so a second grant would only multiply   *)
(* the states; the runs of the gateway have two.                           *)
(***************************************************************************)
EXTENDS ApprovalStore, TLC

Symmetry == Permutations(Operators)

=============================================================================
