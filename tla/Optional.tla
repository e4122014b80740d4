------------------------------ MODULE Optional ------------------------------
(***************************************************************************)
(* TypeScript's undefined: the value of an optional field that is absent.  *)
(***************************************************************************)
CONSTANT None

=============================================================================
