----------------------------- MODULE MCCollect -----------------------------
(***************************************************************************)
(* TLC instance of Collect: the Pod list with its two views, one optional  *)
(* list with two candidate versions, two collections by one process.       *)
(***************************************************************************)
EXTENDS Collect

MCKeys == {"pods", "gateways"}
MCOptional == {"gateways"}
=============================================================================
