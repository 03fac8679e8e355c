----------------------------- MODULE MCEvidence -----------------------------
(***************************************************************************)
(* The instances of MCCashback for the specification with the history of   *)
(* links.                                                                  *)
(***************************************************************************)
EXTENDS MCCashback, CashbackEvidence
=============================================================================
