---------------------------- MODULE MCQuotaGate -----------------------------
(***************************************************************************)
(* QuotaGate for model checking: a fleet of two repos.                     *)
(***************************************************************************)
EXTENDS QuotaGate

CONSTANTS FirstRepo, LastRepo

MCFleet == <<FirstRepo, LastRepo>>
=============================================================================
