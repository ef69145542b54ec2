---------------------------- MODULE MCStepLedger ----------------------------
(***************************************************************************)
(* Two steps: a sealed one, and one that every other writer reaches too (a *)
(* delay whose failures are handled, listed under reused_steps, metered).  *)
(* Workers are interchangeable: they are only compared for equality.       *)
(***************************************************************************)
EXTENDS StepLedger, TLC

CONSTANTS plain, open

MCSteps == {plain, open}
MCOpen == {open}

Symmetry == Permutations(Workers)
=============================================================================
