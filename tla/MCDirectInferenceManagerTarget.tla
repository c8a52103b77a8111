------------------- MODULE MCDirectInferenceManagerTarget -------------------
(***************************************************************************)
(* Instance of DirectInferenceManagerTarget for TLC.                       *)
(***************************************************************************)
EXTENDS DirectInferenceManagerTarget, MCFormulasSets
=============================================================================
