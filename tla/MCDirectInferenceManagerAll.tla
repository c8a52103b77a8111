-------------------- MODULE MCDirectInferenceManagerAll ---------------------
(***************************************************************************)
(* Instance of DirectInferenceManagerAll for TLC.                          *)
(***************************************************************************)
EXTENDS DirectInferenceManagerAll, MCFormulasSets
=============================================================================
