----------------------- MODULE MCDirectInferenceAgent -----------------------
(***************************************************************************)
(* Instance of DirectInferenceAgent for TLC.                               *)
(***************************************************************************)
EXTENDS DirectInferenceAgent, MCFormulasSets
=============================================================================
