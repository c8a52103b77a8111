--------------------------- MODULE ForwardChaining ---------------------------
(***************************************************************************)
(* What a call of the inference with a target promises, without queues,    *)
(* indices or lists of checked formulas: formulas come from sets of        *)
(* decreasing priority; the formulas of a set are admitted when nothing is *)
(* left to expect of the sets before it; once one generates, everything    *)
(* that was tried in vain counts as untried again; the call ends with the  *)
(* target, or when nothing is left to expect of any set, or it throws.     *)
(*                                                                         *)
(* Of a formula of the first set one use that generates is expected: the   *)
(* set is taken up once.                                                   *)
(***************************************************************************)
EXTENDS Naturals, Sequences

CONSTANT Formulas

VARIABLES
  stage,    (* of the call                                                 *)
  sets,     (* the sets of formulas, the first one first                   *)
  passed,   (* how many of them nothing is left to expect of; 0 unless the *)
            (* call is working on the formulas                             *)
  admitted, (* the formulas that may be tried                              *)
  vain,     (* the formulas tried in vain since something was generated    *)
  applied   (* the formulas whose last use generated something             *)

vars == <<stage, sets, passed, admitted, vain, applied>>

Init ==
  /\ stage = "start"
  /\ sets = <<>>
  /\ passed = 0
  /\ admitted = {}
  /\ vain = {}
  /\ applied = {}

Exhausted(n, f) == f \in vain \/ (n = 1 /\ f \in applied)

(* Nothing is left to expect of the first m sets.                          *)
ExhaustedUpTo(m) == \A n \in 1 .. m : \A f \in sets[n] : Exhausted(n, f)

End(how) ==
  /\ stage' = how
  /\ passed' = 0
  /\ UNCHANGED <<sets, admitted, vain, applied>>

(* The target is there at the start, or it is not and the sets are read.   *)
FindAtStart == stage = "start" /\ End("found")

Start ==
  /\ stage = "start"
  /\ stage' = "working"
  /\ sets' \in Seq(SUBSET Formulas) /\ sets' # <<>>
  /\ UNCHANGED <<passed, admitted, vain, applied>>

Admit ==
  /\ stage = "working"
  /\ passed < Len(sets)
  /\ ExhaustedUpTo(passed)
  /\ admitted' = admitted \cup sets[passed + 1]
  /\ UNCHANGED <<stage, sets, passed, vain, applied>>

Pass ==
  /\ stage = "working"
  /\ passed < Len(sets)
  /\ ExhaustedUpTo(passed + 1)
  /\ passed' = passed + 1
  /\ UNCHANGED <<stage, sets, admitted, vain, applied>>

TryInVain(f) ==
  /\ stage = "working"
  /\ f \in admitted
  /\ vain' = vain \cup {f}
  /\ applied' = applied \ {f}
  /\ UNCHANGED <<stage, sets, passed, admitted>>

Generate(f) ==
  /\ stage = "working"
  /\ f \in admitted
  /\ stage' = "generated"
  /\ passed' = 0
  /\ vain' = {}
  /\ applied' = applied \cup {f}
  /\ UNCHANGED <<sets, admitted>>

(* The target is looked for after each generation, and only then.          *)
Find == stage = "generated" /\ End("found")

Miss ==
  /\ stage = "generated"
  /\ stage' = "working"
  /\ UNCHANGED <<sets, passed, admitted, vain, applied>>

GiveUp ==
  /\ stage = "working"
  /\ ExhaustedUpTo(Len(sets))
  /\ End("gaveUp")

Throw == stage \in {"start", "working", "generated"} /\ End("thrown")

Next ==
  \/ FindAtStart
  \/ Start
  \/ Admit
  \/ Pass
  \/ \E f \in Formulas : TryInVain(f) \/ Generate(f)
  \/ Find
  \/ Miss
  \/ GiveUp
  \/ Throw

Spec == Init /\ [][Next]_vars
=============================================================================
