----------------------------- MODULE MCCarriers ------------------------------
(***************************************************************************)
(* One workflow for an operator to meddle with: an action with a retry     *)
(* policy, a delay, and a loop over two items whose failure runs a         *)
(* recovery chain.                                                         *)
(***************************************************************************)
EXTENDS Carriers, TLC

MCFlows == <<"wait">>
MCChain == [wait |-> <<"w.send", "w.pause", "w.each">>]
MCItems == {"0.post", "1.post"}
MCSteps == MCItems \cup {"w.send", "w.pause", "w.each", "r.tell"}
MCFlowOf == [s \in MCSteps |-> "wait"]
MCKind == [s \in MCSteps |-> CASE s = "w.pause" -> "delay"
                               [] s = "w.each" -> "loop"
                               [] OTHER -> "action"]
MCBodies == [s \in MCSteps |-> IF s = "w.each" THEN << <<"0.post">>, <<"1.post">> >> ELSE <<>>]
MCRecovery == [s \in MCSteps |-> IF s = "w.each" THEN <<"r.tell">> ELSE <<>>]
MCPolicy == [s \in MCSteps |-> IF s = "w.each" THEN "recover" ELSE "halt"]
MCFailing == {"w.send", "1.post"}
MCAttempts == [f \in {"wait"} |-> 2]
MCRoot == [s \in MCSteps |-> IF s \in MCItems \cup {"r.tell"} THEN "w.each" ELSE s]
Symmetry == Permutations(Workers)

\* The hypotheses of the theorems about the end of an event.
ASSUME TreesAssumption == Trees
=============================================================================
