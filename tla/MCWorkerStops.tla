---------------------------- MODULE MCWorkerStops ---------------------------
(***************************************************************************)
(* A filter inside a branch, and one inside the body of a loop whose first *)
(* item parks.  Both say no.                                               *)
(***************************************************************************)
EXTENDS Worker

MCFlows == <<"gated">>
MCLoopFlows == <<"looped">>
MCChain == [f \in {"gated", "looped"} |->
              IF f = "gated" THEN <<"branch", "post">> ELSE <<"each">>]
MCBody == [branch |-> << <<"b.filter">> >>,
           each |-> << <<"0.pause", "0.filter">>, <<"1.post">> >>]
MCSteps == {"branch", "b.filter", "post", "each", "0.pause", "0.filter", "1.post"}
MCFlowOf == [s \in MCSteps |->
              IF s \in {"branch", "b.filter", "post"} THEN "gated" ELSE "looped"]
MCKind == [s \in MCSteps |-> CASE s = "branch" -> "branch"
                               [] s = "each" -> "loop"
                               [] s = "0.pause" -> "delay"
                               [] s \in {"b.filter", "0.filter"} -> "filter"
                               [] OTHER -> "action"]
MCPolicy == [s \in MCSteps |-> "halt"]
MCBodies == [s \in MCSteps |-> IF s \in DOMAIN MCBody THEN MCBody[s] ELSE <<>>]
MCNoBodies == [s \in MCSteps |-> <<>>]
MCStopping == {"b.filter", "0.filter"}
MCAttempts == [f \in {"gated", "looped"} |-> 1]
=============================================================================
