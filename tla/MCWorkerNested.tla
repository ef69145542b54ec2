--------------------------- MODULE MCWorkerNested ---------------------------
(***************************************************************************)
(* One workflow with everything that nests: a branch whose failure is      *)
(* skipped and whose body parks, a loop over two items with a filter that  *)
(* stops the first, and an action whose failure runs a recovery chain.     *)
(***************************************************************************)
EXTENDS Worker

MCFlows == <<"flow">>
MCChain == [f \in {"flow"} |-> <<"branch", "each", "risky">>]
MCBody == [branch |-> << <<"b.pause", "b.post">> >>,
           each |-> << <<"0.filter", "0.post">>, <<"1.post">> >>]
MCRecovery == [risky |-> <<"r.post">>]
MCSteps == {"branch", "each", "risky", "b.pause", "b.post",
            "0.filter", "0.post", "1.post", "r.post"}
MCFlowOf == [s \in MCSteps |-> "flow"]
MCKind == [s \in MCSteps |-> CASE s = "branch" -> "branch"
                               [] s = "each" -> "loop"
                               [] s = "b.pause" -> "delay"
                               [] s = "0.filter" -> "filter"
                               [] OTHER -> "action"]
MCPolicy == [s \in MCSteps |-> CASE s = "branch" -> "skip"
                                 [] s = "risky" -> "recover"
                                 [] OTHER -> "halt"]
MCBodies == [s \in MCSteps |-> IF s \in DOMAIN MCBody THEN MCBody[s] ELSE <<>>]
MCRecoveries == [s \in MCSteps |-> IF s \in DOMAIN MCRecovery THEN MCRecovery[s] ELSE <<>>]
MCStopping == {"0.filter"}
MCFailing == {"1.post", "risky"}
MCAttempts == [f \in {"flow"} |-> 1]
=============================================================================
