------------------------------ MODULE MCWorker ------------------------------
(***************************************************************************)
(* One event, two workflows: the first parks on a long delay inside of a   *)
(* branch, and a filter behind the branch says no; the second is an action *)
(* with a retry policy.                                                    *)
(***************************************************************************)
EXTENDS RunHistory

MCFlows == <<"wait", "post">>
MCWait == <<"wait">>
MCPost == <<"post">>
MCChain == [wait |-> <<"w.branch", "w.filter", "w.after">>, post |-> <<"p.post">>]
MCBranch == {"w.send", "w.pause"}
MCSteps == MCBranch \cup {"w.branch", "w.filter", "w.after", "p.post"}
MCFlowOf == [s \in MCSteps |-> IF s = "p.post" THEN "post" ELSE "wait"]
MCKind == [s \in MCSteps |-> CASE s = "w.branch" -> "branch"
                               [] s = "w.pause" -> "delay"
                               [] s = "w.filter" -> "filter"
                               [] OTHER -> "action"]
MCBodies == [s \in MCSteps |-> IF s = "w.branch" THEN << <<"w.send", "w.pause">> >> ELSE <<>>]
MCRecovery == [s \in MCSteps |-> <<>>]
MCPolicy == [s \in MCSteps |-> "halt"]
MCStopping == {"w.filter"}
MCFailing == {"w.send", "p.post"}
MCAttempts == [f \in {"wait", "post"} |-> IF f = "post" THEN 2 ELSE 1]
MCCancellable == {"wait"}
=============================================================================
