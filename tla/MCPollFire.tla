----------------------------- MODULE MCPollFire -----------------------------
(***************************************************************************)
(* One poll for two small sets of workflows.  MCFlows: the first workflow  *)
(* is a filter that says no, the second is an action.  MCFilterFlows: the  *)
(* first has an action behind that filter.                                 *)
(***************************************************************************)
EXTENDS PollFire

MCFlows == <<"gated", "plain">>
MCFilterFlows == <<"gated", "gated", "plain">>
=============================================================================
