----------------------------- MODULE MCControl ------------------------------
(***************************************************************************)
(* The control plane: nine components that share no state (other rows of  *)
(* the table, other invocations).  Nothing that one does can disturb       *)
(* another, so a behaviour is a behaviour of one of them, and the others   *)
(* stay as they began.                                                     *)
(***************************************************************************)
EXTENDS DeviceGrant, HookIntake, Credentials, Published, CronTimes,
        DropboxResolver, Schedules, Digest, Notices, TLC

VARIABLE part   \* the component that moves

controlVars == <<part, grantVars, hookVars, credVars, pubVars, cronVars, dropVars, schedVars,
                 digestVars, noticeVars>>

\* A chain: a branch around one step, and a step behind it.
MCWrapperOf == <<0, 1, 0>>
MCOffsets == (-2)..1

Symmetry == Permutations(Browsers) \cup Permutations(Files)

\* A component that rests stands in one initial state.
Init ==
    /\ part \in {"grant", "hook", "cred", "pub", "cron", "drop", "sched", "digest", "notice"}
    /\ GrantInit /\ HookInit /\ CredInit /\ PubInit /\ CronInit /\ DropInit /\ SchedInit
    /\ DigestInit /\ NoticeInit
    /\ part # "hook" => response = "ack" /\ entry = [k \in Keys |-> "none"]
    /\ part # "cred" => rotates

Next ==
    /\ part' = part
    /\ \/ part = "grant" /\ GrantNext
          /\ UNCHANGED <<hookVars, credVars, pubVars, cronVars,
                         dropVars, schedVars, digestVars, noticeVars>>
       \/ part = "hook" /\ HookNext
          /\ UNCHANGED <<grantVars, credVars, pubVars, cronVars,
                         dropVars, schedVars, digestVars, noticeVars>>
       \/ part = "cred" /\ CredNext
          /\ UNCHANGED <<grantVars, hookVars, pubVars, cronVars,
                         dropVars, schedVars, digestVars, noticeVars>>
       \/ part = "pub" /\ PubNext
          /\ UNCHANGED <<grantVars, hookVars, credVars, cronVars,
                         dropVars, schedVars, digestVars, noticeVars>>
       \/ part = "cron" /\ CronNext
          /\ UNCHANGED <<grantVars, hookVars, credVars, pubVars,
                         dropVars, schedVars, digestVars, noticeVars>>
       \/ part = "drop" /\ DropNext
          /\ UNCHANGED <<grantVars, hookVars, credVars, pubVars,
                         cronVars, schedVars, digestVars, noticeVars>>
       \/ part = "sched" /\ SchedNext
          /\ UNCHANGED <<grantVars, hookVars, credVars, pubVars,
                         cronVars, dropVars, digestVars, noticeVars>>
       \/ part = "digest" /\ DigestNext
          /\ UNCHANGED <<grantVars, hookVars, credVars, pubVars,
                         cronVars, dropVars, schedVars, noticeVars>>
       \/ part = "notice" /\ NoticeNext
          /\ UNCHANGED <<grantVars, hookVars, credVars, pubVars,
                         cronVars, dropVars, schedVars, digestVars>>

Spec == Init /\ [][Next]_controlVars

(* The records, locks and counters of the component that moves keep their  *)
(* shape, and what the proofs need of it holds (GrantInv is a property of  *)
(* its own).  What the others are is what they were at the beginning.      *)
ControlTypeOK ==
    /\ part = "hook" => HookInv
    /\ part = "cred" => CredInv /\ TokenInv
    /\ part = "pub" => PubInv
    /\ part = "cron" => CronTypeOK
    /\ part = "drop" => DropInv
    /\ part = "sched" => SchedInv
    /\ part = "digest" => DigestInv
    /\ part = "notice" => NoticeInv /\ TellInv
=============================================================================
