---------------------------- MODULE MCAgentJobs ----------------------------
(***************************************************************************)
(* A job by itself meets every fault within the bounds.  While two jobs    *)
(* are known there are fewer: one restart, no original lost from the disk, *)
(* no cancellation under way and none that was asked of a dictation.  Only *)
(* the client, a crash and the disk are bounded by this: whatever is fair  *)
(* remains enabled.                                                        *)
(***************************************************************************)
EXTENDS AgentJobs

Together == \A j \in Jobs : store[j].state # "NONE"

BoundedNext ==
    /\ Next
    /\ Together' =>
          /\ crashes' <= 1 /\ lost' = {}
          /\ \A j \in Jobs : cpc'[j] = "idle" /\ (j \in Dictations => ~store'[j].cancel)

BoundedSpec == Init /\ [][BoundedNext]_vars /\ Fairness
=============================================================================
