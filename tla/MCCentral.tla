----------------------------- MODULE MCCentral -----------------------------
(***************************************************************************)
(* One run for the processing jobs of a session and for the registry of    *)
(* persons: they share no row, so that one of the two moves and the other  *)
(* keeps its initial state.                                                *)
(***************************************************************************)
EXTENDS MCCentralJobs, MCIdentityMerge

VARIABLE moving

centralVars == <<moving, vars, mergeVars>>

\* While the jobs move, every record is of one person.
CentralInit ==
    /\ moving \in {"jobs", "persons"}
    /\ Init
    /\ MergeInit /\ (moving = "jobs" => \A r, s \in Records : identity[r] = identity[s] /\ identity[r] = 1)

CentralNext ==
    /\ UNCHANGED moving
    /\ \/ moving = "jobs" /\ Next /\ UNCHANGED mergeVars
       \/ moving = "persons" /\ MergeNext /\ UNCHANGED vars

CentralSpec == CentralInit /\ [][CentralNext]_centralVars

\* What can be permuted is interchangeable in the part that moves, and in the part that stands still.
Symmetric == SymmetricJobs \cup SymmetricMerges

\* The types of both; a walk over aliases is always at a row, and the session's lock is held by
\* the request that says so.
CentralTypeOK == TypeOK /\ MergeTypeOK
=============================================================================
