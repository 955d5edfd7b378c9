------------------------------ MODULE Delivery ------------------------------
(***************************************************************************)
(* What the two machines together promise of every processing job: its     *)
(* transcript is stored once, unless the job was withdrawn before; the     *)
(* workstation gives up its means to deliver (the job's token) only when   *)
(* everything it owes is stored, but for a recording that was taken from   *)
(* it.  Who sends what, how often, and what gets lost on the way is the    *)
(* business of ProcessingSync, which implements this specification.        *)
(***************************************************************************)
CONSTANTS
    Jobs,
    AudioOwed    \* the original audio is owed along with the transcript

VARIABLES
    stored,      \* the jobs whose transcript the central server has
    kept,        \* the jobs whose original audio it has
    withdrawn,   \* the jobs cancelled centrally
    responsible, \* the jobs whose token the workstation holds
    taken        \* the jobs whose original audio somebody deleted there
dvars == <<stored, kept, withdrawn, responsible, taken>>

DeliveryInit == stored = {} /\ kept = {} /\ withdrawn = {} /\ responsible = {} /\ taken = {}

Store(j) ==
    /\ j \notin stored \cup withdrawn
    /\ stored' = stored \cup {j}
    /\ UNCHANGED <<kept, withdrawn, responsible, taken>>

Keep(j) ==
    /\ j \notin kept
    /\ kept' = kept \cup {j}
    /\ UNCHANGED <<stored, withdrawn, responsible, taken>>

Withdraw(j) ==
    /\ j \notin stored \cup withdrawn
    /\ withdrawn' = withdrawn \cup {j}
    /\ UNCHANGED <<stored, kept, responsible, taken>>

\* The workstation takes the job on, and gives it up.
Accept(j) ==
    /\ j \notin responsible
    /\ responsible' = responsible \cup {j}
    /\ UNCHANGED <<stored, kept, withdrawn, taken>>

Release(j) ==
    /\ j \in stored /\ (AudioOwed => j \in kept \cup taken)
    /\ responsible' = responsible \ {j}
    /\ UNCHANGED <<stored, kept, withdrawn, taken>>

Take(j) ==
    /\ j \notin taken
    /\ taken' = taken \cup {j}
    /\ UNCHANGED <<stored, kept, withdrawn, responsible>>

DeliveryNext ==
    \E j \in Jobs : Store(j) \/ Keep(j) \/ Withdraw(j) \/ Accept(j) \/ Release(j) \/ Take(j)

DeliverySpec == DeliveryInit /\ [][DeliveryNext]_dvars
=============================================================================
