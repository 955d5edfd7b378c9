--------------------------- MODULE IdentityMerge ---------------------------
(***************************************************************************)
(* The person registry of the central server: services/person_identity.py  *)
(* and the consolidation endpoint that calls it.                           *)
(*                                                                         *)
(* A person merged away stays as an alias that points to its survivor.     *)
(* Every consolidation is one PostgreSQL transaction (READ COMMITTED): it  *)
(* walks from both persons to their survivors, one row per statement,      *)
(* locks the two rows FOR UPDATE in the order of their ids, walks again,   *)
(* and either starts over or makes the source an alias and repoints the    *)
(* records that point at it: prints, subjects, speakers and profiles.      *)
(*                                                                         *)
(* A request starts with two persons the endpoint found: survivors then,   *)
(* perhaps aliases by now.  A walk may find rows that SQLAlchemy still has *)
(* in memory; as a pointer is written once, this is the walk made earlier. *)
(***************************************************************************)
EXTENDS Naturals

CONSTANTS
    People,      \* rows of person_identities, ordered by their ids
    NoOne,       \* merged_into_id is NULL; a row nobody has locked
    Records,     \* rows that carry an identity_id
    Merges,      \* consolidation requests
    MaxHops,     \* MAX_ALIAS_HOPS, 16 in the code
    MaxAttempts  \* max_attempts of merge_identities, 3 in the code

ASSUME PeopleAssumption == People \subseteq Nat /\ NoOne \notin People /\ NoOne \notin Merges
ASSUME BoundsAssumption == MaxHops \in Nat \ {0} /\ MaxAttempts \in Nat \ {0}

\* A call of merge_identities(from, to): the pair it has walked to, the walk
\* it is making, which has come to `here' in `hops' steps, and what came of it.
Consolidation ==
    [at: {"idle", "source", "target", "lock", "source again", "target again",
          "repoint", "commit"},
     from: People \cup {NoOne}, to: People \cup {NoOne},
     source: People \cup {NoOne}, target: People \cup {NoOne},
     here: People \cup {NoOne}, hops: 0..MaxHops,
     sourceNow: People \cup {NoOne},   \* what the second walk from the source found
     attempt: 0..MaxAttempts,
     moved: SUBSET Records]            \* the records repoint_identity has read
Idle == [at |-> "idle", from |-> NoOne, to |-> NoOne, source |-> NoOne, target |-> NoOne,
         here |-> NoOne, hops |-> 0, sourceNow |-> NoOne, attempt |-> 0, moved |-> {}]

VARIABLES
    mergedInto,  \* [People -> People or NoOne]: merged_into_id
    identity,    \* [Records -> People]: identity_id
    locked,      \* [People -> Merges or NoOne]: the row locks
    merge        \* [Merges -> Consolidation]
mergeVars == <<mergedInto, identity, locked, merge>>

Walking(m) == merge[m].at \in {"source", "target", "source again", "target again"}

\* Types; and a walk is always at a row: resolve_identity never runs off the
\* end of a chain (person_identity.py:36-43).
MergeTypeOK ==
    /\ mergedInto \in [People -> People \cup {NoOne}]
    /\ identity \in [Records -> People]
    /\ locked \in [People -> Merges \cup {NoOne}]
    /\ merge \in [Merges -> Consolidation]
    /\ \A m \in Merges : Walking(m) => merge[m].here \in People

MergeInit ==
    /\ mergedInto = [p \in People |-> NoOne]
    /\ identity \in [Records -> People]
    /\ locked = [p \in People |-> NoOne]
    /\ merge = [m \in Merges |-> Idle]

Update(m, row) == merge' = [merge EXCEPT ![m] = row]

\* The transaction ends: committed or, after a conflict, rolled back.
Release(m) ==
    /\ locked' = [p \in People |-> IF locked[p] = m THEN NoOne ELSE locked[p]]
    /\ Update(m, Idle)

----------------------------------------------------------------------------
(* resolve_identity: one hop is one read of a row *)

\* The walk ends at a survivor, or after MAX_ALIAS_HOPS.
WalkEnds(m) == mergedInto[merge[m].here] = NoOne \/ merge[m].hops = MaxHops

Hop(m) ==
    /\ Walking(m) /\ ~WalkEnds(m)
    /\ Update(m, [merge[m] EXCEPT !.here = mergedInto[merge[m].here], !.hops = @ + 1])
    /\ UNCHANGED <<mergedInto, identity, locked>>

----------------------------------------------------------------------------
(* consolidate, merge_identities and repoint_identity *)

Started(from, to, attempt) ==
    [Idle EXCEPT !.at = "source", !.from = from, !.to = to, !.here = from, !.attempt = attempt]

\* A client asks to merge one person into another.
RequestMerge(m, source, target) ==
    /\ merge[m].at = "idle"
    /\ Update(m, Started(source, target, 1))
    /\ UNCHANGED <<mergedInto, identity, locked>>

SourceFound(m) ==
    /\ merge[m].at = "source" /\ WalkEnds(m)
    /\ Update(m, [merge[m] EXCEPT !.at = "target", !.source = merge[m].here,
                                  !.here = merge[m].to, !.hops = 0])
    /\ UNCHANGED <<mergedInto, identity, locked>>

\* Nobody is merged into himself: "identity_merge_conflict".
TargetFound(m) ==
    /\ merge[m].at = "target" /\ WalkEnds(m)
    /\ IF merge[m].here = merge[m].source
       THEN Release(m)
       ELSE /\ Update(m, [merge[m] EXCEPT !.at = "lock", !.target = merge[m].here,
                                        !.here = NoOne, !.hops = 0])
            /\ UNCHANGED locked
    /\ UNCHANGED <<mergedInto, identity>>

\* _lock_identities locks the row with the smaller id first.
Missing(m) == {p \in {merge[m].source, merge[m].target} : locked[p] # m}
SourceFirst(m) == IF locked[merge[m].source] # m THEN merge[m].source ELSE merge[m].target

FirstMissing(m) == CHOOSE p \in Missing(m) : \A q \in Missing(m) : p <= q

LockRow(m) ==
    /\ merge[m].at = "lock" /\ Missing(m) # {}
    /\ locked[FirstMissing(m)] = NoOne
    /\ locked' = [locked EXCEPT ![FirstMissing(m)] = m]
    /\ UNCHANGED <<mergedInto, identity, merge>>

\* Both rows are locked; what was read before is expired.
WalkAgain(m) ==
    /\ merge[m].at = "lock" /\ Missing(m) = {}
    /\ Update(m, [merge[m] EXCEPT !.at = "source again", !.here = merge[m].source, !.hops = 0])
    /\ UNCHANGED <<mergedInto, identity, locked>>

SourceFoundAgain(m) ==
    /\ merge[m].at = "source again" /\ WalkEnds(m)
    /\ Update(m, [merge[m] EXCEPT !.at = "target again", !.sourceNow = merge[m].here,
                                  !.here = merge[m].target, !.hops = 0])
    /\ UNCHANGED <<mergedInto, identity, locked>>

\* A survivor moved: start over, with the locks kept, at most max_attempts times.
StartOver(m) ==
    IF merge[m].attempt = MaxAttempts
    THEN Release(m)
    ELSE /\ Update(m, Started(merge[m].from, merge[m].to, merge[m].attempt + 1))
         /\ UNCHANGED locked

GoOn(m) ==
    /\ Update(m, [Idle EXCEPT !.at = "repoint", !.source = merge[m].source,
                              !.target = merge[m].target])
    /\ UNCHANGED locked

StillThere(m) == merge[m].sourceNow = merge[m].source /\ merge[m].here = merge[m].target

GoOnAnyway(m) ==
    /\ merge[m].at = "target again" /\ WalkEnds(m)
    /\ GoOn(m)
    /\ UNCHANGED <<mergedInto, identity>>

\* The checks of lines 148 to 158 never fire once both are StillThere: two
\* different survivors, and no walk leads on from the target.
TargetFoundAgain(m) ==
    /\ merge[m].at = "target again" /\ WalkEnds(m)
    /\ IF StillThere(m) THEN GoOn(m) ELSE StartOver(m)
    /\ UNCHANGED <<mergedInto, identity>>

\* repoint_identity reads the records of the source ...
ReadRecords(m) ==
    /\ merge[m].at = "repoint"
    /\ Update(m, [merge[m] EXCEPT !.at = "commit",
                      !.moved = {r \in Records : identity[r] = merge[m].source}])
    /\ UNCHANGED <<mergedInto, identity, locked>>

\* ... and writes them by their primary keys.  The endpoint then commits.
Commit(m) ==
    /\ merge[m].at = "commit"
    /\ mergedInto' = [mergedInto EXCEPT ![merge[m].source] = merge[m].target]
    /\ identity' = [r \in Records |-> IF r \in merge[m].moved THEN merge[m].target
                                                             ELSE identity[r]]
    /\ Release(m)

\* PostgreSQL's deadlock detector aborts one of the transactions that wait for
\* one another: a retry locks rows out of order.
Waiting(m) == merge[m].at = "lock" /\ Missing(m) # {}

Deadlocked(S) ==
    \A m \in S : Waiting(m) /\ \E n \in S : n # m /\ locked[FirstMissing(m)] = n

AbortDeadlock(m) ==
    /\ \E S \in SUBSET Merges : m \in S /\ Deadlocked(S)
    /\ Release(m)
    /\ UNCHANGED <<mergedInto, identity>>

----------------------------------------------------------------------------
(* Another request gives a record another person: the selection of a       *)
(* speaker, a new subject or print.  The foreign key check of the update   *)
(* (FOR KEY SHARE) waits while the person's row is locked FOR UPDATE.      *)

AssignIgnoringLocks(r, p) ==
    /\ identity[r] # p
    /\ identity' = [identity EXCEPT ![r] = p]
    /\ UNCHANGED <<mergedInto, locked, merge>>

Assign(r, p) ==
    /\ identity[r] # p /\ locked[p] = NoOne
    /\ identity' = [identity EXCEPT ![r] = p]
    /\ UNCHANGED <<mergedInto, locked, merge>>

----------------------------------------------------------------------------
Step(m) ==
    \/ Hop(m) \/ SourceFound(m) \/ TargetFound(m)
    \/ LockRow(m) \/ WalkAgain(m) \/ SourceFoundAgain(m) \/ TargetFoundAgain(m)
    \/ ReadRecords(m) \/ Commit(m) \/ AbortDeadlock(m)

MergeNext ==
    \/ \E m \in Merges, source, target \in People : RequestMerge(m, source, target)
    \/ \E m \in Merges : Step(m)
    \/ \E r \in Records, p \in People : Assign(r, p)

MergeSpec == MergeInit /\ [][MergeNext]_mergeVars

----------------------------------------------------------------------------
(* Properties *)

\* Merges in any order and direction never close a circle: of any set of
\* persons one is a survivor or points out of the set (person_identity.py:131-161).
NoCircle ==
    \A S \in SUBSET People : S # {} => \E p \in S : mergedInto[p] \notin S

\* An alias is never redirected: a merge takes effect only on a person who is
\* still a survivor when it is written, whatever was merged while it waited.
AliasesAreFinal ==
    [][\A p \in People : mergedInto[p] # NoOne => mergedInto'[p] = mergedInto[p]]_mergeVars

\* The commit that makes a person an alias leaves no record pointing at him,
\* also none that was assigned after repoint_identity had read the records.
NothingLeftBehind ==
    [][\A p \in People : mergedInto[p] = NoOne /\ mergedInto'[p] # NoOne
        => \A r \in Records : identity'[r] # p]_mergeVars

\* Locking in the order of the ids keeps merges from deadlocking, in opposite
\* directions too, as long as nobody has to start over (person_identity.py:97).
DeadlockNeedsRetry ==
    \A S \in SUBSET Merges : S # {} /\ Deadlocked(S) => \E m \in S : merge[m].attempt > 1

----------------------------------------------------------------------------
(* What the repository says and the code does not do *)

\* person_identity.py:168: repoint_identity moves what "pointed at one identity
\* onto another", and nothing else.
OnlyRecordsOfTheSourceMove ==
    [][\A m \in Merges : Commit(m) =>
        \A r \in merge[m].moved : identity[r] = merge[m].source]_mergeVars
=============================================================================
