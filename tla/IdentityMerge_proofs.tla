----------------------- MODULE IdentityMerge_proofs -----------------------
(***************************************************************************)
(* Proofs about IdentityMerge, for any number of persons, records and      *)
(* concurrent merges and any bounds on hops and attempts.                  *)
(*                                                                         *)
(* The argument: a merge that is about to write holds the locks of both    *)
(* persons and both are survivors (Settled).  That its second walks came   *)
(* back to where they started can only mean that they made no hop, since   *)
(* along pointers a rank grows (Climbing).                                 *)
(***************************************************************************)
EXTENDS IdentityMerge, WellFoundedInduction, TLAPS

\* Where a merge knows its pair, and where it holds both locks.
Paired  == {"lock", "source again", "target again", "repoint", "commit"}
Holding == Paired \ {"lock"}

\* Persons are known when they are needed.
Known ==
    \A m \in Merges :
        /\ merge[m].at \in {"source", "target", "lock", "source again", "target again"}
            => merge[m].from \in People /\ merge[m].to \in People
        /\ merge[m].at = "target" => merge[m].source \in People
        /\ merge[m].at \in Paired =>
            /\ merge[m].source \in People /\ merge[m].target \in People
            /\ merge[m].source # merge[m].target

\* The locks are held from the second walks on.
Locks ==
    \A m \in Merges : merge[m].at \in Holding =>
        locked[merge[m].source] = m /\ locked[merge[m].target] = m

\* A second walk that has not moved is at its start; if the source's came back
\* to the source, the source is a survivor.
Walks ==
    \A m \in Merges :
        /\ merge[m].at = "source again" /\ merge[m].hops = 0 => merge[m].here = merge[m].source
        /\ merge[m].at = "target again" /\ merge[m].hops = 0 => merge[m].here = merge[m].target
        /\ merge[m].at = "target again" /\ merge[m].sourceNow = merge[m].source
            => mergedInto[merge[m].source] = NoOne

\* A merge that is about to write has two survivors, and every record of its source.
Settled ==
    \A m \in Merges :
        /\ merge[m].at \in {"repoint", "commit"} =>
            mergedInto[merge[m].source] = NoOne /\ mergedInto[merge[m].target] = NoOne
        /\ merge[m].at = "commit" =>
            \A r \in Records : identity[r] = merge[m].source => r \in merge[m].moved

\* A walk has left its start p, upwards.
Above(rank, p, here) == mergedInto[p] # NoOne /\ rank[p] < rank[here]

Climbs(rank) ==
    /\ \A p \in People : mergedInto[p] # NoOne => rank[p] < rank[mergedInto[p]]
    /\ \A m \in Merges : merge[m].hops > 0 =>
        /\ merge[m].at = "source again" => Above(rank, merge[m].source, merge[m].here)
        /\ merge[m].at = "target again" => Above(rank, merge[m].target, merge[m].here)

Climbing == \E rank \in [People -> Nat] : Climbs(rank)

Inv == MergeTypeOK /\ Known /\ Locks /\ Walks /\ Settled /\ Climbing /\ NoCircle

----------------------------------------------------------------------------
\* Writing one merge's record leaves the others alone.
LEMMA UpdateOne ==
    ASSUME MergeTypeOK, NEW m \in Merges, NEW row, Update(m, row)
    PROVE  /\ merge'[m] = row
           /\ \A n \in Merges : n # m => merge'[n] = merge[n]
BY DEF Update, MergeTypeOK

\* No hop has been made.
LEMMA NoHop == 0 \in 0..MaxHops
BY BoundsAssumption

\* Hops are counted in the naturals.
LEMMA HopsAreNat == ASSUME NEW c \in Consolidation PROVE c.hops \in Nat
<1>1. c.hops \in 0..MaxHops
    BY DEF Consolidation
<1>2. QED
    BY <1>1, BoundsAssumption

\* A released merge is idle and no other merge loses a lock.
LEMMA ReleaseOne ==
    ASSUME MergeTypeOK, NEW m \in Merges, Release(m)
    PROVE  /\ merge'[m] = Idle /\ Idle \in Consolidation
           /\ \A n \in Merges : n # m => merge'[n] = merge[n]
           /\ locked' \in [People -> Merges \cup {NoOne}]
           /\ \A n \in Merges, p \in People : n # m /\ locked[p] = n => locked'[p] = n
<1>1. Update(m, Idle)
    BY DEF Release
<1>2. /\ merge'[m] = Idle
      /\ \A n \in Merges : n # m => merge'[n] = merge[n]
    BY <1>1, UpdateOne
<1>3. Idle \in Consolidation
    BY BoundsAssumption DEF Idle, Consolidation
<1>4. QED
    BY <1>2, <1>3 DEF Release, MergeTypeOK

\* A walk that came back to its start p made no hop, and p is a survivor.
LEMMA CameBack ==
    ASSUME NEW rank \in [People -> Nat], NEW p \in People, NEW here \in People,
           NEW hops \in Nat, here = p, mergedInto[here] = NoOne \/ hops = MaxHops,
           hops > 0 => Above(rank, p, here)
    PROVE  mergedInto[p] = NoOne
BY BoundsAssumption DEF Above

\* The first missing row is one of the pair, and not locked by the merge.
LEMMA FirstMissingIsMissing ==
    ASSUME MergeTypeOK, Known, NEW m \in Merges, merge[m].at = "lock", Missing(m) # {}
    PROVE  FirstMissing(m) \in People
<1> DEFINE s == merge[m].source
           t == merge[m].target
<1>1. s \in Nat /\ t \in Nat /\ s \in People /\ t \in People
    BY PeopleAssumption DEF Known, Paired
<1>2. \E p \in Missing(m) : \A q \in Missing(m) : p <= q
  <2>1. Missing(m) \subseteq {s, t}
      BY DEF Missing
  <2>2. CASE s \in Missing(m) /\ t \in Missing(m)
      BY <1>1, <2>1, <2>2
  <2>3. CASE s \notin Missing(m)
      BY <1>1, <2>1, <2>3
  <2>4. CASE t \notin Missing(m)
      BY <1>1, <2>1, <2>4
  <2>5. QED
      BY <2>2, <2>3, <2>4
<1>3. FirstMissing(m) \in Missing(m)
    BY <1>2 DEF FirstMissing
<1>4. QED
    BY <1>1, <1>3 DEF Missing

----------------------------------------------------------------------------
\* Nobody is an alias at first.
LEMMA InitInv == MergeInit => Inv
<1> SUFFICES ASSUME MergeInit PROVE Inv
    OBVIOUS
<1>1. MergeTypeOK
  <2>1. Idle \in Consolidation /\ Idle.at = "idle"
      BY NoHop, BoundsAssumption DEF Consolidation, Idle
  <2>2. QED
      BY <2>1 DEF MergeInit, MergeTypeOK, Walking
<1>2. Known /\ Locks /\ Walks /\ Settled
    BY DEF MergeInit, Known, Locks, Walks, Settled, Paired, Holding, Idle
<1>3. Climbing
  <2> DEFINE rank == [p \in People |-> 0]
  <2>1. rank \in [People -> Nat] /\ Climbs(rank)
      BY DEF MergeInit, Climbs, Idle
  <2>2. QED
      BY <2>1 DEF Climbing
<1>4. NoCircle
    BY PeopleAssumption DEF MergeInit, NoCircle
<1>5. QED
    BY <1>1, <1>2, <1>3, <1>4 DEF Inv

\* A step of one merge m that writes nothing but its own record and locks:
\* it is enough to look at m.
Own(m) ==
    /\ merge'[m] \in Consolidation
    /\ merge'[m].at \in {"source", "target", "source again", "target again"}
        => merge'[m].here \in People
    /\ merge'[m].at \in {"source", "target", "lock", "source again", "target again"}
        => merge'[m].from \in People /\ merge'[m].to \in People
    /\ merge'[m].at = "target" => merge'[m].source \in People
    /\ merge'[m].at \in Paired =>
        /\ merge'[m].source \in People /\ merge'[m].target \in People
        /\ merge'[m].source # merge'[m].target
    /\ merge'[m].at \in Holding =>
        locked'[merge'[m].source] = m /\ locked'[merge'[m].target] = m
    /\ merge'[m].at = "source again" /\ merge'[m].hops = 0 => merge'[m].here = merge'[m].source
    /\ merge'[m].at = "target again" /\ merge'[m].hops = 0 => merge'[m].here = merge'[m].target
    /\ merge'[m].at = "target again" /\ merge'[m].sourceNow = merge'[m].source
        => mergedInto[merge'[m].source] = NoOne
    /\ merge'[m].at \in {"repoint", "commit"} =>
        mergedInto[merge'[m].source] = NoOne /\ mergedInto[merge'[m].target] = NoOne
    /\ merge'[m].at = "commit" =>
        \A r \in Records : identity[r] = merge'[m].source => r \in merge'[m].moved

OwnClimb(m, rank) ==
    merge'[m].hops > 0 =>
        /\ merge'[m].at = "source again" => Above(rank, merge'[m].source, merge'[m].here)
        /\ merge'[m].at = "target again" => Above(rank, merge'[m].target, merge'[m].here)

LEMMA PrivateStep ==
    ASSUME Inv, NEW m \in Merges, UNCHANGED <<mergedInto, identity>>,
           locked' \in [People -> Merges \cup {NoOne}],
           \A n \in Merges, p \in People : n # m /\ locked[p] = n => locked'[p] = n,
           merge' \in [Merges -> Consolidation],
           \A n \in Merges : n # m => merge'[n] = merge[n],
           Own(m),
           \A rank \in [People -> Nat] : Climbs(rank) => OwnClimb(m, rank)
    PROVE  Inv'
<1> USE DEF Inv
<1>1. MergeTypeOK'
  <2>1. \A n \in Merges : Walking(n)' => merge'[n].here \in People
    <3> SUFFICES ASSUME NEW n \in Merges, Walking(n)' PROVE merge'[n].here \in People
        OBVIOUS
    <3>1. CASE n = m
        BY <3>1 DEF Own, Walking
    <3>2. CASE n # m
        BY <3>2 DEF MergeTypeOK, Walking
    <3>3. QED
        BY <3>1, <3>2
  <2>2. QED
      BY <2>1 DEF MergeTypeOK
<1>2. Known'
  <2> SUFFICES ASSUME NEW n \in Merges
               PROVE /\ merge'[n].at \in {"source", "target", "lock", "source again", "target again"}
                         => merge'[n].from \in People /\ merge'[n].to \in People
                     /\ merge'[n].at = "target" => merge'[n].source \in People
                     /\ merge'[n].at \in Paired =>
                         /\ merge'[n].source \in People /\ merge'[n].target \in People
                         /\ merge'[n].source # merge'[n].target
      BY DEF Known
  <2>1. CASE n = m
      BY <2>1 DEF Own
  <2>2. CASE n # m
      BY <2>2 DEF Known
  <2>3. QED
      BY <2>1, <2>2
<1>3. Locks'
  <2> SUFFICES ASSUME NEW n \in Merges, merge'[n].at \in Holding
               PROVE locked'[merge'[n].source] = n /\ locked'[merge'[n].target] = n
      BY DEF Locks
  <2>1. CASE n = m
      BY <2>1 DEF Own
  <2>2. CASE n # m
    <3>1. merge[n].at \in Holding /\ merge[n].source \in People /\ merge[n].target \in People
        BY <2>2 DEF Known, Holding, Paired
    <3>2. locked[merge[n].source] = n /\ locked[merge[n].target] = n
        BY <3>1 DEF Locks
    <3>3. QED
        BY <2>2, <3>1, <3>2
  <2>3. QED
      BY <2>1, <2>2
<1>4. Walks'
  <2> SUFFICES ASSUME NEW n \in Merges
               PROVE /\ merge'[n].at = "source again" /\ merge'[n].hops = 0
                         => merge'[n].here = merge'[n].source
                     /\ merge'[n].at = "target again" /\ merge'[n].hops = 0
                         => merge'[n].here = merge'[n].target
                     /\ merge'[n].at = "target again" /\ merge'[n].sourceNow = merge'[n].source
                         => mergedInto'[merge'[n].source] = NoOne
      BY DEF Walks
  <2>1. CASE n = m
      BY <2>1 DEF Own
  <2>2. CASE n # m
      BY <2>2 DEF Walks
  <2>3. QED
      BY <2>1, <2>2
<1>5. Settled'
  <2> SUFFICES ASSUME NEW n \in Merges
               PROVE /\ merge'[n].at \in {"repoint", "commit"} =>
                         /\ mergedInto'[merge'[n].source] = NoOne
                         /\ mergedInto'[merge'[n].target] = NoOne
                     /\ merge'[n].at = "commit" =>
                         \A r \in Records : identity'[r] = merge'[n].source => r \in merge'[n].moved
      BY DEF Settled
  <2>1. CASE n = m
      BY <2>1 DEF Own
  <2>2. CASE n # m
      BY <2>2 DEF Settled
  <2>3. QED
      BY <2>1, <2>2
<1>6. Climbing'
  <2>1. PICK rank \in [People -> Nat] : Climbs(rank)
      BY DEF Climbing
  <2>2. OwnClimb(m, rank)
      BY <2>1
  <2>3. \A p, here : Above(rank, p, here)' <=> Above(rank, p, here)
      BY DEF Above
  <2>4. \A n \in Merges : merge'[n].hops > 0 =>
          /\ merge'[n].at = "source again" => Above(rank, merge'[n].source, merge'[n].here)
          /\ merge'[n].at = "target again" => Above(rank, merge'[n].target, merge'[n].here)
      BY <2>1, <2>2 DEF Climbs, OwnClimb
  <2>5. Climbs(rank)'
      BY <2>1, <2>3, <2>4 DEF Climbs
  <2>6. QED
      BY <2>5 DEF Climbing
<1>7. NoCircle'
    BY DEF NoCircle
<1>8. QED
    BY <1>1, <1>2, <1>3, <1>4, <1>5, <1>6, <1>7

----------------------------------------------------------------------------
(* The steps of one merge *)

\* A step that only replaces merge m's record: what PrivateStep leaves to show.
LEMMA RecordStep ==
    ASSUME Inv, NEW m \in Merges, NEW row, Update(m, row), row \in Consolidation,
           UNCHANGED <<mergedInto, identity, locked>>, Own(m),
           \A rank \in [People -> Nat] : Climbs(rank) => OwnClimb(m, rank)
    PROVE  Inv'
<1>1. MergeTypeOK
    BY DEF Inv
<1>2. merge'[m] = row /\ \A n \in Merges : n # m => merge'[n] = merge[n]
    BY <1>1, UpdateOne
<1>3. merge' \in [Merges -> Consolidation]
    BY <1>1 DEF Update, MergeTypeOK
<1>4. locked' \in [People -> Merges \cup {NoOne}]
    BY <1>1 DEF MergeTypeOK
<1>5. QED
    BY <1>2, <1>3, <1>4, PrivateStep

\* A merge that ends without writing.
LEMMA ReleaseStep ==
    ASSUME Inv, NEW m \in Merges, Release(m), UNCHANGED <<mergedInto, identity>>
    PROVE  Inv'
<1>1. MergeTypeOK
    BY DEF Inv
<1>2. /\ merge'[m] = Idle /\ Idle \in Consolidation
      /\ \A n \in Merges : n # m => merge'[n] = merge[n]
      /\ locked' \in [People -> Merges \cup {NoOne}]
      /\ \A n \in Merges, p \in People : n # m /\ locked[p] = n => locked'[p] = n
    BY <1>1, ReleaseOne
<1>3. merge' \in [Merges -> Consolidation]
    BY <1>1, <1>2 DEF Release, Update, MergeTypeOK
<1>4. Own(m) /\ \A rank \in [People -> Nat] : OwnClimb(m, rank)
    BY <1>2 DEF Own, OwnClimb, Idle, Paired, Holding
<1>5. QED
    BY <1>2, <1>3, <1>4, PrivateStep

\* A hop leads upwards.
LEMMA HopStep == ASSUME Inv, NEW m \in Merges, Hop(m) PROVE Inv'
<1> DEFINE c == merge[m]
           up == mergedInto[merge[m].here]
           next == merge[m].hops + 1
           row == [merge[m] EXCEPT !.here = mergedInto[merge[m].here], !.hops = @ + 1]
<1>1. /\ c \in Consolidation /\ c.here \in People /\ up \in People /\ up # NoOne /\ Walking(m)
    BY PeopleAssumption DEF Inv, MergeTypeOK, Hop, WalkEnds
<1>2. c.hops \in 0..MaxHops /\ c.hops # MaxHops
    BY <1>1 DEF Hop, WalkEnds, Consolidation
<1>3. next \in 0..MaxHops /\ next > 0
    BY <1>2, BoundsAssumption
<1> HIDE DEF next
<1>4. row = [merge[m] EXCEPT !.here = up, !.hops = next]
    BY <1>1 DEF next, Consolidation
<1>5. row \in Consolidation
    BY <1>1, <1>3, <1>4 DEF Consolidation
<1>6. /\ row.at = c.at /\ row.from = c.from /\ row.to = c.to
      /\ row.source = c.source /\ row.target = c.target
      /\ row.sourceNow = c.sourceNow /\ row.here = up /\ row.hops = next
      /\ row.attempt = c.attempt /\ row.moved = c.moved
    BY <1>1, <1>4 DEF Consolidation
<1>7. merge'[m] = row /\ Update(m, row) /\ UNCHANGED <<mergedInto, identity, locked>>
    BY UpdateOne DEF Hop, Inv
<1> HIDE DEF row
<1>8. Own(m)
  <2>1. row.hops # 0
      BY <1>3, <1>6
  <2>2. c.at \notin {"repoint", "commit", "lock", "idle"}
      BY <1>1 DEF Walking
  <2>3. /\ c.at \in {"source", "target", "lock", "source again", "target again"}
            => c.from \in People /\ c.to \in People
        /\ c.at = "target" => c.source \in People
        /\ c.at \in Paired =>
            c.source \in People /\ c.target \in People /\ c.source # c.target
      BY DEF Inv, Known
  <2>4. c.at \in Holding => locked[c.source] = m /\ locked[c.target] = m
      BY DEF Inv, Locks
  <2>5. c.at = "target again" /\ c.sourceNow = c.source => mergedInto[c.source] = NoOne
      BY DEF Inv, Walks
  <2> HIDE DEF c, up
  <2>6. QED
      BY <1>1, <1>5, <1>6, <1>7, <2>1, <2>2, <2>3, <2>4, <2>5 DEF Own
<1>9. ASSUME NEW rank \in [People -> Nat], Climbs(rank) PROVE OwnClimb(m, rank)
  <2>1. rank[c.here] < rank[up] /\ rank[c.here] \in Nat /\ rank[up] \in Nat
      BY <1>1, <1>9 DEF Climbs
  <2>2. ASSUME NEW p \in People, c.hops = 0 => c.here = p,
               c.hops > 0 => Above(rank, p, c.here)
        PROVE  Above(rank, p, up)
    <3>1. rank[p] \in Nat
        BY <2>2
    <3>2. CASE c.hops = 0
        BY <1>1, <2>1, <2>2, <3>2 DEF Above
    <3>3. CASE c.hops > 0
        BY <2>1, <2>2, <3>1, <3>3 DEF Above
    <3>4. QED
        BY <1>2, <3>2, <3>3
  <2>3. CASE c.at = "source again"
    <3>1. c.source \in People
        BY <2>3 DEF Inv, Known, Paired
    <3>2. /\ c.hops = 0 => c.here = c.source
          /\ c.hops > 0 => Above(rank, c.source, c.here)
        BY <1>9, <2>3 DEF Inv, Walks, Climbs
    <3>3. QED
        BY <1>6, <1>7, <2>2, <2>3, <3>1, <3>2 DEF OwnClimb
  <2>4. CASE c.at = "target again"
    <3>1. c.target \in People
        BY <2>4 DEF Inv, Known, Paired
    <3>2. /\ c.hops = 0 => c.here = c.target
          /\ c.hops > 0 => Above(rank, c.target, c.here)
        BY <1>9, <2>4 DEF Inv, Walks, Climbs
    <3>3. QED
        BY <1>6, <1>7, <2>2, <2>4, <3>1, <3>2 DEF OwnClimb
  <2>5. QED
      BY <1>6, <1>7, <2>3, <2>4 DEF OwnClimb
<1>10. QED
    BY <1>5, <1>7, <1>8, <1>9, RecordStep

\* The record of a merge that has just started a walk from p.
LEMMA StartedRecord ==
    ASSUME NEW p \in People, NEW q \in People, NEW k \in 0..MaxAttempts
    PROVE  /\ Started(p, q, k) \in Consolidation
           /\ Started(p, q, k).at = "source" /\ Started(p, q, k).hops = 0
           /\ Started(p, q, k).from = p /\ Started(p, q, k).to = q
           /\ Started(p, q, k).here = p
<1>1. Idle \in Consolidation
    BY NoHop, BoundsAssumption DEF Consolidation, Idle
<1>2. Started(p, q, k) \in Consolidation
    BY <1>1 DEF Started, Consolidation
<1>3. QED
    BY <1>2 DEF Started, Idle

\* Starting a walk keeps the invariant.
LEMMA StartedStep ==
    ASSUME Inv, NEW m \in Merges, NEW p \in People, NEW q \in People,
           NEW k \in 0..MaxAttempts, Update(m, Started(p, q, k)),
           UNCHANGED <<mergedInto, identity, locked>>
    PROVE  Inv'
<1>1. merge'[m] = Started(p, q, k)
    BY UpdateOne DEF Inv
<1> DEFINE row == Started(p, q, k)
<1>2. /\ row \in Consolidation /\ row.at = "source" /\ row.hops = 0
      /\ row.from = p /\ row.to = q /\ row.here = p
    BY StartedRecord
<1> HIDE DEF row
<1>3. merge'[m] = row
    BY <1>1 DEF row
<1>4. Own(m)
    BY <1>2, <1>3 DEF Own, Paired, Holding
<1>5. \A rank \in [People -> Nat] : OwnClimb(m, rank)
    BY <1>2, <1>3 DEF OwnClimb
<1>6. QED
    BY <1>2, <1>4, <1>5, RecordStep DEF row

\* A request.
LEMMA RequestStep ==
    ASSUME Inv, NEW m \in Merges, NEW p \in People, NEW q \in People, RequestMerge(m, p, q)
    PROVE  Inv'
<1>1. 1 \in 0..MaxAttempts
    BY BoundsAssumption
<1>2. QED
    BY <1>1, StartedStep DEF RequestMerge

\* The first walk from the source has ended.
LEMMA SourceFoundStep == ASSUME Inv, NEW m \in Merges, SourceFound(m) PROVE Inv'
<1> DEFINE row == [merge[m] EXCEPT !.at = "target", !.source = merge[m].here,
                                   !.here = merge[m].to, !.hops = 0]
<1>1. /\ merge[m] \in Consolidation /\ merge[m].here \in People
      /\ merge[m].from \in People /\ merge[m].to \in People
    BY DEF Inv, MergeTypeOK, Known, SourceFound, Walking
<1>2. row \in Consolidation
    BY <1>1, NoHop DEF Consolidation
<1>3. /\ row.at = "target" /\ row.source = merge[m].here /\ row.here = merge[m].to
      /\ row.hops = 0 /\ row.from = merge[m].from /\ row.to = merge[m].to
    BY <1>1 DEF Consolidation
<1>4. merge'[m] = row /\ Update(m, row) /\ UNCHANGED <<mergedInto, identity, locked>>
    BY UpdateOne DEF SourceFound, Inv
<1> HIDE DEF row
<1>5. Own(m) /\ \A rank \in [People -> Nat] : OwnClimb(m, rank)
    BY <1>1, <1>2, <1>3, <1>4 DEF Own, OwnClimb, Paired, Holding
<1>6. QED
    BY <1>2, <1>4, <1>5, RecordStep

\* The first walk from the target has ended.
LEMMA TargetFoundStep == ASSUME Inv, NEW m \in Merges, TargetFound(m) PROVE Inv'
<1> DEFINE row == [merge[m] EXCEPT !.at = "lock", !.target = merge[m].here,
                                   !.here = NoOne, !.hops = 0]
<1>1. /\ merge[m] \in Consolidation /\ merge[m].here \in People /\ merge[m].source \in People
      /\ merge[m].from \in People /\ merge[m].to \in People
    BY DEF Inv, MergeTypeOK, Known, TargetFound, Walking
<1>2. row \in Consolidation
    BY <1>1, NoHop DEF Consolidation
<1>3. /\ row.at = "lock" /\ row.source = merge[m].source /\ row.target = merge[m].here
      /\ row.hops = 0 /\ row.from = merge[m].from /\ row.to = merge[m].to
    BY <1>1 DEF Consolidation
<1>4. CASE merge[m].here = merge[m].source
    BY <1>4, ReleaseStep DEF TargetFound
<1>5. CASE merge[m].here # merge[m].source
  <2>1. merge'[m] = row /\ Update(m, row) /\ UNCHANGED <<mergedInto, identity, locked>>
      BY <1>5, UpdateOne DEF TargetFound, Inv
  <2> HIDE DEF row
  <2>2. Own(m) /\ \A rank \in [People -> Nat] : OwnClimb(m, rank)
      BY <1>1, <1>2, <1>3, <1>5, <2>1 DEF Own, OwnClimb, Paired, Holding
  <2>3. QED
      BY <1>2, <2>1, <2>2, RecordStep
<1>6. QED
    BY <1>4, <1>5

\* Only a free row is locked.
LEMMA LockRowStep == ASSUME Inv, NEW m \in Merges, LockRow(m) PROVE Inv'
<1>1. /\ MergeTypeOK /\ Known /\ merge[m].at = "lock" /\ UNCHANGED <<mergedInto, identity, merge>>
      /\ Missing(m) # {} /\ locked[FirstMissing(m)] = NoOne
      /\ locked' = [locked EXCEPT ![FirstMissing(m)] = m]
    BY DEF Inv, LockRow
<1>2. FirstMissing(m) \in People
    BY <1>1, FirstMissingIsMissing
<1>3. locked' \in [People -> Merges \cup {NoOne}]
    BY <1>1 DEF MergeTypeOK
<1>4. \A n \in Merges, p \in People : n # m /\ locked[p] = n => locked'[p] = n
    BY <1>1, <1>2, PeopleAssumption DEF MergeTypeOK
<1>5. merge' \in [Merges -> Consolidation]
    BY <1>1 DEF MergeTypeOK
<1>6. Own(m) /\ \A rank \in [People -> Nat] : Climbs(rank) => OwnClimb(m, rank)
    BY <1>1 DEF Inv, MergeTypeOK, Known, Own, OwnClimb, Paired, Holding
<1>7. QED
    BY <1>1, <1>3, <1>4, <1>5, <1>6, PrivateStep

\* Both rows are locked when the second walks start.
LEMMA WalkAgainStep == ASSUME Inv, NEW m \in Merges, WalkAgain(m) PROVE Inv'
<1> DEFINE row == [merge[m] EXCEPT !.at = "source again", !.here = merge[m].source, !.hops = 0]
<1>1. /\ merge[m] \in Consolidation /\ merge[m].source \in People /\ merge[m].target \in People
      /\ merge[m].source # merge[m].target
      /\ merge[m].from \in People /\ merge[m].to \in People
    BY DEF Inv, MergeTypeOK, Known, WalkAgain, Paired
<1>2. row \in Consolidation
    BY <1>1, NoHop DEF Consolidation
<1>3. /\ row.at = "source again" /\ row.source = merge[m].source /\ row.target = merge[m].target
      /\ row.here = merge[m].source
      /\ row.hops = 0 /\ row.from = merge[m].from /\ row.to = merge[m].to
    BY <1>1 DEF Consolidation
<1>4. merge'[m] = row /\ Update(m, row) /\ UNCHANGED <<mergedInto, identity, locked>>
    BY UpdateOne DEF WalkAgain, Inv
<1>5. locked[merge[m].source] = m /\ locked[merge[m].target] = m
    BY <1>1 DEF WalkAgain, Missing
<1> HIDE DEF row
<1>6. Own(m)
    BY <1>1, <1>2, <1>3, <1>4, <1>5 DEF Own, Paired, Holding
<1>7. \A rank \in [People -> Nat] : OwnClimb(m, rank)
  <2>1. merge'[m].hops = row.hops
      BY <1>4
  <2>2. merge'[m].hops = 0
      BY <1>3, <2>1
  <2>3. ASSUME NEW rank \in [People -> Nat] PROVE OwnClimb(m, rank)
    <3>1. ~(merge'[m].hops > 0)
        BY <2>2, SMT
    <3>2. QED
        BY <3>1 DEF OwnClimb
  <2>4. QED
      BY <2>3
<1>8. QED
    BY <1>2, <1>4, <1>6, <1>7, RecordStep

\* The source's second walk has ended: did it come back to the source?
LEMMA SourceFoundAgainStep == ASSUME Inv, NEW m \in Merges, SourceFoundAgain(m) PROVE Inv'
<1> DEFINE c == merge[m]
           row == [merge[m] EXCEPT !.at = "target again", !.sourceNow = merge[m].here,
                                   !.here = merge[m].target, !.hops = 0]
<1>1. /\ c \in Consolidation /\ c.here \in People
      /\ c.source \in People /\ c.target \in People /\ c.source # c.target
      /\ c.from \in People /\ c.to \in People /\ c.at = "source again"
    BY DEF Inv, MergeTypeOK, Known, SourceFoundAgain, Paired, Walking
<1>2. row \in Consolidation
    BY <1>1, NoHop DEF Consolidation
<1>3. /\ row.at = "target again" /\ row.source = c.source /\ row.target = c.target
      /\ row.here = c.target /\ row.sourceNow = c.here
      /\ row.hops = 0 /\ row.from = c.from /\ row.to = c.to
    BY <1>1 DEF Consolidation
<1>4. merge'[m] = row /\ Update(m, row) /\ UNCHANGED <<mergedInto, identity, locked>>
    BY UpdateOne DEF SourceFoundAgain, Inv
<1>5. locked[c.source] = m /\ locked[c.target] = m
    BY <1>1 DEF Inv, Locks, Holding, Paired
<1>6. c.here = c.source => mergedInto[c.source] = NoOne
  <2>1. PICK rank \in [People -> Nat] : Climbs(rank)
      BY DEF Inv, Climbing
  <2>2. c.hops \in Nat /\ (c.hops > 0 => Above(rank, c.source, c.here))
    <3>1. c.hops \in Nat
        BY <1>1, HopsAreNat
    <3>2. QED
        BY <1>1, <2>1, <3>1 DEF Climbs
  <2>3. mergedInto[c.here] = NoOne \/ c.hops = MaxHops
      BY DEF SourceFoundAgain, WalkEnds
  <2>4. QED
      BY <1>1, <2>2, <2>3, CameBack
<1> HIDE DEF row, c
<1>7. Own(m)
    BY <1>1, <1>2, <1>3, <1>4, <1>5, <1>6 DEF Own, Paired, Holding
<1>8. ASSUME NEW rank \in [People -> Nat] PROVE OwnClimb(m, rank)
  <2>1. merge'[m].hops = 0
      BY <1>3, <1>4
  <2>2. ~(merge'[m].hops > 0)
      BY <2>1, SMT
  <2>3. QED
      BY <2>2 DEF OwnClimb
<1>9. QED
    BY <1>2, <1>4, <1>7, <1>8, RecordStep

\* The second walks have ended: both are still survivors, or it starts over.
LEMMA TargetFoundAgainStep == ASSUME Inv, NEW m \in Merges, TargetFoundAgain(m) PROVE Inv'
<1> DEFINE c == merge[m]
           row == [Idle EXCEPT !.at = "repoint", !.source = merge[m].source,
                               !.target = merge[m].target]
<1>1. /\ c \in Consolidation /\ c.here \in People
      /\ c.source \in People /\ c.target \in People /\ c.source # c.target
      /\ c.from \in People /\ c.to \in People /\ c.at = "target again"
    BY DEF Inv, MergeTypeOK, Known, TargetFoundAgain, Paired, Walking
<1>2. CASE StillThere(m)
  <2>1. Idle \in Consolidation
      BY NoHop, BoundsAssumption DEF Idle, Consolidation
  <2>2. row \in Consolidation
      BY <1>1, <2>1 DEF Consolidation
  <2>3. row.at = "repoint" /\ row.source = c.source /\ row.target = c.target /\ row.hops = 0
      BY DEF Idle
  <2>4. merge'[m] = row /\ Update(m, row) /\ UNCHANGED <<mergedInto, identity, locked>>
      BY <1>2, UpdateOne DEF TargetFoundAgain, GoOn, Inv
  <2>5. locked[c.source] = m /\ locked[c.target] = m
      BY <1>1 DEF Inv, Locks, Holding, Paired
  <2>6. mergedInto[c.source] = NoOne
      BY <1>1, <1>2 DEF Inv, Walks, StillThere
  <2>7. mergedInto[c.target] = NoOne
    <3>1. PICK rank \in [People -> Nat] : Climbs(rank)
        BY DEF Inv, Climbing
    <3>2. c.hops \in Nat /\ (c.hops > 0 => Above(rank, c.target, c.here))
      <4>1. c.hops \in Nat
          BY <1>1, HopsAreNat
      <4>2. QED
          BY <1>1, <3>1, <4>1 DEF Climbs
    <3>3. (mergedInto[c.here] = NoOne \/ c.hops = MaxHops) /\ c.here = c.target
        BY <1>2 DEF TargetFoundAgain, WalkEnds, StillThere
    <3>4. QED
        BY <1>1, <3>2, <3>3, CameBack
  <2> HIDE DEF row, c
  <2>8. Own(m)
      BY <1>1, <2>2, <2>3, <2>4, <2>5, <2>6, <2>7 DEF Own, Paired, Holding
  <2>9. ASSUME NEW rank \in [People -> Nat] PROVE OwnClimb(m, rank)
      BY <2>3, <2>4 DEF OwnClimb
  <2>10. QED
      BY <2>2, <2>4, <2>8, <2>9, RecordStep
<1>3. CASE ~StillThere(m)
  <2>1. CASE c.attempt = MaxAttempts
      BY <1>3, <2>1, ReleaseStep DEF TargetFoundAgain, StartOver
  <2>2. CASE c.attempt # MaxAttempts
    <3>1. c.attempt + 1 \in 0..MaxAttempts
      <4>1. c.attempt \in 0..MaxAttempts
          BY <1>1 DEF Consolidation
      <4> HIDE DEF c
      <4>2. QED
          BY <2>2, <4>1, BoundsAssumption
    <3>2. /\ Update(m, Started(c.from, c.to, c.attempt + 1))
          /\ UNCHANGED <<mergedInto, identity, locked>>
        BY <1>3, <2>2 DEF TargetFoundAgain, StartOver
    <3>3. QED
        BY <1>1, <3>1, <3>2, StartedStep
  <2>3. QED
      BY <2>1, <2>2
<1>4. QED
    BY <1>2, <1>3

\* All the records of the source have been read.
LEMMA ReadRecordsStep == ASSUME Inv, NEW m \in Merges, ReadRecords(m) PROVE Inv'
<1> DEFINE c == merge[m]
           found == {r \in Records : identity[r] = merge[m].source}
           row == [merge[m] EXCEPT !.at = "commit", !.moved = found]
<1>1. /\ c \in Consolidation /\ c.at = "repoint"
      /\ c.source \in People /\ c.target \in People /\ c.source # c.target
    BY DEF Inv, MergeTypeOK, Known, ReadRecords, Paired
<1>2. row \in Consolidation
    BY <1>1 DEF Consolidation
<1>3. row.at = "commit" /\ row.source = c.source /\ row.target = c.target /\ row.moved = found
    BY <1>1 DEF Consolidation
<1>4. merge'[m] = row /\ Update(m, row) /\ UNCHANGED <<mergedInto, identity, locked>>
    BY UpdateOne DEF ReadRecords, Inv
<1>5. locked[c.source] = m /\ locked[c.target] = m
    BY <1>1 DEF Inv, Locks, Holding, Paired
<1>6. mergedInto[c.source] = NoOne /\ mergedInto[c.target] = NoOne
    BY <1>1 DEF Inv, Settled
<1>7. \A r \in Records : identity[r] = c.source => r \in found
    OBVIOUS
<1> HIDE DEF row, c, found
<1>8. Own(m)
    BY <1>1, <1>2, <1>3, <1>4, <1>5, <1>6, <1>7 DEF Own, Paired, Holding
<1>9. ASSUME NEW rank \in [People -> Nat] PROVE OwnClimb(m, rank)
    BY <1>3, <1>4 DEF OwnClimb
<1>10. QED
    BY <1>2, <1>4, <1>8, <1>9, RecordStep

----------------------------------------------------------------------------
(* The step that writes, and the assignment of a record *)

\* A merge that commits has two survivors, both locked by it alone.
LEMMA CommitPair ==
    ASSUME Inv, NEW m \in Merges, Commit(m)
    PROVE  LET s == merge[m].source
               t == merge[m].target IN
           /\ s \in People /\ t \in People /\ s # t
           /\ mergedInto[s] = NoOne /\ mergedInto[t] = NoOne
           /\ locked[s] = m /\ locked[t] = m
           /\ mergedInto' = [mergedInto EXCEPT ![s] = t]
           /\ \A r \in Records : identity[r] = s => r \in merge[m].moved
           /\ identity' = [r \in Records |-> IF r \in merge[m].moved THEN t ELSE identity[r]]
           /\ Release(m)
<1>1. merge[m].at = "commit"
    BY DEF Commit
<1>2. merge[m].source \in People /\ merge[m].target \in People
      /\ merge[m].source # merge[m].target
    BY <1>1 DEF Inv, Known, Paired
<1>3. locked[merge[m].source] = m /\ locked[merge[m].target] = m
    BY <1>1 DEF Inv, Locks, Holding, Paired
<1>4. /\ mergedInto[merge[m].source] = NoOne /\ mergedInto[merge[m].target] = NoOne
      /\ \A r \in Records : identity[r] = merge[m].source => r \in merge[m].moved
    BY <1>1 DEF Inv, Settled
<1>5. QED
    BY <1>2, <1>3, <1>4 DEF Commit

\* A commit keeps the invariant: the pointer it writes joins two trees.
LEMMA CommitStep == ASSUME Inv, NEW m \in Merges, Commit(m) PROVE Inv'
<1> DEFINE s == merge[m].source
           t == merge[m].target
           moved == merge[m].moved
<1>1. /\ s \in People /\ t \in People /\ s # t
      /\ mergedInto[s] = NoOne /\ mergedInto[t] = NoOne
      /\ locked[s] = m /\ locked[t] = m
      /\ mergedInto' = [mergedInto EXCEPT ![s] = t]
      /\ \A r \in Records : identity[r] = s => r \in moved
      /\ identity' = [r \in Records |-> IF r \in moved THEN t ELSE identity[r]]
      /\ Release(m)
    BY CommitPair
<1>2. /\ merge'[m] = Idle /\ Idle \in Consolidation /\ Idle.at = "idle"
      /\ \A n \in Merges : n # m => merge'[n] = merge[n]
      /\ locked' \in [People -> Merges \cup {NoOne}]
      /\ \A n \in Merges, p \in People : n # m /\ locked[p] = n => locked'[p] = n
    BY <1>1, ReleaseOne DEF Inv, Idle
<1> HIDE DEF s, t, moved
<1>3. /\ MergeTypeOK /\ Known /\ Locks /\ Walks /\ Settled /\ Climbing /\ NoCircle
    BY DEF Inv
<1>4. MergeTypeOK'
  <2>1. merge' \in [Merges -> Consolidation]
      BY <1>1, <1>2, <1>3 DEF Release, Update, MergeTypeOK
  <2>2. mergedInto' \in [People -> People \cup {NoOne}] /\ identity' \in [Records -> People]
      BY <1>1, <1>3 DEF MergeTypeOK
  <2>3. \A n \in Merges : Walking(n)' => merge'[n].here \in People
      BY <1>2, <1>3 DEF MergeTypeOK, Walking
  <2>4. QED
      BY <1>2, <2>1, <2>2, <2>3 DEF MergeTypeOK
<1>5. Known'
    BY <1>2, <1>3 DEF Known, Paired
<1>6. Locks'
  <2> SUFFICES ASSUME NEW n \in Merges, merge'[n].at \in Holding
               PROVE locked'[merge'[n].source] = n /\ locked'[merge'[n].target] = n
      BY DEF Locks
  <2>1. n # m /\ merge'[n] = merge[n]
      BY <1>2 DEF Holding, Paired
  <2>2. /\ merge[n].source \in People /\ merge[n].target \in People
        /\ locked[merge[n].source] = n /\ locked[merge[n].target] = n
      BY <1>3, <2>1 DEF Known, Locks, Holding
  <2>3. QED
      BY <1>2, <2>1, <2>2
\* Another merge that has locked its pair has locked neither s nor t.
<1>7. ASSUME NEW n \in Merges, n # m, merge[n].at \in Holding
      PROVE  /\ merge[n].source \notin {s, t} /\ merge[n].target \notin {s, t}
             /\ merge[n].source \in People /\ merge[n].target \in People
  <2>1. locked[merge[n].source] = n /\ locked[merge[n].target] = n
      BY <1>3, <1>7 DEF Locks
  <2>2. merge[n].source \in People /\ merge[n].target \in People
      BY <1>3, <1>7 DEF Known, Holding
  <2>3. QED
      BY <1>1, <1>7, <2>1, <2>2
<1>8. Walks'
  <2> SUFFICES ASSUME NEW n \in Merges
               PROVE /\ merge'[n].at = "source again" /\ merge'[n].hops = 0
                         => merge'[n].here = merge'[n].source
                     /\ merge'[n].at = "target again" /\ merge'[n].hops = 0
                         => merge'[n].here = merge'[n].target
                     /\ merge'[n].at = "target again" /\ merge'[n].sourceNow = merge'[n].source
                         => mergedInto'[merge'[n].source] = NoOne
      BY DEF Walks
  <2>1. CASE n = m
      BY <1>2, <2>1
  <2>2. CASE n # m
    <3>1. merge'[n] = merge[n]
        BY <1>2, <2>2
    <3>2. merge[n].at = "target again" /\ merge[n].sourceNow = merge[n].source
            => mergedInto'[merge[n].source] = NoOne
      <4>1. SUFFICES ASSUME merge[n].at = "target again", merge[n].sourceNow = merge[n].source
                     PROVE mergedInto'[merge[n].source] = NoOne
          OBVIOUS
      <4>2. merge[n].at \in Holding
          BY <4>1 DEF Holding, Paired
      <4>3. mergedInto[merge[n].source] = NoOne
          BY <1>3, <4>1 DEF Walks
      <4>4. QED
          BY <1>1, <1>3, <1>7, <2>2, <4>2, <4>3 DEF MergeTypeOK
    <3>3. QED
        BY <1>3, <3>1, <3>2 DEF Walks
  <2>3. QED
      BY <2>1, <2>2
<1>9. Settled'
  <2> SUFFICES ASSUME NEW n \in Merges
               PROVE /\ merge'[n].at \in {"repoint", "commit"} =>
                         /\ mergedInto'[merge'[n].source] = NoOne
                         /\ mergedInto'[merge'[n].target] = NoOne
                     /\ merge'[n].at = "commit" =>
                         \A r \in Records : identity'[r] = merge'[n].source => r \in merge'[n].moved
      BY DEF Settled
  <2>1. CASE n = m
      BY <1>2, <2>1
  <2>2. CASE n # m
    <3>1. merge'[n] = merge[n]
        BY <1>2, <2>2
    <3>2. ASSUME merge[n].at \in {"repoint", "commit"}
          PROVE  mergedInto'[merge[n].source] = NoOne /\ mergedInto'[merge[n].target] = NoOne
      <4>1. merge[n].at \in Holding
          BY <3>2 DEF Holding, Paired
      <4>2. mergedInto[merge[n].source] = NoOne /\ mergedInto[merge[n].target] = NoOne
          BY <1>3, <3>2 DEF Settled
      <4>3. QED
          BY <1>1, <1>3, <1>7, <2>2, <4>1, <4>2 DEF MergeTypeOK
    <3>3. ASSUME merge[n].at = "commit", NEW r \in Records, identity'[r] = merge[n].source
          PROVE  r \in merge[n].moved
      <4>1. merge[n].source \notin {s, t}
          BY <1>7, <2>2, <3>3 DEF Holding, Paired
      <4>2. identity[r] = merge[n].source
          BY <1>1, <3>3, <4>1
      <4>3. QED
          BY <1>3, <3>3, <4>2 DEF Settled
    <3>4. QED
        BY <3>1, <3>2, <3>3
  <2>3. QED
      BY <2>1, <2>2
\* The target rises above the source; nobody it was compared with is above it.
<1>10. Climbing'
  <2>1. PICK rank \in [People -> Nat] : Climbs(rank)
      BY <1>3 DEF Climbing
  <2>2. PICK raised \in [People -> Nat] :
          /\ raised[t] > raised[s]
          /\ \A p \in People : raised[p] >= rank[p] /\ (p # t => raised[p] = rank[p])
    <3> DEFINE w == [rank EXCEPT ![t] = rank[t] + rank[s] + 1]
    <3>1. /\ w \in [People -> Nat] /\ w[t] > w[s]
          /\ \A p \in People : w[p] >= rank[p] /\ (p # t => w[p] = rank[p])
        BY <1>1, <2>1
    <3>2. QED
        BY <3>1
  <2>3. ASSUME NEW p \in People, mergedInto'[p] # NoOne
        PROVE  raised[p] < raised[mergedInto'[p]]
    <3>1. CASE p = s
        BY <1>1, <1>3, <2>2, <3>1 DEF MergeTypeOK
    <3>2. CASE p # s
      <4>1. mergedInto'[p] = mergedInto[p] /\ p # t /\ mergedInto[p] \in People
          BY <1>1, <1>3, <2>3, <3>2 DEF MergeTypeOK
      <4>2. rank[p] < rank[mergedInto[p]]
          BY <2>1, <2>3, <4>1 DEF Climbs
      <4>3. /\ raised[p] = rank[p] /\ raised[mergedInto[p]] >= rank[mergedInto[p]]
            /\ raised[p] \in Nat /\ raised[mergedInto[p]] \in Nat /\ rank[mergedInto[p]] \in Nat
          BY <2>1, <2>2, <4>1
      <4>4. QED
          BY <4>1, <4>2, <4>3
    <3>3. QED
        BY <3>1, <3>2
  <2>4. ASSUME NEW p \in People, NEW here \in People, Above(rank, p, here)
        PROVE  mergedInto'[p] # NoOne /\ raised[p] < raised[here]
    <3>1. p # t /\ p # s
        BY <1>1, <2>4 DEF Above
    <3>2. mergedInto'[p] # NoOne
        BY <1>1, <1>3, <2>4, <3>1 DEF Above, MergeTypeOK
    <3>3. raised[p] < raised[here]
      <4>1. /\ rank[p] < rank[here] /\ raised[p] = rank[p] /\ raised[here] >= rank[here]
            /\ rank[p] \in Nat /\ rank[here] \in Nat /\ raised[here] \in Nat
          BY <2>1, <2>2, <2>4, <3>1 DEF Above
      <4>2. QED
          BY <4>1
    <3>4. QED
        BY <3>2, <3>3
  <2>5. ASSUME NEW n \in Merges, merge'[n].hops > 0
        PROVE  /\ merge'[n].at = "source again" =>
                    /\ mergedInto'[merge'[n].source] # NoOne
                    /\ raised[merge'[n].source] < raised[merge'[n].here]
               /\ merge'[n].at = "target again" =>
                    /\ mergedInto'[merge'[n].target] # NoOne
                    /\ raised[merge'[n].target] < raised[merge'[n].here]
    <3>1. CASE n = m
        BY <1>2, <3>1
    <3>2. CASE n # m
      <4>1. merge'[n] = merge[n]
          BY <1>2, <3>2
      <4>2. merge[n].at \in {"source again", "target again"} =>
              merge[n].source \in People /\ merge[n].target \in People /\ merge[n].here \in People
          BY <1>3 DEF MergeTypeOK, Known, Walking, Paired
      <4>3. /\ merge[n].at = "source again" => Above(rank, merge[n].source, merge[n].here)
            /\ merge[n].at = "target again" => Above(rank, merge[n].target, merge[n].here)
          BY <2>1, <2>5, <4>1 DEF Climbs
      <4>4. QED
          BY <2>4, <4>1, <4>2, <4>3
    <3>3. QED
        BY <3>1, <3>2
  <2>6. Climbs(raised)'
      BY <2>3, <2>5 DEF Climbs, Above
  <2>7. QED
      BY <2>2, <2>6 DEF Climbing
<1>11. NoCircle'
  <2> SUFFICES ASSUME NEW S \in SUBSET People, S # {}
               PROVE \E p \in S : mergedInto'[p] \notin S
      BY DEF NoCircle
  <2>1. PICK p \in S : mergedInto[p] \notin S
      BY <1>3 DEF NoCircle
  <2>2. CASE p # s
      BY <1>1, <1>3, <2>1, <2>2 DEF MergeTypeOK
  <2>3. CASE p = s /\ t \notin S
      BY <1>1, <1>3, <2>1, <2>3 DEF MergeTypeOK
  <2>4. CASE t \in S
    <3>1. mergedInto'[t] = NoOne
        BY <1>1, <1>3 DEF MergeTypeOK
    <3>2. QED
        BY <2>4, <3>1, PeopleAssumption
  <2>5. QED
      BY <2>2, <2>3, <2>4
<1>12. QED
    BY <1>4, <1>5, <1>6, <1>8, <1>9, <1>10, <1>11 DEF Inv

\* No record is assigned to a person whose row is locked.
LEMMA AssignStep ==
    ASSUME Inv, NEW r \in Records, NEW p \in People, Assign(r, p) PROVE Inv'
<1>1. /\ locked[p] = NoOne /\ identity' = [identity EXCEPT ![r] = p]
      /\ UNCHANGED <<mergedInto, locked, merge>>
    BY DEF Assign
<1>2. MergeTypeOK /\ Known /\ Locks /\ Walks /\ Settled /\ Climbing /\ NoCircle
    BY DEF Inv
<1>3. MergeTypeOK'
    BY <1>1, <1>2 DEF MergeTypeOK, Walking
<1>4. Known' /\ Locks' /\ Walks' /\ NoCircle'
    BY <1>1, <1>2 DEF Known, Locks, Walks, NoCircle
<1>5. Climbing'
    BY <1>1, <1>2 DEF Climbing, Climbs, Above
<1>6. Settled'
  <2>1. ASSUME NEW m \in Merges, merge[m].at = "commit", NEW q \in Records,
               identity'[q] = merge[m].source
        PROVE  q \in merge[m].moved
    <3>1. locked[merge[m].source] = m
        BY <1>2, <2>1 DEF Locks, Holding, Paired
    <3>2. merge[m].source # p
        BY <1>1, <3>1, PeopleAssumption
    <3>3. identity[q] = merge[m].source
        BY <1>1, <1>2, <2>1, <3>2 DEF MergeTypeOK
    <3>4. QED
        BY <1>2, <2>1, <3>3 DEF Settled
  <2>2. QED
      BY <1>1, <1>2, <2>1 DEF Settled
<1>7. QED
    BY <1>3, <1>4, <1>5, <1>6 DEF Inv

----------------------------------------------------------------------------
\* Every step keeps the invariant.
LEMMA NextInv == Inv /\ [MergeNext]_mergeVars => Inv'
<1> SUFFICES ASSUME Inv, [MergeNext]_mergeVars PROVE Inv'
    OBVIOUS
<1>1. CASE UNCHANGED mergeVars
    BY <1>1 DEF mergeVars, Inv, MergeTypeOK, Walking, Known, Locks, Walks, Settled, Climbing, Climbs,
       Above, NoCircle
<1>2. ASSUME NEW m \in Merges, NEW p \in People, NEW q \in People, RequestMerge(m, p, q)
      PROVE  Inv'
    BY <1>2, RequestStep
<1>3. ASSUME NEW m \in Merges, Step(m) PROVE Inv'
  <2>1. ASSUME AbortDeadlock(m) PROVE Inv'
      BY <2>1, ReleaseStep DEF AbortDeadlock
  <2>2. QED
      BY <1>3, <2>1, HopStep, SourceFoundStep, TargetFoundStep, LockRowStep, WalkAgainStep,
         SourceFoundAgainStep, TargetFoundAgainStep, ReadRecordsStep, CommitStep DEF Step
<1>4. ASSUME NEW r \in Records, NEW p \in People, Assign(r, p) PROVE Inv'
    BY <1>4, AssignStep
<1>5. QED
    BY <1>1, <1>2, <1>3, <1>4 DEF MergeNext

\* The invariant holds in every state.
THEOREM Invariance == MergeSpec => []Inv
BY InitInv, NextInv, PTL DEF MergeSpec

\* Types, and resolve_identity always stands on a row (person_identity.py:36-43).
THEOREM Typing == MergeSpec => []MergeTypeOK
<1>1. Inv => MergeTypeOK
    BY DEF Inv
<1>2. QED
    BY <1>1, Invariance, PTL

\* Merges in any order and direction never close a circle of aliases.
THEOREM NoCircleIsClosed == MergeSpec => []NoCircle
<1>1. Inv => NoCircle
    BY DEF Inv
<1>2. QED
    BY <1>1, Invariance, PTL

\* Only a commit writes pointers or makes a person an alias.
LEMMA WritersOfPointers ==
    ASSUME Inv, [MergeNext]_mergeVars
    PROVE  UNCHANGED mergedInto \/ \E m \in Merges : Commit(m)
BY DEF MergeNext, Step, mergeVars, RequestMerge, Hop, SourceFound, TargetFound, LockRow, WalkAgain,
   SourceFoundAgain, TargetFoundAgain, ReadRecords, AbortDeadlock, Assign

\* An alias keeps pointing at the person it was merged into.
THEOREM AliasesStay == MergeSpec => AliasesAreFinal
<1>1. Inv /\ [MergeNext]_mergeVars
        => [\A p \in People : mergedInto[p] # NoOne => mergedInto'[p] = mergedInto[p]]_mergeVars
  <2> SUFFICES ASSUME Inv, [MergeNext]_mergeVars, NEW p \in People, mergedInto[p] # NoOne
               PROVE mergedInto'[p] = mergedInto[p]
      OBVIOUS
  <2>1. CASE UNCHANGED mergedInto
      BY <2>1
  <2>2. ASSUME NEW m \in Merges, Commit(m) PROVE mergedInto'[p] = mergedInto[p]
      BY <2>2, CommitPair DEF Inv, MergeTypeOK
  <2>3. QED
      BY <2>1, <2>2, WritersOfPointers
<1>2. QED
    BY <1>1, Invariance, PTL DEF MergeSpec, AliasesAreFinal

\* Who becomes an alias leaves no record behind.
THEOREM EverythingMoves == MergeSpec => NothingLeftBehind
<1>1. Inv /\ [MergeNext]_mergeVars
        => [\A p \in People : mergedInto[p] = NoOne /\ mergedInto'[p] # NoOne
              => \A r \in Records : identity'[r] # p]_mergeVars
  <2> SUFFICES ASSUME Inv, [MergeNext]_mergeVars, NEW p \in People,
                      mergedInto[p] = NoOne, mergedInto'[p] # NoOne, NEW r \in Records
               PROVE identity'[r] # p
      OBVIOUS
  <2>1. PICK m \in Merges : Commit(m)
      BY WritersOfPointers
  <2>2. p = merge[m].source
      BY <2>1, CommitPair DEF Inv, MergeTypeOK
  <2>3. QED
      BY <2>1, <2>2, CommitPair DEF Inv, MergeTypeOK
<1>2. QED
    BY <1>1, Invariance, PTL DEF MergeSpec, NothingLeftBehind

----------------------------------------------------------------------------
(* Deadlocks *)

\* A merge on its first attempt, before it started over, has locked nothing until it knows its
\* pair, and then the row with the smaller id first.
InOrder(m, row, now) ==
    /\ row.at \in {"source", "target", "lock", "source again", "target again"} => row.attempt >= 1
    /\ (row.at \in {"source", "target"} /\ row.attempt = 1) \/ row.at = "idle"
          => \A p \in People : now[p] # m
    /\ row.at = "lock" /\ row.attempt = 1
          => \A p \in People : now[p] = m =>
                /\ p \in {row.source, row.target}
                /\ \A q \in {row.source, row.target} : now[q] # m => p < q

FirstTry == \A m \in Merges : InOrder(m, merge[m], locked)

\* Only finitely many rows are locked.
LocksBounded == \E b \in Nat : \A p \in People : locked[p] # NoOne => p <= b

OrderInv == Inv /\ FirstTry /\ LocksBounded

\* Every set of natural numbers that is not empty has a least one.
LEMMA LeastNatural ==
    ASSUME NEW S \in SUBSET Nat, S # {}
    PROVE  \E m \in S : \A k \in S : m <= k
<1> DEFINE Less == {ss \in Nat \X Nat : ss[1] < ss[2]}
<1>1. IsWellFoundedOn(Less, Nat)
  BY NatLessThanWellFounded DEF OpToRel
<1>2. \A k, m \in Nat : k < m => <<k, m>> \in Less
  OBVIOUS
<1> HIDE DEF Less
<1>3. PICK m \in S : \A k \in S : <<k, m>> \notin Less
  BY <1>1, WFMin
<1>4. \A k \in S : ~(k < m)
  BY <1>2, <1>3
<1>5. QED
  BY <1>4

\* What FirstMissing is: the least of the rows still to be locked.
LEMMA FirstMissingIsLeast ==
    ASSUME MergeTypeOK, Known, NEW m \in Merges, merge[m].at = "lock", Missing(m) # {}
    PROVE  /\ FirstMissing(m) \in Missing(m)
           /\ \A q \in Missing(m) : FirstMissing(m) <= q
           /\ Missing(m) \subseteq People /\ merge[m].source \in People /\ merge[m].target \in People
<1> DEFINE s == merge[m].source
           t == merge[m].target
<1>1. s \in Nat /\ t \in Nat /\ s \in People /\ t \in People
    BY PeopleAssumption DEF Known, Paired
<1>2. Missing(m) \subseteq {s, t}
    BY DEF Missing
<1>3. \E p \in Missing(m) : \A q \in Missing(m) : p <= q
    BY <1>1, <1>2, LeastNatural
<1>4. /\ FirstMissing(m) \in Missing(m)
      /\ \A q \in Missing(m) : FirstMissing(m) <= q
    BY <1>3 DEF FirstMissing
<1>5. QED
    BY <1>1, <1>2, <1>4

\* Who waits in a circle has started over: of the merges in the circle, the one that waits for
\* the greatest id waits for a row whose holder would have locked a smaller one first.
LEMMA CircleNeedsRetry == OrderInv => DeadlockNeedsRetry
<1> SUFFICES ASSUME OrderInv, NEW S \in SUBSET Merges, S # {}, Deadlocked(S),
                    \A m \in S : ~(merge[m].attempt > 1)
             PROVE  FALSE
    BY DEF DeadlockNeedsRetry
<1>1. PICK b \in Nat : \A p \in People : locked[p] # NoOne => p <= b
    BY DEF OrderInv, LocksBounded
<1>2. ASSUME NEW m \in S
      PROVE  /\ merge[m].at = "lock" /\ merge[m].attempt = 1 /\ Missing(m) # {}
             /\ FirstMissing(m) \in Missing(m) /\ FirstMissing(m) \in People
             /\ FirstMissing(m) \in Nat /\ FirstMissing(m) <= b
             /\ \E n \in S : n # m /\ locked[FirstMissing(m)] = n
  <2>1. /\ merge[m].at = "lock" /\ Missing(m) # {}
        /\ \E n \in S : n # m /\ locked[FirstMissing(m)] = n
      BY DEF Deadlocked, Waiting
  <2>2. merge[m].attempt = 1
    <3>1. merge[m].attempt \in 0..MaxAttempts
        BY DEF OrderInv, Inv, MergeTypeOK, Consolidation
    <3>2. merge[m].attempt >= 1
        BY <2>1 DEF OrderInv, FirstTry, InOrder
    <3>3. QED
        BY <3>1, <3>2, BoundsAssumption
  <2>3. FirstMissing(m) \in Missing(m) /\ FirstMissing(m) \in People
      BY <2>1, FirstMissingIsLeast DEF OrderInv, Inv
  <2>4. FirstMissing(m) \in Nat
      BY <2>3, PeopleAssumption
  <2>5. FirstMissing(m) <= b
      BY <1>1, <2>1, <2>3, PeopleAssumption
  <2>6. QED
      BY <2>1, <2>2, <2>3, <2>4, <2>5
<1> DEFINE D == {b - FirstMissing(m) : m \in S}
<1>3. D \in SUBSET Nat /\ D # {}
    BY <1>2
<1>4. PICK d \in D : \A e \in D : d <= e
    BY <1>3, LeastNatural
<1>5. PICK m \in S : d = b - FirstMissing(m)
    BY <1>4
<1>6. \A n \in S : FirstMissing(n) <= FirstMissing(m)
  <2> SUFFICES ASSUME NEW n \in S PROVE FirstMissing(n) <= FirstMissing(m)
      OBVIOUS
  <2>1. b - FirstMissing(m) <= b - FirstMissing(n)
      BY <1>4, <1>5
  <2>2. /\ FirstMissing(m) \in Nat /\ FirstMissing(n) \in Nat
      BY <1>2
  <2> QED
      BY <2>1, <2>2
<1>7. PICK n \in S : n # m /\ locked[FirstMissing(m)] = n
    BY <1>2
<1>8. /\ FirstMissing(n) \in {merge[n].source, merge[n].target}
      /\ locked[FirstMissing(n)] # n
    BY <1>2 DEF Missing
<1>9. FirstMissing(m) < FirstMissing(n)
  <2>1. InOrder(n, merge[n], locked)
      BY DEF OrderInv, FirstTry
  <2>2. merge[n].at = "lock" /\ merge[n].attempt = 1 /\ FirstMissing(m) \in People
      BY <1>2
  <2>3. QED
      BY <1>7, <1>8, <2>1, <2>2 DEF InOrder
<1>10. QED
    BY <1>2, <1>6, <1>9

----------------------------------------------------------------------------
\* Another merge's locks do not matter to a merge.
LEMMA OthersLocks ==
    ASSUME OrderInv, NEW n \in Merges, NEW later,
           \A p \in People : later[p] = n <=> locked[p] = n
    PROVE  InOrder(n, merge[n], later)
<1>1. InOrder(n, merge[n], locked)
    BY DEF OrderInv, FirstTry
<1>2. merge[n].at = "lock" => merge[n].source \in People /\ merge[n].target \in People
    BY DEF OrderInv, Inv, Known, Paired
<1>3. QED
    BY <1>1, <1>2 DEF InOrder

\* A step that takes no lock and changes the record of one merge.
LEMMA QuietFirstTry ==
    ASSUME OrderInv, NEW m \in Merges, NEW row, Update(m, row), UNCHANGED locked,
           InOrder(m, row, locked)
    PROVE  FirstTry' /\ LocksBounded'
<1>1. /\ merge'[m] = row
      /\ \A n \in Merges : n # m => merge'[n] = merge[n]
    BY UpdateOne DEF OrderInv, Inv
<1>2. LocksBounded'
    BY DEF OrderInv, LocksBounded
<1>3. \A n \in Merges : InOrder(n, merge'[n], locked')
    BY <1>1 DEF OrderInv, FirstTry
<1>4. QED
    BY <1>2, <1>3 DEF FirstTry

\* A transaction that ends has no lock.
LEMMA ReleaseFirstTry ==
    ASSUME OrderInv, NEW m \in Merges, Release(m)
    PROVE  FirstTry' /\ LocksBounded'
<1>1. /\ merge'[m] = Idle
      /\ \A n \in Merges : n # m => merge'[n] = merge[n]
    BY ReleaseOne DEF OrderInv, Inv
<1>2. /\ \A p \in People : locked'[p] # m /\ (locked'[p] # NoOne => locked[p] # NoOne)
      /\ \A n \in Merges, p \in People : n # m => (locked'[p] = n <=> locked[p] = n)
    BY PeopleAssumption DEF Release, OrderInv, Inv, MergeTypeOK
<1>3. LocksBounded'
    BY <1>2 DEF OrderInv, LocksBounded
<1>4. \A n \in Merges : n # m => InOrder(n, merge'[n], locked')
    BY <1>1, <1>2, OthersLocks
<1>5. InOrder(m, merge'[m], locked')
    BY <1>1, <1>2 DEF InOrder, Idle
<1>6. QED
    BY <1>3, <1>4, <1>5 DEF FirstTry

\* The row with the smaller id is locked first.
LEMMA LockRowFirstTry ==
    ASSUME OrderInv, NEW m \in Merges, LockRow(m)
    PROVE  FirstTry' /\ LocksBounded'
<1> DEFINE f == FirstMissing(m)
<1>1. /\ f \in Missing(m) /\ f \in People /\ \A q \in Missing(m) : f <= q
      /\ Missing(m) \subseteq People /\ merge[m].source \in People /\ merge[m].target \in People
    BY FirstMissingIsLeast DEF LockRow, OrderInv, Inv
<1>2. /\ merge[m].at = "lock" /\ locked[f] = NoOne /\ merge' = merge
      /\ locked' = [locked EXCEPT ![f] = m] /\ locked \in [People -> Merges \cup {NoOne}]
    BY DEF LockRow, OrderInv, Inv, MergeTypeOK
<1> HIDE DEF f
<1>3. /\ locked'[f] = m
      /\ \A p \in People : p # f => locked'[p] = locked[p]
    BY <1>1, <1>2
<1>4. LocksBounded'
  <2>1. PICK b \in Nat : \A p \in People : locked[p] # NoOne => p <= b
      BY DEF OrderInv, LocksBounded
  <2>2. f \in Nat /\ \A p \in People : p \in Nat
      BY <1>1, PeopleAssumption
  <2>3. \A p \in People : locked'[p] # NoOne => p <= b + f
      BY <1>3, <2>1, <2>2
  <2>4. b + f \in Nat
      BY <2>2
  <2>5. QED
      BY <2>3, <2>4 DEF LocksBounded
<1>5. ASSUME NEW n \in Merges, n # m PROVE InOrder(n, merge'[n], locked')
  <2>1. \A p \in People : locked'[p] = n <=> locked[p] = n
      BY <1>2, <1>3, <1>5, PeopleAssumption
  <2>2. QED
      BY <1>2, <2>1, OthersLocks
<1>6. ASSUME merge[m].attempt = 1, NEW p \in People, locked'[p] = m
      PROVE  /\ p \in {merge[m].source, merge[m].target}
             /\ \A q \in {merge[m].source, merge[m].target} : locked'[q] # m => p < q
  <2>1. CASE p = f
    <3>1. f \in {merge[m].source, merge[m].target}
        BY <1>1 DEF Missing
    <3>2. ASSUME NEW q \in {merge[m].source, merge[m].target}, locked'[q] # m PROVE f < q
      <4>1. q # f /\ q \in People /\ q \in Missing(m)
          BY <1>1, <1>3, <3>2 DEF Missing
      <4>2. f <= q /\ f \in Nat /\ q \in Nat
          BY <1>1, <4>1, PeopleAssumption
      <4>3. QED
          BY <4>1, <4>2
    <3>3. QED
        BY <2>1, <3>1, <3>2
  <2>2. CASE p # f
    <3>1. locked[p] = m
        BY <1>3, <1>6, <2>2
    <3>2. /\ p \in {merge[m].source, merge[m].target}
          /\ \A q \in {merge[m].source, merge[m].target} : locked[q] # m => p < q
        BY <1>2, <1>6, <3>1 DEF OrderInv, FirstTry, InOrder
    <3>3. \A q \in {merge[m].source, merge[m].target} : locked'[q] # m => locked[q] # m
        BY <1>1, <1>3
    <3>4. QED
        BY <3>2, <3>3
  <2>3. QED
      BY <2>1, <2>2
<1>7. merge[m].attempt >= 1
    BY <1>2 DEF OrderInv, FirstTry, InOrder
<1>8. InOrder(m, merge'[m], locked')
    BY <1>2, <1>6, <1>7 DEF InOrder
<1>9. QED
    BY <1>4, <1>5, <1>8 DEF FirstTry

----------------------------------------------------------------------------
\* Every step keeps the order in which a first attempt locks.
LEMMA OrderStep == OrderInv /\ [MergeNext]_mergeVars => OrderInv'
<1> SUFFICES ASSUME OrderInv, [MergeNext]_mergeVars PROVE FirstTry' /\ LocksBounded'
    BY NextInv DEF OrderInv
<1>0. Inv /\ FirstTry /\ (\A m \in Merges : merge[m] \in Consolidation)
    BY DEF OrderInv, Inv, MergeTypeOK
<1>1. CASE UNCHANGED mergeVars
    BY <1>1 DEF mergeVars, OrderInv, FirstTry, LocksBounded
<1>2. ASSUME NEW m \in Merges, NEW p \in People, NEW q \in People, RequestMerge(m, p, q)
      PROVE  FirstTry' /\ LocksBounded'
  <2>1. InOrder(m, merge[m], locked)
      BY <1>0 DEF FirstTry
  <2>2. InOrder(m, Started(p, q, 1), locked)
      BY <1>2, <2>1 DEF RequestMerge, InOrder, Started, Idle
  <2>3. QED
      BY <1>2, <2>2, QuietFirstTry DEF RequestMerge
<1>3. ASSUME NEW m \in Merges, Step(m) PROVE FirstTry' /\ LocksBounded'
  <2> DEFINE c == merge[m]
  <2>0. InOrder(m, c, locked) /\ c \in Consolidation /\ (c.at = "target" => c.source \in People)
      BY <1>0 DEF FirstTry, Inv, Known
  <2> HIDE DEF c
  <2>1. CASE Hop(m)
    <3> DEFINE row == [c EXCEPT !.here = mergedInto[c.here], !.hops = @ + 1]
    <3>1. /\ row.at = c.at /\ row.attempt = c.attempt /\ c.at # "lock" /\ Update(m, row) /\ UNCHANGED locked
        BY <2>0, <2>1 DEF Hop, Consolidation, Walking, c
    <3> HIDE DEF row
    <3>2. InOrder(m, row, locked)
        BY <2>0, <3>1 DEF InOrder
    <3>3. QED
        BY <3>1, <3>2, QuietFirstTry
  <2>2. CASE SourceFound(m)
    <3> DEFINE row == [c EXCEPT !.at = "target", !.source = c.here, !.here = c.to, !.hops = 0]
    <3>1. /\ row.at = "target" /\ row.attempt = c.attempt /\ c.at = "source" /\ Update(m, row) /\ UNCHANGED locked
        BY <2>0, <2>2 DEF SourceFound, Consolidation, c
    <3> HIDE DEF row
    <3>2. InOrder(m, row, locked)
        BY <2>0, <3>1 DEF InOrder
    <3>3. QED
        BY <3>1, <3>2, QuietFirstTry
  <2>3. CASE TargetFound(m)
    <3>1. CASE Release(m)
        BY <3>1, ReleaseFirstTry
    <3>2. CASE ~Release(m)
      <4> DEFINE row == [c EXCEPT !.at = "lock", !.target = c.here, !.here = NoOne, !.hops = 0]
      <4>1. /\ row.at = "lock" /\ row.attempt = c.attempt /\ c.at = "target" /\ Update(m, row) /\ UNCHANGED locked
          BY <2>0, <2>3, <3>2 DEF TargetFound, Consolidation, c
      <4> HIDE DEF row
      <4>2. InOrder(m, row, locked)
          BY <2>0, <4>1 DEF InOrder
      <4>3. QED
          BY <4>1, <4>2, QuietFirstTry
    <3>3. QED
        BY <3>1, <3>2
  <2>4. CASE WalkAgain(m)
    <3> DEFINE row == [c EXCEPT !.at = "source again", !.here = c.source, !.hops = 0]
    <3>1. /\ row.at = "source again" /\ row.attempt = c.attempt /\ c.at = "lock" /\ Update(m, row)
          /\ UNCHANGED locked
        BY <2>0, <2>4 DEF WalkAgain, Consolidation, c
    <3> HIDE DEF row
    <3>2. InOrder(m, row, locked)
        BY <2>0, <3>1 DEF InOrder
    <3>3. QED
        BY <3>1, <3>2, QuietFirstTry
  <2>5. CASE LockRow(m)
      BY <2>5, LockRowFirstTry
  <2>6. CASE SourceFoundAgain(m)
    <3> DEFINE row == [c EXCEPT !.at = "target again", !.sourceNow = c.here, !.here = c.target, !.hops = 0]
    <3>1. /\ row.at = "target again" /\ row.attempt = c.attempt /\ c.at = "source again" /\ Update(m, row)
          /\ UNCHANGED locked
        BY <2>0, <2>6 DEF SourceFoundAgain, Consolidation, c
    <3> HIDE DEF row
    <3>2. InOrder(m, row, locked)
        BY <2>0, <3>1 DEF InOrder
    <3>3. QED
        BY <3>1, <3>2, QuietFirstTry
  <2>7. CASE TargetFoundAgain(m)
    <3>1. CASE GoOn(m)
      <4> DEFINE row == [Idle EXCEPT !.at = "repoint", !.source = c.source, !.target = c.target]
      <4>1. row.at = "repoint" /\ Update(m, row) /\ UNCHANGED locked
          BY <3>1 DEF GoOn, Idle, c
      <4> HIDE DEF row
      <4>2. InOrder(m, row, locked)
          BY <4>1 DEF InOrder
      <4>3. QED
          BY <4>1, <4>2, QuietFirstTry
    <3>2. CASE Release(m)
        BY <3>2, ReleaseFirstTry
    <3>3. CASE Update(m, Started(c.from, c.to, c.attempt + 1)) /\ UNCHANGED locked
      <4> DEFINE row == Started(c.from, c.to, c.attempt + 1)
      <4>1. row.at = "source" /\ row.attempt = c.attempt + 1
          BY DEF Started, Idle
      <4> HIDE DEF row
      <4>2. c.attempt >= 1 /\ c.attempt \in Nat
        <5>1. c.attempt \in 0..MaxAttempts
            BY <2>0 DEF Consolidation
        <5>2. c.at = "target again"
            BY <2>7 DEF TargetFoundAgain, c
        <5>3. c.attempt >= 1
            BY <2>0, <5>2 DEF InOrder
        <5>4. c.attempt \in Nat
            BY <5>1, BoundsAssumption
        <5>5. QED
            BY <5>3, <5>4
      <4>3. row.attempt >= 1 /\ row.attempt # 1
          BY <4>1, <4>2
      <4>4. InOrder(m, row, locked)
          BY <4>1, <4>3, Zenon DEF InOrder
      <4>5. QED
          BY <3>3, <4>4, QuietFirstTry DEF row
    <3>4. QED
        BY <2>7, <3>1, <3>2, <3>3 DEF TargetFoundAgain, StartOver, c
  <2>8. CASE ReadRecords(m)
    <3> DEFINE moved == {r \in Records : identity[r] = c.source}
               row == [c EXCEPT !.at = "commit", !.moved = moved]
    <3>1. row.at = "commit" /\ Update(m, row) /\ UNCHANGED locked
        BY <2>0, <2>8 DEF ReadRecords, Consolidation, c
    <3> HIDE DEF row
    <3>2. InOrder(m, row, locked)
        BY <3>1 DEF InOrder
    <3>3. QED
        BY <3>1, <3>2, QuietFirstTry
  <2>9. CASE Commit(m)
      BY <2>9, ReleaseFirstTry DEF Commit
  <2>10. CASE AbortDeadlock(m)
      BY <2>10, ReleaseFirstTry DEF AbortDeadlock
  <2>11. QED
      BY <1>3, <2>1, <2>2, <2>3, <2>4, <2>5, <2>6, <2>7, <2>8, <2>9, <2>10 DEF Step
<1>4. ASSUME NEW r \in Records, NEW p \in People, Assign(r, p) PROVE FirstTry' /\ LocksBounded'
    BY <1>4 DEF Assign, OrderInv, FirstTry, LocksBounded
<1>5. QED
    BY <1>1, <1>2, <1>3, <1>4 DEF MergeNext

\* Nobody holds a lock at first.
LEMMA OrderInit == MergeInit => OrderInv
<1> SUFFICES ASSUME MergeInit PROVE FirstTry /\ LocksBounded
    BY InitInv DEF OrderInv
<1>1. FirstTry
    BY PeopleAssumption DEF MergeInit, Idle, FirstTry, InOrder
<1>2. 0 \in Nat /\ \A p \in People : locked[p] = NoOne
    BY DEF MergeInit
<1>3. LocksBounded
    BY <1>2 DEF LocksBounded
<1>4. QED
    BY <1>1, <1>3

\* Merges that lock in the order of the ids wait for one another in a circle only if one of them
\* has started over with its locks kept (person_identity.py:97), for any number of merges.
THEOREM NoDeadlockBeforeRetry == MergeSpec => []DeadlockNeedsRetry
BY OrderInit, OrderStep, CircleNeedsRetry, PTL DEF MergeSpec
=============================================================================
