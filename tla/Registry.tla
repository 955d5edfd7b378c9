------------------------------ MODULE Registry ------------------------------
(***************************************************************************)
(* Which person a service number, a passport or an agency card leads to.   *)
(*                                                                         *)
(* A save of a session's people, an assignment of investigators and an     *)
(* edit of a user run as transactions side by side with merges of persons. *)
(* Each person in the body is resolved in turn: by the row's own person,   *)
(* by a person the operator chose, by a service number, or as a new one;   *)
(* then the numbers are attached to that person.  A service number is      *)
(* claimed under a transaction-scoped advisory lock; the number of a paper *)
(* is looked up and inserted with only the unique constraint behind it.    *)
(***************************************************************************)
EXTENDS Naturals, Sequences, FiniteSets, Functions

CONSTANTS
    Clerks,        \* requests that save people
    Serials,       \* service numbers, each with its force
    Cards,         \* numbers of papers, each with its issuer or agency
    SubjectRows,   \* rows of `subjects`
    ProfileRows,   \* rows of `investigator_profiles`
    Humans,        \* rows of `person_identities`
    Absent,        \* no number, no person
    AliasHops,     \* MAX_ALIAS_HOPS, 16 in the code; bound: merges
    MaxItems       \* bound: people in one body

ASSUME RegistryAssumption ==
    /\ Absent \notin Serials \cup Cards \cup Humans /\ Serials \cap Cards = {}
    /\ SubjectRows \cap ProfileRows = {} /\ AliasHops \in Nat /\ MaxItems \in Nat \ {0}

VARIABLES
    mergedInto,    \* [Humans -> merged_into_id]
    identities,    \* the persons that exist, those of open transactions too
    holder,        \* person_identifiers: [Serials \cup Cards -> identity_id]
    entries,       \* [rows -> what is recorded of the person]
    saving,        \* [Clerks -> transaction]
    overwritten    \* profiles whose person was replaced by a request that had not read it

registryVars == <<mergedInto, identities, holder, entries, saving, overwritten>>

Identifiers == Serials \cup Cards
EntryRows   == SubjectRows \cup ProfileRows
Entry       == [there: BOOLEAN, serial: Serials \cup {Absent}, cards: SUBSET Cards, human: Humans \cup {Absent}]
NoEntry     == [there |-> FALSE, serial |-> Absent, cards |-> {}, human |-> Absent]

\* One person of a body: the row it is about as the request read it, and what it says.
Item == [row: EntryRows, read: Entry, serial: Serials \cup {Absent}, card: Cards \cup {Absent},
         chosen: Humans \cup {Absent}]

\* The part of a request that follows: resolve the person, look a number up, insert it.
NoSave == [stage |-> "none", todo |-> <<>>, human |-> Absent, locks |-> {}, claims |-> <<>>,
           made |-> {}, written |-> <<>>]

RegistryTypeOK ==
    /\ mergedInto \in [Humans -> Humans \cup {Absent}] /\ identities \subseteq Humans
    /\ holder \in [Identifiers -> Humans \cup {Absent}] /\ overwritten \subseteq ProfileRows
    /\ entries \in [EntryRows -> Entry]
    /\ \A c \in Clerks :
          /\ saving[c].stage \in {"none", "resolve", "serial", "insertSerial", "card", "insertCard", "done"}
          /\ saving[c].todo \in Seq(Item) /\ Len(saving[c].todo) <= MaxItems
          /\ saving[c].human \in identities \cup {Absent}
          /\ saving[c].locks \subseteq Serials /\ saving[c].made \subseteq identities
          /\ DOMAIN saving[c].claims \subseteq Identifiers /\ Range(saving[c].claims) \subseteq identities
          /\ DOMAIN saving[c].written \subseteq EntryRows

\* The administrator that the first start creates has a profile with neither number nor person.
RegistryInit ==
    /\ mergedInto = [p \in Humans |-> Absent] /\ identities = {}
    /\ holder = [k \in Identifiers |-> Absent]
    /\ \E seeded \in SUBSET ProfileRows :
          entries = [e \in EntryRows |-> [NoEntry EXCEPT !.there = e \in seeded]]
    /\ saving = [c \in Clerks |-> NoSave] /\ overwritten = {}

----------------------------------------------------------------------------
(* Resolving *)

\* resolve_identity: where the aliases lead from p, hop by hop.
Hops(merged, p) ==
    LET hop[n \in 0..AliasHops] ==
            IF n = 0 THEN p
            ELSE IF merged[hop[n - 1]] = Absent THEN hop[n - 1] ELSE merged[hop[n - 1]]
    IN  hop

Survivor(p) == Hops(mergedInto, p)[AliasHops]

\* What a transaction finds in person_identifiers: what is committed, and its own rows.
FindIdentifier(c, k) == IF k \in DOMAIN saving[c].claims THEN saving[c].claims[k] ELSE holder[k]
Claiming(c, k)       == \E d \in Clerks \ {c} : k \in DOMAIN saving[d].claims

Current(c)      == Head(saving[c].todo)
AtStage(c, s)   == saving[c].stage = s
Step(c, t) == saving' = [saving EXCEPT ![c] = t]

\* update_investigation, create_investigation: the session's lock keeps other saves off its rows;
\* _apply_investigators: no lock keeps another request off a profile.
Untouched(c, row) ==
    \A d \in Clerks \ {c} :
        row \notin {saving[d].todo[n].row : n \in DOMAIN saving[d].todo} \cup DOMAIN saving[d].written

SubjectItems ==
    {[row |-> r, read |-> entries[r], serial |-> s, card |-> k, chosen |-> p] :
        r \in SubjectRows, s \in Serials \cup {Absent}, k \in Cards \cup {Absent},
        p \in (identities \ UNION {saving[c].made : c \in Clerks}) \cup {Absent}}

\* An assignment submits no number of its own; create_user and update_user always submit one.
AssignedItem(f) ==
    [row |-> f, read |-> entries[f], serial |-> entries[f].serial, card |-> Absent, chosen |-> Absent]
ProfileItem(f, s) == [AssignedItem(f) EXCEPT !.serial = s]

Begin(c, items) ==
    /\ Step(c, [NoSave EXCEPT !.stage = "resolve", !.todo = items])
    /\ UNCHANGED <<mergedInto, identities, holder, entries, overwritten>>

SavePeople(c) ==
    /\ AtStage(c, "none")
    /\ \E items \in {<<i>> : i \in SubjectItems} \cup {<<i, j>> : i, j \in SubjectItems}
                    \cup {<<AssignedItem(f), i>> : f \in {g \in ProfileRows : entries[g].there}, i \in SubjectItems} :
          /\ Len(items) <= MaxItems
          /\ \A n \in DOMAIN items : items[n].row \in SubjectRows => Untouched(c, items[n].row)
          /\ \A m, n \in DOMAIN items : m # n => items[m].row # items[n].row
          /\ Begin(c, items)

SaveUser(c) ==
    /\ AtStage(c, "none")
    /\ \E f \in ProfileRows, s \in Serials :
          /\ entries[f].there \/ Untouched(c, f)
          /\ \A g \in ProfileRows \ {f} : entries[g].serial # s
          /\ Begin(c, <<ProfileItem(f, s)>>)

LockSerial(c) ==
    LET s == Current(c).serial
    IN  /\ AtStage(c, "resolve") /\ s # Absent /\ s \notin saving[c].locks
        /\ \A d \in Clerks : s \notin saving[d].locks
        /\ Step(c, [saving[c] EXCEPT !.locks = @ \cup {s}])
        /\ UNCHANGED <<mergedInto, identities, holder, entries, overwritten>>

\* The person this item is about, as far as it is known: nobody yet, or the one that
\* the row, the operator or the service number names.
Candidate(c) ==
    LET i == Current(c)
    IN  IF i.read.human # Absent THEN Survivor(i.read.human)
        ELSE IF i.chosen # Absent THEN Survivor(i.chosen)
        ELSE IF i.serial # Absent /\ FindIdentifier(c, i.serial) # Absent THEN Survivor(FindIdentifier(c, i.serial))
        ELSE Absent

\* identity_for_person, before the number is attached.
Resolve(c) ==
    LET i == Current(c)
    IN  /\ AtStage(c, "resolve") /\ i.serial \in saving[c].locks \cup {Absent}
        /\ i.read.human # Absent /\ i.chosen # Absent => Survivor(i.read.human) = Survivor(i.chosen)
        /\ \/ /\ Candidate(c) # Absent /\ UNCHANGED identities
              /\ Step(c, [saving[c] EXCEPT !.stage = "serial", !.human = Candidate(c)])
           \/ \E p \in Humans \ identities :
                 /\ Candidate(c) = Absent /\ identities' = identities \cup {p}
                 /\ Step(c, [saving[c] EXCEPT !.stage = "serial", !.human = p, !.made = @ \cup {p}])
        /\ UNCHANGED <<mergedInto, holder, entries, overwritten>>

----------------------------------------------------------------------------
(* Attaching *)

\* Mutant of Attachable.
AttachableToAnyone(c, k) == FindIdentifier(c, k) # Absent

\* attach_identifier finds the number: only the person who holds it may have it.
Attachable(c, k) == FindIdentifier(c, k) # Absent /\ Survivor(FindIdentifier(c, k)) = saving[c].human

LookUp(c, k, insert, next) ==
    /\ \/ (k # Absent => Attachable(c, k)) /\ Step(c, [saving[c] EXCEPT !.stage = next])
       \/ k # Absent /\ FindIdentifier(c, k) = Absent /\ Step(c, [saving[c] EXCEPT !.stage = insert])
    /\ UNCHANGED <<mergedInto, identities, holder, entries, overwritten>>

\* The insert waits for another transaction's row with the same key, and fails if that one commits.
Insert(c, k, next) ==
    /\ ~Claiming(c, k) /\ holder[k] = Absent
    /\ Step(c, [saving[c] EXCEPT !.stage = next,
                  !.claims = [x \in (DOMAIN @) \cup {k} |-> IF x = k THEN saving[c].human ELSE @[x]]])
    /\ UNCHANGED <<mergedInto, identities, holder, entries, overwritten>>

LookUpSerial(c) == AtStage(c, "serial") /\ LookUp(c, Current(c).serial, "insertSerial", "card")
InsertSerial(c) == AtStage(c, "insertSerial") /\ Insert(c, Current(c).serial, "card")
LookUpCard(c)   == AtStage(c, "card") /\ LookUp(c, Current(c).card, "insertCard", "done")
InsertCard(c)   == AtStage(c, "insertCard") /\ Insert(c, Current(c).card, "done")

\* What the row will hold.  A column whose value is the one that was read is not written.
Saved(i, p, now) ==
    [there  |-> TRUE,
     serial |-> IF i.serial \in {Absent, i.read.serial} THEN now.serial ELSE i.serial,
     cards  |-> now.cards \cup ({i.card} \ {Absent}),
     human  |-> IF p = i.read.human THEN now.human ELSE p]

FinishItem(c) ==
    LET i == Current(c)
    IN  /\ AtStage(c, "done") /\ Len(saving[c].todo) > 1
        /\ Step(c, [saving[c] EXCEPT !.stage = "resolve", !.todo = Tail(@), !.human = Absent,
                      !.written = [x \in (DOMAIN @) \cup {i.row} |->
                                      IF x = i.row THEN [item |-> i, human |-> saving[c].human] ELSE @[x]]])
        /\ UNCHANGED <<mergedInto, identities, holder, entries, overwritten>>

Writes(c) ==
    [x \in (DOMAIN saving[c].written) \cup {Current(c).row} |->
        IF x = Current(c).row THEN [item |-> Current(c), human |-> saving[c].human] ELSE saving[c].written[x]]

CommitSave(c) ==
    LET w == Writes(c)
    IN  /\ AtStage(c, "done") /\ Len(saving[c].todo) = 1
        /\ \A f \in (DOMAIN w) \cap ProfileRows, g \in ProfileRows :
              g # f /\ w[f].item.serial # Absent => entries[g].serial # w[f].item.serial
        /\ entries' = [e \in EntryRows |->
              IF e \in DOMAIN w THEN Saved(w[e].item, w[e].human, entries[e]) ELSE entries[e]]
        /\ holder' = [k \in Identifiers |->
              IF k \in DOMAIN saving[c].claims THEN saving[c].claims[k] ELSE holder[k]]
        /\ overwritten' = overwritten \cup
              {f \in ProfileRows \cap DOMAIN w :
                  /\ entries[f].human # w[f].item.read.human /\ w[f].human # w[f].item.read.human
                  /\ Survivor(entries[f].human) # Survivor(w[f].human)}
        /\ Step(c, NoSave)
        /\ UNCHANGED <<mergedInto, identities>>

\* Another name, a number that somebody else holds, an invalid paper, a number that another
\* request took meanwhile, two requests that wait for one another, a lost connection: nothing is left.
Abandon(c) ==
    /\ ~AtStage(c, "none") /\ Step(c, NoSave) /\ identities' = identities \ saving[c].made
    /\ UNCHANGED <<mergedInto, holder, entries, overwritten>>

\* merge_identities (IdentityMerge), in one step: a number that an open transaction attached
\* keeps the lock of its person's row from the merge.  Bound: no alias is further from its
\* person than resolve_identity goes; what happens beyond is IdentityMerge's.
MergeHumans(a, b) ==
    /\ Cardinality({p \in Humans : mergedInto[p] # Absent}) < AliasHops
    /\ {a, b} \subseteq identities /\ a # b /\ mergedInto[a] = Absent /\ mergedInto[b] = Absent
    /\ \A c \in Clerks : {a, b} \cap (Range(saving[c].claims) \cup saving[c].made) = {}
    /\ mergedInto' = [mergedInto EXCEPT ![a] = b]
    /\ holder' = [k \in Identifiers |-> IF holder[k] = a THEN b ELSE holder[k]]
    /\ entries' = [e \in EntryRows |-> [entries[e] EXCEPT !.human = IF @ = a THEN b ELSE @]]
    /\ UNCHANGED <<identities, saving, overwritten>>

ClerkSteps(c) ==
    \/ SavePeople(c) \/ SaveUser(c) \/ LockSerial(c) \/ Resolve(c)
    \/ LookUpSerial(c) \/ InsertSerial(c) \/ LookUpCard(c) \/ InsertCard(c)
    \/ FinishItem(c) \/ CommitSave(c) \/ Abandon(c)

RegistryNext == (\E c \in Clerks : ClerkSteps(c)) \/ \E a, b \in Humans : MergeHumans(a, b)

RegistrySpec == RegistryInit /\ [][RegistryNext]_registryVars

----------------------------------------------------------------------------
\* Everybody who carries a number is the one person it leads to: whatever merges, other saves and
\* edits of users run at the same time, a number in a session or in a profile is held by the
\* person of that row.  Excepted is the profile whose person was replaced unread: two requests
\* that register the same profile for the first time, one of which had read no number yet.
NumbersLeadHome ==
    \A e \in EntryRows \ overwritten :
        \A k \in ({entries[e].serial} \ {Absent}) \cup entries[e].cards :
            holder[k] # Absent /\ Survivor(holder[k]) = Survivor(entries[e].human)
=============================================================================
