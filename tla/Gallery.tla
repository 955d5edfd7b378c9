------------------------------- MODULE Gallery -------------------------------
(***************************************************************************)
(* Two computations over voice prints.                                     *)
(*                                                                         *)
(* `match` is best_match: one voice against a list of prints, which names  *)
(* the person whose best print is close enough, and clearly closer than    *)
(* anyone else's.  The server itself runs one statement of the database    *)
(* for the same question.                                                  *)
(*                                                                         *)
(* `check` is biometric_check: the active prints of one person compared    *)
(* with each other, and grouped.  It lists the prints in one statement and *)
(* compares them in a later one, with no lock between.                     *)
(*                                                                         *)
(* A likeness is a small number instead of the cosine of two vectors.      *)
(***************************************************************************)
EXTENDS Naturals, FiniteSets, Sequences

CONSTANTS
    Enrolled,      \* the prints of the person under review, numbered as they were created
    Orders,        \* orders their identifiers may be in: functions from prints to numbers
    Likenesses,    \* what comparing them may give: functions from sets of two prints
    Models,        \* the voice models they may be of: functions from prints
    Coherence,     \* voice_match_threshold: alike enough to be one person's
    NearDuplicate, \* voice_near_duplicate_threshold
    MaxToggles,    \* bound: prints retired or revived while the check is under way
    Filed,         \* persons prints are filed under
    Galleries,     \* the lists of prints best_match may be given
    Margin,        \* voice_match_margin
    Anyone         \* no person

Listing == [person : Filed \cup {Anyone}, score : Nat, usable : BOOLEAN]

ASSUME GalleryAssumption ==
    /\ Enrolled \subseteq Nat /\ IsFiniteSet(Enrolled) /\ Orders \subseteq [Enrolled -> Nat]
    /\ Anyone \notin Filed /\ Galleries \subseteq Seq(Listing)
    /\ Coherence \in Nat /\ NearDuplicate \in Nat /\ MaxToggles \in Nat /\ Margin \in Nat

VARIABLES
    likeness, identifier, modelOf,  \* what is given about the prints
    active,     \* the prints that are active
    toggles,    \* how often that has changed
    check,      \* the review under way
    match       \* the comparison of one voice under way

galleryVars == <<likeness, identifier, modelOf, active, toggles, check, match>>

NoCheck == [stage |-> "idle", listed |-> {}, compared |-> {}, parent |-> [p \in Enrolled |-> p],
            todo |-> {}, component |-> [p \in Enrolled |-> p], verdict |-> "none"]

\* Types, and: only prints that were listed are grouped.
GalleryTypeOK ==
    /\ active \subseteq Enrolled
    /\ check.stage \in {"idle", "listed", "compared", "reported"}
    /\ check.verdict \in {"none", "NO_PRINTS", "SINGLE_PRINT", "REVIEW_REQUIRED", "COHERENT"}
    /\ \A p \in Enrolled : check.parent[p] # p => {p, check.parent[p]} \subseteq check.listed

GalleryInit ==
    /\ likeness \in Likenesses /\ identifier \in Orders /\ modelOf \in Models
    /\ active = Enrolled /\ toggles = 0
    /\ check = NoCheck
    /\ match \in [rows : Galleries, at : {1}, people : {<<>>}]

----------------------------------------------------------------------------
(* The best match of one voice *)

\* A print competes if it is active, of the voice's model, and filed under a person.
Eligible(row) == row.usable /\ row.person # Anyone

Ranked(people, person) == {n \in DOMAIN people : people[n].person = person}

\* Mutant of Entered: every print competes for itself.
EnteredAlone(people, row) ==
    Append(people, [person |-> row.person, score |-> row.score, count |-> 1])

\* A person counts with the best of their prints.
Entered(people, row) ==
    IF Ranked(people, row.person) = {}
    THEN Append(people, [person |-> row.person, score |-> row.score, count |-> 1])
    ELSE [n \in DOMAIN people |->
            IF people[n].person # row.person THEN people[n]
            ELSE [people[n] EXCEPT !.count = @ + 1,
                    !.score = IF row.score > @ THEN row.score ELSE @]]

ScorePrint ==
    /\ match.at \in DOMAIN match.rows
    /\ match' = [match EXCEPT !.at = @ + 1,
          !.people = IF Eligible(match.rows[match.at]) THEN Entered(@, match.rows[match.at]) ELSE @]
    /\ UNCHANGED <<likeness, identifier, modelOf, active, toggles, check>>

Decide(top, others) ==
    IF top < Coherence THEN "UNKNOWN"
    ELSE IF \E s \in others : top < s + Margin THEN "AMBIGUOUS"
    ELSE "SUGGESTED"

\* Of those with the highest score, the one who came first.
Leading(people) == CHOOSE n \in DOMAIN people :
    \A m \in DOMAIN people \ {n} :
        people[m].score < people[n].score \/ (people[m].score = people[n].score /\ n < m)

\* The leader is judged by the score of the next.
Verdict(people) ==
    IF people = <<>> THEN [decision |-> "UNKNOWN", person |-> Anyone, count |-> 0]
    ELSE LET top      == Leading(people)
             others   == {people[m].score : m \in DOMAIN people \ {top}}
             decision == Decide(people[top].score, {s \in others : \A t \in others : t <= s})
         IN  [decision |-> decision,
              person |-> IF decision = "SUGGESTED" THEN people[top].person ELSE Anyone,
              count  |-> IF decision = "SUGGESTED" THEN people[top].count ELSE 0]

----------------------------------------------------------------------------
(* The review of one person's prints *)

Toggle(p) ==
    /\ toggles < MaxToggles
    /\ active' = IF p \in active THEN active \ {p} ELSE active \cup {p}
    /\ toggles' = toggles + 1
    /\ UNCHANGED <<likeness, identifier, modelOf, check, match>>

ListPrints ==
    /\ check.stage = "idle"
    /\ check' = [check EXCEPT !.stage = "listed", !.listed = active]
    /\ UNCHANGED <<likeness, identifier, modelOf, active, toggles, match>>

Alike(a, b) == likeness[{a, b}] >= Coherence

\* One statement: the prints that are active now, those of one model with each other.
ComparePairs ==
    /\ check.stage = "listed"
    /\ LET compared == {pair \in active \X active :
              identifier[pair[1]] < identifier[pair[2]] /\ modelOf[pair[1]] = modelOf[pair[2]]}
       IN  check' = [check EXCEPT !.stage = "compared", !.compared = compared,
             !.todo = {pair \in compared \cap (check.listed \X check.listed) : Alike(pair[1], pair[2])}]
    /\ UNCHANGED <<likeness, identifier, modelOf, active, toggles, match>>

\* find(x): the root above x; every print on the way is hung on its grandparent.
Find(parent, x) ==
    LET Hop(s) == IF s.parent[s.at] = s.at THEN s
                   ELSE LET up == s.parent[s.parent[s.at]]
                        IN  [at |-> up, parent |-> [s.parent EXCEPT ![s.at] = up]]
        climb[n \in 0..Cardinality(Enrolled)] ==
            IF n = 0 THEN [at |-> x, parent |-> parent] ELSE Hop(climb[n - 1])
    IN  climb[Cardinality(Enrolled)]

\* Mutant of United: the print is hung on the other's root, not its root.
UnitedPrints(parent, a, b) ==
    LET above == Find(parent, b) IN [above.parent EXCEPT ![a] = above.at]

United(parent, a, b) ==
    LET above == Find(parent, b)
        below == Find(above.parent, a)
    IN  [below.parent EXCEPT ![below.at] = above.at]

\* The two loops go through the prints as they were created.
Sooner(one, other) == one[1] < other[1] \/ (one[1] = other[1] /\ one[2] <= other[2])

Unite ==
    /\ check.stage = "compared"
    /\ \E pair \in check.todo :
          /\ \A other \in check.todo : Sooner(pair, other)
          /\ check' = [check EXCEPT !.todo = @ \ {pair}, !.parent = United(@, pair[1], pair[2])]
    /\ UNCHANGED <<likeness, identifier, modelOf, active, toggles, match>>

Components(component) == {component[p] : p \in check.listed}

Overall(component) ==
    IF check.listed = {} THEN "NO_PRINTS"
    ELSE IF Cardinality(check.listed) = 1 THEN "SINGLE_PRINT"
    ELSE IF Cardinality(Components(component)) > 1 THEN "REVIEW_REQUIRED"
    ELSE "COHERENT"

\* What is said of one print among those of its model.
Peers(p) == {q \in check.listed : <<p, q>> \in check.compared \/ <<q, p>> \in check.compared}

PrintStatus(p) ==
    IF {q \in check.listed : modelOf[q] = modelOf[p]} = {p} THEN "SINGLE_PRINT"
    ELSE IF \E q \in Peers(p) : likeness[{p, q}] >= NearDuplicate THEN "NEAR_DUPLICATE"
    ELSE IF \E q \in Peers(p) : Alike(p, q) THEN "COHERENT"
    ELSE "ISOLATED"

Report ==
    /\ check.stage = "compared" /\ check.todo = {}
    /\ LET component == [p \in Enrolled |-> Find(check.parent, p).at]
       IN  check' = [check EXCEPT !.stage = "reported", !.component = component,
             !.verdict = Overall(component)]
    /\ UNCHANGED <<likeness, identifier, modelOf, active, toggles, match>>

----------------------------------------------------------------------------
CheckSteps ==
    \/ \E p \in Enrolled : Toggle(p)
    \/ ListPrints \/ ComparePairs \/ Unite \/ Report

GalleryNext == ScorePrint \/ CheckSteps

GallerySpec == GalleryInit /\ [][GalleryNext]_galleryVars

----------------------------------------------------------------------------
(* Properties *)

\* What the one statement of batch_match_voice_embeddings returns for the same prints.
BatchVerdict(rows) ==
    LET eligible == {n \in DOMAIN rows : Eligible(rows[n])}
        people   == {rows[n].person : n \in eligible}
        own(v)   == {n \in eligible : rows[n].person = v}
        best(v)  == CHOOSE s \in {rows[n].score : n \in own(v)} : \A n \in own(v) : rows[n].score <= s
        winners  == {v \in people : \A u \in people : best(u) <= best(v)}
        named(v) == /\ v \in winners
                    /\ Decide(best(v), {best(u) : u \in people \ {v}}) = "SUGGESTED"
    IN  IF \E v \in people : named(v)
        THEN LET v == CHOOSE u \in people : named(u)
             IN  [decision |-> "SUGGESTED", person |-> v, count |-> Cardinality(own(v))]
        ELSE [decision |-> IF \E v \in winners : best(v) >= Coherence THEN "AMBIGUOUS" ELSE "UNKNOWN",
              person |-> Anyone, count |-> 0]

\* The comparison in memory and the one in the database name the same person, on the same number
\* of prints, or both refuse for the same reason: several prints of one person never rival each
\* other, and a print of nobody or of another model rivals no one.  With a margin of 0, which the
\* settings allow, they may name different ones of two people who are equally close.
SameVerdict ==
    match.at > Len(match.rows) /\ Margin > 0 => Verdict(match.people) = BatchVerdict(match.rows)

\* p and q are joined by a chain of prints that were compared and found alike.
Chained(p, q) ==
    \A group \in SUBSET check.listed :
        (p \in group /\ \A pair \in check.compared \cap (check.listed \X check.listed) :
             Alike(pair[1], pair[2]) => (pair[1] \in group <=> pair[2] \in group))
          => q \in group

\* Whatever the order of the identifiers, and whatever is retired between listing and comparing:
\* two prints are in one component exactly if a chain of comparisons joins them; a person is said
\* to be coherent only if all their listed prints are so joined, each having been active when the
\* voices were compared; and a print with a component to itself is never called coherent.
ComponentsRight ==
    check.stage = "reported" =>
        /\ \A p, q \in check.listed : check.component[p] = check.component[q] <=> Chained(p, q)
        /\ check.verdict = "COHERENT" =>
              \A p \in check.listed : \E q \in check.listed \ {p} :
                 <<p, q>> \in check.compared \/ <<q, p>> \in check.compared
        /\ \A p \in check.listed :
              PrintStatus(p) = "COHERENT" =>
                 \E q \in check.listed \ {p} : check.component[q] = check.component[p]

GalleryHolds == SameVerdict /\ ComponentsRight
=============================================================================
