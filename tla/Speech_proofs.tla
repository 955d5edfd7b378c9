--------------------------- MODULE Speech_proofs ----------------------------
(***************************************************************************)
(* Proofs about what was said and by whom: the transcripts of a session    *)
(* (Transcripts), the names that voices are given (Voices), the prints     *)
(* these are compared with (Gallery), the plan that a recording is         *)
(* transcribed by (Segments) and the audio a print is made of              *)
(* (Embeddings), for any number of recordings, results, editors, prints,   *)
(* speakers, requests and turns.                                           *)
(*                                                                         *)
(* Transcripts: the labels of a result are resolved by a recursive         *)
(* function.  That it exists, and what it leaves, is shown for the first   *)
(* label for which it would not be so.  Labels are added and never         *)
(* changed, so what was attributed once stays right.                       *)
(*                                                                         *)
(* Voices: a scan writes only what it has locked and found undecided, and  *)
(* a print's version moves with whatever an attestation vouches for.       *)
(*                                                                         *)
(* Gallery: the prints of one person hang on one another in a forest, and  *)
(* its trees are what the comparisons dealt with so far link.  find climbs *)
(* in rank, so it arrives within as many hops as there are prints.         *)
(*                                                                         *)
(* Segments: each stage of the plan keeps every instant of what it was     *)
(* given.  A cut falls in a silence, which no tidied turn has a part of,   *)
(* and a gap that is closed holds the start of nobody else's turn.         *)
(*                                                                         *)
(* Embeddings: what a set of spans stands for is the instants it covers.   *)
(* Taking turns away, joining, intersecting and cutting off are described  *)
(* by what they do to these, and lengths by how many there are.            *)
(***************************************************************************)
EXTENDS Transcripts, Voices, Gallery, Embeddings, FiniteSetTheorems, SequenceTheorems,
        WellFoundedInduction, TLAPS

-----------------------------------------------------------------------------
(* The transcripts of a session *)

ObservedRow == [recording: Recordings, source: Diarized, person: People \cup {Nobody}]

SegmentRow == [transcript: Nat, label: Nat, revision: Nat, text: Nat, parts: SUBSET Nat]

SaidRows == UNION {[S -> Nat \X ((SUBSET Nat) \X Nat)] : S \in SUBSET Nat}
HeardRows  == UNION {[S -> (SUBSET Nat) \X Nat] : S \in SUBSET Nat}
Named  == UNION {[S -> (People \cup {Nobody}) \X Nat] : S \in SUBSET Nat}
Tokens   == [segments: SaidRows, speakers: Named]
Readings == [segments: HeardRows, speakers: Named]

TranscriptRow == [recording: Recordings, token: SUBSET Tokens, readAs: SUBSET Readings]

RequestRow == [kind: {"none", "text", "parts", "review"}, step: {"idle", "sent", "loaded"}, target: Nat,
               revision: Nat, known: {"OPEN", "REVIEWED", "SEALED"}, shown: SUBSET (Tokens \X Readings)]

\* The observations of a session: each label stands for one speaker of one recording.
Distinct(rows) ==
    /\ DOMAIN rows \subseteq Nat /\ IsFiniteSet(DOMAIN rows) /\ rows \in [DOMAIN rows -> ObservedRow]
    /\ \A l, m \in DOMAIN rows :
          (rows[l].recording = rows[m].recording /\ rows[l].source = rows[m].source) => l = m

TranscriptsTyping ==
    /\ workflow \in {"OPEN", "REVIEWED", "SEALED"}
    /\ transcripts \in Seq(TranscriptRow) /\ segments \in Seq(SegmentRow)
    /\ names \in [People -> Nat] /\ editing \in [Editors -> RequestRow]

\* What a token says without the revisions.
Plain(token) == [segments |-> [s \in DOMAIN token.segments |-> token.segments[s][2]],
                 speakers |-> token.speakers]

\* Whatever was shown or reviewed was shown with the token of what it says.
ShownAsRead ==
    /\ \A e \in Editors : \A x \in editing[e].shown : x[2] = Plain(x[1])
    /\ \A t \in DOMAIN transcripts :
          transcripts[t].token # {} =>
             \E k \in Tokens : transcripts[t].token = {k} /\ transcripts[t].readAs = {Plain(k)}

\* A segment attributes to labels of its own recording.
HeardInIts(seg, rows, recordings) ==
    /\ seg.transcript \in DOMAIN recordings
    /\ seg.label \in DOMAIN rows /\ seg.parts \subseteq DOMAIN rows
    /\ \A l \in seg.parts \cup {seg.label} : rows[l].recording = recordings[seg.transcript]

RecordingsOf(rows) == [t \in DOMAIN rows |-> rows[t].recording]

WellAttributed ==
    \A s \in DOMAIN segments : HeardInIts(segments[s], observed, RecordingsOf(transcripts))

\* A request is about something that is there.
Targets ==
    \A e \in Editors :
        /\ editing[e].kind \in {"text", "parts"} => editing[e].target \in DOMAIN segments
        /\ editing[e].kind = "review" => editing[e].target \in DOMAIN transcripts

TranscriptsInv ==
    TranscriptsTyping /\ Distinct(observed) /\ ShownAsRead /\ WellAttributed /\ Targets

-----------------------------------------------------------------------------
\* Every set of natural numbers that is not empty has a least one.
LEMMA LeastNumber ==
    ASSUME NEW S \in SUBSET Nat, S # {}
    PROVE  \E m \in S : \A k \in S : m <= k
<1> DEFINE Less == {ss \in Nat \X Nat : ss[1] < ss[2]}
<1>1. IsWellFoundedOn(Less, Nat)
  BY NatLessThanWellFounded DEF OpToRel
<1>2. \A k, m \in Nat : k < m => <<k, m>> \in Less
  OBVIOUS
<1> HIDE DEF Less
<1>3. PICK m \in S : \A k \in S : <<k, m>> \notin Less
  BY <1>1, WFMin
<1>4. \A k \in S : ~(k < m)
  BY <1>2, <1>3
<1>5. QED
  BY <1>4

\* The diarizer numbers a recording's speakers from 0 on.
LEMMA LabelsAreDense == \E n \in Nat : Diarized = 0..(n - 1)
BY FS_CardinalityType, TranscriptsAssumption

\* What is free is free: no label is given twice.
LEMMA LabelIsFree ==
    ASSUME NEW rows, DOMAIN rows \subseteq Nat, IsFiniteSet(DOMAIN rows), NEW preferred \in Nat
    PROVE  /\ NextFreeLabel(rows, preferred) \in Nat \ DOMAIN rows
           /\ NextFreeLabel(rows, preferred) \in {preferred} \cup 0..Cardinality(DOMAIN rows)
<1> DEFINE D == DOMAIN rows
           c == Cardinality(D)
           free == (0..c) \ D
<1>1. c \in Nat
  BY FS_CardinalityType
<1>2. IsFiniteSet(0..c) /\ Cardinality(0..c) = c + 1
  BY <1>1, FS_Interval
<1>3. free # {}
  <2>1. ASSUME 0..c \subseteq D PROVE FALSE
    <3>1. Cardinality(0..c) <= c
      BY <2>1, FS_Subset
    <3>2. QED
      BY <1>1, <1>2, <3>1
  <2>2. QED
    BY <2>1
<1>4. PICK n \in free : \A k \in free : n <= k
  <2>1. free \in SUBSET Nat
    BY <1>1
  <2> HIDE DEF free
  <2>2. QED
    BY <1>3, <2>1, LeastNumber
<1>5. n \in 0..c /\ n \notin D /\ \A m \in 0..(n - 1) : m \in D
  BY <1>1, <1>4
<1>6. SmallestFree(rows) \in 0..c /\ SmallestFree(rows) \notin D
  BY <1>5 DEF SmallestFree, Taken
<1>7. QED
  BY <1>1, <1>6 DEF NextFreeLabel, Taken

\* Every label stands for one speaker of one recording: there are no more labels than those.
LEMMA RowsBounded ==
    ASSUME NEW rows, Distinct(rows)
    PROVE  Cardinality(DOMAIN rows) \in 0..(Cardinality(Recordings) * Cardinality(Diarized))
<1> DEFINE P == Recordings \X Diarized
           at == [l \in DOMAIN rows |-> <<rows[l].recording, rows[l].source>>]
<1>1. IsFiniteSet(P) /\ Cardinality(P) = Cardinality(Recordings) * Cardinality(Diarized)
  BY TranscriptsAssumption, FS_Product
<1>2. at \in [DOMAIN rows -> P]
  BY DEF Distinct, ObservedRow
<1>3. \A l, m \in DOMAIN rows : at[l] = at[m] => l = m
  BY DEF Distinct
<1> HIDE DEF at, P
<1>4. at \in Injection(DOMAIN rows, P)
  BY <1>2, <1>3 DEF Injection, IsInjective
<1>5. Cardinality(DOMAIN rows) <= Cardinality(P)
  BY <1>1, <1>4, FS_Injection
<1>6. Cardinality(DOMAIN rows) \in Nat /\ Cardinality(P) \in Nat
  BY <1>1, FS_CardinalityType DEF Distinct
<1>7. QED
  BY <1>1, <1>5, <1>6

\* A label that is given is one of the session's.
LEMMA LabelIsBounded ==
    ASSUME NEW rows, Distinct(rows), NEW preferred \in Diarized, Recordings # {}
    PROVE  NextFreeLabel(rows, preferred) \in Labels
<1> DEFINE r == Cardinality(Recordings)
           d == Cardinality(Diarized)
<1>1. r \in Nat /\ d \in Nat /\ r # 0 /\ Diarized = 0..(d - 1)
  BY TranscriptsAssumption, FS_CardinalityType, FS_EmptySet
<1> HIDE DEF r, d
<1>2. preferred \in Nat /\ preferred <= d
  BY <1>1
<1>3. d <= r * d /\ r * d \in Nat
  <2>1. (r - 1) * d \in Nat /\ r - 1 \in Nat
    BY <1>1
  <2>2. r * d = (r - 1) * d + d
    BY <1>1
  <2>3. QED
    BY <1>1, <2>1, <2>2
<1>4. Cardinality(DOMAIN rows) \in 0..(r * d)
  BY RowsBounded DEF r, d
<1>5. NextFreeLabel(rows, preferred) \in {preferred} \cup 0..Cardinality(DOMAIN rows)
  BY <1>2, LabelIsFree DEF Distinct
<1>6. NextFreeLabel(rows, preferred) \in 0..(r * d)
  <2> DEFINE n == r * d
             c == Cardinality(DOMAIN rows)
             new == NextFreeLabel(rows, preferred)
  <2>1. n \in Nat /\ preferred <= n /\ c \in 0..n /\ new \in {preferred} \cup 0..c
    BY <1>1, <1>2, <1>3, <1>4, <1>5
  <2> HIDE DEF n, c, new
  <2>2. new \in 0..n
    BY <1>2, <2>1
  <2>3. QED
    BY <2>2 DEF n, new
<1>7. QED
  BY <1>6 DEF Labels, r, d

\* An observation of a speaker that is there adds nothing, one of a new speaker a label.
LEMMA ObserveOne ==
    ASSUME NEW rows, Distinct(rows), NEW r \in Recordings, NEW local \in Diarized, Diarized \subseteq Nat
    PROVE  /\ Distinct(Observe(rows, r, local))
           /\ DOMAIN rows \subseteq DOMAIN Observe(rows, r, local)
           /\ \A l \in DOMAIN rows : Observe(rows, r, local)[l] = rows[l]
           /\ \E l \in DOMAIN Observe(rows, r, local) :
                 /\ Observe(rows, r, local)[l].recording = r
                 /\ Observe(rows, r, local)[l].source = local
           /\ DOMAIN rows \subseteq Labels => DOMAIN Observe(rows, r, local) \subseteq Labels
<1>1. CASE Observation(rows, r, local) # {}
  BY <1>1 DEF Observe, Observation, Taken
<1>2. CASE Observation(rows, r, local) = {}
  <2> DEFINE new == NextFreeLabel(rows, local)
             row == [recording |-> r, source |-> local, person |-> Nobody]
             later == [l \in DOMAIN rows \cup {new} |-> IF l = new THEN row ELSE rows[l]]
  <2>1. Observe(rows, r, local) = later
    BY <1>2 DEF Observe, Taken
  <2>2. new \in Nat /\ new \notin DOMAIN rows
    BY LabelIsFree DEF Distinct
  <2>3. row \in ObservedRow /\ row.recording = r /\ row.source = local
    BY DEF ObservedRow
  <2>4. IsFiniteSet(DOMAIN rows \cup {new})
    BY FS_AddElement DEF Distinct
  <2>5. \A l \in DOMAIN rows : ~(rows[l].recording = r /\ rows[l].source = local)
    BY <1>2 DEF Observation, Taken
  <2> HIDE DEF new, row
  <2>6. /\ DOMAIN later = DOMAIN rows \cup {new} /\ later[new] = row
        /\ \A l \in DOMAIN rows : later[l] = rows[l]
    BY <2>2
  <2>7. later \in [DOMAIN later -> ObservedRow]
    BY <2>3, <2>6 DEF Distinct
  <2> HIDE DEF later
  <2>8. \A l, m \in DOMAIN later :
          (later[l].recording = later[m].recording /\ later[l].source = later[m].source) => l = m
    BY <2>3, <2>5, <2>6 DEF Distinct
  <2>9. Distinct(later)
    BY <2>2, <2>4, <2>6, <2>7, <2>8 DEF Distinct
  <2>10. new \in Labels
    BY LabelIsBounded DEF new
  <2>11. QED
    BY <2>1, <2>3, <2>6, <2>9, <2>10
<1>3. QED
  BY <1>1, <1>2

-----------------------------------------------------------------------------
(* The labels of a result, resolved one after the other *)

Resolved(r, locals, n, before) == IF n - 1 \in locals THEN Observe(before, r, n - 1) ELSE before

\* What upTo is, on the first m labels.
ResolvedUpTo(g, m, r, locals) ==
    g = [n \in 0..m |-> IF n = 0 THEN observed ELSE Resolved(r, locals, n, g[n - 1])]

\* The function that resolves label by label exists: if not, there would be a first m
\* for which it does not.
LEMMA ResolvingEnds ==
    ASSUME NEW r, NEW locals, NEW m \in Nat
    PROVE  \E g : ResolvedUpTo(g, m, r, locals)
<1> DEFINE Bad == {k \in Nat : ~ \E g : ResolvedUpTo(g, k, r, locals)}
<1> SUFFICES ASSUME Bad # {} PROVE FALSE
  OBVIOUS
<1>1. PICK k \in Bad : \A j \in Bad : k <= j
  <2>1. Bad \in SUBSET Nat
    OBVIOUS
  <2> HIDE DEF Bad
  <2>2. QED
    BY <2>1, LeastNumber
<1>2. k # 0
  <2>1. ASSUME k = 0 PROVE FALSE
    <3> DEFINE g == [n \in 0..0 |-> observed]
    <3>1. g = [n \in 0..0 |-> IF n = 0 THEN observed ELSE Resolved(r, locals, n, g[n - 1])]
      OBVIOUS
    <3>2. ResolvedUpTo(g, 0, r, locals)
      BY <3>1 DEF ResolvedUpTo
    <3>3. QED
      BY <2>1, <3>2
  <2>2. QED
    BY <2>1
<1>3. k - 1 \in Nat /\ k - 1 \notin Bad /\ k \in Nat
  BY <1>1, <1>2
<1>4. PICK h : ResolvedUpTo(h, k - 1, r, locals)
  BY <1>3
<1> DEFINE g == [n \in 0..k |-> IF n = k THEN Resolved(r, locals, k, h[k - 1]) ELSE h[n]]
<1>5. \A n \in 0..(k - 1) : h[n] = IF n = 0 THEN observed ELSE Resolved(r, locals, n, h[n - 1])
  BY <1>4 DEF ResolvedUpTo
<1>6. \A n \in 0..k : g[n] = IF n = 0 THEN observed ELSE Resolved(r, locals, n, g[n - 1])
  <2> SUFFICES ASSUME NEW n \in 0..k
               PROVE  g[n] = IF n = 0 THEN observed ELSE Resolved(r, locals, n, g[n - 1])
    OBVIOUS
  <2>1. CASE n = 0
    <3>1. n # k /\ n \in 0..(k - 1)
      BY <1>2, <1>3, <2>1
    <3>2. g[n] = h[n] /\ h[n] = observed
      BY <1>5, <2>1, <3>1
    <3>3. QED
      BY <2>1, <3>2
  <2>2. CASE n # 0
    <3>1. n - 1 \in 0..k /\ n - 1 # k /\ n - 1 \in 0..(k - 1)
      BY <1>3, <2>2
    <3>2. g[n - 1] = h[n - 1]
      BY <3>1
    <3>3. CASE n = k
      BY <2>2, <3>2, <3>3
    <3>4. CASE n # k
      <4>1. n \in 0..(k - 1)
        BY <1>3, <3>4
      <4>2. g[n] = h[n] /\ h[n] = Resolved(r, locals, n, h[n - 1])
        BY <1>5, <2>2, <3>4, <4>1
      <4>3. QED
        BY <2>2, <3>2, <4>2
    <3>5. QED
      BY <3>3, <3>4
  <2>3. QED
    BY <2>1, <2>2
<1>7. g = [n \in 0..k |-> g[n]]
  OBVIOUS
<1> HIDE DEF g
<1>8. g = [n \in 0..k |-> IF n = 0 THEN observed ELSE Resolved(r, locals, n, g[n - 1])]
  BY <1>6, <1>7
<1>9. \E f : ResolvedUpTo(f, k, r, locals)
  BY <1>8 DEF ResolvedUpTo
<1>10. QED
  BY <1>1, <1>9

\* What resolving the first n labels leaves.
Observing(rows, r, locals, n) ==
    /\ Distinct(rows) /\ DOMAIN observed \subseteq DOMAIN rows
    /\ \A l \in DOMAIN observed : rows[l] = observed[l]
    /\ \A local \in locals : local < n =>
          \E l \in DOMAIN rows : rows[l].recording = r /\ rows[l].source = local
    /\ DOMAIN observed \subseteq Labels => DOMAIN rows \subseteq Labels

\* A result's speakers get labels of their own, and nobody loses one.
LEMMA AllObserved ==
    ASSUME Distinct(observed), NEW r \in Recordings, NEW locals \in SUBSET Diarized
    PROVE  Observing(ObserveAll(r, locals), r, locals, Cardinality(Diarized))
<1>0. PICK c \in Nat : Diarized = 0..(c - 1)
  BY LabelsAreDense
<1>1. Cardinality(Diarized) = c
  BY <1>0, FS_Interval
<1> DEFINE F(g) == g = [n \in 0..c |-> IF n = 0 THEN observed
                                       ELSE IF n - 1 \in locals THEN Observe(g[n - 1], r, n - 1) ELSE g[n - 1]]
<1> DEFINE up == CHOOSE g : F(g)
<1>2. ObserveAll(r, locals) = up[c]
  BY <1>1 DEF ObserveAll
<1>3. \E g : F(g)
  <2>1. PICK g : ResolvedUpTo(g, c, r, locals)
    BY <1>0, ResolvingEnds
  <2>2. F(g)
    BY <2>1 DEF ResolvedUpTo, Resolved
  <2> HIDE DEF F
  <2>3. QED
    BY <2>2
<1>4. F(up)
  BY <1>3
<1> HIDE DEF up
<1>5. \A n \in 0..c : up[n] = IF n = 0 THEN observed ELSE Resolved(r, locals, n, up[n - 1])
  BY <1>4 DEF Resolved
<1> HIDE DEF F
<1> DEFINE Bad == {n \in 0..c : ~Observing(up[n], r, locals, n)}
<1>6. Bad = {}
  <2> SUFFICES ASSUME Bad # {} PROVE FALSE
    OBVIOUS
  <2>1. PICK n \in Bad : \A j \in Bad : n <= j
    <3>1. Bad \in SUBSET Nat
      BY <1>0
    <3> HIDE DEF Bad
    <3>2. QED
      BY <3>1, LeastNumber
  <2>2. n \in 0..c /\ n \in Nat
    BY <1>0, <2>1
  <2>3. CASE n = 0
    <3>1. up[n] = observed
      BY <1>5, <2>2, <2>3
    <3>2. \A local \in locals : ~(local < 0)
      BY <1>0
    <3>3. Observing(up[n], r, locals, n)
      BY <2>3, <3>1, <3>2 DEF Observing
    <3>4. QED
      BY <2>1, <3>3
  <2>4. CASE n # 0
    <3> DEFINE before == up[n - 1]
               later == up[n]
    <3>1. n - 1 \in 0..c /\ n - 1 \notin Bad /\ n - 1 \in Nat
      BY <1>0, <2>1, <2>2, <2>4
    <3>2. Observing(before, r, locals, n - 1)
      BY <3>1
    <3>3. later = Resolved(r, locals, n, before)
      BY <1>5, <2>2, <2>4
    <3>4. \A local \in locals : local \in Nat
      BY <1>0
    <3> HIDE DEF before, later, Bad
    <3>5. CASE n - 1 \in locals
      <4> DEFINE here == n - 1
      <4>1. later = Observe(before, r, here) /\ here \in Diarized /\ Diarized \subseteq Nat
        <5>1. later = Observe(before, r, n - 1)
          BY <3>3, <3>5 DEF Resolved
        <5>2. Diarized \subseteq Nat
          BY <1>0
        <5>3. QED
          BY <3>5, <5>1, <5>2
      <4>2. Distinct(before)
        BY <3>2 DEF Observing
      <4>3. /\ Distinct(later) /\ DOMAIN before \subseteq DOMAIN later
            /\ \A l \in DOMAIN before : later[l] = before[l]
            /\ \E l \in DOMAIN later : later[l].recording = r /\ later[l].source = n - 1
            /\ DOMAIN before \subseteq Labels => DOMAIN later \subseteq Labels
        <5> HIDE DEF here
        <5>1. /\ Distinct(later) /\ DOMAIN before \subseteq DOMAIN later
              /\ \A l \in DOMAIN before : later[l] = before[l]
              /\ \E l \in DOMAIN later : later[l].recording = r /\ later[l].source = here
              /\ DOMAIN before \subseteq Labels => DOMAIN later \subseteq Labels
          BY <4>1, <4>2, ObserveOne
        <5>2. QED
          BY <5>1 DEF here
      <4>4. \A local \in locals : local < n => local < n - 1 \/ local = n - 1
        BY <2>2, <3>4
      <4>5. Observing(later, r, locals, n)
        BY <3>2, <4>3, <4>4 DEF Observing
      <4>6. QED
        BY <2>1, <4>5 DEF Bad, later
    <3>6. CASE n - 1 \notin locals
      <4>1. later = before
        BY <3>3, <3>6 DEF Resolved
      <4>2. \A local \in locals : local < n => local < n - 1
        BY <2>2, <3>4, <3>6
      <4>3. Observing(later, r, locals, n)
        BY <3>2, <4>1, <4>2 DEF Observing
      <4>4. QED
        BY <2>1, <4>3 DEF Bad, later
    <3>7. QED
      BY <3>5, <3>6
  <2>5. QED
    BY <2>3, <2>4
<1>7. Observing(up[c], r, locals, c)
  BY <1>0, <1>6
<1>8. QED
  BY <1>1, <1>2, <1>7

\* The speakers of a result, each at his place in order.
LEMMA InOrderOfLabels ==
    ASSUME NEW locals \in SUBSET Diarized, NEW n \in 1..Cardinality(locals)
    PROVE  (CHOOSE x \in locals : Cardinality({y \in locals : y < x}) = n - 1) \in locals
<1>0. PICK d \in Nat : Diarized = 0..(d - 1)
  BY LabelsAreDense
<1> DEFINE k == Cardinality(locals)
           Below(x) == {y \in locals : y < x}
           rank == [x \in locals |-> Cardinality(Below(x))]
<1>1. locals \subseteq Nat /\ IsFiniteSet(locals) /\ k \in Nat
  <2>1. IsFiniteSet(Diarized)
    BY <1>0, FS_Interval
  <2>2. IsFiniteSet(locals)
    BY <2>1, FS_Subset
  <2>3. QED
    BY <1>0, <2>2, FS_CardinalityType
<1>2. ASSUME NEW x \in locals PROVE Cardinality(Below(x)) \in 0..(k - 1)
  <2>1. Below(x) \in SUBSET locals /\ x \notin Below(x)
    BY <1>1
  <2>2. IsFiniteSet(Below(x)) /\ Cardinality(Below(x)) <= k /\ Cardinality(Below(x)) # k
    BY <1>1, <2>1, FS_Subset
  <2>3. Cardinality(Below(x)) \in Nat
    BY <2>2, FS_CardinalityType
  <2>4. QED
    BY <1>1, <2>2, <2>3
<1>3. ASSUME NEW x \in locals, NEW z \in locals, x < z
      PROVE  Cardinality(Below(x)) # Cardinality(Below(z))
  <2>1. Below(z) \in SUBSET locals
    OBVIOUS
  <2>2. IsFiniteSet(Below(z))
    BY <1>1, <2>1, FS_Subset
  <2>3. Below(x) \in SUBSET Below(z) /\ x \in Below(z) /\ x \notin Below(x)
    <3>1. \A y \in locals : y < x => y < z
      BY <1>1, <1>3
    <3>2. x < z /\ ~(x < x)
      BY <1>1, <1>3
    <3>3. QED
      BY <3>1, <3>2
  <2>4. QED
    BY <2>2, <2>3, FS_Subset
<1>4. rank \in Injection(locals, 0..(k - 1))
  <2>1. rank \in [locals -> 0..(k - 1)]
    BY <1>2
  <2>2. \A x, z \in locals : x # z => rank[x] # rank[z]
    BY <1>1, <1>3
  <2> HIDE DEF rank
  <2>3. QED
    BY <2>1, <2>2 DEF Injection, IsInjective
<1>5. IsFiniteSet(0..(k - 1)) /\ Cardinality(0..(k - 1)) = k
  <2> HIDE DEF k
  <2>1. 0 \in Int /\ k - 1 \in Int
    BY <1>1
  <2>2. IsFiniteSet(0..(k - 1)) /\ Cardinality(0..(k - 1)) = IF 0 > k - 1 THEN 0 ELSE k - 1 - 0 + 1
    BY <2>1, FS_Interval
  <2>3. QED
    BY <1>1, <2>2
<1>6. rank \in Surjection(locals, 0..(k - 1))
  BY <1>1, <1>4, <1>5, FS_Injection
<1>7. \E x \in locals : rank[x] = n - 1
  <2>1. n - 1 \in 0..(k - 1)
    BY <1>1
  <2> HIDE DEF rank, k
  <2>2. QED
    BY <1>6, <2>1 DEF Surjection
<1>8. \E x \in locals : Cardinality(Below(x)) = n - 1
  BY <1>7
<1>9. QED
  BY <1>8

-----------------------------------------------------------------------------
(* What tokens say *)

\* A token of a transcript is a token, its content is what the token says.
LEMMA TokenSays ==
    ASSUME TranscriptsInv, NEW t \in DOMAIN transcripts
    PROVE  /\ TokenFor(t) \in Tokens /\ Content(t) \in Readings
           /\ Content(t) = Plain(TokenFor(t))
<1> DEFINE S == SegmentsOf(t)
           L == SpeakersOf(transcripts[t].recording)
           said == [s \in S |-> <<segments[s].revision, SpeechParts(s)>>]
           heard == [s \in S |-> SpeechParts(s)]
           named == [l \in L |-> IdentityFact(observed[l].person)]
<1>0. /\ segments \in Seq(SegmentRow) /\ names \in [People -> Nat]
      /\ DOMAIN observed \subseteq Nat /\ observed \in [DOMAIN observed -> ObservedRow]
  BY DEF TranscriptsInv, TranscriptsTyping, Distinct
<1>1. \A s \in S : /\ segments[s].revision \in Nat /\ SpeechParts(s) \in (SUBSET Nat) \X Nat
  <2> SUFFICES ASSUME NEW s \in S
               PROVE  segments[s].revision \in Nat /\ SpeechParts(s) \in (SUBSET Nat) \X Nat
    OBVIOUS
  <2>1. segments[s] \in SegmentRow
    BY <1>0 DEF SegmentsOf
  <2>2. QED
    BY <2>1 DEF SegmentRow, SpeechParts
<1>2. S \in SUBSET Nat
  BY <1>0 DEF SegmentsOf
<1>3. L \in SUBSET Nat
  BY <1>0 DEF SpeakersOf, Taken
<1>4. \A l \in L : IdentityFact(observed[l].person) \in (People \cup {Nobody}) \X Nat
  BY <1>0 DEF SpeakersOf, Taken, ObservedRow, IdentityFact
<1> HIDE DEF S, L
<1>5. said \in [S -> Nat \X ((SUBSET Nat) \X Nat)] /\ heard \in [S -> (SUBSET Nat) \X Nat]
  BY <1>1
<1>6. named \in [L -> (People \cup {Nobody}) \X Nat]
  BY <1>4
<1>7. heard = [s \in DOMAIN said |-> said[s][2]]
  OBVIOUS
<1>8. TokenFor(t) = [segments |-> said, speakers |-> named] /\ Content(t) = [segments |-> heard, speakers |-> named]
  BY DEF TokenFor, Content, S, L
<1> HIDE DEF said, heard, named
<1>9. said \in SaidRows /\ heard \in HeardRows /\ named \in Named
  BY <1>2, <1>3, <1>5, <1>6 DEF SaidRows, HeardRows, Named
<1>10. QED
  BY <1>7, <1>8, <1>9 DEF Tokens, Readings, Plain

-----------------------------------------------------------------------------
(* Steps *)

\* Labels and recordings are added and never changed.
LEMMA HeardLater ==
    ASSUME NEW seg, NEW rows, NEW later, NEW recordings, NEW more, HeardInIts(seg, rows, recordings),
           DOMAIN rows \subseteq DOMAIN later, \A l \in DOMAIN rows : later[l].recording = rows[l].recording,
           DOMAIN recordings \subseteq DOMAIN more, \A t \in DOMAIN recordings : more[t] = recordings[t]
    PROVE  HeardInIts(seg, later, more)
BY DEF HeardInIts

\* What a result's segments are once they follow the segments already stored.
LEMMA RowsAppended ==
    ASSUME NEW Row, NEW old \in Seq(Row), NEW new \in Seq(Row), NEW k \in Nat, Len(new) = k
    PROVE  /\ old \o new \in Seq(Row) /\ Len(old \o new) = Len(old) + k
           /\ \A s \in 1..Len(old) : (old \o new)[s] = old[s]
           /\ \A s \in DOMAIN (old \o new) : s \notin 1..Len(old) =>
                 s - Len(old) \in 1..k /\ (old \o new)[s] = new[s - Len(old)]
OBVIOUS

LEMMA TranscriptsInitInv == TranscriptsInit => TranscriptsInv
<1> SUFFICES ASSUME TranscriptsInit PROVE TranscriptsInv
  OBVIOUS
<1>1. TranscriptsTyping
  <2>1. Idle \in RequestRow
    BY DEF Idle, RequestRow
  <2>2. QED
    BY <2>1 DEF TranscriptsInit, TranscriptsTyping
<1>2. Distinct(observed)
  BY FS_EmptySet DEF TranscriptsInit, Distinct
<1>3. ShownAsRead
  BY DEF TranscriptsInit, ShownAsRead, Idle
<1>4. WellAttributed
  BY DEF TranscriptsInit, WellAttributed
<1>5. Targets
  BY DEF TranscriptsInit, Targets, Idle
<1>6. QED
  BY <1>1, <1>2, <1>3, <1>4, <1>5 DEF TranscriptsInv

\* A result.
LEMMA ReceiveKeeps ==
    ASSUME TranscriptsInv, NEW r \in Recordings, NEW locals \in SUBSET Diarized, ReceiveTranscript(r, locals)
    PROVE  TranscriptsInv'
<1> DEFINE k == Cardinality(locals)
           order == [n \in 1..k |-> CHOOSE x \in locals : Cardinality({y \in locals : y < x}) = n - 1]
           row == [recording |-> r, token |-> {}, readAs |-> {}]
           new == [n \in DOMAIN order |->
             [transcript |-> Len(transcripts) + 1,
              label |-> CHOOSE l \in Observation(observed', r, order[n]) : TRUE,
              revision |-> 0, text |-> 0, parts |-> {}]]
<1>1. /\ observed' = ObserveAll(r, locals) /\ transcripts' = Append(transcripts, row)
      /\ segments' = segments \o new /\ names' = names /\ editing' = editing
      /\ EvidenceMayChange(workflow)
  BY DEF ReceiveTranscript
<1>2. Observing(observed', r, locals, Cardinality(Diarized))
  BY <1>1, AllObserved DEF TranscriptsInv
<1>3. Distinct(observed')
  BY <1>2 DEF Observing
<1>4. /\ transcripts \in Seq(TranscriptRow) /\ segments \in Seq(SegmentRow)
      /\ workflow \in {"OPEN", "REVIEWED", "SEALED"}
      /\ names \in [People -> Nat] /\ editing \in [Editors -> RequestRow]
  BY DEF TranscriptsInv, TranscriptsTyping
<1>5. row \in TranscriptRow
  BY DEF TranscriptRow
<1>6. k \in Nat
  <2>1. PICK d \in Nat : Diarized = 0..(d - 1)
    BY LabelsAreDense
  <2>2. IsFiniteSet(Diarized)
    BY <2>1, FS_Interval
  <2>3. QED
    BY <2>2, FS_Subset, FS_CardinalityType
<1>7. ASSUME NEW n \in 1..k
      PROVE  /\ new[n] \in SegmentRow /\ new[n].transcript = Len(transcripts) + 1
             /\ new[n].label \in DOMAIN observed' /\ observed'[new[n].label].recording = r
             /\ new[n].parts = {}
  <2> DEFINE x == order[n]
             label == CHOOSE l \in Observation(observed', r, x) : TRUE
  <2>1. x \in locals
    BY InOrderOfLabels
  <2>2. x < Cardinality(Diarized)
    <3>1. PICK d \in Nat : Diarized = 0..(d - 1)
      BY LabelsAreDense
    <3>2. Cardinality(Diarized) = d
      BY <3>1, FS_Interval
    <3> HIDE DEF x
    <3>3. QED
      BY <2>1, <3>1, <3>2
  <2> HIDE DEF x
  <2>3. Observation(observed', r, x) # {}
    BY <2>1, <2>2, <1>2 DEF Observing, Observation, Taken
  <2>4. label \in Observation(observed', r, x)
    BY <2>3
  <2>5. label \in DOMAIN observed' /\ observed'[label].recording = r /\ label \in Nat
    BY <2>4, <1>3 DEF Observation, Taken, Distinct
  <2>6. new[n] = [transcript |-> Len(transcripts) + 1, label |-> label, revision |-> 0, text |-> 0, parts |-> {}]
    BY DEF x
  <2> HIDE DEF label, new
  <2>7. QED
    BY <1>4, <2>5, <2>6 DEF SegmentRow
<1>8. new \in Seq(SegmentRow) /\ Len(new) = k
  <2>1. new \in [1..k -> SegmentRow]
    BY <1>7
  <2> HIDE DEF new, k
  <2>2. QED
    BY <1>6, <2>1
<1> HIDE DEF new, k, row
<1>9. /\ segments' \in Seq(SegmentRow) /\ Len(segments') = Len(segments) + k
      /\ \A s \in 1..Len(segments) : segments'[s] = segments[s]
      /\ \A s \in DOMAIN segments' : s \notin 1..Len(segments) =>
            s - Len(segments) \in 1..k /\ segments'[s] = new[s - Len(segments)]
  <2>1. segments' = segments \o new
    BY <1>1
  <2>2. segments \in Seq(SegmentRow)
    BY <1>4
  <2>3. QED
    BY <2>1, <2>2, <1>6, <1>8, RowsAppended
<1>10. /\ transcripts' \in Seq(TranscriptRow) /\ Len(transcripts') = Len(transcripts) + 1
       /\ \A t \in 1..Len(transcripts) : transcripts'[t] = transcripts[t]
       /\ transcripts'[Len(transcripts) + 1] = row
  BY <1>1, <1>4, <1>5
<1>11. /\ DOMAIN transcripts' = 1..(Len(transcripts) + 1) /\ DOMAIN transcripts = 1..Len(transcripts)
       /\ DOMAIN segments = 1..Len(segments) /\ Len(segments) \in Nat /\ Len(transcripts) \in Nat
       /\ DOMAIN segments' = 1..(Len(segments) + k)
  BY <1>4, <1>9, <1>10
<1>12. TranscriptsTyping'
  <2>1. workflow' \in {"OPEN", "REVIEWED", "SEALED"}
    BY <1>1, <1>4 DEF EvidenceMayChange
  <2>2. QED
    BY <1>1, <1>4, <1>9, <1>10, <2>1 DEF TranscriptsTyping
<1>13. ShownAsRead'
  <2>1. \A t \in DOMAIN transcripts' : transcripts'[t].token # {} =>
           t \in DOMAIN transcripts /\ transcripts'[t] = transcripts[t]
    BY <1>10, <1>11 DEF row
  <2>2. \A t \in DOMAIN transcripts' : transcripts'[t].token # {} =>
           \E q \in Tokens : transcripts'[t].token = {q} /\ transcripts'[t].readAs = {Plain(q)}
    BY <2>1 DEF TranscriptsInv, ShownAsRead
  <2>3. \A e \in Editors : \A x \in editing'[e].shown : x[2] = Plain(x[1])
    BY <1>1 DEF TranscriptsInv, ShownAsRead
  <2>4. QED
    BY <2>2, <2>3 DEF ShownAsRead
<1>14. WellAttributed'
  <2> DEFINE recs == RecordingsOf(transcripts)
             more == RecordingsOf(transcripts')
  <2>1. /\ DOMAIN recs = DOMAIN transcripts /\ DOMAIN more = DOMAIN transcripts'
        /\ \A t \in DOMAIN recs : more[t] = recs[t]
        /\ more[Len(transcripts) + 1] = r
    BY <1>10, <1>11 DEF RecordingsOf, row
  <2>2. /\ DOMAIN observed \subseteq DOMAIN observed'
        /\ \A l \in DOMAIN observed : observed'[l] = observed[l]
    BY <1>2 DEF Observing
  <2> HIDE DEF recs, more
  <2>3. ASSUME NEW s \in DOMAIN segments' PROVE HeardInIts(segments'[s], observed', more)
    <3>1. CASE s \in 1..Len(segments)
      <4>1. HeardInIts(segments[s], observed, recs) /\ segments'[s] = segments[s]
        BY <1>9, <1>11, <3>1 DEF TranscriptsInv, WellAttributed, recs
      <4>2. DOMAIN recs \subseteq DOMAIN more
        BY <1>11, <2>1
      <4>3. HeardInIts(segments[s], observed', more)
        BY <2>1, <2>2, <4>1, <4>2, HeardLater
      <4>4. QED
        BY <4>1, <4>3
    <3>2. CASE s \notin 1..Len(segments)
      <4>1. PICK n \in 1..k : segments'[s] = new[n]
        BY <1>9, <3>2
      <4>2. Len(transcripts) + 1 \in DOMAIN more
        BY <1>11, <2>1
      <4>3. HeardInIts(new[n], observed', more)
        BY <1>7, <2>1, <4>2 DEF HeardInIts
      <4>4. QED
        BY <4>1, <4>3
    <3>3. QED
      BY <3>1, <3>2
  <2>4. QED
    BY <2>3 DEF WellAttributed, more
<1>15. Targets'
  <2>1. DOMAIN segments \subseteq DOMAIN segments' /\ DOMAIN transcripts \subseteq DOMAIN transcripts'
    BY <1>6, <1>11
  <2>2. QED
    BY <1>1, <2>1 DEF TranscriptsInv, Targets
<1>16. QED
  BY <1>3, <1>12, <1>13, <1>14, <1>15 DEF TranscriptsInv

\* A step that changes one request, the session's stage and nothing else.
LEMMA RequestKeeps ==
    ASSUME TranscriptsInv, NEW e \in Editors, NEW row \in RequestRow,
           editing' = [editing EXCEPT ![e] = row],
           \A x \in row.shown : x[2] = Plain(x[1]),
           row.kind \in {"text", "parts"} => row.target \in DOMAIN segments,
           row.kind = "review" => row.target \in DOMAIN transcripts,
           workflow' \in {"OPEN", "REVIEWED", "SEALED"},
           UNCHANGED <<observed, transcripts, segments, names>>
    PROVE  TranscriptsInv'
<1>1. /\ editing \in [Editors -> RequestRow] /\ editing'[e] = row
      /\ \A d \in Editors : d # e => editing'[d] = editing[d]
  BY DEF TranscriptsInv, TranscriptsTyping
<1>2. TranscriptsTyping'
  BY <1>1 DEF TranscriptsInv, TranscriptsTyping
<1>3. ShownAsRead'
  BY <1>1 DEF TranscriptsInv, ShownAsRead
<1>4. Targets'
  BY <1>1 DEF TranscriptsInv, Targets
<1>5. WellAttributed' /\ Distinct(observed')
  BY DEF TranscriptsInv, WellAttributed
<1>6. QED
  BY <1>2, <1>3, <1>4, <1>5 DEF TranscriptsInv

\* A request is gone.
LEMMA IdleRow ==
    /\ Idle \in RequestRow /\ Idle.kind = "none" /\ Idle.shown = {}
BY DEF Idle, RequestRow

LEMMA ComposeKeeps ==
    ASSUME TranscriptsInv, NEW e \in Editors, NEW kind \in {"text", "parts", "review"}, NEW target,
           Compose(e, kind, target)
    PROVE  TranscriptsInv'
<1> DEFINE seen == {<<TokenFor(target), Content(target)>>}
           revision == IF kind = "review" THEN 0 ELSE segments[target].revision
           shown == IF kind = "review" THEN seen ELSE {}
           row == [Idle EXCEPT !.kind = kind, !.step = "sent", !.target = target, !.revision = revision,
                                !.shown = shown]
<1>1. /\ target \in IF kind = "review" THEN DOMAIN transcripts ELSE DOMAIN segments
      /\ editing' = [editing EXCEPT ![e] = row]
      /\ UNCHANGED <<workflow, observed, transcripts, segments, names>>
  BY DEF Compose
<1>2. /\ segments \in Seq(SegmentRow) /\ transcripts \in Seq(TranscriptRow)
      /\ workflow \in {"OPEN", "REVIEWED", "SEALED"}
  BY DEF TranscriptsInv, TranscriptsTyping
<1>3. shown \in SUBSET (Tokens \X Readings) /\ \A x \in shown : x[2] = Plain(x[1])
  BY <1>1, TokenSays
<1>4. target \in Nat /\ revision \in Nat
  <2>1. CASE kind = "review"
    BY <1>1, <1>2, <2>1
  <2>2. CASE kind # "review"
    <3>1. target \in DOMAIN segments
      BY <1>1, <2>2
    <3>2. segments[target] \in SegmentRow /\ target \in Nat
      BY <1>2, <3>1
    <3>3. QED
      BY <2>2, <3>2 DEF SegmentRow
  <2>3. QED
    BY <2>1, <2>2
<1> HIDE DEF shown, revision
<1>5. row \in RequestRow /\ row.kind = kind /\ row.target = target /\ row.shown = shown
  <2>1. row \in RequestRow
    BY <1>3, <1>4 DEF Idle, RequestRow
  <2>2. row.kind = kind /\ row.target = target /\ row.shown = shown
    BY DEF Idle
  <2>3. QED
    BY <2>1, <2>2
<1> HIDE DEF row
<1>6. QED
  BY <1>1, <1>2, <1>3, <1>5, RequestKeeps

LEMMA LoadKeeps ==
    ASSUME TranscriptsInv, NEW e \in Editors, Load(e)
    PROVE  TranscriptsInv'
<1> DEFINE c == editing[e]
           row == [c EXCEPT !.step = "loaded", !.known = workflow]
<1>1. c \in RequestRow /\ workflow \in {"OPEN", "REVIEWED", "SEALED"}
  BY DEF TranscriptsInv, TranscriptsTyping
<1>2. /\ editing' = [editing EXCEPT ![e] = row]
      /\ UNCHANGED <<workflow, observed, transcripts, segments, names>>
  BY DEF Load, TranscriptsInv, TranscriptsTyping
<1>3. /\ \A x \in c.shown : x[2] = Plain(x[1])
      /\ c.kind \in {"text", "parts"} => c.target \in DOMAIN segments
      /\ c.kind = "review" => c.target \in DOMAIN transcripts
  BY DEF TranscriptsInv, ShownAsRead, Targets
<1> HIDE DEF c
<1>4. row \in RequestRow /\ row.kind = c.kind /\ row.target = c.target /\ row.shown = c.shown
  <2>1. row \in RequestRow
    BY <1>1 DEF RequestRow
  <2>2. row.kind = c.kind /\ row.target = c.target /\ row.shown = c.shown
    BY <1>1 DEF RequestRow
  <2>3. QED
    BY <2>1, <2>2
<1> HIDE DEF row
<1>5. QED
  BY <1>1, <1>2, <1>3, <1>4, RequestKeeps

\* A correction: one segment has other words or other speakers of its recording.
LEMMA CorrectionKeeps ==
    ASSUME TranscriptsInv, NEW e \in Editors, NEW s \in DOMAIN segments, NEW row \in SegmentRow,
           segments' = [segments EXCEPT ![s] = row], editing' = [editing EXCEPT ![e] = Idle],
           row.transcript = segments[s].transcript, row.label = segments[s].label,
           HeardInIts(row, observed, RecordingsOf(transcripts)),
           workflow' \in {"OPEN", "REVIEWED", "SEALED"}, UNCHANGED <<observed, transcripts, names>>
    PROVE  TranscriptsInv'
<1>1. /\ editing \in [Editors -> RequestRow] /\ editing'[e] = Idle
      /\ \A d \in Editors : d # e => editing'[d] = editing[d]
      /\ segments \in Seq(SegmentRow)
  BY DEF TranscriptsInv, TranscriptsTyping
<1>2. /\ segments' \in Seq(SegmentRow) /\ DOMAIN segments' = DOMAIN segments /\ segments'[s] = row
      /\ \A x \in DOMAIN segments : x # s => segments'[x] = segments[x]
  BY <1>1
<1>3. TranscriptsTyping'
  BY <1>1, <1>2, IdleRow DEF TranscriptsInv, TranscriptsTyping
<1>4. ShownAsRead'
  BY <1>1, IdleRow DEF TranscriptsInv, ShownAsRead
<1>5. Targets'
  BY <1>1, <1>2, IdleRow DEF TranscriptsInv, Targets
<1>6. \A x \in DOMAIN segments' : HeardInIts(segments'[x], observed, RecordingsOf(transcripts))
  BY <1>2 DEF TranscriptsInv, WellAttributed
<1>7. WellAttributed' /\ Distinct(observed')
  BY <1>6 DEF TranscriptsInv, WellAttributed
<1>8. QED
  BY <1>3, <1>4, <1>5, <1>7 DEF TranscriptsInv

\* How many corrections there are is a number.
LEMMA CorrectionsCount == ASSUME TranscriptsInv PROVE Corrections \in Nat
<1> DEFINE D == 1..(Len(segments) * MaxCorrections)
           P == (1..Len(segments)) \X (1..MaxCorrections)
           C == {x \in P : x[2] <= segments[x[1]].revision}
<1>1. Len(segments) \in Nat /\ MaxCorrections \in Nat
  BY TranscriptsAssumption DEF TranscriptsInv, TranscriptsTyping
<1>2. IsFiniteSet(1..Len(segments)) /\ IsFiniteSet(1..MaxCorrections)
  BY <1>1, FS_Interval
<1>3. IsFiniteSet(P)
  BY <1>2, FS_Product
<1>4. IsFiniteSet(C)
  BY <1>3, FS_Subset
<1>5. QED
  BY <1>4, FS_CardinalityType DEF Corrections

LEMMA EditKeeps ==
    ASSUME TranscriptsInv, NEW e \in Editors, NEW text \in Nat, EditSegment(e, text)
    PROVE  TranscriptsInv'
<1> DEFINE s == editing[e].target
           old == segments[s]
           next == old.revision + 1
           row == [old EXCEPT !.revision = next, !.text = text]
<1>1. /\ editing[e].kind = "text" /\ EvidenceMayChange(editing[e].known)
      /\ segments' = [segments EXCEPT ![s].revision = @ + 1, ![s].text = text]
      /\ editing' = [editing EXCEPT ![e] = Idle] /\ UNCHANGED <<observed, transcripts, names>>
  BY DEF EditSegment, Loaded, Finish
<1>2. s \in DOMAIN segments
  BY <1>1 DEF TranscriptsInv, Targets
<1>3. /\ segments \in Seq(SegmentRow) /\ old \in SegmentRow /\ workflow \in {"OPEN", "REVIEWED", "SEALED"}
  BY <1>2 DEF TranscriptsInv, TranscriptsTyping
<1>4. HeardInIts(old, observed, RecordingsOf(transcripts))
  BY <1>2 DEF TranscriptsInv, WellAttributed
<1>5. segments' = [segments EXCEPT ![s] = row]
  BY <1>1, <1>2, <1>3
<1>6. workflow' \in {"OPEN", "REVIEWED", "SEALED"}
  BY <1>1, <1>3 DEF EvidenceMayChange
<1>7. row \in SegmentRow
  <2> HIDE DEF old, s
  <2>1. next \in Nat
    <3>1. old.revision \in Nat
      BY <1>3 DEF SegmentRow
    <3>2. QED
      BY <3>1
  <2> HIDE DEF next
  <2>2. QED
    BY <1>3, <2>1 DEF SegmentRow
<1> HIDE DEF old, s, next
<1>8. row.transcript = old.transcript /\ row.label = old.label /\ row.parts = old.parts
  BY <1>3 DEF SegmentRow
<1> HIDE DEF row
<1>9. HeardInIts(row, observed, RecordingsOf(transcripts))
  BY <1>4, <1>8 DEF HeardInIts
<1>10. row.transcript = segments[s].transcript /\ row.label = segments[s].label
  BY <1>8 DEF old
<1>11. QED
  BY <1>1, <1>2, <1>5, <1>6, <1>7, <1>9, <1>10, CorrectionKeeps

LEMMA AttributionKeeps ==
    ASSUME TranscriptsInv, NEW e \in Editors, NEW parts, ReviewAttribution(e, parts)
    PROVE  TranscriptsInv'
<1> DEFINE s == editing[e].target
           old == segments[s]
           text == Corrections + 1
           next == old.revision + 1
           row == [old EXCEPT !.revision = next, !.text = text, !.parts = parts]
<1>1. /\ editing[e].kind = "parts" /\ EvidenceMayChange(editing[e].known)
      /\ segments' = [segments EXCEPT ![s].revision = @ + 1, ![s].text = text, ![s].parts = parts]
      /\ parts \subseteq SpeakersOf(transcripts[old.transcript].recording)
      /\ editing' = [editing EXCEPT ![e] = Idle] /\ UNCHANGED <<observed, transcripts, names>>
  BY DEF ReviewAttribution, Loaded, Finish
<1>2. s \in DOMAIN segments
  BY <1>1 DEF TranscriptsInv, Targets
<1>3. /\ segments \in Seq(SegmentRow) /\ old \in SegmentRow /\ workflow \in {"OPEN", "REVIEWED", "SEALED"}
  BY <1>2 DEF TranscriptsInv, TranscriptsTyping
<1>4. HeardInIts(old, observed, RecordingsOf(transcripts))
  BY <1>2 DEF TranscriptsInv, WellAttributed
<1>5. segments' = [segments EXCEPT ![s] = row]
  BY <1>1, <1>2, <1>3
<1>6. workflow' \in {"OPEN", "REVIEWED", "SEALED"}
  BY <1>1, <1>3 DEF EvidenceMayChange
<1>7. text \in Nat
  BY CorrectionsCount
<1>8. /\ parts \subseteq DOMAIN observed /\ parts \in SUBSET Nat
      /\ \A l \in parts : observed[l].recording = transcripts[old.transcript].recording
  BY <1>1 DEF SpeakersOf, Taken, TranscriptsInv, Distinct
<1>9. row \in SegmentRow
  <2> HIDE DEF old, s
  <2>1. next \in Nat
    <3>1. old.revision \in Nat
      BY <1>3 DEF SegmentRow
    <3>2. QED
      BY <3>1
  <2> HIDE DEF next, text
  <2>2. QED
    BY <1>3, <1>7, <1>8, <2>1 DEF SegmentRow
<1> HIDE DEF old, s, text, next
<1>10. row.transcript = old.transcript /\ row.label = old.label /\ row.parts = parts
  BY <1>3 DEF SegmentRow
<1> HIDE DEF row
<1>11. HeardInIts(row, observed, RecordingsOf(transcripts))
  <2>1. old.transcript \in DOMAIN transcripts
    BY <1>4 DEF HeardInIts, RecordingsOf
  <2>2. RecordingsOf(transcripts)[old.transcript] = transcripts[old.transcript].recording
    BY <2>1 DEF RecordingsOf
  <2>3. QED
    BY <1>4, <1>8, <1>10, <2>2 DEF HeardInIts
<1>12. row.transcript = segments[s].transcript /\ row.label = segments[s].label
  BY <1>10 DEF old
<1>13. QED
  BY <1>1, <1>2, <1>5, <1>6, <1>9, <1>11, <1>12, CorrectionKeeps

\* A review stores what was shown.
LEMMA TranscriptReviewKeeps ==
    ASSUME TranscriptsInv, NEW e \in Editors, ReviewTranscript(e)
    PROVE  TranscriptsInv'
<1> DEFINE t == editing[e].target
           old == transcripts[t]
<1>1. /\ editing[e].kind = "review" /\ EvidenceMayChange(editing[e].known)
      /\ editing' = [editing EXCEPT ![e] = Idle] /\ UNCHANGED <<observed, segments, names>>
  BY DEF ReviewTranscript, Loaded, Finish
<1>2. PICK seen \in editing[e].shown :
         transcripts' = [transcripts EXCEPT ![t].token = {seen[1]}, ![t].readAs = {seen[2]}]
  BY DEF ReviewTranscript
<1>3. t \in DOMAIN transcripts
  BY <1>1 DEF TranscriptsInv, Targets
<1>4. /\ transcripts \in Seq(TranscriptRow) /\ old \in TranscriptRow
      /\ editing \in [Editors -> RequestRow] /\ workflow \in {"OPEN", "REVIEWED", "SEALED"}
  BY <1>3 DEF TranscriptsInv, TranscriptsTyping
<1> DEFINE k == seen[1]
           read == seen[2]
           row == [old EXCEPT !.token = {k}, !.readAs = {read}]
<1>5. k \in Tokens /\ read \in Readings /\ read = Plain(k)
  <2>1. seen \in Tokens \X Readings
    BY <1>4 DEF RequestRow
  <2>2. read = Plain(k)
    BY DEF TranscriptsInv, ShownAsRead
  <2>3. QED
    BY <2>1, <2>2
<1>6. transcripts' = [transcripts EXCEPT ![t] = row]
  BY <1>2, <1>3, <1>4
<1> HIDE DEF old, t, k, read
<1>7. row \in TranscriptRow
  BY <1>4, <1>5 DEF TranscriptRow
<1>8. row.recording = old.recording /\ row.token = {k} /\ row.readAs = {read}
  BY <1>4 DEF TranscriptRow
<1> HIDE DEF row
<1>9. /\ transcripts' \in Seq(TranscriptRow) /\ DOMAIN transcripts' = DOMAIN transcripts
      /\ transcripts'[t] = row /\ \A u \in DOMAIN transcripts : u # t => transcripts'[u] = transcripts[u]
  BY <1>3, <1>4, <1>6, <1>7
<1>10. workflow' \in {"OPEN", "REVIEWED", "SEALED"}
  BY <1>1, <1>4 DEF EvidenceMayChange
<1>11. /\ editing'[e] = Idle /\ \A d \in Editors : d # e => editing'[d] = editing[d]
  BY <1>1, <1>4
<1>12. TranscriptsTyping'
  BY <1>1, <1>4, <1>9, <1>10, IdleRow DEF TranscriptsInv, TranscriptsTyping
<1>13. ShownAsRead'
  <2>1. \A d \in Editors : \A x \in editing'[d].shown : x[2] = Plain(x[1])
    BY <1>11, IdleRow DEF TranscriptsInv, ShownAsRead
  <2>2. \A u \in DOMAIN transcripts' : transcripts'[u].token # {} =>
            \E q \in Tokens : transcripts'[u].token = {q} /\ transcripts'[u].readAs = {Plain(q)}
    BY <1>5, <1>8, <1>9 DEF TranscriptsInv, ShownAsRead
  <2>3. QED
    BY <2>1, <2>2 DEF ShownAsRead
<1>14. RecordingsOf(transcripts') = RecordingsOf(transcripts)
  BY <1>8, <1>9 DEF RecordingsOf, old
<1>15. WellAttributed' /\ Distinct(observed')
  BY <1>1, <1>14 DEF TranscriptsInv, WellAttributed
<1>16. Targets'
  BY <1>1, <1>9, <1>11, IdleRow DEF TranscriptsInv, Targets
<1>17. QED
  BY <1>12, <1>13, <1>15, <1>16 DEF TranscriptsInv

\* A speaker is somebody else; a person has another name; the session moves on.
LEMMA SurroundingsKeep ==
    ASSUME TranscriptsInv, SpeakerSteps \/ SessionSteps
    PROVE  TranscriptsInv'
<1>0. /\ workflow \in {"OPEN", "REVIEWED", "SEALED"} /\ names \in [People -> Nat]
      /\ Distinct(observed) /\ observed \in [DOMAIN observed -> ObservedRow]
  BY DEF TranscriptsInv, TranscriptsTyping, Distinct
<1>1. ASSUME NEW l \in Taken(observed), NEW p \in People, UpdateSpeaker(l, p) PROVE TranscriptsInv'
  <2> DEFINE old == observed[l]
             row == [old EXCEPT !.person = p]
  <2>1. /\ l \in DOMAIN observed /\ observed' = [observed EXCEPT ![l] = row] /\ old \in ObservedRow
        /\ UNCHANGED <<transcripts, segments, names, editing>> /\ EvidenceMayChange(workflow)
    BY <1>0, <1>1 DEF UpdateSpeaker, Taken
  <2> HIDE DEF old
  <2>2. row \in ObservedRow /\ row.recording = old.recording /\ row.source = old.source
    BY <2>1 DEF ObservedRow
  <2> HIDE DEF row
  <2>3. /\ DOMAIN observed' = DOMAIN observed /\ observed' \in [DOMAIN observed' -> ObservedRow]
        /\ \A m \in DOMAIN observed : /\ observed'[m].recording = observed[m].recording
                                      /\ observed'[m].source = observed[m].source
    BY <1>0, <2>1, <2>2 DEF old
  <2>4. Distinct(observed')
    BY <1>0, <2>3 DEF Distinct
  <2>5. TranscriptsTyping'
    BY <1>0, <2>1 DEF TranscriptsInv, TranscriptsTyping, EvidenceMayChange
  <2>6. ShownAsRead' /\ Targets'
    BY <2>1 DEF TranscriptsInv, ShownAsRead, Targets
  <2>7. \A s \in DOMAIN segments : HeardInIts(segments[s], observed', RecordingsOf(transcripts))
    BY <2>3 DEF TranscriptsInv, WellAttributed, HeardInIts
  <2>8. WellAttributed'
    BY <2>1, <2>7 DEF WellAttributed
  <2>9. QED
    BY <2>4, <2>5, <2>6, <2>8 DEF TranscriptsInv
<1>2. ASSUME NEW p \in People, RenamePerson(p) PROVE TranscriptsInv'
  <2>1. names' \in [People -> Nat]
    BY <1>0, <1>2 DEF RenamePerson
  <2>2. QED
    BY <1>2, <2>1 DEF RenamePerson, TranscriptsInv, TranscriptsTyping, ShownAsRead, Targets, WellAttributed
<1>3. ASSUME NEW to \in {"OPEN", "REVIEWED", "SEALED"}, MoveSession(to) PROVE TranscriptsInv'
  BY <1>3 DEF MoveSession, TranscriptsInv, TranscriptsTyping, ShownAsRead, Targets, WellAttributed
<1>4. QED
  BY <1>1, <1>2, <1>3 DEF SpeakerSteps, SessionSteps

LEMMA TranscriptsStep == TranscriptsInv /\ [TranscriptsNext]_transcriptVars => TranscriptsInv'
<1> SUFFICES ASSUME TranscriptsInv, [TranscriptsNext]_transcriptVars PROVE TranscriptsInv'
  OBVIOUS
<1>1. CASE UNCHANGED transcriptVars
  BY <1>1 DEF transcriptVars, TranscriptsInv, TranscriptsTyping, ShownAsRead, Targets, WellAttributed
<1>2. CASE ResultSteps
  BY <1>2, ReceiveKeeps DEF ResultSteps
<1>3. ASSUME NEW e \in Editors, EditorSteps(e) PROVE TranscriptsInv'
  <2>1. ASSUME NEW target, NEW kind \in {"text", "parts", "review"}, Compose(e, kind, target) PROVE TranscriptsInv'
    BY <2>1, ComposeKeeps
  <2>2. ASSUME Load(e) PROVE TranscriptsInv'
    BY <2>2, LoadKeeps
  <2>3. ASSUME Refuse(e) PROVE TranscriptsInv'
    <3>1. /\ editing' = [editing EXCEPT ![e] = Idle] /\ UNCHANGED <<workflow, observed, transcripts, segments, names>>
      BY <2>3 DEF Refuse, Finish
    <3>2. workflow \in {"OPEN", "REVIEWED", "SEALED"}
      BY DEF TranscriptsInv, TranscriptsTyping
    <3>3. QED
      BY <3>1, <3>2, IdleRow, RequestKeeps
  <2>4. ASSUME ReviewTranscript(e) PROVE TranscriptsInv'
    BY <2>4, TranscriptReviewKeeps
  <2>5. ASSUME NEW text \in {0, Corrections + 1}, EditSegment(e, text) PROVE TranscriptsInv'
    <3>1. text \in Nat
      BY CorrectionsCount
    <3>2. QED
      BY <2>5, <3>1, EditKeeps
  <2>6. ASSUME NEW parts, ReviewAttribution(e, parts) PROVE TranscriptsInv'
    BY <2>6, AttributionKeeps
  <2>7. QED
    BY <1>3, <2>1, <2>2, <2>3, <2>4, <2>5, <2>6 DEF EditorSteps
<1>4. CASE SpeakerSteps \/ SessionSteps
  BY <1>4, SurroundingsKeep
<1>5. QED
  BY <1>1, <1>2, <1>3, <1>4 DEF TranscriptsNext

\* app/api/transcripts.py, submit_result of app/api/processing.py: for any number of recordings,
\* results, editors and corrections, a transcript counts as reviewed only while it reads as it read
\* to its reviewer, and what it attributes to a label was heard in its own recording.
THEOREM TranscriptsStand == TranscriptsSpec => []TranscriptsHold
<1>1. TranscriptsInv => TranscriptsHold
  <2> SUFFICES ASSUME TranscriptsInv PROVE TranscriptsHold
    OBVIOUS
  <2>1. ReviewedAsRead
    BY TokenSays DEF ReviewedAsRead, IsReviewed, TranscriptsInv, ShownAsRead
  <2>2. ASSUME NEW s \in DOMAIN segments, NEW l \in segments[s].parts \cup {segments[s].label}
        PROVE  observed[l].recording = transcripts[segments[s].transcript].recording
    BY DEF TranscriptsInv, WellAttributed, HeardInIts, RecordingsOf
  <2>3. SpeakersApart
    BY <2>2 DEF SpeakersApart, TranscriptsInv, Distinct, Taken
  <2>4. QED
    BY <2>1, <2>3 DEF TranscriptsHold
<1>2. QED
  BY TranscriptsInitInv, TranscriptsStep, <1>1, PTL DEF TranscriptsSpec

-----------------------------------------------------------------------------
(* The bounds of a session's transcripts *)

\* Labels, corrections and names stay below their bounds; a segment is locked by one correction.
TranscriptsBounds ==
    /\ DOMAIN observed \subseteq Labels
    /\ \A s \in DOMAIN segments : segments[s].revision <= MaxCorrections /\ segments[s].text <= MaxCorrections
    /\ \A p \in People : names[p] <= MaxRenames
    /\ \A e \in Editors : editing[e].kind = "none" => editing[e].step = "idle"
    /\ \A a, b \in Editors :
          (/\ editing[a].step = "loaded" /\ editing[b].step = "loaded"
           /\ editing[a].kind \in {"text", "parts"} /\ editing[b].kind \in {"text", "parts"}
           /\ editing[a].target = editing[b].target) => a = b

\* While a correction may be made, no segment has been corrected as often as there may be corrections.
LEMMA RevisionBelow ==
    ASSUME TranscriptsInv, NEW s \in DOMAIN segments, Corrections < MaxCorrections
    PROVE  segments[s].revision < MaxCorrections
<1> DEFINE P == (1..Len(segments)) \X (1..MaxCorrections)
           C == {x \in P : x[2] <= segments[x[1]].revision}
           S == {s} \X (1..MaxCorrections)
<1>1. /\ Len(segments) \in Nat /\ MaxCorrections \in Nat /\ s \in 1..Len(segments)
      /\ segments[s].revision \in Nat
  <2>1. segments[s] \in SegmentRow
    BY DEF TranscriptsInv, TranscriptsTyping
  <2>2. QED
    BY <2>1, TranscriptsAssumption DEF TranscriptsInv, TranscriptsTyping, SegmentRow
<1> SUFFICES ASSUME MaxCorrections <= segments[s].revision PROVE FALSE
  BY <1>1
<1>2. IsFiniteSet(1..Len(segments)) /\ IsFiniteSet(1..MaxCorrections) /\ Cardinality(1..MaxCorrections) = MaxCorrections
  BY <1>1, FS_Interval
<1>3. IsFiniteSet(C)
  <2>1. IsFiniteSet(P)
    BY <1>2, FS_Product
  <2>2. QED
    BY <2>1, FS_Subset
<1>4. S \subseteq C
  BY <1>1
<1>5. IsFiniteSet({s}) /\ Cardinality({s}) = 1
  BY FS_Singleton
<1>6. Cardinality(S) = MaxCorrections
  <2>1. Cardinality(S) = 1 * MaxCorrections
    BY <1>2, <1>5, FS_Product
  <2>2. QED
    BY <1>1, <2>1
<1>7. Cardinality(S) <= Cardinality(C) /\ Cardinality(C) \in Nat
  BY <1>3, <1>4, FS_Subset, FS_CardinalityType
<1>8. Cardinality(C) = Corrections
  BY DEF Corrections
<1> HIDE DEF S, C
<1>9. QED
  BY <1>1, <1>6, <1>7, <1>8

LEMMA TranscriptsBoundsStep ==
    ASSUME TranscriptsInv, TranscriptsBounds, [TranscriptsNext]_transcriptVars
    PROVE  TranscriptsBounds'
<1>1. /\ segments \in Seq(SegmentRow) /\ names \in [People -> Nat] /\ editing \in [Editors -> RequestRow]
      /\ DOMAIN segments = 1..Len(segments) /\ MaxCorrections \in Nat /\ MaxRenames \in Nat
      /\ Idle.kind = "none" /\ Idle.step = "idle"
  BY TranscriptsAssumption DEF TranscriptsInv, TranscriptsTyping, Idle
\* A request that ends, or begins, locks nothing.
<1>2. ASSUME NEW e \in Editors, NEW row \in RequestRow, editing' = [editing EXCEPT ![e] = row], row.step # "loaded",
             row.kind = "none" => row.step = "idle", DOMAIN observed' = DOMAIN observed, names' = names,
             \A s \in DOMAIN segments' : segments'[s].revision <= MaxCorrections /\ segments'[s].text <= MaxCorrections
      PROVE  TranscriptsBounds'
  <2>1. editing'[e] = row /\ \A d \in Editors : d # e => editing'[d] = editing[d]
    BY <1>1, <1>2
  <2>2. QED
    BY <1>2, <2>1 DEF TranscriptsBounds
<1>3. ASSUME UNCHANGED editing, DOMAIN observed' = DOMAIN observed, UNCHANGED segments,
             \A p \in People : names'[p] <= MaxRenames
      PROVE  TranscriptsBounds'
  BY <1>3 DEF TranscriptsBounds
<1>4. CASE UNCHANGED transcriptVars
  BY <1>4 DEF transcriptVars, TranscriptsBounds
<1>5. ASSUME NEW r \in Recordings, NEW locals \in SUBSET Diarized, ReceiveTranscript(r, locals)
      PROVE  TranscriptsBounds'
  <2> DEFINE k == Cardinality(locals)
             order == [n \in 1..k |-> CHOOSE x \in locals : Cardinality({y \in locals : y < x}) = n - 1]
             new == [n \in DOMAIN order |->
               [transcript |-> Len(transcripts) + 1,
                label |-> CHOOSE l \in Observation(observed', r, order[n]) : TRUE,
                revision |-> 0, text |-> 0, parts |-> {}]]
  <2>1. /\ observed' = ObserveAll(r, locals) /\ segments' = segments \o new
        /\ names' = names /\ editing' = editing
    BY <1>5 DEF ReceiveTranscript
  <2>2. DOMAIN observed' \subseteq Labels
    BY <2>1, AllObserved DEF Observing, TranscriptsInv, TranscriptsBounds
  <2>3. k \in Nat
    BY TranscriptsAssumption, FS_Subset, FS_CardinalityType
  <2>4. DOMAIN new = 1..k /\ \A n \in 1..k : new[n].revision = 0 /\ new[n].text = 0
    OBVIOUS
  <2>5. new = [n \in 1..k |-> new[n]]
    OBVIOUS
  <2> HIDE DEF new, k
  <2>6. new \in Seq({new[n] : n \in 1..k}) /\ Len(new) = k
    BY <2>3, <2>4, <2>5
  <2>7. \A s \in DOMAIN segments' : segments'[s].revision <= MaxCorrections /\ segments'[s].text <= MaxCorrections
    <3>1. ASSUME NEW s \in DOMAIN (segments \o new)
          PROVE  \/ s \in DOMAIN segments /\ (segments \o new)[s] = segments[s]
                 \/ \E n \in 1..k : (segments \o new)[s] = new[n]
      <4>1. /\ Len(segments) \in Nat /\ DOMAIN (segments \o new) = 1..(Len(segments) + k)
            /\ (segments \o new)[s] = IF s <= Len(segments) THEN segments[s] ELSE new[s - Len(segments)]
        <5>1. segments \in Seq(SegmentRow) /\ new \in Seq({new[n] : n \in 1..k}) /\ Len(new) = k
          BY <1>1, <2>6
        <5>2. DOMAIN (segments \o new) = 1..(Len(segments) + Len(new)) /\ Len(segments) \in Nat
          BY <5>1
        <5>3. s \in 1..(Len(segments) + Len(new))
          BY <5>2
        <5>4. (segments \o new)[s] = IF s <= Len(segments) THEN segments[s] ELSE new[s - Len(segments)]
          BY <5>1, <5>3
        <5>5. QED
          BY <5>1, <5>2, <5>4
      <4>2. CASE s <= Len(segments)
        BY <1>1, <4>1, <4>2
      <4>3. CASE s > Len(segments)
        <5>1. s - Len(segments) \in 1..k /\ (segments \o new)[s] = new[s - Len(segments)]
          BY <2>3, <4>1, <4>3
        <5>2. QED
          BY <5>1
      <4>4. QED
        BY <4>1, <4>2, <4>3
    <3>2. QED
      BY <1>1, <2>1, <2>4, <3>1 DEF TranscriptsBounds
  <2>8. QED
    BY <2>1, <2>2, <2>7 DEF TranscriptsBounds
<1>6. ASSUME NEW e \in Editors, NEW kind \in {"text", "parts", "review"}, NEW target, Compose(e, kind, target)
      PROVE  TranscriptsBounds'
  <2>1. /\ editing'[e].kind = kind /\ editing'[e].step = "sent"
        /\ \A d \in Editors : d # e => editing'[d] = editing[d]
        /\ UNCHANGED <<observed, segments, names>>
    BY <1>1, <1>6 DEF Compose, Idle
  <2>2. QED
    BY <2>1 DEF TranscriptsBounds
<1>7. ASSUME NEW e \in Editors, Load(e) PROVE TranscriptsBounds'
  <2>1. /\ editing[e].step = "sent" /\ UNCHANGED <<observed, segments, names>>
        /\ editing[e].kind # "review" => ~LockedSegment(editing[e].target)
        /\ editing'[e].kind = editing[e].kind /\ editing'[e].target = editing[e].target
        /\ \A d \in Editors : d # e => editing'[d] = editing[d]
    BY <1>1, <1>7 DEF Load, RequestRow
  <2>2. editing[e].kind # "none"
    BY <2>1 DEF TranscriptsBounds
  <2>3. QED
    BY <2>1, <2>2 DEF TranscriptsBounds, LockedSegment
<1>8. ASSUME NEW e \in Editors, Refuse(e) \/ ReviewTranscript(e) PROVE TranscriptsBounds'
  <2>1. editing' = [editing EXCEPT ![e] = Idle] /\ UNCHANGED <<observed, segments, names>>
    BY <1>8 DEF Refuse, ReviewTranscript, Finish
  <2>2. \A s \in DOMAIN segments' : segments'[s].revision <= MaxCorrections /\ segments'[s].text <= MaxCorrections
    BY <2>1 DEF TranscriptsBounds
  <2>3. QED
    BY <1>1, <1>2, <2>1, <2>2, IdleRow
\* The segment that is corrected has been corrected less often than there may be corrections.
<1>9. ASSUME NEW s \in DOMAIN segments, NEW text \in 0..MaxCorrections, NEW row,
             row.revision = segments[s].revision + 1, row.text = text,
             segments' = [segments EXCEPT ![s] = row], Corrections < MaxCorrections
      PROVE  \A x \in DOMAIN segments' : segments'[x].revision <= MaxCorrections /\ segments'[x].text <= MaxCorrections
  <2>1. segments[s].revision < MaxCorrections /\ segments[s].revision \in Nat
    <3>1. segments[s] \in SegmentRow
      BY <1>1
    <3>2. QED
      BY <1>9, <3>1, RevisionBelow DEF SegmentRow
  <2>2. DOMAIN segments' = DOMAIN segments /\ segments'[s] = row /\ \A x \in DOMAIN segments : x # s => segments'[x] = segments[x]
    BY <1>1, <1>9
  <2>3. row.revision <= MaxCorrections /\ row.text <= MaxCorrections
    BY <1>1, <1>9, <2>1
  <2>4. QED
    BY <2>2, <2>3 DEF TranscriptsBounds
<1>10. ASSUME NEW e \in Editors, Corrections < MaxCorrections, NEW text \in {0, Corrections + 1}, EditSegment(e, text)
       PROVE  TranscriptsBounds'
  <2> DEFINE s == editing[e].target
             row == [segments[s] EXCEPT !.revision = @ + 1, !.text = text]
  <2>1. /\ editing[e].kind = "text" /\ editing' = [editing EXCEPT ![e] = Idle] /\ UNCHANGED <<observed, names>>
        /\ segments' = [segments EXCEPT ![s].revision = @ + 1, ![s].text = text]
    BY <1>10 DEF EditSegment, Loaded, Finish
  <2>2. s \in DOMAIN segments /\ segments[s] \in SegmentRow
    BY <1>1, <2>1 DEF TranscriptsInv, Targets
  <2>3. text \in 0..MaxCorrections
    BY <1>1, <1>10, CorrectionsCount
  <2> HIDE DEF s
  <2>4. segments' = [segments EXCEPT ![s] = row] /\ row.revision = segments[s].revision + 1 /\ row.text = text
    BY <1>1, <2>1, <2>2 DEF SegmentRow
  <2> HIDE DEF row
  <2>5. \A x \in DOMAIN segments' : segments'[x].revision <= MaxCorrections /\ segments'[x].text <= MaxCorrections
    BY <1>9, <1>10, <2>2, <2>3, <2>4
  <2>6. QED
    BY <1>1, <1>2, <2>1, <2>5, IdleRow
<1>11. ASSUME NEW e \in Editors, Corrections < MaxCorrections, NEW parts, ReviewAttribution(e, parts)
       PROVE  TranscriptsBounds'
  <2> DEFINE s == editing[e].target
             text == Corrections + 1
             row == [segments[s] EXCEPT !.revision = @ + 1, !.text = text, !.parts = parts]
  <2>1. /\ editing[e].kind = "parts" /\ editing' = [editing EXCEPT ![e] = Idle] /\ UNCHANGED <<observed, names>>
        /\ segments' = [segments EXCEPT ![s].revision = @ + 1, ![s].text = text, ![s].parts = parts]
    BY <1>11 DEF ReviewAttribution, Loaded, Finish
  <2>2. s \in DOMAIN segments /\ segments[s] \in SegmentRow
    BY <1>1, <2>1 DEF TranscriptsInv, Targets
  <2>3. text \in 0..MaxCorrections
    BY <1>1, <1>11, CorrectionsCount
  <2> HIDE DEF s, text
  <2>4. segments' = [segments EXCEPT ![s] = row] /\ row.revision = segments[s].revision + 1 /\ row.text = text
    BY <1>1, <2>1, <2>2 DEF SegmentRow
  <2> HIDE DEF row
  <2>5. \A x \in DOMAIN segments' : segments'[x].revision <= MaxCorrections /\ segments'[x].text <= MaxCorrections
    BY <1>9, <1>11, <2>2, <2>3, <2>4
  <2>6. QED
    BY <1>1, <1>2, <2>1, <2>5, IdleRow
<1>12. ASSUME NEW e \in Editors, EditorSteps(e) PROVE TranscriptsBounds'
  BY <1>6, <1>7, <1>8, <1>10, <1>11, <1>12 DEF EditorSteps
<1>13. CASE SpeakerSteps \/ SessionSteps
  <2>1. ASSUME NEW l, NEW p, UpdateSpeaker(l, p) PROVE TranscriptsBounds'
    BY <1>3, <2>1 DEF UpdateSpeaker, TranscriptsBounds
  <2>2. ASSUME NEW p \in People, RenamePerson(p) PROVE TranscriptsBounds'
    <3>1. \A q \in People : names'[q] <= MaxRenames
      BY <1>1, <2>2 DEF RenamePerson, TranscriptsBounds
    <3>2. QED
      BY <1>3, <2>2, <3>1 DEF RenamePerson
  <2>3. ASSUME NEW to, MoveSession(to) PROVE TranscriptsBounds'
    BY <1>3, <2>3 DEF MoveSession, TranscriptsBounds
  <2>4. QED
    BY <1>13, <2>1, <2>2, <2>3 DEF SpeakerSteps, SessionSteps
<1>14. CASE ResultSteps
  BY <1>5, <1>14 DEF ResultSteps
<1>15. QED
  BY <1>4, <1>12, <1>13, <1>14 DEF TranscriptsNext

\* The types of the transcripts, and: a segment is locked by one correction at a time.
LEMMA TranscriptsTyped == TranscriptsSpec => []TranscriptsTypeOK
<1>1. TranscriptsInit => TranscriptsInv /\ TranscriptsBounds
  <2>1. TranscriptsInit => TranscriptsBounds
    BY TranscriptsAssumption DEF TranscriptsInit, TranscriptsBounds, Idle
  <2>2. QED
    BY <2>1, TranscriptsInitInv
<1>2. TranscriptsInv /\ TranscriptsBounds /\ [TranscriptsNext]_transcriptVars => TranscriptsInv' /\ TranscriptsBounds'
  BY TranscriptsStep, TranscriptsBoundsStep
<1>3. TranscriptsInv /\ TranscriptsBounds => TranscriptsTypeOK
  <2> SUFFICES ASSUME TranscriptsInv, TranscriptsBounds PROVE TranscriptsTypeOK
    OBVIOUS
  <2>1. workflow \in {"OPEN", "REVIEWED", "SEALED"} /\ Taken(observed) \subseteq Labels
    BY DEF TranscriptsInv, TranscriptsTyping, TranscriptsBounds, Taken
  <2>2. \A l \in Taken(observed) : observed[l] \in [recording: Recordings, source: Diarized, person: People \cup {Nobody}]
    BY DEF TranscriptsInv, Distinct, ObservedRow, Taken
  <2>3. ASSUME NEW t \in DOMAIN transcripts
        PROVE  transcripts[t].recording \in Recordings /\ Cardinality(transcripts[t].token) <= 1
    <3>1. transcripts[t] \in TranscriptRow
      BY DEF TranscriptsInv, TranscriptsTyping
    <3>2. transcripts[t].token = {} \/ \E k \in Tokens : transcripts[t].token = {k}
      BY DEF TranscriptsInv, ShownAsRead
    <3>3. Cardinality(transcripts[t].token) <= 1
      <4>1. Cardinality({}) = 0 /\ \A x : Cardinality({x}) = 1
        BY FS_EmptySet, FS_Singleton
      <4>2. CASE transcripts[t].token = {}
        BY <4>1, <4>2
      <4>3. ASSUME NEW k, transcripts[t].token = {k} PROVE Cardinality(transcripts[t].token) <= 1
        <5>1. Cardinality(transcripts[t].token) = 1
          BY <4>1, <4>3
        <5>2. QED
          BY <5>1
      <4>4. QED
        BY <3>2, <4>2, <4>3
    <3>4. QED
      BY <3>1, <3>3 DEF TranscriptRow
  <2>4. ASSUME NEW s \in DOMAIN segments
        PROVE  segments[s] \in [transcript: DOMAIN transcripts, label: Labels, revision: 0..MaxCorrections,
                                text: 0..MaxCorrections, parts: SUBSET Labels]
    <3>1. segments[s] \in SegmentRow
      BY DEF TranscriptsInv, TranscriptsTyping
    <3>2. HeardInIts(segments[s], observed, RecordingsOf(transcripts))
      BY DEF TranscriptsInv, WellAttributed
    <3>3. segments[s].transcript \in DOMAIN transcripts /\ segments[s].label \in Labels /\ segments[s].parts \subseteq Labels
      BY <3>2 DEF HeardInIts, RecordingsOf, TranscriptsBounds
    <3>4. segments[s].revision \in 0..MaxCorrections /\ segments[s].text \in 0..MaxCorrections
      BY <3>1, TranscriptsAssumption DEF SegmentRow, TranscriptsBounds
    <3>5. QED
      BY <3>1, <3>3, <3>4 DEF SegmentRow
  <2>5. names \in [People -> 0..MaxRenames]
    BY TranscriptsAssumption DEF TranscriptsInv, TranscriptsTyping, TranscriptsBounds
  <2>6. \A e \in Editors : editing[e].step = "loaded" /\ editing[e].kind # "review" => editing[e].kind \in {"text", "parts"}
    BY DEF TranscriptsInv, TranscriptsTyping, TranscriptsBounds, RequestRow
  <2>7. \A a, b \in Editors :
           (editing[a].step = "loaded" /\ editing[b].step = "loaded" /\ editing[a].kind # "review"
             /\ editing[b].kind # "review" /\ editing[a].target = editing[b].target) => a = b
    BY <2>6 DEF TranscriptsBounds
  <2>8. QED
    BY <2>1, <2>2, <2>3, <2>4, <2>5, <2>7 DEF TranscriptsTypeOK
<1>4. QED
  BY <1>1, <1>2, <1>3, PTL DEF TranscriptsSpec

-----------------------------------------------------------------------------
(* Voices and the names they are given *)

PrintRow == [status: {"none", "active", "inactive", "deleted"}, person: VoicePeople \cup {Unknown},
             source: Speakers \cup {Unknown}, version: 0..MaxVersion, flagged: BOOLEAN]

VoiceRow == [status: {"NONE", "SUGGESTED"} \cup Decided, person: VoicePeople \cup {Unknown},
             suggested: Prints \cup {Unknown}, voice: BOOLEAN]

FactRows == Prints \X {"none", "active", "inactive", "deleted"} \X (VoicePeople \cup {Unknown}) \X BOOLEAN

WorkRow == [kind: {"none", "scan", "accept", "reject", "deactivate", "delete", "attest"},
            step: {"idle", "begun", "matched", "locked"},
            on: Prints \cup Speakers \cup VoicePeople \cup {Unknown},
            rows: SUBSET (Speakers \cup (Prints \X Nat)), locked: SUBSET (Prints \cup Speakers),
            found: [Speakers -> Prints \cup {Unknown}], writes: SUBSET Speakers, flushed: SUBSET Speakers,
            seen: SUBSET FactRows]

Attestation == [person: Prints \cup Speakers \cup VoicePeople \cup {Unknown},
                versions: SUBSET (Speakers \cup (Prints \X Nat)), seen: SUBSET FactRows, reopened: BOOLEAN]

VoicesTyping ==
    /\ prints \in [Prints -> PrintRow] /\ speakers \in [Speakers -> VoiceRow]
    /\ session \in Workers \cup {Unknown} /\ work \in [Workers -> WorkRow]
    /\ attested \in Seq(Attestation)

\* What a request is about.
Aimed(r) ==
    /\ r.kind \in {"accept", "reject"} => r.on \in Speakers
    /\ r.kind \in {"deactivate", "delete"} => r.on \in Prints
    /\ r.kind = "accept" /\ r.step = "locked" => r.found[r.on] # Unknown

LocksApart == \A v, w \in Workers : v # w => work[v].locked \cap work[w].locked = {}

\* What a scan will write is locked, and nobody has decided about it.
OpenRow(row) == row.person = Unknown /\ row.status \notin Decided

WritesOpen == \A w \in Workers : \A s \in work[w].writes : s \in work[w].locked /\ OpenRow(speakers[s])

ScansWrite == \A w \in Workers : work[w].kind # "scan" => work[w].writes = {}

\* What was seen is true as long as the versions are those that were seen.
Vouches(now, versions, seen) ==
    /\ \A x \in versions : /\ x[1] \in Prints /\ x[2] \in Nat
                           /\ now[x[1]].status # "none" /\ x[2] <= now[x[1]].version
    /\ (\A x \in versions : now[x[1]].version = x[2]) =>
          seen = {<<x[1], now[x[1]].status, now[x[1]].person, now[x[1]].flagged>> : x \in versions}

Vouched ==
    /\ \A w \in Workers : work[w].kind = "attest" => Vouches(prints, work[w].rows, work[w].seen)
    /\ \A n \in DOMAIN attested : Vouches(prints, attested[n].versions, attested[n].seen)

VoicesInv == VoicesTyping /\ (\A w \in Workers : Aimed(work[w])) /\ LocksApart /\ WritesOpen
             /\ ScansWrite /\ Vouched

\* Whatever is said of a print, its version moves with it.
Moves(now, later) ==
    \A p \in Prints :
        /\ now[p].status # "none" => later[p].status # "none" /\ now[p].version <= later[p].version
        /\ now[p].status # "none" /\ later[p].version = now[p].version => later[p] = now[p]

LEMMA VouchesLater ==
    ASSUME NEW now \in [Prints -> PrintRow], NEW later \in [Prints -> PrintRow], Moves(now, later),
           NEW versions, NEW seen, Vouches(now, versions, seen)
    PROVE  Vouches(later, versions, seen)
<1>1. \A p \in Prints : now[p].version \in Nat /\ later[p].version \in Nat
  BY VoicesAssumption DEF PrintRow
<1>2. \A x \in versions : /\ x[1] \in Prints /\ x[2] \in Nat
                          /\ later[x[1]].status # "none" /\ x[2] <= later[x[1]].version
                          /\ now[x[1]].status # "none" /\ now[x[1]].version <= later[x[1]].version
                          /\ x[2] <= now[x[1]].version
  BY <1>1 DEF Vouches, Moves
<1>3. ASSUME \A x \in versions : later[x[1]].version = x[2]
      PROVE  seen = {<<x[1], later[x[1]].status, later[x[1]].person, later[x[1]].flagged>> : x \in versions}
  <2>1. \A x \in versions : now[x[1]].version = x[2] /\ later[x[1]] = now[x[1]]
    BY <1>1, <1>2, <1>3 DEF Moves
  <2>2. seen = {<<x[1], now[x[1]].status, now[x[1]].person, now[x[1]].flagged>> : x \in versions}
    BY <2>1 DEF Vouches
  <2>3. QED
    BY <2>1, <2>2
<1>4. QED
  BY <1>2, <1>3 DEF Vouches

LEMMA NothingUnderWay ==
    /\ NoWork \in WorkRow /\ NoWork.kind = "none" /\ NoWork.locked = {} /\ NoWork.writes = {} /\ NoWork.on = Unknown
    /\ NoWork.rows = {} /\ NoWork.seen = {} /\ Aimed(NoWork)
BY DEF NoWork, WorkRow, Aimed

\* A request goes on; nothing is written yet.
LEMMA WorkKeeps ==
    ASSUME VoicesInv, NEW w \in Workers, NEW r \in WorkRow, work' = [work EXCEPT ![w] = r],
           session' \in Workers \cup {Unknown}, UNCHANGED <<prints, speakers, attested>>, Aimed(r),
           \A v \in Workers : v # w => r.locked \cap work[v].locked = {},
           \A s \in r.writes : s \in r.locked /\ OpenRow(speakers[s]),
           r.kind # "scan" => r.writes = {}, r.kind = "attest" => Vouches(prints, r.rows, r.seen)
    PROVE  VoicesInv'
<1>1. work \in [Workers -> WorkRow]
  BY DEF VoicesInv, VoicesTyping
<1>2. work'[w] = r /\ \A v \in Workers : v # w => work'[v] = work[v]
  BY <1>1
<1>3. VoicesTyping'
  <2>1. work' \in [Workers -> WorkRow]
    BY <1>1
  <2>2. QED
    BY <2>1 DEF VoicesInv, VoicesTyping
<1>4. \A v \in Workers : Aimed(work'[v])
  BY <1>2 DEF VoicesInv
<1>5. LocksApart'
  BY <1>2 DEF VoicesInv, LocksApart
<1>6. WritesOpen'
  BY <1>2 DEF VoicesInv, WritesOpen
<1>7. Vouched' /\ ScansWrite'
  BY <1>2 DEF VoicesInv, Vouched, ScansWrite
<1>8. QED
  BY <1>3, <1>4, <1>5, <1>6, <1>7 DEF VoicesInv

\* Rows are written, and the request that wrote them, if there is one, has ended.
LEMMA WritesKeep ==
    ASSUME VoicesInv, prints' \in [Prints -> PrintRow], speakers' \in [Speakers -> VoiceRow],
           Moves(prints, prints'), session' \in Workers \cup {Unknown}, attested' = attested,
           work' \in [Workers -> WorkRow], \A v \in Workers : work'[v] \in {work[v], NoWork},
           \A v \in Workers : \A s \in work'[v].writes : OpenRow(speakers'[s])
    PROVE  VoicesInv'
<1>1. VoicesTyping'
  BY DEF VoicesInv, VoicesTyping
<1>2. \A v \in Workers : Aimed(work'[v])
  BY NothingUnderWay DEF VoicesInv
<1>3. \A v \in Workers : work'[v].locked \subseteq work[v].locked
  BY NothingUnderWay
<1>4. LocksApart'
  BY <1>3 DEF VoicesInv, LocksApart
<1>5. WritesOpen' /\ ScansWrite'
  BY NothingUnderWay DEF VoicesInv, WritesOpen, ScansWrite
<1>6. Vouched'
  <2>1. prints \in [Prints -> PrintRow]
    BY DEF VoicesInv, VoicesTyping
  <2>2. ASSUME NEW v \in Workers, work'[v].kind = "attest"
        PROVE  Vouches(prints', work'[v].rows, work'[v].seen)
    <3>1. work'[v] = work[v]
      BY <2>2, NothingUnderWay
    <3>2. Vouches(prints, work[v].rows, work[v].seen)
      BY <2>2, <3>1 DEF VoicesInv, Vouched
    <3>3. Vouches(prints', work[v].rows, work[v].seen)
      BY <2>1, <3>2, VouchesLater
    <3>4. QED
      BY <3>1, <3>3
  <2>3. ASSUME NEW n \in DOMAIN attested
        PROVE  Vouches(prints', attested'[n].versions, attested'[n].seen)
    <3>1. Vouches(prints, attested[n].versions, attested[n].seen)
      BY DEF VoicesInv, Vouched
    <3>2. Vouches(prints', attested[n].versions, attested[n].seen)
      BY <2>1, <3>1, VouchesLater
    <3>3. QED
      BY <3>2
  <2>4. QED
    BY <2>2, <2>3 DEF Vouched
<1>7. QED
  BY <1>1, <1>2, <1>4, <1>5, <1>6 DEF VoicesInv


LEMMA NewScan ==
    \A rows \in SUBSET Speakers :
        LET r == [NoWork EXCEPT !.kind = "scan", !.step = "begun", !.rows = rows]
        IN  r \in WorkRow /\ Aimed(r) /\ r.kind = "scan" /\ r.locked = {} /\ r.writes = {}
BY DEF NoWork, WorkRow, Aimed

LEMMA Matched ==
    \A r \in WorkRow : \A f \in [Speakers -> Prints \cup {Unknown}] :
        LET q == [r EXCEPT !.step = "matched", !.found = f]
        IN  /\ q \in WorkRow /\ q.kind = r.kind /\ q.locked = r.locked /\ q.writes = r.writes /\ q.on = r.on
            /\ q.rows = r.rows /\ q.seen = r.seen
BY ZenonT(60) DEF WorkRow

LEMMA SupportLocked ==
    \A r \in WorkRow : \A b \in SUBSET (Prints \cup Speakers) :
        LET q == [r EXCEPT !.step = "locked", !.locked = b]
        IN  /\ q \in WorkRow /\ q.kind = r.kind /\ q.locked = b /\ q.writes = r.writes /\ q.on = r.on
            /\ q.found = r.found
BY ZenonT(60) DEF WorkRow

LEMMA VoicesInitInv == VoicesInit => VoicesInv
<1> SUFFICES ASSUME VoicesInit PROVE VoicesInv
  OBVIOUS
<1>1. PICK a \in Prints : \E person \in VoicePeople :
          prints = [p \in Prints |->
            [status |-> IF p = a THEN "active" ELSE "none", person |-> IF p = a THEN person ELSE Unknown,
             source |-> Unknown, version |-> 0, flagged |-> FALSE]]
  BY DEF VoicesInit
<1>2. /\ speakers = [s \in Speakers |->
            [status |-> "NONE", person |-> Unknown, suggested |-> Unknown, voice |-> FALSE]]
      /\ session = Unknown /\ work = [w \in Workers |-> NoWork] /\ attested = <<>>
  BY DEF VoicesInit
<1>3. prints \in [Prints -> PrintRow]
  BY <1>1, VoicesAssumption DEF PrintRow
<1>4. speakers \in [Speakers -> VoiceRow]
  BY <1>2 DEF VoiceRow
<1>5. \A w \in Workers : work[w] = NoWork
  BY <1>2
<1>6. work \in [Workers -> WorkRow]
  BY <1>2, NothingUnderWay
<1>7. VoicesTyping
  <2>1. session \in Workers \cup {Unknown} /\ attested \in Seq(Attestation)
    BY <1>2
  <2>2. QED
    BY <1>3, <1>4, <1>6, <2>1 DEF VoicesTyping
<1>8. LocksApart /\ WritesOpen /\ ScansWrite /\ Vouched /\ \A w \in Workers : Aimed(work[w])
  BY <1>2, <1>5, NothingUnderWay DEF LocksApart, WritesOpen, ScansWrite, Vouched
<1>9. QED
  BY <1>7, <1>8 DEF VoicesInv

\* What every step may use.
LEMMA VoiceFacts ==
    ASSUME VoicesInv
    PROVE  /\ prints \in [Prints -> PrintRow] /\ speakers \in [Speakers -> VoiceRow]
           /\ session \in Workers \cup {Unknown} /\ work \in [Workers -> WorkRow]
           /\ attested \in Seq(Attestation)
           /\ \A w \in Workers : /\ work[w] \in WorkRow /\ Aimed(work[w]) /\ work[w].rows \subseteq Speakers \cup (Prints \X Nat)
                                 /\ work[w].locked \subseteq Prints \cup Speakers /\ work[w].writes \subseteq Speakers
                                 /\ work[w].found \in [Speakers -> Prints \cup {Unknown}]
                                 /\ work[w].flushed \subseteq Speakers
           /\ \A p \in Prints : /\ prints[p] \in PrintRow /\ prints[p].version \in 0..MaxVersion
                                /\ prints[p].version \in Nat /\ prints[p].person \in VoicePeople \cup {Unknown}
           /\ \A s \in Speakers : /\ speakers[s] \in VoiceRow /\ speakers[s].suggested \in Prints \cup {Unknown}
                                  /\ speakers[s].person \in VoicePeople \cup {Unknown}
<1>1. VoicesTyping /\ \A w \in Workers : Aimed(work[w])
  BY DEF VoicesInv
<1>2. \A w \in Workers : /\ work[w] \in WorkRow /\ Aimed(work[w]) /\ work[w].rows \subseteq Speakers \cup (Prints \X Nat)
                         /\ work[w].locked \subseteq Prints \cup Speakers /\ work[w].writes \subseteq Speakers
                         /\ work[w].found \in [Speakers -> Prints \cup {Unknown}]
                         /\ work[w].flushed \subseteq Speakers
  BY <1>1 DEF VoicesTyping, WorkRow
<1>3. \A p \in Prints : /\ prints[p] \in PrintRow /\ prints[p].version \in 0..MaxVersion
                        /\ prints[p].version \in Nat /\ prints[p].person \in VoicePeople \cup {Unknown}
  BY <1>1, VoicesAssumption DEF VoicesTyping, PrintRow
<1>4. \A s \in Speakers : /\ speakers[s] \in VoiceRow /\ speakers[s].suggested \in Prints \cup {Unknown}
                          /\ speakers[s].person \in VoicePeople \cup {Unknown}
  BY <1>1 DEF VoicesTyping, VoiceRow
<1>5. QED
  BY <1>1, <1>2, <1>3, <1>4 DEF VoicesTyping

\* Requests that begin.
LEMMA BeginningsKeep ==
    ASSUME VoicesInv, NEW w \in Workers,
           \/ ScanAll(w) \/ ScanSession(w) \/ \E s \in Speakers : \E kind \in {"accept", "reject"} : BeginDecision(w, s, kind)
           \/ \E v \in VoicePeople : ShowPrints(w, v)
    PROVE  VoicesInv'
<1>1. ASSUME NEW rows \in SUBSET Speakers, session' \in Workers \cup {Unknown},
             work' = [work EXCEPT ![w] = [NoWork EXCEPT !.kind = "scan", !.step = "begun", !.rows = rows]],
             UNCHANGED <<prints, speakers, attested>>
      PROVE  VoicesInv'
  <2> DEFINE r == [NoWork EXCEPT !.kind = "scan", !.step = "begun", !.rows = rows]
  <2>1. r \in WorkRow /\ Aimed(r) /\ r.kind = "scan" /\ r.locked = {} /\ r.writes = {}
    BY NewScan
  <2>2. work' = [work EXCEPT ![w] = r]
    BY <1>1
  <2> HIDE DEF r
  <2>3. QED
    BY <1>1, <2>1, <2>2, WorkKeeps
<1>2. CASE ScanAll(w)
  <2> DEFINE rows == {s \in Speakers : Undecided(s) /\ speakers[s].voice /\ speakers[s].status = "NONE"}
  <2>1. /\ work' = [work EXCEPT ![w] = [NoWork EXCEPT !.kind = "scan", !.step = "begun", !.rows = rows]]
        /\ UNCHANGED <<prints, speakers, session, attested>> /\ rows \in SUBSET Speakers
    BY <1>2 DEF ScanAll
  <2>2. QED
    BY <1>1, <2>1, VoiceFacts
<1>3. CASE ScanSession(w)
  <2> DEFINE rows == {s \in Speakers : Undecided(s) /\ speakers[s].voice}
  <2>1. /\ work' = [work EXCEPT ![w] = [NoWork EXCEPT !.kind = "scan", !.step = "begun", !.rows = rows]]
        /\ UNCHANGED <<prints, speakers, attested>> /\ rows \in SUBSET Speakers /\ session' = w
    BY <1>3 DEF ScanSession
  <2>2. QED
    BY <1>1, <2>1
<1>4. ASSUME NEW s \in Speakers, NEW kind \in {"accept", "reject"}, BeginDecision(w, s, kind) PROVE VoicesInv'
  <2> DEFINE r == [NoWork EXCEPT !.kind = kind, !.step = "begun", !.on = s, !.found[s] = speakers[s].suggested]
  <2>1. speakers[s].suggested \in Prints \cup {Unknown}
    BY VoiceFacts
  <2>2. r \in WorkRow /\ Aimed(r) /\ r.kind = kind /\ r.locked = {} /\ r.writes = {}
    <3>1. r \in WorkRow
      BY <2>1, NothingUnderWay DEF WorkRow
    <3>2. r.kind = kind /\ r.on = s /\ r.step = "begun" /\ r.locked = {} /\ r.writes = {}
      BY NothingUnderWay DEF WorkRow
    <3> HIDE DEF r
    <3>3. r \in WorkRow /\ r.kind = kind /\ r.on = s /\ r.step = "begun" /\ r.locked = {} /\ r.writes = {}
      BY <3>1, <3>2
    <3>4. QED
      BY <3>3 DEF Aimed
  <2>3. work' = [work EXCEPT ![w] = r] /\ session' = w /\ UNCHANGED <<prints, speakers, attested>>
    BY <1>4 DEF BeginDecision
  <2> HIDE DEF r
  <2>4. QED
    BY <2>2, <2>3, WorkKeeps
<1>5. ASSUME NEW v \in VoicePeople, ShowPrints(w, v) PROVE VoicesInv'
  <2> DEFINE shown == {p \in Prints : prints[p].status = "active" /\ prints[p].person = v}
  <2>1. PICK chosen \in (SUBSET shown) \ {{}} :
              work' = [work EXCEPT ![w] = [NoWork EXCEPT !.kind = "attest", !.step = "begun", !.on = v,
                         !.rows = {Versioned(p) : p \in chosen}, !.seen = {Facts(p) : p \in chosen}]]
    BY <1>5 DEF ShowPrints
  <2> DEFINE rows == {Versioned(p) : p \in chosen}
             seen == {Facts(p) : p \in chosen}
             r == [NoWork EXCEPT !.kind = "attest", !.step = "begun", !.on = v, !.rows = rows, !.seen = seen]
  <2>2. \A p \in chosen : p \in Prints /\ prints[p].status = "active" /\ prints[p] \in PrintRow /\ prints[p].version \in Nat
    BY VoiceFacts
  <2>3. rows \in SUBSET (Prints \X Nat)
    BY <2>2 DEF Versioned
  <2>4. seen \in SUBSET FactRows
    BY <2>2 DEF Facts, FactRows, PrintRow
  <2>5. Vouches(prints, rows, seen)
    <3>1. \A x \in rows : /\ x[1] \in Prints /\ x[2] \in Nat
                          /\ prints[x[1]].status # "none" /\ x[2] <= prints[x[1]].version
      BY <2>2 DEF Versioned
    <3>2. seen = {<<x[1], prints[x[1]].status, prints[x[1]].person, prints[x[1]].flagged>> : x \in rows}
      <4>1. \A p \in chosen : /\ Versioned(p)[1] = p
                              /\ Facts(p) = <<p, prints[p].status, prints[p].person, prints[p].flagged>>
        BY DEF Facts, Versioned
      <4> HIDE DEF shown
      <4>2. QED
        BY <4>1
    <3>3. QED
      BY <3>1, <3>2 DEF Vouches
  <2>6. work' = [work EXCEPT ![w] = r] /\ UNCHANGED <<prints, speakers, session, attested>>
    BY <2>1, <1>5 DEF ShowPrints
  <2>7. session' \in Workers \cup {Unknown}
    BY <2>6, VoiceFacts
  <2> HIDE DEF rows, seen
  <2>8. /\ r \in WorkRow /\ Aimed(r) /\ r.locked = {} /\ r.writes = {} /\ r.rows = rows /\ r.seen = seen
    <3>1. rows \in SUBSET (Speakers \cup (Prints \X Nat))
      BY <2>3
    <3>2. r \in WorkRow
      BY <2>4, <3>1, NothingUnderWay DEF WorkRow
    <3>4. r.kind = "attest" /\ r.locked = {} /\ r.writes = {} /\ r.rows = rows /\ r.seen = seen
      BY NothingUnderWay DEF WorkRow
    <3> HIDE DEF r
    <3>3. r \in WorkRow /\ r.kind = "attest" /\ r.locked = {} /\ r.writes = {} /\ r.rows = rows /\ r.seen = seen
      BY <3>2, <3>4
    <3>5. QED
      BY <3>3 DEF Aimed
  <2> HIDE DEF r
  <2>9. QED
    BY <2>5, <2>6, <2>7, <2>8, WorkKeeps
<1>6. QED
  BY <1>2, <1>3, <1>4, <1>5


\* A scan that goes on.
LEMMA ScansKeep ==
    ASSUME VoicesInv, NEW w \in Workers,
           \/ BatchMatch(w) \/ \E s \in Speakers : ApplyMatchOutcome(w, s)
    PROVE  VoicesInv'
<1>1. CASE BatchMatch(w)
  <2>1. PICK found \in [work[w].rows -> Candidates \cup {Unknown}] :
          work' = [work EXCEPT ![w].step = "matched",
                     ![w].found = [s \in Speakers |-> IF s \in work[w].rows THEN found[s] ELSE Unknown]]
    BY <1>1 DEF BatchMatch
  <2> DEFINE f == [s \in Speakers |-> IF s \in work[w].rows THEN found[s] ELSE Unknown]
             q == [work[w] EXCEPT !.step = "matched", !.found = f]
  <2>2. f \in [Speakers -> Prints \cup {Unknown}]
    BY DEF Candidates
  <2>3. work' = [work EXCEPT ![w] = q] /\ work[w].kind = "scan" /\ UNCHANGED <<prints, speakers, session, attested>>
    BY <1>1, <2>1 DEF BatchMatch
  <2>4. work[w] \in WorkRow /\ session \in Workers \cup {Unknown}
    BY VoiceFacts
  <2> HIDE DEF f
  <2>5. /\ q \in WorkRow /\ q.kind = work[w].kind /\ q.locked = work[w].locked /\ q.writes = work[w].writes
    BY <2>2, <2>4, Matched
  <2> HIDE DEF q
  <2>6. Aimed(q) /\ q.kind # "attest"
    BY <2>3, <2>5 DEF Aimed
  <2>7. /\ \A v \in Workers : v # w => q.locked \cap work[v].locked = {}
        /\ \A s \in q.writes : s \in q.locked /\ OpenRow(speakers[s])
    BY <2>5 DEF VoicesInv, LocksApart, WritesOpen
  <2>8. QED
    BY <2>3, <2>4, <2>5, <2>6, <2>7, WorkKeeps
<1>2. ASSUME NEW s \in Speakers, ApplyMatchOutcome(w, s) PROVE VoicesInv'
  <2> DEFINE a == work[w].rows \ {s}
             b == work[w].locked \cup {s}
             c == work[w].writes
             d == IF Undecided(s) THEN work[w].writes \cup {s} ELSE work[w].writes
             q == [work[w] EXCEPT !.rows = a, !.locked = b, !.flushed = c, !.writes = d]
  <2>1. /\ work' = [work EXCEPT ![w] = q] /\ work[w].kind = "scan" /\ RowsFree(w, {s})
        /\ UNCHANGED <<prints, speakers, session, attested>>
    BY ZenonT(60), <1>2 DEF ApplyMatchOutcome
  <2>2. /\ work[w] \in WorkRow /\ session \in Workers \cup {Unknown}
        /\ a \in SUBSET (Speakers \cup (Prints \X Nat)) /\ b \in SUBSET (Prints \cup Speakers)
        /\ c \in SUBSET Speakers /\ d \in SUBSET Speakers
    BY VoiceFacts
  <2>3. \A t \in d : t \in b /\ OpenRow(speakers[t])
    BY DEF VoicesInv, WritesOpen, Undecided, OpenRow
  <2>4. \A v \in Workers : v # w => b \cap work[v].locked = {}
    BY <2>1 DEF VoicesInv, LocksApart, RowsFree, LockedByOther
  <2> HIDE DEF a, b, c, d
  <2>5. q \in WorkRow /\ q.kind = work[w].kind /\ q.locked = b /\ q.writes = d
    <3>1. q.kind = work[w].kind /\ q.locked = b /\ q.writes = d
      BY <2>2 DEF WorkRow
    <3>2. q \in WorkRow
      BY <2>2 DEF WorkRow
    <3>3. QED
      BY <3>1, <3>2
  <2> HIDE DEF q
  <2>6. Aimed(q) /\ q.kind # "attest"
    BY <2>1, <2>5 DEF Aimed
  <2>7. QED
    BY <2>1, <2>2, <2>3, <2>4, <2>5, <2>6, WorkKeeps
<1>3. QED
  BY <1>1, <1>2

\* A print is locked.
LEMMA LockingKeeps ==
    ASSUME VoicesInv, NEW w \in Workers,
           \/ LockSupport(w) \/ \E p \in Prints : \E kind \in {"deactivate", "delete"} : LockPrint(w, p, kind)
    PROVE  VoicesInv'
<1>0. work[w] \in WorkRow /\ session \in Workers \cup {Unknown} /\ Aimed(work[w])
  BY VoiceFacts
<1>1. CASE LockSupport(w)
  <2> DEFINE p == work[w].found[work[w].on]
             b == {p}
             q == [work[w] EXCEPT !.step = "locked", !.locked = b]
  <2>1. /\ work' = [work EXCEPT ![w] = q] /\ work[w].kind = "accept" /\ p # Unknown /\ ~LockedByOther(w, p)
        /\ UNCHANGED <<prints, speakers, session, attested>>
    BY <1>1 DEF LockSupport, PrintFree
  <2>2. work[w].on \in Speakers
    BY <1>0, <2>1 DEF Aimed
  <2>3. b \in SUBSET (Prints \cup Speakers)
    BY <2>1, <2>2, VoiceFacts
  <2>4. \A v \in Workers : v # w => b \cap work[v].locked = {}
    BY <2>1 DEF LockedByOther
  <2> HIDE DEF p, b
  <2>5. q \in WorkRow /\ q.kind = work[w].kind /\ q.locked = b /\ q.writes = work[w].writes /\ q.on = work[w].on /\ q.found = work[w].found
    BY <1>0, <2>3, SupportLocked
  <2> HIDE DEF q
  <2>6. q.writes = {}
    BY <2>5, <2>1 DEF VoicesInv, ScansWrite
  <2>7. Aimed(q) /\ q.kind # "attest"
    BY <2>1, <2>2, <2>5 DEF Aimed, p
  <2>8. QED
    BY <1>0, <2>1, <2>4, <2>5, <2>6, <2>7, WorkKeeps
<1>2. ASSUME NEW p \in Prints, NEW kind \in {"deactivate", "delete"}, LockPrint(w, p, kind) PROVE VoicesInv'
  <2> DEFINE b == {p}
             q == [NoWork EXCEPT !.kind = kind, !.step = "locked", !.on = p, !.locked = b]
  <2>1. /\ work' = [work EXCEPT ![w] = q] /\ ~LockedByOther(w, p)
        /\ UNCHANGED <<prints, speakers, session, attested>>
    BY <1>2 DEF LockPrint, PrintFree
  <2>2. b \in SUBSET (Prints \cup Speakers) /\ \A v \in Workers : v # w => b \cap work[v].locked = {}
    BY <2>1 DEF LockedByOther
  <2> HIDE DEF b
  <2>3. q \in WorkRow
    BY <2>2, NothingUnderWay DEF WorkRow
  <2>4. q.kind = kind /\ q.on = p /\ q.locked = b /\ q.writes = {}
    BY NothingUnderWay DEF WorkRow
  <2> HIDE DEF q
  <2>5. QED
    BY <1>0, <2>1, <2>2, <2>3, <2>4, WorkKeeps DEF Aimed
<1>3. QED
  BY <1>1, <1>2

\* A request has ended.
LEMMA EndedKeeps ==
    ASSUME VoicesInv, NEW w, work' = [work EXCEPT ![w] = NoWork],
           session' = (IF session = w THEN Unknown ELSE session)
    PROVE  /\ session' \in Workers \cup {Unknown} /\ work' \in [Workers -> WorkRow]
           /\ w \in Workers => work'[w] = NoWork
           /\ \A v \in Workers : v # w => work'[v] = work[v]
           /\ \A v \in Workers : /\ work'[v] \in {work[v], NoWork}
                                 /\ work'[v].writes \subseteq work[v].writes
<1>1. session \in Workers \cup {Unknown} /\ work \in [Workers -> WorkRow]
  BY VoiceFacts
<1>2. /\ w \in Workers => work'[w] = NoWork
      /\ \A v \in Workers : v # w => work'[v] = work[v]
  BY <1>1
<1>3. \A v \in Workers : work'[v] \in {work[v], NoWork} /\ work'[v].writes \subseteq work[v].writes
  BY <1>2, NothingUnderWay
<1>4. work' \in [Workers -> WorkRow]
  BY <1>1, NothingUnderWay
<1>5. QED
  BY <1>1, <1>2, <1>3, <1>4

LEMMA PrintsStand ==
    ASSUME VoicesInv, prints' = prints
    PROVE  prints' \in [Prints -> PrintRow] /\ Moves(prints, prints')
BY VoiceFacts DEF Moves


\* Speakers' rows are written; what was open for a request that goes on is open still.
LEMMA EndsWithWrites ==
    ASSUME VoicesInv, NEW w, work' = [work EXCEPT ![w] = NoWork],
           session' = (IF session = w THEN Unknown ELSE session), attested' = attested,
           prints' \in [Prints -> PrintRow], Moves(prints, prints'), speakers' \in [Speakers -> VoiceRow],
           \A s \in Speakers : OpenRow(speakers[s]) /\ (\E v \in Workers : v # w /\ s \in work[v].writes)
                => OpenRow(speakers'[s])
    PROVE  VoicesInv'
<1>1. /\ session' \in Workers \cup {Unknown} /\ work' \in [Workers -> WorkRow]
      /\ w \in Workers => work'[w] = NoWork
      /\ \A v \in Workers : v # w => work'[v] = work[v]
      /\ \A v \in Workers : work'[v] \in {work[v], NoWork}
  BY EndedKeeps
<1>3. ASSUME NEW v \in Workers, NEW s \in work'[v].writes PROVE OpenRow(speakers'[s])
  <2>1. v # w
    BY <1>1, <1>3, NothingUnderWay
  <2>2. s \in work[v].writes
    BY <1>1, <1>3, <2>1
  <2>3. s \in Speakers /\ OpenRow(speakers[s])
    BY <2>2, VoiceFacts DEF VoicesInv, WritesOpen
  <2>4. QED
    BY <2>1, <2>2, <2>3
<1>4. QED
  BY <1>1, <1>3, WritesKeep

LEMMA CommitScanKeeps ==
    ASSUME VoicesInv, NEW w \in Workers, CommitScan(w)
    PROVE  VoicesInv'
<1>1. /\ speakers' = [s \in Speakers |->
            IF s \notin work[w].writes THEN speakers[s]
            ELSE [speakers[s] EXCEPT !.suggested = work[w].found[s],
                    !.status = IF work[w].found[s] = Unknown THEN "NONE" ELSE "SUGGESTED"]]
      /\ work' = [work EXCEPT ![w] = NoWork] /\ session' = (IF session = w THEN Unknown ELSE session)
      /\ UNCHANGED <<prints, attested>>
  BY DEF CommitScan, End
<1>3. ASSUME NEW s \in Speakers
      PROVE  speakers'[s] \in VoiceRow /\ (OpenRow(speakers[s]) => OpenRow(speakers'[s]))
  <2>1. CASE s \notin work[w].writes
    BY <1>1, <2>1, VoiceFacts
  <2>2. CASE s \in work[w].writes
    <3> DEFINE st == IF work[w].found[s] = Unknown THEN "NONE" ELSE "SUGGESTED"
    <3>1. speakers'[s] = [speakers[s] EXCEPT !.suggested = work[w].found[s], !.status = st]
      BY <1>1, <2>2
    <3>2. st \in {"NONE", "SUGGESTED"} /\ speakers[s] \in VoiceRow /\ work[w].found[s] \in Prints \cup {Unknown}
      BY VoiceFacts
    <3> HIDE DEF st
    <3>3. speakers'[s] \in VoiceRow /\ speakers'[s].person = speakers[s].person /\ speakers'[s].status = st
      BY <3>1, <3>2 DEF VoiceRow
    <3>4. QED
      BY <3>2, <3>3 DEF OpenRow, Decided
  <2>3. QED
    BY <2>1, <2>2
<1>4. speakers' \in [Speakers -> VoiceRow]
  BY <1>1, <1>3
<1>5. QED
  BY <1>1, <1>3, <1>4, PrintsStand, EndsWithWrites

\* Somebody decides about one speaker, whom nobody else has locked.
LEMMA DecisionKeeps ==
    ASSUME VoicesInv, NEW w, NEW s \in Speakers, NEW r \in VoiceRow,
           speakers' = [speakers EXCEPT ![s] = r], \A v \in Workers : v # w => s \notin work[v].locked,
           work' = [work EXCEPT ![w] = NoWork],
           session' = (IF session = w THEN Unknown ELSE session), UNCHANGED <<prints, attested>>
    PROVE  VoicesInv'
<1>1. speakers \in [Speakers -> VoiceRow]
  BY VoiceFacts
<1>2. speakers' \in [Speakers -> VoiceRow] /\ \A t \in Speakers : t # s => speakers'[t] = speakers[t]
  BY <1>1
<1>3. \A v \in Workers : v # w => s \notin work[v].writes
  BY DEF VoicesInv, WritesOpen
<1>4. QED
  BY ZenonT(60), <1>2, <1>3, PrintsStand, EndsWithWrites

LEMMA DecisionsKeep ==
    ASSUME VoicesInv, NEW w \in Workers, Reject(w) \/ Accept(w)
    PROVE  VoicesInv'
<1> DEFINE s == work[w].on
<1>1. /\ work[w].kind \in {"accept", "reject"} /\ RowsFree(w, {s})
      /\ work' = [work EXCEPT ![w] = NoWork] /\ session' = (IF session = w THEN Unknown ELSE session)
      /\ UNCHANGED <<prints, attested>>
  BY DEF Reject, Accept, End
<1>2. s \in Speakers
  BY <1>1, VoiceFacts DEF Aimed
<1>3. \A v \in Workers : v # w => s \notin work[v].locked
  BY <1>1 DEF RowsFree, LockedByOther
<1>4. speakers[s] \in VoiceRow
  BY <1>2, VoiceFacts
<1>5. CASE Reject(w)
  <2> DEFINE r == [speakers[s] EXCEPT !.status = "REJECTED"]
  <2>1. speakers' = [speakers EXCEPT ![s] = r]
    BY <1>5 DEF Reject
  <2>2. r \in VoiceRow
    BY <1>4 DEF VoiceRow, Decided
  <2> HIDE DEF r, s
  <2>3. QED
    BY <1>1, <1>2, <1>3, <2>1, <2>2, DecisionKeeps
<1>6. CASE Accept(w)
  <2> DEFINE p == work[w].found[s]
             r == [speakers[s] EXCEPT !.status = "CONFIRMED", !.person = prints[p].person]
  <2>1. speakers' = [speakers EXCEPT ![s] = r] /\ prints[p].person # Unknown /\ speakers[s].suggested = p
        /\ prints[p].status = "active" /\ work[w].step = "locked"
    BY <1>6 DEF Accept
  <2>2. p \in Prints
    <3>1. work[w].kind = "accept" /\ work[w].step = "locked"
      BY <1>6 DEF Accept
    <3>2. QED
      BY <1>2, <3>1, VoiceFacts DEF Aimed
  <2>3. prints[p].person \in VoicePeople \cup {Unknown}
    BY <2>1, <2>2, VoiceFacts
  <2>4. r \in VoiceRow
    BY <1>4, <2>3 DEF VoiceRow, Decided
  <2> HIDE DEF r, s
  <2>5. QED
    BY <1>1, <1>2, <1>3, <2>1, <2>4, DecisionKeeps
<1>7. QED
  BY <1>5, <1>6


\* Requests of one transaction.
LEMMA NoRequestKeeps ==
    ASSUME VoicesInv, UNCHANGED <<work, session>>
    PROVE  /\ work' = [work EXCEPT ![Unknown] = NoWork]
           /\ session' = (IF session = Unknown THEN Unknown ELSE session)
           /\ \A v \in Workers : v # Unknown
<1>1. Unknown \notin Workers
  BY VoicesAssumption
<1>2. QED
  BY <1>1, VoiceFacts

LEMMA SpeakerStepsKeep ==
    ASSUME VoicesInv, NEW s \in Speakers, StoreVoice(s) \/ \E v \in VoicePeople : UpdateSpeakerPerson(s, v)
    PROVE  VoicesInv'
<1>1. ~LockedByOther(Unknown, s) /\ UNCHANGED <<prints, session, work, attested>>
  BY DEF StoreVoice, UpdateSpeakerPerson
<1>2. \A v \in Workers : s \notin work[v].locked
  BY <1>1, NoRequestKeeps DEF LockedByOther
<1>3. speakers[s] \in VoiceRow
  BY VoiceFacts
<1>4. PICK r \in VoiceRow : speakers' = [speakers EXCEPT ![s] = r]
  <2>1. CASE StoreVoice(s)
    <3>1. [speakers[s] EXCEPT !.voice = TRUE] \in VoiceRow
      BY <1>3 DEF VoiceRow
    <3>2. QED
      BY <2>1, <3>1 DEF StoreVoice
  <2>2. ASSUME NEW v \in VoicePeople, UpdateSpeakerPerson(s, v)
        PROVE  \E r \in VoiceRow : speakers' = [speakers EXCEPT ![s] = r]
    <3>1. [speakers[s] EXCEPT !.person = v, !.status = "CONFIRMED", !.suggested = Unknown] \in VoiceRow
      BY <1>3 DEF VoiceRow, Decided
    <3>2. speakers' = [speakers EXCEPT ![s] = [speakers[s] EXCEPT !.person = v, !.status = "CONFIRMED", !.suggested = Unknown]]
      BY <2>2, VoiceFacts DEF UpdateSpeakerPerson
    <3>3. QED
      BY <3>1, <3>2
  <2>3. QED
    BY <2>1, <2>2
<1>5. QED
  BY <1>1, <1>2, <1>4, NoRequestKeeps, DecisionKeeps

\* A print is changed, and its version with it, or it is new.
LEMMA PrintKeeps ==
    ASSUME VoicesInv, NEW p \in Prints, NEW r \in PrintRow, prints' = [prints EXCEPT ![p] = r],
           prints[p].status = "none" \/ (r.status # "none" /\ r.version > prints[p].version),
           UNCHANGED <<speakers, session, work, attested>>
    PROVE  VoicesInv'
<1>1. prints \in [Prints -> PrintRow] /\ speakers \in [Speakers -> VoiceRow] /\ prints[p].version \in Nat /\ r.version \in Nat
  BY VoiceFacts, VoicesAssumption DEF PrintRow
<1>2. prints' \in [Prints -> PrintRow] /\ prints'[p] = r /\ \A q \in Prints : q # p => prints'[q] = prints[q]
  BY <1>1
<1>3. \A q \in Prints : prints[q].version \in Nat
  BY VoiceFacts
<1>4. Moves(prints, prints')
  BY <1>1, <1>2, <1>3 DEF Moves
<1>5. QED
  BY <1>1, <1>2, <1>4, NoRequestKeeps, EndsWithWrites

LEMMA PrintStepsKeep ==
    ASSUME VoicesInv, NEW p \in Prints,
           \/ \E s \in Speakers : EnrollFromSpeaker(s, p)
           \/ Reactivate(p) \/ \E flag \in BOOLEAN : ReviewPrint(p, flag)
    PROVE  VoicesInv'
<1>1. /\ prints[p] \in PrintRow /\ prints[p].version \in 0..MaxVersion /\ MaxVersion \in Nat
      /\ prints \in [Prints -> PrintRow]
  BY VoiceFacts, VoicesAssumption
<1>2. ASSUME NEW s \in Speakers, EnrollFromSpeaker(s, p) PROVE VoicesInv'
  <2> DEFINE r == [status |-> "active", person |-> speakers[s].person, source |-> s,
                   version |-> 0, flagged |-> FALSE]
  <2>1. prints' = [prints EXCEPT ![p] = r] /\ prints[p].status = "none" /\ UNCHANGED <<speakers, session, work, attested>>
    BY <1>2 DEF EnrollFromSpeaker
  <2>2. r \in PrintRow
    BY <1>1, VoiceFacts DEF PrintRow
  <2> HIDE DEF r
  <2>3. QED
    BY <2>1, <2>2, PrintKeeps
<1>3. CASE Reactivate(p)
  <2> DEFINE r == [prints[p] EXCEPT !.status = "active", !.version = prints[p].version + 1]
  <2>1. /\ prints' = [prints EXCEPT ![p] = r] /\ UNCHANGED <<speakers, session, work, attested>>
        /\ prints[p].version < MaxVersion
    BY <1>1, <1>3 DEF Reactivate, Versions
  <2>2. prints[p].version + 1 \in 0..MaxVersion /\ prints[p].version + 1 > prints[p].version
    BY <1>1, <2>1
  <2>3. r \in PrintRow /\ r.status # "none" /\ r.version = prints[p].version + 1
    BY <1>1, <2>2 DEF PrintRow
  <2> HIDE DEF r
  <2>4. QED
    BY <2>1, <2>2, <2>3, PrintKeeps
<1>4. ASSUME NEW flag \in BOOLEAN, ReviewPrint(p, flag) PROVE VoicesInv'
  <2> DEFINE r == [prints[p] EXCEPT !.flagged = flag, !.version = prints[p].version + 1]
  <2>1. /\ prints' = [prints EXCEPT ![p] = r] /\ UNCHANGED <<speakers, session, work, attested>>
        /\ prints[p].version < MaxVersion /\ prints[p].status # "none"
    BY <1>1, <1>4 DEF ReviewPrint, Versions
  <2>2. prints[p].version + 1 \in 0..MaxVersion /\ prints[p].version + 1 > prints[p].version
    BY <1>1, <2>1
  <2>3. r \in PrintRow /\ r.status # "none" /\ r.version = prints[p].version + 1
    BY <1>1, <2>1, <2>2 DEF PrintRow
  <2> HIDE DEF r
  <2>4. QED
    BY <2>1, <2>2, <2>3, PrintKeeps
<1>5. QED
  BY <1>2, <1>3, <1>4


LEMMA NextVersion ==
    ASSUME NEW n \in 0..MaxVersion, n < MaxVersion
    PROVE  n + 1 \in 0..MaxVersion /\ n + 1 > n
BY VoicesAssumption

LEMMA RetireKeeps ==
    ASSUME VoicesInv, NEW w \in Workers, RetirePrint(w)
    PROVE  VoicesInv'
<1> DEFINE p == work[w].on
           gone == work[w].kind = "delete"
           touched == IF gone THEN {s \in Speakers : speakers[s].suggested = p} ELSE PendingOn(p)
           st == IF gone THEN "deleted" ELSE "inactive"
           r == [prints[p] EXCEPT !.status = st, !.version = prints[p].version + 1]
<1>1. /\ work[w].kind \in {"deactivate", "delete"} /\ RowsFree(w, touched) /\ prints[p].version < MaxVersion
      /\ prints' = [prints EXCEPT ![p].status = st, ![p].version = @ + 1]
      /\ speakers' = [s \in Speakers |->
              IF s \notin touched THEN speakers[s]
              ELSE [speakers[s] EXCEPT !.suggested = Unknown,
                      !.status = IF s \in PendingOn(p) THEN "NONE" ELSE @]]
      /\ work' = [work EXCEPT ![w] = NoWork] /\ session' = (IF session = w THEN Unknown ELSE session)
      /\ attested' = attested
  BY DEF RetirePrint, Versions, End
<1>2. /\ p \in Prints /\ prints[p] \in PrintRow /\ prints \in [Prints -> PrintRow] /\ MaxVersion \in Nat
      /\ prints[p].version \in 0..MaxVersion /\ \A q \in Prints : prints[q].version \in Nat
  BY <1>1, VoiceFacts, VoicesAssumption DEF Aimed
<1>3. prints' = [prints EXCEPT ![p] = r]
  BY <1>1, <1>2
<1>4. st \in {"deleted", "inactive"}
  OBVIOUS
<1>5. touched \subseteq Speakers
  BY DEF PendingOn
<1>6. \A s \in touched : \A v \in Workers : v # w => s \notin work[v].writes
  BY <1>1 DEF RowsFree, LockedByOther, VoicesInv, WritesOpen
<1>7. \A s \in Speakers : speakers'[s] \in VoiceRow
  <2>1. ASSUME NEW s \in Speakers PROVE speakers'[s] \in VoiceRow
    <3> DEFINE x == IF s \in PendingOn(p) THEN "NONE" ELSE speakers[s].status
    <3>1. speakers[s] \in VoiceRow /\ x \in {"NONE", "SUGGESTED"} \cup Decided
      BY VoiceFacts DEF VoiceRow
    <3>2. speakers'[s] = IF s \notin touched THEN speakers[s]
                         ELSE [speakers[s] EXCEPT !.suggested = Unknown, !.status = x]
      BY <1>1, <3>1 DEF VoiceRow
    <3> HIDE DEF x, touched
    <3>3. [speakers[s] EXCEPT !.suggested = Unknown, !.status = x] \in VoiceRow
      BY <3>1 DEF VoiceRow
    <3>4. QED
      BY <3>1, <3>2, <3>3
  <2>2. QED
    BY <2>1
<1>8. speakers' \in [Speakers -> VoiceRow] /\ \A s \in Speakers : s \notin touched => speakers'[s] = speakers[s]
  BY <1>1, <1>7
<1> HIDE DEF st, touched, p
<1>9. prints[p].version + 1 \in 0..MaxVersion /\ prints[p].version + 1 > prints[p].version
  <2>1. prints[p].version < MaxVersion /\ prints[p].version \in 0..MaxVersion
    BY <1>1, <1>2
  <2>2. QED
    BY <2>1, NextVersion
<1>10. r \in PrintRow /\ r.status # "none" /\ r.version = prints[p].version + 1
  BY <1>2, <1>4, <1>9 DEF PrintRow
<1> HIDE DEF r
<1>11. prints' \in [Prints -> PrintRow] /\ prints'[p] = r /\ \A q \in Prints : q # p => prints'[q] = prints[q]
  BY <1>2, <1>3, <1>10
<1>12. Moves(prints, prints')
  BY <1>2, <1>9, <1>10, <1>11 DEF Moves
<1>13. QED
  BY <1>1, <1>6, <1>8, <1>11, <1>12, EndsWithWrites

LEMMA RepointKeeps ==
    ASSUME VoicesInv, NEW from \in VoicePeople, NEW to \in VoicePeople, Repoint(from, to)
    PROVE  VoicesInv'
<1> DEFINE moved == {p \in Prints : prints[p].person = from /\ prints[p].status \in {"active", "inactive"}}
           heard == {s \in Speakers : speakers[s].person = from}
<1>1. /\ \A p \in moved : prints[p].version < MaxVersion
      /\ prints' = [p \in Prints |->
              IF p \in moved THEN [prints[p] EXCEPT !.person = to, !.version = prints[p].version + 1] ELSE prints[p]]
      /\ speakers' = [s \in Speakers |->
              IF s \in heard THEN [speakers[s] EXCEPT !.person = to] ELSE speakers[s]]
      /\ UNCHANGED <<session, work, attested>>
  BY DEF Repoint, Versions
<1>2. ASSUME NEW p \in moved
      PROVE  /\ p \in Prints /\ prints[p].status # "none"
             /\ prints'[p] \in PrintRow /\ prints'[p].status # "none" /\ prints'[p].version > prints[p].version
  <2>1. p \in Prints /\ prints[p].status # "none" /\ prints[p].status \in {"active", "inactive"}
    OBVIOUS
  <2>2. prints[p] \in PrintRow /\ prints[p].version \in 0..MaxVersion /\ MaxVersion \in Nat
    BY <2>1, VoiceFacts, VoicesAssumption
  <2>3. prints[p].version + 1 \in 0..MaxVersion /\ prints[p].version + 1 > prints[p].version
    <3>1. prints[p].version < MaxVersion /\ prints[p].version \in 0..MaxVersion
      BY <1>1, <2>2
    <3>2. QED
      BY <3>1, NextVersion
  <2>4. prints'[p] = [prints[p] EXCEPT !.person = to, !.version = prints[p].version + 1]
    BY <1>1, <2>1
  <2> HIDE DEF moved
  <2>5. /\ [prints[p] EXCEPT !.person = to, !.version = prints[p].version + 1] \in PrintRow
        /\ [prints[p] EXCEPT !.person = to, !.version = prints[p].version + 1].status = prints[p].status
        /\ [prints[p] EXCEPT !.person = to, !.version = prints[p].version + 1].version = prints[p].version + 1
    BY <2>2, <2>3 DEF PrintRow
  <2>6. QED
    BY <2>1, <2>3, <2>4, <2>5
<1>3. \A p \in Prints : p \notin moved => prints'[p] = prints[p] /\ prints[p] \in PrintRow
  BY <1>1, VoiceFacts
<1>4. \A s \in Speakers : speakers'[s] \in VoiceRow /\ (s \notin heard => speakers'[s] = speakers[s])
  <2>1. \A s \in Speakers : speakers[s] \in VoiceRow /\ [speakers[s] EXCEPT !.person = to] \in VoiceRow
    BY VoiceFacts DEF VoiceRow
  <2>2. QED
    BY <1>1, <2>1
<1>5. \A s \in Speakers : OpenRow(speakers[s]) => s \notin heard
  BY VoicesAssumption DEF OpenRow
<1> HIDE DEF moved, heard
<1>6. prints' \in [Prints -> PrintRow]
  BY <1>1, <1>2, <1>3
<1>7. Moves(prints, prints')
  <2>1. \A p \in Prints : prints[p].version \in Nat /\ prints'[p].version \in Nat
    BY <1>6, VoiceFacts, VoicesAssumption DEF PrintRow
  <2>2. QED
    BY <1>2, <1>3, <2>1 DEF Moves
<1>8. speakers' \in [Speakers -> VoiceRow]
  BY <1>1, <1>4
<1>9. QED
  BY <1>1, <1>4, <1>5, <1>6, <1>7, <1>8, NoRequestKeeps, EndsWithWrites

\* An attestation is recorded or taken back.
LEMMA AttestedKeeps ==
    ASSUME VoicesInv, attested' \in Seq(Attestation), UNCHANGED <<prints, speakers>>,
           session' \in Workers \cup {Unknown}, work' \in [Workers -> WorkRow],
           \A v \in Workers : work'[v] \in {work[v], NoWork},
           \A n \in DOMAIN attested' : Vouches(prints, attested'[n].versions, attested'[n].seen)
    PROVE  VoicesInv'
<1>1. VoicesTyping'
  BY DEF VoicesInv, VoicesTyping
<1>2. \A v \in Workers : Aimed(work'[v])
  BY NothingUnderWay DEF VoicesInv
<1>3. \A v \in Workers : work'[v].locked \subseteq work[v].locked
  BY NothingUnderWay
<1>4. LocksApart'
  BY <1>3 DEF VoicesInv, LocksApart
<1>5. WritesOpen' /\ ScansWrite'
  BY NothingUnderWay DEF VoicesInv, WritesOpen, ScansWrite
<1>6. \A v \in Workers : work'[v].kind = "attest" => work'[v] = work[v]
  BY NothingUnderWay
<1>7. Vouched'
  BY <1>6 DEF VoicesInv, Vouched
<1>8. QED
  BY <1>1, <1>2, <1>4, <1>5, <1>7 DEF VoicesInv

LEMMA AttestationsKeep ==
    ASSUME VoicesInv, (\E w \in Workers : ConfirmSet(w)) \/ \E n \in DOMAIN attested : ReopenSet(n)
    PROVE  VoicesInv'
<1>0. /\ attested \in Seq(Attestation)
      /\ \A n \in DOMAIN attested : Vouches(prints, attested[n].versions, attested[n].seen)
  BY VoiceFacts DEF VoicesInv, Vouched
<1>1. ASSUME NEW w \in Workers, ConfirmSet(w) PROVE VoicesInv'
  <2> DEFINE new == [person |-> work[w].on, versions |-> work[w].rows, seen |-> work[w].seen, reopened |-> FALSE]
  <2>1. /\ work[w].kind = "attest" /\ attested' = Append(attested, new)
        /\ work' = [work EXCEPT ![w] = NoWork] /\ session' = (IF session = w THEN Unknown ELSE session)
        /\ UNCHANGED <<prints, speakers>>
    BY <1>1 DEF ConfirmSet, End
  <2>2. work[w] \in WorkRow
    BY VoiceFacts
  <2>3. new \in Attestation /\ new.versions = work[w].rows /\ new.seen = work[w].seen
    BY <2>2 DEF WorkRow, Attestation
  <2>4. Vouches(prints, work[w].rows, work[w].seen)
    BY <2>1 DEF VoicesInv, Vouched
  <2> HIDE DEF new
  <2>5. attested' \in Seq(Attestation) /\ DOMAIN attested' = 1..(Len(attested) + 1) /\ Len(attested) \in Nat
    BY <1>0, <2>1, <2>3
  <2>6. ASSUME NEW n \in DOMAIN attested' PROVE Vouches(prints, attested'[n].versions, attested'[n].seen)
    <3>1. CASE n = Len(attested) + 1
      <4>1. attested'[n] = new
        BY <1>0, <2>1, <2>3, <3>1
      <4>2. QED
        BY <2>3, <2>4, <4>1
    <3>2. CASE n # Len(attested) + 1
      <4>1. n \in DOMAIN attested /\ attested'[n] = attested[n]
        BY <1>0, <2>1, <2>3, <2>5, <3>2
      <4>2. QED
        BY <1>0, <4>1
    <3>3. QED
      BY <3>1, <3>2
  <2>7. QED
    BY <2>1, <2>5, <2>6, EndedKeeps, AttestedKeeps
<1>2. ASSUME NEW n \in DOMAIN attested, ReopenSet(n) PROVE VoicesInv'
  <2>1. attested' = [attested EXCEPT ![n] = [attested[n] EXCEPT !.reopened = TRUE]] /\ UNCHANGED <<prints, speakers, session, work>>
    BY <1>2, <1>0 DEF ReopenSet
  <2>2. attested[n] \in Attestation
    BY <1>0
  <2>3. /\ [attested[n] EXCEPT !.reopened = TRUE] \in Attestation
        /\ [attested[n] EXCEPT !.reopened = TRUE].versions = attested[n].versions
        /\ [attested[n] EXCEPT !.reopened = TRUE].seen = attested[n].seen
    BY <2>2 DEF Attestation
  <2>4. attested' \in Seq(Attestation) /\ DOMAIN attested' = DOMAIN attested
    BY <1>0, <2>1, <2>3
  <2>5. \A m \in DOMAIN attested' : /\ attested'[m].versions = attested[m].versions
                                    /\ attested'[m].seen = attested[m].seen
    BY <1>0, <2>1, <2>3, <2>4
  <2>6. \A m \in DOMAIN attested' : Vouches(prints, attested'[m].versions, attested'[m].seen)
    BY <1>0, <2>4, <2>5
  <2>7. work' \in [Workers -> WorkRow] /\ session' \in Workers \cup {Unknown} /\ \A v \in Workers : work'[v] = work[v]
    BY <2>1, VoiceFacts
  <2>8. QED
    BY <2>1, <2>4, <2>6, <2>7, AttestedKeeps
<1>3. QED
  BY <1>1, <1>2

LEMMA VoicesStep == VoicesInv /\ [VoicesNext]_voiceVars => VoicesInv'
<1> SUFFICES ASSUME VoicesInv, [VoicesNext]_voiceVars PROVE VoicesInv'
  OBVIOUS
<1>1. ASSUME NEW w \in Workers, Rollback(w) PROVE VoicesInv'
  <2>1. /\ work' = [work EXCEPT ![w] = NoWork] /\ session' = (IF session = w THEN Unknown ELSE session)
        /\ UNCHANGED <<prints, speakers, attested>> /\ speakers \in [Speakers -> VoiceRow]
    BY <1>1, VoiceFacts DEF Rollback, End
  <2>2. speakers' \in [Speakers -> VoiceRow] /\ \A s \in Speakers : OpenRow(speakers[s]) => OpenRow(speakers'[s])
    BY <2>1
  <2>3. QED
    BY <2>1, <2>2, PrintsStand, EndsWithWrites
<1>2. CASE UNCHANGED voiceVars
  BY <1>2 DEF voiceVars, VoicesInv, VoicesTyping, LocksApart, WritesOpen, ScansWrite, Vouched
<1>3. ASSUME NEW w \in Workers, ScanSteps(w) \/ DecisionSteps(w) \/ PrintSteps(w) \/ AttestationSteps(w)
      PROVE  VoicesInv'
  BY <1>3, BeginningsKeep, ScansKeep, CommitScanKeeps, LockingKeeps, DecisionsKeep, RetireKeeps, AttestationsKeep
     DEF ScanSteps, DecisionSteps, PrintSteps, AttestationSteps
<1>4. QED
  BY <1>1, <1>2, <1>3, SpeakerStepsKeep, PrintStepsKeep, RepointKeeps, AttestationsKeep DEF VoicesNext

LEMMA VoicesInvariance == VoicesSpec => []VoicesInv
BY VoicesInitInv, VoicesStep, PTL DEF VoicesSpec

\* An attestation that counts vouches for what its reviewer saw: a print's version moves with
\* whatever is said of it, so versions that agree are facts that agree.
THEOREM AttestationsTrue == VoicesSpec => []AttestedAsSeen
<1>1. VoicesInv => AttestedAsSeen
  <2> SUFFICES ASSUME VoicesInv, NEW n \in DOMAIN attested, ConfirmationStatus(attested[n]) = "ACTIVE"
               PROVE  attested[n].seen = {Facts(x[1]) : x \in attested[n].versions}
    BY DEF AttestedAsSeen
  <2>1. \A x \in attested[n].versions : prints[x[1]].version = x[2]
    BY DEF ConfirmationStatus
  <2>2. Vouches(prints, attested[n].versions, attested[n].seen)
    BY DEF VoicesInv, Vouched
  <2>3. QED
    BY <2>1, <2>2 DEF Vouches, Facts
<1>2. QED
  BY <1>1, VoicesInvariance, PTL

\* The types of the prints and of the speakers, and: no two requests have locked the same row.
LEMMA VoicesTyped == VoicesSpec => []VoicesTypeOK
<1>1. VoicesInv => VoicesTypeOK
  BY DEF VoicesInv, VoicesTyping, VoicesTypeOK, LocksApart, PrintRow, VoiceRow
<1>2. QED
  BY <1>1, VoicesInvariance, PTL


\* What a step does to a speaker somebody has decided about.
LEMMA DecisionsStandStep ==
    ASSUME VoicesInv, [VoicesNext]_voiceVars, NEW s \in Speakers, speakers[s].status \in Decided
    PROVE  /\ speakers'[s].status \in Decided
           /\ speakers[s].person # Unknown => speakers'[s].person # Unknown
<1> DEFINE Stands == /\ speakers'[s].status \in Decided
                     /\ speakers[s].person # Unknown => speakers'[s].person # Unknown
<1>0. speakers \in [Speakers -> VoiceRow] /\ speakers[s] \in VoiceRow
  BY VoiceFacts
<1>1. ASSUME speakers' = speakers PROVE Stands
  BY <1>1
<1>2. ASSUME NEW w \in Workers, CommitScan(w) PROVE Stands
  <2>1. s \notin work[w].writes
    BY DEF VoicesInv, WritesOpen, OpenRow
  <2>2. speakers'[s] = speakers[s]
    BY <1>2, <2>1 DEF CommitScan
  <2>3. QED
    BY <2>2
<1>3. ASSUME NEW t \in Speakers, StoreVoice(t) PROVE Stands
  BY <1>0, <1>3 DEF StoreVoice, VoiceRow
<1>4. ASSUME NEW t \in Speakers, NEW v \in VoicePeople, UpdateSpeakerPerson(t, v) PROVE Stands
  <2>1. v # Unknown
    BY VoicesAssumption
  <2>2. QED
    BY <1>0, <1>4, <2>1 DEF UpdateSpeakerPerson, VoiceRow, Decided
<1>5. ASSUME NEW w \in Workers, Reject(w) PROVE Stands
  BY <1>0, <1>5 DEF Reject, VoiceRow, Decided
<1>6. ASSUME NEW w \in Workers, Accept(w) PROVE Stands
  BY <1>0, <1>6 DEF Accept, VoiceRow, Decided
<1>7. ASSUME NEW w \in Workers, RetirePrint(w) PROVE Stands
  <2>1. \A p : s \notin PendingOn(p)
    BY DEF PendingOn, Decided
  <2>2. speakers'[s] = speakers[s] \/ speakers'[s] = [speakers[s] EXCEPT !.suggested = Unknown, !.status = speakers[s].status]
    BY <1>7, <2>1 DEF RetirePrint
  <2>3. QED
    BY <1>0, <2>2 DEF VoiceRow
<1>8. ASSUME NEW from \in VoicePeople, NEW to \in VoicePeople, Repoint(from, to) PROVE Stands
  <2>1. to # Unknown
    BY VoicesAssumption
  <2>2. speakers'[s] = speakers[s] \/ speakers'[s] = [speakers[s] EXCEPT !.person = to]
    BY <1>8 DEF Repoint
  <2>3. QED
    BY <1>0, <2>1, <2>2 DEF VoiceRow
<1>9. ASSUME NEW w \in Workers, Rollback(w) \/ AttestationSteps(w) PROVE Stands
  BY <1>1, <1>9 DEF Rollback, AttestationSteps, ShowPrints, ConfirmSet
<1>10. ASSUME NEW w \in Workers, ScanSteps(w) PROVE Stands
  BY <1>1, <1>2, <1>10 DEF ScanSteps, ScanAll, ScanSession, BatchMatch, ApplyMatchOutcome
<1>11. ASSUME NEW w \in Workers, DecisionSteps(w) \/ PrintSteps(w) PROVE Stands
  BY <1>1, <1>5, <1>6, <1>7, <1>11 DEF DecisionSteps, BeginDecision, LockSupport, PrintSteps, LockPrint
<1>12. ASSUME NEW p \in Prints,
              \/ \E t \in Speakers : EnrollFromSpeaker(t, p)
              \/ Reactivate(p) \/ \E flag \in BOOLEAN : ReviewPrint(p, flag)
       PROVE  Stands
  BY <1>1, <1>12 DEF EnrollFromSpeaker, Reactivate, ReviewPrint
<1>13. ASSUME NEW n \in DOMAIN attested, ReopenSet(n) PROVE Stands
  BY <1>1, <1>13 DEF ReopenSet
<1>14. ASSUME UNCHANGED voiceVars PROVE Stands
  BY <1>1, <1>14 DEF voiceVars
<1> HIDE DEF Stands
<1>15. ASSUME VoicesNext PROVE Stands
  <2>1. ASSUME NEW w \in Workers,
               Rollback(w) \/ ScanSteps(w) \/ DecisionSteps(w) \/ PrintSteps(w) \/ AttestationSteps(w)
        PROVE  Stands
    BY <1>9, <1>10, <1>11, <2>1
  <2>2. ASSUME NEW t \in Speakers,
               \/ StoreVoice(t) \/ \E v \in VoicePeople : UpdateSpeakerPerson(t, v)
               \/ \E p \in Prints : EnrollFromSpeaker(t, p)
        PROVE  Stands
    BY <1>3, <1>4, <1>12, <2>2
  <2>3. QED
    BY <1>8, <1>12, <1>13, <1>15, <2>1, <2>2 DEF VoicesNext
<1>16. Stands
  <2>1. VoicesNext \/ UNCHANGED voiceVars
    OBVIOUS
  <2>2. QED
    BY <1>14, <1>15, <2>1
<1>17. QED
  BY <1>16 DEF Stands

\* Who confirms a suggestion: the request that has its print locked.
LEMMA ConfirmingStep ==
    ASSUME VoicesInv, [VoicesNext]_voiceVars, NEW s \in Speakers,
           speakers[s].status = "SUGGESTED", speakers'[s].status = "CONFIRMED", speakers'[s].suggested # Unknown
    PROVE  /\ prints'[speakers[s].suggested].status = "active"
           /\ speakers'[s].suggested = speakers[s].suggested
           /\ speakers'[s].person = prints'[speakers[s].suggested].person
<1> DEFINE Confirmed == /\ prints'[speakers[s].suggested].status = "active"
                   /\ speakers'[s].suggested = speakers[s].suggested
                   /\ speakers'[s].person = prints'[speakers[s].suggested].person
<1>0. speakers \in [Speakers -> VoiceRow] /\ speakers[s] \in VoiceRow
  BY VoiceFacts
<1>1. speakers' # speakers
  OBVIOUS
<1>2. ASSUME NEW w \in Workers, CommitScan(w) PROVE FALSE
  BY <1>0, <1>2 DEF CommitScan, VoiceRow
<1>3. ASSUME NEW t \in Speakers, StoreVoice(t) PROVE FALSE
  BY <1>0, <1>3 DEF StoreVoice, VoiceRow
<1>4. ASSUME NEW t \in Speakers, NEW v \in VoicePeople, UpdateSpeakerPerson(t, v) PROVE FALSE
  BY <1>0, <1>4 DEF UpdateSpeakerPerson, VoiceRow
<1>5. ASSUME NEW w \in Workers, Reject(w) PROVE FALSE
  BY <1>0, <1>5 DEF Reject, VoiceRow
<1>6. ASSUME NEW w \in Workers, Accept(w) PROVE Confirmed
  <2> DEFINE t == work[w].on
             p == work[w].found[t]
  <2>1. /\ prints[p].status = "active" /\ speakers[t].suggested = p /\ prints' = prints
        /\ speakers' = [speakers EXCEPT ![t].status = "CONFIRMED", ![t].person = prints[p].person]
    BY <1>6 DEF Accept
  <2> HIDE DEF t, p
  <2>2. t = s
    BY <1>0, <2>1
  <2>3. /\ speakers'[s].person = prints[p].person /\ speakers'[s].suggested = speakers[s].suggested
    BY <1>0, <2>1, <2>2 DEF VoiceRow
  <2>4. QED
    BY <2>1, <2>2, <2>3
<1>7. ASSUME NEW w \in Workers, RetirePrint(w) PROVE FALSE
  <2>1. PICK x \in {"NONE", speakers[s].status} :
            speakers'[s] \in {speakers[s], [speakers[s] EXCEPT !.suggested = Unknown, !.status = x]}
    BY <1>7 DEF RetirePrint
  <2>2. QED
    BY <1>0, <2>1 DEF VoiceRow
<1>8. ASSUME NEW from \in VoicePeople, NEW to \in VoicePeople, Repoint(from, to) PROVE FALSE
  <2>1. speakers'[s] = speakers[s] \/ speakers'[s] = [speakers[s] EXCEPT !.person = to]
    BY <1>8 DEF Repoint
  <2>2. QED
    BY <1>0, <2>1 DEF VoiceRow
<1>9. ASSUME NEW w \in Workers, Rollback(w) \/ AttestationSteps(w) PROVE FALSE
  BY <1>1, <1>9 DEF Rollback, AttestationSteps, ShowPrints, ConfirmSet
<1>10. ASSUME NEW w \in Workers, ScanSteps(w) PROVE FALSE
  BY <1>1, <1>2, <1>10 DEF ScanSteps, ScanAll, ScanSession, BatchMatch, ApplyMatchOutcome
<1>11. ASSUME NEW w \in Workers, DecisionSteps(w) \/ PrintSteps(w) PROVE Confirmed
  BY <1>1, <1>5, <1>6, <1>7, <1>11 DEF DecisionSteps, BeginDecision, LockSupport, PrintSteps, LockPrint
<1>12. ASSUME NEW p \in Prints,
              \/ \E t \in Speakers : EnrollFromSpeaker(t, p)
              \/ Reactivate(p) \/ \E flag \in BOOLEAN : ReviewPrint(p, flag)
       PROVE  FALSE
  BY <1>1, <1>12 DEF EnrollFromSpeaker, Reactivate, ReviewPrint
<1>13. ASSUME NEW n \in DOMAIN attested, ReopenSet(n) PROVE FALSE
  BY <1>1, <1>13 DEF ReopenSet
<1>14. ASSUME UNCHANGED voiceVars PROVE Confirmed
  BY <1>1, <1>14 DEF voiceVars
<1> HIDE DEF Confirmed
<1>15. ASSUME VoicesNext PROVE Confirmed
  <2>1. ASSUME NEW w \in Workers,
               Rollback(w) \/ ScanSteps(w) \/ DecisionSteps(w) \/ PrintSteps(w) \/ AttestationSteps(w)
        PROVE  Confirmed
    BY <1>9, <1>10, <1>11, <2>1
  <2>2. ASSUME NEW t \in Speakers,
               \/ StoreVoice(t) \/ \E v \in VoicePeople : UpdateSpeakerPerson(t, v)
               \/ \E p \in Prints : EnrollFromSpeaker(t, p)
        PROVE  Confirmed
    BY <1>3, <1>4, <1>12, <2>2
  <2>3. QED
    BY <1>8, <1>12, <1>13, <1>15, <2>1, <2>2 DEF VoicesNext
<1>16. Confirmed
  <2>1. VoicesNext \/ UNCHANGED voiceVars
    OBVIOUS
  <2>2. QED
    BY <1>14, <1>15, <2>1
<1>17. QED
  BY <1>16 DEF Confirmed

\* Whatever scans run beside the people who decide, and whatever becomes of the prints: a decision
\* stands, since a scan writes only what it has locked and found undecided; and a suggestion is
\* confirmed on the print that made it while that print is locked and active.
THEOREM DecisionsStand == VoicesSpec => DecisionsHold
<1>1. VoicesInv /\ [VoicesNext]_voiceVars =>
        [\A s \in Speakers : speakers[s].status \in Decided =>
              /\ speakers'[s].status \in Decided
              /\ speakers[s].person # Unknown => speakers'[s].person # Unknown]_voiceVars
  BY DecisionsStandStep
<1>2. VoicesInv /\ [VoicesNext]_voiceVars =>
        [\A s \in Speakers :
          (speakers[s].status = "SUGGESTED" /\ speakers'[s].status = "CONFIRMED"
             /\ speakers'[s].suggested # Unknown) =>
          /\ prints'[speakers[s].suggested].status = "active"
          /\ speakers'[s].suggested = speakers[s].suggested
          /\ speakers'[s].person = prints'[speakers[s].suggested].person]_voiceVars
  BY ConfirmingStep
<1>3. QED
  BY <1>1, <1>2, VoicesInvariance, PTL DEF VoicesSpec, DecisionsHold, HumanDecisionsHold, ConfirmedOnLivePrint

-----------------------------------------------------------------------------
(* Repeating a step *)

\* What holds at the beginning and, once it holds, at the next number, holds of every number.
LEMMA OneByOne ==
    ASSUME NEW k \in Nat, NEW Good, 0 \in Good, \A n \in 1..k : n - 1 \in Good => n \in Good
    PROVE  \A n \in 0..k : n \in Good
<1> DEFINE Bad == {n \in 0..k : n \notin Good}
<1>1. SUFFICES ASSUME Bad # {} PROVE FALSE
  OBVIOUS
<1>2. Bad \in SUBSET Nat
  OBVIOUS
<1>3. PICK m \in Bad : \A j \in Bad : m <= j
  <2> HIDE DEF Bad
  <2>1. QED
    BY <1>1, <1>2, LeastNumber
<1>4. m # 0 /\ m \in 1..k
  BY <1>3
<1>5. m - 1 \in 0..k /\ m - 1 \notin Bad
  BY <1>3, <1>4
<1>6. m \in Good
  BY <1>4, <1>5
<1>7. QED
  BY <1>3, <1>6

\* A step on the values of V can be repeated k times.
LEMMA Repeated ==
    ASSUME NEW V, NEW next \in [V -> V], NEW first \in V, NEW k \in Nat
    PROVE  \E g : /\ g = [n \in 0..k |-> g[n]] /\ \A n \in 0..k : g[n] \in V
                  /\ g[0] = first /\ \A n \in 1..k : g[n] = next[g[n - 1]]
<1> DEFINE Runs(m) == \E g : /\ g = [n \in 0..m |-> g[n]] /\ \A n \in 0..m : g[n] \in V
                             /\ g[0] = first /\ \A n \in 1..m : g[n] = next[g[n - 1]]
           Good == {m \in Nat : Runs(m)}
<1>1. 0 \in Good
  <2> DEFINE g == [n \in 0..0 |-> first]
  <2>1. /\ g = [n \in 0..0 |-> g[n]] /\ \A n \in 0..0 : g[n] \in V
        /\ g[0] = first /\ \A n \in 1..0 : g[n] = next[g[n - 1]]
    OBVIOUS
  <2> HIDE DEF g
  <2>2. Runs(0)
    BY <2>1
  <2>3. QED
    BY <2>2
<1>2. ASSUME NEW m \in 1..k, m - 1 \in Good
      PROVE  m \in Good
  <2>1. PICK h : /\ \A n \in 0..(m - 1) : h[n] \in V
                 /\ h[0] = first /\ \A n \in 1..(m - 1) : h[n] = next[h[n - 1]]
    BY <1>2
  <2> DEFINE g == [n \in 0..m |-> IF n = m THEN next[h[m - 1]] ELSE h[n]]
  <2>2. m - 1 \in 0..(m - 1) /\ h[m - 1] \in V
    <3>1. m - 1 \in 0..(m - 1)
      BY <1>2
    <3>2. QED
      BY <2>1, <3>1
  <2>3. g = [n \in 0..m |-> g[n]] /\ \A n \in 0..m : g[n] \in V
    <3>1. ASSUME NEW n \in 0..m PROVE g[n] \in V
      <4>1. n # m => n \in 0..(m - 1)
        BY <3>1
      <4>2. QED
        BY <2>1, <2>2, <4>1
    <3>2. QED
      BY <3>1
  <2>4. g[0] = first
    <3>1. 0 \in 0..m /\ 0 # m
      BY <1>2
    <3>2. QED
      BY <2>1, <3>1
  <2>5. ASSUME NEW n \in 1..m PROVE g[n] = next[g[n - 1]]
    <3>1. n - 1 \in 0..m /\ n - 1 # m /\ n \in 0..m
      BY <2>5
    <3>2. g[n - 1] = h[n - 1]
      BY <3>1
    <3>3. CASE n = m
      BY <3>1, <3>2, <3>3
    <3>4. CASE n # m
      <4>1. n \in 1..(m - 1)
        BY <3>4
      <4>2. h[n] = next[h[n - 1]]
        BY <2>1, <4>1
      <4>3. g[n] = h[n]
        BY <3>1, <3>4
      <4>4. QED
        BY <3>2, <4>2, <4>3
    <3>5. QED
      BY <3>3, <3>4
  <2> HIDE DEF g
  <2>6. Runs(m)
    BY <2>3, <2>4, <2>5
  <2>7. m \in Nat
    BY <1>2
  <2>8. QED
    BY <2>6, <2>7
<1> HIDE DEF Good
<1>3. \A n \in 1..k : n - 1 \in Good => n \in Good
  BY <1>2
<1>4. k \in 0..k
  OBVIOUS
<1>5. k \in Good
  BY <1>1, <1>3, <1>4, OneByOne
<1>6. QED
  BY <1>5 DEF Good

-----------------------------------------------------------------------------
(* The forest of prints: every print hangs on one of higher rank, or is the root of its tree *)

Hung == [Enrolled -> Enrolled]

Forest(f, rank, root) ==
    /\ f \in Hung /\ rank \in [Enrolled -> Nat] /\ root \in Hung
    /\ \A x \in Enrolled : f[x] # x => rank[x] < rank[f[x]]
    /\ \A x \in Enrolled : root[f[x]] = root[x] /\ f[root[x]] = root[x]
    /\ \A x \in Enrolled : f[x] = x => root[x] = x

\* Only prints under review are hung on one another.
Within(f, listed) == \A x \in Enrolled : f[x] # x => x \in listed /\ f[x] \in listed

\* The prints above x, in rank.
Over(rank, x) == {y \in Enrolled : rank[x] < rank[y]}

Climbers == [at : Enrolled, parent : Hung]
Climb(s) == IF s.parent[s.at] = s.at THEN s
            ELSE [at |-> s.parent[s.parent[s.at]],
                  parent |-> [s.parent EXCEPT ![s.at] = s.parent[s.parent[s.at]]]]

\* One turn of the loop of find leaves every print under its root, and comes closer to it.
LEMMA OneHop ==
    ASSUME NEW rank, NEW root, NEW listed, NEW s \in Climbers, Forest(s.parent, rank, root),
           Within(s.parent, listed), s.at \in listed
    PROVE  /\ Climb(s) \in Climbers /\ Forest(Climb(s).parent, rank, root)
           /\ Within(Climb(s).parent, listed) /\ Climb(s).at \in listed
           /\ root[Climb(s).at] = root[s.at]
           /\ s.parent[s.at] = s.at => Climb(s) = s
           /\ s.parent[s.at] # s.at => rank[s.at] < rank[Climb(s).at]
<1> DEFINE f == s.parent
           x == s.at
           up == f[f[x]]
           g == [f EXCEPT ![x] = up]
<1>1. f \in Hung /\ x \in Enrolled /\ f[x] \in Enrolled /\ up \in Enrolled
  BY DEF Climbers, Hung
<1>2. CASE f[x] = x
  BY <1>2 DEF Climb
<1>3. CASE f[x] # x
  <2>1. Climb(s) = [at |-> up, parent |-> g]
    BY <1>3 DEF Climb
  <2>2. g \in Hung /\ g[x] = up /\ \A y \in Enrolled \ {x} : g[y] = f[y]
    BY <1>1 DEF Hung
  <2>3. /\ rank \in [Enrolled -> Nat] /\ root \in Hung
        /\ \A y \in Enrolled : f[y] # y => rank[y] < rank[f[y]]
        /\ \A y \in Enrolled : root[f[y]] = root[y] /\ f[root[y]] = root[y]
        /\ \A y \in Enrolled : f[y] = y => root[y] = y
    BY DEF Forest
  <2>4. x \in listed /\ \A y \in Enrolled : f[y] # y => y \in listed /\ f[y] \in listed
    BY DEF Within
  <2> HIDE DEF f, x, g, up
  <2>5. rank[x] < rank[f[x]] /\ (up # f[x] => rank[f[x]] < rank[up])
    BY <1>1, <1>3, <2>3 DEF up
  <2>6. rank[x] \in Nat /\ rank[f[x]] \in Nat /\ rank[up] \in Nat
    BY <1>1, <2>3
  <2>7. rank[x] < rank[up]
    BY <2>5, <2>6
  <2>8. up # x
    BY <2>6, <2>7
  <2>9. root[up] = root[x] /\ root[x] # x
    <3>1. root[f[x]] = root[x] /\ root[up] = root[f[x]] /\ f[root[x]] = root[x]
      BY <1>1, <2>3 DEF up
    <3>2. QED
      BY <1>3, <3>1
  <2>10. \A y \in Enrolled : g[y] # y => rank[y] < rank[g[y]]
    BY <2>2, <2>3, <2>7
  <2>11. \A y \in Enrolled : root[g[y]] = root[y]
    BY <2>2, <2>3, <2>9
  <2>12. \A y \in Enrolled : g[root[y]] = root[y]
    <3>1. ASSUME NEW y \in Enrolled PROVE g[root[y]] = root[y]
      <4>1. root[y] \in Enrolled /\ f[root[y]] = root[y]
        BY <2>3 DEF Hung
      <4>2. root[y] # x
        BY <1>3, <4>1
      <4>3. QED
        BY <2>2, <4>1, <4>2
    <3>2. QED
      BY <3>1
  <2>13. \A y \in Enrolled : g[y] = y => root[y] = y
    BY <2>2, <2>3, <2>8
  <2>14. Forest(g, rank, root)
    BY <2>2, <2>3, <2>10, <2>11, <2>12, <2>13 DEF Forest
  <2>15. up \in listed
    <3>1. f[x] \in listed
      BY <1>1, <1>3, <2>4
    <3>2. CASE up = f[x]
      BY <3>1, <3>2
    <3>3. CASE up # f[x]
      BY <1>1, <2>4, <3>3 DEF up
    <3>4. QED
      BY <3>2, <3>3
  <2>16. Within(g, listed)
    <3>1. \A y \in Enrolled : g[y] # y => y \in listed /\ g[y] \in listed
      BY <2>2, <2>4, <2>15
    <3>2. QED
      BY <3>1 DEF Within
  <2>17. Climb(s) \in Climbers /\ Climb(s).at = up /\ Climb(s).parent = g
    BY <1>1, <2>1, <2>2 DEF Climbers
  <2>18. QED
    BY <1>3, <2>7, <2>9, <2>14, <2>15, <2>16, <2>17 DEF f, x
<1>4. QED
  BY <1>2, <1>3

\* The root of a print is found within as many hops as there are prints, and no root changes.
LEMMA FindsRoot ==
    ASSUME NEW f, NEW rank, NEW root, NEW listed, NEW x \in Enrolled,
           Forest(f, rank, root), Within(f, listed), x \in listed
    PROVE  /\ Find(f, x).at = root[x] /\ root[x] \in listed
           /\ Forest(Find(f, x).parent, rank, root) /\ Within(Find(f, x).parent, listed)
<1> DEFINE N == Cardinality(Enrolled)
           first == [at |-> x, parent |-> f]
           next == [s \in Climbers |-> IF s \in Climbers /\ Climb(s) \in Climbers THEN Climb(s) ELSE s]
           F(g) == g = [n \in 0..N |-> IF n = 0 THEN [at |-> x, parent |-> f] ELSE
                    IF g[n - 1].parent[g[n - 1].at] = g[n - 1].at THEN g[n - 1]
                    ELSE LET up == g[n - 1].parent[g[n - 1].parent[g[n - 1].at]]
                         IN  [at |-> up, parent |-> [g[n - 1].parent EXCEPT ![g[n - 1].at] = up]]]
           climb == CHOOSE g : F(g)
           Fine(s) == /\ s \in Climbers /\ Forest(s.parent, rank, root) /\ Within(s.parent, listed)
                      /\ s.at \in listed /\ root[s.at] = root[x]
<1>0. N \in Nat /\ IsFiniteSet(Enrolled)
  BY GalleryAssumption, FS_CardinalityType
<1>1. Find(f, x) = climb[N]
  BY DEF Find
<1>2. first \in Climbers /\ first.at = x /\ first.parent = f
  BY DEF Climbers, Forest
<1>3. next \in [Climbers -> Climbers]
  OBVIOUS
<1>4. PICK h : /\ h = [n \in 0..N |-> h[n]] /\ \A n \in 0..N : h[n] \in Climbers
               /\ h[0] = first /\ \A n \in 1..N : h[n] = next[h[n - 1]]
  <2>1. first \in Climbers
    BY <1>2
  <2> HIDE DEF next, first, N, F, climb, Fine
  <2>2. QED
    BY <1>0, <1>3, <2>1, Repeated
<1>5. Fine(h[0])
  BY <1>2, <1>4
<1>6. ASSUME NEW n \in 1..N, Fine(h[n - 1])
      PROVE  h[n] = Climb(h[n - 1]) /\ Fine(h[n])
  <2> DEFINE s == h[n - 1]
  <2>1. /\ s \in Climbers /\ Forest(s.parent, rank, root) /\ Within(s.parent, listed)
        /\ s.at \in listed /\ root[s.at] = root[x]
    BY <1>6
  <2>2. h[n] = next[s]
    BY <1>4
  <2> HIDE DEF s
  <2>3. /\ Climb(s) \in Climbers /\ Forest(Climb(s).parent, rank, root)
        /\ Within(Climb(s).parent, listed) /\ Climb(s).at \in listed
        /\ root[Climb(s).at] = root[s.at]
    BY <2>1, OneHop
  <2>4. h[n] = Climb(s)
    BY <2>1, <2>2, <2>3
  <2> HIDE DEF next
  <2>5. Fine(h[n])
    BY <2>1, <2>3, <2>4
  <2>6. QED
    BY <2>4, <2>5 DEF s
<1> HIDE DEF next, first
<1>7. \A n \in 0..N : Fine(h[n])
  <2> DEFINE Good == {n \in 0..N : Fine(h[n])}
  <2>1. 0 \in Good
    BY <1>0, <1>5
  <2>2. \A n \in 1..N : n - 1 \in Good => n \in Good
    BY <1>6
  <2> HIDE DEF Good
  <2>3. \A n \in 0..N : n \in Good
    BY <1>0, <2>1, <2>2, OneByOne
  <2>4. QED
    BY <2>3 DEF Good
<1>8. \A n \in 1..N : h[n] = Climb(h[n - 1])
  <2>1. \A n \in 1..N : n - 1 \in 0..N
    BY <1>0
  <2>2. QED
    BY <1>6, <1>7, <2>1
<1>9. F(h)
  <2>1. \A n \in 0..N : h[n] = IF n = 0 THEN [at |-> x, parent |-> f] ELSE Climb(h[n - 1])
    <3>1. \A n \in 0..N : n # 0 => n \in 1..N
      BY <1>0
    <3>2. QED
      BY <1>4, <1>8, <3>1 DEF first
  <2>2. h = [n \in 0..N |-> h[n]]
    BY <1>4
  <2>3. h = [n \in 0..N |-> IF n = 0 THEN [at |-> x, parent |-> f] ELSE Climb(h[n - 1])]
    BY <2>1, <2>2
  <2>4. QED
    BY <2>3 DEF Climb
<1>10. ASSUME NEW g, F(g) PROVE g = h
  <2> DEFINE Good == {n \in 0..N : g[n] = h[n]}
  <2>1. g = [n \in 0..N |-> IF n = 0 THEN [at |-> x, parent |-> f] ELSE Climb(g[n - 1])]
    BY <1>10 DEF Climb
  <2>2. \A n \in 0..N : g[n] = IF n = 0 THEN [at |-> x, parent |-> f] ELSE Climb(g[n - 1])
    BY <2>1
  <2>3. 0 \in Good
    BY <1>0, <1>4, <2>2 DEF first
  <2>4. \A n \in 1..N : n - 1 \in Good => n \in Good
    <3>1. ASSUME NEW n \in 1..N, g[n - 1] = h[n - 1] PROVE g[n] = h[n]
      <4>1. n \in 0..N /\ n # 0
        BY <1>0
      <4>2. QED
        BY <1>8, <2>2, <3>1, <4>1
    <3>2. QED
      BY <1>0, <3>1
  <2> HIDE DEF Good
  <2>5. \A n \in 0..N : n \in Good
    BY <1>0, <2>3, <2>4, OneByOne
  <2>6. \A n \in 0..N : g[n] = h[n]
    BY <2>5 DEF Good
  <2>7. g = [n \in 0..N |-> g[n]]
    BY <2>1
  <2>8. h = [n \in 0..N |-> h[n]]
    BY <1>4
  <2>9. QED
    BY <2>6, <2>7, <2>8
<1> HIDE DEF F
<1>11. climb = h
  <2>1. F(climb)
    BY <1>9
  <2>2. QED
    BY <1>10, <2>1
<1> HIDE DEF climb
<1> DEFINE Rooted(s) == s.parent[s.at] = s.at
           Left(n) == Cardinality(Over(rank, h[n].at))
<1>12. \A n \in 0..N : IsFiniteSet(Over(rank, h[n].at)) /\ Left(n) \in Nat
  <2>1. ASSUME NEW n \in 0..N PROVE IsFiniteSet(Over(rank, h[n].at)) /\ Left(n) \in Nat
    <3>1. Over(rank, h[n].at) \in SUBSET Enrolled
      BY DEF Over
    <3>2. QED
      BY <1>0, <3>1, FS_Subset, FS_CardinalityType
  <2>2. QED
    BY <2>1
<1>13. ASSUME NEW n \in 1..N
       PROVE  (Rooted(h[n - 1]) => Rooted(h[n])) /\ (~Rooted(h[n - 1]) => Left(n) < Left(n - 1))
  <2>1. n - 1 \in 0..N /\ n \in 0..N /\ h[n] = Climb(h[n - 1]) /\ Fine(h[n - 1]) /\ Fine(h[n])
    BY <1>0, <1>7, <1>8
  <2>2. CASE Rooted(h[n - 1])
    <3>1. h[n] = h[n - 1]
      BY <2>1, <2>2, OneHop
    <3>2. QED
      BY <2>2, <3>1
  <2>3. CASE ~Rooted(h[n - 1])
    <3>1. rank[h[n - 1].at] < rank[h[n].at]
      <4>1. /\ h[n - 1] \in Climbers /\ Forest(h[n - 1].parent, rank, root)
            /\ Within(h[n - 1].parent, listed) /\ h[n - 1].at \in listed
        BY <2>1
      <4>2. h[n - 1].parent[h[n - 1].at] # h[n - 1].at
        BY <2>3
      <4>3. rank[h[n - 1].at] < rank[Climb(h[n - 1]).at]
        BY <4>1, <4>2, OneHop
      <4>4. QED
        BY <2>1, <4>3
    <3>2. rank \in [Enrolled -> Nat] /\ h[n].at \in Enrolled /\ h[n - 1].at \in Enrolled
      BY <2>1 DEF Forest, Climbers
    <3>3. /\ Over(rank, h[n].at) \in SUBSET Over(rank, h[n - 1].at)
          /\ h[n].at \in Over(rank, h[n - 1].at) /\ h[n].at \notin Over(rank, h[n].at)
      BY <3>1, <3>2 DEF Over
    <3>4. Left(n) <= Left(n - 1) /\ Left(n) # Left(n - 1)
      BY <1>12, <2>1, <3>3, FS_Subset
    <3>5. QED
      BY <1>12, <2>1, <2>3, <3>4
  <2>4. QED
    BY <2>2, <2>3
<1>14. Rooted(h[0]) \/ Left(0) + 1 <= N
  <2>1. 0 \in 0..N /\ h[0].at \in Enrolled /\ rank \in [Enrolled -> Nat]
    BY <1>0, <1>7 DEF Climbers, Forest
  <2>2. Over(rank, h[0].at) \in SUBSET (Enrolled \ {h[0].at})
    BY <2>1 DEF Over
  <2>3. IsFiniteSet(Enrolled \ {h[0].at}) /\ Cardinality(Enrolled \ {h[0].at}) = N - 1
    BY <1>0, <2>1, FS_RemoveElement
  <2>4. Left(0) <= N - 1
    BY <2>2, <2>3, FS_Subset
  <2>5. QED
    BY <1>0, <1>12, <2>1, <2>4
<1>15. \A n \in 0..N : Rooted(h[n]) \/ Left(n) + n + 1 <= N
  <2> DEFINE Good == {n \in 0..N : Rooted(h[n]) \/ Left(n) + n + 1 <= N}
  <2>1. 0 \in Good
    <3>1. 0 \in 0..N /\ Left(0) \in Nat
      BY <1>0, <1>12
    <3> HIDE DEF Left
    <3>2. Left(0) + 0 + 1 = Left(0) + 1
      BY <3>1
    <3>3. QED
      BY <1>14, <3>1, <3>2
  <2>2. ASSUME NEW n \in 1..N, n - 1 \in Good PROVE n \in Good
    <3>1. n \in 0..N /\ n - 1 \in 0..N /\ Left(n) \in Nat /\ Left(n - 1) \in Nat
      BY <1>0, <1>12
    <3>2. Rooted(h[n - 1]) \/ Left(n - 1) + (n - 1) + 1 <= N
      BY <2>2
    <3> HIDE DEF Left, Rooted
    <3>3. CASE Rooted(h[n - 1])
      BY <1>13, <3>1, <3>3
    <3>4. CASE ~Rooted(h[n - 1])
      <4>1. Left(n) < Left(n - 1) /\ Left(n - 1) + (n - 1) + 1 <= N
        BY <1>13, <3>2, <3>4
      <4>2. Left(n) + n + 1 <= N
        BY <1>0, <3>1, <4>1
      <4>3. QED
        BY <3>1, <4>2
    <3>5. QED
      BY <3>3, <3>4
  <2> HIDE DEF Good
  <2>3. \A n \in 0..N : n \in Good
    BY <1>0, <2>1, <2>2, OneByOne
  <2>4. QED
    BY <2>3 DEF Good
<1>16. Rooted(h[N])
  <2>1. N \in 0..N /\ Left(N) \in Nat
    BY <1>0, <1>12
  <2> HIDE DEF Left, Rooted
  <2>2. ~(Left(N) + N + 1 <= N)
    BY <1>0, <2>1
  <2>3. QED
    BY <1>15, <2>1, <2>2
<1>17. Fine(h[N]) /\ Find(f, x) = h[N]
  BY <1>0, <1>1, <1>7, <1>11
<1>18. h[N].at = root[x]
  <2>1. h[N].at \in Enrolled /\ root[h[N].at] = h[N].at
    BY <1>16, <1>17 DEF Climbers, Forest
  <2>2. QED
    BY <1>17, <2>1
<1>19. QED
  BY <1>17, <1>18

\* Two trees become one: what was under the root of a is under that of b.
LEMMA Uniting ==
    ASSUME NEW f, NEW rank, NEW root, NEW listed, NEW a \in Enrolled, NEW b \in Enrolled,
           Forest(f, rank, root), Within(f, listed), a \in listed, b \in listed
    PROVE  /\ Within(United(f, a, b), listed)
           /\ \E later, above :
                 /\ Forest(United(f, a, b), later, above)
                 /\ \A x \in Enrolled : above[x] = IF root[x] = root[a] THEN root[b] ELSE root[x]
<1> DEFINE g == Find(f, b).parent
           h == Find(g, a).parent
           ra == root[a]
           rb == root[b]
           new == [h EXCEPT ![ra] = rb]
<1>1. Find(f, b).at = rb /\ rb \in listed /\ Forest(g, rank, root) /\ Within(g, listed)
  BY FindsRoot
<1>2. Find(g, a).at = ra /\ ra \in listed /\ Forest(h, rank, root) /\ Within(h, listed)
  <2>1. Forest(g, rank, root) /\ Within(g, listed) /\ a \in listed
    BY <1>1
  <2> HIDE DEF g
  <2>2. QED
    BY <2>1, FindsRoot, SMTT(30)
<1>3. United(f, a, b) = new
  BY <1>1, <1>2 DEF United
<1> HIDE DEF g, h
<1>4. ra \in Enrolled /\ rb \in Enrolled /\ h[ra] = ra /\ h[rb] = rb
  BY <1>2 DEF Forest, Hung
<1>5. new \in Hung /\ new[ra] = rb /\ \A x \in Enrolled \ {ra} : new[x] = h[x]
  BY <1>2, <1>4 DEF Forest, Hung
<1>6. Within(new, listed)
  BY <1>1, <1>2, <1>4, <1>5 DEF Within
<1> DEFINE above == [x \in Enrolled |-> IF root[x] = ra THEN rb ELSE root[x]]
<1>7. /\ rank \in [Enrolled -> Nat] /\ root \in [Enrolled -> Enrolled] /\ h \in [Enrolled -> Enrolled]
      /\ \A x \in Enrolled : h[x] # x => rank[x] < rank[h[x]]
      /\ \A x \in Enrolled : root[h[x]] = root[x] /\ h[root[x]] = root[x]
      /\ \A x \in Enrolled : h[x] = x => root[x] = x
  BY <1>2 DEF Forest, Hung
<1>8. CASE ra = rb
  <2>1. new = h
    BY <1>4, <1>7, <1>8
  <2>2. \A x \in Enrolled : root[x] = IF root[x] = ra THEN rb ELSE root[x]
    BY <1>8
  <2> HIDE DEF new
  <2>3. QED
    BY <1>2, <1>3, <1>6, <2>1, <2>2
<1>9. CASE ra # rb
  <2> DEFINE later == [x \in Enrolled |-> IF root[x] = rb THEN rank[x] + rank[ra] + 1 ELSE rank[x]]
  <2>1. root[ra] = ra /\ root[rb] = rb
    BY <1>4, <1>7
  <2>2. above \in Hung /\ \A x \in Enrolled : above[x] = IF root[x] = ra THEN rb ELSE root[x]
    BY <1>4, <1>7 DEF Hung
  <2>3. later \in [Enrolled -> Nat] /\ \A x \in Enrolled : later[x] = IF root[x] = rb THEN rank[x] + rank[ra] + 1 ELSE rank[x]
    BY <1>4, <1>7
  <2> HIDE DEF new, above, later, ra, rb
  <2>4. ASSUME NEW x \in Enrolled, new[x] # x PROVE later[x] < later[new[x]]
    <3>1. CASE x = ra
      <4>1. later[x] = rank[ra] /\ later[new[x]] = rank[rb] + rank[ra] + 1
        BY <1>4, <1>5, <1>9, <2>1, <2>3, <3>1
      <4>2. rank[ra] \in Nat /\ rank[rb] \in Nat
        BY <1>4, <1>7
      <4>3. QED
        BY <4>1, <4>2
    <3>2. CASE x # ra
      <4>1. new[x] = h[x] /\ h[x] \in Enrolled /\ rank[x] < rank[h[x]] /\ root[h[x]] = root[x]
        BY <1>5, <1>7, <2>4, <3>2
      <4>2. rank[x] \in Nat /\ rank[h[x]] \in Nat /\ rank[ra] \in Nat
        BY <1>4, <1>7, <4>1
      <4>3. CASE root[x] = rb
        <5>1. later[x] = rank[x] + rank[ra] + 1 /\ later[h[x]] = rank[h[x]] + rank[ra] + 1
          BY <2>3, <4>1, <4>3
        <5>2. QED
          BY <4>1, <4>2, <5>1
      <4>4. CASE root[x] # rb
        <5>1. later[x] = rank[x] /\ later[h[x]] = rank[h[x]]
          BY <2>3, <4>1, <4>4
        <5>2. QED
          BY <4>1, <5>1
      <4>5. QED
        BY <4>3, <4>4
    <3>3. QED
      BY <3>1, <3>2
  <2>5. ASSUME NEW x \in Enrolled PROVE above[new[x]] = above[x] /\ new[above[x]] = above[x]
    <3>1. new[x] \in Enrolled /\ above[new[x]] = above[x]
      <4>1. CASE x = ra
        BY <1>4, <1>5, <2>1, <2>2, <4>1
      <4>2. CASE x # ra
        <5>1. new[x] = h[x] /\ h[x] \in Enrolled /\ root[h[x]] = root[x]
          BY <1>5, <1>7, <4>2
        <5>2. QED
          BY <2>2, <5>1
      <4>3. QED
        BY <4>1, <4>2
    <3>2. new[above[x]] = above[x]
      <4>1. CASE root[x] = ra
        BY <1>4, <1>5, <1>9, <2>2, <4>1
      <4>2. CASE root[x] # ra
        <5>1. above[x] = root[x] /\ root[x] \in Enrolled /\ h[root[x]] = root[x]
          BY <1>7, <2>2, <4>2
        <5>2. QED
          BY <1>5, <4>2, <5>1
      <4>3. QED
        BY <4>1, <4>2
    <3>3. QED
      BY <3>1, <3>2
  <2>6. ASSUME NEW x \in Enrolled, new[x] = x PROVE above[x] = x
    <3>1. x # ra
      BY <1>5, <1>9, <2>6
    <3>2. root[x] = x
      BY <1>5, <1>7, <2>6, <3>1
    <3>3. QED
      BY <2>2, <3>1, <3>2
  <2>7. Forest(new, later, above)
    BY <1>5, <2>2, <2>3, <2>4, <2>5, <2>6 DEF Forest
  <2>8. QED
    BY <1>3, <1>6, <2>2, <2>7 DEF ra, rb
<1>10. QED
  BY <1>8, <1>9

-----------------------------------------------------------------------------
(* Trees and chains of comparisons *)

\* q is in every group of prints that holds p and is not parted by a comparison.
LinkedBy(edges, listed, p, q) ==
    \A group \in SUBSET listed :
        (p \in group /\ \A pair \in edges : pair[1] \in group <=> pair[2] \in group) => q \in group

\* A tree is what is linked.
Grown(edges, listed, root) ==
    /\ \A pair \in edges : root[pair[1]] = root[pair[2]]
    /\ \A p, q \in listed : root[p] = root[q] => LinkedBy(edges, listed, p, q)

LEMMA OneMoreEdge ==
    ASSUME NEW edges, NEW listed \in SUBSET Enrolled, NEW root, NEW above, NEW a \in listed, NEW b \in listed,
           edges \subseteq listed \X listed, Grown(edges, listed, root),
           \A x \in Enrolled : above[x] = IF root[x] = root[a] THEN root[b] ELSE root[x]
    PROVE  Grown(edges \cup {<<a, b>>}, listed, above)
<1> DEFINE more == edges \cup {<<a, b>>}
<1>1. ASSUME NEW pair \in more PROVE above[pair[1]] = above[pair[2]]
  <2>1. CASE pair \in edges
    <3>1. root[pair[1]] = root[pair[2]] /\ pair[1] \in Enrolled /\ pair[2] \in Enrolled
      BY <2>1 DEF Grown
    <3>2. QED
      BY <3>1
  <2>2. CASE pair = <<a, b>>
    <3>1. a \in Enrolled /\ b \in Enrolled /\ pair[1] = a /\ pair[2] = b
      BY <2>2
    <3>2. QED
      BY <3>1
  <2>3. QED
    BY <2>1, <2>2
<1>2. ASSUME NEW p \in listed, NEW q \in listed, above[p] = above[q]
      PROVE  LinkedBy(more, listed, p, q)
  <2> SUFFICES ASSUME NEW group \in SUBSET listed, p \in group,
                      \A pair \in more : pair[1] \in group <=> pair[2] \in group
               PROVE  q \in group
    BY DEF LinkedBy
  <2>1. \A pair \in edges : pair[1] \in group <=> pair[2] \in group
    OBVIOUS
  <2>2. a \in group <=> b \in group
    <3>1. <<a, b>> \in more
      OBVIOUS
    <3>2. <<a, b>>[1] \in group <=> <<a, b>>[2] \in group
      BY <3>1
    <3>3. QED
      BY <3>2
  <2>3. \A u, v \in listed : root[u] = root[v] /\ u \in group => v \in group
    BY <2>1 DEF Grown, LinkedBy
  <2>4. p \in Enrolled /\ q \in Enrolled
    OBVIOUS
  <2>5. CASE root[p] = root[q]
    BY <2>3, <2>5
  <2>6. CASE root[p] = root[a] /\ root[q] = root[b]
    BY <2>2, <2>3, <2>6
  <2>7. CASE root[p] = root[b] /\ root[q] = root[a]
    BY <2>2, <2>3, <2>7
  <2>8. QED
    BY <1>2, <2>4, <2>5, <2>6, <2>7
<1>3. QED
  BY <1>1, <1>2 DEF Grown

\* Trees that have grown along all comparisons tell who is linked.
LEMMA GrownIsLinked ==
    ASSUME NEW edges, NEW listed \in SUBSET Enrolled, NEW root, edges \subseteq listed \X listed,
           Grown(edges, listed, root), NEW p \in listed, NEW q \in listed
    PROVE  root[p] = root[q] <=> LinkedBy(edges, listed, p, q)
<1>1. ASSUME LinkedBy(edges, listed, p, q) PROVE root[p] = root[q]
  <2> DEFINE group == {x \in listed : root[x] = root[p]}
  <2>1. group \in SUBSET listed /\ p \in group
    OBVIOUS
  <2>2. \A pair \in edges : pair[1] \in group <=> pair[2] \in group
    BY DEF Grown
  <2>3. q \in group
    <3> HIDE DEF group
    <3>1. QED
      BY <1>1, <2>1, <2>2 DEF LinkedBy
  <2>4. QED
    BY <2>3
<1>2. QED
  BY <1>1 DEF Grown


-----------------------------------------------------------------------------
(* The review of a person's prints *)

\* The comparisons that join two listed prints.
Edges == {pair \in check.compared \cap (check.listed \X check.listed) : Alike(pair[1], pair[2])}

Checks ==
    [stage : {"idle", "listed", "compared", "reported"}, listed : SUBSET Enrolled,
     compared : SUBSET (Enrolled \X Enrolled), parent : Hung, todo : SUBSET (Enrolled \X Enrolled),
     component : Hung, verdict : {"none", "NO_PRINTS", "SINGLE_PRINT", "REVIEW_REQUIRED", "COHERENT"}]

\* No print was compared with itself; what is left to do is a comparison; and the trees are what
\* the comparisons dealt with so far link.
TreesInv ==
    /\ \A pair \in check.compared : pair[1] # pair[2]
    /\ check.todo \subseteq Edges
    /\ Within(check.parent, check.listed)
    /\ \E rank, root : Forest(check.parent, rank, root) /\ Grown(Edges \ check.todo, check.listed, root)

CheckInv ==
    /\ check \in Checks /\ active \subseteq Enrolled /\ identifier \in [Enrolled -> Nat]
    /\ check.stage \in {"idle", "listed"} =>
          check.parent = [p \in Enrolled |-> p] /\ check.todo = {} /\ check.compared = {}
    /\ TreesInv
    /\ ComponentsRight

\* Prints that hang on nothing are trees of their own.
LEMMA SingleTrees ==
    ASSUME NEW listed \in SUBSET Enrolled, NEW f, f = [p \in Enrolled |-> p]
    PROVE  f \in Hung /\ Within(f, listed) /\ \E rank, root : Forest(f, rank, root) /\ Grown({}, listed, root)
<1> DEFINE rank == [p \in Enrolled |-> 0]
<1>1. f \in Hung /\ rank \in [Enrolled -> Nat] /\ \A p \in Enrolled : f[p] = p
  BY DEF Hung
<1> HIDE DEF rank
<1>2. Within(f, listed) /\ Forest(f, rank, f)
  BY <1>1 DEF Within, Forest
<1>3. Grown({}, listed, f)
  BY <1>1 DEF Grown, LinkedBy
<1>4. QED
  BY <1>1, <1>2, <1>3

LEMMA CheckInitInv == GalleryInit => CheckInv
<1> SUFFICES ASSUME GalleryInit PROVE CheckInv
  OBVIOUS
<1>1. check = NoCheck /\ active = Enrolled /\ identifier \in [Enrolled -> Nat]
  BY GalleryAssumption DEF GalleryInit
<1>2. /\ check.stage = "idle" /\ check.listed = {} /\ check.compared = {} /\ check.todo = {}
      /\ check.parent = [p \in Enrolled |-> p] /\ check.component = [p \in Enrolled |-> p]
      /\ check.verdict = "none"
  BY <1>1 DEF NoCheck
<1>3. check \in Checks
  BY <1>1 DEF NoCheck, Checks, Hung
<1>4. Edges \ check.todo = {}
  BY <1>2 DEF Edges
<1>5. TreesInv
  <2>1. Within(check.parent, check.listed)
        /\ \E rank, root : Forest(check.parent, rank, root) /\ Grown({}, check.listed, root)
    BY <1>2, SingleTrees
  <2>2. QED
    BY <1>2, <1>4, <2>1 DEF TreesInv
<1>6. ComponentsRight
  BY <1>2 DEF ComponentsRight
<1>7. QED
  BY <1>1, <1>2, <1>3, <1>5, <1>6 DEF CheckInv

\* What the later steps of a review leave alone is still true after them.
LEMMA CheckKeeps ==
    ASSUME CheckInv, check' = check, active' \subseteq Enrolled,
           UNCHANGED <<likeness, identifier, modelOf>>
    PROVE  CheckInv'
<1>1. Edges' = Edges
  BY DEF Edges, Alike
<1>2. TreesInv'
  BY <1>1 DEF CheckInv, TreesInv
<1>3. ComponentsRight'
  <2>1. \A p, q : Alike(p, q)' = Alike(p, q)
    BY DEF Alike
  <2>2. \A p, q : Chained(p, q)' <=> Chained(p, q)
    BY DEF Chained, Alike
  <2>3. \A p : Peers(p)' = Peers(p)
    BY DEF Peers
  <2>4. \A p : PrintStatus(p)' = PrintStatus(p)
    BY <2>1, <2>3 DEF PrintStatus
  <2>5. ComponentsRight
    BY DEF CheckInv
  <2>6. QED
    BY <2>2, <2>4, <2>5 DEF ComponentsRight
<1>4. QED
  BY <1>2, <1>3 DEF CheckInv

LEMMA ToggleKeeps == ASSUME CheckInv, NEW p \in Enrolled, Toggle(p) PROVE CheckInv'
<1>1. check' = check /\ active' \subseteq Enrolled /\ UNCHANGED <<likeness, identifier, modelOf>>
  BY DEF Toggle, CheckInv
<1>2. QED
  BY <1>1, CheckKeeps

LEMMA ListKeeps == ASSUME CheckInv, ListPrints PROVE CheckInv'
<1>1. check \in Checks /\ active \subseteq Enrolled /\ check.stage = "idle"
  BY DEF CheckInv, ListPrints
<1>2. check' = [check EXCEPT !.stage = "listed", !.listed = active]
  BY DEF ListPrints
<1>3. /\ check'.stage = "listed" /\ check'.listed = active /\ check'.compared = {} /\ check'.todo = {}
      /\ check'.parent = [p \in Enrolled |-> p] /\ check' \in Checks
  BY <1>1, <1>2 DEF CheckInv, Checks
<1>4. Edges' \ check'.todo = {}
  BY <1>3 DEF Edges
<1>5. TreesInv'
  <2>1. Within(check'.parent, check'.listed)
        /\ \E rank, root : Forest(check'.parent, rank, root) /\ Grown({}, check'.listed, root)
    BY <1>1, <1>3, SingleTrees
  <2>2. QED
    BY <1>1, <1>3, <1>4, <2>1 DEF TreesInv
<1>6. ComponentsRight'
  BY <1>3 DEF ComponentsRight
<1>7. QED
  BY <1>1, <1>3, <1>5, <1>6 DEF CheckInv, ListPrints

LEMMA CompareKeeps == ASSUME CheckInv, ComparePairs PROVE CheckInv'
<1> DEFINE compared == {pair \in active \X active :
              identifier[pair[1]] < identifier[pair[2]] /\ modelOf[pair[1]] = modelOf[pair[2]]}
           left == {pair \in compared \cap (check.listed \X check.listed) : Alike(pair[1], pair[2])}
<1>1. check \in Checks /\ active \subseteq Enrolled /\ check.stage = "listed" /\ identifier \in [Enrolled -> Nat]
  BY DEF CheckInv, ComparePairs
<1>2. check' = [check EXCEPT !.stage = "compared", !.compared = compared, !.todo = left]
  BY DEF ComparePairs
<1>3. compared \in SUBSET (Enrolled \X Enrolled) /\ left \in SUBSET (Enrolled \X Enrolled)
  BY <1>1
<1>4. \A pair \in compared : pair[1] # pair[2]
  <2>1. ASSUME NEW pair \in compared PROVE pair[1] # pair[2]
    <3>1. pair[1] \in Enrolled /\ pair[2] \in Enrolled /\ identifier[pair[1]] < identifier[pair[2]]
      BY <1>1
    <3>2. identifier[pair[1]] \in Nat /\ identifier[pair[2]] \in Nat
      BY <1>1, <3>1
    <3>3. QED
      BY <3>1, <3>2
  <2>2. QED
    BY <2>1
<1>5. Edges' = left
  <2>1. check'.compared = compared /\ check'.listed = check.listed /\ likeness' = likeness
    BY <1>1, <1>2 DEF Checks, ComparePairs
  <2> HIDE DEF compared
  <2>2. QED
    BY <2>1 DEF Edges, Alike
<1> HIDE DEF compared, left
<1>6. /\ check'.stage = "compared" /\ check'.listed = check.listed /\ check'.compared = compared
      /\ check'.todo = left /\ check'.parent = [p \in Enrolled |-> p] /\ check' \in Checks
      /\ check.listed \in SUBSET Enrolled
  BY <1>1, <1>2, <1>3 DEF CheckInv, Checks
<1>7. Edges' \ check'.todo = {} /\ check'.todo \subseteq Edges'
  BY <1>5, <1>6
<1>8. TreesInv'
  <2>1. Within(check'.parent, check'.listed)
        /\ \E rank, root : Forest(check'.parent, rank, root) /\ Grown({}, check'.listed, root)
    BY <1>6, SingleTrees
  <2>2. QED
    BY <1>4, <1>6, <1>7, <2>1 DEF TreesInv
<1>9. ComponentsRight'
  BY <1>6 DEF ComponentsRight
<1>10. QED
  BY <1>1, <1>6, <1>8, <1>9 DEF CheckInv, ComparePairs

LEMMA UniteKeeps == ASSUME CheckInv, Unite PROVE CheckInv'
<1>1. check \in Checks /\ active \subseteq Enrolled /\ check.stage = "compared"
  BY DEF CheckInv, Unite
<1>2. PICK pair \in check.todo :
         check' = [check EXCEPT !.todo = @ \ {pair}, !.parent = United(@, pair[1], pair[2])]
  BY DEF Unite
<1> DEFINE a == pair[1]
           b == pair[2]
           f == check.parent
           new == United(f, a, b)
           done == Edges \ check.todo
<1>3. /\ check.todo \subseteq Edges /\ Within(f, check.listed)
      /\ \A c \in check.compared : c[1] # c[2]
  BY DEF CheckInv, TreesInv
<1>4. PICK rank, root : Forest(f, rank, root) /\ Grown(done, check.listed, root)
  BY DEF CheckInv, TreesInv
<1>5. /\ Edges \subseteq check.listed \X check.listed /\ pair = <<a, b>> /\ a \in check.listed
      /\ b \in check.listed /\ check.listed \in SUBSET Enrolled
  BY <1>1, <1>3 DEF Edges, Checks
<1> HIDE DEF a, b, f, done
<1>6. Within(new, check.listed)
  BY <1>3, <1>4, <1>5, Uniting
<1>7. PICK later, above : /\ Forest(new, later, above)
                          /\ \A x \in Enrolled : above[x] = IF root[x] = root[a] THEN root[b] ELSE root[x]
  BY <1>3, <1>4, <1>5, Uniting
<1>8. Grown(done \cup {<<a, b>>}, check.listed, above)
  <2>1. done \subseteq check.listed \X check.listed
    BY <1>5 DEF done
  <2>2. QED
    BY <1>4, <1>5, <1>7, <2>1, OneMoreEdge
<1>9. new \in Hung
  BY <1>7 DEF Forest
<1> HIDE DEF new
<1>10. /\ check'.stage = "compared" /\ check'.listed = check.listed /\ check'.compared = check.compared
       /\ check'.todo = check.todo \ {pair} /\ check'.parent = new /\ check' \in Checks
  BY <1>1, <1>2, <1>9 DEF Checks, new, f, a, b
<1>11. Edges' = Edges
  BY <1>10 DEF Edges, Alike, Unite
<1>12. done \cup {<<a, b>>} = Edges' \ check'.todo
  BY <1>3, <1>5, <1>10, <1>11 DEF done
<1>13. TreesInv'
  BY <1>3, <1>6, <1>7, <1>8, <1>10, <1>11, <1>12 DEF TreesInv
<1>14. ComponentsRight'
  BY <1>10 DEF ComponentsRight
<1>15. QED
  BY <1>1, <1>10, <1>13, <1>14 DEF CheckInv, Unite

\* Once every comparison is dealt with, the roots tell who is joined to whom.
LEMMA RootsTell ==
    ASSUME CheckInv, Report
    PROVE  /\ check'.component \in Hung
           /\ \A p, q \in check.listed : check'.component[p] = check'.component[q] <=> Chained(p, q)
           /\ \A pair \in Edges : check'.component[pair[1]] = check'.component[pair[2]]
<1> DEFINE component == [p \in Enrolled |-> Find(check.parent, p).at]
<1>1. check \in Checks /\ check.todo = {} /\ check'.component = component
  BY DEF CheckInv, Report, Checks
<1>2. PICK rank, root : Forest(check.parent, rank, root) /\ Grown(Edges, check.listed, root)
  BY <1>1 DEF CheckInv, TreesInv
<1>3. root \in Hung /\ check.parent \in Hung /\ check.listed \in SUBSET Enrolled
  BY <1>1, <1>2 DEF Forest, Checks
<1>4. Within(check.parent, Enrolled)
  BY <1>3 DEF Within, Hung
<1>5. \A p \in Enrolled : Find(check.parent, p).at = root[p]
  BY <1>2, <1>4, FindsRoot
<1>6. component = root
  BY <1>3, <1>5 DEF Hung
<1>7. Edges \subseteq check.listed \X check.listed
  BY DEF Edges
<1>8. ASSUME NEW p \in check.listed, NEW q \in check.listed
      PROVE  root[p] = root[q] <=> Chained(p, q)
  <2>1. root[p] = root[q] <=> LinkedBy(Edges, check.listed, p, q)
    BY <1>2, <1>3, <1>7, GrownIsLinked
  <2>2. LinkedBy(Edges, check.listed, p, q) <=> Chained(p, q)
    BY DEF LinkedBy, Chained, Edges
  <2>3. QED
    BY <2>1, <2>2
<1>9. \A pair \in Edges : root[pair[1]] = root[pair[2]]
  BY <1>2 DEF Grown
<1>10. QED
  BY <1>1, <1>3, <1>6, <1>8, <1>9

LEMMA TwoInAll == ASSUME NEW a, NEW b, a # b PROVE Cardinality({a, b}) = 2
<1>1. IsFiniteSet({a}) /\ Cardinality({a}) = 1
  BY FS_Singleton
<1>2. Cardinality({a} \cup {b}) = Cardinality({a}) + 1
  <2>1. b \notin {a}
    OBVIOUS
  <2>2. QED
    BY <1>1, <2>1, FS_AddElement
<1>3. {a} \cup {b} = {a, b}
  OBVIOUS
<1>4. QED
  BY <1>1, <1>2, <1>3

\* A person found coherent has no print that was not compared: it would be a group of its own.
LEMMA CoherentCompared ==
    ASSUME CheckInv, Report, check'.verdict = "COHERENT", NEW p \in check.listed
    PROVE  \E q \in check.listed \ {p} : <<p, q>> \in check.compared \/ <<q, p>> \in check.compared
<1> DEFINE component == check'.component
           C == Components(component)
<1>1. /\ check \in Checks /\ check.listed \in SUBSET Enrolled /\ IsFiniteSet(check.listed)
      /\ Overall(component) = "COHERENT"
  <2>1. check \in Checks /\ check.listed \in SUBSET Enrolled
    BY DEF CheckInv, Checks
  <2>2. Overall(component) = "COHERENT"
    BY <2>1 DEF Report, Checks
  <2>3. QED
    BY <2>1, <2>2, GalleryAssumption, FS_Subset
<1>2. Cardinality(check.listed) # 1 /\ ~(Cardinality(C) > 1)
  BY <1>1 DEF Overall
<1>3. PICK q \in check.listed : q # p
  <2>1. check.listed # {p}
    BY <1>2, FS_Singleton
  <2>2. QED
    BY <2>1
<1>4. component[p] = component[q]
  <2>1. IsFiniteSet(C) /\ {component[p], component[q]} \in SUBSET C
    <3> DEFINE of == [r \in check.listed |-> component[r]]
    <3>1. of \in Surjection(check.listed, C)
      BY DEF Components, Surjection
    <3>2. QED
      BY <1>1, <3>1, FS_Surjection DEF Components
  <2>2. Cardinality({component[p], component[q]}) <= Cardinality(C) /\ Cardinality(C) \in Nat
    BY <2>1, FS_Subset, FS_CardinalityType
  <2>3. component[p] # component[q] => Cardinality({component[p], component[q]}) = 2
    BY TwoInAll
  <2>4. QED
    BY <1>2, <2>2, <2>3
<1>5. Chained(p, q)
  BY <1>4, RootsTell
<1>6. SUFFICES ASSUME \A r \in check.listed \ {p} : <<p, r>> \notin check.compared /\ <<r, p>> \notin check.compared
               PROVE  FALSE
  OBVIOUS
<1>7. ASSUME NEW pair \in check.compared \cap (check.listed \X check.listed)
      PROVE  pair[1] \in {p} <=> pair[2] \in {p}
  <2>1. pair[1] # pair[2] /\ pair = <<pair[1], pair[2]>> /\ pair[1] \in check.listed /\ pair[2] \in check.listed
    BY <1>7 DEF CheckInv, TreesInv
  <2>2. QED
    BY <1>6, <1>7, <2>1
<1>8. q \in {p}
  BY <1>5, <1>7 DEF Chained
<1>9. QED
  BY <1>3, <1>8

LEMMA ReportKeeps == ASSUME CheckInv, Report PROVE CheckInv'
<1>1. check \in Checks /\ check'.component \in Hung
  BY RootsTell DEF CheckInv
<1> DEFINE component == [p \in Enrolled |-> Find(check.parent, p).at]
<1>2. check' = [check EXCEPT !.stage = "reported", !.component = component, !.verdict = Overall(component)]
  BY DEF Report
<1>3. Overall(component) \in {"NO_PRINTS", "SINGLE_PRINT", "REVIEW_REQUIRED", "COHERENT"}
  BY DEF Overall
<1> HIDE DEF component
<1>4. /\ check'.stage = "reported" /\ check'.listed = check.listed /\ check'.compared = check.compared
      /\ check'.todo = check.todo /\ check'.parent = check.parent /\ check' \in Checks
  BY <1>1, <1>2, <1>3 DEF Checks
<1>5. likeness' = likeness /\ identifier' = identifier /\ modelOf' = modelOf /\ active' = active
  BY DEF Report
<1>6. Edges' = Edges
  BY <1>4, <1>5 DEF Edges, Alike
<1>7. TreesInv'
  BY <1>4, <1>6 DEF CheckInv, TreesInv
<1>8. ComponentsRight'
  <2>1. \A p, q : Alike(p, q)' = Alike(p, q)
    BY <1>5 DEF Alike
  <2>2. \A p, q : Chained(p, q)' <=> Chained(p, q)
    BY <1>4, <1>5 DEF Chained, Alike
  <2>3. \A p : Peers(p)' = Peers(p)
    BY <1>4 DEF Peers
  <2>4. \A p : PrintStatus(p)' = PrintStatus(p)
    BY <1>4, <1>5, <2>1, <2>3 DEF PrintStatus
  <2>5. ASSUME NEW p \in check.listed, PrintStatus(p) = "COHERENT"
        PROVE  \E q \in check.listed \ {p} : check'.component[q] = check'.component[p]
    <3>1. PICK q \in Peers(p) : Alike(p, q)
      BY <2>5 DEF PrintStatus
    <3>2. q \in check.listed /\ (<<p, q>> \in check.compared \/ <<q, p>> \in check.compared)
      BY <3>1 DEF Peers
    <3>3. \A pair \in check.compared : pair[1] # pair[2]
      BY DEF CheckInv, TreesInv
    <3>4. {p, q} = {q, p}
      OBVIOUS
    <3>5. Alike(q, p)
      BY <3>1, <3>4 DEF Alike
    <3>6. CASE <<p, q>> \in check.compared
      <4>1. <<p, q>> \in Edges
        BY <3>1, <3>2, <3>6 DEF Edges
      <4>2. <<p, q>>[1] # <<p, q>>[2]
        BY <3>3, <3>6
      <4>3. check'.component[<<p, q>>[1]] = check'.component[<<p, q>>[2]]
        BY <4>1, RootsTell
      <4>4. QED
        BY <3>2, <4>2, <4>3
    <3>7. CASE <<q, p>> \in check.compared
      <4>1. <<q, p>> \in Edges
        BY <3>2, <3>5, <3>7 DEF Edges
      <4>2. <<q, p>>[1] # <<q, p>>[2]
        BY <3>3, <3>7
      <4>3. check'.component[<<q, p>>[1]] = check'.component[<<q, p>>[2]]
        BY <4>1, RootsTell
      <4>4. QED
        BY <3>2, <4>2, <4>3
    <3>8. QED
      BY <3>2, <3>6, <3>7
  <2>6. \A p, q \in check.listed : check'.component[p] = check'.component[q] <=> Chained(p, q)
    BY RootsTell
  <2>7. check'.verdict = "COHERENT" => \A p \in check.listed : \E q \in check.listed \ {p} :
           <<p, q>> \in check.compared \/ <<q, p>> \in check.compared
    BY CoherentCompared
  <2>8. QED
    BY <1>4, <2>2, <2>4, <2>5, <2>6, <2>7 DEF ComponentsRight
<1>9. QED
  BY <1>1, <1>4, <1>5, <1>7, <1>8 DEF CheckInv

-----------------------------------------------------------------------------
(* The best match of one voice *)

PersonEntry == [person : Filed, score : Nat, count : Nat]

\* The rows dealt with that compete, and those of one person among them.
Seen == {n \in DOMAIN match.rows : n < match.at /\ Eligible(match.rows[n])}
Own(v) == {n \in Seen : match.rows[n].person = v}

\* Everyone whose prints were dealt with is listed once, with the best score and the number of
\* those prints.
MatchInv ==
    /\ match \in [rows : Seq(Listing), at : Nat \ {0}, people : Seq(PersonEntry)]
    /\ \A n, m \in DOMAIN match.people : match.people[n].person = match.people[m].person => n = m
    /\ \A n \in Seen : \E m \in DOMAIN match.people :
          match.people[m].person = match.rows[n].person /\ match.rows[n].score <= match.people[m].score
    /\ \A m \in DOMAIN match.people :
          /\ \E n \in Own(match.people[m].person) : match.rows[n].score = match.people[m].score
          /\ match.people[m].count = Cardinality(Own(match.people[m].person))

LEMMA MatchInitInv == GalleryInit => MatchInv
<1> SUFFICES ASSUME GalleryInit PROVE MatchInv
  OBVIOUS
<1>1. match \in [rows : Galleries, at : {1}, people : {<<>>}]
  BY DEF GalleryInit
<1>2. match.rows \in Seq(Listing) /\ match.at = 1 /\ match.people = <<>>
  BY <1>1, GalleryAssumption
<1>3. match \in [rows : Seq(Listing), at : Nat \ {0}, people : Seq(PersonEntry)]
  <2>1. <<>> \in Seq(PersonEntry) /\ 1 \in Nat \ {0} /\ Galleries \subseteq Seq(Listing)
    BY GalleryAssumption
  <2>2. QED
    BY <1>1, <2>1
<1>4. DOMAIN match.rows = 1..Len(match.rows) /\ DOMAIN match.people = {}
  BY <1>2
<1>5. Seen = {}
  BY <1>2, <1>4 DEF Seen
<1>6. QED
  BY <1>3, <1>4, <1>5 DEF MatchInv

\* A print that does not compete changes nothing.
LEMMA PassedOver ==
    ASSUME MatchInv, ScorePrint, ~Eligible(match.rows[match.at])
    PROVE  MatchInv'
<1>1. /\ match \in [rows : Seq(Listing), at : Nat \ {0}, people : Seq(PersonEntry)]
      /\ match' = [match EXCEPT !.at = @ + 1, !.people = @]
  BY DEF MatchInv, ScorePrint
<1>2. /\ match'.rows = match.rows /\ match'.at = match.at + 1 /\ match'.people = match.people
      /\ match' \in [rows : Seq(Listing), at : Nat \ {0}, people : Seq(PersonEntry)]
  <2>1. match.at + 1 \in Nat \ {0} /\ match.people \in Seq(PersonEntry)
    BY <1>1
  <2>2. QED
    BY <1>1, <2>1
<1>3. DOMAIN match.rows \subseteq Nat /\ match.at \in Nat
  BY <1>1
<1>4. Seen' = Seen
  <2>1. \A n \in DOMAIN match.rows : n < match.at + 1 <=> n < match.at \/ n = match.at
    BY <1>3
  <2>2. QED
    BY <1>2, <2>1 DEF Seen, Eligible
<1>5. \A v : Own(v)' = Own(v)
  BY <1>2, <1>4 DEF Own
<1>6. QED
  BY <1>2, <1>4, <1>5 DEF MatchInv

\* A print that competes is entered with its person.
LEMMA EnteredOnce ==
    ASSUME MatchInv, ScorePrint, Eligible(match.rows[match.at])
    PROVE  MatchInv'
<1> DEFINE row == match.rows[match.at]
           people == match.people
           later == Entered(people, row)
           own(v) == {n \in Seen \cup {match.at} : match.rows[n].person = v}
<1>1. /\ match \in [rows : Seq(Listing), at : Nat \ {0}, people : Seq(PersonEntry)]
      /\ match.at \in DOMAIN match.rows
      /\ match' = [match EXCEPT !.at = @ + 1, !.people = later]
  BY DEF MatchInv, ScorePrint
<1>2. row \in Listing /\ row.person \in Filed /\ row.score \in Nat /\ people \in Seq(PersonEntry)
  <2>1. row \in Listing /\ people \in Seq(PersonEntry)
    BY <1>1
  <2>2. QED
    BY <2>1 DEF Eligible, Listing
<1>3. match'.rows = match.rows /\ match'.at = match.at + 1 /\ match'.people = later
  BY <1>1
<1>4. DOMAIN match.rows = 1..Len(match.rows) /\ Len(match.rows) \in Nat /\ match.at \in Nat
  BY <1>1
<1>5. IsFiniteSet(Seen) /\ match.at \notin Seen /\ Seen' = Seen \cup {match.at}
  <2>1. IsFiniteSet(DOMAIN match.rows)
    BY <1>4, FS_Interval
  <2>2. IsFiniteSet(Seen)
    BY <2>1, FS_Subset DEF Seen
  <2>3. match.at \notin Seen
    BY <1>4 DEF Seen
  <2>4. \A n \in DOMAIN match.rows : n < match.at + 1 <=> n < match.at \/ n = match.at
    BY <1>4
  <2>5. Seen' = Seen \cup {match.at}
    BY <1>1, <1>3, <2>4 DEF Seen, Eligible
  <2>6. QED
    BY <2>2, <2>3, <2>5
<1>6. /\ \A v : IsFiniteSet(Own(v)) /\ Cardinality(Own(v)) \in Nat
      /\ \A v : v # row.person => own(v) = Own(v)
      /\ own(row.person) = Own(row.person) \cup {match.at}
      /\ Cardinality(own(row.person)) = Cardinality(Own(row.person)) + 1
  <2>1. \A v : IsFiniteSet(Own(v)) /\ Cardinality(Own(v)) \in Nat
    <3>1. ASSUME NEW v PROVE IsFiniteSet(Own(v)) /\ Cardinality(Own(v)) \in Nat
      <4>1. Own(v) \in SUBSET Seen
        BY DEF Own
      <4>2. QED
        BY <1>5, <4>1, FS_Subset, FS_CardinalityType
    <3>2. QED
      BY <3>1
  <2>2. \A v : v # row.person => own(v) = Own(v)
    BY DEF Own
  <2>3. own(row.person) = Own(row.person) \cup {match.at}
    BY DEF Own
  <2>4. match.at \notin Own(row.person)
    BY <1>5 DEF Own
  <2>5. QED
    BY <2>1, <2>2, <2>3, <2>4, FS_AddElement
<1>7. /\ \A n, m \in DOMAIN people : people[n].person = people[m].person => n = m
      /\ \A n \in Seen : \E m \in DOMAIN people :
            people[m].person = match.rows[n].person /\ match.rows[n].score <= people[m].score
      /\ \A m \in DOMAIN people :
            /\ \E n \in Own(people[m].person) : match.rows[n].score = people[m].score
            /\ people[m].count = Cardinality(Own(people[m].person))
  BY DEF MatchInv
<1>8. \A n \in Seen : n \in DOMAIN match.rows /\ match.rows[n].score \in Nat
  <2>1. \A n \in DOMAIN match.rows : match.rows[n] \in Listing
    BY <1>1
  <2>2. QED
    BY <2>1 DEF Seen, Listing
<1>9. \A m \in DOMAIN people : people[m] \in PersonEntry /\ people[m].score \in Nat /\ people[m].count \in Nat
  <2>1. \A m \in DOMAIN people : people[m] \in PersonEntry
    BY <1>2
  <2>2. QED
    BY <2>1 DEF PersonEntry
<1> SUFFICES /\ later \in Seq(PersonEntry)
             /\ \A n, m \in DOMAIN later : later[n].person = later[m].person => n = m
             /\ \A n \in Seen \cup {match.at} : \E m \in DOMAIN later :
                  later[m].person = match.rows[n].person /\ match.rows[n].score <= later[m].score
             /\ \A m \in DOMAIN later :
                  /\ \E n \in own(later[m].person) : match.rows[n].score = later[m].score
                  /\ later[m].count = Cardinality(own(later[m].person))
  <2>1. match' \in [rows : Seq(Listing), at : Nat \ {0}, people : Seq(PersonEntry)]
    <3>1. match.at + 1 \in Nat \ {0}
      BY <1>1
    <3> HIDE DEF later
    <3>2. QED
      BY <1>1, <3>1
  <2>2. \A v : Own(v)' = own(v)
    BY <1>3, <1>5 DEF Own
  <2> HIDE DEF later, own
  <2>3. QED
    BY <1>3, <1>5, <2>1, <2>2 DEF MatchInv
<1>10. CASE Ranked(people, row.person) = {}
  <2> DEFINE entry == [person |-> row.person, score |-> row.score, count |-> 1]
  <2>1. later = Append(people, entry) /\ entry \in PersonEntry
    BY <1>2, <1>10 DEF Entered, PersonEntry
  <2>2. \A m \in DOMAIN people : people[m].person # row.person
    BY <1>10 DEF Ranked
  <2>3. Own(row.person) = {}
    <3>1. ASSUME NEW n \in Own(row.person) PROVE FALSE
      BY <1>7, <2>2, <3>1 DEF Own
    <3>2. QED
      BY <3>1
  <2>4. own(row.person) = {match.at} /\ Cardinality(own(row.person)) = 1
    <3>1. own(row.person) = {match.at}
      BY <1>6, <2>3
    <3> HIDE DEF own
    <3>2. QED
      BY <3>1, FS_Singleton
  <2> DEFINE k == Len(people) + 1
  <2>5. /\ later \in Seq(PersonEntry) /\ DOMAIN later = DOMAIN people \cup {k} /\ k \notin DOMAIN people
        /\ later[k] = entry /\ \A m \in DOMAIN people : later[m] = people[m]
    BY <1>2, <2>1
  <2>6. later[k].person = row.person /\ later[k].score = row.score /\ later[k].count = 1
    BY <2>5
  <2> HIDE DEF later, own, people, row, k, entry
  <2>7. \A n, m \in DOMAIN later : later[n].person = later[m].person => n = m
    BY <1>7, <2>2, <2>5, <2>6
  <2>8. ASSUME NEW n \in Seen \cup {match.at}
        PROVE  \E m \in DOMAIN later :
                  later[m].person = match.rows[n].person /\ match.rows[n].score <= later[m].score
    <3>1. CASE n \in Seen
      BY <1>7, <2>5, <3>1
    <3>2. CASE n = match.at
      BY <1>2, <2>5, <2>6, <3>2 DEF row
    <3>3. QED
      BY <3>1, <3>2
  <2>9. ASSUME NEW m \in DOMAIN later
        PROVE  /\ \E n \in own(later[m].person) : match.rows[n].score = later[m].score
               /\ later[m].count = Cardinality(own(later[m].person))
    <3>1. CASE m = k
      BY <2>4, <2>6, <3>1 DEF row
    <3>2. CASE m \in DOMAIN people
      <4>1. later[m] = people[m] /\ people[m].person # row.person
        BY <2>2, <2>5, <3>2
      <4>2. own(people[m].person) = Own(people[m].person)
        BY <1>6, <4>1
      <4>3. QED
        BY <1>7, <3>2, <4>1, <4>2
    <3>3. QED
      BY <2>5, <3>1, <3>2
  <2>10. QED
    BY <2>5, <2>7, <2>8, <2>9
<1>11. CASE Ranked(people, row.person) # {}
  <2>1. PICK k \in DOMAIN people : people[k].person = row.person
    BY <1>11 DEF Ranked
  <2> DEFINE more(e) == [e EXCEPT !.count = @ + 1, !.score = IF row.score > @ THEN row.score ELSE @]
  <2>2. later = [n \in DOMAIN people |-> IF people[n].person # row.person THEN people[n] ELSE more(people[n])]
    BY <1>11 DEF Entered
  <2>3. /\ DOMAIN later = DOMAIN people /\ later[k] = more(people[k])
        /\ \A m \in DOMAIN people \ {k} : later[m] = people[m] /\ people[m].person # row.person
    <3>1. \A m \in DOMAIN people \ {k} : people[m].person # row.person
      BY <1>7, <2>1
    <3> HIDE DEF later, more, people, row
    <3>2. DOMAIN later = DOMAIN people
      BY <2>2
    <3>3. later[k] = more(people[k])
      BY <2>1, <2>2
    <3>4. \A m \in DOMAIN people \ {k} : later[m] = people[m]
      BY <2>2, <3>1
    <3>5. QED
      BY <3>1, <3>2, <3>3, <3>4
  <2>4. /\ more(people[k]).person = row.person /\ more(people[k]).count = people[k].count + 1
        /\ more(people[k]).score = IF row.score > people[k].score THEN row.score ELSE people[k].score
        /\ more(people[k]) \in PersonEntry
    <3>1. people[k] \in [person : Filed, score : Nat, count : Nat] /\ row.score \in Nat
      BY <1>2, <1>9 DEF PersonEntry
    <3> HIDE DEF people, row
    <3>2. \A e \in [person : Filed, score : Nat, count : Nat] :
             /\ more(e).person = e.person /\ more(e).count = e.count + 1
             /\ more(e).score = IF row.score > e.score THEN row.score ELSE e.score
             /\ more(e) \in [person : Filed, score : Nat, count : Nat]
      <4>1. ASSUME NEW e \in [person : Filed, score : Nat, count : Nat]
            PROVE  /\ more(e).person = e.person /\ more(e).count = e.count + 1
                   /\ more(e).score = IF row.score > e.score THEN row.score ELSE e.score
                   /\ more(e) \in [person : Filed, score : Nat, count : Nat]
        <5> DEFINE c == e.count + 1
                   t == IF row.score > e.score THEN row.score ELSE e.score
        <5>1. c \in Nat /\ t \in Nat
          BY <3>1
        <5>2. more(e) = [e EXCEPT !.count = c, !.score = t]
          OBVIOUS
        <5> HIDE DEF c, t, more
        <5>3. /\ more(e).person = e.person /\ more(e).count = c /\ more(e).score = t
              /\ more(e) \in [person : Filed, score : Nat, count : Nat]
          BY <5>1, <5>2
        <5>4. QED
          BY <5>3 DEF c, t
      <4>2. QED
        BY <4>1
    <3> HIDE DEF more
    <3>3. QED
      BY <2>1, <3>1, <3>2 DEF PersonEntry
  <2> HIDE DEF later, own, row, people, more
  <2>5. /\ later[k].person = row.person /\ later[k].count = people[k].count + 1
        /\ later[k].score = IF row.score > people[k].score THEN row.score ELSE people[k].score
    BY <2>3, <2>4
  <2>6. later \in Seq(PersonEntry)
    <3>1. \A m \in DOMAIN later : later[m] \in PersonEntry
      BY <1>9, <2>3, <2>4
    <3>2. DOMAIN later = 1..Len(people) /\ Len(people) \in Nat
      BY <1>2, <2>3
    <3>3. later = [m \in 1..Len(people) |-> later[m]]
      BY <2>2, <3>2 DEF later
    <3>4. QED
      BY <3>1, <3>2, <3>3
  <2>7. \A n, m \in DOMAIN later : later[n].person = later[m].person => n = m
    <3>1. \A m \in DOMAIN people : later[m].person = people[m].person
      BY <2>1, <2>3, <2>5
    <3>2. QED
      BY <1>7, <2>3, <3>1
  <2>8. row.score \in Nat /\ people[k].score \in Nat /\ row.score <= later[k].score /\ people[k].score <= later[k].score
    BY <1>2, <1>9, <2>1, <2>5
  <2>9. ASSUME NEW n \in Seen \cup {match.at}
        PROVE  \E m \in DOMAIN later :
                  later[m].person = match.rows[n].person /\ match.rows[n].score <= later[m].score
    <3>1. CASE n \in Seen
      <4>1. PICK m \in DOMAIN people :
                people[m].person = match.rows[n].person /\ match.rows[n].score <= people[m].score
        BY <1>7, <3>1
      <4>2. CASE m = k
        <5>1. match.rows[n].score \in Nat /\ later[k].score \in Nat
          BY <1>8, <2>5, <2>8, <3>1
        <5>2. QED
          BY <2>1, <2>3, <2>5, <2>8, <4>1, <4>2, <5>1
      <4>3. CASE m # k
        BY <2>3, <4>1, <4>3
      <4>4. QED
        BY <4>2, <4>3
    <3>2. CASE n = match.at
      BY <2>1, <2>3, <2>5, <2>8, <3>2 DEF row
    <3>3. QED
      BY <3>1, <3>2
  <2>10. ASSUME NEW m \in DOMAIN later
         PROVE  /\ \E n \in own(later[m].person) : match.rows[n].score = later[m].score
                /\ later[m].count = Cardinality(own(later[m].person))
    <3>1. CASE m = k
      <4>1. \E n \in own(row.person) : match.rows[n].score = later[k].score
        <5>1. CASE row.score > people[k].score
          BY <1>6, <2>5, <5>1 DEF row
        <5>2. CASE ~(row.score > people[k].score)
          BY <1>6, <1>7, <2>1, <2>5, <5>2
        <5>3. QED
          BY <5>1, <5>2
      <4>2. later[k].count = Cardinality(own(row.person))
        BY <1>6, <1>7, <2>1, <2>5
      <4>3. QED
        BY <2>5, <3>1, <4>1, <4>2
    <3>2. CASE m # k
      <4>1. m \in DOMAIN people /\ later[m] = people[m] /\ people[m].person # row.person
        BY <2>3, <3>2
      <4>2. own(people[m].person) = Own(people[m].person)
        BY <1>6, <4>1
      <4>3. QED
        BY <1>7, <4>1, <4>2
    <3>3. QED
      BY <3>1, <3>2
  <2>11. QED
    BY <2>6, <2>7, <2>9, <2>10
<1>12. QED
  BY <1>10, <1>11

\* A finite set of numbers has a greatest: the one that the fewest are above.
LEMMA GreatestNumber ==
    ASSUME NEW S \in SUBSET Nat, S # {}, IsFiniteSet(S)
    PROVE  \E m \in S : \A k \in S : k <= m
<1> DEFINE Above(m) == {k \in S : m < k}
           Sizes == {Cardinality(Above(m)) : m \in S}
<1>1. \A m \in S : IsFiniteSet(Above(m)) /\ Cardinality(Above(m)) \in Nat
  <2>1. ASSUME NEW m \in S PROVE IsFiniteSet(Above(m)) /\ Cardinality(Above(m)) \in Nat
    <3>1. Above(m) \in SUBSET S
      OBVIOUS
    <3>2. QED
      BY <3>1, FS_Subset, FS_CardinalityType
  <2>2. QED
    BY <2>1
<1>2. Sizes \in SUBSET Nat /\ Sizes # {}
  BY <1>1
<1>3. PICK least \in Sizes : \A k \in Sizes : least <= k
  <2> HIDE DEF Sizes
  <2>1. QED
    BY <1>2, LeastNumber
<1>4. PICK m \in S : least = Cardinality(Above(m))
  BY <1>3
<1>5. ASSUME NEW k \in S, m < k PROVE FALSE
  <2>1. k \in Nat /\ m \in Nat
    OBVIOUS
  <2>2. k \in Above(m) /\ k \notin Above(k) /\ Above(k) \in SUBSET Above(m)
    <3>1. k \in Above(m) /\ k \notin Above(k)
      BY <1>5, <2>1
    <3>2. \A j \in S : k < j => m < j
      BY <1>5, <2>1
    <3>3. QED
      BY <3>1, <3>2
  <2>3. Cardinality(Above(k)) \in Sizes
    OBVIOUS
  <2>4. Cardinality(Above(m)) <= Cardinality(Above(k))
    BY <1>3, <1>4, <2>3
  <2> HIDE DEF Above
  <2>5. Cardinality(Above(k)) <= Cardinality(Above(m)) /\ Cardinality(Above(k)) # Cardinality(Above(m))
    BY <1>1, <2>2, FS_Subset
  <2>6. Cardinality(Above(k)) \in Nat /\ Cardinality(Above(m)) \in Nat
    BY <1>1
  <2>7. \A i, j \in Nat : i <= j /\ j <= i => i = j
    OBVIOUS
  <2>8. QED
    BY <2>4, <2>5, <2>6, <2>7
<1>6. ASSUME NEW k \in S PROVE k <= m
  <2>1. k \in Nat /\ m \in Nat
    OBVIOUS
  <2>2. QED
    BY <1>5, <2>1
<1>7. QED
  BY <1>6

\* Of the people compared, one leads.
LEMMA OneLeads ==
    ASSUME NEW people \in Seq(PersonEntry), people # <<>>
    PROVE  /\ Leading(people) \in DOMAIN people
           /\ \A m \in DOMAIN people : people[m].score <= people[Leading(people)].score
<1> DEFINE D == DOMAIN people
           Scores == {people[n].score : n \in D}
<1>1. D = 1..Len(people) /\ Len(people) \in Nat /\ 1 \in D /\ IsFiniteSet(D)
  BY FS_Interval
<1>2. \A n \in D : people[n].score \in Nat
  <2>1. \A n \in D : people[n] \in PersonEntry
    OBVIOUS
  <2>2. QED
    BY <2>1 DEF PersonEntry
<1>3. Scores \in SUBSET Nat /\ Scores # {}
  BY <1>1, <1>2
<1>4. IsFiniteSet(Scores)
  <2> DEFINE of == [n \in D |-> people[n].score]
  <2>1. of \in Surjection(D, Scores)
    BY DEF Surjection
  <2>2. QED
    BY <1>1, <2>1, FS_Surjection
<1>5. PICK s \in Scores : \A k \in Scores : k <= s
  <2> HIDE DEF Scores
  <2>1. QED
    BY <1>3, <1>4, GreatestNumber
<1> DEFINE First == {n \in D : people[n].score = s}
<1>6. First \in SUBSET Nat /\ First # {}
  BY <1>1, <1>5
<1>7. PICK t \in First : \A n \in First : t <= n
  <2> HIDE DEF First
  <2>1. QED
    BY <1>6, LeastNumber
<1>8. t \in D /\ people[t].score = s /\ \A m \in D : people[m].score <= s
  BY <1>5, <1>7
<1>9. ASSUME NEW m \in D \ {t}
      PROVE  people[m].score < people[t].score \/ (people[m].score = people[t].score /\ t < m)
  <2>1. people[m].score \in Nat /\ s \in Nat /\ people[m].score <= s
    BY <1>2, <1>3, <1>8
  <2>2. CASE people[m].score = s
    <3>1. m \in First /\ t <= m /\ m \in Nat /\ t \in Nat
      BY <1>1, <1>7, <1>8, <2>2
    <3>2. t < m
      BY <3>1
    <3>3. QED
      BY <1>8, <2>2, <3>2
  <2>3. CASE people[m].score # s
    BY <1>8, <2>1, <2>3
  <2>4. QED
    BY <2>2, <2>3
<1> HIDE DEF D, Scores, First
<1>10. \E n \in D : \A m \in D \ {n} :
          people[m].score < people[n].score \/ (people[m].score = people[n].score /\ n < m)
  BY <1>8, <1>9
<1> DEFINE lead == Leading(people)
<1>11. lead \in D /\ \A m \in D \ {lead} :
          people[m].score < people[lead].score \/ (people[m].score = people[lead].score /\ lead < m)
  BY <1>10 DEF Leading, D
<1> HIDE DEF lead
<1>12. \A m \in D : people[m].score <= people[lead].score
  BY <1>2, <1>11
<1>13. QED
  BY <1>11, <1>12 DEF lead, D

\* Judging the leader by the greatest of the others is judging it by all of them.
LEMMA JudgedByTheNext ==
    ASSUME NEW top \in Nat, NEW others \in SUBSET Nat, IsFiniteSet(others)
    PROVE  Decide(top, {s \in others : \A t \in others : t <= s}) = Decide(top, others)
<1> DEFINE next == {s \in others : \A t \in others : t <= s}
<1>1. ASSUME NEW t \in others, top < t + Margin PROVE \E s \in next : top < s + Margin
  <2>1. PICK s \in others : \A u \in others : u <= s
    BY GreatestNumber
  <2>2. t \in Nat /\ s \in Nat /\ t <= s /\ Margin \in Nat
    BY <2>1, GalleryAssumption
  <2>3. top < s + Margin
    BY <1>1, <2>2
  <2>4. QED
    BY <2>1, <2>3
<1>2. (\E s \in next : top < s + Margin) <=> (\E s \in others : top < s + Margin)
  BY <1>1
<1> HIDE DEF next
<1>3. QED
  BY <1>2 DEF Decide, next

\* Once every row is dealt with, the person found in memory is the one found in one statement.
LEMMA VerdictsAgree ==
    ASSUME MatchInv, match.at > Len(match.rows), Margin > 0
    PROVE  Verdict(match.people) = BatchVerdict(match.rows)
<1> DEFINE rows     == match.rows
           list     == match.people
           D        == DOMAIN list
           eligible == {n \in DOMAIN rows : Eligible(rows[n])}
           people   == {rows[n].person : n \in eligible}
           own(v)   == {n \in eligible : rows[n].person = v}
           best(v)  == CHOOSE s \in {rows[n].score : n \in own(v)} : \A n \in own(v) : rows[n].score <= s
           winners  == {v \in people : \A u \in people : best(u) <= best(v)}
           named(v) == /\ v \in winners
                       /\ Decide(best(v), {best(u) : u \in people \ {v}}) = "SUGGESTED"
           refused  == [decision |-> IF \E v \in winners : best(v) >= Coherence THEN "AMBIGUOUS" ELSE "UNKNOWN",
                        person |-> Anyone, count |-> 0]
<1>1. BatchVerdict(rows) =
        IF \E v \in people : named(v)
        THEN [decision |-> "SUGGESTED", person |-> CHOOSE u \in people : named(u),
              count |-> Cardinality(own(CHOOSE u \in people : named(u)))]
        ELSE refused
  BY DEF BatchVerdict
<1>2. /\ rows \in Seq(Listing) /\ match.at \in Nat /\ list \in Seq(PersonEntry)
      /\ \A n, m \in D : list[n].person = list[m].person => n = m
  BY DEF MatchInv
<1>3. Seen = eligible
  <2>1. \A n \in DOMAIN rows : n < match.at
    BY <1>2
  <2>2. QED
    BY <2>1 DEF Seen
<1>4. \A v : Own(v) = own(v)
  BY <1>3 DEF Own
<1>5. /\ \A n \in eligible : \E m \in D : list[m].person = rows[n].person /\ rows[n].score <= list[m].score
      /\ \A m \in D : /\ \E n \in own(list[m].person) : rows[n].score = list[m].score
                      /\ list[m].count = Cardinality(own(list[m].person))
  BY <1>3, <1>4 DEF MatchInv
<1>6. \A m \in D : list[m] \in [person : Filed, score : Nat, count : Nat]
  <2>1. \A m \in D : list[m] \in PersonEntry
    BY <1>2
  <2>2. QED
    BY <2>1 DEF PersonEntry
<1>7. \A n \in eligible : rows[n].score \in Nat
  <2>1. \A n \in DOMAIN rows : rows[n] \in Listing
    BY <1>2
  <2>2. QED
    BY <2>1 DEF Listing
<1>8. \A m \in D : list[m].person \in people
  BY <1>5
<1>9. \A v \in people : \E m \in D : list[m].person = v
  BY <1>5
<1>10. \A m \in D : best(list[m].person) = list[m].score
  <2>1. ASSUME NEW m \in D PROVE best(list[m].person) = list[m].score
    <3> DEFINE v == list[m].person
               scores == {rows[n].score : n \in own(v)}
               Best(s) == s \in scores /\ \A n \in own(v) : rows[n].score <= s
    <3>1. Best(list[m].score)
      <4>1. list[m].score \in scores
        BY <1>5
      <4>2. ASSUME NEW n \in own(v) PROVE rows[n].score <= list[m].score
        <5>1. PICK k \in D : list[k].person = rows[n].person /\ rows[n].score <= list[k].score
          BY <1>5, <4>2
        <5>2. k = m
          BY <1>2, <4>2, <5>1
        <5>3. QED
          BY <5>1, <5>2
      <4>3. QED
        BY <4>1, <4>2
    <3>2. ASSUME NEW s, NEW t, Best(s), Best(t) PROVE s = t
      <4>1. /\ s \in Nat /\ t \in Nat
            /\ \E n \in own(v) : s = rows[n].score
            /\ \E n \in own(v) : t = rows[n].score
        BY <1>7, <3>2
      <4>2. s <= t /\ t <= s
        BY <3>2, <4>1
      <4>3. QED
        BY <4>1, <4>2
    <3>3. best(v) = CHOOSE s : Best(s)
      OBVIOUS
    <3> HIDE DEF Best
    <3>4. Best(CHOOSE s : Best(s))
      BY <3>1
    <3>5. (CHOOSE s : Best(s)) = list[m].score
      BY <3>1, <3>2, <3>4
    <3>6. QED
      BY <3>3, <3>5
  <2>2. QED
    BY <2>1
<1> HIDE DEF rows, list, D, eligible, own, best
<1>11. CASE list = <<>>
  <2>1. D = {} /\ people = {}
    <3>1. D = {}
      BY <1>11 DEF D
    <3> HIDE DEF people
    <3>2. QED
      BY <1>9, <3>1
  <2>2. refused = [decision |-> "UNKNOWN", person |-> Anyone, count |-> 0]
    BY <2>1
  <2>3. QED
    BY <1>1, <1>11, <2>1, <2>2 DEF Verdict, rows, list
<1>12. CASE list # <<>>
  <2> DEFINE top    == Leading(list)
             lead   == list[top].person
             score  == list[top].score
             others == {list[m].score : m \in D \ {top}}
             next   == {s \in others : \A t \in others : t <= s}
             found  == Decide(score, next)
  <2>1. top \in D /\ \A m \in D : list[m].score <= score
    BY <1>2, <1>12, OneLeads DEF D
  <2>2. Verdict(list) = [decision |-> found,
                         person |-> IF found = "SUGGESTED" THEN lead ELSE Anyone,
                         count |-> IF found = "SUGGESTED" THEN list[top].count ELSE 0]
    BY <1>12 DEF Verdict, D
  <2>3. score \in Nat /\ others \in SUBSET Nat /\ IsFiniteSet(others)
    <3>1. score \in Nat /\ others \in SUBSET Nat
      BY <1>6, <2>1
    <3> DEFINE of == [m \in D \ {top} |-> list[m].score]
    <3>2. IsFiniteSet(D \ {top})
      <4>1. D = 1..Len(list) /\ Len(list) \in Nat
        BY <1>2 DEF D
      <4>2. IsFiniteSet(D)
        BY <4>1, FS_Interval
      <4> HIDE DEF top
      <4>3. QED
        BY <4>2, FS_Subset
    <3>3. of \in Surjection(D \ {top}, others)
      BY DEF Surjection
    <3>4. QED
      BY <3>1, <3>2, <3>3, FS_Surjection
  <2>4. found = Decide(score, others)
    BY <2>3, JudgedByTheNext
  <2> HIDE DEF top, others, next, found
  <2>5. lead \in people /\ best(lead) = score
    BY <1>8, <1>10, <2>1
  <2>6. \A v \in people : best(v) \in Nat /\ best(v) <= score
    <3>1. ASSUME NEW v \in people PROVE best(v) \in Nat /\ best(v) <= score
      <4>1. PICK m \in D : list[m].person = v
        BY <1>9
      <4>2. best(v) = list[m].score /\ list[m].score \in Nat
        BY <1>6, <1>10, <4>1
      <4>3. QED
        BY <2>1, <4>2
    <3>2. QED
      BY <3>1
  <2>7. {best(u) : u \in people \ {lead}} = others
    <3>1. ASSUME NEW u \in people \ {lead} PROVE best(u) \in others
      <4>1. PICK m \in D : list[m].person = u
        BY <1>9
      <4>2. m # top /\ best(u) = list[m].score
        BY <1>10, <3>1, <4>1
      <4>3. QED
        BY <4>2 DEF others
    <3>2. ASSUME NEW m \in D \ {top}
          PROVE  \E u \in people \ {lead} : best(u) = list[m].score
      <4>1. list[m].person \in people /\ list[m].person # lead /\ best(list[m].person) = list[m].score
        BY <1>2, <1>8, <1>10, <2>1, <3>2
      <4>2. QED
        BY <4>1
    <3>3. QED
      BY <3>1, <3>2 DEF others
  <2>8. Margin \in Nat /\ Margin > 0 /\ Coherence \in Nat
    BY GalleryAssumption
  <2>9. lead \in winners
    BY <2>5, <2>6
  <2>10. \A v \in winners : v \in people /\ best(v) = score
    <3>1. ASSUME NEW v \in winners PROVE v \in people /\ best(v) = score
      <4>1. v \in people /\ best(lead) <= best(v)
        BY <2>5
      <4>2. QED
        BY <2>3, <2>5, <2>6, <4>1
    <3>2. QED
      BY <3>1
  <2>11. ASSUME NEW v \in people, named(v) PROVE v = lead
    <3>1. SUFFICES ASSUME v # lead PROVE FALSE
      OBVIOUS
    <3>2. best(v) = score /\ Decide(score, {best(u) : u \in people \ {v}}) = "SUGGESTED"
      BY <2>10, <2>11
    <3>3. score \in {best(u) : u \in people \ {v}} /\ score < score + Margin
      BY <2>3, <2>5, <2>8, <3>1
    <3>4. Decide(score, {best(u) : u \in people \ {v}}) # "SUGGESTED"
      BY <3>3 DEF Decide
    <3>5. QED
      BY <3>2, <3>4
  <2>12. named(lead) <=> found = "SUGGESTED"
    BY <2>4, <2>5, <2>7, <2>9
  <2>13. CASE found = "SUGGESTED"
    <3>1. named(lead)
      BY <2>12, <2>13
    <3> HIDE DEF named
    <3>2. (CHOOSE u \in people : named(u)) = lead /\ \E v \in people : named(v)
      BY <2>5, <2>11, <3>1
    <3>3. BatchVerdict(rows) = [decision |-> "SUGGESTED", person |-> lead, count |-> Cardinality(own(lead))]
      BY <1>1, <3>2
    <3>4. list[top].count = Cardinality(own(lead))
      BY <1>5, <2>1
    <3>5. QED
      BY <2>2, <2>13, <3>3, <3>4 DEF rows, list
  <2>14. CASE found # "SUGGESTED"
    <3>1. ~\E v \in people : named(v)
      BY <2>11, <2>12, <2>14
    <3>2. found = IF score >= Coherence THEN "AMBIGUOUS" ELSE "UNKNOWN"
      BY <2>3, <2>4, <2>8, <2>14 DEF Decide
    <3>3. (\E v \in winners : best(v) >= Coherence) <=> score >= Coherence
      BY <2>9, <2>10
    <3>4. refused = [decision |-> found, person |-> Anyone, count |-> 0]
      BY <3>2, <3>3
    <3> HIDE DEF named, refused
    <3>5. BatchVerdict(rows) = [decision |-> found, person |-> Anyone, count |-> 0]
      BY <1>1, <3>1, <3>4
    <3>6. QED
      BY <2>2, <2>14, <3>5 DEF rows, list
  <2>15. QED
    BY <2>13, <2>14
<1>13. QED
  BY <1>11, <1>12

LEMMA ScoreKeeps == ASSUME MatchInv, ScorePrint PROVE MatchInv'
<1>1. QED
  BY PassedOver, EnteredOnce

GalleryInv == CheckInv /\ MatchInv

LEMMA GalleryStep == GalleryInv /\ [GalleryNext]_galleryVars => GalleryInv'
<1> SUFFICES ASSUME GalleryInv, [GalleryNext]_galleryVars PROVE GalleryInv'
  OBVIOUS
<1>1. ASSUME ScorePrint PROVE GalleryInv'
  <2>1. check' = check /\ active' \subseteq Enrolled /\ UNCHANGED <<likeness, identifier, modelOf>>
    BY <1>1 DEF ScorePrint, GalleryInv, CheckInv
  <2>2. QED
    BY <1>1, <2>1, ScoreKeeps, CheckKeeps DEF GalleryInv
<1>2. ASSUME UNCHANGED match PROVE MatchInv'
  <2>1. Seen' = Seen /\ \A v : Own(v)' = Own(v)
    BY <1>2 DEF Seen, Own, Eligible
  <2>2. QED
    BY <1>2, <2>1 DEF GalleryInv, MatchInv
<1>3. ASSUME CheckSteps PROVE GalleryInv'
  <2>1. UNCHANGED match
    BY <1>3 DEF CheckSteps, Toggle, ListPrints, ComparePairs, Unite, Report
  <2>2. CheckInv'
    BY <1>3, ToggleKeeps, ListKeeps, CompareKeeps, UniteKeeps, ReportKeeps DEF CheckSteps, GalleryInv
  <2>3. QED
    BY <1>2, <2>1, <2>2 DEF GalleryInv
<1>4. ASSUME UNCHANGED galleryVars PROVE GalleryInv'
  <2>1. /\ check' = check /\ active' \subseteq Enrolled /\ UNCHANGED <<likeness, identifier, modelOf>>
        /\ UNCHANGED match
    BY <1>4 DEF galleryVars, GalleryInv, CheckInv
  <2>2. QED
    BY <1>2, <2>1, CheckKeeps DEF GalleryInv
<1>5. QED
  BY <1>1, <1>3, <1>4 DEF GalleryNext

\* However alike the prints are, in whatever order their identifiers are, and whatever is retired
\* between listing and comparing: union-find with path halving puts two prints in one component
\* exactly if a chain of comparisons joins them, and calls a person coherent only if every print
\* was compared; and the loop of best_match names the same person as the one statement.
THEOREM PrintsAreGrouped == GallerySpec => [](GalleryTypeOK /\ GalleryHolds)
<1>1. GalleryInit => GalleryInv
  BY CheckInitInv, MatchInitInv DEF GalleryInv
<1>2. GalleryInv => GalleryHolds
  BY VerdictsAgree DEF GalleryInv, CheckInv, GalleryHolds, SameVerdict
<1>3. GalleryInv => GalleryTypeOK
  BY DEF GalleryInv, CheckInv, TreesInv, Within, Checks, GalleryTypeOK
<1>4. QED
  BY <1>1, <1>2, <1>3, GalleryStep, PTL DEF GallerySpec

-----------------------------------------------------------------------------
(* Lists in order *)

\* Where every place comes after fewer or more of the others, one of them comes after exactly k.
LEMMA RankedOnce ==
    ASSUME NEW D, IsFiniteSet(D), NEW P \in [D -> SUBSET D],
           \A n \in D : n \in P[n],
           \A m, n \in D : P[m] \subseteq P[n] \/ P[n] \subseteq P[m],
           \A m, n \in D : m \in P[n] /\ n \in P[m] => m = n
    PROVE  /\ \A n \in D : Cardinality(P[n]) \in 1..Cardinality(D)
           /\ \A m, n \in D : Cardinality(P[m]) = Cardinality(P[n]) => m = n
           /\ \A m, n \in D : Cardinality(P[m]) < Cardinality(P[n]) => n \notin P[m]
           /\ \A k \in 1..Cardinality(D) : \E n \in D : Cardinality(P[n]) = k
<1> DEFINE size(n) == Cardinality(P[n])
           N == Cardinality(D)
<1>1. \A n \in D : IsFiniteSet(P[n]) /\ size(n) \in Nat /\ size(n) <= N
  <2>1. ASSUME NEW n \in D PROVE IsFiniteSet(P[n]) /\ size(n) \in Nat /\ size(n) <= N
    <3>1. P[n] \in SUBSET D
      OBVIOUS
    <3>2. QED
      BY <3>1, FS_Subset, FS_CardinalityType
  <2>2. QED
    BY <2>1
<1>2. \A m, n \in D : P[m] \subseteq P[n] => size(m) <= size(n) /\ (size(m) = size(n) => P[m] = P[n])
  <2>1. ASSUME NEW m \in D, NEW n \in D, P[m] \subseteq P[n]
        PROVE  size(m) <= size(n) /\ (size(m) = size(n) => P[m] = P[n])
    <3>1. P[m] \in SUBSET P[n] /\ IsFiniteSet(P[n])
      BY <1>1, <2>1
    <3>2. QED
      BY <3>1, FS_Subset
  <2>2. QED
    BY <2>1
<1>3. N \in Nat
  BY FS_CardinalityType
<1>4. \A m, n \in D : size(m) = size(n) => m = n
  <2>1. ASSUME NEW m \in D, NEW n \in D, size(m) = size(n) PROVE m = n
    <3>1. P[m] = P[n]
      BY <1>2, <2>1
    <3>2. QED
      BY <3>1
  <2>2. QED
    BY <2>1
<1>5. \A m, n \in D : size(m) < size(n) => n \notin P[m]
  <2>1. ASSUME NEW m \in D, NEW n \in D, size(m) < size(n), n \in P[m] PROVE FALSE
    <3>1. ~(P[n] \subseteq P[m])
      BY <1>1, <1>2, <2>1
    <3>2. P[m] \subseteq P[n]
      BY <3>1
    <3>3. m \in P[n]
      BY <3>2
    <3>4. m = n
      BY <2>1, <3>3
    <3>5. QED
      BY <3>1, <3>4
  <2>2. QED
    BY <2>1
<1>6. \A n \in D : size(n) \in 1..N
  <2>1. ASSUME NEW n \in D PROVE size(n) # 0
    <3>1. P[n] # {}
      OBVIOUS
    <3>2. QED
      BY <1>1, <3>1, FS_EmptySet
  <2>2. QED
    BY <1>1, <1>3, <2>1
<1> DEFINE f == [n \in D |-> size(n)]
<1>7. f \in Injection(D, 1..N)
  <2>1. f \in [D -> 1..N] /\ \A n \in D : f[n] = size(n)
    BY <1>6
  <2> HIDE DEF f, size
  <2>2. QED
    BY <1>4, <2>1 DEF Injection, IsInjective
<1>8. IsFiniteSet(1..N) /\ Cardinality(1..N) = N
  <2>1. 1 \in Int /\ N \in Int
    BY <1>3
  <2>2. QED
    BY <1>3, <2>1, FS_Interval
<1>9. f \in Surjection(D, 1..N)
  <2> HIDE DEF f
  <2>1. QED
    BY <1>7, <1>8, FS_Injection
<1>10. \A k \in 1..N : \E n \in D : size(n) = k
  BY <1>9 DEF Surjection
<1>11. QED
  BY <1>4, <1>5, <1>6, <1>10

\* Where each member of Picked comes from.
Takes(s, places, at) ==
    /\ at \in [1..Cardinality(places) -> places]
    /\ Picked(s, places) = [k \in 1..Cardinality(places) |-> s[at[k]]]
    /\ \A n \in places : \E k \in 1..Cardinality(places) : at[k] = n
    /\ \A j, k \in 1..Cardinality(places) : at[j] = at[k] => j = k

\* Each place gives Picked one member.
LEMMA PickedOnce ==
    ASSUME NEW s, NEW places \in SUBSET Nat, IsFiniteSet(places)
    PROVE  Cardinality(places) \in Nat /\ \E at : Takes(s, places, at)
<1> DEFINE P == [n \in places |-> {m \in places : m <= n}]
           N == Cardinality(places)
           at(k) == CHOOSE n \in places : Cardinality({m \in places : m <= n}) = k
<1>1. /\ P \in [places -> SUBSET places]
      /\ \A n \in places : n \in P[n]
      /\ \A m, n \in places : P[m] \subseteq P[n] \/ P[n] \subseteq P[m]
      /\ \A m, n \in places : m \in P[n] /\ n \in P[m] => m = n
  <2>1. P \in [places -> SUBSET places]
    OBVIOUS
  <2>2. \A m \in places, n \in places : m \in P[n] <=> m <= n
    OBVIOUS
  <2>3. \A m, n, k \in Nat : (m <= n \/ n <= m) /\ (m <= n /\ n <= m => m = n) /\ (m <= n /\ n <= k => m <= k)
    OBVIOUS
  <2>4. \A n \in places : n \in P[n]
    BY <2>2, <2>3
  <2>5. \A m, n \in places : P[m] \subseteq P[n] \/ P[n] \subseteq P[m]
    <3>1. ASSUME NEW m \in places, NEW n \in places, m <= n PROVE P[m] \subseteq P[n]
      BY <2>3, <3>1
    <3>2. QED
      BY <2>3, <3>1
  <2>6. \A m, n \in places : m \in P[n] /\ n \in P[m] => m = n
    BY <2>2, <2>3
  <2>7. QED
    BY <2>1, <2>4, <2>5, <2>6
<1>2. /\ \A n \in places : Cardinality(P[n]) \in 1..N
      /\ \A m, n \in places : Cardinality(P[m]) = Cardinality(P[n]) => m = n
      /\ \A k \in 1..N : \E n \in places : Cardinality(P[n]) = k
  <2> HIDE DEF P
  <2>1. QED
    BY <1>1, RankedOnce
<1>3. \A n \in places : P[n] = {m \in places : m <= n}
  OBVIOUS
<1>4. \A k \in 1..N : at(k) \in places /\ Cardinality(P[at(k)]) = k
  <2>1. ASSUME NEW k \in 1..N PROVE at(k) \in places /\ Cardinality(P[at(k)]) = k
    <3>1. PICK n \in places : Cardinality(P[n]) = k
      BY <1>2
    <3>2. Cardinality({m \in places : m <= n}) = k
      BY <1>3, <3>1
    <3>3. at(k) \in places /\ Cardinality({m \in places : m <= at(k)}) = k
      BY <3>2
    <3>4. QED
      BY <1>3, <3>3
  <2>2. QED
    BY <2>1
<1>5. \A n \in places : at(Cardinality(P[n])) = n
  BY <1>2, <1>4
<1> DEFINE f == [k \in 1..N |-> at(k)]
<1> HIDE DEF P, at
<1>6. Picked(s, places) = [k \in 1..N |-> s[f[k]]]
  BY DEF Picked, at
<1>7. N \in Nat
  BY FS_CardinalityType
<1>8. f \in [1..N -> places] /\ \A k \in 1..N : Cardinality(P[f[k]]) = k
  BY <1>4
<1>9. \A n \in places : Cardinality(P[n]) \in 1..N /\ f[Cardinality(P[n])] = n
  BY <1>2, <1>5
<1> HIDE DEF f
<1>10. \A j, k \in 1..N : f[j] = f[k] => j = k
  BY <1>8
<1>11. \A n \in places : \E k \in 1..N : f[k] = n
  BY <1>9
<1>12. Takes(s, places, f)
  BY <1>6, <1>8, <1>10, <1>11 DEF Takes
<1>13. QED
  BY <1>7, <1>12

\* Picked holds what is at the places, and nothing else.
LEMMA PickedHolds ==
    ASSUME NEW s, NEW places \in SUBSET Nat, IsFiniteSet(places)
    PROVE  /\ Cardinality(places) \in Nat /\ DOMAIN Picked(s, places) = 1..Cardinality(places)
           /\ Picked(s, places) = [k \in 1..Cardinality(places) |-> Picked(s, places)[k]]
           /\ \A k \in DOMAIN Picked(s, places) : \E n \in places : Picked(s, places)[k] = s[n]
           /\ \A n \in places : \E k \in DOMAIN Picked(s, places) : Picked(s, places)[k] = s[n]
<1>1. PICK at : Takes(s, places, at)
  BY PickedOnce
<1>2. Cardinality(places) \in Nat
  BY PickedOnce
<1>3. QED
  BY <1>1, <1>2 DEF Takes

\* A sorted list holds the same turns, none before one that is earlier.
LEMMA SortedHolds ==
    ASSUME NEW s \in Seq(Turns)
    PROVE  /\ Sorted(s) \in Seq(Turns) /\ DOMAIN Sorted(s) = DOMAIN s
           /\ \A k \in DOMAIN s : \E n \in DOMAIN s : Sorted(s)[k] = s[n]
           /\ \A n \in DOMAIN s : \E k \in DOMAIN s : Sorted(s)[k] = s[n]
           /\ \A i, j \in DOMAIN s : i < j => Sorted(s)[i].start <= Sorted(s)[j].start
<1> DEFINE D == DOMAIN s
           N == Len(s)
           P == [n \in D |-> {m \in D : Ahead(s, m, n)}]
           at(k) == CHOOSE n \in D : Cardinality({m \in D : Ahead(s, m, n)}) = k
<1>1. N \in Nat /\ D = 1..N /\ IsFiniteSet(D) /\ Cardinality(D) = N
  <2>1. N \in Nat /\ D = 1..N
    OBVIOUS
  <2>2. 1 \in Int /\ N \in Int
    BY <2>1
  <2>3. QED
    BY <2>1, <2>2, FS_Interval
<1>2. \A n \in D : s[n].start \in Nat /\ s[n].end \in Nat
  <2>1. \A n \in D : s[n] \in Turns
    OBVIOUS
  <2>2. QED
    BY <2>1, SegmentsAssumption DEF Turns, Times
<1>3. \A m, n \in D : Ahead(s, m, n) <=>
         \/ s[m].start < s[n].start
         \/ s[m].start = s[n].start /\ s[m].end < s[n].end
         \/ s[m].start = s[n].start /\ s[m].end = s[n].end /\ m <= n
  BY <1>1, <1>2 DEF Ahead, Earlier
<1>4. /\ P \in [D -> SUBSET D]
      /\ \A m, n \in D : m \in P[n] <=> Ahead(s, m, n)
  OBVIOUS
<1> HIDE DEF P
<1>5. \A n \in D : n \in P[n]
  BY <1>1, <1>2, <1>3, <1>4
<1>6. \A m, n \in D : Ahead(s, m, n) \/ Ahead(s, n, m)
  BY <1>1, <1>2, <1>3
<1>7. \A m, n \in D : m \in P[n] /\ n \in P[m] => m = n
  <2>1. \A n \in D : n \in Nat
    BY <1>1
  <2>2. \A m, n \in D : Ahead(s, m, n) /\ Ahead(s, n, m) => m = n
    BY <1>2, <1>3, <2>1
  <2>3. QED
    BY <1>4, <2>2
<1>8. \A k, m, n \in D : Ahead(s, k, m) /\ Ahead(s, m, n) => Ahead(s, k, n)
  BY <1>1, <1>2, <1>3, SMTT(30)
<1>9. \A m, n \in D : P[m] \subseteq P[n] \/ P[n] \subseteq P[m]
  <2>1. ASSUME NEW m \in D, NEW n \in D, Ahead(s, m, n) PROVE P[m] \subseteq P[n]
    BY <1>4, <1>8, <2>1
  <2>2. QED
    BY <1>6, <2>1
<1>10. /\ \A n \in D : Cardinality(P[n]) \in 1..N
       /\ \A m, n \in D : Cardinality(P[m]) = Cardinality(P[n]) => m = n
       /\ \A m, n \in D : Cardinality(P[m]) < Cardinality(P[n]) => n \notin P[m]
       /\ \A k \in 1..N : \E n \in D : Cardinality(P[n]) = k
  BY <1>1, <1>4, <1>5, <1>7, <1>9, RankedOnce
<1>11. \A n \in D : P[n] = {m \in D : Ahead(s, m, n)}
  BY DEF P
<1>12. \A k \in D : at(k) \in D /\ Cardinality(P[at(k)]) = k
  <2>1. ASSUME NEW k \in D PROVE at(k) \in D /\ Cardinality(P[at(k)]) = k
    <3>1. PICK n \in D : Cardinality(P[n]) = k
      BY <1>1, <1>10
    <3>2. Cardinality({m \in D : Ahead(s, m, n)}) = k
      BY <1>11, <3>1
    <3> HIDE DEF D
    <3>3. at(k) \in D /\ Cardinality({m \in D : Ahead(s, m, at(k))}) = k
      BY <3>2
    <3>4. QED
      BY <1>11, <3>3
  <2>2. QED
    BY <2>1
<1>13. \A n \in D : at(Cardinality(P[n])) = n /\ Cardinality(P[n]) \in D
  BY <1>1, <1>10, <1>12
<1> HIDE DEF at
<1>14. Sorted(s) = [k \in D |-> s[at(k)]]
  BY DEF Sorted, at
<1>15. Sorted(s) \in Seq(Turns)
  <2>1. \A k \in D : s[at(k)] \in Turns
    BY <1>12
  <2>2. QED
    BY <1>1, <1>14, <2>1
<1>16. ASSUME NEW i \in D, NEW j \in D, i < j
       PROVE  Sorted(s)[i].start <= Sorted(s)[j].start
  <2>1. at(i) \in D /\ at(j) \in D /\ at(j) \notin P[at(i)]
    BY <1>10, <1>12, <1>16
  <2>2. ~Ahead(s, at(j), at(i))
    BY <1>4, <2>1
  <2>3. Sorted(s)[i] = s[at(i)] /\ Sorted(s)[j] = s[at(j)]
    BY <1>14
  <2>4. QED
    BY <1>2, <1>3, <2>1, <2>2, <2>3
<1> HIDE DEF D
<1>17. DOMAIN Sorted(s) = D
  BY <1>14
<1>18. \A k \in D : \E n \in D : Sorted(s)[k] = s[n]
  BY <1>12, <1>14
<1>19. \A n \in D : \E k \in D : Sorted(s)[k] = s[n]
  BY <1>13, <1>14
<1>20. QED
  BY <1>15, <1>16, <1>17, <1>18, <1>19 DEF D

-----------------------------------------------------------------------------
(* From turns to windows *)

\* A turn that lies within one region of speech; without a detector every turn does.
InSpeech(t) ==
    speech = <<>> \/ \E r \in DOMAIN speech : speech[r].start <= t.start /\ t.end <= speech[r].end

\* A turn is short enough, or as it was when it was tidied.
Fits(t) == Length(t) <= MaxLength \/ InSpeech(t)

\* The turns that are still to be dealt with, and what was made of the others.
InHandNow == {spans[n] : n \in DOMAIN spans} \cup {out[n] : n \in DOMAIN out}

\* No instant of a tidied turn is lost.
AllKept(pieces) ==
    \A n \in DOMAIN tidied : \A tick \in tidied[n].start..(tidied[n].end - 1) :
        \E x \in pieces : x.label = tidied[n].label /\ Covers(x, tick)

\* Where somebody else begins to speak in a piece, its own speaker was speaking too.
OwnVoice(x) ==
    \A n \in DOMAIN tidied :
        tidied[n].label # x.label /\ Covers(x, tidied[n].start) =>
            \E k \in DOMAIN tidied : tidied[k].label = x.label /\ Covers(tidied[k], tidied[n].start)

Planned == {"merge", "split_long", "build_windows"}

SegmentsInv ==
    /\ todo \in {"clean", "trim_to_vad", "drop_tiny", "planned"} \cup Planned
    /\ speech \in SpeechSets /\ spans \in Seq(Turns) /\ tidied \in Seq(Turns)
    /\ todo # "planned" => out \in Seq(Turns)
    /\ todo \in {"clean", "trim_to_vad", "drop_tiny", "build_windows"} => out = <<>>
    /\ todo # "clean" => \A n \in DOMAIN spans : Length(spans[n]) > 0
    /\ todo = "drop_tiny" => \A n \in DOMAIN spans : InSpeech(spans[n])
    /\ \A n \in DOMAIN tidied : Length(tidied[n]) > 0 /\ InSpeech(tidied[n])
    /\ todo \in Planned =>
          /\ AllKept(InHandNow)
          /\ \A x \in InHandNow : Length(x) > 0 /\ OwnVoice(x)
    /\ todo = "merge" => \A n \in DOMAIN spans : \E k \in DOMAIN tidied : spans[n] = tidied[k]
    /\ todo = "merge" => \A n \in DOMAIN out : Fits(out[n])
    /\ todo = "split_long" => \A n \in DOMAIN spans : Fits(spans[n])
    /\ todo = "split_long" => \A n \in DOMAIN out : Length(out[n]) <= MaxLength
    /\ todo = "build_windows" =>
          /\ \A n \in DOMAIN spans : Length(spans[n]) <= MaxLength
          /\ \A m, n \in DOMAIN spans : m < n => spans[m].start <= spans[n].start
    /\ SegmentsHold

LEMMA TurnTimes ==
    ASSUME NEW t \in Turns
    PROVE  t.label \in Heard /\ t.start \in Nat /\ t.end \in Nat /\ t.start <= Duration + 1 /\ t.end <= Duration + 1
           /\ Duration \in Nat /\ Length(t) = t.end - t.start
  BY SegmentsAssumption DEF Turns, Times, Length

LEMMA SegmentsInitInv == SegmentsInit => SegmentsInv
<1> SUFFICES ASSUME SegmentsInit PROVE SegmentsInv
  OBVIOUS
<1>1. todo = "clean" /\ tidied = <<>> /\ out = <<>> /\ speech \in SpeechSets
  BY DEF SegmentsInit
<1>2. PICK n \in 0..MaxTurns : spans \in [1..n -> {t \in Turns : t.start <= t.end}]
  BY DEF SegmentsInit
<1>3. spans \in Seq(Turns)
  <2>1. n \in Nat
    BY <1>2, SegmentsAssumption
  <2>2. spans \in [1..n -> Turns]
    BY <1>2
  <2>3. QED
    BY <2>1, <2>2
<1>4. SegmentsHold
  BY <1>1 DEF SegmentsHold, SpeechPlanned, WindowsApart
<1>5. QED
  BY <1>1, <1>3, <1>4 DEF SegmentsInv, Planned

LEMMA NothingPlanned == ASSUME todo # "planned" PROVE SegmentsHold
  BY DEF SegmentsHold, SpeechPlanned, WindowsApart

LEMMA CleanKeeps == ASSUME SegmentsInv, Clean PROVE SegmentsInv'
<1> DEFINE clipped == [n \in DOMAIN spans |-> Clipped(spans[n])]
           places == {n \in DOMAIN clipped : Length(clipped[n]) > 0}
           s == Picked(clipped, places)
<1>1. todo = "clean" /\ todo' = "trim_to_vad" /\ spans' = Sorted(s) /\ UNCHANGED <<speech, tidied, out>>
  BY DEF Clean
<1>2. spans \in Seq(Turns) /\ DOMAIN spans = 1..Len(spans) /\ Len(spans) \in Nat
  BY DEF SegmentsInv
<1>3. ASSUME NEW n \in places PROVE clipped[n] \in Turns
  <2>1. spans[n] \in Turns /\ clipped[n] = [spans[n] EXCEPT !.end = Smaller(spans[n].end, Duration)]
    BY <1>2 DEF Clipped
  <2> DEFINE e == Smaller(spans[n].end, Duration)
  <2>2. e \in Times
    BY <2>1, TurnTimes DEF Smaller, Times
  <2> HIDE DEF e
  <2>3. QED
    BY <2>1, <2>2 DEF Turns, e
<1>4. /\ places \in SUBSET Nat /\ IsFiniteSet(places)
      /\ \A n \in places : Length(clipped[n]) > 0
  <2>1. places \in SUBSET DOMAIN spans
    OBVIOUS
  <2>2. 1 \in Int /\ Len(spans) \in Int
    BY <1>2
  <2>3. IsFiniteSet(DOMAIN spans)
    BY <1>2, <2>2, FS_Interval
  <2> HIDE DEF places
  <2>4. IsFiniteSet(places) /\ places \in SUBSET Nat
    BY <1>2, <2>1, <2>3, FS_Subset
  <2>5. QED
    BY <2>4 DEF places
<1> HIDE DEF places, clipped
<1>5. /\ Cardinality(places) \in Nat /\ DOMAIN s = 1..Cardinality(places)
      /\ s = [k \in 1..Cardinality(places) |-> s[k]]
      /\ \A k \in DOMAIN s : \E n \in places : s[k] = clipped[n]
  BY <1>4, PickedHolds
<1> HIDE DEF s
<1>6. s \in Seq(Turns) /\ \A k \in DOMAIN s : Length(s[k]) > 0
  <2>1. \A k \in DOMAIN s : s[k] \in Turns /\ Length(s[k]) > 0
    BY <1>3, <1>4, <1>5
  <2>2. QED
    BY <1>5, <2>1
<1>7. spans' \in Seq(Turns) /\ \A k \in DOMAIN spans' : Length(spans'[k]) > 0
  BY <1>1, <1>6, SortedHolds
<1>8. SegmentsHold'
  BY <1>1 DEF SegmentsHold, SpeechPlanned, WindowsApart
<1>9. (\A n \in DOMAIN tidied : Length(tidied[n]) > 0 /\ InSpeech(tidied[n]))'
  BY <1>1 DEF SegmentsInv, InSpeech
<1>10. QED
  BY <1>1, <1>7, <1>8, <1>9 DEF SegmentsInv, Planned

\* What the two loops of trim_to_vad make lies within a turn and within a region.
LEMMA OverlapsHold ==
    ASSUME SegmentsInv
    PROVE  /\ Overlaps \in Seq(Turns)
           /\ \A k \in DOMAIN Overlaps : Length(Overlaps[k]) > 0 /\ InSpeech(Overlaps[k])
<1> DEFINE a == Len(spans)
           b == Len(speech)
           pairs == 1..(a * b)
           turn(n) == spans[((n - 1) \div b) + 1]
           region(n) == speech[((n - 1) % b) + 1]
           cut(n) == [turn(n) EXCEPT !.start = Larger(turn(n).start, region(n).start),
                                     !.end = Smaller(turn(n).end, region(n).end)]
           cuts == [n \in pairs |-> cut(n)]
           places == {n \in pairs : Length(cut(n)) > 0}
<1>1. /\ spans \in Seq(Turns) /\ a \in Nat /\ DOMAIN spans = 1..a
      /\ speech \in Seq(Regions) /\ b \in Nat /\ DOMAIN speech = 1..b
  BY SegmentsAssumption DEF SegmentsInv
<1>2. ASSUME NEW n \in pairs PROVE turn(n) \in Turns /\ region(n) \in Regions /\ region(n) \in {speech[r] : r \in DOMAIN speech}
  <2>1. ((n - 1) \div b) \in 0..(a - 1) /\ ((n - 1) % b) \in 0..(b - 1)
    <3> HIDE DEF a, b
    <3>1. ((n - 1) % b) \in 0..(b - 1)
      BY <1>1
    <3>2. ((n - 1) \div b) \in 0..(a - 1)
      BY <1>1
    <3>3. QED
      BY <3>1, <3>2
  <2> DEFINE i == ((n - 1) \div b) + 1
             j == ((n - 1) % b) + 1
  <2>2. i \in DOMAIN spans /\ j \in DOMAIN speech
    BY <1>1, <2>1
  <2> HIDE DEF i, j
  <2>3. spans[i] \in Turns /\ speech[j] \in Regions
    BY <1>1, <2>2
  <2>4. QED
    BY <2>2, <2>3 DEF i, j
<1>3. ASSUME NEW n \in places
      PROVE  cut(n) \in Turns /\ Length(cut(n)) > 0 /\ InSpeech(cut(n))
  <2> DEFINE t == turn(n)
             r == region(n)
             from == Larger(t.start, r.start)
             to == Smaller(t.end, r.end)
  <2>1. t \in Turns /\ r \in Regions /\ r \in {speech[k] : k \in DOMAIN speech}
    BY <1>2
  <2>2. Length(cut(n)) > 0
    OBVIOUS
  <2> HIDE DEF t, r
  <2>3. r.start \in Nat /\ r.end \in Nat /\ t.start \in Nat /\ t.end \in Nat /\ t.end <= Duration + 1 /\ Duration \in Nat
    BY <2>1, TurnTimes DEF Regions
  <2>4. from \in Nat /\ to \in Nat /\ r.start <= from /\ to <= r.end /\ to <= Duration + 1
    BY <2>3 DEF Larger, Smaller
  <2>5. cut(n) = [t EXCEPT !.start = from, !.end = to]
    BY DEF t, r
  <2> HIDE DEF from, to, cut
  <2>6. cut(n) = [label |-> t.label, start |-> from, end |-> to] /\ t.label \in Heard
    BY <2>1, <2>5 DEF Turns
  <2>7. from < to
    BY <2>2, <2>4, <2>6 DEF Length
  <2>8. cut(n) \in Turns
    BY <2>3, <2>4, <2>6, <2>7 DEF Turns, Times
  <2>9. InSpeech(cut(n))
    <3>1. PICK k \in DOMAIN speech : r = speech[k]
      BY <2>1
    <3>2. QED
      BY <2>4, <2>6, <3>1 DEF InSpeech
  <2>10. QED
    BY <2>2, <2>8, <2>9
<1>4. places \in SUBSET Nat /\ IsFiniteSet(places)
  <2>1. IsFiniteSet(pairs) /\ pairs \in SUBSET Nat
    <3>1. a * b \in Int /\ 1 \in Int
      BY <1>1
    <3> HIDE DEF a, b
    <3>2. QED
      BY <3>1, FS_Interval
  <2>2. places \in SUBSET pairs
    OBVIOUS
  <2> HIDE DEF places, pairs
  <2>3. QED
    BY <2>1, <2>2, FS_Subset
<1>5. Overlaps = Picked(cuts, places)
  BY DEF Overlaps
<1>6. \A n \in places : cuts[n] = cut(n)
  OBVIOUS
<1> HIDE DEF cuts, places, cut
<1> DEFINE s == Picked(cuts, places)
<1>7. /\ Cardinality(places) \in Nat /\ DOMAIN s = 1..Cardinality(places)
      /\ s = [k \in 1..Cardinality(places) |-> s[k]]
      /\ \A k \in DOMAIN s : \E n \in places : s[k] = cuts[n]
  BY <1>4, PickedHolds
<1> HIDE DEF s
<1>8. \A k \in DOMAIN s : s[k] \in Turns /\ Length(s[k]) > 0 /\ InSpeech(s[k])
  BY <1>3, <1>6, <1>7
<1>9. s \in Seq(Turns)
  BY <1>7, <1>8
<1>10. QED
  BY <1>5, <1>8, <1>9 DEF s

LEMMA TrimKeeps == ASSUME SegmentsInv, TrimToVad PROVE SegmentsInv'
<1>1. todo = "trim_to_vad" /\ todo' = "drop_tiny" /\ UNCHANGED <<speech, tidied, out>>
  BY DEF TrimToVad
<1>2. /\ spans' \in Seq(Turns)
      /\ \A n \in DOMAIN spans' : Length(spans'[n]) > 0 /\ InSpeech(spans'[n])
  <2>1. CASE spans' = Sorted(Overlaps)
    <3>1. \A n \in DOMAIN spans' : \E k \in DOMAIN Overlaps : spans'[n] = Overlaps[k]
      BY <2>1, OverlapsHold, SortedHolds
    <3>2. QED
      BY <2>1, <3>1, OverlapsHold, SortedHolds
  <2>2. CASE speech = <<>> /\ spans' = spans
    BY <1>1, <2>2 DEF SegmentsInv, InSpeech
  <2>3. QED
    BY <2>1, <2>2 DEF TrimToVad
<1>3. \A t : InSpeech(t)' <=> InSpeech(t)
  BY <1>1 DEF InSpeech
<1>4. (\A n \in DOMAIN spans : InSpeech(spans[n]))'
  BY <1>1, <1>2 DEF InSpeech
<1>5. SegmentsHold'
  BY <1>1 DEF SegmentsHold, SpeechPlanned, WindowsApart
<1>6. (\A n \in DOMAIN tidied : Length(tidied[n]) > 0 /\ InSpeech(tidied[n]))'
  BY <1>1 DEF SegmentsInv, InSpeech
<1>7. QED
  BY <1>1, <1>2, <1>4, <1>5, <1>6 DEF SegmentsInv, Planned

\* Of several turns one is the longest.
LEMMA OneIsLongest == ASSUME SegmentsInv, todo # "clean", spans # <<>> PROVE Longest \in DOMAIN spans
<1> DEFINE D == DOMAIN spans
           Lengths == {Length(spans[n]) : n \in D}
<1>1. D = 1..Len(spans) /\ Len(spans) \in Nat /\ 1 \in D /\ IsFiniteSet(D)
  <2>1. spans \in Seq(Turns)
    BY DEF SegmentsInv
  <2>2. D = 1..Len(spans) /\ Len(spans) \in Nat /\ 1 \in D
    BY <2>1
  <2>3. 1 \in Int /\ Len(spans) \in Int
    BY <2>2
  <2>4. QED
    BY <2>2, <2>3, FS_Interval
<1>2. \A n \in D : Length(spans[n]) \in Nat
  <2>1. \A n \in D : spans[n] \in Turns /\ Length(spans[n]) > 0
    BY DEF SegmentsInv
  <2>2. QED
    BY <2>1, TurnTimes
<1>3. Lengths \in SUBSET Nat /\ Lengths # {}
  BY <1>1, <1>2
<1>4. IsFiniteSet(Lengths)
  <2> DEFINE of == [n \in D |-> Length(spans[n])]
  <2>1. of \in Surjection(D, Lengths)
    BY DEF Surjection
  <2>2. QED
    BY <1>1, <2>1, FS_Surjection
<1>5. PICK most \in Lengths : \A k \in Lengths : k <= most
  <2> HIDE DEF Lengths
  <2>1. QED
    BY <1>3, <1>4, GreatestNumber
<1> DEFINE First == {n \in D : Length(spans[n]) = most}
<1>6. First \in SUBSET Nat /\ First # {}
  BY <1>1, <1>5
<1>7. PICK t \in First : \A n \in First : t <= n
  <2> HIDE DEF First
  <2>1. QED
    BY <1>6, LeastNumber
<1>8. \A m \in D : Length(spans[m]) < Length(spans[t]) \/ (Length(spans[m]) = Length(spans[t]) /\ t <= m)
  <2>1. ASSUME NEW m \in D
        PROVE  Length(spans[m]) < Length(spans[t]) \/ (Length(spans[m]) = Length(spans[t]) /\ t <= m)
    <3>1. Length(spans[m]) <= most /\ Length(spans[m]) \in Nat /\ most \in Nat /\ Length(spans[t]) = most
      BY <1>2, <1>3, <1>5, <1>7
    <3>2. CASE Length(spans[m]) = most
      BY <1>7, <3>1, <3>2
    <3>3. CASE Length(spans[m]) # most
      BY <3>1, <3>3
    <3>4. QED
      BY <3>2, <3>3
  <2>2. QED
    BY <2>1
<1>9. t \in D
  BY <1>7
<1> HIDE DEF Lengths, First
<1>10. QED
  BY <1>8, <1>9 DEF Longest

LEMMA DropTinyKeeps == ASSUME SegmentsInv, DropTiny PROVE SegmentsInv'
<1> DEFINE long == {n \in DOMAIN spans : Length(spans[n]) >= MinTurn}
           s == Picked(spans, long)
<1>1. /\ todo = "drop_tiny" /\ todo' = "merge" /\ UNCHANGED <<speech, out>> /\ tidied' = spans'
      /\ spans' = IF long = {} /\ spans # <<>> THEN <<spans[Longest]>> ELSE s
  BY DEF DropTiny
<1>2. /\ spans \in Seq(Turns) /\ DOMAIN spans = 1..Len(spans) /\ Len(spans) \in Nat /\ out = <<>>
      /\ \A n \in DOMAIN spans : spans[n] \in Turns /\ Length(spans[n]) > 0 /\ InSpeech(spans[n])
  BY <1>1 DEF SegmentsInv
<1>3. /\ spans' \in Seq(Turns)
      /\ \A k \in DOMAIN spans' : \E n \in DOMAIN spans : spans'[k] = spans[n]
  <2>1. CASE long = {} /\ spans # <<>>
    <3>1. Longest \in DOMAIN spans
      BY <1>1, <2>1, OneIsLongest
    <3>2. spans' = <<spans[Longest]>>
      BY <1>1, <2>1
    <3>3. QED
      BY <1>2, <3>1, <3>2
  <2>2. CASE ~(long = {} /\ spans # <<>>)
    <3>1. long \in SUBSET Nat /\ IsFiniteSet(long) /\ long \in SUBSET DOMAIN spans
      <4>1. 1 \in Int /\ Len(spans) \in Int
        BY <1>2
      <4>2. IsFiniteSet(DOMAIN spans)
        BY <1>2, <4>1, FS_Interval
      <4>3. long \in SUBSET DOMAIN spans
        OBVIOUS
      <4> HIDE DEF long
      <4>4. QED
        BY <1>2, <4>2, <4>3, FS_Subset
    <3>2. spans' = s
      BY <1>1, <2>2
    <3> HIDE DEF long
    <3>3. /\ Cardinality(long) \in Nat /\ DOMAIN s = 1..Cardinality(long)
          /\ s = [k \in 1..Cardinality(long) |-> s[k]]
          /\ \A k \in DOMAIN s : \E n \in long : s[k] = spans[n]
      BY <3>1, PickedHolds
    <3> HIDE DEF s
    <3>4. \A k \in DOMAIN s : s[k] \in Turns
      BY <1>2, <3>1, <3>3
    <3>5. s \in Seq(Turns)
      BY <3>3, <3>4
    <3>6. QED
      BY <3>1, <3>2, <3>3, <3>5
  <2>3. QED
    BY <2>1, <2>2
<1> HIDE DEF long, s
<1>4. \A n \in DOMAIN spans' : Length(spans'[n]) > 0 /\ InSpeech(spans'[n])
  BY <1>2, <1>3
<1>5. (\A n \in DOMAIN tidied : Length(tidied[n]) > 0 /\ InSpeech(tidied[n]))'
  BY <1>1, <1>4 DEF InSpeech
<1>6. InHandNow' = {spans'[n] : n \in DOMAIN spans'}
  BY <1>1, <1>2 DEF InHandNow
<1>7. AllKept(InHandNow)'
  <2>1. ASSUME NEW n \in DOMAIN tidied', NEW tick \in tidied'[n].start..(tidied'[n].end - 1)
        PROVE  \E x \in InHandNow' : x.label = tidied'[n].label /\ Covers(x, tick)
    <3>1. tidied'[n] \in InHandNow' /\ tidied'[n] \in Turns
      BY <1>1, <1>3, <1>6
    <3>2. Covers(tidied'[n], tick)
      BY <3>1, TurnTimes DEF Covers
    <3>3. QED
      BY <3>1, <3>2
  <2>2. QED
    BY <2>1 DEF AllKept
<1>8. ASSUME NEW x \in InHandNow' PROVE Length(x) > 0 /\ OwnVoice(x)'
  <2>1. PICK n \in DOMAIN spans' : x = spans'[n]
    BY <1>6
  <2>2. QED
    BY <1>1, <1>4, <2>1 DEF OwnVoice
<1>9. SegmentsHold'
  BY <1>1 DEF SegmentsHold, SpeechPlanned, WindowsApart
<1>10. (\A x \in InHandNow : Length(x) > 0 /\ OwnVoice(x))'
  BY <1>8
<1>11. QED
  BY <1>1, <1>2, <1>3, <1>4, <1>5, <1>7, <1>9, <1>10, SMTT(30) DEF SegmentsInv, Planned

LEMMA HeadAndTail ==
    ASSUME NEW S, NEW s \in Seq(S), s # <<>>
    PROVE  /\ Head(s) \in S /\ Tail(s) \in Seq(S)
           /\ \E n \in DOMAIN s : s[n] = Head(s)
           /\ \A n \in DOMAIN s : s[n] = Head(s) \/ \E m \in DOMAIN Tail(s) : Tail(s)[m] = s[n]
           /\ \A m \in DOMAIN Tail(s) : \E n \in DOMAIN s : s[n] = Tail(s)[m]
<1>1. Len(s) \in Nat /\ Len(s) > 0 /\ DOMAIN s = 1..Len(s)
  OBVIOUS
<1>2. Head(s) = s[1] /\ Tail(s) \in Seq(S) /\ Len(Tail(s)) = Len(s) - 1
      /\ \A m \in 1..(Len(s) - 1) : Tail(s)[m] = s[m + 1]
  OBVIOUS
<1>3. DOMAIN Tail(s) = 1..(Len(s) - 1)
  BY <1>1, <1>2
<1>4. ASSUME NEW n \in DOMAIN s, n # 1 PROVE \E m \in DOMAIN Tail(s) : Tail(s)[m] = s[n]
  <2>1. n - 1 \in 1..(Len(s) - 1) /\ (n - 1) + 1 = n
    BY <1>1, <1>4
  <2>2. QED
    BY <1>2, <1>3, <2>1
<1>5. ASSUME NEW m \in DOMAIN Tail(s) PROVE \E n \in DOMAIN s : s[n] = Tail(s)[m]
  <2>1. m + 1 \in DOMAIN s /\ Tail(s)[m] = s[m + 1]
    BY <1>1, <1>2, <1>3
  <2>2. QED
    BY <2>1
<1>6. 1 \in DOMAIN s /\ s[1] \in S
  BY <1>1
<1>7. QED
  BY <1>2, <1>4, <1>5, <1>6

\* A turn joined to the last piece of its speaker leaves no instant out, and takes in no voice: in
\* the gap between the two nobody else begins to speak.
LEMMA MergedOwnVoice ==
    ASSUME NEW a \in Turns, NEW b \in Turns, NEW k \in DOMAIN tidied, tidied[k] = b, a.label = b.label,
           Length(a) > 0, Length(b) > 0, OwnVoice(a), MayMerge(a, b), tidied \in Seq(Turns),
           NEW c, c = [a EXCEPT !.end = Larger(a.end, b.end)]
    PROVE  /\ c \in Turns /\ c.label = a.label /\ Length(c) > 0 /\ OwnVoice(c)
           /\ \A tick \in Int : Covers(a, tick) \/ Covers(b, tick) => Covers(c, tick)
           /\ Length(c) <= MaxLength
<1>1. a.start \in Nat /\ a.end \in Nat /\ b.start \in Nat /\ b.end \in Nat /\ a.start < a.end /\ b.start < b.end
  BY TurnTimes
<1>2. a.end <= b.start
  BY <1>1, SegmentsAssumption DEF MayMerge
<1> DEFINE e == Larger(a.end, b.end)
<1>3. e = b.end /\ e \in Times
  BY <1>1, <1>2 DEF Larger, Turns
<1>4. c = [label |-> a.label, start |-> a.start, end |-> b.end] /\ c \in Turns
  BY <1>3 DEF Turns
<1>5. c.label = a.label /\ c.start = a.start /\ c.end = b.end /\ Length(c) > 0
  BY <1>1, <1>2, <1>4 DEF Length
<1>9. Length(c) <= MaxLength
  BY <1>5 DEF MayMerge, Length
<1>6. \A tick \in Int : Covers(a, tick) \/ Covers(b, tick) => Covers(c, tick)
  BY <1>1, <1>2, <1>5 DEF Covers
<1>7. ASSUME NEW n \in DOMAIN tidied, tidied[n].label # c.label, Covers(c, tidied[n].start)
      PROVE  \E j \in DOMAIN tidied : tidied[j].label = c.label /\ Covers(tidied[j], tidied[n].start)
  <2>1. tidied[n].start \in Nat
    <3>1. tidied[n] \in Turns
      OBVIOUS
    <3>2. QED
      BY <3>1, TurnTimes
  <2>2. ~(tidied[n].start >= a.end /\ tidied[n].start <= b.start)
    BY <1>5, <1>7 DEF MayMerge, OtherSpeakerInGap
  <2>3. Covers(a, tidied[n].start) \/ Covers(b, tidied[n].start)
    BY <1>1, <1>2, <1>5, <1>7, <2>1, <2>2 DEF Covers
  <2>4. QED
    BY <1>5, <1>7, <2>3 DEF OwnVoice
<1>8. QED
  BY <1>4, <1>5, <1>6, <1>7, <1>9 DEF OwnVoice

LEMMA MergeTurnKeeps == ASSUME SegmentsInv, MergeTurn PROVE SegmentsInv'
<1> DEFINE t == Head(spans)
           into == {n \in LastOf(t.label) : MayMerge(out[n], t)}
<1>1. /\ todo = "merge" /\ todo' = "merge" /\ spans # <<>> /\ UNCHANGED <<speech, tidied>>
      /\ spans' = Tail(spans)
      /\ out' = IF into = {} THEN Append(out, t)
                ELSE [n \in DOMAIN out |-> IF n \in into THEN [out[n] EXCEPT !.end = Larger(out[n].end, t.end)] ELSE out[n]]
  BY DEF MergeTurn
<1>2. /\ spans \in Seq(Turns) /\ out \in Seq(Turns) /\ tidied \in Seq(Turns)
      /\ \A n \in DOMAIN out : out[n] \in Turns /\ Length(out[n]) > 0 /\ OwnVoice(out[n]) /\ Fits(out[n])
      /\ \A n \in DOMAIN spans : spans[n] \in Turns /\ Length(spans[n]) > 0 /\ OwnVoice(spans[n])
      /\ AllKept(InHandNow)
  BY <1>1 DEF SegmentsInv, Planned, InHandNow
<1>3. t \in Turns /\ Length(t) > 0 /\ OwnVoice(t) /\ Fits(t) /\ \E k \in DOMAIN tidied : tidied[k] = t
  <2>1. \E n \in DOMAIN spans : spans[n] = t
    BY <1>1, <1>2, HeadAndTail
  <2> HIDE DEF t
  <2>2. \E k \in DOMAIN tidied : tidied[k] = t
    BY <1>1, <2>1 DEF SegmentsInv
  <2>3. InSpeech(t)
    BY <2>2 DEF SegmentsInv
  <2>4. QED
    BY <1>2, <2>1, <2>2, <2>3 DEF Fits
<1>4. /\ spans' \in Seq(Turns)
      /\ \A n \in DOMAIN spans : spans[n] = t \/ \E m \in DOMAIN spans' : spans'[m] = spans[n]
      /\ \A m \in DOMAIN spans' : \E n \in DOMAIN spans : spans[n] = spans'[m]
  BY <1>1, <1>2, HeadAndTail
<1>5. /\ out' \in Seq(Turns)
      /\ \A n \in DOMAIN out' : Length(out'[n]) > 0 /\ OwnVoice(out'[n]) /\ Fits(out'[n])
      /\ \A x \in {out[n] : n \in DOMAIN out} \cup {t} : \E n \in DOMAIN out' :
            out'[n].label = x.label /\ \A tick \in Int : Covers(x, tick) => Covers(out'[n], tick)
  <2>1. CASE into = {}
    <3>1. out' = Append(out, t) /\ t \in Turns /\ out \in Seq(Turns)
      BY <1>1, <1>2, <1>3, <2>1
    <3> DEFINE k == Len(out) + 1
    <3>2. /\ out' \in Seq(Turns) /\ DOMAIN out' = DOMAIN out \cup {k} /\ out'[k] = t
          /\ \A n \in DOMAIN out : out'[n] = out[n]
      <4> HIDE DEF t, into
      <4>1. QED
        BY <3>1
    <3> HIDE DEF t, into, k
    <3>3. \A n \in DOMAIN out' : Length(out'[n]) > 0 /\ OwnVoice(out'[n]) /\ Fits(out'[n])
      BY <1>2, <1>3, <3>2
    <3>4. ASSUME NEW x \in {out[n] : n \in DOMAIN out} \cup {t} PROVE \E n \in DOMAIN out' : out'[n] = x
      BY <3>2
    <3>5. QED
      BY <3>2, <3>3, <3>4
  <2>2. CASE into # {}
    <3> DEFINE c(n) == [out[n] EXCEPT !.end = Larger(out[n].end, t.end)]
    <3>1. out' = [n \in DOMAIN out |-> IF n \in into THEN c(n) ELSE out[n]]
      BY <1>1, <2>2
    <3>2. ASSUME NEW n \in into
          PROVE  /\ n \in DOMAIN out /\ out[n].label = t.label
                 /\ c(n) \in Turns /\ c(n).label = out[n].label /\ Length(c(n)) > 0 /\ OwnVoice(c(n)) /\ Fits(c(n))
                 /\ \A tick \in Int : Covers(out[n], tick) \/ Covers(t, tick) => Covers(c(n), tick)
      <4>1. n \in DOMAIN out /\ out[n].label = t.label /\ MayMerge(out[n], t)
        BY DEF LastOf
      <4>2. PICK k \in DOMAIN tidied : tidied[k] = t
        BY <1>3
      <4> DEFINE a == out[n]
                 d == c(n)
      <4>3. a \in Turns /\ Length(a) > 0 /\ OwnVoice(a) /\ a.label = t.label /\ MayMerge(a, t)
            /\ d = [a EXCEPT !.end = Larger(a.end, t.end)]
        BY <1>2, <4>1
      <4> HIDE DEF t, a, d, into
      <4>4. /\ d \in Turns /\ d.label = a.label /\ Length(d) > 0 /\ OwnVoice(d)
            /\ \A tick \in Int : Covers(a, tick) \/ Covers(t, tick) => Covers(d, tick)
            /\ Length(d) <= MaxLength
        BY <1>2, <1>3, <4>2, <4>3, MergedOwnVoice
      <4>5. Fits(d)
        BY <4>4 DEF Fits
      <4>6. QED
        BY <4>1, <4>4, <4>5 DEF a, d
    <3> HIDE DEF t, c, into
    <3>3. DOMAIN out' = DOMAIN out /\ \A n \in DOMAIN out : out'[n] = IF n \in into THEN c(n) ELSE out[n]
      BY <3>1
    <3>4. \A n \in DOMAIN out' : out'[n] \in Turns /\ Length(out'[n]) > 0 /\ OwnVoice(out'[n]) /\ Fits(out'[n])
      BY <1>2, <3>2, <3>3
    <3>5. out' \in Seq(Turns)
      <4>1. DOMAIN out = 1..Len(out) /\ Len(out) \in Nat
        BY <1>2
      <4>2. out' = [n \in 1..Len(out) |-> out'[n]]
        BY <3>1, <4>1
      <4>3. \A n \in 1..Len(out) : out'[n] \in Turns
        BY <3>3, <3>4, <4>1
      <4>4. QED
        BY <4>1, <4>2, <4>3
    <3>6. ASSUME NEW x \in {out[n] : n \in DOMAIN out} \cup {t}
          PROVE  \E n \in DOMAIN out' :
                    out'[n].label = x.label /\ \A tick \in Int : Covers(x, tick) => Covers(out'[n], tick)
      <4>1. CASE x = t
        <5>1. PICK n \in into : TRUE
          BY <2>2
        <5>2. QED
          BY <3>2, <3>3, <4>1, <5>1
      <4>2. CASE x \in {out[n] : n \in DOMAIN out}
        <5>1. PICK n \in DOMAIN out : x = out[n]
          BY <4>2
        <5>2. QED
          BY <3>2, <3>3, <5>1
      <4>3. QED
        BY <4>1, <4>2
    <3>7. QED
      BY <3>4, <3>5, <3>6
  <2>3. QED
    BY <2>1, <2>2
<1> HIDE DEF t, into
<1>6. AllKept(InHandNow)'
  <2>1. ASSUME NEW n \in DOMAIN tidied, NEW tick \in tidied[n].start..(tidied[n].end - 1)
        PROVE  \E x \in InHandNow' : x.label = tidied[n].label /\ Covers(x, tick)
    <3>1. PICK y \in InHandNow : y.label = tidied[n].label /\ Covers(y, tick)
      BY <1>2 DEF AllKept
    <3>2. tick \in Int
      OBVIOUS
    <3>3. y \in {out[m] : m \in DOMAIN out} \cup {t} \/ y \in {spans'[m] : m \in DOMAIN spans'}
      BY <1>4 DEF InHandNow
    <3>4. QED
      BY <1>5, <3>1, <3>2, <3>3 DEF InHandNow
  <2>2. QED
    BY <1>1, <2>1 DEF AllKept
<1>7. ASSUME NEW x \in InHandNow' PROVE Length(x) > 0 /\ OwnVoice(x)'
  <2>1. Length(x) > 0 /\ OwnVoice(x)
    BY <1>2, <1>4, <1>5 DEF InHandNow
  <2>2. QED
    BY <1>1, <2>1 DEF OwnVoice
<1>8. (\A x \in InHandNow : Length(x) > 0 /\ OwnVoice(x))'
  BY <1>7
<1>9. \A n \in DOMAIN spans' : Length(spans'[n]) > 0 /\ \E k \in DOMAIN tidied : spans'[n] = tidied[k]
  <2>1. \A n \in DOMAIN spans : \E k \in DOMAIN tidied : spans[n] = tidied[k]
    BY <1>1 DEF SegmentsInv
  <2>2. QED
    BY <1>2, <1>4, <2>1
<1>10. SegmentsHold'
  BY <1>1 DEF SegmentsHold, SpeechPlanned, WindowsApart
<1>11. (\A n \in DOMAIN tidied : Length(tidied[n]) > 0 /\ InSpeech(tidied[n]))'
  BY <1>1 DEF SegmentsInv, InSpeech
<1>12. (\A n \in DOMAIN out : Fits(out[n]))'
  BY <1>1, <1>5 DEF Fits, InSpeech
<1>13. QED
  BY <1>1, <1>2, <1>4, <1>5, <1>6, <1>8, <1>9, <1>10, <1>11, <1>12 DEF SegmentsInv, Planned

LEMMA EndMergeKeeps == ASSUME SegmentsInv, EndMerge PROVE SegmentsInv'
<1>1. /\ todo = "merge" /\ todo' = "split_long" /\ spans = <<>> /\ UNCHANGED <<speech, tidied>>
      /\ spans' = Sorted(out) /\ out' = <<>>
  BY DEF EndMerge
<1>2. /\ out \in Seq(Turns) /\ AllKept(InHandNow)
      /\ \A x \in InHandNow : Length(x) > 0 /\ OwnVoice(x)
      /\ InHandNow = {out[n] : n \in DOMAIN out}
      /\ \A n \in DOMAIN out : Fits(out[n])
  BY <1>1 DEF SegmentsInv, Planned, InHandNow
<1>3. spans' \in Seq(Turns) /\ {spans'[n] : n \in DOMAIN spans'} = {out[n] : n \in DOMAIN out}
  BY <1>1, <1>2, SortedHolds
<1>4. InHandNow' = InHandNow
  BY <1>1, <1>2, <1>3 DEF InHandNow
<1>5. AllKept(InHandNow)' /\ (\A x \in InHandNow : Length(x) > 0 /\ OwnVoice(x))'
  BY <1>1, <1>2, <1>4 DEF AllKept, OwnVoice
<1>6. \A n \in DOMAIN spans' : Length(spans'[n]) > 0
  BY <1>2, <1>3
<1>7. SegmentsHold'
  BY <1>1 DEF SegmentsHold, SpeechPlanned, WindowsApart
<1>8. (\A n \in DOMAIN tidied : Length(tidied[n]) > 0 /\ InSpeech(tidied[n]))'
  BY <1>1 DEF SegmentsInv, InSpeech
<1>9. (\A n \in DOMAIN spans : Fits(spans[n]))'
  <2>1. \A n \in DOMAIN spans' : Fits(spans'[n])
    BY <1>2, <1>3
  <2>2. QED
    BY <1>1, <2>1 DEF Fits, InSpeech
<1>10. QED
  BY <1>1, <1>3, <1>5, <1>6, <1>7, <1>8, <1>9 DEF SegmentsInv, Planned

LEMMA EndSplitKeeps == ASSUME SegmentsInv, EndSplit PROVE SegmentsInv'
<1>1. /\ todo = "split_long" /\ todo' = "build_windows" /\ spans = <<>> /\ UNCHANGED <<speech, tidied>>
      /\ spans' = Sorted(out) /\ out' = <<>>
  BY DEF EndSplit
<1>2. /\ out \in Seq(Turns) /\ AllKept(InHandNow)
      /\ \A x \in InHandNow : Length(x) > 0 /\ OwnVoice(x)
      /\ InHandNow = {out[n] : n \in DOMAIN out}
      /\ \A n \in DOMAIN out : Length(out[n]) <= MaxLength
  BY <1>1 DEF SegmentsInv, Planned, InHandNow
<1>3. /\ spans' \in Seq(Turns) /\ {spans'[n] : n \in DOMAIN spans'} = {out[n] : n \in DOMAIN out}
      /\ \A m, n \in DOMAIN spans' : m < n => spans'[m].start <= spans'[n].start
  <2> DEFINE s == Sorted(out)
  <2>1. /\ s \in Seq(Turns) /\ DOMAIN s = DOMAIN out
        /\ \A k \in DOMAIN s : \E n \in DOMAIN out : s[k] = out[n]
        /\ \A n \in DOMAIN out : \E k \in DOMAIN s : s[k] = out[n]
        /\ \A m, n \in DOMAIN s : m < n => s[m].start <= s[n].start
    <3>1. out \in Seq(Turns)
      BY <1>2
    <3>2. QED
      BY <3>1, SortedHolds, ZenonT(30)
  <2>2. spans' = s
    BY <1>1
  <2> HIDE DEF s
  <2>3. {s[n] : n \in DOMAIN s} = {out[n] : n \in DOMAIN out}
    BY <2>1
  <2>4. QED
    BY <2>1, <2>2, <2>3
<1>4. InHandNow' = InHandNow
  BY <1>1, <1>2, <1>3 DEF InHandNow
<1>5. AllKept(InHandNow)' /\ (\A x \in InHandNow : Length(x) > 0 /\ OwnVoice(x))'
  BY <1>1, <1>2, <1>4 DEF AllKept, OwnVoice
<1>6. \A n \in DOMAIN spans' : Length(spans'[n]) > 0 /\ Length(spans'[n]) <= MaxLength
  BY <1>2, <1>3
<1>7. SegmentsHold'
  BY <1>1 DEF SegmentsHold, SpeechPlanned, WindowsApart
<1>8. (\A n \in DOMAIN tidied : Length(tidied[n]) > 0 /\ InSpeech(tidied[n]))'
  BY <1>1 DEF SegmentsInv, InSpeech
<1>9. QED
  BY <1>1, <1>3, <1>5, <1>6, <1>7, <1>8 DEF SegmentsInv, Planned

\* Regions of speech are in order and do not overlap.
InOrder(regions) ==
    /\ regions \in Seq(Regions) /\ DOMAIN regions = 1..Len(regions) /\ Len(regions) \in Nat
    /\ \A n \in DOMAIN regions :
          regions[n].start \in Nat /\ regions[n].end \in Nat /\ regions[n].start <= regions[n].end
    /\ \A m, n \in DOMAIN regions : m < n => regions[m].end <= regions[n].start

LEMMA RegionsInOrder == ASSUME SegmentsInv PROVE InOrder(speech)
<1>1. /\ speech \in Seq(Regions)
      /\ \A n \in DOMAIN speech : speech[n].start <= speech[n].end
      /\ \A m, n \in DOMAIN speech : m < n => speech[m].end <= speech[n].start
  BY SegmentsAssumption DEF SegmentsInv
<1>2. \A n \in DOMAIN speech : speech[n] \in Regions
  BY <1>1
<1>3. \A n \in DOMAIN speech : speech[n].start \in Nat /\ speech[n].end \in Nat
  BY <1>2 DEF Regions
<1>4. QED
  BY <1>1, <1>3 DEF InOrder

\* A cut leaves two pieces of which the first is short enough, and takes no instant of a tidied turn:
\* what lies between the two is silence.
LEMMA CutHolds ==
    ASSUME SegmentsInv, NEW t \in Turns, Length(t) > MaxLength, NEW cut \in Cuts(t)
    PROVE  /\ cut.start \in Nat /\ cut.end \in Nat
           /\ t.start < cut.start /\ cut.start <= t.start + MaxLength
           /\ cut.start <= cut.end /\ cut.end < t.end
           /\ \A n \in DOMAIN tidied : \A tick \in tidied[n].start..(tidied[n].end - 1) :
                 tick < cut.start \/ cut.end <= tick
<1> DEFINE limit == t.start + MaxLength
           silences == Silences(t.start + MinPiece, limit)
<1>1. t.start \in Nat /\ t.end \in Nat /\ limit < t.end /\ MaxLength \in Nat /\ MinPiece \in Nat /\ MinPiece < MaxLength
  BY TurnTimes, SegmentsAssumption DEF Length
<1>2. /\ speech \in Seq(Regions) /\ DOMAIN speech = 1..Len(speech) /\ Len(speech) \in Nat
      /\ \A n \in DOMAIN speech : speech[n].start \in Nat /\ speech[n].end \in Nat /\ speech[n].start <= speech[n].end
      /\ \A m, n \in DOMAIN speech : m < n => speech[m].end <= speech[n].start
  BY RegionsInOrder DEF InOrder
<1>3. CASE cut = [start |-> limit, end |-> limit]
  <2>1. cut.start = limit /\ cut.end = limit
    BY <1>3
  <2>2. \A n \in DOMAIN tidied : \A tick \in tidied[n].start..(tidied[n].end - 1) : tick < limit \/ limit <= tick
    BY <1>1
  <2> HIDE DEF limit
  <2>3. limit = t.start + MaxLength
    BY DEF limit
  <2>4. QED
    BY <1>1, <2>1, <2>2, <2>3
<1>4. CASE cut \in silences
  <2>1. PICK j \in 1..(Len(speech) - 1) :
           /\ cut = [start |-> speech[j].end, end |-> speech[j + 1].start]
           /\ t.start + MinPiece < speech[j].end /\ speech[j].end < speech[j + 1].start /\ speech[j + 1].start < limit
    BY <1>4 DEF Silences
  <2>2. j \in DOMAIN speech /\ j + 1 \in DOMAIN speech /\ j \in Nat
    BY <1>2
  <2>3. cut.start = speech[j].end /\ cut.end = speech[j + 1].start /\ cut.start \in Nat /\ cut.end \in Nat
    BY <1>2, <2>1, <2>2
  <2>4. ASSUME NEW n \in DOMAIN tidied, NEW tick \in tidied[n].start..(tidied[n].end - 1)
        PROVE  tick < cut.start \/ cut.end <= tick
    <3>1. tidied[n] \in Turns /\ InSpeech(tidied[n])
      BY DEF SegmentsInv
    <3>2. PICK r \in DOMAIN speech : speech[r].start <= tidied[n].start /\ tidied[n].end <= speech[r].end
      BY <2>2, <3>1 DEF InSpeech
    <3>3. tidied[n].start \in Nat /\ tidied[n].end \in Nat /\ tick \in Int /\ tidied[n].start <= tick /\ tick < tidied[n].end
      BY <3>1, TurnTimes
    <3>4. CASE r <= j
      <4>1. speech[r].end <= speech[j].end
        BY <1>2, <2>2, <3>4, SMTT(30)
      <4>2. QED
        BY <1>2, <2>2, <2>3, <3>2, <3>3, <4>1
    <3>5. CASE r > j
      <4>1. speech[j + 1].start <= speech[r].start
        <5>1. r = j + 1 \/ j + 1 < r
          BY <1>2, <2>2, <3>5
        <5>2. j + 1 < r => speech[j + 1].end <= speech[r].start /\ speech[j + 1].start <= speech[j + 1].end
          BY <1>2, <2>2
        <5>3. QED
          BY <1>2, <2>2, <5>1, <5>2
      <4>2. QED
        BY <1>2, <2>2, <2>3, <3>2, <3>3, <4>1
    <3>6. QED
      BY <1>2, <2>2, <3>4, <3>5
  <2>5. t.start + MinPiece < cut.start /\ cut.start < cut.end /\ cut.end < t.start + MaxLength
    BY <2>1, <2>3
  <2>6. t.start < cut.start /\ cut.start <= t.start + MaxLength /\ cut.start <= cut.end /\ cut.end < t.end
    BY <1>1, <2>3, <2>5, SMTT(30)
  <2>7. QED
    BY <2>3, <2>4, <2>6
<1>5. QED
  BY <1>3, <1>4 DEF Cuts

LEMMA SplitKeeps == ASSUME SegmentsInv, SplitTurn PROVE SegmentsInv'
<1> DEFINE t == Head(spans)
           first(cut) == [t EXCEPT !.end = cut.start]
           rest(cut) == [t EXCEPT !.start = cut.end]
<1>1. /\ todo = "split_long" /\ todo' = "split_long" /\ spans # <<>> /\ UNCHANGED <<speech, tidied>>
      /\ \/ Length(t) <= MaxLength /\ out' = Append(out, t) /\ spans' = Tail(spans)
         \/ /\ Length(t) > MaxLength
            /\ \E cut \in Cuts(t) : out' = Append(out, first(cut)) /\ spans' = <<rest(cut)>> \o Tail(spans)
  BY DEF SplitTurn
<1>2. /\ spans \in Seq(Turns) /\ out \in Seq(Turns) /\ tidied \in Seq(Turns)
      /\ \A n \in DOMAIN out : out[n] \in Turns /\ Length(out[n]) > 0 /\ OwnVoice(out[n]) /\ Length(out[n]) <= MaxLength
      /\ \A n \in DOMAIN spans : spans[n] \in Turns /\ Length(spans[n]) > 0 /\ OwnVoice(spans[n]) /\ Fits(spans[n])
      /\ AllKept(InHandNow)
  BY <1>1 DEF SegmentsInv, Planned, InHandNow
<1>3. /\ Tail(spans) \in Seq(Turns)
      /\ \E n \in DOMAIN spans : spans[n] = t
      /\ \A n \in DOMAIN spans : spans[n] = t \/ \E m \in DOMAIN Tail(spans) : Tail(spans)[m] = spans[n]
      /\ \A m \in DOMAIN Tail(spans) : \E n \in DOMAIN spans : spans[n] = Tail(spans)[m]
  BY <1>1, <1>2, HeadAndTail
<1>4. t \in Turns /\ Length(t) > 0 /\ OwnVoice(t) /\ Fits(t)
  <2> HIDE DEF t
  <2>1. QED
    BY <1>2, <1>3
<1> DEFINE rests == Tail(spans)
           Others == {out[n] : n \in DOMAIN out} \cup {rests[n] : n \in DOMAIN rests}
<1>5. InHandNow = {t} \cup Others
  <2> HIDE DEF t
  <2>1. {spans[n] : n \in DOMAIN spans} = {t} \cup {rests[n] : n \in DOMAIN rests}
    BY <1>3
  <2>2. QED
    BY <2>1 DEF InHandNow
<1>6. /\ out' \in Seq(Turns) /\ spans' \in Seq(Turns)
      /\ \A n \in DOMAIN out' : Length(out'[n]) <= MaxLength
      /\ \A n \in DOMAIN spans' : Fits(spans'[n])
      /\ \A x \in InHandNow' : Length(x) > 0 /\ OwnVoice(x)
      /\ Others \subseteq InHandNow'
      /\ \A n \in DOMAIN tidied : \A tick \in tidied[n].start..(tidied[n].end - 1) :
            t.label = tidied[n].label /\ Covers(t, tick) =>
               \E x \in InHandNow' : x.label = tidied[n].label /\ Covers(x, tick)
  <2>1. ASSUME NEW x \in Turns, out' = Append(out, x)
        PROVE  /\ out' \in Seq(Turns)
               /\ {out'[n] : n \in DOMAIN out'} = {out[n] : n \in DOMAIN out} \cup {x}
    <3>1. /\ out' \in Seq(Turns) /\ DOMAIN out' = DOMAIN out \cup {Len(out) + 1} /\ out'[Len(out) + 1] = x
          /\ \A n \in DOMAIN out : out'[n] = out[n]
      BY <1>2, <2>1
    <3>2. QED
      BY <3>1
  <2>2. CASE Length(t) <= MaxLength /\ out' = Append(out, t) /\ spans' = rests
    <3>1. out' \in Seq(Turns) /\ {out'[n] : n \in DOMAIN out'} = {out[n] : n \in DOMAIN out} \cup {t}
      BY <1>4, <2>1, <2>2
    <3>2. InHandNow' = InHandNow
      BY <1>5, <2>2, <3>1 DEF InHandNow
    <3>3. \A n \in DOMAIN out' : Length(out'[n]) <= MaxLength
      BY <1>2, <2>2, <3>1
    <3>4. \A x \in InHandNow : Length(x) > 0 /\ OwnVoice(x)
      BY <1>2 DEF InHandNow
    <3>5. \A n \in DOMAIN spans' : Fits(spans'[n])
      BY <1>2, <1>3, <2>2
    <3>6. QED
      BY <1>3, <1>5, <2>2, <3>1, <3>2, <3>3, <3>4, <3>5
  <2>3. CASE Length(t) > MaxLength
             /\ \E cut \in Cuts(t) : out' = Append(out, first(cut)) /\ spans' = <<rest(cut)>> \o rests
    <3>1. PICK cut \in Cuts(t) : out' = Append(out, first(cut)) /\ spans' = <<rest(cut)>> \o rests
      BY <2>3
    <3> DEFINE a == first(cut)
               b == rest(cut)
    <3>2. /\ cut.start \in Nat /\ cut.end \in Nat
          /\ t.start < cut.start /\ cut.start <= t.start + MaxLength
          /\ cut.start <= cut.end /\ cut.end < t.end
          /\ \A n \in DOMAIN tidied : \A tick \in tidied[n].start..(tidied[n].end - 1) :
                tick < cut.start \/ cut.end <= tick
      <4> HIDE DEF t
      <4>1. QED
        BY <1>4, <2>3, CutHolds
    <3>3. t.start \in Nat /\ t.end \in Nat /\ t.label \in Heard /\ t.end <= Duration + 1 /\ Duration \in Nat
      <4> HIDE DEF t
      <4>1. QED
        BY <1>4, TurnTimes
    <3>4. /\ a = [label |-> t.label, start |-> t.start, end |-> cut.start]
          /\ b = [label |-> t.label, start |-> cut.end, end |-> t.end]
      <4> HIDE DEF t
      <4>1. QED
        BY <1>4 DEF Turns
    <3> HIDE DEF t, a, b
    <3>5. a \in Turns /\ b \in Turns
      BY <3>2, <3>3, <3>4 DEF Turns, Times
    <3>6. Length(a) > 0 /\ Length(b) > 0 /\ Length(a) <= MaxLength
      BY <3>2, <3>3, <3>4, SegmentsAssumption DEF Length
    <3>7. \A tick \in Int : Covers(a, tick) \/ Covers(b, tick) => Covers(t, tick)
      BY <3>2, <3>3, <3>4 DEF Covers
    <3>8. OwnVoice(a) /\ OwnVoice(b)
      <4>1. \A n \in DOMAIN tidied : tidied[n].start \in Int
        <5>1. \A n \in DOMAIN tidied : tidied[n] \in Turns
          BY <1>2
        <5>2. QED
          BY <5>1, TurnTimes
      <4>2. a.label = t.label /\ b.label = t.label
        BY <3>4
      <4>3. QED
        BY <1>4, <3>7, <4>1, <4>2 DEF OwnVoice
    <3>9. out' \in Seq(Turns) /\ {out'[n] : n \in DOMAIN out'} = {out[n] : n \in DOMAIN out} \cup {a}
      BY <2>1, <3>1, <3>5 DEF a
    <3> HIDE DEF rests
    <3>10. spans' \in Seq(Turns) /\ {spans'[n] : n \in DOMAIN spans'} = {b} \cup {rests[n] : n \in DOMAIN rests}
      <4>1. rests \in Seq(Turns) /\ <<b>> \in Seq(Turns) /\ spans' = <<b>> \o rests
        BY <1>3, <3>1, <3>5 DEF b, rests
      <4>2. /\ DOMAIN rests = 1..Len(rests) /\ Len(rests) \in Nat
            /\ spans' \in Seq(Turns) /\ DOMAIN spans' = 1..(Len(rests) + 1)
            /\ spans'[1] = b /\ \A n \in 1..Len(rests) : spans'[n + 1] = rests[n]
        BY <4>1
      <4>3. \A n \in DOMAIN spans' : n = 1 \/ (n - 1 \in DOMAIN rests /\ spans'[n] = rests[n - 1])
        <5>1. ASSUME NEW n \in DOMAIN spans', n # 1 PROVE n - 1 \in DOMAIN rests /\ spans'[n] = rests[n - 1]
          <6>1. n - 1 \in 1..Len(rests) /\ (n - 1) + 1 = n
            BY <4>2, <5>1
          <6>2. QED
            BY <4>2, <6>1
        <5>2. QED
          BY <5>1
      <4>4. \A n \in DOMAIN rests : n + 1 \in DOMAIN spans' /\ spans'[n + 1] = rests[n]
        BY <4>2
      <4>5. 1 \in DOMAIN spans'
        BY <4>2
      <4>6. \A x : x \in {spans'[n] : n \in DOMAIN spans'} => x \in {b} \cup {rests[n] : n \in DOMAIN rests}
        BY <4>2, <4>3
      <4>7. \A x : x \in {b} \cup {rests[n] : n \in DOMAIN rests} => x \in {spans'[n] : n \in DOMAIN spans'}
        BY <4>2, <4>4, <4>5
      <4>8. QED
        BY <4>2, <4>6, <4>7
    <3>11. InHandNow' = {a, b} \cup Others
      BY <3>9, <3>10 DEF InHandNow
    <3>12. \A n \in DOMAIN out' : Length(out'[n]) <= MaxLength
      BY <1>2, <3>6, <3>9
    <3>13. \A x \in InHandNow' : Length(x) > 0 /\ OwnVoice(x)
      <4>1. \A x \in Others : Length(x) > 0 /\ OwnVoice(x)
        BY <1>2, <1>5 DEF InHandNow
      <4>2. QED
        BY <3>6, <3>8, <3>11, <4>1
    <3>14. ASSUME NEW n \in DOMAIN tidied, NEW tick \in tidied[n].start..(tidied[n].end - 1),
                  t.label = tidied[n].label, Covers(t, tick)
           PROVE  \E x \in InHandNow' : x.label = tidied[n].label /\ Covers(x, tick)
      <4>1. tick \in Int /\ (tick < cut.start \/ cut.end <= tick)
        BY <3>2
      <4>2. Covers(a, tick) \/ Covers(b, tick)
        BY <3>2, <3>3, <3>4, <3>14, <4>1 DEF Covers
      <4>3. a.label = t.label /\ b.label = t.label
        BY <3>4
      <4>4. QED
        BY <3>11, <3>14, <4>2, <4>3
    <3>15. \A n \in DOMAIN spans' : Fits(spans'[n])
      <4>1. Fits(b)
        <5>1. InSpeech(t)
          <6>1. Length(t) \in Int /\ MaxLength \in Int
            BY <3>3, SegmentsAssumption DEF Length
          <6>2. QED
            BY <1>4, <2>3, <6>1 DEF Fits
        <5>2. b.start = cut.end /\ b.end = t.end
          BY <3>4
        <5>3. CASE speech = <<>>
          BY <5>3 DEF Fits, InSpeech
        <5>4. CASE speech # <<>>
          <6>1. PICK r \in DOMAIN speech : speech[r].start <= t.start /\ t.end <= speech[r].end
            BY <5>1, <5>4 DEF InSpeech
          <6>2. speech[r].start \in Nat
            BY RegionsInOrder DEF InOrder
          <6>3. speech[r].start <= b.start /\ b.end <= speech[r].end
            BY <3>2, <3>3, <5>2, <6>1, <6>2
          <6>4. QED
            BY <6>3 DEF Fits, InSpeech
        <5>5. QED
          BY <5>3, <5>4
      <4>2. \A n \in DOMAIN rests : Fits(rests[n])
        BY <1>2, <1>3 DEF rests
      <4>3. QED
        BY <3>10, <4>1, <4>2
    <3>16. QED
      BY <3>9, <3>10, <3>11, <3>12, <3>13, <3>14, <3>15
  <2>4. QED
    BY <1>1, <2>2, <2>3
<1> HIDE DEF t, rests
<1>7. AllKept(InHandNow)'
  <2>1. ASSUME NEW n \in DOMAIN tidied, NEW tick \in tidied[n].start..(tidied[n].end - 1)
        PROVE  \E x \in InHandNow' : x.label = tidied[n].label /\ Covers(x, tick)
    <3>1. PICK y \in InHandNow : y.label = tidied[n].label /\ Covers(y, tick)
      BY <1>2 DEF AllKept
    <3>2. QED
      BY <1>5, <1>6, <3>1
  <2>2. QED
    BY <1>1, <2>1 DEF AllKept
<1>8. (\A x \in InHandNow : Length(x) > 0 /\ OwnVoice(x))'
  BY <1>1, <1>6 DEF OwnVoice
<1>9. \A n \in DOMAIN spans' : Length(spans'[n]) > 0
  BY <1>6 DEF InHandNow
<1>10. SegmentsHold'
  BY <1>1 DEF SegmentsHold, SpeechPlanned, WindowsApart
<1>11. (\A n \in DOMAIN tidied : Length(tidied[n]) > 0 /\ InSpeech(tidied[n]))'
  BY <1>1 DEF SegmentsInv, InSpeech
<1>12. (\A n \in DOMAIN spans : Fits(spans[n]))'
  BY <1>1, <1>6 DEF Fits, InSpeech
<1>13. QED
  BY <1>1, <1>2, <1>6, <1>7, <1>8, <1>9, <1>10, <1>11, <1>12 DEF SegmentsInv, Planned

\* The window of a turn ends half way to the start of its first neighbour at most, and begins no
\* sooner than half way from the end of its last.
LEMMA WindowsMeet ==
    ASSUME spans \in Seq(Turns), \A m, n \in DOMAIN spans : m < n => spans[m].start <= spans[n].start,
           NEW m \in DOMAIN spans, NEW n \in DOMAIN spans, m < n, spans[m].end <= spans[n].start
    PROVE  \/ WindowEnd(m) <= WindowStart(n)
           \/ \E k \in (m + 1)..(n - 1) : spans[k].end < spans[m].end
<1>1. /\ DOMAIN spans = 1..Len(spans) /\ Len(spans) \in Nat
      /\ \A k \in DOMAIN spans : spans[k].start \in Nat /\ spans[k].end \in Nat
      /\ Padding \in Nat /\ Duration \in Nat
  <2>1. \A k \in DOMAIN spans : spans[k] \in Turns
    OBVIOUS
  <2>2. QED
    BY <2>1, TurnTimes, SegmentsAssumption
<1>2. WindowEnd(m) <= spans[m].end + spans[n].start
  <2> DEFINE near == CHOOSE i \in After(m) : \A k \in After(m) : i <= k
             padded == Smaller(2 * Duration, 2 * (spans[m].end + Padding))
  <2>1. n \in After(m) /\ After(m) \in SUBSET Nat /\ After(m) \subseteq DOMAIN spans
    BY <1>1 DEF After
  <2>2. \E i \in After(m) : \A k \in After(m) : i <= k
    <3>1. After(m) \in SUBSET Nat /\ After(m) # {}
      BY <2>1
    <3>2. QED
      BY <3>1, LeastNumber
  <2>3. near \in After(m) /\ near <= n
    BY <2>1, <2>2
  <2>4. WindowEnd(m) = Smaller(padded, spans[m].end + spans[near].start)
    <3> HIDE DEF padded
    <3>1. WindowEnd(m) = IF After(m) = {} THEN padded ELSE Smaller(padded, spans[m].end + spans[near].start)
      BY DEF WindowEnd, padded
    <3>2. QED
      BY <2>1, <3>1
  <2>5. padded \in Int
    BY <1>1 DEF Smaller
  <2> HIDE DEF near, padded
  <2>6. near \in DOMAIN spans /\ spans[near].start <= spans[n].start
    <3>1. near = n \/ near < n
      BY <1>1, <2>1, <2>3
    <3>2. QED
      BY <1>1, <2>1, <2>3, <3>1
  <2>7. QED
    BY <1>1, <2>4, <2>5, <2>6, SMTT(30) DEF Smaller
<1>3. ASSUME NEW near \in Before(n), near = CHOOSE i \in Before(n) : \A k \in Before(n) : k <= i
      PROVE  near \in DOMAIN spans /\ WindowStart(n) >= spans[near].end + spans[n].start
  <2> DEFINE padded == Larger(0, 2 * (spans[n].start - Padding))
  <2>1. near \in DOMAIN spans
    BY <1>1 DEF Before
  <2>2. padded \in Int
    BY <1>1 DEF Larger
  <2> HIDE DEF padded
  <2>3. WindowStart(n) = IF Before(n) = {} THEN padded ELSE Larger(padded, spans[near].end + spans[n].start)
    BY <1>3 DEF WindowStart, padded
  <2>4. WindowStart(n) = Larger(padded, spans[near].end + spans[n].start)
    BY <2>3
  <2>5. QED
    BY <1>1, <2>1, <2>2, <2>4 DEF Larger
<1>4. PICK near \in Before(n) : m <= near /\ near = CHOOSE i \in Before(n) : \A k \in Before(n) : k <= i
  <2>1. m \in Before(n) /\ Before(n) \in SUBSET (1..Len(spans)) /\ Before(n) \in SUBSET Nat
    BY <1>1 DEF Before
  <2>2. IsFiniteSet(Before(n))
    <3>1. 1 \in Int /\ Len(spans) \in Int
      BY <1>1
    <3>2. QED
      BY <2>1, <3>1, FS_Interval, FS_Subset
  <2>3. \E i \in Before(n) : \A k \in Before(n) : k <= i
    <3>1. Before(n) # {}
      BY <2>1
    <3>2. QED
      BY <2>1, <2>2, <3>1, GreatestNumber
  <2>4. QED
    BY <2>1, <2>3
<1>5. near \in DOMAIN spans /\ near < n /\ spans[near].end + spans[n].start <= WindowStart(n)
      /\ WindowStart(n) \in Int
  <2>1. near < n
    BY <1>1, <1>4 DEF Before
  <2>2. Before(n) \subseteq DOMAIN spans
    BY <1>1 DEF Before
  <2>3. WindowStart(n) \in Int
    <3> DEFINE padded == Larger(0, 2 * (spans[n].start - Padding))
    <3>1. padded \in Int
      BY <1>1 DEF Larger
    <3> HIDE DEF padded
    <3>2. WindowStart(n) = IF Before(n) = {} THEN padded ELSE Larger(padded, spans[near].end + spans[n].start)
      BY <1>4 DEF WindowStart, padded
    <3>3. WindowStart(n) = Larger(padded, spans[near].end + spans[n].start)
      BY <1>4, <3>2
    <3>4. spans[near].end \in Nat /\ spans[n].start \in Nat
      BY <1>1, <1>4, <2>2
    <3>5. QED
      BY <3>1, <3>3, <3>4 DEF Larger
  <2>4. QED
    BY <1>1, <1>3, <1>4, <2>1, <2>2, <2>3
<1>6. WindowEnd(m) \in Int
  <2> DEFINE near2 == CHOOSE i \in After(m) : \A k \in After(m) : i <= k
             padded == Smaller(2 * Duration, 2 * (spans[m].end + Padding))
  <2>1. padded \in Int
    BY <1>1 DEF Smaller
  <2>2. After(m) # {} => near2 \in DOMAIN spans
    <3>1. After(m) \in SUBSET Nat /\ After(m) \subseteq DOMAIN spans
      BY <1>1 DEF After
    <3>2. After(m) # {} => \E i \in After(m) : \A k \in After(m) : i <= k
      BY <3>1, LeastNumber
    <3>3. QED
      BY <3>1, <3>2
  <2> HIDE DEF padded
  <2>3. WindowEnd(m) = IF After(m) = {} THEN padded ELSE Smaller(padded, spans[m].end + spans[near2].start)
    BY DEF WindowEnd, padded
  <2> HIDE DEF near2
  <2>4. QED
    BY <1>1, <2>1, <2>2, <2>3 DEF Smaller
<1>7. CASE spans[near].end >= spans[m].end
  BY <1>1, <1>2, <1>5, <1>6, <1>7, SMTT(30)
<1>8. CASE spans[near].end < spans[m].end
  <2>1. near # m
    BY <1>1, <1>8
  <2>2. near \in (m + 1)..(n - 1)
    BY <1>1, <1>4, <1>5, <2>1
  <2>3. QED
    BY <1>8, <2>2
<1>9. QED
  BY <1>1, <1>5, <1>7, <1>8

LEMMA BuildKeeps == ASSUME SegmentsInv, BuildWindows PROVE SegmentsInv'
<1>1. /\ todo = "build_windows" /\ todo' = "planned" /\ UNCHANGED <<speech, spans, tidied>>
      /\ out' = [n \in DOMAIN spans |->
            [label |-> spans[n].label, start |-> spans[n].start, end |-> spans[n].end,
             window |-> [start |-> WindowStart(n), end |-> WindowEnd(n)]]]
  BY DEF BuildWindows
<1>2. /\ spans \in Seq(Turns) /\ out = <<>> /\ AllKept(InHandNow)
      /\ InHandNow = {spans[n] : n \in DOMAIN spans}
      /\ \A n \in DOMAIN spans : spans[n] \in Turns /\ Length(spans[n]) > 0 /\ OwnVoice(spans[n]) /\ Length(spans[n]) <= MaxLength
      /\ \A m, n \in DOMAIN spans : m < n => spans[m].start <= spans[n].start
  BY <1>1 DEF SegmentsInv, Planned, InHandNow
<1>3. /\ DOMAIN out' = DOMAIN spans
      /\ \A n \in DOMAIN spans :
            /\ out'[n].label = spans[n].label /\ out'[n].start = spans[n].start /\ out'[n].end = spans[n].end
            /\ out'[n].window.start = WindowStart(n) /\ out'[n].window.end = WindowEnd(n)
  BY <1>1
<1>4. \A n \in DOMAIN spans : \A tick : Covers(out'[n], tick) <=> Covers(spans[n], tick)
  BY <1>3 DEF Covers
<1>5. SpeechPlanned'
  <2>1. ASSUME NEW n \in DOMAIN tidied, NEW tick \in tidied[n].start..(tidied[n].end - 1)
        PROVE  \E m \in DOMAIN out' : out'[m].label = tidied[n].label /\ Covers(out'[m], tick)
    <3>1. PICK m \in DOMAIN spans : spans[m].label = tidied[n].label /\ Covers(spans[m], tick)
      BY <1>2 DEF AllKept
    <3>2. QED
      BY <1>3, <1>4, <3>1
  <2>2. \A m \in DOMAIN out' : Length(out'[m]) \in 1..MaxLength
    <3>1. ASSUME NEW m \in DOMAIN spans PROVE Length(out'[m]) \in 1..MaxLength
      <4>1. Length(spans[m]) > 0 /\ Length(spans[m]) <= MaxLength /\ Length(spans[m]) \in Int /\ MaxLength \in Nat
        BY <1>2, TurnTimes, SegmentsAssumption
      <4>2. Length(out'[m]) = Length(spans[m])
        BY <1>3 DEF Length
      <4>3. QED
        BY <4>1, <4>2
    <3>2. QED
      BY <1>3, <3>1
  <2>3. ASSUME NEW m \in DOMAIN out', NEW n \in DOMAIN tidied,
               tidied[n].label # out'[m].label, Covers(out'[m], tidied[n].start)
        PROVE  \E k \in DOMAIN tidied : tidied[k].label = out'[m].label /\ Covers(tidied[k], tidied[n].start)
    <3>1. m \in DOMAIN spans /\ OwnVoice(spans[m])
      BY <1>2, <1>3
    <3>2. tidied[n].label # spans[m].label /\ Covers(spans[m], tidied[n].start)
      BY <1>3, <1>4, <2>3, <3>1
    <3>3. PICK k \in DOMAIN tidied : tidied[k].label = spans[m].label /\ Covers(tidied[k], tidied[n].start)
      BY <3>1, <3>2 DEF OwnVoice
    <3>4. QED
      BY <1>3, <3>1, <3>3
  <2>4. /\ \A n \in DOMAIN tidied : \A tick \in tidied[n].start..(tidied[n].end - 1) :
              \E m \in DOMAIN out' : out'[m].label = tidied[n].label /\ Covers(out'[m], tick)
        /\ \A m \in DOMAIN out' : \A n \in DOMAIN tidied :
              (tidied[n].label # out'[m].label /\ Covers(out'[m], tidied[n].start)) =>
                 \E k \in DOMAIN tidied : tidied[k].label = out'[m].label /\ Covers(tidied[k], tidied[n].start)
    BY <2>1, <2>3
  <2>5. tidied' = tidied
    BY <1>1
  <2>6. QED
    BY <2>2, <2>4, <2>5 DEF SpeechPlanned
<1>6. WindowsApart'
  <2>1. ASSUME NEW m \in DOMAIN out', NEW n \in DOMAIN out', m < n, out'[m].end <= out'[n].start
        PROVE  \/ out'[m].window.end <= out'[n].window.start
               \/ \E k \in (m + 1)..(n - 1) : out'[k].end < out'[m].end
    <3>1. m \in DOMAIN spans /\ n \in DOMAIN spans /\ spans[m].end <= spans[n].start
      BY <1>3, <2>1
    <3>2. \/ WindowEnd(m) <= WindowStart(n)
          \/ \E k \in (m + 1)..(n - 1) : spans[k].end < spans[m].end
      BY <1>2, <2>1, <3>1, WindowsMeet
    <3>3. (m + 1)..(n - 1) \subseteq DOMAIN spans
      <4>1. DOMAIN spans = 1..Len(spans) /\ Len(spans) \in Nat
        BY <1>2
      <4>2. QED
        BY <3>1, <4>1
    <3>4. QED
      BY <1>3, <3>1, <3>2, <3>3
  <2>2. QED
    BY <2>1 DEF WindowsApart
<1>7. (\A n \in DOMAIN tidied : Length(tidied[n]) > 0 /\ InSpeech(tidied[n]))'
  BY <1>1 DEF SegmentsInv, InSpeech
<1>8. QED
  BY <1>1, <1>2, <1>5, <1>6, <1>7 DEF SegmentsInv, SegmentsHold, Planned

LEMMA SegmentsStep == SegmentsInv /\ [SegmentsNext]_segmentVars => SegmentsInv'
<1> SUFFICES ASSUME SegmentsInv, [SegmentsNext]_segmentVars PROVE SegmentsInv'
  OBVIOUS
<1>1. CASE UNCHANGED segmentVars
  <2>1. UNCHANGED <<todo, speech, spans, tidied, out>>
    BY <1>1 DEF segmentVars
  <2>2. (todo \in Planned => AllKept(InHandNow) /\ \A x \in InHandNow : Length(x) > 0 /\ OwnVoice(x))'
    <3>1. InHandNow' = InHandNow /\ \A x : OwnVoice(x)' <=> OwnVoice(x)
      BY <2>1 DEF InHandNow, OwnVoice
    <3>2. AllKept(InHandNow)' <=> AllKept(InHandNow)
      BY <2>1, <3>1 DEF AllKept
    <3>3. todo \in Planned => AllKept(InHandNow) /\ \A x \in InHandNow : Length(x) > 0 /\ OwnVoice(x)
      BY DEF SegmentsInv
    <3>4. QED
      BY <2>1, <3>1, <3>2, <3>3 DEF Planned, OwnVoice
  <2>3. (\A n \in DOMAIN tidied : Length(tidied[n]) > 0 /\ InSpeech(tidied[n]))'
        /\ (todo = "drop_tiny" => \A n \in DOMAIN spans : InSpeech(spans[n]))'
    BY <2>1 DEF SegmentsInv, InSpeech
  <2>6. /\ (todo = "merge" => \A n \in DOMAIN out : Fits(out[n]))'
        /\ (todo = "split_long" => \A n \in DOMAIN spans : Fits(spans[n]))'
    BY <2>1 DEF SegmentsInv, Fits, InSpeech
  <2>4. SegmentsHold'
    BY <2>1 DEF SegmentsInv, SegmentsHold, SpeechPlanned, WindowsApart
  <2>5. QED
    BY <2>1, <2>2, <2>3, <2>4, <2>6 DEF SegmentsInv, Planned
<1>2. QED
  BY <1>1, CleanKeeps, TrimKeeps, DropTinyKeeps, MergeTurnKeeps, EndMergeKeeps, SplitKeeps, EndSplitKeeps, BuildKeeps
     DEF SegmentsNext

\* The plan the transcriber follows gives every voice its own speech, and no audio twice: whatever
\* the detectors report, no instant of a tidied turn is lost, no segment is too long or takes in
\* another's turn, and the windows of segments that do not overlap do not either.
THEOREM SpeechIsPlanned == SegmentsSpec => [](SegmentsTypeOK /\ SegmentsHold)
<1>1. SegmentsInv => SegmentsTypeOK /\ SegmentsHold
  BY DEF SegmentsInv, SegmentsTypeOK, Planned
<1>2. SegmentsSpec => []SegmentsInv
  BY SegmentsInitInv, SegmentsStep, PTL DEF SegmentsSpec
<1>3. QED
  BY <1>1, <1>2, PTL

\* Why no turn is cut at its widest silence: a turn that is too long lies in one region of speech,
\* so split_long, which looks for a silence to cut it at, finds none.
LEMMA LongTurnsHoldNoSilence ==
    SegmentsSpec => [](todo = "split_long" =>
        \A n \in DOMAIN spans : Length(spans[n]) > MaxLength =>
            Silences(spans[n].start + MinPiece, spans[n].start + MaxLength) = {})
<1> DEFINE NothingToCutAt == todo = "split_long" =>
              \A n \in DOMAIN spans : Length(spans[n]) > MaxLength =>
                  Silences(spans[n].start + MinPiece, spans[n].start + MaxLength) = {}
<1>1. SegmentsInv => NothingToCutAt
  <2>1. SUFFICES ASSUME SegmentsInv, todo = "split_long", NEW n \in DOMAIN spans, Length(spans[n]) > MaxLength
                 PROVE  Silences(spans[n].start + MinPiece, spans[n].start + MaxLength) = {}
    OBVIOUS
  <2> DEFINE t == spans[n]
  <2>2. t \in Turns /\ InSpeech(t)
    <3>1. spans \in Seq(Turns) /\ Fits(spans[n])
      BY <2>1 DEF SegmentsInv
    <3>2. Length(spans[n]) \in Int /\ MaxLength \in Nat
      BY <3>1, TurnTimes, SegmentsAssumption, SMTT(30)
    <3>3. QED
      BY <2>1, <3>1, <3>2 DEF Fits
  <2>3. t.start \in Nat /\ t.end \in Nat /\ t.start + MaxLength < t.end /\ MaxLength \in Nat /\ MinPiece \in Nat
    <3>1. t.start \in Nat /\ t.end \in Nat /\ Length(t) = t.end - t.start
      <4> HIDE DEF t
      <4>1. QED
        BY <2>2, TurnTimes
    <3>2. QED
      BY <2>1, <3>1, SegmentsAssumption
  <2> HIDE DEF t
  <2>4. InOrder(speech)
    BY <2>1, RegionsInOrder
  <2>5. ASSUME NEW j \in 1..(Len(speech) - 1), t.start + MinPiece < speech[j].end,
               speech[j].end < speech[j + 1].start, speech[j + 1].start < t.start + MaxLength
        PROVE  FALSE
    <3>1. j \in DOMAIN speech /\ j + 1 \in DOMAIN speech /\ j \in Nat
      BY <2>4 DEF InOrder
    <3>2. PICK r \in DOMAIN speech : speech[r].start <= t.start /\ t.end <= speech[r].end
      BY <2>2, <3>1 DEF InSpeech
    <3>3. CASE r <= j
      <4>1. speech[r].end <= speech[j].end
        BY <2>4, <3>1, <3>3 DEF InOrder
      <4>2. speech[j].end \in Nat /\ speech[r].end \in Nat /\ speech[j + 1].start \in Nat
        BY <2>4, <3>1 DEF InOrder
      <4>3. speech[j].end < t.start + MaxLength
        BY <2>3, <2>5, <4>2, SMTT(30)
      <4>4. t.end <= speech[j].end
        BY <2>3, <3>2, <4>1, <4>2
      <4>5. QED
        BY <2>3, <4>2, <4>3, <4>4
    <3>4. CASE r > j
      <4>1. speech[j].end <= speech[r].start
        BY <2>4, <3>1, <3>4 DEF InOrder
      <4>2. speech[j].end \in Nat /\ speech[r].start \in Nat
        BY <2>4, <3>1 DEF InOrder
      <4>3. speech[j].end <= t.start
        BY <2>3, <3>2, <4>1, <4>2
      <4>4. QED
        BY <2>3, <2>5, <4>2, <4>3
    <3>5. QED
      BY <2>4, <3>1, <3>3, <3>4 DEF InOrder
  <2>6. QED
    BY <2>5 DEF Silences, t
<1>2. SegmentsSpec => []SegmentsInv
  BY SegmentsInitInv, SegmentsStep, PTL DEF SegmentsSpec
<1>3. QED
  BY <1>1, <1>2, PTL

-----------------------------------------------------------------------------
(* The audio a voice print is made of *)

\* A function of the numbers up to k that is defined by its value at the number before.
Stepwise(g, first, next, k) == g = [n \in 0..k |-> IF n = 0 THEN first ELSE next[<<n, g[n - 1]>>]]

LEMMA Defined ==
    ASSUME NEW V, NEW next \in [Nat \X V -> V], NEW first \in V, NEW k \in Nat
    PROVE  \E g : Stepwise(g, first, next, k) /\ \A n \in 0..k : g[n] \in V
<1> DEFINE W == Nat \X V
           step == [w \in W |-> <<w[1] + 1, next[<<w[1] + 1, w[2]>>]>>]
           start == <<0, first>>
<1>1. step \in [W -> W]
  <2>1. ASSUME NEW w \in W PROVE <<w[1] + 1, next[<<w[1] + 1, w[2]>>]>> \in W
    <3>1. w[1] + 1 \in Nat /\ <<w[1] + 1, w[2]>> \in Nat \X V
      OBVIOUS
    <3> HIDE DEF W
    <3>2. next[<<w[1] + 1, w[2]>>] \in V
      BY <3>1
    <3>3. QED
      BY <3>1, <3>2 DEF W
  <2>2. QED
    BY <2>1
<1>2. start \in W
  OBVIOUS
<1>3. PICK h : /\ h = [n \in 0..k |-> h[n]] /\ \A n \in 0..k : h[n] \in W
               /\ h[0] = start /\ \A n \in 1..k : h[n] = step[h[n - 1]]
  <2> HIDE DEF W, step, start
  <2>1. QED
    BY <1>1, <1>2, Repeated
<1>4. \A n \in 1..k : n - 1 \in 0..k /\ n \in 0..k
  OBVIOUS
<1>5. \A n \in 1..k : h[n] = <<h[n - 1][1] + 1, next[<<h[n - 1][1] + 1, h[n - 1][2]>>]>>
  <2> HIDE DEF W
  <2>1. QED
    BY <1>3, <1>4
<1> DEFINE Good == {n \in 0..k : h[n][1] = n}
<1>6. \A n \in 0..k : n \in Good
  <2>1. 0 \in Good
    BY <1>3
  <2>2. \A n \in 1..k : n - 1 \in Good => n \in Good
    <3>1. ASSUME NEW n \in 1..k, h[n - 1][1] = n - 1 PROVE h[n][1] = n
      <4>1. h[n] = <<h[n - 1][1] + 1, next[<<h[n - 1][1] + 1, h[n - 1][2]>>]>>
        BY <1>5, <3>1
      <4>2. QED
        BY <3>1, <4>1
    <3>2. QED
      BY <1>4, <3>1
  <2> HIDE DEF Good
  <2>3. QED
    BY <2>1, <2>2, OneByOne
<1> DEFINE g == [n \in 0..k |-> h[n][2]]
<1>7. \A n \in 0..k : g[n] \in V
  BY <1>3
<1>8. ASSUME NEW n \in 0..k PROVE g[n] = IF n = 0 THEN first ELSE next[<<n, g[n - 1]>>]
  <2>1. CASE n = 0
    BY <1>3, <2>1
  <2>2. CASE n # 0
    <3>1. n \in 1..k /\ n - 1 \in 0..k
      BY <2>2
    <3>2. h[n - 1][1] = n - 1
      BY <1>6, <3>1
    <3>3. h[n][2] = next[<<h[n - 1][1] + 1, h[n - 1][2]>>]
      BY <1>5, <3>1
    <3>4. (n - 1) + 1 = n
      BY <3>1
    <3>5. QED
      BY <2>2, <3>1, <3>2, <3>3, <3>4
  <2>3. QED
    BY <2>1, <2>2
<1>9. g = [n \in 0..k |-> g[n]]
  OBVIOUS
<1> HIDE DEF g
<1>10. g = [n \in 0..k |-> IF n = 0 THEN first ELSE next[<<n, g[n - 1]>>]]
  BY <1>8, <1>9
<1>11. Stepwise(g, first, next, k)
  BY <1>10 DEF Stepwise
<1>12. QED
  BY <1>7, <1>11

-----------------------------------------------------------------------------
(* Spans and the instants they cover *)

Cover(pieces) == {t \in Int : \E p \in pieces : Inside(t, p)}
Solid(pieces) == \A p \in pieces : p[1] < p[2]
Members(s)    == {s[n] : n \in DOMAIN s}

\* Spans in order, none touching the next.
Apart(s) == /\ s \in Seq(Spans) /\ Solid(Members(s))
            /\ \A m, n \in DOMAIN s : m < n => s[m][2] < s[n][1]

\* Spans are of whole ticks, and finitely many.
LEMMA SpansFinite ==
    ASSUME NEW pieces \in SUBSET Spans
    PROVE  /\ IsFiniteSet(pieces) /\ Cardinality(pieces) \in Nat
           /\ \A p \in pieces : p[1] \in 0..Ticks /\ p[2] \in 0..Ticks /\ p = <<p[1], p[2]>>
           /\ Cover(pieces) \in SUBSET (0..Ticks) /\ IsFiniteSet(Cover(pieces))
<1>1. Ticks \in Nat
  BY EmbeddingsAssumption
<1>2. IsFiniteSet(0..Ticks)
  <2>1. 0 \in Int /\ Ticks \in Int
    BY <1>1
  <2>2. QED
    BY <2>1, FS_Interval
<1>3. IsFiniteSet(Spans)
  BY <1>2, FS_Product DEF Spans
<1>4. IsFiniteSet(pieces) /\ Cardinality(pieces) \in Nat
  BY <1>3, FS_Subset, FS_CardinalityType
<1>5. \A p \in pieces : p[1] \in 0..Ticks /\ p[2] \in 0..Ticks /\ p = <<p[1], p[2]>>
  BY DEF Spans
<1>6. Cover(pieces) \in SUBSET (0..Ticks)
  BY <1>1, <1>5 DEF Cover, Inside
<1>7. QED
  BY <1>2, <1>4, <1>5, <1>6, FS_Subset

\* What is left of some spans without a turn are the instants outside it.
LEMMA WithoutHolds ==
    ASSUME NEW pieces \in SUBSET Spans, NEW t, t.start \in 0..Ticks, t.end \in 0..Ticks
    PROVE  /\ Without(pieces, t) \in SUBSET Spans
           /\ \A x \in Int : x \in Cover(Without(pieces, t)) <=> x \in Cover(pieces) /\ ~(t.start <= x /\ x < t.end)
<1> DEFINE A == {p \in pieces : t.end <= p[1] \/ t.start >= p[2]}
           B == {q \in pieces : t.end > q[1] /\ t.start < q[2]}
           C == UNION {{<<p[1], t.start>>, <<t.end, p[2]>>} : p \in B}
<1>1. Without(pieces, t) = A \cup C
  BY DEF Without
<1>2. Ticks \in Nat
  BY EmbeddingsAssumption
<1>3. \A p \in pieces : p[1] \in 0..Ticks /\ p[2] \in 0..Ticks
  BY SpansFinite
<1>4. A \cup C \in SUBSET Spans
  <2>1. \A p \in B : <<p[1], t.start>> \in Spans /\ <<t.end, p[2]>> \in Spans
    BY <1>3 DEF Spans
  <2>2. QED
    BY <2>1
<1>5. ASSUME NEW x \in Int, x \in Cover(A \cup C) PROVE x \in Cover(pieces) /\ ~(t.start <= x /\ x < t.end)
  <2>1. PICK p \in A \cup C : p[1] <= x /\ x < p[2]
    BY <1>5 DEF Cover, Inside
  <2>2. CASE p \in A
    BY <1>2, <1>3, <2>1, <2>2 DEF Cover, Inside
  <2>3. CASE p \in C
    <3>1. PICK q \in B : p \in {<<q[1], t.start>>, <<t.end, q[2]>>}
      BY <2>3
    <3>2. q \in pieces /\ q[1] \in 0..Ticks /\ q[2] \in 0..Ticks /\ t.end > q[1] /\ t.start < q[2]
      BY <1>3, <3>1
    <3>3. (p[1] = q[1] /\ p[2] = t.start) \/ (p[1] = t.end /\ p[2] = q[2])
      BY <3>1
    <3>4. q[1] <= x /\ x < q[2] /\ ~(t.start <= x /\ x < t.end)
      BY <1>2, <2>1, <3>2, <3>3
    <3>5. QED
      BY <3>2, <3>4 DEF Cover, Inside
  <2>4. QED
    BY <2>1, <2>2, <2>3
<1>6. ASSUME NEW x \in Int, x \in Cover(pieces), ~(t.start <= x /\ x < t.end) PROVE x \in Cover(A \cup C)
  <2>1. PICK q \in pieces : q[1] <= x /\ x < q[2]
    BY <1>6 DEF Cover, Inside
  <2>2. q[1] \in 0..Ticks /\ q[2] \in 0..Ticks
    BY <1>3
  <2>3. CASE t.end <= q[1] \/ t.start >= q[2]
    BY <2>1, <2>3 DEF Cover, Inside
  <2>4. CASE ~(t.end <= q[1] \/ t.start >= q[2])
    <3>1. q \in B
      BY <1>2, <2>2, <2>4
    <3>2. <<q[1], t.start>> \in C /\ <<t.end, q[2]>> \in C
      BY <3>1
    <3>3. Inside(x, <<q[1], t.start>>) \/ Inside(x, <<t.end, q[2]>>)
      BY <1>2, <1>6, <2>1, <2>2 DEF Inside
    <3> HIDE DEF A, C
    <3>4. QED
      BY <3>2, <3>3 DEF Cover
  <2>5. QED
    BY <2>3, <2>4
<1> HIDE DEF A, C
<1>7. QED
  BY <1>1, <1>4, <1>5, <1>6

\* What is left of a turn are the instants at which none of its rivals sounds.
LEMMA PiecesHold ==
    ASSUME reported \in Seq(Reported), NEW n \in DOMAIN reported
    PROVE  /\ Pieces(n) \in SUBSET Spans /\ Solid(Pieces(n))
           /\ \A x \in Int : x \in Cover(Pieces(n)) <=>
                  Sounds(x, n) /\ \A m \in DOMAIN reported : Rival(m, n) => ~Sounds(x, m)
<1> DEFINE k == Len(reported)
           first == {<<reported[n].start, reported[n].end>>}
           F(g) == g = [m \in 0..k |->
                      IF m = 0 THEN {<<reported[n].start, reported[n].end>>}
                      ELSE IF Rival(m, n) THEN Without(g[m - 1], reported[m]) ELSE g[m - 1]]
           rest == CHOOSE g : F(g)
           V == SUBSET Spans
           W == Nat \X V
           next == [w \in W |->
                      IF w[1] \in 1..k /\ Rival(w[1], n) THEN Without(w[2], reported[w[1]]) ELSE w[2]]
<1>1. /\ k \in Nat /\ DOMAIN reported = 1..k
      /\ \A m \in 1..k : reported[m].start \in 0..Ticks /\ reported[m].end \in 0..Ticks
  <2>1. k \in Nat /\ DOMAIN reported = 1..k /\ \A m \in 1..k : reported[m] \in Reported
    OBVIOUS
  <2>2. QED
    BY <2>1 DEF Reported
<1>2. Pieces(n) = {p \in rest[k] : p[1] < p[2]}
  BY DEF Pieces
<1>3. first \in V
  BY <1>1 DEF Spans
<1>4. next \in [W -> V]
  <2>1. ASSUME NEW w \in W, w[1] \in 1..k PROVE Without(w[2], reported[w[1]]) \in V
    <3>1. w[2] \in SUBSET Spans
      BY <2>1
    <3>2. reported[w[1]].start \in 0..Ticks /\ reported[w[1]].end \in 0..Ticks
      BY <1>1, <2>1
    <3>3. QED
      BY <3>1, <3>2, WithoutHolds
  <2>2. \A w \in W : w[2] \in V
    OBVIOUS
  <2> HIDE DEF W, V
  <2>3. QED
    BY <2>1, <2>2
<1>5. \E g : F(g)
  <2>1. PICK g : Stepwise(g, first, next, k) /\ \A m \in 0..k : g[m] \in V
    <3>1. next \in [Nat \X V -> V]
      BY <1>4
    <3> HIDE DEF first, next, V, k
    <3>2. QED
      BY <1>1, <1>3, <3>1, Defined
  <2>2. ASSUME NEW m \in 1..k
        PROVE  next[<<m, g[m - 1]>>] = IF Rival(m, n) THEN Without(g[m - 1], reported[m]) ELSE g[m - 1]
    <3>1. m \in Nat /\ m - 1 \in 0..k
      BY <1>1
    <3>2. g[m - 1] \in V
      BY <2>1, <3>1
    <3>3. <<m, g[m - 1]>> \in W
      BY <3>1, <3>2
    <3> HIDE DEF W
    <3>4. QED
      BY <3>3
  <2> HIDE DEF next
  <2>3. \A m \in 0..k : g[m] = IF m = 0 THEN {<<reported[n].start, reported[n].end>>}
                      ELSE IF Rival(m, n) THEN Without(g[m - 1], reported[m]) ELSE g[m - 1]
    <3>1. \A m \in 0..k : m # 0 => m \in 1..k
      BY <1>1
    <3>2. QED
      BY <2>1, <2>2, <3>1 DEF Stepwise
  <2>4. g = [m \in 0..k |-> g[m]]
    BY <2>1 DEF Stepwise
  <2>5. F(g)
    BY <2>3, <2>4
  <2>6. QED
    BY <2>5
<1>6. F(rest)
  <2> HIDE DEF F
  <2>1. QED
    BY <1>5
<1> HIDE DEF rest
<1>7. \A m \in 0..k : rest[m] = IF m = 0 THEN first
                      ELSE IF Rival(m, n) THEN Without(rest[m - 1], reported[m]) ELSE rest[m - 1]
  BY <1>6
<1> DEFINE Left(m) == /\ rest[m] \in SUBSET Spans
                      /\ \A x \in Int : x \in Cover(rest[m]) <=>
                            Sounds(x, n) /\ \A j \in 1..m : Rival(j, n) => ~Sounds(x, j)
           Good == {m \in 0..k : Left(m)}
<1>8. 0 \in Good
  <2>1. rest[0] = first
    BY <1>1, <1>7
  <2>2. \A x \in Int : x \in Cover(first) <=> Sounds(x, n)
    BY DEF Cover, Inside, Sounds
  <2>3. \A j \in 1..0 : FALSE
    OBVIOUS
  <2>4. Left(0)
    <3> HIDE DEF first
    <3>1. QED
      BY <1>3, <2>1, <2>2, <2>3
  <2>5. QED
    BY <1>1, <2>4
<1>9. \A m \in 1..k : m - 1 \in Good => m \in Good
  <2>1. ASSUME NEW m \in 1..k, Left(m - 1) PROVE Left(m)
    <3>1. m \in 0..k /\ m # 0 /\ m - 1 \in 0..k
      BY <1>1
    <3>2. rest[m] = IF Rival(m, n) THEN Without(rest[m - 1], reported[m]) ELSE rest[m - 1]
      BY <1>7, <3>1
    <3>3. \A j \in 1..m : j = m \/ j \in 1..(m - 1)
      OBVIOUS
    <3>4. \A j \in 1..(m - 1) : j \in 1..m
      OBVIOUS
    <3>5. m \in 1..m
      BY <1>1
    <3>6. CASE Rival(m, n)
      <4>1. /\ Without(rest[m - 1], reported[m]) \in SUBSET Spans
            /\ \A x \in Int : x \in Cover(Without(rest[m - 1], reported[m])) <=>
                  x \in Cover(rest[m - 1]) /\ ~(reported[m].start <= x /\ x < reported[m].end)
        BY <1>1, <2>1, WithoutHolds
      <4>2. rest[m] = Without(rest[m - 1], reported[m])
        BY <3>2, <3>6
      <4>3. ASSUME NEW x \in Int
            PROVE  x \in Cover(rest[m]) <=> Sounds(x, n) /\ \A j \in 1..m : Rival(j, n) => ~Sounds(x, j)
        <5>1. x \in Cover(rest[m]) <=> x \in Cover(rest[m - 1]) /\ ~Sounds(x, m)
          BY <4>1, <4>2 DEF Sounds
        <5>2. x \in Cover(rest[m - 1]) <=> Sounds(x, n) /\ \A j \in 1..(m - 1) : Rival(j, n) => ~Sounds(x, j)
          BY <2>1
        <5>3. QED
          BY <3>3, <3>4, <3>5, <3>6, <5>1, <5>2
      <4>4. QED
        BY <4>1, <4>2, <4>3
    <3>7. CASE ~Rival(m, n)
      BY <2>1, <3>2, <3>3, <3>4, <3>7
    <3>8. QED
      BY <3>6, <3>7
  <2>2. \A m \in 1..k : m \in 0..k
    OBVIOUS
  <2> HIDE DEF Left
  <2>3. QED
    BY <2>1, <2>2
<1>10. Left(k)
  <2>1. k \in 0..k
    BY <1>1
  <2> HIDE DEF Good, k
  <2>2. k \in Good
    BY <1>1, <1>8, <1>9, <2>1, OneByOne
  <2>3. QED
    BY <2>2 DEF Good
<1>11. \A x \in Int : x \in Cover(Pieces(n)) <=> x \in Cover(rest[k])
  <2>1. ASSUME NEW x \in Int, NEW p \in rest[k], Inside(x, p) PROVE p[1] < p[2]
    <3>1. p[1] \in Int /\ p[2] \in Int
      BY <1>10, EmbeddingsAssumption DEF Spans
    <3>2. QED
      BY <2>1, <3>1 DEF Inside
  <2>2. QED
    BY <1>2, <2>1 DEF Cover
<1>12. QED
  BY <1>1, <1>2, <1>10, <1>11 DEF Solid

\* Sorted spans are the same spans, by their start.
LEMMA SortedSpansHold ==
    ASSUME NEW pieces \in SUBSET Spans
    PROVE  /\ SortedSpans(pieces) \in Seq(Spans) /\ Members(SortedSpans(pieces)) = pieces
           /\ \A m, n \in DOMAIN SortedSpans(pieces) :
                  m < n => SortedSpans(pieces)[m][1] <= SortedSpans(pieces)[n][1]
<1> DEFINE P == [p \in pieces |-> {q \in pieces : Precedes(q, p)}]
           N == Cardinality(pieces)
           at(k) == CHOOSE p \in pieces : Cardinality({q \in pieces : Precedes(q, p)}) = k
<1>1. IsFiniteSet(pieces) /\ N \in Nat /\ \A p \in pieces : p[1] \in Int /\ p[2] \in Int /\ p = <<p[1], p[2]>>
  <2>1. Ticks \in Nat
    BY EmbeddingsAssumption
  <2>2. QED
    BY <2>1, SpansFinite
<1>2. /\ P \in [pieces -> SUBSET pieces]
      /\ \A p \in pieces : p \in P[p]
      /\ \A p, q \in pieces : P[p] \subseteq P[q] \/ P[q] \subseteq P[p]
      /\ \A p, q \in pieces : p \in P[q] /\ q \in P[p] => p = q
  <2>1. P \in [pieces -> SUBSET pieces] /\ \A p, q \in pieces : q \in P[p] <=> Precedes(q, p)
    OBVIOUS
  <2>2. \A p, q \in pieces : Precedes(p, q) \/ Precedes(q, p)
    BY <1>1 DEF Precedes
  <2>3. \A p \in pieces : Precedes(p, p)
    BY <1>1 DEF Precedes
  <2>4. \A p, q \in pieces : Precedes(p, q) /\ Precedes(q, p) => p = q
    <3>1. ASSUME NEW p \in pieces, NEW q \in pieces, Precedes(p, q), Precedes(q, p) PROVE p = q
      <4>1. p[1] = q[1] /\ p[2] = q[2]
        BY <1>1, <3>1 DEF Precedes
      <4>2. QED
        BY <1>1, <4>1
    <3>2. QED
      BY <3>1
  <2>5. \A p, q, r \in pieces : Precedes(p, q) /\ Precedes(q, r) => Precedes(p, r)
    BY <1>1 DEF Precedes
  <2>6. \A p, q \in pieces : Precedes(p, q) => P[p] \subseteq P[q]
    <3>1. ASSUME NEW p \in pieces, NEW q \in pieces, Precedes(p, q), NEW r \in P[p] PROVE r \in P[q]
      <4>1. r \in pieces /\ Precedes(r, p)
        OBVIOUS
      <4> HIDE DEF P
      <4>2. Precedes(r, q)
        BY <2>5, <3>1, <4>1
      <4>3. QED
        BY <2>1, <4>1, <4>2
    <3>2. QED
      BY <3>1
  <2> HIDE DEF P
  <2>7. QED
    BY <2>1, <2>2, <2>3, <2>4, <2>6
<1>3. /\ \A p \in pieces : Cardinality(P[p]) \in 1..N
      /\ \A p, q \in pieces : Cardinality(P[p]) = Cardinality(P[q]) => p = q
      /\ \A p, q \in pieces : Cardinality(P[p]) < Cardinality(P[q]) => q \notin P[p]
      /\ \A k \in 1..N : \E p \in pieces : Cardinality(P[p]) = k
  <2> HIDE DEF P
  <2>1. QED
    BY <1>1, <1>2, RankedOnce
<1>4. \A p \in pieces : P[p] = {q \in pieces : Precedes(q, p)}
  OBVIOUS
<1>5. \A k \in 1..N : at(k) \in pieces /\ Cardinality(P[at(k)]) = k
  <2>1. ASSUME NEW k \in 1..N PROVE at(k) \in pieces /\ Cardinality(P[at(k)]) = k
    <3>1. PICK p \in pieces : Cardinality(P[p]) = k
      BY <1>3
    <3>2. Cardinality({q \in pieces : Precedes(q, p)}) = k
      BY <1>4, <3>1
    <3>3. at(k) \in pieces /\ Cardinality({q \in pieces : Precedes(q, at(k))}) = k
      BY <3>2
    <3>4. QED
      BY <1>4, <3>3
  <2>2. QED
    BY <2>1
<1>6. \A p \in pieces : Cardinality(P[p]) \in 1..N /\ at(Cardinality(P[p])) = p
  BY <1>3, <1>5
<1> DEFINE s == [k \in 1..N |-> at(k)]
<1>7. SortedSpans(pieces) = s
  BY DEF SortedSpans
<1>8. \A p, q \in pieces : Precedes(p, q) \/ Precedes(q, p)
  BY <1>1 DEF Precedes
<1>9. \A p, q \in pieces : Cardinality(P[p]) < Cardinality(P[q]) => p[1] <= q[1]
  <2>1. ASSUME NEW p \in pieces, NEW q \in pieces, Cardinality(P[p]) < Cardinality(P[q]) PROVE p[1] <= q[1]
    <3>1. ~Precedes(q, p)
      BY <1>3, <1>4, <2>1
    <3>2. QED
      BY <1>1, <1>8, <3>1 DEF Precedes
  <2>2. QED
    BY <2>1
<1> HIDE DEF P, at
<1>10. s \in Seq(pieces) /\ DOMAIN s = 1..N
  BY <1>1, <1>5
<1>11. \A m, n \in 1..N : m < n => s[m][1] <= s[n][1]
  BY <1>5, <1>9
<1>12. Members(s) = pieces
  <2>1. \A p \in pieces : \E k \in 1..N : s[k] = p
    BY <1>6
  <2>2. \A k \in 1..N : s[k] \in pieces
    BY <1>5
  <2> HIDE DEF s
  <2>3. QED
    BY <1>10, <2>1, <2>2 DEF Members
<1> HIDE DEF s
<1>13. s \in Seq(Spans)
  BY <1>10
<1>14. QED
  BY <1>7, <1>10, <1>11, <1>12, <1>13

\* Joining a span to some that are apart keeps them apart and covers the span as well.
LEMMA JoinHolds ==
    ASSUME NEW s, Apart(s), NEW p \in Spans, p[1] < p[2], s # <<>> => s[Len(s)][1] <= p[1]
    PROVE  /\ Apart(Join(s, p)) /\ Join(s, p) # <<>> /\ Join(s, p)[Len(Join(s, p))][1] <= p[1]
           /\ \A x \in Int : x \in Cover(Members(Join(s, p))) <=> x \in Cover(Members(s)) \/ Inside(x, p)
<1> DEFINE N == Len(s)
           last == <<s[N][1], Larger(s[N][2], p[2])>>
           longer == [s EXCEPT ![N] = last]
<1>1. /\ s \in Seq(Spans) /\ N \in Nat /\ DOMAIN s = 1..N
      /\ Ticks \in Nat /\ p[1] \in 0..Ticks /\ p[2] \in 0..Ticks
  <2>1. s \in Seq(Spans) /\ Ticks \in Nat
    BY EmbeddingsAssumption DEF Apart
  <2>2. N \in Nat /\ DOMAIN s = 1..N
    BY <2>1
  <2>3. QED
    BY <2>1, <2>2 DEF Spans
<1>2. \A n \in 1..N : s[n] \in Spans /\ s[n][1] \in 0..Ticks /\ s[n][2] \in 0..Ticks /\ s[n][1] < s[n][2]
  <2>1. \A n \in 1..N : s[n] \in Spans
    BY <1>1
  <2>2. \A n \in 1..N : s[n][1] < s[n][2]
    BY <1>1 DEF Apart, Solid, Members
  <2>3. QED
    BY <2>1, <2>2 DEF Spans
<1>3. \A m, n \in 1..N : m < n => s[m][2] < s[n][1]
  BY <1>1 DEF Apart
<1>4. \A x \in Int : x \in Cover(Members(s)) <=> \E n \in 1..N : Inside(x, s[n])
  BY <1>1 DEF Cover, Members
<1>5. CASE s # <<>> /\ p[1] <= s[N][2]
  <2>1. Join(s, p) = longer
    BY <1>5 DEF Join
  <2>2. N \in 1..N /\ s[N][1] <= p[1]
    BY <1>1, <1>5
  <2>3. /\ last \in Spans /\ last[1] = s[N][1] /\ last[1] < last[2]
        /\ \A x \in Int : Inside(x, last) <=> Inside(x, s[N]) \/ Inside(x, p)
    <3>1. s[N][1] \in 0..Ticks /\ s[N][2] \in 0..Ticks /\ s[N][1] < s[N][2]
      BY <1>2, <2>2
    <3>2. Larger(s[N][2], p[2]) \in 0..Ticks
      BY <1>1, <3>1 DEF Larger
    <3>3. \A x \in Int : Inside(x, last) <=> Inside(x, s[N]) \/ Inside(x, p)
      BY <1>1, <1>5, <2>2, <3>1 DEF Inside, Larger
    <3>4. last[1] < last[2]
      BY <1>1, <3>1 DEF Larger
    <3>5. QED
      BY <3>1, <3>2, <3>3, <3>4 DEF Spans
  <2> HIDE DEF last
  <2>4. /\ longer \in Seq(Spans) /\ DOMAIN longer = 1..N /\ Len(longer) = N
        /\ longer[N] = last /\ \A n \in 1..N : n # N => longer[n] = s[n]
    BY <1>1, <2>2, <2>3
  <2> HIDE DEF longer
  <2>5. \A n \in 1..N : longer[n][1] = s[n][1] /\ longer[n][1] < longer[n][2]
    BY <1>2, <2>3, <2>4
  <2>6. \A m, n \in 1..N : m < n => m # N
    <3> HIDE DEF N
    <3>1. N \in Nat
      BY <1>1
    <3>2. QED
      BY <3>1
  <2>7. \A m, n \in 1..N : m < n => longer[m][2] < longer[n][1]
    <3>1. ASSUME NEW m \in 1..N, NEW n \in 1..N, m < n PROVE longer[m][2] < longer[n][1]
      <4>1. longer[m] = s[m] /\ longer[n][1] = s[n][1]
        BY <2>4, <2>5, <2>6, <3>1
      <4>2. s[m][2] < s[n][1]
        BY <1>3, <3>1
      <4>3. QED
        BY <4>1, <4>2
    <3>2. QED
      BY <3>1
  <2>8. Apart(longer)
    BY <2>4, <2>5, <2>7 DEF Apart, Solid, Members
  <2>9. \A x \in Int : (\E n \in 1..N : Inside(x, longer[n])) <=> (\E n \in 1..N : Inside(x, s[n])) \/ Inside(x, p)
    BY <2>2, <2>3, <2>4
  <2>10. \A x \in Int : x \in Cover(Members(longer)) <=> \E n \in 1..N : Inside(x, longer[n])
    BY <2>4 DEF Cover, Members
  <2>11. longer # <<>> /\ longer[Len(longer)][1] <= p[1]
    <3>1. longer[N][1] = s[N][1]
      BY <2>2, <2>3, <2>4
    <3>2. N # 0
      BY <2>2
    <3>3. longer # <<>>
      BY <2>4, <3>2
    <3>4. QED
      BY <2>2, <2>4, <3>1, <3>3
  <2>12. QED
    BY <1>4, <2>1, <2>8, <2>9, <2>10, <2>11
<1>6. CASE ~(s # <<>> /\ p[1] <= s[N][2])
  <2> DEFINE more == Append(s, p)
  <2>1. Join(s, p) = more
    BY <1>6 DEF Join
  <2>2. /\ more \in Seq(Spans) /\ Len(more) = N + 1 /\ DOMAIN more = 1..(N + 1)
        /\ more[N + 1] = p /\ \A n \in 1..N : more[n] = s[n]
    BY <1>1
  <2> HIDE DEF more
  <2>3. \A n \in 1..(N + 1) : n = N + 1 \/ n \in 1..N
    BY <1>1
  <2>4. \A n \in 1..N : n \in 1..(N + 1) /\ s[n][2] < p[1]
    <3>1. ASSUME NEW n \in 1..N PROVE s[n][2] < p[1]
      <4>1. N \in 1..N /\ s # <<>>
        BY <1>1
      <4>2. s[N][2] < p[1] /\ s[N][1] < s[N][2]
        BY <1>1, <1>2, <1>6, <4>1
      <4>3. n # N => s[n][2] < s[N][1]
        BY <1>3, <4>1
      <4>4. s[n][2] \in Int /\ s[N][1] \in Int /\ s[N][2] \in Int /\ p[1] \in Int
        BY <1>1, <1>2, <4>1
      <4>5. CASE n = N
        BY <4>2, <4>5
      <4>6. CASE n # N
        BY <4>2, <4>3, <4>4, <4>6
      <4>7. QED
        BY <4>5, <4>6
    <3>2. QED
      BY <1>1, <3>1
  <2>5. \A n \in 1..(N + 1) : more[n][1] < more[n][2]
    BY <1>2, <2>2, <2>3
  <2>6. \A m, n \in 1..(N + 1) : m < n => more[m][2] < more[n][1]
    <3>1. ASSUME NEW m \in 1..(N + 1), NEW n \in 1..(N + 1), m < n PROVE more[m][2] < more[n][1]
      <4>1. m \in 1..N
        BY <1>1, <2>3, <3>1
      <4>2. QED
        BY <1>3, <2>2, <2>3, <2>4, <3>1, <4>1
    <3>2. QED
      BY <3>1
  <2>7. Apart(more)
    BY <2>2, <2>5, <2>6 DEF Apart, Solid, Members
  <2>8. N + 1 \in 1..(N + 1)
    BY <1>1
  <2>9. \A x \in Int : (\E n \in 1..(N + 1) : Inside(x, more[n])) <=> (\E n \in 1..N : Inside(x, s[n])) \/ Inside(x, p)
    BY <2>2, <2>3, <2>4, <2>8
  <2>10. \A x \in Int : x \in Cover(Members(more)) <=> \E n \in 1..(N + 1) : Inside(x, more[n])
    BY <2>2 DEF Cover, Members
  <2>11. more # <<>> /\ more[Len(more)][1] <= p[1]
    BY <1>1, <2>2
  <2>12. QED
    BY <1>4, <2>1, <2>7, <2>9, <2>10, <2>11
<1>7. QED
  BY <1>5, <1>6

\* What a span is joined to remains a sequence of spans.
LEMMA JoinTyped ==
    ASSUME NEW s \in Seq(Spans), NEW p \in Spans
    PROVE  Join(s, p) \in Seq(Spans)
<1>1. CASE s # <<>> /\ p[1] <= s[Len(s)][2]
  <2> DEFINE last == <<s[Len(s)][1], Larger(s[Len(s)][2], p[2])>>
  <2>1. Len(s) \in DOMAIN s /\ s[Len(s)] \in Spans
    BY <1>1
  <2>2. last \in Spans
    BY <2>1, EmbeddingsAssumption DEF Spans, Larger
  <2> HIDE DEF last
  <2>3. [s EXCEPT ![Len(s)] = last] \in Seq(Spans)
    BY <2>1, <2>2
  <2>4. QED
    BY <1>1, <2>3 DEF Join, last
<1>2. CASE ~(s # <<>> /\ p[1] <= s[Len(s)][2])
  BY <1>2 DEF Join
<1>3. QED
  BY <1>1, <1>2

\* Joined spans are apart, and cover what the spans covered.
LEMMA JoinedHolds ==
    ASSUME NEW pieces \in SUBSET Spans, Solid(pieces)
    PROVE  /\ Apart(Joined(pieces))
           /\ \A x \in Int : x \in Cover(Members(Joined(pieces))) <=> x \in Cover(pieces)
<1> DEFINE ordered == SortedSpans(pieces)
           k == Len(ordered)
           F(g) == g = [n \in 0..k |-> IF n = 0 THEN <<>> ELSE Join(g[n - 1], ordered[n])]
           so_far == CHOOSE g : F(g)
           V == Seq(Spans)
           W == Nat \X V
           next == [w \in W |-> IF w[1] \in 1..k THEN Join(w[2], ordered[w[1]]) ELSE w[2]]
<1>1. /\ ordered \in Seq(Spans) /\ Members(ordered) = pieces /\ k \in Nat /\ DOMAIN ordered = 1..k
      /\ \A m, n \in 1..k : m < n => ordered[m][1] <= ordered[n][1]
  <2>1. /\ ordered \in Seq(Spans) /\ Members(ordered) = pieces
        /\ \A m, n \in DOMAIN ordered : m < n => ordered[m][1] <= ordered[n][1]
    BY SortedSpansHold
  <2> HIDE DEF ordered
  <2>2. QED
    BY <2>1
<1>2. Joined(pieces) = so_far[k]
  BY DEF Joined
<1> HIDE DEF ordered
<1>3. \A n \in 1..k : ordered[n] \in Spans /\ ordered[n] \in pieces /\ ordered[n][1] < ordered[n][2]
  BY <1>1 DEF Members, Solid
<1>4. <<>> \in V
  OBVIOUS
<1>5. next \in [W -> V]
  <2>1. ASSUME NEW w \in W, w[1] \in 1..k PROVE Join(w[2], ordered[w[1]]) \in V
    <3>1. w[2] \in Seq(Spans) /\ ordered[w[1]] \in Spans
      BY <1>3, <2>1
    <3>2. QED
      BY <3>1, JoinTyped
  <2>2. \A w \in W : w[2] \in V
    OBVIOUS
  <2> HIDE DEF W, V
  <2>3. QED
    BY <2>1, <2>2
<1>6. \E g : F(g)
  <2>1. PICK g : Stepwise(g, <<>>, next, k) /\ \A n \in 0..k : g[n] \in V
    <3>1. next \in [Nat \X V -> V]
      BY <1>5
    <3> HIDE DEF next, V, k
    <3>2. QED
      BY <1>1, <1>4, <3>1, Defined
  <2>2. ASSUME NEW n \in 1..k
        PROVE  next[<<n, g[n - 1]>>] = Join(g[n - 1], ordered[n])
    <3>1. n \in Nat /\ n - 1 \in 0..k
      BY <1>1
    <3>2. g[n - 1] \in V
      BY <2>1, <3>1
    <3>3. <<n, g[n - 1]>> \in W
      BY <3>1, <3>2
    <3> HIDE DEF W
    <3>4. QED
      BY <3>3
  <2> HIDE DEF next
  <2>3. \A n \in 0..k : g[n] = IF n = 0 THEN <<>> ELSE Join(g[n - 1], ordered[n])
    <3>1. \A n \in 0..k : n # 0 => n \in 1..k
      BY <1>1
    <3>2. QED
      BY <2>1, <2>2, <3>1 DEF Stepwise
  <2>4. g = [n \in 0..k |-> g[n]]
    BY <2>1 DEF Stepwise
  <2>5. F(g)
    BY <2>3, <2>4
  <2>6. QED
    BY <2>5
<1>7. F(so_far)
  <2> HIDE DEF F
  <2>1. QED
    BY <1>6
<1> HIDE DEF so_far
<1>8. \A n \in 0..k : so_far[n] = IF n = 0 THEN <<>> ELSE Join(so_far[n - 1], ordered[n])
  BY <1>7
<1> DEFINE Fine(n) ==
             /\ Apart(so_far[n])
             /\ so_far[n] # <<>> => n \in 1..k /\ so_far[n][Len(so_far[n])][1] <= ordered[n][1]
             /\ \A x \in Int : x \in Cover(Members(so_far[n])) <=> \E j \in 1..n : Inside(x, ordered[j])
           Good == {n \in 0..k : Fine(n)}
<1>9. 0 \in Good
  <2>1. so_far[0] = <<>>
    BY <1>1, <1>8
  <2>2. \A j \in 1..0 : FALSE
    OBVIOUS
  <2>3. DOMAIN <<>> = {} /\ <<>> \in Seq(Spans)
    OBVIOUS
  <2>4. Apart(<<>>) /\ \A x \in Int : x \notin Cover(Members(<<>>))
    BY <2>3 DEF Apart, Solid, Members, Cover
  <2>5. QED
    BY <1>1, <2>1, <2>2, <2>4
<1>10. \A n \in 1..k : n - 1 \in Good => n \in Good
  <2>1. ASSUME NEW n \in 1..k, Fine(n - 1) PROVE Fine(n)
    <3> DEFINE s == so_far[n - 1]
               p == ordered[n]
    <3>1. n \in 0..k /\ n # 0 /\ n - 1 \in 0..k
      BY <1>1
    <3>2. so_far[n] = Join(s, p)
      BY <1>8, <3>1
    <3>3. Apart(s) /\ p \in Spans /\ p[1] < p[2]
      BY <1>3, <2>1
    <3>4. s # <<>> => s[Len(s)][1] <= p[1]
      <4>1. SUFFICES ASSUME s # <<>> PROVE s[Len(s)][1] <= p[1]
        OBVIOUS
      <4>2. n - 1 \in 1..k /\ s[Len(s)][1] <= ordered[n - 1][1]
        BY <2>1, <4>1
      <4>3. ordered[n - 1][1] <= ordered[n][1]
        BY <1>1, <4>2
      <4>4. s \in Seq(Spans) /\ Len(s) \in DOMAIN s
        BY <3>3, <4>1 DEF Apart
      <4>5. s[Len(s)] \in Spans /\ ordered[n - 1] \in Spans /\ ordered[n] \in Spans
        BY <1>3, <4>2, <4>4
      <4> HIDE DEF s
      <4>6. s[Len(s)][1] \in Int /\ ordered[n - 1][1] \in Int /\ ordered[n][1] \in Int
        BY <4>5, EmbeddingsAssumption DEF Spans
      <4>7. QED
        BY <4>2, <4>3, <4>6
    <3>5. /\ Apart(Join(s, p)) /\ Join(s, p) # <<>> /\ Join(s, p)[Len(Join(s, p))][1] <= p[1]
          /\ \A x \in Int : x \in Cover(Members(Join(s, p))) <=> x \in Cover(Members(s)) \/ Inside(x, p)
      <4> HIDE DEF s, p
      <4>1. QED
        BY <3>3, <3>4, JoinHolds
    <3>6. \A x \in Int : (\E j \in 1..n : Inside(x, ordered[j]))
                            <=> (\E j \in 1..(n - 1) : Inside(x, ordered[j])) \/ Inside(x, ordered[n])
      <4>1. \A j \in 1..n : j = n \/ j \in 1..(n - 1)
        OBVIOUS
      <4>2. n \in 1..n /\ \A j \in 1..(n - 1) : j \in 1..n
        OBVIOUS
      <4>3. QED
        BY <4>1, <4>2
    <3>7. \A x \in Int : x \in Cover(Members(s)) <=> \E j \in 1..(n - 1) : Inside(x, ordered[j])
      BY <2>1
    <3> HIDE DEF s
    <3>8. QED
      BY <3>2, <3>5, <3>6, <3>7
  <2>2. \A n \in 1..k : n \in 0..k
    OBVIOUS
  <2> HIDE DEF Fine
  <2>3. QED
    BY <2>1, <2>2
<1>11. Fine(k)
  <2>1. k \in 0..k
    BY <1>1
  <2> HIDE DEF Good, k
  <2>2. k \in Good
    BY <1>1, <1>9, <1>10, <2>1, OneByOne
  <2>3. QED
    BY <2>2 DEF Good
<1>12. \A x \in Int : x \in Cover(pieces) <=> \E j \in 1..k : Inside(x, ordered[j])
  BY <1>1 DEF Cover, Members
<1>13. QED
  BY <1>2, <1>11, <1>12

\* The clean spans of a voice are apart, and cover the instants at which it is alone in detected speech.
LEMMA CleanSpansHold ==
    ASSUME reported \in Seq(Reported), detected \in SUBSET Spans, NEW label,
           \A n \in DOMAIN reported : ~Unresolved(n)
    PROVE  /\ Apart(CleanSpans(label))
           /\ \A x \in Int : x \in Cover(Members(CleanSpans(label))) <=> Alone(label, x)
<1> DEFINE mine == {m \in DOMAIN reported : reported[m].label = label /\ ~Unresolved(m)}
           own == UNION {Pieces(n) : n \in mine}
           windows == Joined(own)
           within == {<<Larger(windows[n][1], r[1]), Smaller(windows[n][2], r[2])>> : n \in DOMAIN windows, r \in detected}
           solid == {p \in within : p[1] < p[2]}
           Only(x) == /\ \E n \in DOMAIN reported : reported[n].label = label /\ Sounds(x, n)
                      /\ \A n \in DOMAIN reported : Sounds(x, n) => reported[n].label = label
<1>1. CleanSpans(label) = Joined(solid)
  BY DEF CleanSpans
<1>2. own \in SUBSET Spans /\ Solid(own)
  <2>1. \A n \in mine : Pieces(n) \in SUBSET Spans /\ Solid(Pieces(n))
    BY PiecesHold
  <2> HIDE DEF mine
  <2>2. QED
    BY <2>1 DEF Solid
<1>3. \A x \in Int : x \in Cover(own) <=> Only(x)
  <2>1. \A x \in Int : x \in Cover(own) <=> \E n \in mine : x \in Cover(Pieces(n))
    BY DEF Cover
  <2>2. \A n \in mine : n \in DOMAIN reported /\ reported[n].label = label
    OBVIOUS
  <2>3. \A n \in DOMAIN reported : reported[n].label = label => n \in mine
    OBVIOUS
  <2>4. \A n \in mine, m \in DOMAIN reported : Rival(m, n) <=> reported[m].label # label
    BY <2>2 DEF Rival
  <2>5. \A n \in mine, x \in Int : x \in Cover(Pieces(n)) <=>
            Sounds(x, n) /\ \A m \in DOMAIN reported : Rival(m, n) => ~Sounds(x, m)
    BY <2>2, PiecesHold
  <2> HIDE DEF mine
  <2>6. \A n \in mine, x \in Int : x \in Cover(Pieces(n)) <=>
            Sounds(x, n) /\ \A m \in DOMAIN reported : Sounds(x, m) => reported[m].label = label
    BY <2>4, <2>5
  <2>7. QED
    BY <2>1, <2>2, <2>3, <2>6
<1> HIDE DEF own
<1>4. /\ Apart(windows)
      /\ \A x \in Int : x \in Cover(Members(windows)) <=> Only(x)
  <2> HIDE DEF Only
  <2>1. QED
    BY <1>2, <1>3, JoinedHolds
<1> HIDE DEF windows
<1>5. \A n \in DOMAIN windows : windows[n][1] \in 0..Ticks /\ windows[n][2] \in 0..Ticks
  <2>1. \A n \in DOMAIN windows : windows[n] \in Spans
    BY <1>4 DEF Apart
  <2>2. QED
    BY <2>1 DEF Spans
<1>6. \A r \in detected : r[1] \in 0..Ticks /\ r[2] \in 0..Ticks
  BY DEF Spans
<1>7. solid \in SUBSET Spans /\ Solid(solid)
  <2>1. \A n \in DOMAIN windows, r \in detected :
            <<Larger(windows[n][1], r[1]), Smaller(windows[n][2], r[2])>> \in Spans
    BY <1>5, <1>6 DEF Spans, Larger, Smaller
  <2>2. QED
    BY <2>1 DEF Solid
<1>8. \A x \in Int : x \in Cover(solid) <=>
          (\E n \in DOMAIN windows : Inside(x, windows[n])) /\ \E r \in detected : Inside(x, r)
  <2>1. \A x \in Int : \A n \in DOMAIN windows, r \in detected :
            Inside(x, <<Larger(windows[n][1], r[1]), Smaller(windows[n][2], r[2])>>)
               <=> Inside(x, windows[n]) /\ Inside(x, r)
    BY <1>5, <1>6, EmbeddingsAssumption DEF Inside, Larger, Smaller
  <2>2. ASSUME NEW x \in Int, x \in Cover(solid)
        PROVE  (\E n \in DOMAIN windows : Inside(x, windows[n])) /\ \E r \in detected : Inside(x, r)
    <3>1. PICK p \in within : Inside(x, p)
      BY <2>2 DEF Cover
    <3>2. PICK n \in DOMAIN windows, r \in detected :
              p = <<Larger(windows[n][1], r[1]), Smaller(windows[n][2], r[2])>>
      BY <3>1
    <3>3. QED
      BY <2>1, <3>1, <3>2
  <2>3. ASSUME NEW x \in Int, NEW n \in DOMAIN windows, NEW r \in detected, Inside(x, windows[n]), Inside(x, r)
        PROVE  x \in Cover(solid)
    <3> DEFINE p == <<Larger(windows[n][1], r[1]), Smaller(windows[n][2], r[2])>>
    <3>1. p \in within /\ Inside(x, p)
      BY <2>1, <2>3
    <3>2. p[1] \in 0..Ticks /\ p[2] \in 0..Ticks
      BY <1>5, <1>6 DEF Larger, Smaller
    <3> HIDE DEF p, within
    <3>3. p[1] < p[2]
      BY <3>1, <3>2, EmbeddingsAssumption DEF Inside
    <3>4. QED
      BY <3>1, <3>3 DEF Cover
  <2>4. QED
    BY <2>2, <2>3
<1>9. /\ Apart(Joined(solid))
      /\ \A x \in Int : x \in Cover(Members(Joined(solid))) <=> x \in Cover(solid)
  <2> HIDE DEF solid
  <2>1. QED
    BY <1>7, JoinedHolds
<1>10. \A x \in Int : x \in Cover(Members(windows)) <=> \E n \in DOMAIN windows : Inside(x, windows[n])
  BY DEF Cover, Members
<1> HIDE DEF solid
<1>11. QED
  BY <1>1, <1>4, <1>8, <1>9, <1>10 DEF Alone

-----------------------------------------------------------------------------
(* How much is covered *)

\* Spans of which no two cover the same instant.
Disjoint(s) ==
    /\ s \in Seq(Spans)
    /\ \A n \in DOMAIN s : s[n][1] <= s[n][2]
    /\ \A m, n \in DOMAIN s, x \in Int : Inside(x, s[m]) /\ Inside(x, s[n]) => m = n

\* What the first n of them cover.
Upto(s, n) == {x \in Int : \E j \in 1..n : Inside(x, s[j])}

\* One more of them covers as many instants more as it is long.
LEMMA OneMore ==
    ASSUME NEW s, Disjoint(s)
    PROVE  /\ Len(s) \in Nat /\ DOMAIN s = 1..Len(s) /\ Upto(s, 0) = {} /\ Upto(s, Len(s)) = Cover(Members(s))
           /\ \A n \in 0..Len(s) : IsFiniteSet(Upto(s, n)) /\ Cardinality(Upto(s, n)) \in Nat
           /\ \A n \in 1..Len(s) :
                 Cardinality(Upto(s, n)) = Cardinality(Upto(s, n - 1)) + s[n][2] - s[n][1]
<1> DEFINE k == Len(s)
<1>1. /\ k \in Nat /\ DOMAIN s = 1..k /\ Ticks \in Nat
      /\ \A n \in 1..k : s[n][1] \in 0..Ticks /\ s[n][2] \in 0..Ticks /\ s[n][1] <= s[n][2]
  <2>1. k \in Nat /\ DOMAIN s = 1..k /\ \A n \in 1..k : s[n] \in Spans
    BY DEF Disjoint
  <2>2. QED
    BY <2>1, EmbeddingsAssumption DEF Disjoint, Spans
<1>2. Upto(s, 0) = {} /\ Upto(s, k) = Cover(Members(s))
  <2>1. \A j \in 1..0 : FALSE
    OBVIOUS
  <2>2. QED
    BY <1>1, <2>1 DEF Upto, Cover, Members
<1>3. \A n \in 0..k : IsFiniteSet(Upto(s, n)) /\ Cardinality(Upto(s, n)) \in Nat
  <2>1. ASSUME NEW n \in 0..k PROVE Upto(s, n) \in SUBSET (0..Ticks)
    <3>1. \A j \in 1..n : j \in 1..k
      BY <1>1
    <3> HIDE DEF k
    <3>2. QED
      BY <1>1, <3>1 DEF Upto, Inside
  <2>2. IsFiniteSet(0..Ticks)
    <3>1. 0 \in Int /\ Ticks \in Int
      BY <1>1
    <3>2. QED
      BY <3>1, FS_Interval
  <2>3. QED
    BY <2>1, <2>2, FS_Subset, FS_CardinalityType
<1>4. ASSUME NEW n \in 1..k
      PROVE  Cardinality(Upto(s, n)) = Cardinality(Upto(s, n - 1)) + s[n][2] - s[n][1]
  <2> DEFINE a == s[n][1]
             b == s[n][2]
             span == a..(b - 1)
             A == Upto(s, n - 1)
  <2>1. a \in Int /\ b \in Int /\ a <= b
    BY <1>1
  <2>2. n - 1 \in 0..k /\ \A j \in 1..(n - 1) : j \in 1..k /\ j # n /\ j \in 1..n
    BY <1>1
  <2>3. \A j \in 1..n : j = n \/ j \in 1..(n - 1)
    OBVIOUS
  <2>4. n \in 1..n
    BY <1>1
  <2>5. \A x \in Int : Inside(x, s[n]) <=> x \in span
    BY <2>1 DEF Inside
  <2>6. span \subseteq Int
    OBVIOUS
  <2> HIDE DEF span
  <2>7. Upto(s, n) = A \cup span
    BY <2>2, <2>3, <2>4, <2>5, <2>6 DEF Upto
  <2>8. A \cap span = {}
    <3>1. SUFFICES ASSUME NEW x \in A \cap span PROVE FALSE
      OBVIOUS
    <3>2. x \in Int /\ Inside(x, s[n]) /\ \E j \in 1..(n - 1) : Inside(x, s[j])
      BY <2>5 DEF Upto
    <3>3. PICK j \in 1..(n - 1) : Inside(x, s[j])
      BY <3>2
    <3>4. j = n
      BY <1>1, <2>2, <3>2, <3>3 DEF Disjoint
    <3>5. QED
      BY <2>2, <3>4
  <2>9. IsFiniteSet(A) /\ Cardinality(A) \in Nat
    BY <1>3, <2>2
  <2>10. IsFiniteSet(span) /\ Cardinality(span) = b - a
    <3>1. b - 1 \in Int
      BY <2>1
    <3> HIDE DEF a, b
    <3>2. IsFiniteSet(a..(b - 1)) /\ Cardinality(a..(b - 1)) = IF a > b - 1 THEN 0 ELSE (b - 1) - a + 1
      BY <2>1, <3>1, FS_Interval
    <3>3. QED
      BY <2>1, <3>2 DEF span
  <2> HIDE DEF A
  <2>11. Cardinality(A \cup span) = Cardinality(A) + Cardinality(span) - Cardinality(A \cap span)
    BY <2>9, <2>10, FS_Union
  <2>12. Cardinality(A \cap span) = 0
    BY <2>8, FS_EmptySet
  <2> HIDE DEF a, b
  <2>13. Cardinality(Upto(s, n)) = Cardinality(A) + b - a
    BY <2>1, <2>7, <2>9, <2>10, <2>11, <2>12
  <2>14. QED
    BY <2>13 DEF A, a, b
<1>5. QED
  BY <1>1, <1>2, <1>3, <1>4

\* The length of disjoint spans is the number of instants they cover.
LEMMA AmountIsCover ==
    ASSUME NEW s, Disjoint(s)
    PROVE  Amount(s) = Cardinality(Cover(Members(s)))
<1> DEFINE k == Len(s)
           F(g) == g = [n \in 0..k |-> IF n = 0 THEN 0 ELSE g[n - 1] + s[n][2] - s[n][1]]
           upto == CHOOSE g : F(g)
           h == [n \in 0..k |-> Cardinality(Upto(s, n))]
<1>1. /\ k \in Nat /\ Upto(s, 0) = {} /\ Upto(s, k) = Cover(Members(s))
      /\ \A n \in 1..k : Cardinality(Upto(s, n)) = Cardinality(Upto(s, n - 1)) + s[n][2] - s[n][1]
  BY OneMore
<1>2. Amount(s) = upto[k]
  BY DEF Amount
<1>3. Cardinality(Upto(s, 0)) = 0
  BY <1>1, FS_EmptySet
<1>4. \A n \in 1..k : n \in 0..k /\ n - 1 \in 0..k
  BY <1>1
<1>5. F(h)
  <2>1. \A n \in 0..k : h[n] = IF n = 0 THEN 0 ELSE h[n - 1] + s[n][2] - s[n][1]
    <3>1. ASSUME NEW n \in 0..k PROVE h[n] = IF n = 0 THEN 0 ELSE h[n - 1] + s[n][2] - s[n][1]
      <4>1. CASE n = 0
        BY <1>3, <3>1, <4>1
      <4>2. CASE n # 0
        <5>1. n \in 1..k
          BY <1>1, <3>1, <4>2
        <5>2. h[n] = Cardinality(Upto(s, n)) /\ h[n - 1] = Cardinality(Upto(s, n - 1))
          BY <1>4, <5>1
        <5>3. QED
          BY <1>1, <4>2, <5>1, <5>2
      <4>3. QED
        BY <4>1, <4>2
    <3>2. QED
      BY <3>1
  <2>2. h = [n \in 0..k |-> h[n]]
    OBVIOUS
  <2> HIDE DEF h
  <2>3. QED
    BY <2>1, <2>2
<1>6. F(upto)
  <2> HIDE DEF F, h
  <2>1. QED
    BY <1>5
<1> HIDE DEF upto
<1>7. \A n \in 0..k : upto[n] = IF n = 0 THEN 0 ELSE upto[n - 1] + s[n][2] - s[n][1]
  BY <1>6
<1> DEFINE Good == {n \in 0..k : upto[n] = Cardinality(Upto(s, n))}
<1>8. 0 \in Good
  BY <1>1, <1>3, <1>7
<1>9. \A n \in 1..k : n - 1 \in Good => n \in Good
  <2>1. ASSUME NEW n \in 1..k, n - 1 \in Good PROVE upto[n] = Cardinality(Upto(s, n))
    <3>1. n \in 0..k /\ n # 0
      BY <1>1
    <3>2. upto[n] = upto[n - 1] + s[n][2] - s[n][1]
      BY <1>7, <3>1
    <3>3. QED
      BY <1>1, <2>1, <3>2
  <2>2. QED
    BY <1>4, <2>1
<1>10. k \in Good
  <2>1. k \in 0..k
    BY <1>1
  <2> HIDE DEF Good, k
  <2>2. QED
    BY <1>1, <1>8, <1>9, <2>1, OneByOne
<1>11. QED
  BY <1>1, <1>2, <1>10

\* The longest first are the same spans, each once.
LEMMA LongestFirstHolds ==
    ASSUME NEW s, s \in Seq(Spans)
    PROVE  \E at \in [DOMAIN s -> DOMAIN s] :
              /\ LongestFirst(s) = [k \in DOMAIN s |-> s[at[k]]]
              /\ \A n \in DOMAIN s : \E k \in DOMAIN s : at[k] = n
              /\ \A j, k \in DOMAIN s : at[j] = at[k] => j = k
<1> DEFINE D == DOMAIN s
           P == [n \in D |-> {m \in D : Outlasts(s, m, n)}]
           N == Len(s)
           at == [k \in D |-> CHOOSE n \in D : Cardinality({m \in D : Outlasts(s, m, n)}) = k]
<1>1. N \in Nat /\ D = 1..N /\ \A n \in D : n \in Int /\ s[n] \in Spans
  OBVIOUS
<1>2. \A n \in D : s[n][1] \in Int /\ s[n][2] \in Int
  <2>1. \A p \in Spans : p[1] \in Int /\ p[2] \in Int
    BY EmbeddingsAssumption DEF Spans
  <2>2. QED
    BY <1>1, <2>1
<1>3. IsFiniteSet(D) /\ Cardinality(D) = N
  <2>1. 1 \in Int /\ N \in Int
    BY <1>1
  <2>2. IsFiniteSet(1..N) /\ Cardinality(1..N) = IF 1 > N THEN 0 ELSE N - 1 + 1
    BY <2>1, FS_Interval
  <2> HIDE DEF N, D
  <2>3. QED
    BY <1>1, <2>2
<1> HIDE DEF D, N
<1> DEFINE w(n) == s[n][2] - s[n][1]
<1>4. \A n \in D : w(n) \in Int /\ n \in Int
  BY <1>1, <1>2
<1>5. \A m, n \in D : Outlasts(s, m, n) <=> w(m) > w(n) \/ (w(m) = w(n) /\ m <= n)
  BY DEF Outlasts
<1> HIDE DEF w
<1>6. \A m, n \in D : Outlasts(s, m, n) \/ Outlasts(s, n, m)
  BY <1>4, <1>5
<1>7. \A n \in D : Outlasts(s, n, n)
  BY <1>4, <1>5
<1>8. \A m, n \in D : Outlasts(s, m, n) /\ Outlasts(s, n, m) => m = n
  BY <1>4, <1>5
<1>9. \A m, n, k \in D : Outlasts(s, k, m) /\ Outlasts(s, m, n) => Outlasts(s, k, n)
  BY <1>4, <1>5
<1>10. P \in [D -> SUBSET D] /\ \A m, n \in D : m \in P[n] <=> Outlasts(s, m, n)
  OBVIOUS
<1>11. \A m, n \in D : P[m] \subseteq P[n] \/ P[n] \subseteq P[m]
  <2>1. ASSUME NEW m \in D, NEW n \in D, Outlasts(s, m, n), NEW k \in P[m] PROVE k \in P[n]
    <3>1. k \in D
      BY <2>1, <1>10
    <3> HIDE DEF P
    <3>2. Outlasts(s, k, m)
      BY <1>10, <2>1, <3>1
    <3>3. Outlasts(s, k, n)
      BY <1>9, <2>1, <3>1, <3>2
    <3>4. QED
      BY <1>10, <2>1, <3>1, <3>3
  <2>2. QED
    BY <1>6, <2>1
<1> HIDE DEF P
<1>12. /\ \A n \in D : Cardinality(P[n]) \in 1..N
       /\ \A m, n \in D : Cardinality(P[m]) = Cardinality(P[n]) => m = n
       /\ \A k \in 1..N : \E n \in D : Cardinality(P[n]) = k
  <2>1. \A n \in D : n \in P[n]
    BY <1>7, <1>10
  <2>2. \A m, n \in D : m \in P[n] /\ n \in P[m] => m = n
    BY <1>8, <1>10
  <2>3. QED
    BY <1>3, <1>10, <1>11, <2>1, <2>2, RankedOnce
<1>13. \A n \in D : P[n] = {m \in D : Outlasts(s, m, n)}
  BY DEF P
<1>14. \A k \in D : at[k] \in D /\ Cardinality(P[at[k]]) = k
  <2>1. ASSUME NEW k \in D PROVE at[k] \in D /\ Cardinality(P[at[k]]) = k
    <3>1. PICK n \in D : Cardinality(P[n]) = k
      BY <1>1, <1>12
    <3>2. Cardinality({m \in D : Outlasts(s, m, n)}) = k
      BY <1>13, <3>1
    <3>3. at[k] \in D /\ Cardinality({m \in D : Outlasts(s, m, at[k])}) = k
      BY <3>2
    <3>4. QED
      BY <1>13, <3>3
  <2>2. QED
    BY <2>1
<1>15. LongestFirst(s) = [k \in D |-> s[at[k]]]
  BY DEF LongestFirst, D
<1>16. at \in [D -> D]
  BY <1>14
<1> HIDE DEF at
<1>17. \A n \in D : Cardinality(P[n]) \in D /\ at[Cardinality(P[n])] = n
  <2>1. ASSUME NEW n \in D PROVE Cardinality(P[n]) \in D /\ at[Cardinality(P[n])] = n
    <3>1. Cardinality(P[n]) \in D
      BY <1>1, <1>12
    <3>2. at[Cardinality(P[n])] \in D /\ Cardinality(P[at[Cardinality(P[n])]]) = Cardinality(P[n])
      BY <1>14, <3>1
    <3>3. at[Cardinality(P[n])] = n
      BY <1>12, <3>2
    <3>4. QED
      BY <3>1, <3>3
  <2>2. QED
    BY <2>1
<1>18. \A j, k \in D : at[j] = at[k] => j = k
  BY <1>14
<1>19. QED
  BY <1>15, <1>16, <1>17, <1>18 DEF D

\* Spans that are apart are disjoint.
LEMMA ApartIsDisjoint ==
    ASSUME NEW s, Apart(s)
    PROVE  Disjoint(s)
<1>1. s \in Seq(Spans) /\ DOMAIN s = 1..Len(s) /\ Len(s) \in Nat
  BY DEF Apart
<1>2. \A n \in DOMAIN s : s[n][1] < s[n][2]
  BY DEF Apart, Solid, Members
<1>3. \A n \in DOMAIN s : s[n][1] \in Int /\ s[n][2] \in Int
  <2>1. \A p \in Spans : p[1] \in Int /\ p[2] \in Int
    BY EmbeddingsAssumption DEF Spans
  <2>2. \A n \in DOMAIN s : s[n] \in Spans
    BY <1>1
  <2>3. QED
    BY <2>1, <2>2
<1>4. \A m, n \in DOMAIN s, x \in Int : m < n => ~(Inside(x, s[m]) /\ Inside(x, s[n]))
  <2>1. \A m, n \in DOMAIN s : m < n => s[m][2] < s[n][1]
    BY DEF Apart
  <2>2. QED
    BY <1>3, <2>1 DEF Inside
<1>5. \A m, n \in DOMAIN s : m < n \/ n < m \/ m = n
  BY <1>1
<1>6. \A n \in DOMAIN s : s[n][1] <= s[n][2]
  BY <1>2, <1>3
<1>7. QED
  BY <1>1, <1>4, <1>5, <1>6 DEF Disjoint

\* What is collected of disjoint spans is disjoint again, covers only what they cover, and as
\* much of it as the limit allows.
LEMMA CollectedHolds ==
    ASSUME NEW s, Disjoint(s)
    PROVE  /\ Disjoint(Collected(s)) /\ Cover(Members(Collected(s))) \subseteq Cover(Members(s))
           /\ Cardinality(Cover(Members(Collected(s)))) = Smaller(MaxClip, Cardinality(Cover(Members(s))))
<1> DEFINE ordered == LongestFirst(s)
           N == Len(ordered)
           F(g) == g = [n \in 0..N |-> IF n = 0 THEN 0 ELSE Smaller(MaxClip, g[n - 1] + ordered[n][2] - ordered[n][1])]
           total == CHOOSE g : F(g)
           chunks == [n \in DOMAIN ordered |-> <<ordered[n][1], ordered[n][1] + total[n] - total[n - 1]>>]
           places == {n \in DOMAIN chunks : chunks[n][1] < chunks[n][2]}
           h == [n \in 0..N |-> Smaller(MaxClip, Cardinality(Upto(ordered, n)))]
<1>1. Collected(s) = Picked(chunks, places)
  BY DEF Collected
<1>2. Disjoint(ordered) /\ Cover(Members(ordered)) = Cover(Members(s))
  <2>1. s \in Seq(Spans) /\ DOMAIN s = 1..Len(s) /\ Len(s) \in Nat
    BY DEF Disjoint
  <2>2. PICK at \in [DOMAIN s -> DOMAIN s] :
              /\ LongestFirst(s) = [k \in DOMAIN s |-> s[at[k]]]
              /\ \A n \in DOMAIN s : \E k \in DOMAIN s : at[k] = n
              /\ \A j, k \in DOMAIN s : at[j] = at[k] => j = k
    BY <2>1, LongestFirstHolds
  <2>3. \A k \in DOMAIN s : at[k] \in DOMAIN s /\ s[at[k]] \in Spans
    BY <2>1, <2>2
  <2>4. DOMAIN ordered = DOMAIN s /\ \A k \in DOMAIN s : ordered[k] = s[at[k]]
    BY <2>2
  <2>5. ordered \in Seq(Spans)
    <3>1. [k \in 1..Len(s) |-> s[at[k]]] \in Seq(Spans)
      BY <2>1, <2>3
    <3>2. QED
      BY <2>1, <2>2, <3>1
  <2> HIDE DEF ordered
  <2>6. Disjoint(ordered)
    <3>1. \A n \in DOMAIN s : ordered[n][1] <= ordered[n][2]
      BY <2>3, <2>4 DEF Disjoint
    <3>2. ASSUME NEW m \in DOMAIN s, NEW n \in DOMAIN s, NEW x \in Int, Inside(x, ordered[m]), Inside(x, ordered[n])
          PROVE  m = n
      <4>1. at[m] = at[n]
        BY <2>3, <2>4, <3>2 DEF Disjoint
      <4>2. QED
        BY <2>2, <4>1
    <3>3. QED
      BY <2>4, <2>5, <3>1, <3>2 DEF Disjoint
  <2>7. \A x \in Int : (\E k \in DOMAIN s : Inside(x, ordered[k])) <=> \E k \in DOMAIN s : Inside(x, s[k])
    BY <2>2, <2>3, <2>4
  <2>8. Cover(Members(ordered)) = Cover(Members(s))
    BY <2>4, <2>7 DEF Cover, Members
  <2>9. QED
    BY <2>6, <2>8
<1> HIDE DEF ordered
<1>3. /\ N \in Nat /\ DOMAIN ordered = 1..N /\ MaxClip \in Nat
      /\ \A n \in 1..N : ordered[n][1] \in 0..Ticks /\ ordered[n][2] \in 0..Ticks /\ ordered[n][1] <= ordered[n][2]
      /\ \A n \in 1..N : n \in 0..N /\ n - 1 \in 0..N /\ n # 0
  <2>1. N \in Nat /\ DOMAIN ordered = 1..N /\ \A n \in 1..N : ordered[n] \in Spans
    BY <1>2 DEF Disjoint
  <2>2. \A n \in 1..N : ordered[n][1] \in 0..Ticks /\ ordered[n][2] \in 0..Ticks
    BY <2>1 DEF Spans
  <2>3. \A n \in 1..N : ordered[n][1] <= ordered[n][2]
    BY <1>2, <2>1 DEF Disjoint
  <2>4. QED
    BY <2>1, <2>2, <2>3, EmbeddingsAssumption
<1> DEFINE C(n) == Cardinality(Upto(ordered, n))
<1>4. /\ Upto(ordered, 0) = {} /\ Upto(ordered, N) = Cover(Members(s))
      /\ \A n \in 0..N : C(n) \in Nat
      /\ \A n \in 1..N : C(n) = C(n - 1) + ordered[n][2] - ordered[n][1]
  BY <1>2, OneMore
<1>5. C(0) = 0
  BY <1>4, FS_EmptySet
<1> HIDE DEF C
<1>6. \A n \in 1..N : Smaller(MaxClip, C(n)) = Smaller(MaxClip, Smaller(MaxClip, C(n - 1)) + ordered[n][2] - ordered[n][1])
  <2>1. ASSUME NEW n \in 1..N
        PROVE  Smaller(MaxClip, C(n)) = Smaller(MaxClip, Smaller(MaxClip, C(n - 1)) + ordered[n][2] - ordered[n][1])
    <3>1. /\ C(n - 1) \in Nat /\ MaxClip \in Nat /\ C(n) = C(n - 1) + ordered[n][2] - ordered[n][1]
          /\ ordered[n][1] \in Int /\ ordered[n][2] \in Int /\ ordered[n][1] <= ordered[n][2]
      BY <1>3, <1>4
    <3>2. QED
      BY <3>1 DEF Smaller
  <2>2. QED
    BY <2>1
<1>7. \A n \in 0..N : h[n] = Smaller(MaxClip, C(n))
  BY DEF C
<1>8. Smaller(MaxClip, C(0)) = 0
  BY <1>3, <1>5 DEF Smaller
<1>9. F(h)
  <2>1. \A n \in 0..N : h[n] = IF n = 0 THEN 0 ELSE Smaller(MaxClip, h[n - 1] + ordered[n][2] - ordered[n][1])
    <3>1. ASSUME NEW n \in 0..N
          PROVE  h[n] = IF n = 0 THEN 0 ELSE Smaller(MaxClip, h[n - 1] + ordered[n][2] - ordered[n][1])
      <4> HIDE DEF h
      <4>1. CASE n = 0
        BY <1>7, <1>8, <4>1
      <4>2. CASE n # 0
        <5>1. n \in 1..N
          BY <1>3, <4>2
        <5>2. h[n] = Smaller(MaxClip, C(n)) /\ h[n - 1] = Smaller(MaxClip, C(n - 1))
          BY <1>3, <1>7, <5>1
        <5>3. QED
          BY <1>6, <4>2, <5>1, <5>2
      <4>3. QED
        BY <4>1, <4>2
    <3>2. QED
      BY <3>1
  <2>2. h = [n \in 0..N |-> h[n]]
    OBVIOUS
  <2> HIDE DEF h
  <2>3. QED
    BY <2>1, <2>2
<1>10. F(total)
  <2> HIDE DEF F, h
  <2>1. QED
    BY <1>9
<1> HIDE DEF total
<1>11. \A n \in 0..N : total[n] = IF n = 0 THEN 0 ELSE Smaller(MaxClip, total[n - 1] + ordered[n][2] - ordered[n][1])
  BY <1>10
<1>12. \A n \in 0..N : total[n] = Smaller(MaxClip, C(n))
  <2> DEFINE Good == {n \in 0..N : total[n] = Smaller(MaxClip, C(n))}
  <2>1. 0 \in Good
    BY <1>3, <1>8, <1>11
  <2>2. \A n \in 1..N : n - 1 \in Good => n \in Good
    <3>1. ASSUME NEW n \in 1..N, n - 1 \in Good PROVE total[n] = Smaller(MaxClip, C(n))
      <4>1. total[n] = Smaller(MaxClip, total[n - 1] + ordered[n][2] - ordered[n][1])
        BY <1>3, <1>11
      <4>2. QED
        BY <1>6, <3>1, <4>1
    <3>2. QED
      BY <1>3, <3>1
  <2> HIDE DEF Good
  <2>3. \A n \in 0..N : n \in Good
    BY <1>3, <2>1, <2>2, OneByOne
  <2>4. QED
    BY <2>3 DEF Good
<1> DEFINE w(n) == total[n] - total[n - 1]
<1>13. \A n \in 1..N : w(n) \in Int /\ 0 <= w(n) /\ w(n) <= ordered[n][2] - ordered[n][1]
  <2>1. ASSUME NEW n \in 1..N PROVE w(n) \in Int /\ 0 <= w(n) /\ w(n) <= ordered[n][2] - ordered[n][1]
    <3>1. /\ C(n - 1) \in Nat /\ MaxClip \in Nat /\ C(n) = C(n - 1) + ordered[n][2] - ordered[n][1]
          /\ ordered[n][1] \in Int /\ ordered[n][2] \in Int /\ ordered[n][1] <= ordered[n][2]
      BY <1>3, <1>4
    <3>2. total[n] = Smaller(MaxClip, C(n)) /\ total[n - 1] = Smaller(MaxClip, C(n - 1))
      BY <1>3, <1>12
    <3>3. QED
      BY <3>1, <3>2 DEF Smaller
  <2>2. QED
    BY <2>1
<1>14. \A n \in 0..N : total[n] \in Nat
  BY <1>3, <1>4, <1>12 DEF Smaller
<1>15. /\ DOMAIN chunks = 1..N
       /\ \A n \in 1..N : chunks[n] \in Spans /\ chunks[n][1] = ordered[n][1] /\ chunks[n][2] = ordered[n][1] + w(n)
  <2>1. DOMAIN chunks = 1..N
    BY <1>3
  <2>2. ASSUME NEW n \in 1..N
        PROVE  chunks[n] \in Spans /\ chunks[n][1] = ordered[n][1] /\ chunks[n][2] = ordered[n][1] + w(n)
    <3>1. total[n] \in Int /\ total[n - 1] \in Int /\ ordered[n][1] \in Int /\ ordered[n][2] \in Int
      BY <1>3, <1>14
    <3>2. chunks[n] = <<ordered[n][1], ordered[n][1] + total[n] - total[n - 1]>>
      BY <1>3
    <3>3. ordered[n][1] + total[n] - total[n - 1] = ordered[n][1] + w(n)
      BY <3>1
    <3>4. ordered[n][1] + w(n) \in 0..Ticks /\ ordered[n][1] \in 0..Ticks
      <4>1. w(n) \in Int /\ 0 <= w(n) /\ w(n) <= ordered[n][2] - ordered[n][1]
        BY <1>13, <2>2
      <4>2. ordered[n][1] \in 0..Ticks /\ ordered[n][2] \in 0..Ticks /\ Ticks \in Nat
        BY <1>3, EmbeddingsAssumption
      <4> HIDE DEF w
      <4>3. QED
        BY <4>1, <4>2
    <3> HIDE DEF chunks, w
    <3>5. QED
      BY <3>2, <3>3, <3>4 DEF Spans
  <2>3. QED
    BY <2>1, <2>2
<1>16. Len(chunks) = N /\ chunks \in Seq(Spans)
  <2>1. chunks = [n \in 1..N |-> chunks[n]]
    BY <1>3
  <2> HIDE DEF chunks
  <2>2. [n \in 1..N |-> chunks[n]] \in Seq(Spans)
    BY <1>3, <1>15
  <2>3. QED
    BY <1>3, <1>15, <2>1, <2>2
<1> HIDE DEF chunks, w
<1>17. \A n \in 1..N, x \in Int : Inside(x, chunks[n]) => Inside(x, ordered[n])
  BY <1>3, <1>13, <1>15 DEF Inside
<1>18. Disjoint(chunks)
  <2>1. \A n \in 1..N : chunks[n][1] <= chunks[n][2]
    BY <1>3, <1>13, <1>15
  <2>2. \A m, n \in 1..N, x \in Int : Inside(x, chunks[m]) /\ Inside(x, chunks[n]) => m = n
    BY <1>2, <1>3, <1>17 DEF Disjoint
  <2>3. QED
    BY <1>15, <1>16, <2>1, <2>2 DEF Disjoint
<1>19. Cover(Members(chunks)) \subseteq Cover(Members(s))
  <2>1. Cover(Members(chunks)) \subseteq Cover(Members(ordered))
    BY <1>3, <1>15, <1>17 DEF Cover, Members
  <2>2. QED
    BY <1>2, <2>1
<1> DEFINE U(n) == Cardinality(Upto(chunks, n))
<1>20. /\ Upto(chunks, 0) = {} /\ Upto(chunks, N) = Cover(Members(chunks))
       /\ \A n \in 1..N : U(n) = U(n - 1) + chunks[n][2] - chunks[n][1]
  BY <1>16, <1>18, OneMore
<1>21. U(0) = 0
  BY <1>20, FS_EmptySet
<1> HIDE DEF U
<1>22. U(N) = total[N]
  <2> DEFINE Good == {n \in 0..N : U(n) = total[n]}
  <2>1. 0 \in Good
    BY <1>3, <1>11, <1>21
  <2>2. \A n \in 1..N : n - 1 \in Good => n \in Good
    <3>1. ASSUME NEW n \in 1..N, U(n - 1) = total[n - 1] PROVE U(n) = total[n]
      <4>1. U(n) = total[n - 1] + chunks[n][2] - chunks[n][1]
        BY <1>20, <3>1
      <4>2. chunks[n][1] = ordered[n][1] /\ chunks[n][2] = ordered[n][1] + (total[n] - total[n - 1])
        BY <1>15 DEF w
      <4>3. total[n] \in Int /\ total[n - 1] \in Int /\ ordered[n][1] \in Int
        BY <1>3, <1>14
      <4>4. QED
        BY <4>1, <4>2, <4>3
    <3>2. QED
      BY <1>3, <3>1
  <2> HIDE DEF Good
  <2>3. \A n \in 0..N : n \in Good
    BY <1>3, <2>1, <2>2, OneByOne
  <2>4. N \in 0..N
    BY <1>3
  <2>5. QED
    BY <2>3, <2>4 DEF Good
<1>23. Cardinality(Cover(Members(chunks))) = Smaller(MaxClip, Cardinality(Cover(Members(s))))
  <2>1. N \in 0..N
    BY <1>3
  <2>2. total[N] = Smaller(MaxClip, C(N))
    BY <1>12, <2>1
  <2>3. QED
    BY <1>4, <1>20, <1>22, <2>2 DEF U, C
<1>24. places \in SUBSET Nat /\ IsFiniteSet(places) /\ places \subseteq 1..N
  <2>1. places \subseteq 1..N
    BY <1>15
  <2> HIDE DEF places
  <2>2. IsFiniteSet(1..N)
    <3>1. 1 \in Int /\ N \in Int
      BY <1>3
    <3>2. QED
      BY <3>1, FS_Interval
  <2>3. 1..N \subseteq Nat
    OBVIOUS
  <2>4. QED
    BY <2>1, <2>2, <2>3, FS_Subset
<1> DEFINE out0 == Picked(chunks, places)
           K == Cardinality(places)
<1>25. PICK at : Takes(chunks, places, at)
  BY <1>24, PickedOnce
<1>26. K \in Nat
  BY <1>24, FS_CardinalityType
<1>27. /\ at \in [1..K -> places] /\ out0 = [k \in 1..K |-> chunks[at[k]]]
       /\ \A n \in places : \E k \in 1..K : at[k] = n
       /\ \A j, k \in 1..K : at[j] = at[k] => j = k
  BY <1>25 DEF Takes
<1>28. \A n \in 1..N, x \in Int : Inside(x, chunks[n]) => n \in places
  <2>1. \A n \in 1..N : chunks[n][1] \in Int /\ chunks[n][2] \in Int
    BY <1>3, <1>13, <1>15
  <2>2. QED
    BY <1>15, <2>1 DEF Inside
<1> HIDE DEF out0, K, places
<1>29. \A k \in 1..K : at[k] \in 1..N /\ out0[k] = chunks[at[k]] /\ chunks[at[k]] \in Spans
  BY <1>15, <1>24, <1>27
<1>30. DOMAIN out0 = 1..K /\ out0 \in Seq(Spans)
  BY <1>26, <1>27, <1>29
<1>31. Disjoint(out0)
  <2>1. \A k \in 1..K : out0[k][1] <= out0[k][2]
    BY <1>15, <1>18, <1>29 DEF Disjoint
  <2>2. \A j, k \in 1..K, x \in Int : Inside(x, out0[j]) /\ Inside(x, out0[k]) => j = k
    <3>1. ASSUME NEW j \in 1..K, NEW k \in 1..K, NEW x \in Int, Inside(x, out0[j]), Inside(x, out0[k])
          PROVE  j = k
      <4>1. at[j] = at[k]
        BY <1>15, <1>18, <1>29, <3>1 DEF Disjoint
      <4>2. QED
        BY <1>27, <4>1
    <3>2. QED
      BY <3>1
  <2>3. QED
    BY <1>30, <2>1, <2>2 DEF Disjoint
<1>32. Cover(Members(out0)) = Cover(Members(chunks))
  <2>1. \A x \in Int : (\E k \in 1..K : Inside(x, out0[k])) <=> \E n \in 1..N : Inside(x, chunks[n])
    BY <1>27, <1>28, <1>29
  <2>2. QED
    BY <1>15, <1>30, <2>1 DEF Cover, Members
<1>33. Collected(s) = out0
  BY <1>1 DEF out0
<1>34. QED
  BY <1>19, <1>23, <1>31, <1>32, <1>33

-----------------------------------------------------------------------------
(* The numbers the voices get *)

\* Voices are told apart by the number of voices heard before them.
LEMMA NumberedOnce ==
    ASSUME reported \in Seq(Reported), \A n \in DOMAIN reported : reported[n].label \in Heard
    PROVE  /\ \A v \in VoiceLabels : Numbered(v) \in 0..Cardinality(Heard)
           /\ \A u, v \in VoiceLabels : Numbered(u) = Numbered(v) => u = v
<1> DEFINE first(l) == CHOOSE n \in DOMAIN reported :
                           reported[n].label = l /\ \A m \in 1..(n - 1) : reported[m].label # l
           HeardBefore(v) == {l \in VoiceLabels : first(l) < first(v)}
<1>1. Len(reported) \in Nat /\ DOMAIN reported = 1..Len(reported)
  OBVIOUS
<1>2. \A v \in VoiceLabels : Numbered(v) = Cardinality(HeardBefore(v))
  BY DEF Numbered
<1>3. VoiceLabels \in SUBSET Heard /\ IsFiniteSet(Heard) /\ Cardinality(Heard) \in Nat
  BY EmbeddingsAssumption, FS_CardinalityType DEF VoiceLabels
<1>4. ASSUME NEW v \in VoiceLabels PROVE first(v) \in Nat /\ reported[first(v)].label = v
  <2> DEFINE S == {n \in DOMAIN reported : reported[n].label = v}
  <2>1. S \in SUBSET Nat /\ S # {}
    BY <1>1 DEF VoiceLabels
  <2>2. PICK n \in S : \A k \in S : n <= k
    <3> HIDE DEF S
    <3>1. QED
      BY <2>1, LeastNumber
  <2>3. \A m \in 1..(n - 1) : reported[m].label # v
    <3>1. ASSUME NEW m \in 1..(n - 1), reported[m].label = v PROVE FALSE
      <4>1. m \in DOMAIN reported /\ m < n
        BY <1>1, <2>2
      <4>2. m \in S
        BY <3>1, <4>1
      <4>3. n \in Nat /\ n <= m
        BY <2>1, <2>2, <4>2
      <4>4. QED
        BY <3>1, <4>1, <4>3
    <3>2. QED
      BY <3>1
  <2>4. n \in DOMAIN reported /\ reported[n].label = v
    BY <2>2
  <2>5. /\ first(v) \in DOMAIN reported /\ reported[first(v)].label = v
    BY <2>3, <2>4
  <2> HIDE DEF first
  <2>6. QED
    BY <1>1, <2>5
<1> HIDE DEF first
<1>5. \A v \in VoiceLabels : HeardBefore(v) \in SUBSET VoiceLabels /\ IsFiniteSet(HeardBefore(v)) /\ HeardBefore(v) \in SUBSET Heard
  BY <1>3, FS_Subset
<1>6. \A v \in VoiceLabels : Cardinality(HeardBefore(v)) \in 0..Cardinality(Heard)
  <2>1. ASSUME NEW v \in VoiceLabels PROVE Cardinality(HeardBefore(v)) \in 0..Cardinality(Heard)
    <3>1. HeardBefore(v) \in SUBSET Heard
      BY <1>5
    <3> HIDE DEF HeardBefore
    <3>2. Cardinality(HeardBefore(v)) <= Cardinality(Heard) /\ Cardinality(HeardBefore(v)) \in Nat
      BY <1>3, <3>1, FS_Subset, FS_CardinalityType
    <3>3. QED
      BY <1>3, <3>2
  <2>2. QED
    BY <2>1
<1>7. ASSUME NEW u \in VoiceLabels, NEW v \in VoiceLabels, first(u) < first(v)
      PROVE  Cardinality(HeardBefore(u)) # Cardinality(HeardBefore(v))
  <2>1. HeardBefore(u) \in SUBSET HeardBefore(v)
    BY <1>4, <1>7
  <2>2. u \in HeardBefore(v) /\ u \notin HeardBefore(u)
    BY <1>4, <1>7
  <2>3. IsFiniteSet(HeardBefore(v))
    BY <1>5
  <2> HIDE DEF HeardBefore
  <2>4. Cardinality(HeardBefore(u)) = Cardinality(HeardBefore(v)) => HeardBefore(u) = HeardBefore(v)
    BY <2>1, <2>3, FS_Subset
  <2>5. QED
    BY <2>2, <2>4
<1>8. \A u, v \in VoiceLabels : Cardinality(HeardBefore(u)) = Cardinality(HeardBefore(v)) => u = v
  <2>1. ASSUME NEW u \in VoiceLabels, NEW v \in VoiceLabels, Cardinality(HeardBefore(u)) = Cardinality(HeardBefore(v))
        PROVE  u = v
    <3>1. ~(first(u) < first(v)) /\ ~(first(v) < first(u))
      BY <1>7, <2>1
    <3>2. first(u) = first(v)
      BY <1>4, <3>1
    <3>3. QED
      BY <1>4, <3>2
  <2>2. QED
    BY <2>1
<1> HIDE DEF HeardBefore
<1>9. QED
  BY <1>2, <1>6, <1>8

-----------------------------------------------------------------------------
(* The voice prints *)

\* What a voice print is made of is collected from the clean spans of its voice, and where each
\* turn is clean is known.
EmbeddingsInv ==
    /\ EmbeddingsTypeOK
    /\ detected \in SUBSET Spans
    /\ diarization = "raw" => clips = <<>> /\ \A n \in DOMAIN reported : reported[n].label \in Heard
    /\ diarization # "raw" => \A n \in DOMAIN reported : ~Unresolved(n)
    /\ diarization \in {"cleaned", "identified"} => clean = [l \in VoiceLabels |-> CleanSpans(l)]
    /\ \A l \in DOMAIN clips : clips[l].state = "embedded" =>
          diarization \in {"cleaned", "identified"} /\ clips[l].chunks = Collected(clean[l])

\* A print that is made as the invariant says is of one voice.
LEMMA UnmixedHolds ==
    ASSUME EmbeddingsInv
    PROVE  VoicesUnmixed
<1> SUFFICES ASSUME NEW l \in DOMAIN clips, clips[l].state = "embedded"
             PROVE  LET used == {t \in 0..Ticks : \E n \in DOMAIN clips[l].chunks : Inside(t, clips[l].chunks[n])}
                        own  == {t \in 0..Ticks : Alone(l, t)}
                    IN  /\ used \subseteq own /\ Amount(clips[l].chunks) = Cardinality(used)
                        /\ Cardinality(used) = Smaller(MaxClip, Cardinality(own))
  BY DEF VoicesUnmixed
<1> DEFINE used == {t \in 0..Ticks : \E n \in DOMAIN clips[l].chunks : Inside(t, clips[l].chunks[n])}
           own  == {t \in 0..Ticks : Alone(l, t)}
           spanned == CleanSpans(l)
<1>1. /\ diarization \in {"cleaned", "identified"} /\ l \in VoiceLabels
      /\ clips[l].chunks = Collected(spanned) /\ reported \in Seq(Reported) /\ detected \in SUBSET Spans
      /\ \A n \in DOMAIN reported : ~Unresolved(n)
  BY DEF EmbeddingsInv, EmbeddingsTypeOK
<1>2. /\ Apart(spanned)
      /\ \A x \in Int : x \in Cover(Members(spanned)) <=> Alone(l, x)
  BY <1>1, CleanSpansHold
<1> HIDE DEF spanned
<1>3. /\ Disjoint(Collected(spanned)) /\ Cover(Members(Collected(spanned))) \subseteq Cover(Members(spanned))
      /\ Cardinality(Cover(Members(Collected(spanned)))) = Smaller(MaxClip, Cardinality(Cover(Members(spanned))))
  BY <1>2, ApartIsDisjoint, CollectedHolds
<1>4. Amount(Collected(spanned)) = Cardinality(Cover(Members(Collected(spanned))))
  BY <1>3, AmountIsCover
<1>5. ASSUME NEW s, s \in Seq(Spans) PROVE Cover(Members(s)) = {t \in 0..Ticks : \E n \in DOMAIN s : Inside(t, s[n])}
  <2>1. Members(s) \in SUBSET Spans
    BY <1>5 DEF Members
  <2>2. Cover(Members(s)) \in SUBSET (0..Ticks)
    BY <2>1, SpansFinite
  <2>3. \A t \in Int : t \in Cover(Members(s)) <=> \E n \in DOMAIN s : Inside(t, s[n])
    BY DEF Cover, Members
  <2>4. \A t \in 0..Ticks : t \in Int
    OBVIOUS
  <2>5. QED
    BY <2>2, <2>3, <2>4
<1>6. Cover(Members(Collected(spanned))) = used
  <2>1. Collected(spanned) \in Seq(Spans)
    BY <1>3 DEF Disjoint
  <2>2. QED
    BY <1>1, <1>5, <2>1
<1>7. Cover(Members(spanned)) = own
  <2>1. spanned \in Seq(Spans)
    BY <1>2 DEF Apart
  <2>2. Cover(Members(spanned)) \in SUBSET (0..Ticks)
    BY <1>5, <2>1
  <2>3. \A t \in 0..Ticks : t \in Int
    OBVIOUS
  <2>4. QED
    BY <1>2, <2>2, <2>3
<1>8. QED
  BY <1>1, <1>3, <1>4, <1>6, <1>7

\* The diarizer's answer: a turn is flagged only where another voice is heard in it.
LEMMA DiarizedHolds ==
    ASSUME EmbeddingsInv, Diarize
    PROVE  EmbeddingsInv'
<1> DEFINE R(n) == [reported[n] EXCEPT !.label = Numbered(@), !.is_overlap = \E m \in DOMAIN reported : Overlapping(m, n)]
<1>1. /\ diarization = "raw" /\ diarization' = "diarized" /\ reported' = [n \in DOMAIN reported |-> R(n)]
      /\ clips' = [l \in {Numbered(v) : v \in VoiceLabels} |-> OpenClip] /\ detected' = detected
  BY DEF Diarize
<1>2. /\ reported \in Seq(Reported) /\ detected \in SUBSET Spans
      /\ \A n \in DOMAIN reported : reported[n].label \in Heard
  BY <1>1 DEF EmbeddingsInv, EmbeddingsTypeOK
<1>3. /\ \A v \in VoiceLabels : Numbered(v) \in 0..Cardinality(Heard)
      /\ \A u, v \in VoiceLabels : Numbered(u) = Numbered(v) => u = v
  BY <1>2, NumberedOnce
<1>4. \A n \in DOMAIN reported : reported[n] \in Reported /\ reported[n].label \in VoiceLabels
  BY <1>2 DEF VoiceLabels
<1>5. \A n \in DOMAIN reported :
         /\ R(n) \in Reported /\ R(n).label = Numbered(reported[n].label)
         /\ R(n).start = reported[n].start /\ R(n).end = reported[n].end
         /\ R(n).is_overlap = \E m \in DOMAIN reported : Overlapping(m, n)
  <2>1. ASSUME NEW n \in DOMAIN reported
        PROVE  /\ R(n) \in Reported /\ R(n).label = Numbered(reported[n].label)
               /\ R(n).start = reported[n].start /\ R(n).end = reported[n].end
               /\ R(n).is_overlap = \E m \in DOMAIN reported : Overlapping(m, n)
    <3>1. Numbered(reported[n].label) \in 0..Cardinality(Heard) /\ reported[n] \in Reported
      BY <1>3, <1>4
    <3>2. (\E m \in DOMAIN reported : Overlapping(m, n)) \in BOOLEAN
      OBVIOUS
    <3>3. QED
      BY <3>1, <3>2 DEF Reported
  <2>2. QED
    BY <2>1
<1> HIDE DEF R
<1>6. reported' \in Seq(Reported) /\ DOMAIN reported' = DOMAIN reported /\ \A n \in DOMAIN reported : reported'[n] = R(n)
  <2>1. DOMAIN reported = 1..Len(reported) /\ Len(reported) \in Nat
    BY <1>2
  <2>2. reported' = [n \in 1..Len(reported) |-> R(n)]
    BY <1>1, <2>1
  <2>3. \A n \in 1..Len(reported) : R(n) \in Reported
    BY <1>5, <2>1
  <2>4. [n \in 1..Len(reported) |-> R(n)] \in Seq(Reported)
    BY <2>1, <2>3
  <2>5. QED
    BY <1>1, <2>2, <2>4
<1>7. VoiceLabels' = {Numbered(v) : v \in VoiceLabels}
  <2>1. VoiceLabels' = {R(n).label : n \in DOMAIN reported}
    BY <1>6 DEF VoiceLabels
  <2>2. \A x : x \in {R(n).label : n \in DOMAIN reported} => x \in {Numbered(v) : v \in VoiceLabels}
    BY <1>4, <1>5
  <2>3. \A x : x \in {Numbered(v) : v \in VoiceLabels} => x \in {R(n).label : n \in DOMAIN reported}
    BY <1>5 DEF VoiceLabels
  <2>4. QED
    BY <2>1, <2>2, <2>3
<1>8. \A n \in DOMAIN reported : ~Unresolved(n)'
  <2>1. SUFFICES ASSUME NEW n \in DOMAIN reported, R(n).is_overlap
                 PROVE  \E m \in DOMAIN reported : /\ R(m).label # R(n).label
                                                   /\ R(m).start < R(n).end /\ R(m).end > R(n).start
    BY <1>6 DEF Unresolved, Competes
  <2>2. PICK m \in DOMAIN reported : Overlapping(m, n)
    BY <1>5, <2>1
  <2>3. /\ reported[m].start \in Nat /\ reported[m].end \in Nat /\ reported[n].start \in Nat /\ reported[n].end \in Nat
    BY <1>4 DEF Reported
  <2>4. reported[m].start < reported[n].end /\ reported[m].end > reported[n].start
    BY <2>2, <2>3, EmbeddingsAssumption DEF Overlapping, Smaller, Larger
  <2>5. reported[m].label # reported[n].label
    BY <2>2 DEF Overlapping
  <2>6. R(m).label # R(n).label
    <3>1. reported[m].label \in VoiceLabels /\ reported[n].label \in VoiceLabels
      BY <1>4
    <3>2. Numbered(reported[m].label) # Numbered(reported[n].label)
      BY <1>3, <2>5, <3>1
    <3>3. QED
      BY <1>5, <3>2
  <2>7. QED
    BY <1>5, <2>4, <2>6
<1>9. DOMAIN clips' = VoiceLabels' /\ \A l \in DOMAIN clips' : clips'[l].state = "open"
  BY <1>1, <1>7 DEF OpenClip
<1>10. EmbeddingsTypeOK'
  BY <1>1, <1>6, <1>9 DEF EmbeddingsTypeOK
<1>11. QED
  BY <1>1, <1>2, <1>6, <1>8, <1>9, <1>10 DEF EmbeddingsInv

\* A voice print is made of one person's voice: of instants within detected speech in which that
\* speaker is heard and nobody else is, none of them twice, and of all such instants unless the
\* limit was reached (clean_diarized_speaker_spans and collect_speaker_audio).
THEOREM PrintsAreUnmixed == EmbeddingsSpec => [](EmbeddingsTypeOK /\ VoicesUnmixed)
<1>1. EmbeddingsInit => EmbeddingsInv
  <2>1. SUFFICES ASSUME EmbeddingsInit PROVE EmbeddingsInv
    OBVIOUS
  <2>2. PICK n \in 0..MaxReported :
           reported \in [1..n -> {t \in [label : Heard, start : 0..Ticks, end : 1..Ticks, is_overlap : {FALSE}] : t.start < t.end}]
    BY <2>1 DEF EmbeddingsInit
  <2>3. \A m \in 1..n : reported[m] \in Reported /\ reported[m].label \in Heard
    <3>1. 1..Ticks \subseteq 0..Ticks
      BY EmbeddingsAssumption
    <3>2. \A m \in 1..n : reported[m] \in [label : Heard, start : 0..Ticks, end : 1..Ticks, is_overlap : {FALSE}]
      BY <2>2
    <3>3. QED
      BY <3>1, <3>2 DEF Reported
  <2>4. DOMAIN reported = 1..n /\ reported \in Seq(Reported)
    <3>1. n \in Nat /\ reported = [m \in 1..n |-> reported[m]]
      BY <2>2
    <3>2. [m \in 1..n |-> reported[m]] \in Seq(Reported)
      BY <2>3, <3>1
    <3>3. QED
      BY <2>2, <3>1, <3>2
  <2>5. detected \in SUBSET Spans
    BY <2>1, EmbeddingsAssumption DEF EmbeddingsInit
  <2>6. DOMAIN clips = {}
    BY <2>1 DEF EmbeddingsInit
  <2>7. QED
    BY <2>1, <2>3, <2>4, <2>5, <2>6 DEF EmbeddingsInit, EmbeddingsInv, EmbeddingsTypeOK
<1>2. EmbeddingsInv /\ [EmbeddingsNext]_embeddingVars => EmbeddingsInv'
  <2>1. SUFFICES ASSUME EmbeddingsInv, [EmbeddingsNext]_embeddingVars PROVE EmbeddingsInv'
    OBVIOUS
  <2>2. CASE Diarize
    BY <2>1, <2>2, DiarizedHolds
  <2>3. ASSUME reported' = reported
        PROVE  /\ VoiceLabels' = VoiceLabels /\ \A n : Unresolved(n)' <=> Unresolved(n)
    BY <2>3 DEF VoiceLabels, Unresolved, Competes
  <2>4. ASSUME reported' = reported, detected' = detected, NEW l PROVE CleanSpans(l)' = CleanSpans(l)
    BY <2>4 DEF CleanSpans, Pieces, Rival, Unresolved, Competes
  <2>5. CASE CleanTurns
    <3>1. /\ diarization = "diarized" /\ diarization' = "cleaned" /\ clean' = [l \in VoiceLabels |-> CleanSpans(l)]
          /\ reported' = reported /\ detected' = detected /\ clips' = clips
      BY <2>5 DEF CleanTurns
    <3>2. clean' = [l \in VoiceLabels' |-> CleanSpans(l)']
      BY <2>3, <2>4, <3>1
    <3>3. \A l \in DOMAIN clips : clips[l].state # "embedded"
      BY <2>1, <3>1 DEF EmbeddingsInv
    <3>4. QED
      BY <2>1, <2>3, <3>1, <3>2, <3>3 DEF EmbeddingsInv, EmbeddingsTypeOK
  <2>6. ASSUME NEW l \in VoiceLabels, Embed(l) PROVE EmbeddingsInv'
    <3>1. /\ diarization = "cleaned" /\ UNCHANGED <<diarization, reported, detected, clean>>
          /\ clips' = [clips EXCEPT ![l] = [state |-> "embedded", chunks |-> Collected(clean[l])]]
      BY <2>6 DEF Embed
    <3>2. clean' = [v \in VoiceLabels' |-> CleanSpans(v)']
      BY <2>1, <2>3, <2>4, <3>1 DEF EmbeddingsInv
    <3>3. DOMAIN clips = VoiceLabels /\ DOMAIN clips' = DOMAIN clips
      BY <2>1, <3>1 DEF EmbeddingsInv, EmbeddingsTypeOK
    <3>4. /\ clips'[l].state = "embedded" /\ clips'[l].chunks = Collected(clean[l])
          /\ \A v \in DOMAIN clips : v # l => clips'[v] = clips[v]
      BY <3>1, <3>3
    <3>5. \A v \in DOMAIN clips' : clips'[v].state = "embedded" => clips'[v].chunks = Collected(clean[v])
      BY <2>1, <3>3, <3>4 DEF EmbeddingsInv
    <3>6. \A v \in DOMAIN clips' : clips'[v].state \in {"open", "skipped", "embedded"}
      BY <2>1, <3>3, <3>4 DEF EmbeddingsInv, EmbeddingsTypeOK
    <3>7. EmbeddingsTypeOK'
      BY <2>1, <2>3, <3>1, <3>3, <3>6 DEF EmbeddingsInv, EmbeddingsTypeOK
    <3>8. QED
      BY <2>1, <2>3, <3>1, <3>2, <3>5, <3>7 DEF EmbeddingsInv
  <2>7. ASSUME NEW l \in VoiceLabels, SkipVoice(l) PROVE EmbeddingsInv'
    <3>1. /\ diarization = "cleaned" /\ UNCHANGED <<diarization, reported, detected, clean>>
          /\ clips' = [clips EXCEPT ![l].state = "skipped"] /\ clips[l] = OpenClip
      BY <2>7 DEF SkipVoice
    <3>2. clean' = [v \in VoiceLabels' |-> CleanSpans(v)']
      BY <2>1, <2>3, <2>4, <3>1 DEF EmbeddingsInv
    <3>3. DOMAIN clips = VoiceLabels /\ DOMAIN clips' = DOMAIN clips
      BY <2>1, <3>1 DEF EmbeddingsInv, EmbeddingsTypeOK
    <3>4. clips'[l].state = "skipped" /\ \A v \in DOMAIN clips : v # l => clips'[v] = clips[v]
      BY <3>1, <3>3 DEF OpenClip
    <3>5. \A v \in DOMAIN clips' : clips'[v].state = "embedded" => clips'[v].chunks = Collected(clean[v])
      BY <2>1, <3>3, <3>4 DEF EmbeddingsInv
    <3>6. \A v \in DOMAIN clips' : clips'[v].state \in {"open", "skipped", "embedded"}
      BY <2>1, <3>3, <3>4 DEF EmbeddingsInv, EmbeddingsTypeOK
    <3>7. EmbeddingsTypeOK'
      BY <2>1, <2>3, <3>1, <3>3, <3>6 DEF EmbeddingsInv, EmbeddingsTypeOK
    <3>8. QED
      BY <2>1, <2>3, <3>1, <3>2, <3>5, <3>7 DEF EmbeddingsInv
  <2>8. CASE Identified
    <3>1. /\ diarization = "cleaned" /\ diarization' = "identified" /\ UNCHANGED <<reported, detected, clean, clips>>
      BY <2>8 DEF Identified
    <3>2. clean' = [v \in VoiceLabels' |-> CleanSpans(v)']
      BY <2>1, <2>3, <2>4, <3>1 DEF EmbeddingsInv
    <3>3. QED
      BY <2>1, <2>3, <3>1, <3>2 DEF EmbeddingsInv, EmbeddingsTypeOK
  <2>9. CASE UNCHANGED embeddingVars
    <3>1. UNCHANGED <<diarization, reported, detected, clean, clips>>
      BY <2>9 DEF embeddingVars
    <3>2. diarization \in {"cleaned", "identified"} => clean' = [v \in VoiceLabels' |-> CleanSpans(v)']
      BY <2>1, <2>3, <2>4, <3>1 DEF EmbeddingsInv
    <3>3. QED
      BY <2>1, <2>3, <3>1, <3>2 DEF EmbeddingsInv, EmbeddingsTypeOK
  <2>10. QED
    BY <2>1, <2>2, <2>5, <2>6, <2>7, <2>8, <2>9 DEF EmbeddingsNext
<1>3. EmbeddingsInv => EmbeddingsTypeOK /\ VoicesUnmixed
  BY UnmixedHolds DEF EmbeddingsInv
<1>4. QED
  BY <1>1, <1>2, <1>3, PTL DEF EmbeddingsSpec
=============================================================================
