------------------------------- MODULE Voices -------------------------------
(***************************************************************************)
(* Voice prints, the suggestions made from them, and the people who        *)
(* decide.                                                                 *)
(*                                                                         *)
(* A scan compares the voices of speakers with the active prints and       *)
(* leaves suggestions.  It reads the speakers, then the prints, then locks *)
(* and writes one speaker after the other, and commits at the end.  The    *)
(* scan of all sessions holds no session's lock; the scan of one session   *)
(* does, as do the handlers that decide about its speakers.  The handlers  *)
(* of a print lock the print, then retire the suggestions that rest on it. *)
(*                                                                         *)
(* A written suggestion refers to its print: from the write to the commit  *)
(* it keeps the print from being locked (the share lock of a foreign key). *)
(* Which print is closest to a voice is left open.                         *)
(***************************************************************************)
EXTENDS Naturals, FiniteSets, Sequences

CONSTANTS
    Workers,       \* the requests that may be under way at once
    Prints,        \* VoiceEnrollment rows
    Speakers,      \* SessionSpeaker rows of one session
    VoicePeople,   \* person identities
    Unknown,       \* no person, no print, no speaker, no request
    MaxVersion,    \* bound: changes of one print
    MaxAttested    \* bound: attestations

ASSUME VoicesAssumption ==
    /\ Unknown \notin Workers \cup Prints \cup Speakers \cup VoicePeople
    /\ MaxVersion \in Nat /\ MaxAttested \in Nat

VARIABLES
    prints,     \* [Prints -> the row]
    speakers,   \* [Speakers -> the row, as committed]
    session,    \* the request that holds the session's lock
    work,       \* [Workers -> the request under way]
    attested    \* confirmations of sets of prints (AuditLog), oldest first

voiceVars == <<prints, speakers, session, work, attested>>

Decided == {"CONFIRMED", "REJECTED"}
NoWork  == [kind |-> "none", step |-> "idle", on |-> Unknown, rows |-> {}, locked |-> {},
            found |-> [s \in Speakers |-> Unknown], writes |-> {}, flushed |-> {}, seen |-> {}]

\* What an attestation vouches for.
Facts(p)     == <<p, prints[p].status, prints[p].person, prints[p].flagged>>
Versioned(p) == <<p, prints[p].version>>

\* Types, and: a speaker's row and a print are locked by one request at a time.
VoicesTypeOK ==
    /\ \A p \in Prints :
          prints[p] \in [status: {"none", "active", "inactive", "deleted"}, person: VoicePeople \cup {Unknown},
                         source: Speakers \cup {Unknown}, version: 0..MaxVersion, flagged: BOOLEAN]
    /\ \A s \in Speakers :
          speakers[s] \in [status: {"NONE", "SUGGESTED"} \cup Decided, person: VoicePeople \cup {Unknown},
                           suggested: Prints \cup {Unknown}, voice: BOOLEAN]
    /\ session \in Workers \cup {Unknown}
    /\ \A v, w \in Workers : v # w => work[v].locked \cap work[w].locked = {}

VoicesInit ==
    /\ \E a \in Prints : \E person \in VoicePeople :
          prints = [p \in Prints |->
            [status |-> IF p = a THEN "active" ELSE "none", person |-> IF p = a THEN person ELSE Unknown,
             source |-> Unknown, version |-> 0, flagged |-> FALSE]]
    /\ speakers = [s \in Speakers |->
          [status |-> "NONE", person |-> Unknown, suggested |-> Unknown, voice |-> FALSE]]
    /\ session = Unknown /\ work = [w \in Workers |-> NoWork] /\ attested = <<>>

----------------------------------------------------------------------------
(* Locks *)

LockedByOther(w, x) == \E v \in Workers \ {w} : x \in work[v].locked

\* The prints that rows flushed and not committed refer to.
Shared(w) == {work[w].found[s] : s \in work[w].flushed} \ {Unknown}

\* Mutant of PrintFree.
PrintFreeUnlocked(w, p) == \A v \in Workers \ {w} : p \notin Shared(v)

PrintFree(w, p) == ~LockedByOther(w, p) /\ \A v \in Workers \ {w} : p \notin Shared(v)
RowsFree(w, rows) == \A s \in rows : ~LockedByOther(w, s)
SessionFree == session = Unknown
Versions(p) == prints[p].version < MaxVersion

\* It ends: committed, refused, or rolled back.
End(w) ==
    /\ work' = [work EXCEPT ![w] = NoWork]
    /\ session' = IF session = w THEN Unknown ELSE session

\* An error, a refusal, a lost connection, or the choice of the database that breaks a deadlock.
Rollback(w) ==
    /\ work[w].kind # "none" /\ End(w)
    /\ UNCHANGED <<prints, speakers, attested>>

----------------------------------------------------------------------------
(* A scan: rematch_all, rematch_session, or the result of a recording *)

Undecided(s) == speakers[s].person = Unknown /\ speakers[s].status \notin Decided

ScanAll(w) ==
    /\ work[w].kind = "none"
    /\ LET rows == {s \in Speakers : Undecided(s) /\ speakers[s].voice /\ speakers[s].status = "NONE"}
       IN  /\ rows # {}
           /\ work' = [work EXCEPT ![w] = [NoWork EXCEPT !.kind = "scan", !.step = "begun", !.rows = rows]]
    /\ UNCHANGED <<prints, speakers, session, attested>>

ScanSession(w) ==
    /\ work[w].kind = "none" /\ SessionFree
    /\ LET rows == {s \in Speakers : Undecided(s) /\ speakers[s].voice}
       IN  /\ rows # {}
           /\ work' = [work EXCEPT ![w] = [NoWork EXCEPT !.kind = "scan", !.step = "begun", !.rows = rows]]
    /\ session' = w
    /\ UNCHANGED <<prints, speakers, attested>>

\* One statement: every voice against every print that is active now and filed under a person.
Candidates == {p \in Prints : prints[p].status = "active" /\ prints[p].person # Unknown}

BatchMatch(w) ==
    /\ work[w].kind = "scan" /\ work[w].step = "begun"
    /\ \E found \in [work[w].rows -> Candidates \cup {Unknown}] :
          work' = [work EXCEPT ![w].step = "matched",
                     ![w].found = [s \in Speakers |-> IF s \in work[w].rows THEN found[s] ELSE Unknown]]
    /\ UNCHANGED <<prints, speakers, session, attested>>

\* The writes so far reach the database: their prints must be there, and not locked.
CanFlush(w) ==
    \A s \in work[w].writes :
        LET p == work[w].found[s]
        IN  p # Unknown => prints[p].status # "deleted" /\ ~LockedByOther(w, p)

\* Mutant of ApplyMatchOutcome.
ApplyWithoutRefresh(w, s) ==
    /\ work[w].kind = "scan" /\ work[w].step = "matched"
    /\ s \in work[w].rows /\ CanFlush(w) /\ RowsFree(w, {s})
    /\ work' = [work EXCEPT ![w].rows = @ \ {s}, ![w].locked = @ \cup {s},
                  ![w].flushed = work[w].writes, ![w].writes = @ \cup {s}]
    /\ UNCHANGED <<prints, speakers, session, attested>>

\* What is written so far is flushed; then the speaker is read again under its lock, and a
\* decision made meanwhile stands.
ApplyMatchOutcome(w, s) ==
    /\ work[w].kind = "scan" /\ work[w].step = "matched"
    /\ s \in work[w].rows /\ CanFlush(w) /\ RowsFree(w, {s})
    /\ work' = [work EXCEPT ![w].rows = @ \ {s}, ![w].locked = @ \cup {s},
                  ![w].flushed = work[w].writes,
                  ![w].writes = IF Undecided(s) THEN @ \cup {s} ELSE @]
    /\ UNCHANGED <<prints, speakers, session, attested>>

CommitScan(w) ==
    /\ work[w].kind = "scan" /\ work[w].step = "matched" /\ work[w].rows = {}
    /\ CanFlush(w)
    /\ speakers' = [s \in Speakers |->
          IF s \notin work[w].writes THEN speakers[s]
          ELSE [speakers[s] EXCEPT !.suggested = work[w].found[s],
                  !.status = IF work[w].found[s] = Unknown THEN "NONE" ELSE "SUGGESTED"]]
    /\ End(w)
    /\ UNCHANGED <<prints, attested>>

\* A result brings a voice; one that backs a decision is not replaced.
StoreVoice(s) ==
    /\ SessionFree /\ ~LockedByOther(Unknown, s) /\ ~speakers[s].voice
    /\ speakers' = [speakers EXCEPT ![s].voice = TRUE]
    /\ UNCHANGED <<prints, session, work, attested>>

----------------------------------------------------------------------------
(* Decisions about a speaker *)

UpdateSpeakerPerson(s, v) ==
    /\ SessionFree /\ ~LockedByOther(Unknown, s)
    /\ speakers' = [speakers EXCEPT ![s].person = v, ![s].status = "CONFIRMED", ![s].suggested = Unknown]
    /\ UNCHANGED <<prints, session, work, attested>>

BeginDecision(w, s, kind) ==
    /\ SessionFree /\ speakers[s].status = "SUGGESTED"
    /\ kind \in {"accept", "reject"}
    /\ work[w].kind = "none"
    /\ work' = [work EXCEPT ![w] =
          [NoWork EXCEPT !.kind = kind, !.step = "begun", !.on = s, !.found[s] = speakers[s].suggested]]
    /\ session' = w
    /\ UNCHANGED <<prints, speakers, attested>>

Reject(w) ==
    LET s == work[w].on
    IN  /\ work[w].kind = "reject" /\ RowsFree(w, {s})
        /\ speakers' = [speakers EXCEPT ![s].status = "REJECTED"]
        /\ End(w)
        /\ UNCHANGED <<prints, attested>>

LockSupport(w) ==
    LET p == work[w].found[work[w].on]
    IN  /\ work[w].kind = "accept" /\ work[w].step = "begun"
        /\ p # Unknown /\ prints[p].status # "deleted" /\ PrintFree(w, p)
        /\ work' = [work EXCEPT ![w].step = "locked", ![w].locked = {p}]
        /\ UNCHANGED <<prints, speakers, session, attested>>

Accept(w) ==
    LET s == work[w].on  p == work[w].found[s]
    IN  /\ work[w].kind = "accept" /\ work[w].step = "locked" /\ RowsFree(w, {s})
        /\ speakers[s].status = "SUGGESTED" /\ speakers[s].person = Unknown
        /\ prints[p].status = "active" /\ prints[p].person # Unknown
        /\ speakers[s].suggested = p
        /\ speakers' = [speakers EXCEPT ![s].status = "CONFIRMED", ![s].person = prints[p].person]
        /\ End(w)
        /\ UNCHANGED <<prints, attested>>

----------------------------------------------------------------------------
(* Prints *)

ActiveFrom(s) == {p \in Prints : prints[p].status = "active" /\ prints[p].source = s /\ s # Unknown}

EnrollFromSpeaker(s, p) ==
    /\ SessionFree /\ prints[p].status = "none"
    /\ speakers[s].voice /\ speakers[s].person # Unknown
    /\ ActiveFrom(s) = {}
    /\ prints' = [prints EXCEPT ![p] = [status |-> "active", person |-> speakers[s].person, source |-> s,
                                        version |-> 0, flagged |-> FALSE]]
    /\ UNCHANGED <<speakers, session, work, attested>>

Reactivate(p) ==
    /\ prints[p].status = "inactive" /\ PrintFree(Unknown, p) /\ Versions(p)
    /\ ActiveFrom(prints[p].source) = {}
    /\ prints' = [prints EXCEPT ![p].status = "active", ![p].version = @ + 1]
    /\ UNCHANGED <<speakers, session, work, attested>>

\* PATCH, DELETE or a review that deactivates: the print is locked first.
LockPrint(w, p, kind) ==
    /\ prints[p].status \in IF kind = "delete" THEN {"active", "inactive"} ELSE {"active"}
    /\ PrintFree(w, p) /\ work[w].kind = "none"
    /\ work' = [work EXCEPT ![w] = [NoWork EXCEPT !.kind = kind, !.step = "locked", !.on = p, !.locked = {p}]]
    /\ UNCHANGED <<prints, speakers, session, attested>>

PendingOn(p) == {s \in Speakers : speakers[s].suggested = p /\ speakers[s].status = "SUGGESTED"}

\* _invalidate_pending, and what the foreign key does when the row goes.
RetirePrint(w) ==
    LET p == work[w].on
        gone == work[w].kind = "delete"
        touched == IF gone THEN {s \in Speakers : speakers[s].suggested = p} ELSE PendingOn(p)
    IN  /\ work[w].kind \in {"deactivate", "delete"} /\ work[w].step = "locked"
        /\ RowsFree(w, touched) /\ Versions(p)
        /\ prints' = [prints EXCEPT ![p].status = IF gone THEN "deleted" ELSE "inactive", ![p].version = @ + 1]
        /\ speakers' = [s \in Speakers |->
              IF s \notin touched THEN speakers[s]
              ELSE [speakers[s] EXCEPT !.suggested = Unknown,
                      !.status = IF s \in PendingOn(p) THEN "NONE" ELSE @]]
        /\ End(w)
        /\ UNCHANGED attested

\* Mutant of ReviewPrint.
ReviewPrintUnversioned(p, flag) ==
    /\ prints[p].status \in {"active", "inactive"} /\ PrintFree(Unknown, p) /\ Versions(p)
    /\ prints' = [prints EXCEPT ![p].flagged = flag]
    /\ UNCHANGED <<speakers, session, work, attested>>

\* FLAG or RESOLVE.  The print's version moves, although the row says nothing else.
ReviewPrint(p, flag) ==
    /\ prints[p].status \in {"active", "inactive"} /\ PrintFree(Unknown, p) /\ Versions(p)
    /\ prints' = [prints EXCEPT ![p].flagged = flag, ![p].version = @ + 1]
    /\ UNCHANGED <<speakers, session, work, attested>>

\* repoint_identity: neither column it writes is a key, so it waits for no row that is referred to.
Repoint(from, to) ==
    LET moved == {p \in Prints : prints[p].person = from /\ prints[p].status \in {"active", "inactive"}}
        heard == {s \in Speakers : speakers[s].person = from}
    IN  /\ from # to /\ moved \cup heard # {}
        /\ RowsFree(Unknown, moved) /\ \A p \in moved : Versions(p)
        /\ RowsFree(Unknown, heard)
        /\ prints' = [p \in Prints |->
              IF p \in moved THEN [prints[p] EXCEPT !.person = to, !.version = @ + 1] ELSE prints[p]]
        /\ speakers' = [s \in Speakers |->
              IF s \in heard THEN [speakers[s] EXCEPT !.person = to] ELSE speakers[s]]
        /\ UNCHANGED <<session, work, attested>>

----------------------------------------------------------------------------
(* Attestations: these prints are one person's voice *)

\* The reviewer is shown the active prints of the person.
ShowPrints(w, v) ==
    LET shown == {p \in Prints : prints[p].status = "active" /\ prints[p].person = v}
    IN  /\ shown # {} /\ work[w].kind = "none" /\ Len(attested) < MaxAttested
        /\ \E chosen \in (SUBSET shown) \ {{}} :
              work' = [work EXCEPT ![w] = [NoWork EXCEPT !.kind = "attest", !.step = "begun", !.on = v,
                         !.rows = {Versioned(p) : p \in chosen}, !.seen = {Facts(p) : p \in chosen}]]
        /\ UNCHANGED <<prints, speakers, session, attested>>

ConfirmationStatus(a) ==
    IF a.reopened THEN "REOPENED"
    ELSE IF \A x \in a.versions : /\ prints[x[1]].status = "active" /\ prints[x[1]].person = a.person
                                  /\ prints[x[1]].version = x[2]
    THEN "ACTIVE" ELSE "STALE"

ConfirmSet(w) ==
    LET versions == work[w].rows
        new == [person |-> work[w].on, versions |-> versions, seen |-> work[w].seen, reopened |-> FALSE]
    IN  /\ work[w].kind = "attest"
        /\ Len(attested) < MaxAttested
        /\ \A x \in versions : PrintFree(w, x[1])
        /\ ConfirmationStatus(new) = "ACTIVE"
        /\ \A n \in DOMAIN attested :
              (attested[n].person = new.person /\ ConfirmationStatus(attested[n]) = "ACTIVE")
                => {x[1] : x \in attested[n].versions} # {x[1] : x \in versions}
        /\ attested' = Append(attested, new)
        /\ End(w)
        /\ UNCHANGED <<prints, speakers>>

ReopenSet(n) ==
    /\ n \in DOMAIN attested /\ ~attested[n].reopened
    /\ attested' = [attested EXCEPT ![n].reopened = TRUE]
    /\ UNCHANGED <<prints, speakers, session, work>>

----------------------------------------------------------------------------
ScanSteps(w) ==
    \/ ScanAll(w) \/ ScanSession(w) \/ BatchMatch(w) \/ CommitScan(w)
    \/ \E s \in Speakers : ApplyMatchOutcome(w, s)

DecisionSteps(w) ==
    \/ \E s \in Speakers : \E kind \in {"accept", "reject"} : BeginDecision(w, s, kind)
    \/ Reject(w) \/ LockSupport(w) \/ Accept(w)

PrintSteps(w) ==
    \/ \E p \in Prints : \E kind \in {"deactivate", "delete"} : LockPrint(w, p, kind)
    \/ RetirePrint(w)

AttestationSteps(w) ==
    \/ \E v \in VoicePeople : ShowPrints(w, v)
    \/ ConfirmSet(w)

VoicesNext ==
    \/ \E w \in Workers :
          Rollback(w) \/ ScanSteps(w) \/ DecisionSteps(w) \/ PrintSteps(w) \/ AttestationSteps(w)
    \/ \E s \in Speakers :
          \/ StoreVoice(s)
          \/ \E v \in VoicePeople : UpdateSpeakerPerson(s, v)
          \/ \E p \in Prints : EnrollFromSpeaker(s, p)
    \/ \E p \in Prints : Reactivate(p) \/ \E flag \in BOOLEAN : ReviewPrint(p, flag)
    \/ \E from, to \in VoicePeople : Repoint(from, to)
    \/ \E n \in DOMAIN attested : ReopenSet(n)

VoicesSpec == VoicesInit /\ [][VoicesNext]_voiceVars

----------------------------------------------------------------------------
(* Properties *)

\* Once a person has decided who a speaker is, or that a suggestion is wrong, no comparison of
\* voices undoes it, though a scan may have read the speaker before the decision and writes after.
HumanDecisionsHold ==
    [][\A s \in Speakers : speakers[s].status \in Decided =>
          /\ speakers'[s].status \in Decided
          /\ speakers[s].person # Unknown => speakers'[s].person # Unknown]_voiceVars

\* A suggestion becomes a name only on a print that is active at that very moment and on the
\* person that print is filed under, whatever became of the print while the decision waited.
ConfirmedOnLivePrint ==
    [][\A s \in Speakers :
          (speakers[s].status = "SUGGESTED" /\ speakers'[s].status = "CONFIRMED"
             /\ speakers'[s].suggested # Unknown) =>
          /\ prints'[speakers[s].suggested].status = "active"
          /\ speakers'[s].suggested = speakers[s].suggested
          /\ speakers'[s].person = prints'[speakers[s].suggested].person]_voiceVars

DecisionsHold == HumanDecisionsHold /\ ConfirmedOnLivePrint

\* An attestation that counts vouches for its prints as the reviewer saw them: none of them has
\* been retired, given to another person, or flagged since, not even while it was being made.
AttestedAsSeen ==
    \A n \in DOMAIN attested : ConfirmationStatus(attested[n]) = "ACTIVE" =>
        attested[n].seen = {Facts(x[1]) : x \in attested[n].versions}
=============================================================================
