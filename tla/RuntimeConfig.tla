---------------------------- MODULE RuntimeConfig ----------------------------
(***************************************************************************)
(* The settings an administrator changes in the running server, and the    *)
(* check of voice prints that reads two of them.                           *)
(*                                                                         *)
(* A page shows every setting in the unit people use and sends the ones    *)
(* that were changed on it.  The server validates all of them, compares    *)
(* the two similarities as they would be, and then assigns one attribute   *)
(* after the other; requests run in threads, and nothing locks the         *)
(* settings.  They live in memory: a restart reads the environment again.  *)
(*                                                                         *)
(* Two similarities and one size stand for the registry: settings that are *)
(* compared with one another, and one that is shown rounded.               *)
(***************************************************************************)
EXTENDS Naturals, FiniteSets

CONSTANTS
    Admins,        \* administrators, with one page each
    Ranges,        \* [ConfigKeys -> the values a page may send, in the unit shown]
    Units,         \* [ConfigKeys -> the size of that unit]
    Environments,  \* what the environment may set: nobody validates it
    MaxSaves       \* bound: saves between two restarts

ConfigKeys == {"match", "duplicate", "upload"}

\* A number field sends a number: what is none is refused, and changes nothing.
ASSUME ConfigAssumption ==
    /\ Ranges \in [ConfigKeys -> SUBSET Nat] /\ Units \in [ConfigKeys -> Nat \ {0}]
    /\ Environments \subseteq [ConfigKeys -> Nat] /\ MaxSaves \in Nat

VARIABLES
    environment,   \* what a restart reads
    config,        \* the settings in memory
    consoles,      \* [Admins -> what the page shows]
    puts,          \* [Admins -> the save under way]
    checkup,       \* the check of prints under way, and the two similarities it has read
    tuned,         \* settings that were assigned since the last restart
    crossed,       \* the environment, or two saves at once, may have left the similarities crossed
    saves          \* saves since the last restart

configVars == <<environment, config, consoles, puts, checkup, tuned, crossed, saves>>

NoPut     == [stage |-> "idle", sent |-> {}, values |-> [k \in ConfigKeys |-> 0], alone |-> FALSE]
NoCheckup == [stage |-> "idle", match |-> 0, duplicate |-> 0, quiet |-> FALSE]

Ordered(values) == values["match"] < values["duplicate"]

ConfigTypeOK ==
    /\ environment \in Environments /\ config \in [ConfigKeys -> Nat]
    /\ consoles \in [Admins -> [ConfigKeys -> Nat]]
    /\ puts \in [Admins -> [stage: {"idle", "checking", "assigning"}, sent: SUBSET ConfigKeys,
                            values: [ConfigKeys -> Nat], alone: BOOLEAN]]
    /\ checkup \in [stage: {"idle", "begun", "done"}, match: Nat, duplicate: Nat, quiet: BOOLEAN]
    /\ tuned \in SUBSET ConfigKeys /\ crossed \in BOOLEAN /\ saves \in 0..MaxSaves

\* The nearest number of units; halfway, the even one.
Shown(value, unit) ==
    LET q == value \div unit  r == value % unit
    IN  IF 2 * r > unit \/ (2 * r = unit /\ q % 2 = 1) THEN q + 1 ELSE q

Displayed(values) == [k \in ConfigKeys |-> Shown(values[k], Units[k])]

ConfigInit ==
    /\ environment \in Environments /\ config = environment
    /\ consoles = [a \in Admins |-> Displayed(environment)]
    /\ puts = [a \in Admins |-> NoPut] /\ checkup = NoCheckup
    /\ tuned = {} /\ crossed = ~Ordered(environment) /\ saves = 0

----------------------------------------------------------------------------
(* Pages and saves *)

NotSaving(a) == puts[a].stage = "idle"
Assigning(a) == puts[a].stage = "assigning"

LoadConsole(a) ==
    /\ NotSaving(a) /\ consoles' = [consoles EXCEPT ![a] = Displayed(config)]
    /\ UNCHANGED <<environment, config, puts, checkup, tuned, crossed, saves>>

\* The body is validated before anything else; then the first of the two similarities is read,
\* unless the body brings it.
BodyOf(sent, entered) ==
    [k \in ConfigKeys |-> IF k \in sent THEN entered[k] * Units[k]
                          ELSE IF k = "duplicate" THEN config[k] ELSE 0]

\* A page sends what differs from what it was shown.  The save is alone until another one begins.
BeginSave(a) ==
    /\ NotSaving(a) /\ saves < MaxSaves
    /\ \E sent \in (SUBSET ConfigKeys) \ {{}} : \E entered \in [sent -> UNION {Ranges[k] : k \in sent}] :
          /\ \A k \in sent : entered[k] \in Ranges[k] \ {consoles[a][k]}
          /\ puts' = [b \in Admins |->
                IF b = a THEN [stage |-> "checking", sent |-> sent, values |-> BodyOf(sent, entered),
                               alone |-> \A c \in Admins : NotSaving(c)]
                ELSE IF puts[b].stage = "checking" THEN [puts[b] EXCEPT !.alone = FALSE] ELSE puts[b]]
    /\ saves' = saves + 1
    /\ UNCHANGED <<environment, config, consoles, checkup, tuned, crossed>>

\* The other similarity is read, and the two are compared as they would be.
WouldBeOrdered(put) ==
    (IF "match" \in put.sent THEN put.values["match"] ELSE config["match"]) < put.values["duplicate"]

CheckSave(a) ==
    /\ puts[a].stage = "checking" /\ WouldBeOrdered(puts[a])
    /\ puts' = [b \in Admins |-> IF b = a THEN [puts[b] EXCEPT !.stage = "assigning"]
                                 ELSE IF Assigning(b) THEN [puts[b] EXCEPT !.alone = FALSE] ELSE puts[b]]
    /\ crossed' = (crossed \/ ~puts[a].alone)
    /\ checkup' = [checkup EXCEPT !.quiet = @ /\ checkup.stage = "done"]
    /\ UNCHANGED <<environment, config, consoles, tuned, saves>>

RefuseSave(a) ==
    /\ puts[a].stage = "checking" /\ ~WouldBeOrdered(puts[a])
    /\ puts' = [puts EXCEPT ![a] = NoPut]
    /\ UNCHANGED <<environment, config, consoles, checkup, tuned, crossed, saves>>

\* The order of the fields on the page.
Rank == [match |-> 1, duplicate |-> 2, upload |-> 3]

Assign(a) ==
    /\ Assigning(a)
    /\ \E k \in puts[a].sent :
          /\ \A j \in puts[a].sent : Rank[k] <= Rank[j]
          /\ config' = [config EXCEPT ![k] = puts[a].values[k]]
          /\ tuned' = IF config[k] = puts[a].values[k] THEN tuned ELSE tuned \cup {k}
          /\ puts' = [puts EXCEPT ![a].sent = @ \ {k}]
    /\ UNCHANGED <<environment, consoles, checkup, crossed, saves>>

\* The answer is the settings as they are by now.
AnswerSave(a) ==
    /\ Assigning(a) /\ puts[a].sent = {}
    /\ consoles' = [consoles EXCEPT ![a] = Displayed(config)]
    /\ puts' = [puts EXCEPT ![a] = NoPut]
    /\ crossed' = (crossed /\ ~puts[a].alone)
    /\ UNCHANGED <<environment, config, checkup, tuned, saves>>

Restart ==
    /\ config' = environment /\ tuned' = {} /\ crossed' = ~Ordered(environment) /\ saves' = 0
    /\ puts' = [a \in Admins |-> NoPut] /\ checkup' = NoCheckup
    /\ UNCHANGED <<environment, consoles>>

----------------------------------------------------------------------------
(* biometric_check reads the one similarity and then the other. *)

BeginCheckup ==
    /\ checkup.stage # "begun"
    /\ checkup' = [stage |-> "begun", match |-> config["match"], duplicate |-> 0,
                   quiet |-> ~crossed /\ \A a \in Admins : ~Assigning(a)]
    /\ UNCHANGED <<environment, config, consoles, puts, tuned, crossed, saves>>

EndCheckup ==
    /\ checkup.stage = "begun"
    /\ checkup' = [checkup EXCEPT !.stage = "done", !.duplicate = config["duplicate"]]
    /\ UNCHANGED <<environment, config, consoles, puts, tuned, crossed, saves>>

ConfigNext ==
    \/ \E a \in Admins :
          \/ LoadConsole(a) \/ BeginSave(a) \/ CheckSave(a) \/ RefuseSave(a) \/ Assign(a) \/ AnswerSave(a)
    \/ Restart \/ BeginCheckup \/ EndCheckup

ConfigSpec == ConfigInit /\ [][ConfigNext]_configVars

----------------------------------------------------------------------------
(* Properties *)

\* Prints cannot be duplicates of one another and not of one person: the one similarity stays
\* above the other, unless the environment has them crossed, or one save was checked while
\* another was under way.  A save that sets both, alone, crosses them for a moment.
SimilaritiesOrdered ==
    ~crossed /\ (\A a \in Admins : ~Assigning(a)) => Ordered(config)

\* And so do the two a check of prints works with, if no save passed while it read them.
CheckupOrdered ==
    checkup.stage = "done" /\ checkup.quiet => checkup.match < checkup.duplicate

\* A setting is what an administrator chose within its range or, if none did since the last
\* restart, to the last byte what the environment says, though every page shows it rounded.
ChosenOrGiven ==
    \A k \in ConfigKeys :
        config[k] \in IF k \in tuned THEN {v * Units[k] : v \in Ranges[k]} ELSE {environment[k]}

ConfigHolds == SimilaritiesOrdered /\ CheckupOrdered /\ ChosenOrGiven
=============================================================================
