------------------------------ MODULE Wording ------------------------------
(***************************************************************************)
(* The language model that words a statement formally.  The environment    *)
(* and the settings decide whether the hosted catalogue or a local runtime *)
(* may answer; a local answer comes from the strongest approved profile    *)
(* that the machine supports and whose model is installed.  The machine is *)
(* looked at once, when the server starts, and a look that fails sees less *)
(* than there is; models and the runtime come and go afterwards, and       *)
(* between the choice of a model and its answer.                           *)
(***************************************************************************)
EXTENDS Naturals, Sequences

CONSTANTS
    Ladder,      \* the approved profiles, strongest first: [model, on: "gpu" or "cpu", needs]
    Tags,        \* tags of a manifest: [model, form: "exact", "variant" or "lookalike"]
    Machines,    \* what a machine may have: [cards: sizes of its graphics cards, memory]
    Settings,    \* [environment, mode, enabled]
    Unseen,      \* nothing detected yet; no model
    MaxProvisions   \* bound: provisions of the manifest, of the runtime and of the key file

Views == [cards : SUBSET Nat, memory : Nat, up : BOOLEAN, models : SUBSET Tags]

ASSUME WordingAssumption ==
    /\ Len(Ladder) \in Nat /\ DOMAIN Ladder = 1..Len(Ladder) /\ MaxProvisions \in Nat
    /\ \A p \in DOMAIN Ladder : Ladder[p].on \in {"gpu", "cpu"} /\ Ladder[p].needs \in Nat
    /\ \A t \in Tags : t.form \in {"exact", "variant", "lookalike"}
    /\ \A m \in Machines : m.cards \in SUBSET Nat /\ m.memory \in Nat
    /\ Unseen \notin Views

VARIABLES
    setting,     \* get_settings(): fixed while the server runs
    machine,     \* the hardware: provisions only with a restart
    runtime,     \* the local runtime: [up, models]
    keyed,       \* the operator has provisioned the key of the hosted catalogue
    hardware,    \* get_hardware(): cached since the start, or Unseen
    wording,     \* the request: [stage, by, tag, profile]
    provisions

wordingVars == <<setting, machine, runtime, keyed, hardware, wording, provisions>>

NoWording == [stage |-> "none", by |-> "none", tag |-> Unseen, profile |-> 0]

WordingTypeOK ==
    /\ setting \in Settings /\ machine \in Machines
    /\ runtime \in [up : BOOLEAN, models : SUBSET Tags] /\ keyed \in BOOLEAN
    /\ hardware # Unseen => /\ hardware.cards \subseteq machine.cards /\ hardware.memory \in {0, machine.memory}
                            /\ hardware.models \subseteq Tags /\ (hardware.models # {} => hardware.up)
    /\ wording.stage \in {"none", "bound", "worded", "refused"}
    /\ wording.by \in {"none", "nvidia_nim", "local"} /\ wording.profile \in 0..Len(Ladder)
    /\ provisions \in 0..MaxProvisions

WordingInit ==
    /\ setting \in Settings /\ machine \in Machines
    /\ runtime \in [up : BOOLEAN, models : SUBSET Tags]
    /\ keyed \in BOOLEAN /\ hardware = Unseen /\ wording = NoWording /\ provisions = 0

----------------------------------------------------------------------------
(* The ladder of local profiles *)

\* _hardware_supports: one card alone must do (max_vram_gb).
Supports(h, p) ==
    /\ p.on = "gpu" => \E size \in h.cards : size >= p.needs
    /\ p.on = "cpu" => h.memory >= p.needs

\* Mutant of HasModel.
HasModelByPrefix(h, model) == {t \in h.models : t.model = model}

\* Hardware.has_model: the tag itself, else the tag with a suffix of quantization.  A tag that only
\* begins with the same letters is another model.
HasModel(h, model) ==
    LET exact == {t \in h.models : t.model = model /\ t.form = "exact"}
    IN  IF exact # {} THEN exact ELSE {t \in h.models : t.model = model /\ t.form = "variant"}

Supported(h) == {p \in DOMAIN Ladder : Supports(h, Ladder[p])}
Servable(h)  == IF h.up THEN {p \in Supported(h) : HasModel(h, Ladder[p].model) # {}} ELSE {}

\* resolve_profile.
Strongest(h) == CHOOSE p \in Servable(h) : \A q \in Servable(h) : p <= q

\* detect_hardware: what one look may see.  nvidia-smi is missing, times out or fails and shows no
\* card, or a line of it is not understood; /proc/meminfo is not readable; the runtime does not
\* answer in time, and has no models then.
Observations ==
    {v \in [cards : SUBSET machine.cards, memory : {0, machine.memory}, up : {FALSE, runtime.up},
            models : {{}, runtime.models}] : v.models = IF v.up THEN runtime.models ELSE {}}

----------------------------------------------------------------------------
(* A request *)

\* lifespan: once, and never again while the server runs.
WarmUp ==
    /\ hardware = Unseen /\ hardware' \in Observations
    /\ UNCHANGED <<setting, machine, runtime, keyed, wording, provisions>>

\* resolve_provider: the hosted catalogue only where the mode leaves it to the environment.
UsesLocal   == setting.environment = "production" \/ setting.mode = "local"
MayUseCloud == setting.mode # "off" /\ ~UsesLocal /\ setting.environment = "development" /\ keyed

Bind(by, tag, p) == wording' = [stage |-> "bound", by |-> by, tag |-> tag, profile |-> p]

\* ArabicFormalizationService: the provider is chosen when the service is built.
BindLocal ==
    /\ wording.stage = "none" /\ setting.mode # "off" /\ UsesLocal
    /\ \E h \in (IF hardware = Unseen THEN Observations ELSE {hardware}) :
          /\ hardware' = h
          /\ Servable(h) # {}
          /\ \E t \in HasModel(h, Ladder[Strongest(h)].model) : Bind("local", t, Strongest(h))
    /\ UNCHANGED <<setting, machine, runtime, keyed, provisions>>

BindCloud ==
    /\ wording.stage = "none" /\ MayUseCloud /\ Bind("nvidia_nim", Unseen, 0)
    /\ UNCHANGED <<setting, machine, runtime, keyed, hardware, provisions>>

\* Nothing that may answer: the reason is reported, and the investigator writes the text.
BindNothing ==
    /\ wording.stage = "none"
    /\ setting.mode = "off" \/ (~UsesLocal /\ ~MayUseCloud)
       \/ (UsesLocal /\ hardware # Unseen /\ Servable(hardware) = {})
    /\ wording' = [wording EXCEPT !.stage = "refused"]
    /\ UNCHANGED <<setting, machine, runtime, keyed, hardware, provisions>>

\* formalize, after its checks; the local runtime answers with the model it is asked for, or fails.
Word ==
    /\ wording.stage = "bound" /\ setting.enabled
    /\ wording.by = "local" => runtime.up /\ wording.tag \in runtime.models
    /\ wording' = [wording EXCEPT !.stage = "worded"]
    /\ UNCHANGED <<setting, machine, runtime, keyed, hardware, provisions>>

\* Switched off, an empty or too long text, an error or an empty answer of the runtime.
WordingFails ==
    /\ wording.stage = "bound" /\ wording' = [wording EXCEPT !.stage = "refused"]
    /\ UNCHANGED <<setting, machine, runtime, keyed, hardware, provisions>>

\* The answer is given; llm_capabilities only asks which runtime would answer.
NextWording ==
    /\ wording.stage # "none" /\ wording' = NoWording
    /\ UNCHANGED <<setting, machine, runtime, keyed, hardware, provisions>>

----------------------------------------------------------------------------
(* The operator *)

Provision ==
    /\ provisions < MaxProvisions /\ provisions' = provisions + 1
    /\ \/ /\ \/ \E t \in Tags : runtime' = [runtime EXCEPT !.models = IF t \in @ THEN @ \ {t} ELSE @ \cup {t}]
             \/ runtime' = [runtime EXCEPT !.up = ~@]
          /\ UNCHANGED keyed
       \/ keyed' = ~keyed /\ UNCHANGED runtime
    /\ UNCHANGED <<setting, machine, hardware, wording>>

\* The server restarts, on the same machine or on another, under other settings.
Reboot ==
    /\ provisions < MaxProvisions /\ provisions' = provisions + 1
    /\ setting' \in Settings /\ machine' \in Machines
    /\ hardware' = Unseen /\ wording' = NoWording
    /\ UNCHANGED <<runtime, keyed>>

WordingNext ==
    \/ WarmUp \/ BindLocal \/ BindCloud \/ BindNothing \/ Word \/ WordingFails \/ NextWording
    \/ Provision \/ Reboot

WordingSpec == WordingInit /\ [][WordingNext]_wordingVars

----------------------------------------------------------------------------
\* Whatever models come and go while requests run, and however little the look at the machine saw:
\* no text leaves the machine except in development; a local answer is that of a model approved for
\* a profile whose needs one card or the memory of this machine meets; and no stronger profile that
\* the machine as it was seen supports had its model then.  After a look that missed a card, a
\* weaker profile answers until the server starts again.
WordedAsApproved ==
    /\ wording.by = "nvidia_nim" => setting.environment = "development" /\ setting.mode \notin {"off", "local"}
    /\ wording.stage = "worded" /\ wording.by = "local" =>
          LET p == Ladder[wording.profile]
          IN  /\ wording.tag.model = p.model /\ wording.tag.form # "lookalike"
              /\ IF p.on = "gpu" THEN \E size \in machine.cards : size >= p.needs ELSE machine.memory >= p.needs
              /\ \A q \in 1..(wording.profile - 1) :
                    Supports(hardware, Ladder[q]) =>
                        \A t \in hardware.models : t.model = Ladder[q].model => t.form = "lookalike"
=============================================================================
