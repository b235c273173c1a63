--------------------------- MODULE SettingsLayers ----------------------------
(***************************************************************************)
(* One setting in its three layers: a line of the environment, the column  *)
(* of the settings row, and the default of the code.                       *)
(*                                                                         *)
(* A boot seeds the row from the environment and then loads it.  The three *)
(* settings services do it in two ways: the delivery settings read the row *)
(* and then UPDATE each column; those of the flow collector and of the     *)
(* console upsert WHERE the column IS NULL, except for flow's `enabled',   *)
(* which is never seeded.  Several processes may share the row, each with  *)
(* an environment of its own.                                              *)
(***************************************************************************)
EXTENDS Naturals

CONSTANTS
    Instances,     \* processes sharing the database
    Values,          \* what a line and a column can both hold
    Legacy,          \* a value of a delivery line that applies, but no column accepts
    Unset,           \* no line, or one that does not parse; also NULL
    Default,         \* of the code
    MaxBoots, MaxSettingSaves, MaxSettingFaults

SettingKinds == {"delivery", "flow", "flow enabled"}
Lines == Values \cup {Unset, Legacy}

ASSUME SettingsAssumption ==
    /\ {Unset, Legacy, Default} \cap Values = {} /\ Legacy # Unset /\ Default \notin {Unset, Legacy}
    /\ MaxBoots \in Nat /\ MaxSettingSaves \in Nat /\ MaxSettingFaults \in Nat

VARIABLES
    settingKind,   \* which service the setting belongs to; never changes
    column,        \* the column of the row
    process,       \* each process: what it is at, its line, the value in force
    \* history
    chosen,        \* the last value saved through the interface
    running,       \* the line of the first boot since the column was last empty
    raced,         \* a boot has overlapped another boot or a save
    boots, settingSaves, settingFaults  \* bounds

settingVars == <<settingKind, column, process, chosen, running, raced, boots, settingSaves, settingFaults>>

Down == [stage |-> "down", line |-> Unset, inForce |-> Default]

SettingsTypeOK ==
    /\ settingKind \in SettingKinds
    /\ column \in Values \cup {Unset} /\ chosen \in Values \cup {Unset}
    /\ process \in [Instances -> [stage : {"down", "reading", "seeding", "loading", "up", "reloading"},
                                    line : Lines, inForce : Lines \cup {Default}]]
    /\ running \in Lines /\ raced \in BOOLEAN
    /\ boots \in 0..MaxBoots /\ settingSaves \in 0..MaxSettingSaves /\ settingFaults \in 0..MaxSettingFaults

SettingsInit ==
    /\ settingKind \in SettingKinds
    /\ column = Unset /\ chosen = Unset /\ running = Unset
    /\ process = [p \in Instances |-> Down]
    /\ raced = FALSE /\ boots = 0 /\ settingSaves = 0 /\ settingFaults = 0

\* The resolution: environment, then row, then default.
Resolve(line, stored) ==
    IF line # Unset THEN line ELSE IF stored # Unset THEN stored ELSE Default

\* The fields a boot seeds: those the environment decides, but for NEVER_SEEDED.
Seedable(p) == process[p].line # Unset /\ settingKind # "flow enabled"

AtStage(p, stage) == process[p].stage = stage
GoesTo(p, stage) == process' = [process EXCEPT ![p].stage = stage]
Booting == {p \in Instances : process[p].stage \in {"reading", "seeding", "loading"}}
settingBounds == UNCHANGED <<boots, settingSaves, settingFaults>>
SettingFault == settingFaults < MaxSettingFaults /\ settingFaults' = settingFaults + 1

-----------------------------------------------------------------------------
BootsWith(p, line) ==
    /\ AtStage(p, "down") /\ boots < MaxBoots /\ boots' = boots + 1
    /\ line = Legacy => settingKind = "delivery"
    /\ process' = [process EXCEPT ![p] = [stage |-> "reading", line |-> line, inForce |-> Resolve(line, Unset)]]
    /\ running' = IF column = Unset /\ line \in Values THEN line ELSE running
    /\ raced' = (raced \/ Booting # {})
    /\ UNCHANGED <<settingKind, column, chosen, settingSaves, settingFaults>>

\* The delivery settings are read here; the others have nothing to read.
SeedReadsRow(p) ==
    /\ AtStage(p, "reading")
    /\ GoesTo(p, IF Seedable(p) /\ (settingKind = "delivery" => column = Unset) THEN "seeding" ELSE "loading")
    /\ settingBounds /\ UNCHANGED <<settingKind, column, chosen, running, raced>>

\* Only where nobody has chosen, says the upsert; the UPDATE does not ask again.
MutantSeedApplies(p) == process[p].line \in Values
SeedApplies(p) == process[p].line \in Values /\ (settingKind = "delivery" \/ column = Unset)
SeedWrites(p) ==
    /\ AtStage(p, "seeding")
    /\ column' = IF SeedApplies(p) THEN process[p].line ELSE column
    /\ GoesTo(p, "loading")
    /\ settingBounds /\ UNCHANGED <<settingKind, chosen, running, raced>>

\* The statement fails: the environment still applies, the row does not know it.
SeedFails(p) ==
    /\ process[p].stage \in {"reading", "seeding"} /\ Seedable(p) /\ SettingFault
    /\ GoesTo(p, "loading") /\ raced' = TRUE
    /\ UNCHANGED <<settingKind, column, chosen, running, boots, settingSaves>>

\* loadDeliverySettings, loadFlowSettings, loadAdhocSettings
LoadsRow(p) ==
    /\ process[p].stage \in {"loading", "reloading"}
    /\ process' = [process EXCEPT ![p].stage = "up", ![p].inForce = Resolve(process[p].line, column)]
    /\ settingBounds /\ UNCHANGED <<settingKind, column, chosen, running, raced>>

\* What was in force before stays in force.
LoadsNothing(p) ==
    /\ process[p].stage \in {"loading", "reloading"} /\ SettingFault
    /\ GoesTo(p, "up")
    /\ UNCHANGED <<settingKind, column, chosen, running, raced, boots, settingSaves>>

\* PUT /settings up to its COMMIT; null clears.  A pinned field is answered 409.
SaveSetting(p, value) ==
    /\ AtStage(p, "up") /\ process[p].line = Unset
    /\ settingSaves < MaxSettingSaves /\ settingSaves' = settingSaves + 1
    /\ column' = value /\ chosen' = value
    /\ running' = Unset
    /\ raced' = (raced \/ Booting # {})
    /\ GoesTo(p, "reloading")
    /\ UNCHANGED <<settingKind, boots, settingFaults>>

\* The process ends, in whatever it is doing.
Ends(p) ==
    /\ ~AtStage(p, "down")
    /\ process' = [process EXCEPT ![p] = Down]
    /\ raced' = (raced \/ p \in Booting)
    /\ settingBounds /\ UNCHANGED <<settingKind, column, chosen, running>>

SettingsNext == \E p \in Instances :
    \/ \E line \in Lines : BootsWith(p, line)
    \/ SeedReadsRow(p) \/ SeedWrites(p) \/ SeedFails(p) \/ LoadsRow(p) \/ LoadsNothing(p)
    \/ \E value \in Values \cup {Unset} : SaveSetting(p, value)
    \/ Ends(p)

SettingsSpec == SettingsInit /\ [][SettingsNext]_settingVars

-----------------------------------------------------------------------------
(* Properties *)

SavedSurvives == chosen # Unset /\ (settingKind = "delivery" => ~raced) => column = chosen
RemovedLineIsRemembered(p) ==
    LoadsRow(p) /\ AtStage(p, "loading") /\ ~raced /\ process[p].line = Unset /\ chosen = Unset =>
        process'[p].inForce = IF settingKind = "flow enabled" \/ running = Unset THEN Default ELSE running

\* A value saved through the interface is not overwritten by the environment of
\* any later boot, of this process or of another; the delivery settings, whose
\* UPDATE does not ask again, keep it only if no boot overlapped the save.  A line
\* that is removed is remembered, if nobody has saved since and no boot was
\* disturbed: a later boot puts the line of the first boot in force, through other
\* lines in between; only the collector's `enabled' goes back to the default.
LayersKept == SavedSurvives' /\ \A p \in Instances : RemovedLineIsRemembered(p)
LayersHold == [][LayersKept]_settingVars
-----------------------------------------------------------------------------
(* What the proofs rest on *)

ProcessStage == {"down", "reading", "seeding", "loading", "up", "reloading"}
LayersTypeOK ==
    /\ settingKind \in SettingKinds /\ column \in Values \cup {Unset} /\ chosen \in Values \cup {Unset}
    /\ running \in Values \cup {Unset} /\ raced \in BOOLEAN
    /\ process \in [Instances -> [stage : ProcessStage, line : Lines, inForce : Lines \cup {Default}]]

\* A process that has yet to write the line it was booted with.
YetToWrite(p) == process[p].stage \in {"reading", "seeding"} /\ process[p].line \in Values /\ column = Unset

\* What was saved is there; what no boot seeds is there only if it was saved.
ChoiceKept ==
    /\ SavedSurvives
    /\ settingKind = "flow enabled" => column = chosen /\ \A p \in Instances : ~AtStage(p, "seeding")

\* Where no boot was disturbed, one process boots at a time, and the column has the first
\* line unless the boot that has it is about to write it.
OneBootAtATime ==
    ~raced =>
        /\ \A p, q \in Booting : p = q
        /\ \A p \in Instances : AtStage(p, "seeding") /\ settingKind = "delivery" => column = Unset
        /\ \A p \in Instances : YetToWrite(p) => running = process[p].line
        /\ chosen = Unset /\ settingKind # "flow enabled" =>
              column = running \/ \E p \in Instances : YetToWrite(p)

LayersInv == LayersTypeOK /\ ChoiceKept /\ OneBootAtATime
==============================================================================
