---------------------------- MODULE EventSettings ----------------------------
(* What an event runs on: a setting with its factory value, its global value and *)
(* the event's own, edited and reset by administrators with an audit entry for   *)
(* each change (hackathon/config.go, handlers/admin_hackathon_config.go), and    *)
(* the sponsor's total, divided by the fee rate in force when it is recorded     *)
(* (hackathon/platform_fee.go, handlers/admin_hackathons.go). Nothing here is    *)
(* one transaction.                                                              *)
EXTENDS Naturals, FiniteSets

CONSTANTS
  RateValue,       \* what an administrator may set platform_fee_pct to, in percent
  FactoryRate,     \* its factory value
  MaintainerPct,   \* maintainer_share_pct
  SponsorTotals,   \* totals a sponsor may give, in tenths of a cent
  Editor,          \* requests that edit or reset the setting
  Recorder,        \* requests that record the sponsor's total
  MaxEdits,        \* bound on the edits
  NoSetting

ASSUME EventSettingsAssumption ==
  /\ RateValue \subseteq Nat /\ FactoryRate \in Nat /\ MaintainerPct \in 0..100
  /\ SponsorTotals \subseteq Nat /\ MaxEdits \in Nat /\ NoSetting \notin Nat

VARIABLES
  settingRow,   \* hackathon_config_settings: the global row and the event's
  configAudit,  \* config_audit: the changes, as a set of <<scope, new value>>
  unaudited,    \* history: changes whose request died before its audit entry
  editor,       \* the edits under way
  edits,
  recorder,     \* the totals being recorded
  eventMoney    \* the six columns of the event

settingsVars == <<settingRow, configAudit, unaudited, editor, edits, recorder, eventMoney>>

NoEdit == [pc |-> "idle", scope |-> "event", value |-> 0, old |-> 0]
NoRecording == [pc |-> "idle", total |-> 0, rate |-> 0]

SettingsInit ==
  /\ settingRow = [global |-> FactoryRate, event |-> NoSetting]   \* the seed
  /\ configAudit = {<<"global", FactoryRate>>} /\ unaudited = {}
  /\ editor = [e \in Editor |-> NoEdit] /\ edits = 0
  /\ recorder = [u \in Recorder |-> NoRecording] /\ eventMoney = NoSetting

-----------------------------------------------------------------------------
(* Settings.                                                                   *)

\* The event's own, else the global one, else the factory's.
EffectiveValue(scope) ==
  IF scope = "event" /\ settingRow.event # NoSetting THEN settingRow.event
  ELSE IF settingRow.global # NoSetting THEN settingRow.global ELSE FactoryRate

EditStands == UNCHANGED <<recorder, eventMoney>>

\* SetValue reads the value in force, for the audit entry.
ReadOldValue(e, scope, v) ==
  /\ editor[e].pc = "idle" /\ edits < MaxEdits /\ edits' = edits + 1
  /\ editor' = [editor EXCEPT ![e] = [pc |-> "set", scope |-> scope, value |-> v, old |-> EffectiveValue(scope)]]
  /\ EditStands /\ UNCHANGED <<settingRow, configAudit, unaudited>>

SetValue(e) ==
  /\ editor[e].pc = "set"
  /\ settingRow' = [settingRow EXCEPT ![editor[e].scope] = editor[e].value]
  /\ editor' = [editor EXCEPT ![e].pc = "audit"]
  /\ EditStands /\ UNCHANGED <<configAudit, unaudited, edits>>

\* ResetValue changes nothing, and audits nothing, if the event has no value of its own.
ReadOverride(e) ==
  /\ editor[e].pc = "idle" /\ edits < MaxEdits /\ edits' = edits + 1
  /\ settingRow.event # NoSetting
  /\ editor' = [editor EXCEPT ![e] = [NoEdit EXCEPT !.pc = "delete"]]
  /\ EditStands /\ UNCHANGED <<settingRow, configAudit, unaudited>>

ResetValue(e) ==
  /\ editor[e].pc = "delete"
  /\ settingRow' = [settingRow EXCEPT !.event = NoSetting]
  /\ editor' = [editor EXCEPT ![e].pc = "fall back"]
  /\ EditStands /\ UNCHANGED <<configAudit, unaudited, edits>>

\* What the event falls back to is read after the deletion.
ReadGlobal(e) ==
  /\ editor[e].pc = "fall back"
  /\ editor' = [editor EXCEPT ![e].pc = "audit", ![e].value = EffectiveValue("global")]
  /\ EditStands /\ UNCHANGED <<settingRow, configAudit, unaudited, edits>>

Change(e) == <<editor[e].scope, editor[e].value>>

WriteIfChanged(e) == \* mutant
  /\ editor[e].pc = "audit" /\ editor' = [editor EXCEPT ![e] = NoEdit]
  /\ configAudit' = IF editor[e].old = editor[e].value THEN configAudit ELSE configAudit \cup {Change(e)}
  /\ EditStands /\ UNCHANGED <<settingRow, unaudited, edits>>

WriteAudit(e) ==
  /\ editor[e].pc = "audit" /\ editor' = [editor EXCEPT ![e] = NoEdit]
  /\ configAudit' = configAudit \cup {Change(e)}
  /\ EditStands /\ UNCHANGED <<settingRow, unaudited, edits>>

\* The request dies, or a statement of it fails; what it wrote stays.
EditFails(e) ==
  /\ editor[e].pc # "idle" /\ editor' = [editor EXCEPT ![e] = NoEdit]
  /\ unaudited' = IF editor[e].pc = "audit" THEN unaudited \cup {Change(e)} ELSE unaudited
  /\ EditStands /\ UNCHANGED <<settingRow, configAudit, edits>>

-----------------------------------------------------------------------------
(* The sponsor's total.                                                        *)

\* Tenths of a cent, and hundredths, to whole cents.
Cents(tenths) == (tenths + 5) \div 10
Percent(cents, pct) == (cents * pct + 50) \div 100

clampPct(v) == IF v > 100 THEN 100 ELSE v

RoundedApart(total, rate) == \* mutant
  LET fee == (total * clampPct(rate) + 500) \div 1000
      rest == total - 10 * fee
  IN  [total |-> Cents(total), fee |-> fee, rate |-> clampPct(rate),
       maintainer |-> Percent(Cents(rest), MaintainerPct),
       contributor |-> (rest * (100 - MaintainerPct)) \div 1000]

\* The fee comes off once; the contributors take what rounding leaves.
SplitSponsorTotal(total, rate) ==
  LET fee == (total * clampPct(rate) + 500) \div 1000
      net == Cents(total - 10 * fee)
      maintainer == Percent(net, MaintainerPct)
  IN  [total |-> Cents(total), fee |-> fee, rate |-> clampPct(rate),
       maintainer |-> maintainer, contributor |-> net - maintainer]

RecordingStands == UNCHANGED <<settingRow, configAudit, unaudited, editor, edits>>

\* EffectiveValues: the global rows, then the event's.
LoadGlobalRates(u, total) ==
  /\ recorder[u].pc = "idle"
  /\ recorder' = [recorder EXCEPT ![u] = [pc |-> "own", total |-> total, rate |-> EffectiveValue("global")]]
  /\ RecordingStands /\ UNCHANGED eventMoney

LoadOwnRates(u) ==
  /\ recorder[u].pc = "own"
  /\ recorder' = [recorder EXCEPT ![u].pc = "write",
                                  ![u].rate = IF settingRow.event = NoSetting THEN @ ELSE settingRow.event]
  /\ RecordingStands /\ UNCHANGED eventMoney

\* One UPDATE writes the whole breakdown; no phase is looked at.
Update(u) ==
  /\ recorder[u].pc = "write" /\ recorder' = [recorder EXCEPT ![u] = NoRecording]
  /\ eventMoney' = SplitSponsorTotal(recorder[u].total, recorder[u].rate)
  /\ RecordingStands

UpdateFails(u) ==
  /\ recorder[u].pc # "idle" /\ recorder' = [recorder EXCEPT ![u] = NoRecording]
  /\ RecordingStands /\ UNCHANGED eventMoney

SettingsNext ==
  \/ \E e \in Editor :
       \/ \E v \in RateValue, scope \in {"global", "event"} : ReadOldValue(e, scope, v)
       \/ SetValue(e) \/ ReadOverride(e) \/ ResetValue(e) \/ ReadGlobal(e) \/ WriteAudit(e) \/ EditFails(e)
  \/ \E u \in Recorder : \/ \E total \in SponsorTotals : LoadGlobalRates(u, total)
                          \/ LoadOwnRates(u) \/ Update(u) \/ UpdateFails(u)

SettingsSpec == SettingsInit /\ [][SettingsNext]_settingsVars

-----------------------------------------------------------------------------
\* What pays people and the fee add up to what the sponsor gave, to the cent, and are what
\* the rate recorded beside them makes of it, whatever the setting was changed to since.
SplitAddsUp ==
  eventMoney # NoSetting =>
    /\ eventMoney.fee + eventMoney.maintainer + eventMoney.contributor = eventMoney.total
    /\ \E total \in SponsorTotals : eventMoney = SplitSponsorTotal(total, eventMoney.rate)

\* A value in force was audited when it was set, however edits and resets overlap, unless
\* the request that set it has not got there or died before it.
SettingsAudited ==
  \A scope \in {"global", "event"} : settingRow[scope] # NoSetting =>
    \/ <<scope, settingRow[scope]>> \in configAudit \cup unaudited
    \/ \E e \in Editor : editor[e].pc = "audit" /\ Change(e) = <<scope, settingRow[scope]>>
=============================================================================
