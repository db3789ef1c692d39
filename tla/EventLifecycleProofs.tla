------------------------- MODULE EventLifecycleProofs -------------------------
(* What holds of EventLifecycle for any admins, verdicts and configurations. *)
EXTENDS EventLifecycle, TLAPS

\* Results were published, and the window of some configuration has run out since.
WindowPassed == published /\ \E c \in Config : days >= WindowDays[c]

\* The stages of a call that wrote "settled".
Settling == {"reload", "count", "read", "divide", "grant", "maintainers"}

\* What a Transition call under way stands on. Each fact is about what cannot be taken
\* back, so other calls leave it true.
CallInv(a) ==
  /\ call[a].closedOut => closedOut
  /\ call[a].stage \in {"loaded", "checked"} => call[a].toPhase \in Phase
  /\ call[a].stage = "loaded" /\ call[a].toPhase = "settled" => published
  /\ call[a].stage = "checked" /\ call[a].toPhase = "settled" => WindowPassed
  /\ call[a].stage \in Settling => WindowPassed
  /\ call[a].stage = "divide" => call[a].config \in Config
  /\ call[a].stage \in {"grant", "maintainers"} => closedOut

IInv == /\ TypeOK
        /\ \A a \in Admin : CallInv(a)
        /\ DividedOnce /\ WindowHonoured /\ PaidAfterRecompute /\ PaidFromTheRun
------------------------------------------------------------------------------
\* Phases are what PhaseOrder lists.
LEMMA PhaseOrderTyped == /\ Phase = {"draft", "application_period", "issue_prep", "live", "closed",
                                     "results_published", "settled"}
                         /\ \A p, q : Follows(p, q) => p \in Phase /\ q \in Phase
  <1>1. \A i \in 1..7 : i \in {1, 2, 3, 4, 5, 6, 7}
    OBVIOUS
  <1>2. Phase = {PhaseOrder[1], PhaseOrder[2], PhaseOrder[3], PhaseOrder[4], PhaseOrder[5],
                 PhaseOrder[6], PhaseOrder[7]}
    BY <1>1 DEF Phase
  <1>3. \A i \in 1..6 : i \in 1..7 /\ i + 1 \in 1..7
    OBVIOUS
  <1>4. \A p, q : Follows(p, q) => p \in Phase /\ q \in Phase
    BY <1>3 DEF Follows, Phase
  <1> QED BY <1>2, <1>4 DEF PhaseOrder

\* An idle call is a call.
LEMMA NoCallTyped == NoCall \in Call
  BY DEF NoCall, Call, Stage, Judged, Nothing

\* Initially nothing happened.
LEMMA InitInv == Init => IInv
  <1> SUFFICES ASSUME Init PROVE IInv
    OBVIOUS
  <1>1. TypeOK
    BY NoCallTyped, PhaseOrderTyped, ConfigAssumption DEF Init, TypeOK, Nothing, Judged
  <1>2. \A a \in Admin : CallInv(a)
    BY DEF Init, CallInv, NoCall, Settling
  <1> QED
    BY <1>1, <1>2 DEF IInv, Init, DividedOnce, WindowHonoured, PaidAfterRecompute, PaidFromTheRun
------------------------------------------------------------------------------
\* Moving a call on, returning from it and reading what it divides keep its type.
LEMMA CallMoves ==
  ASSUME TypeOK, NEW a \in Admin
  PROVE  /\ \A s \in Stage : Goto(a, s) => call' \in [Admin -> Call]
         /\ Return(a) => call' \in [Admin -> Call]
         /\ ReadVerdicts(a) => call' \in [Admin -> Call]
         /\ LoadEvent(a) => call' \in [Admin -> Call]
  <1>1. call \in [Admin -> Call] /\ bucket \in Judged /\ config \in Config
    BY DEF TypeOK
  <1>2. ASSUME NEW s \in Stage, Goto(a, s) PROVE call' \in [Admin -> Call]
    BY <1>1, <1>2 DEF Goto, Call
  <1>3. ASSUME Return(a) PROVE call' \in [Admin -> Call]
    BY <1>1, <1>3, NoCallTyped DEF Return
  <1>4. ASSUME ReadVerdicts(a) PROVE call' \in [Admin -> Call]
    <2>1. call[a] \in Call /\ "divide" \in Stage
      BY <1>1 DEF Stage
    <2>2. [call[a] EXCEPT !.stage = "divide", !.judged = bucket, !.config = config] \in Call
      BY <1>1, <2>1 DEF Call
    <2>3. call' = [call EXCEPT ![a] =
             [call[a] EXCEPT !.stage = "divide", !.judged = bucket, !.config = config]]
      BY <1>4, <1>1 DEF ReadVerdicts
    <2> QED BY <1>1, <2>2, <2>3
  <1>5. ASSUME LoadEvent(a) PROVE call' \in [Admin -> Call]
    <2>1. PICK to \in Phase : call' = [call EXCEPT ![a] =
             [NoCall EXCEPT !.stage = "loaded", !.toPhase = to, !.closedOut = closedOut]]
      BY <1>5 DEF LoadEvent
    <2>2. [NoCall EXCEPT !.stage = "loaded", !.toPhase = to, !.closedOut = closedOut] \in Call
      BY NoCallTyped DEF NoCall, Call, Stage, TypeOK
    <2> QED BY <1>1, <2>1, <2>2
  <1> QED BY <1>2, <1>3, <1>4, <1>5

\* Every step keeps the types.
LEMMA TypeStep == ASSUME TypeOK, Next, \A a \in Admin : CallInv(a) PROVE TypeOK'
  <1> USE DEF TypeOK, eventVars, verdictVars, payVars, workVars
  <1>1. ASSUME NEW a \in Admin, LoadEvent(a) \/ ReadVerdicts(a) PROVE TypeOK'
    <2>1. call' \in [Admin -> Call]
      BY <1>1, CallMoves
    <2> QED BY <1>1, <2>1 DEF LoadEvent, ReadVerdicts
  <1>2. ASSUME NEW a \in Admin, CheckBlockers(a) \/ CloseEvent(a) \/ Reload(a) \/ CountPending(a) \/ CallFails(a)
        PROVE TypeOK'
    <2>1. {"checked", "maintainers", "count", "read"} \subseteq Stage
      BY DEF Stage
    <2>2. call' \in [Admin -> Call]
      BY <1>2, <2>1, CallMoves DEF CheckBlockers, CloseEvent, Reload, CountPending, CallFails
    <2> QED BY <1>2, <2>2 DEF CheckBlockers, CloseEvent, Reload, CountPending, CallFails
  <1>3. ASSUME NEW a \in Admin, WritePhase(a) PROVE TypeOK'
    <2>1. call' \in [Admin -> Call]
      <3>1. Goto(a, "closing") \/ Goto(a, "reload") \/ Return(a)
        BY <1>3 DEF WritePhase
      <3>2. {"closing", "reload"} \subseteq Stage
        BY DEF Stage
      <3> QED BY <3>1, <3>2, CallMoves
    <2>2. phase' \in Phase
      BY <1>3 DEF WritePhase, CallInv, At
    <2>3. published' \in BOOLEAN /\ days' \in Nat
      <3>1. StampPublished \/ UNCHANGED <<published, days>>
        BY <1>3 DEF WritePhase
      <3>2. CASE StampPublished
        BY <3>2 DEF StampPublished
      <3>3. CASE UNCHANGED <<published, days>>
        BY <3>3
      <3> QED BY <3>1, <3>2, <3>3
    <2>4. snapshot' \in Config \cup {None}
      BY <1>3 DEF WritePhase
    <2> QED BY <1>3, <2>1, <2>2, <2>3, <2>4 DEF WritePhase
  <1>4. ASSUME NEW a \in Admin, Recompute(a) PROVE TypeOK'
    <2>0. {"grant", "maintainers"} \subseteq Stage
      BY DEF Stage
    <2>1. call' \in [Admin -> Call]
      BY <1>4, <2>0, CallMoves DEF Recompute, Divide
    <2>2. CASE closedOut
      BY <1>4, <2>1, <2>2 DEF Recompute
    <2>3. CASE ~closedOut
      <3>1. Divide(a)
        BY <1>4, <2>3 DEF Recompute
      <3>2. call[a] \in Call /\ call[a].config \in Config
        BY <1>4 DEF Recompute, CallInv, At
      <3>3. \A v \in Verdict : UnitsFor(v, call[a].judged, call[a].config) \in Nat
        BY <3>2, ConfigAssumption DEF UnitsFor, Call, Judged
      <3>4. units' \in [Verdict -> Nat] /\ dividedBy' \in Config \cup {None} /\ runs' \in Nat
            /\ closedOut' = TRUE
        BY <3>1, <3>2, <3>3 DEF Divide
      <3> QED BY <1>4, <2>1, <3>1, <3>4 DEF Recompute, Divide
    <2> QED BY <2>2, <2>3
  <1>5. ASSUME NEW a \in Admin, GrantShares(a) \/ SettleMaintainers(a) PROVE TypeOK'
    <2>1. call' \in [Admin -> Call]
      BY <1>5, CallMoves DEF GrantShares, SettleMaintainers, Stage
    <2>2. CASE GrantShares(a)
      <3>1. upsets' = upsets \/ upsets' = upsets + 1
        BY <2>2 DEF GrantShares
      <3>2. granted' \in BOOLEAN
        BY <2>2 DEF GrantShares
      <3>3. upsets' \in Nat
        BY <3>1
      <3> QED BY <2>1, <2>2, <3>2, <3>3 DEF GrantShares
    <2>3. CASE SettleMaintainers(a)
      BY <2>1, <2>3 DEF SettleMaintainers
    <2> QED BY <1>5, <2>2, <2>3
  <1>6. ASSUME NEW v \in Verdict, SyncVerdict(v) \/ CheckAppeal(v) \/ InsertAppeal(v) PROVE TypeOK'
    BY <1>6 DEF SyncVerdict, CheckAppeal, InsertAppeal
  <1>7. ASSUME NEW v \in Verdict, Override(v) \/ DecideAppeal(v) PROVE TypeOK'
    <2>1. bucket' \in Judged
      BY <1>7 DEF Override, DecideAppeal, Judged
    <2> QED BY <1>7, <2>1 DEF Override, DecideAppeal
  <1>8. CASE Release
    BY <1>8 DEF Release, Weight
  <1>9. CASE DayPasses \/ SetConfig
    BY <1>9 DEF DayPasses, SetConfig
  <1>10. CASE SelectDue \/ Draw \/ Sweep
    BY <1>10 DEF SelectDue, Draw, Sweep
  <1> QED BY <1>1, <1>2, <1>3, <1>4, <1>5, <1>6, <1>7, <1>8, <1>9, <1>10 DEF Next, CallStep
------------------------------------------------------------------------------
\* What a call may stand on is never taken back.
LEMMA Monotone ==
  ASSUME TypeOK, \A a \in Admin : CallInv(a), [Next]_vars
  PROVE  (published => published') /\ (closedOut => closedOut') /\ (WindowPassed => WindowPassed')
  <1> USE DEF eventVars, verdictVars, payVars, workVars
  <1> DEFINE Runs == published => published' /\ (days' = days \/ days' = days + 1)
  <1>1. Runs
    <2>1. ASSUME NEW a \in Admin, WritePhase(a)
          PROVE Runs
      <3>1. StampPublished \/ UNCHANGED <<published, days>>
        BY <2>1 DEF WritePhase
      <3> QED BY <3>1 DEF StampPublished
    <2>2. ASSUME DayPasses PROVE Runs
      BY <2>2 DEF DayPasses
    <2>3. ASSUME NEW a \in Admin, LoadEvent(a) \/ CallFails(a) \/ CheckBlockers(a) \/ CloseEvent(a) \/ Reload(a)
                 \/ CountPending(a) \/ ReadVerdicts(a) \/ GrantShares(a) \/ SettleMaintainers(a)
          PROVE Runs
      BY <2>3 DEF LoadEvent, CallFails, CheckBlockers, CloseEvent, Reload, CountPending, ReadVerdicts,
                  GrantShares, SettleMaintainers
    <2>4. ASSUME NEW a \in Admin, Recompute(a) PROVE Runs
      BY <2>4 DEF Recompute
    <2>5. ASSUME NEW v \in Verdict, SyncVerdict(v) \/ Override(v) \/ CheckAppeal(v) \/ InsertAppeal(v) \/ DecideAppeal(v)
          PROVE Runs
      BY <2>5 DEF SyncVerdict, Override, CheckAppeal, InsertAppeal, DecideAppeal
    <2>6. ASSUME Release \/ SetConfig \/ SelectDue \/ Draw \/ Sweep \/ UNCHANGED vars
          PROVE Runs
      BY <2>6 DEF Release, SetConfig, SelectDue, Draw, Sweep, vars, workVars
    <2> HIDE DEF Runs
    <2> QED BY <2>1, <2>2, <2>3, <2>4, <2>5, <2>6 DEF Next, CallStep
  <1>2. closedOut => closedOut'
    <2>1. ASSUME NEW a \in Admin, LoadEvent(a) \/ CallFails(a) \/ CheckBlockers(a) \/ CloseEvent(a) \/ Reload(a)
                 \/ CountPending(a) \/ ReadVerdicts(a) \/ GrantShares(a) \/ SettleMaintainers(a) \/ WritePhase(a)
          PROVE closedOut' = closedOut
      BY <2>1 DEF LoadEvent, CallFails, CheckBlockers, CloseEvent, Reload, CountPending, ReadVerdicts,
                  GrantShares, SettleMaintainers, WritePhase
    <2>2. ASSUME NEW a \in Admin, Recompute(a) PROVE closedOut => closedOut'
      BY <2>2 DEF Recompute
    <2>3. ASSUME NEW v \in Verdict, SyncVerdict(v) \/ Override(v) \/ CheckAppeal(v) \/ InsertAppeal(v) \/ DecideAppeal(v)
          PROVE closedOut' = closedOut
      BY <2>3 DEF SyncVerdict, Override, CheckAppeal, InsertAppeal, DecideAppeal
    <2>4. CASE Release \/ DayPasses \/ SetConfig \/ SelectDue \/ Draw \/ Sweep \/ UNCHANGED vars
      BY <2>4 DEF Release, DayPasses, SetConfig, SelectDue, Draw, Sweep, vars, workVars
    <2> QED BY <2>1, <2>2, <2>3, <2>4 DEF Next, CallStep
  <1>3. WindowPassed => WindowPassed'
    <2>1. SUFFICES ASSUME WindowPassed PROVE WindowPassed'
      OBVIOUS
    <2>2. PICK c \in Config : days >= WindowDays[c]
      BY <2>1 DEF WindowPassed
    <2>3. published' /\ (days' = days \/ days' = days + 1)
      BY <1>1, <2>1 DEF WindowPassed
    <2>4. days' >= WindowDays[c]
      BY <2>2, <2>3, ConfigAssumption DEF TypeOK
    <2> QED BY <2>3, <2>4 DEF WindowPassed
  <1> QED BY <1>1, <1>2, <1>3

\* A step of one call leaves the others where they are.
LEMMA OthersStay ==
  ASSUME TypeOK, NEW a \in Admin, LoadEvent(a) \/ CallStep(a) \/ CallFails(a)
  PROVE  \A b \in Admin \ {a} : call'[b] = call[b]
  <1>1. call \in [Admin -> Call]
    BY DEF TypeOK
  <1>2. ASSUME NEW s, Goto(a, s) PROVE \A b \in Admin \ {a} : call'[b] = call[b]
    BY <1>1, <1>2 DEF Goto
  <1>3. ASSUME Return(a) PROVE \A b \in Admin \ {a} : call'[b] = call[b]
    BY <1>1, <1>3 DEF Return
  <1>4. CASE LoadEvent(a) \/ ReadVerdicts(a)
    BY <1>1, <1>4 DEF LoadEvent, ReadVerdicts
  <1>5. CASE CallFails(a) \/ CheckBlockers(a) \/ CloseEvent(a) \/ SettleMaintainers(a) \/ CountPending(a)
    BY <1>2, <1>3, <1>5 DEF CallFails, CheckBlockers, CloseEvent, SettleMaintainers, CountPending
  <1>6. CASE Reload(a) \/ GrantShares(a)
    BY <1>2, <1>6 DEF Reload, GrantShares
  <1>7. CASE WritePhase(a)
    <2>1. Goto(a, "closing") \/ Goto(a, "reload") \/ Return(a)
      BY <1>7 DEF WritePhase
    <2> QED BY <1>2, <1>3, <2>1
  <1>8. CASE Recompute(a)
    BY <1>2, <1>8 DEF Recompute, Divide
  <1> QED BY <1>4, <1>5, <1>6, <1>7, <1>8 DEF CallStep
------------------------------------------------------------------------------
\* A call's facts survive whatever leaves the call itself alone.
LEMMA Inherited ==
  ASSUME TypeOK, \A a \in Admin : CallInv(a), [Next]_vars, NEW b \in Admin, call'[b] = call[b]
  PROVE  CallInv(b)'
  <1>1. (published => published') /\ (closedOut => closedOut') /\ (WindowPassed => WindowPassed')
    BY Monotone
  <1> QED BY <1>1 DEF CallInv

\* An idle call stands on nothing.
LEMMA IdleInv == ASSUME NEW a \in Admin, call'[a] = NoCall PROVE CallInv(a)'
  BY DEF CallInv, NoCall, Settling

\* Every step keeps what the calls under way stand on.
LEMMA CallStepInv ==
  ASSUME IInv, [Next]_vars
  PROVE  \A a \in Admin : CallInv(a)'
  <1>1. TypeOK /\ (\A a \in Admin : CallInv(a)) /\ WindowHonoured /\ call \in [Admin -> Call]
    BY DEF IInv, TypeOK
  <1>2. (published => published') /\ (closedOut => closedOut') /\ (WindowPassed => WindowPassed')
    BY <1>1, Monotone
  <1>3. CASE call' = call
    BY <1>1, <1>3, Inherited
  <1>4. ASSUME NEW a \in Admin, LoadEvent(a) \/ CallStep(a) \/ CallFails(a), NEW b \in Admin \ {a}
        PROVE CallInv(b)'
    BY <1>1, <1>4, OthersStay, Inherited
  <1>5. ASSUME NEW a \in Admin, LoadEvent(a) PROVE CallInv(a)'
    <2>1. PICK to \in Phase : /\ to = "settled" => published
                             /\ call' = [call EXCEPT ![a] =
             [NoCall EXCEPT !.stage = "loaded", !.toPhase = to, !.closedOut = closedOut]]
      BY <1>5 DEF LoadEvent
    <2>2. call'[a] = [NoCall EXCEPT !.stage = "loaded", !.toPhase = to, !.closedOut = closedOut]
      BY <1>1, <2>1
    <2>3. /\ call'[a].stage = "loaded" /\ call'[a].toPhase = to /\ call'[a].closedOut = closedOut
      BY <2>2 DEF NoCall
    <2> QED BY <1>2, <2>1, <2>3 DEF CallInv, Settling
  <1>6. ASSUME NEW a \in Admin, CheckBlockers(a) PROVE CallInv(a)'
    <2>1. CASE Return(a)
      BY <1>1, <2>1, IdleInv DEF Return
    <2>2. CASE NoBlockers(call[a].toPhase, call[a].closedOut) /\ Goto(a, "checked")
      <3>1. call'[a] = [call[a] EXCEPT !.stage = "checked"]
        BY <1>1, <2>2 DEF Goto
      <3>2. call[a].toPhase = "settled" => published
        BY <1>1, <1>6 DEF CheckBlockers, CallInv, At
      <3>3. call[a].toPhase = "settled" => WindowPassed
        <4> SUFFICES ASSUME call[a].toPhase = "settled" PROVE WindowPassed
          OBVIOUS
        <4>1. CASE call[a].closedOut
          BY <1>1, <4>1 DEF CallInv, WindowHonoured, WindowPassed
        <4>2. CASE ~(days < WindowDays[config])
          <5>1. days \in Nat /\ config \in Config /\ WindowDays[config] \in Nat
            BY <1>1, ConfigAssumption DEF TypeOK
          <5> QED BY <3>2, <4>2, <5>1 DEF WindowPassed
        <4> QED BY <2>2, <4>1, <4>2 DEF NoBlockers, WindowOpen
      <3>4. call[a].toPhase \in Phase /\ (call[a].closedOut => closedOut) /\ call[a] \in Call
        BY <1>1, <1>6 DEF CheckBlockers, CallInv, At
      <3>5. /\ call'[a].stage = "checked" /\ call'[a].toPhase = call[a].toPhase
            /\ call'[a].closedOut = call[a].closedOut
        BY <3>1, <3>4 DEF Call
      <3> QED BY <1>2, <3>3, <3>4, <3>5 DEF CallInv, Settling
    <2> QED BY <1>6, <2>1, <2>2 DEF CheckBlockers
  \* A call that goes on after "settled" was written keeps its facts.
  <1>7. ASSUME NEW a \in Admin, WindowPassed, NEW s \in Settling \ {"divide"}, Goto(a, s),
               s \in {"grant", "maintainers"} => closedOut'
        PROVE CallInv(a)'
    <2>1. /\ call'[a].stage = s /\ call'[a].closedOut = call[a].closedOut
      BY <1>1, <1>7 DEF Goto, Call
    <2>2. s \notin {"loaded", "checked", "divide"}
      BY DEF Settling
    <2> QED BY <1>1, <1>2, <1>7, <2>1, <2>2 DEF CallInv
  <1>8. ASSUME NEW a \in Admin, WritePhase(a) PROVE CallInv(a)'
    <2>1. CASE Return(a)
      BY <1>1, <2>1, IdleInv DEF Return
    <2>2. CASE call[a].toPhase = "settled" /\ Goto(a, "reload")
      <3>1. WindowPassed
        BY <1>1, <1>8, <2>2 DEF WritePhase, CallInv, At
      <3>2. "reload" \in Settling \ {"divide"}
        BY DEF Settling
      <3> QED BY <1>7, <2>2, <3>1, <3>2
    <2>3. CASE Goto(a, "closing")
      <3>1. call'[a].stage = "closing" /\ call'[a].closedOut = call[a].closedOut
        BY <1>1, <2>3 DEF Goto, Call
      <3> QED BY <1>1, <1>2, <3>1 DEF CallInv, Settling
    <2> QED BY <1>8, <2>1, <2>2, <2>3 DEF WritePhase
  <1>9. ASSUME NEW a \in Admin, CloseEvent(a) \/ CallFails(a) \/ SettleMaintainers(a) PROVE CallInv(a)'
    BY <1>1, <1>9, IdleInv DEF CloseEvent, CallFails, SettleMaintainers, Return
  <1>10. ASSUME NEW a \in Admin, Reload(a) \/ CountPending(a) \/ GrantShares(a) PROVE CallInv(a)'
    <2>1. WindowPassed
      BY <1>1, <1>10 DEF Reload, CountPending, GrantShares, CallInv, At, Settling
    <2>2. CASE Return(a)
      BY <1>1, <2>2, IdleInv DEF Return
    <2>3. ASSUME NEW s \in {"maintainers", "count", "read"}, Goto(a, s), s = "maintainers" => closedOut
          PROVE CallInv(a)'
      <3>1. s \in Settling \ {"divide"}
        BY DEF Settling
      <3>2. s \in {"grant", "maintainers"} => closedOut'
        BY <1>2, <2>3
      <3> QED BY <1>7, <2>1, <2>3, <3>1, <3>2
    <2>4. Return(a) \/ \E s \in {"maintainers", "count", "read"} : Goto(a, s) /\ (s = "maintainers" => closedOut)
      BY <1>1, <1>10 DEF Reload, CountPending, GrantShares, CallInv, At
    <2> QED BY <2>2, <2>3, <2>4
  <1>11. ASSUME NEW a \in Admin, ReadVerdicts(a) PROVE CallInv(a)'
    <2>1. WindowPassed
      BY <1>1, <1>11 DEF ReadVerdicts, CallInv, At, Settling
    <2>2. /\ call'[a].stage = "divide" /\ call'[a].closedOut = call[a].closedOut
          /\ call'[a].config = config
      BY <1>1, <1>11 DEF ReadVerdicts, Call
    <2>3. config' = config /\ config \in Config
      BY <1>1, <1>11 DEF ReadVerdicts, TypeOK
    <2> QED BY <1>1, <1>2, <2>1, <2>2, <2>3 DEF CallInv, Settling
  <1>12. ASSUME NEW a \in Admin, Recompute(a) PROVE CallInv(a)'
    <2>1. WindowPassed
      BY <1>1, <1>12 DEF Recompute, CallInv, At, Settling
    <2>2. PICK s \in {"grant", "maintainers"} : Goto(a, s) /\ closedOut'
      BY <1>12 DEF Recompute, Divide
    <2>3. s \in Settling \ {"divide"}
      BY <2>2 DEF Settling
    <2> QED BY <1>7, <2>1, <2>2, <2>3
  <1>13. ASSUME NEW a \in Admin, LoadEvent(a) \/ CallStep(a) \/ CallFails(a), NEW b \in Admin PROVE CallInv(b)'
    <2>1. CASE b = a
      BY <1>5, <1>6, <1>8, <1>9, <1>10, <1>11, <1>12, <1>13, <2>1 DEF CallStep
    <2>2. CASE b # a
      BY <1>4, <1>13, <2>2
    <2> QED BY <2>1, <2>2
  <1>14. ASSUME NEW v \in Verdict, SyncVerdict(v) \/ Override(v) \/ CheckAppeal(v) \/ InsertAppeal(v) \/ DecideAppeal(v)
         PROVE call' = call
    BY <1>14 DEF SyncVerdict, Override, CheckAppeal, InsertAppeal, DecideAppeal
  <1>15. CASE Release \/ DayPasses \/ SetConfig \/ SelectDue \/ Draw \/ Sweep \/ UNCHANGED vars
    BY <1>3, <1>15 DEF Release, DayPasses, SetConfig, SelectDue, Draw, Sweep, vars, workVars
  <1> QED BY <1>3, <1>13, <1>14, <1>15 DEF Next
------------------------------------------------------------------------------
\* Only the recompute changes what it computed, and only before the appeals are closed.
LEMMA FiguresFrozen ==
  ASSUME Next
  PROVE  \/ \E a \in Admin : At(a, "divide") /\ ~closedOut /\ Divide(a) /\ UNCHANGED paid
         \/ UNCHANGED <<units, runs, closedOut>>
  <1> USE DEF eventVars, verdictVars, payVars, workVars
  <1>1. ASSUME NEW a \in Admin, Recompute(a)
        PROVE  \/ At(a, "divide") /\ ~closedOut /\ Divide(a) /\ UNCHANGED paid
               \/ UNCHANGED <<units, runs, closedOut>>
    BY <1>1 DEF Recompute
  <1>2. ASSUME NEW a \in Admin, LoadEvent(a) \/ CallFails(a) \/ CheckBlockers(a) \/ CloseEvent(a) \/ Reload(a)
               \/ CountPending(a) \/ ReadVerdicts(a) \/ GrantShares(a) \/ SettleMaintainers(a) \/ WritePhase(a)
        PROVE UNCHANGED <<units, runs, closedOut>>
    BY <1>2 DEF LoadEvent, CallFails, CheckBlockers, CloseEvent, Reload, CountPending, ReadVerdicts,
                GrantShares, SettleMaintainers, WritePhase
  <1>3. ASSUME NEW v \in Verdict, SyncVerdict(v) \/ Override(v) \/ CheckAppeal(v) \/ InsertAppeal(v) \/ DecideAppeal(v)
        PROVE UNCHANGED <<units, runs, closedOut>>
    BY <1>3 DEF SyncVerdict, Override, CheckAppeal, InsertAppeal, DecideAppeal
  <1>4. CASE Release \/ DayPasses \/ SetConfig \/ SelectDue \/ Draw \/ Sweep
    BY <1>4 DEF Release, DayPasses, SetConfig, SelectDue, Draw, Sweep
  <1> QED BY <1>1, <1>2, <1>3, <1>4 DEF Next, CallStep

\* Only a release pays, only the maintainers' settlement settles the maintainers, and only
\* the grant grants.
LEMMA MoneyMoves ==
  ASSUME Next
  PROVE  /\ Release \/ UNCHANGED paid
         /\ (\E a \in Admin : SettleMaintainers(a)) \/ UNCHANGED maintainers
         /\ (\E a \in Admin : GrantShares(a)) \/ UNCHANGED granted
  <1> USE DEF eventVars, verdictVars, payVars, workVars
  <1>1. ASSUME NEW a \in Admin, LoadEvent(a) \/ CallFails(a) \/ CheckBlockers(a) \/ CloseEvent(a) \/ Reload(a)
               \/ CountPending(a) \/ ReadVerdicts(a) \/ WritePhase(a)
        PROVE UNCHANGED <<paid, maintainers, granted>>
    BY <1>1 DEF LoadEvent, CallFails, CheckBlockers, CloseEvent, Reload, CountPending, ReadVerdicts,
                WritePhase
  <1>2. ASSUME NEW a \in Admin, Recompute(a) PROVE UNCHANGED <<paid, maintainers, granted>>
    BY <1>2 DEF Recompute, Divide
  <1>3. ASSUME NEW a \in Admin, SettleMaintainers(a) PROVE UNCHANGED <<paid, granted>>
    BY <1>3 DEF SettleMaintainers
  <1>4. ASSUME NEW v \in Verdict, SyncVerdict(v) \/ Override(v) \/ CheckAppeal(v) \/ InsertAppeal(v) \/ DecideAppeal(v)
        PROVE UNCHANGED <<paid, maintainers, granted>>
    BY <1>4 DEF SyncVerdict, Override, CheckAppeal, InsertAppeal, DecideAppeal
  <1>5. ASSUME DayPasses \/ SetConfig \/ SelectDue \/ Draw \/ Sweep PROVE UNCHANGED <<paid, maintainers, granted>>
    BY <1>5 DEF DayPasses, SetConfig, SelectDue, Draw, Sweep
  <1>6. ASSUME Release PROVE UNCHANGED <<maintainers, granted>>
    BY <1>6 DEF Release
  <1>7. ASSUME NEW a \in Admin, GrantShares(a) PROVE UNCHANGED <<paid, maintainers>>
    BY <1>7 DEF GrantShares
  <1> QED BY <1>1, <1>2, <1>3, <1>4, <1>5, <1>6, <1>7 DEF Next, CallStep

\* IInv is inductive.
LEMMA Inductive == ASSUME IInv, [Next]_vars PROVE IInv'
  <1>1. TypeOK /\ (\A a \in Admin : CallInv(a)) /\ DividedOnce /\ WindowHonoured
        /\ PaidAfterRecompute /\ PaidFromTheRun
    BY DEF IInv
  <1>2. CASE UNCHANGED vars
    BY <1>1, <1>2 DEF IInv, vars, eventVars, verdictVars, payVars, workVars, TypeOK, CallInv, At, WindowPassed,
                      DividedOnce, WindowHonoured, PaidAfterRecompute, PaidFromTheRun
  <1>3. CASE Next
    <2>1. TypeOK'
      BY <1>1, <1>3, TypeStep
    <2>2. \A a \in Admin : CallInv(a)'
      BY CallStepInv
    <2>3. (published => published') /\ (closedOut => closedOut') /\ (WindowPassed => WindowPassed')
      BY <1>1, Monotone
    <2>4. DividedOnce'
      <3>1. ASSUME NEW a \in Admin, ~closedOut, Divide(a) PROVE DividedOnce'
        BY <1>1, <3>1 DEF DividedOnce, Divide
      <3> QED BY <1>1, <1>3, <3>1, FiguresFrozen DEF DividedOnce
    <2>5. WindowHonoured'
      <3>1. ASSUME NEW a \in Admin, At(a, "divide") PROVE WindowPassed
        BY <1>1, <3>1 DEF CallInv, At, Settling
      <3>2. closedOut' => WindowPassed
        BY <1>1, <1>3, <3>1, FiguresFrozen DEF WindowHonoured, WindowPassed
      <3> QED BY <2>3, <3>2 DEF WindowHonoured, WindowPassed
    <2>6. PaidAfterRecompute'
      <3>1. ASSUME NEW a \in Admin, SettleMaintainers(a) \/ GrantShares(a) PROVE closedOut
        BY <1>1, <3>1 DEF SettleMaintainers, GrantShares, CallInv, At
      <3>2. Release => closedOut
        BY DEF Release, Releasable
      <3>3. paid' # None \/ maintainers' \/ granted' => closedOut
        BY <1>1, <1>3, <3>1, <3>2, MoneyMoves DEF PaidAfterRecompute
      <3> QED BY <2>3, <3>3 DEF PaidAfterRecompute
    <2>7. PaidFromTheRun'
      <3>1. CASE Release
        <4>1. paid' = [v \in Verdict |-> Weight(v)] /\ UNCHANGED units
          BY <3>1 DEF Release, payVars
        <4> QED BY <4>1 DEF PaidFromTheRun, Weight
      <3>2. CASE UNCHANGED paid
        <4>1. CASE ~closedOut
          BY <1>1, <3>2, <4>1 DEF PaidAfterRecompute, PaidFromTheRun
        <4>2. CASE UNCHANGED units
          BY <1>1, <3>2, <4>2 DEF PaidFromTheRun
        <4> QED BY <1>3, <4>1, <4>2, FiguresFrozen
      <3> QED BY <1>3, <3>1, <3>2, MoneyMoves
    <2> QED BY <2>1, <2>2, <2>4, <2>5, <2>6, <2>7 DEF IInv
  <1> QED BY <1>2, <1>3

\* IInv holds in every state of every behaviour.
THEOREM InvariantHolds == Spec => []IInv
  <1> QED BY InitInv, Inductive, PTL DEF Spec
------------------------------------------------------------------------------
\* Every variable of the event keeps its type.
THEOREM TypeCorrect == Spec => []TypeOK
  <1>1. IInv => TypeOK
    BY DEF IInv
  <1> QED BY <1>1, InvariantHolds, PTL

\* However many admins settle an event, and whatever stale calls write its phase again, the
\* pool is divided by one recompute.
THEOREM PoolDividedOnce == Spec => []DividedOnce
  <1>1. IInv => DividedOnce
    BY DEF IInv
  <1> QED BY <1>1, InvariantHolds, PTL

\* The pool is not divided before the appeal window has passed.
THEOREM AppealsHaveTheirTime == Spec => []WindowHonoured
  <1>1. IInv => WindowHonoured
    BY DEF IInv
  <1> QED BY <1>1, InvariantHolds, PTL

\* Nothing is paid before the recompute.
THEOREM NothingPaidEarly == Spec => []PaidAfterRecompute
  <1>1. IInv => PaidAfterRecompute
    BY DEF IInv
  <1> QED BY <1>1, InvariantHolds, PTL

\* What is paid comes from the one recompute.
THEOREM PaidFromOneRun == Spec => []PaidFromTheRun
  <1>1. IInv => PaidFromTheRun
    BY DEF IInv
  <1> QED BY <1>1, InvariantHolds, PTL
=============================================================================
