-------------------------- MODULE GuiSessionProofs --------------------------
(***************************************************************************)
(* Type correctness of GuiSession, for any profiles, failures or not.      *)
(***************************************************************************)
EXTENDS GuiSession, TLAPS

LEMMA IdleType == Idle \in [profile : MaybeProfile, stopped : BOOLEAN]
  BY DEF Idle, MaybeProfile

LEMMA StartsType ==
  ASSUME NEW p \in MaybeProfile
  PROVE  Starts(p) \in [profile : MaybeProfile, stopped : BOOLEAN]
  BY DEF Starts

\* What an engine command leaves recorded.
LEMMA EngineType ==
  ASSUME TypeOK,
         \/ UNCHANGED engine \/ EngineDown \/ Engine(NoProfile, FALSE)
         \/ EngineUp(settings.last)
         \/ run' = run /\ alive' \in {alive, FALSE}
         \/ \E p \in MaybeProfile : Engine(p, TRUE)
  PROVE  run' \in MaybeProfile /\ alive' \in BOOLEAN
<1>1. settings.last \in MaybeProfile /\ NoProfile \in MaybeProfile
  BY DEF TypeOK, MaybeProfile
<1> QED
  BY <1>1 DEF TypeOK, EngineDown, EngineUp, Engine, engine

LEMMA ButtonsType ==
  ASSUME TypeOK, Buttons
  PROVE  TypeOK'
<1>1. run' \in MaybeProfile /\ alive' \in BOOLEAN
  BY EngineType DEF Buttons, Select, StartSelected, StopProxy, RepairNetwork, Refresh,
    ToggleAutoConnect, engine
<1>2. settings' \in [auto_connect : BOOLEAN, auto_restart : BOOLEAN, last : MaybeProfile]
  <2>1. CASE UNCHANGED settings
    BY <2>1 DEF TypeOK
  <2>2. CASE Select
    <3>1. PICK p \in Profiles : settings' = [settings EXCEPT !.last = p]
      BY <2>2 DEF Select
    <3> QED
      BY <3>1 DEF TypeOK, MaybeProfile
  <2>3. CASE ToggleAutoConnect
    BY <2>3 DEF ToggleAutoConnect, TypeOK
  <2> QED
    BY <2>1, <2>2, <2>3 DEF Buttons, StartSelected, StopProxy, RepairNetwork, Refresh
<1>3. isRunning' \in BOOLEAN
  BY DEF TypeOK, Buttons, Select, StartSelected, StopProxy, RepairNetwork, Refresh,
    ToggleAutoConnect, ApplyStatus
<1>4. open /\ UNCHANGED <<faulty, known, open, wasRunning, starting>>
  BY DEF Buttons, Select, StartSelected, StopProxy, RepairNetwork, Refresh, ToggleAutoConnect
<1> QED
  BY <1>1, <1>2, <1>3, <1>4 DEF TypeOK

LEMMA ClosedType ==
  ASSUME TypeOK, Closed, run' \in MaybeProfile, alive' \in BOOLEAN, UNCHANGED <<faulty, known, settings>>
  PROVE  TypeOK'
  BY IdleType DEF TypeOK, Closed, Others

\* A step of an `up` that runs elsewhere; a closed GUI has none in its thread.
LEMMA UpType ==
  ASSUME TypeOK, NEW a \in Others, UpStops(a) \/ UpStarts(a)
  PROVE  TypeOK'
<1>1. /\ starting[a] \in [profile : MaybeProfile, stopped : BOOLEAN]
      /\ NoProfile \in MaybeProfile
  BY DEF TypeOK, MaybeProfile
<1>2. run' \in MaybeProfile /\ alive' \in BOOLEAN
  <2>1. \/ UNCHANGED engine \/ Engine(NoProfile, FALSE)
        \/ run' = run /\ alive' \in {alive, FALSE}
        \/ Engine(starting[a].profile, TRUE)
    BY DEF UpStops, UpStarts
  <2> QED
    BY <1>1, <2>1, EngineType
<1>3. starting' \in [Others -> [profile : MaybeProfile, stopped : BOOLEAN]]
  <2>1. \/ starting' = [starting EXCEPT ![a].stopped = TRUE]
        \/ starting' = [starting EXCEPT ![a] = Idle]
    BY DEF UpStops, UpStarts
  <2>2. starting \in [Others -> [profile : MaybeProfile, stopped : BOOLEAN]]
    BY DEF TypeOK
  <2> QED
    BY <1>1, <2>1, <2>2, IdleType
<1>4. ASSUME ~open PROVE a # "thread"
  <2>1. Idle.profile = NoProfile /\ Idle.stopped = FALSE
    BY DEF Idle
  <2>2. starting["thread"] = Idle
    BY <1>4 DEF TypeOK
  <2> QED
    BY <2>1, <2>2 DEF UpStops, UpStarts
<1>5. ~open => starting'["thread"] = Idle
  <2>1. a # "thread" => starting'["thread"] = starting["thread"]
    BY DEF TypeOK, UpStops, UpStarts, Others
  <2> QED
    BY <1>4, <2>1 DEF TypeOK
<1>6. UNCHANGED <<faulty, known, settings, open, isRunning, wasRunning>>
  BY DEF UpStops, UpStarts
<1> QED
  BY <1>2, <1>3, <1>5, <1>6 DEF TypeOK

LEMMA NextType == TypeOK /\ [Next]_vars => TypeOK'
<1> SUFFICES ASSUME TypeOK, [Next]_vars PROVE TypeOK'
  OBVIOUS
<1>1. CASE Launch
  <2>1. run' \in MaybeProfile /\ alive' \in BOOLEAN
    BY <1>1, EngineType DEF Launch
  <2>2. starting' \in [Others -> [profile : MaybeProfile, stopped : BOOLEAN]]
    <3>1. Starts(settings.last) \in [profile : MaybeProfile, stopped : BOOLEAN]
      BY StartsType DEF TypeOK
    <3> QED
      BY <1>1, <3>1 DEF Launch, TypeOK
  <2>3. open' = TRUE /\ isRunning' \in BOOLEAN /\ wasRunning' = FALSE /\ UNCHANGED <<faulty, known, settings>>
    BY <1>1 DEF Launch, ApplyStatus, TypeOK
  <2> QED
    BY <2>1, <2>2, <2>3 DEF TypeOK
<1>2. CASE Quit
  <2>1. run' \in MaybeProfile /\ alive' \in BOOLEAN
    BY <1>2, EngineType DEF Quit
  <2> QED
    BY <1>2, <2>1, ClosedType DEF Quit
<1>3. CASE GuiKilled
  BY <1>3, ClosedType DEF GuiKilled, TypeOK
<1>4. CASE Tick
  <2>1. run' \in MaybeProfile /\ alive' \in BOOLEAN
    BY <1>4, EngineType DEF Tick
  <2>2. isRunning' \in BOOLEAN
    BY <1>4 DEF Tick, Seen, Running, ApplyStatus, TypeOK
  <2> QED
    BY <1>4, <2>1, <2>2 DEF Tick, TypeOK
<1>5. CASE CliUp
  <2>1. PICK p \in Profiles : starting' = [starting EXCEPT !["cli"] = Starts(p)]
    BY <1>5 DEF CliUp
  <2>2. Starts(p) \in [profile : MaybeProfile, stopped : BOOLEAN]
    BY StartsType DEF MaybeProfile
  <2>3. UNCHANGED <<faulty, run, alive, known, settings, open, isRunning, wasRunning>>
    BY <1>5 DEF CliUp
  <2> QED
    BY <2>1, <2>2, <2>3 DEF TypeOK, Others
<1>6. CASE CliDown
  <2>1. run' \in MaybeProfile /\ alive' \in BOOLEAN
    BY <1>6, EngineType DEF CliDown
  <2> QED
    BY <1>6, <2>1 DEF CliDown, TypeOK
<1>7. CASE CoreDies
  BY <1>7 DEF CoreDies, TypeOK
<1>8. CASE ProfileGone
  BY <1>8 DEF ProfileGone, TypeOK
<1>9. CASE FailuresEnd
  BY <1>9 DEF FailuresEnd, TypeOK
<1>10. CASE UNCHANGED vars
  BY <1>10 DEF vars, TypeOK
<1> QED
  BY <1>1, <1>2, <1>3, <1>4, <1>5, <1>6, <1>7, <1>8, <1>9, <1>10, ButtonsType, UpType DEF Next

\* The session keeps its types, and a closed GUI leaves no window state, timer
\* edge or auto-connect thread behind (main.rs:1370-1404, 1625-1662).
THEOREM TypeCorrect == Spec => []TypeOK
<1>1. Init => TypeOK
  BY FailuresAssumption, IdleType DEF Init, TypeOK, MaybeProfile, Others
<1> QED
  BY <1>1, NextType, PTL DEF Spec
=============================================================================
