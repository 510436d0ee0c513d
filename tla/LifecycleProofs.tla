-------------------------- MODULE LifecycleProofs --------------------------
(***************************************************************************)
(* Theorems about Lifecycle, for every set of callers, pids and ports and  *)
(* every bound.                                                            *)
(***************************************************************************)
EXTENDS Lifecycle, TLAPS

USE PidsAssumption, PortsAssumption, BoundsAssumption, OverridesAssumption,
    StateFileAssumption

LEMMA NoLocalsType == NoLocals \in Locals /\ NoRun \in Runs
  BY DEF NoLocals, Locals, NoRun, Runs, NoPid, NoTime, NoPort

LEMMA DeadType == \A b \in Nat : Dead(b) \in Processes
  BY DEF Dead, Processes, NoPort

LEMMA KillType ==
  ASSUME TypeOK, NEW p, Alive(p), Kill(p)
  PROVE  proc' \in [Pids -> Processes]
<1>1. p \in Pids /\ proc[p].born \in Nat
  BY DEF Alive, TypeOK, Processes
<1>2. Dead(proc[p].born) \in Processes
  BY <1>1, DeadType
<1> QED
  BY <1>1, <1>2 DEF Kill, TypeOK

\* process_started_at yields a time or NoTime.
LEMMA StartedType ==
  ASSUME TypeOK, NEW p
  PROVE  StartedAt(p) \in Nat
  BY DEF TypeOK, StartedAt, Alive, Processes, NoTime

\* The control helpers keep pc and loc well typed.
LEMMA ReturnType ==
  ASSUME TypeOK, NEW a \in Actors, Return(a)
  PROVE  pc' \in [Actors -> Labels] /\ loc' \in [Actors -> Locals]
  BY NoLocalsType DEF TypeOK, Return, Goto, Labels

LEMMA LoadType ==
  ASSUME TypeOK, NEW a \in Actors, NEW m \in Labels, NEW l \in Labels, LoadState(a, m, l)
  PROVE  pc' \in [Actors -> Labels] /\ loc' \in [Actors -> Locals]
<1>1. CASE Return(a)
  BY <1>1, ReturnType
<1>2. CASE loc' = [loc EXCEPT ![a].run = running] /\ Goto(a, IF versioned THEN l ELSE m)
  <2>1. [loc[a] EXCEPT !.run = running] \in Locals
    BY DEF TypeOK, Locals
  <2> QED
    BY <1>2, <2>1 DEF TypeOK, Goto
<1> QED
  BY <1>1, <1>2 DEF LoadState

LEMMA ContinueType ==
  ASSUME TypeOK, NEW a \in Actors, NEW l \in Labels, Continue(a, l)
  PROVE  pc' \in [Actors -> Labels] /\ loc' \in [Actors -> Locals]
  BY ReturnType DEF Continue, TypeOK, Goto

\* A save leaves a file; where there is no file there is no record.
LEMMA SaveType ==
  ASSUME TypeOK, NEW a \in Actors, NEW r \in Runs, NEW l \in Labels, SaveState(a, r, l)
  PROVE  /\ running' \in Runs /\ versioned' \in BOOLEAN /\ (~versioned' => running' = NoRun)
         /\ pc' \in [Actors -> Labels] /\ loc' \in [Actors -> Locals]
<1>1. CASE Return(a) /\ UNCHANGED <<running, versioned>>
  BY <1>1, ReturnType DEF TypeOK
<1>2. CASE Continue(a, l) /\ running' = r /\ versioned' = TRUE
  BY <1>2, ContinueType
<1> QED
  BY <1>1, <1>2 DEF SaveState

LEMMA MigrateType ==
  ASSUME TypeOK, NEW a \in Actors, NEW at, NEW l \in Labels, Migrate(a, at, l)
  PROVE  TypeOK'
<1>1. pc' \in [Actors -> Labels] /\ loc' \in [Actors -> Locals]
  BY ContinueType DEF Migrate
<1>2. running' \in Runs /\ versioned' \in BOOLEAN /\ (~versioned' => running' = NoRun)
  <2>1. CASE running' = NoRun /\ versioned' = TRUE
    BY <2>1, NoLocalsType
  <2>2. CASE running' = running /\ versioned' = versioned
    BY <2>2 DEF TypeOK
  <2> QED
    BY <2>1, <2>2 DEF Migrate
<1> QED
  BY <1>1, <1>2 DEF Migrate, TypeOK

LEMMA ClearRecordedType ==
  ASSUME TypeOK, NEW a \in Actors, NEW at, NEW l \in Labels, ClearRecorded(a, at, l)
  PROVE  TypeOK'
  BY DEF TypeOK, ClearRecorded, TryClearProxy, Goto

LEMMA ForgetType ==
  ASSUME TypeOK, NEW a \in Actors, NEW at, NEW l \in Labels, Forget(a, at, l)
  PROVE  TypeOK'
<1>1. /\ running' \in Runs /\ versioned' \in BOOLEAN /\ (~versioned' => running' = NoRun)
      /\ pc' \in [Actors -> Labels] /\ loc' \in [Actors -> Locals]
  BY SaveType, NoLocalsType DEF Forget
<1> QED
  BY <1>1 DEF TypeOK, Forget

LEMMA BeginType ==
  ASSUME TypeOK, NEW a \in Actors, NEW l \in Labels, NEW x \in Locals, Begin(a, l, x)
  PROVE  TypeOK'
  BY DEF TypeOK, Begin, Goto

(***************************************************************************)
(* Type correctness, command by command                                    *)
(***************************************************************************)
LEMMA CallType ==
  ASSUME TypeOK, NEW a \in Actors, Call(a)
  PROVE  TypeOK'
<1>1. CASE BeginUp(a)
  <2>1. PICK on \in {settingsProxy} \cup Overrides :
          Begin(a, "up_load", [NoLocals EXCEPT !.on = on])
    BY <1>1 DEF BeginUp
  <2>2. [NoLocals EXCEPT !.on = on] \in Locals
    BY NoLocalsType DEF TypeOK, Locals
  <2> QED
    BY <2>1, <2>2, BeginType DEF Labels
<1>2. CASE BeginSysproxy(a)
  <2>1. PICK on \in BOOLEAN : Begin(a, "sp_intent", [NoLocals EXCEPT !.on = on])
    BY <1>2 DEF BeginSysproxy
  <2>2. [NoLocals EXCEPT !.on = on] \in Locals
    BY NoLocalsType DEF Locals
  <2> QED
    BY <2>1, <2>2, BeginType DEF Labels
<1>3. CASE BeginDown(a)
  BY <1>3, NoLocalsType, BeginType DEF BeginDown, Labels
<1>4. CASE BeginReconcile(a)
  BY <1>4, NoLocalsType, BeginType DEF BeginReconcile, Labels
<1>5. CASE BeginRepair(a)
  BY <1>5, NoLocalsType, BeginType DEF BeginRepair, Labels
<1>6. CASE BeginStatus(a)
  BY <1>6, NoLocalsType, BeginType DEF BeginStatus, Labels
<1> QED
  BY <1>1, <1>2, <1>3, <1>4, <1>5, <1>6 DEF Call

LEMMA UpType ==
  ASSUME TypeOK, NEW a \in Actors, Up(a)
  PROVE  TypeOK'
<1>1. CASE UpLoad(a)
  <2>1. (IF running = NoRun THEN "up_prepare" ELSE "up_clear") \in Labels
    BY DEF Labels
  <2>2. pc' \in [Actors -> Labels] /\ loc' \in [Actors -> Locals]
    BY <1>1, <2>1, LoadType DEF UpLoad, Labels
  <2> QED
    BY <1>1, <2>2 DEF UpLoad, TypeOK
<1>2. CASE UpClear(a)
  BY <1>2, ClearRecordedType DEF UpClear, Labels
<1>3. CASE UpStop(a)
  <2>1. proc' \in [Pids -> Processes]
    BY <1>3, KillType DEF UpStop, PidMatches, TypeOK
  <2>2. pc' \in [Actors -> Labels] /\ loc' \in [Actors -> Locals]
    BY <1>3, ReturnType DEF UpStop, Goto, TypeOK, Labels
  <2> QED
    BY <1>3, <2>1, <2>2 DEF UpStop, TypeOK
<1>4. CASE UpForget(a)
  BY <1>4, ForgetType DEF UpForget, Labels
<1>5. CASE UpPrepare(a)
  <2>1. CASE Return(a)
    BY <1>5, <2>1, ReturnType DEF UpPrepare, TypeOK
  <2>2. ASSUME NEW q \in Ports, loc' = [loc EXCEPT ![a].port = q], Goto(a, "up_spawn")
        PROVE  TypeOK'
    <3>1. [loc[a] EXCEPT !.port = q] \in Locals
      BY DEF TypeOK, Locals
    <3> QED
      BY <1>5, <2>2, <3>1 DEF UpPrepare, TypeOK, Goto, Labels
  <2> QED
    BY <1>5, <2>1, <2>2 DEF UpPrepare
<1>6. CASE UpSpawn(a)
  <2>1. CASE Return(a) /\ UNCHANGED proc
    BY <1>6, <2>1, ReturnType DEF UpSpawn, TypeOK
  <2>2. ASSUME NEW p \in Pids,
               proc' = [proc EXCEPT ![p] = [kind |-> "core", born |-> @.born + 1,
                                            port |-> loc[a].port, ready |-> FALSE]],
               loc' = [loc EXCEPT ![a].pid = p], Goto(a, "up_poll")
        PROVE  TypeOK'
    <3>1. [loc[a] EXCEPT !.pid = p] \in Locals
      BY DEF TypeOK, Locals
    <3>2. [kind |-> "core", born |-> proc[p].born + 1,
           port |-> loc[a].port, ready |-> FALSE] \in Processes
      BY DEF TypeOK, Locals, Processes
    <3> QED
      BY <1>6, <2>2, <3>1, <3>2 DEF UpSpawn, TypeOK, Goto, Labels
  <2> QED
    BY <1>6, <2>1, <2>2 DEF UpSpawn
<1>7. CASE UpPoll(a)
  BY <1>7 DEF UpPoll, TypeOK, Goto, Labels
<1>8. CASE UpDied(a)
  BY <1>8, ReturnType DEF UpDied, TypeOK
<1>9. CASE UpTimeout(a)
  <2>1. proc' \in [Pids -> Processes]
    BY <1>9, KillType DEF UpTimeout, PidMatches, TypeOK
  <2> QED
    BY <1>9, <2>1, ReturnType DEF UpTimeout, TypeOK
<1>10. CASE UpRetry(a)
  <2>1. [loc[a] EXCEPT !.polls = @ + 1] \in Locals
    BY DEF TypeOK, Locals
  <2> QED
    BY <1>10, <2>1 DEF UpRetry, TypeOK, Goto, Labels
<1>11. CASE UpProxy(a)
  <2>1. [loc[a] EXCEPT !.on = FALSE] \in Locals
    BY DEF TypeOK, Locals
  <2>2. loc' \in [Actors -> Locals]
    BY <1>11, <2>1 DEF UpProxy, TypeOK
  <2>3. systemProxy' \in Ports \cup {NoPort}
    BY <1>11 DEF UpProxy, TypeOK, Locals
  <2> QED
    BY <1>11, <2>2, <2>3 DEF UpProxy, TypeOK, Goto, Labels
<1>12. CASE UpSave(a)
  <2>1. [pid |-> loc[a].pid, started |-> StartedAt(loc[a].pid),
         port |-> loc[a].port, sysproxy |-> loc[a].on] \in Runs
    BY StartedType DEF TypeOK, Locals, Runs
  <2>2. /\ running' \in Runs /\ versioned' \in BOOLEAN /\ (~versioned' => running' = NoRun)
        /\ pc' \in [Actors -> Labels] /\ loc' \in [Actors -> Locals]
    BY <1>12, <2>1, SaveType DEF UpSave, Labels
  <2> QED
    BY <1>12, <2>2 DEF UpSave, TypeOK
<1>13. CASE UpMigrate(a)
  BY <1>13, MigrateType DEF UpMigrate, Labels
<1> QED
  BY <1>13, <1>1, <1>2, <1>3, <1>4, <1>5, <1>6, <1>7, <1>8, <1>9, <1>10, <1>11, <1>12 DEF Up

LEMMA DownType ==
  ASSUME TypeOK, NEW a \in Actors, Down(a)
  PROVE  TypeOK'
<1>1. CASE DownLoad(a)
  <2>1. pc' \in [Actors -> Labels] /\ loc' \in [Actors -> Locals]
    BY <1>1, ReturnType, LoadType DEF DownLoad, Labels
  <2> QED
    BY <1>1, <2>1 DEF DownLoad, TypeOK
<1>2. CASE DownClear(a)
  BY <1>2, ClearRecordedType DEF DownClear, Labels
<1>3. CASE DownKill(a)
  <2>1. proc' \in [Pids -> Processes]
    BY <1>3, KillType DEF DownKill, TypeOK
  <2>2. pc' \in [Actors -> Labels] /\ loc' \in [Actors -> Locals]
    BY <1>3, ReturnType DEF DownKill, Goto, TypeOK, Labels
  <2> QED
    BY <1>3, <2>1, <2>2 DEF DownKill, TypeOK
<1>4. CASE DownSave(a)
  BY <1>4, ForgetType DEF DownSave, Labels
<1>5. CASE DownMigrate(a)
  BY <1>5, MigrateType DEF DownMigrate, Labels
<1> QED
  BY <1>1, <1>2, <1>3, <1>4, <1>5 DEF Down

LEMMA SysproxyType ==
  ASSUME TypeOK, NEW a \in Actors, Sysproxy(a)
  PROVE  TypeOK'
<1>1. CASE SpIntent(a)
  <2>1. pc' \in [Actors -> Labels] /\ loc' \in [Actors -> Locals]
    BY <1>1, ReturnType DEF SpIntent, Goto, TypeOK, Labels
  <2>2. settingsProxy' \in BOOLEAN
    BY <1>1 DEF SpIntent, TypeOK, Locals
  <2> QED
    BY <1>1, <2>1, <2>2 DEF SpIntent, TypeOK
<1>2. CASE SpLoad(a)
  <2>1. pc' \in [Actors -> Labels] /\ loc' \in [Actors -> Locals]
    BY <1>2, ReturnType, LoadType DEF SpLoad, Labels
  <2> QED
    BY <1>2, <2>1 DEF SpLoad, TypeOK
<1>3. CASE SpApply(a)
  <2>1. pc' \in [Actors -> Labels] /\ loc' \in [Actors -> Locals]
    BY <1>3, ReturnType DEF SpApply, Goto, TypeOK, Labels
  <2>2. systemProxy' \in Ports \cup {NoPort}
    BY <1>3 DEF SpApply, TypeOK, Locals, Runs
  <2> QED
    BY <1>3, <2>1, <2>2 DEF SpApply, TypeOK
<1>4. CASE SpSave(a)
  <2>1. [loc[a].run EXCEPT !.sysproxy = loc[a].on] \in Runs
    BY DEF TypeOK, Locals, Runs
  <2>2. /\ running' \in Runs /\ versioned' \in BOOLEAN /\ (~versioned' => running' = NoRun)
        /\ pc' \in [Actors -> Labels] /\ loc' \in [Actors -> Locals]
    BY <1>4, <2>1, SaveType DEF SpSave, Labels
  <2> QED
    BY <1>4, <2>2 DEF SpSave, TypeOK
<1>5. CASE SpMigrate(a)
  BY <1>5, MigrateType DEF SpMigrate, Labels
<1> QED
  BY <1>1, <1>2, <1>3, <1>4, <1>5 DEF Sysproxy

LEMMA ReconcileType ==
  ASSUME TypeOK, NEW a \in Actors, Reconcile(a)
  PROVE  TypeOK'
<1>1. CASE RcLoad(a)
  <2>1. pc' \in [Actors -> Labels] /\ loc' \in [Actors -> Locals]
    BY <1>1, ReturnType, LoadType DEF RcLoad, Labels
  <2> QED
    BY <1>1, <2>1 DEF RcLoad, TypeOK
<1>2. CASE RcClear(a)
  BY <1>2, ClearRecordedType DEF RcClear, Labels
<1>3. CASE RcSave(a)
  BY <1>3, ForgetType DEF RcSave, Labels
<1>4. CASE RcMigrate(a)
  BY <1>4, MigrateType DEF RcMigrate, Labels
<1> QED
  BY <1>1, <1>2, <1>3, <1>4 DEF Reconcile

LEMMA RepairType ==
  ASSUME TypeOK, NEW a \in Actors, Repair(a)
  PROVE  TypeOK'
<1>1. CASE RpClear(a)
  BY <1>1 DEF RpClear, TryClearProxy, Goto, TypeOK, Labels
<1>2. CASE RpLoad(a)
  <2>1. pc' \in [Actors -> Labels] /\ loc' \in [Actors -> Locals]
    BY <1>2, LoadType DEF RpLoad, Labels
  <2> QED
    BY <1>2, <2>1 DEF RpLoad, TypeOK
<1>3. CASE RpKill(a)
  <2>1. proc' \in [Pids -> Processes]
    BY <1>3, KillType DEF RpKill, TypeOK
  <2> QED
    BY <1>3, <2>1 DEF RpKill, TypeOK, Goto, Labels
<1>4. CASE RpSave(a)
  BY <1>4, ForgetType DEF RpSave, Labels
<1>5. CASE RpSweep(a)
  <2>1. \A p \in Pids : Dead(proc[p].born) \in Processes
    BY DeadType DEF TypeOK, Processes
  <2>2. proc' \in [Pids -> Processes]
    BY <1>5, <2>1 DEF RpSweep, TypeOK
  <2> QED
    BY <1>5, <2>2, ReturnType DEF RpSweep, TypeOK
<1>6. CASE RpMigrate(a)
  BY <1>6, MigrateType DEF RpMigrate, Labels
<1> QED
  BY <1>1, <1>2, <1>3, <1>4, <1>5, <1>6 DEF Repair

LEMMA StatusCommandType ==
  ASSUME TypeOK, NEW a \in Actors, Status(a)
  PROVE  TypeOK'
<1>1. CASE StLoad(a)
  <2>1. pc' \in [Actors -> Labels] /\ loc' \in [Actors -> Locals]
    BY <1>1, ReturnType, LoadType DEF StLoad, Labels
  <2> QED
    BY <1>1, <2>1 DEF StLoad, TypeOK
<1>2. CASE StMigrate(a)
  BY <1>2, MigrateType DEF StMigrate, Labels
<1> QED
  BY <1>1, <1>2 DEF Status

LEMMA EnvironmentType ==
  ASSUME TypeOK, Environment
  PROVE  TypeOK'
<1>1. ASSUME NEW p \in Pids, CoreBinds(p)
      PROVE  TypeOK'
  <2>1. proc[p] \in Processes
    BY DEF TypeOK
  <2>2. [proc[p] EXCEPT !.ready = TRUE] \in Processes
    BY <2>1, Zenon DEF Processes
  <2> QED
    BY <1>1, <2>2 DEF CoreBinds, TypeOK
<1>2. ASSUME NEW p \in Pids, ProcessExits(p)
      PROVE  TypeOK'
  <2>1. proc' \in [Pids -> Processes]
    BY <1>2, KillType DEF ProcessExits, Alive
  <2> QED
    BY <1>2, <2>1 DEF ProcessExits, TypeOK
<1>3. ASSUME NEW p \in Pids, ProgramStarts(p)
      PROVE  TypeOK'
  <2>1. PICK q \in Ports \cup {NoPort}, answers \in BOOLEAN :
          proc' = [proc EXCEPT ![p] = [kind |-> "foreign", born |-> @.born + 1,
                                       port |-> q, ready |-> answers]]
    BY <1>3 DEF ProgramStarts
  <2>2. [kind |-> "foreign", born |-> proc[p].born + 1,
         port |-> q, ready |-> answers] \in Processes
    BY DEF TypeOK, Processes
  <2> QED
    BY <1>3, <2>1, <2>2 DEF ProgramStarts, TypeOK
<1>4. ASSUME NEW a \in Actors, CallerKilled(a)
      PROVE  TypeOK'
  BY <1>4, ReturnType DEF CallerKilled, TypeOK
<1>5. CASE FaultsEnd
  BY <1>5 DEF FaultsEnd, TypeOK
<1> QED
  BY <1>1, <1>2, <1>3, <1>4, <1>5 DEF Environment

LEMMA NextType == TypeOK /\ [Next]_vars => TypeOK'
<1> SUFFICES ASSUME TypeOK, [Next]_vars PROVE TypeOK'
  OBVIOUS
<1>1. ASSUME NEW a \in Actors, Step(a)
      PROVE  TypeOK'
  BY <1>1, UpType, DownType, SysproxyType, ReconcileType, RepairType,
     StatusCommandType DEF Step
<1>2. CASE UNCHANGED vars
  BY <1>2 DEF vars, TypeOK
<1> QED
  BY <1>1, <1>2, CallType, EnvironmentType DEF Next

LEMMA InitType == Init => TypeOK
  BY NoLocalsType, DeadType DEF Init, TypeOK, Labels

\* The shared state and every caller's locals keep their types, whatever the
\* interleaving, the failures and the kills.
THEOREM TypeCorrect == Spec => []TypeOK
  BY InitType, NextType, PTL DEF Spec

(***************************************************************************)
(* The proxy setting is accounted for.  One command at a time, and neither *)
(* clear_system_proxy nor State::save fails, nor is a caller killed between*)
(* setting the proxy and saving the record: those are the failures that    *)
(* break the property (see the forced_kill and two_callers runs).  set,    *)
(* kill, load and spawn may fail and callers may be killed anywhere else.  *)
(***************************************************************************)
SoleCaller == \A a, b \in Actors : a = b

ProxyFaultFree == /\ "clear" \notin Faults /\ "save" \notin Faults
                  /\ \A l \in Window : l \notin CrashPoints

LocalInv(a) == (pc[a] \notin Window => Accounted) /\ CallerInv(a)

LEMMA SoleInv ==
  ASSUME SoleCaller, NEW a \in Actors
  PROVE  (ProxyInv => LocalInv(a)) /\ (LocalInv(a)' => ProxyInv')
  BY DEF SoleCaller, ProxyInv, LocalInv

LEMMA GotoAt ==
  ASSUME TypeOK, NEW a \in Actors, NEW l, Goto(a, l)
  PROVE  pc'[a] = l
  BY DEF TypeOK, Goto

LEMMA ReturnAt ==
  ASSUME TypeOK, NEW a \in Actors, Return(a)
  PROVE  pc'[a] = "idle"
  BY DEF TypeOK, Return, Goto

\* At a label that asks nothing of the caller's locals, Accounted is enough.
Free == Labels \ (Window \cup Holding \cup ProxyDown \cup Unrecorded)

LEMMA FreeInv ==
  ASSUME NEW a \in Actors, pc'[a] \in Free, Accounted'
  PROVE  LocalInv(a)'
  BY DEF Free, Window, Holding, ProxyDown, Unrecorded, LocalInv, CallerInv

LEMMA IdleFree == "idle" \in Free
  BY DEF Free, Labels, Window, Holding, ProxyDown, Unrecorded, Migrating

\* A proxy that is off is accounted for, and so is one nothing has touched.
LEMMA OffAccounted == (systemProxy = NoPort => Accounted)
  BY DEF Accounted

LEMMA KeepAccounted == Accounted /\ UNCHANGED <<running, systemProxy>> => Accounted'
  BY DEF Accounted

LEMMA ClearRecordedInv ==
  ASSUME TypeOK, ProxyFaultFree, NEW a \in Actors, NEW at \in Holding, at \notin Window,
         NEW l, LocalInv(a), ClearRecorded(a, at, l)
  PROVE  /\ pc'[a] = l /\ UNCHANGED <<running, loc>>
         /\ systemProxy' = NoPort /\ loc'[a].run = running'
<1>1. pc[a] = at /\ loc[a].run = running /\ Accounted
  BY DEF ClearRecorded, LocalInv, CallerInv
<1>2. pc'[a] = l
  BY GotoAt DEF ClearRecorded
<1>3. CASE running.sysproxy
  BY <1>1, <1>2, <1>3 DEF ClearRecorded, TryClearProxy, Fault, ProxyFaultFree
<1>4. CASE ~running.sysproxy
  BY <1>1, <1>2, <1>4 DEF ClearRecorded, Accounted
<1> QED
  BY <1>3, <1>4

LEMMA ForgetInv ==
  ASSUME TypeOK, ProxyFaultFree, NEW a \in Actors, NEW at \in ProxyDown,
         NEW l, LocalInv(a), Forget(a, at, l)
  PROVE  pc'[a] = l /\ running' = NoRun /\ systemProxy' = NoPort
<1>1. systemProxy' = NoPort
  BY DEF Forget, LocalInv, CallerInv
<1>2. running' = NoRun /\ pc'[a] = l
  BY GotoAt, ReturnAt DEF Forget, SaveState, Continue, Fault, ProxyFaultFree
<1> QED
  BY <1>1, <1>2

LEMMA CallInv ==
  ASSUME TypeOK, NEW a \in Actors, LocalInv(a), Call(a)
  PROVE  LocalInv(a)'
<1>1. Accounted'
  BY DEF Call, BeginUp, BeginDown, BeginSysproxy, BeginReconcile, BeginRepair, BeginStatus, Begin,
         LocalInv, Accounted, Window
<1>2. pc'[a] \in {"up_load", "down_load", "sp_intent", "rc_load", "rp_clear", "st_load"}
  BY GotoAt DEF Call, BeginUp, BeginDown, BeginSysproxy, BeginReconcile, BeginRepair,
    BeginStatus, Begin
<1>3. pc'[a] \in Free
  BY <1>2 DEF Free, Labels, Window, Holding, ProxyDown, Unrecorded, Migrating
<1> QED
  BY <1>1, <1>3, FreeInv

\* From reading the record to spawning: the proxy is off and nothing recorded.
LEMMA OffInv ==
  ASSUME NEW a \in Actors, systemProxy' = NoPort, running' = NoRun,
         pc'[a] \notin Holding \cup Window
  PROVE  LocalInv(a)'
  BY DEF LocalInv, CallerInv, Accounted, Holding, Window

\* The same while the old record is still there and the caller holds it.
LEMMA HoldingInv ==
  ASSUME NEW a \in Actors, systemProxy' = NoPort, loc'[a].run = running',
         pc'[a] \notin Unrecorded \cup Window
  PROVE  LocalInv(a)'
  BY DEF LocalInv, CallerInv, Accounted, Unrecorded, Window

\* A loaded record is the current one; without a file the proxy is off.
LEMMA LoadInv ==
  ASSUME TypeOK, NEW a \in Actors, NEW m \in Migrating, NEW l, LoadState(a, m, l), Accounted,
         UNCHANGED <<running, versioned, systemProxy>>,
         versioned => l \notin ProxyDown \cup Unrecorded \cup Window
  PROVE  LocalInv(a)'
<1>1. Accounted'
  BY KeepAccounted
<1>2. CASE Return(a)
  BY <1>1, <1>2, ReturnAt, IdleFree, FreeInv
<1>3. CASE loc' = [loc EXCEPT ![a].run = running] /\ Goto(a, l) /\ versioned
  <2>1. pc'[a] = l /\ loc'[a].run = running'
    BY <1>3, GotoAt DEF TypeOK, Locals
  <2> QED
    BY <1>1, <1>3, <2>1 DEF LocalInv, CallerInv, Window, ProxyDown, Unrecorded
<1>4. CASE Goto(a, m) /\ ~versioned
  <2>1. running' = NoRun /\ systemProxy' = NoPort
    BY <1>4 DEF TypeOK, Accounted, NoRun
  <2>2. pc'[a] = m /\ m \notin Holding \cup Window
    BY <1>4, GotoAt DEF Migrating, Holding, Window
  <2> QED
    BY <2>1, <2>2, OffInv
<1> QED
  BY <1>2, <1>3, <1>4 DEF LoadState

\* A migration leaves the record empty, and the proxy off.
LEMMA MigrateInv ==
  ASSUME TypeOK, NEW a \in Actors, NEW at \in Migrating, NEW l, LocalInv(a), Migrate(a, at, l),
         l \notin Holding \cup Window
  PROVE  LocalInv(a)'
<1>1. running' = NoRun /\ systemProxy' = NoPort
  BY DEF Migrate, LocalInv, CallerInv, Unrecorded, ProxyDown
<1>2. pc'[a] = l
  BY GotoAt, ReturnAt DEF Migrate, Continue
<1> QED
  BY <1>1, <1>2, OffInv

LEMMA UpInv ==
  ASSUME TypeOK, ProxyFaultFree, NEW a \in Actors, LocalInv(a), Up(a)
  PROVE  LocalInv(a)'
<1>0. ASSUME Return(a), UNCHANGED <<running, systemProxy>>, pc[a] \notin Window
      PROVE  LocalInv(a)'
  BY <1>0, ReturnAt, IdleFree, FreeInv, KeepAccounted DEF LocalInv
<1>1. CASE UpLoad(a)
  <2>1. Accounted /\ pc[a] \notin Window /\ UNCHANGED <<running, versioned, systemProxy>>
    BY <1>1 DEF UpLoad, LocalInv, Window
  <2>2. CASE running = NoRun
    <3>1. systemProxy' = NoPort /\ running' = NoRun
      BY <2>1, <2>2 DEF Accounted, NoRun
    <3>2. pc'[a] \in {"up_prepare", "up_migrate", "idle"}
      BY <1>1, <2>2, GotoAt, ReturnAt DEF UpLoad, LoadState
    <3> QED
      BY <3>1, <3>2, OffInv DEF Holding, Window
  <2>3. CASE running # NoRun
    <3>1. LoadState(a, "up_migrate", "up_clear")
      BY <1>1, <2>3 DEF UpLoad
    <3> QED
      BY <2>1, <3>1, LoadInv DEF Migrating, ProxyDown, Unrecorded, Window
  <2> QED
    BY <2>2, <2>3
<1>2. CASE UpClear(a)
  <2>1. /\ pc'[a] = "up_stop" /\ systemProxy' = NoPort /\ loc'[a].run = running'
    BY <1>2, ClearRecordedInv DEF UpClear, Holding, Window
  <2> QED
    BY <2>1, HoldingInv DEF Unrecorded, Migrating, Window
<1>3. CASE UpStop(a)
  <2>1. systemProxy' = NoPort /\ pc[a] \notin Window /\ UNCHANGED <<running, systemProxy>>
    BY <1>3 DEF UpStop, LocalInv, CallerInv, ProxyDown, Window
  <2>2. CASE Return(a)
    BY <1>0, <2>1, <2>2
  <2>3. CASE Goto(a, "up_forget")
    BY <2>1, <2>3, GotoAt DEF LocalInv, CallerInv, Accounted, Holding, Window, Unrecorded, Migrating
  <2> QED
    BY <1>3, <2>2, <2>3 DEF UpStop
<1>4. CASE UpForget(a)
  <2>1. pc'[a] = "up_prepare" /\ running' = NoRun /\ systemProxy' = NoPort
    BY <1>4, ForgetInv DEF UpForget, ProxyDown
  <2> QED
    BY <2>1, OffInv DEF Holding, Window
<1>5. CASE UpPrepare(a) \/ UpSpawn(a) \/ UpPoll(a) \/ UpDied(a) \/ UpTimeout(a) \/ UpRetry(a)
  <2>1. pc[a] \in ProxyDown /\ pc[a] \in Unrecorded
    BY <1>5 DEF UpPrepare, UpSpawn, UpPoll, UpDied, UpTimeout, UpRetry, ProxyDown, Unrecorded
  <2>2. UNCHANGED <<running, systemProxy>>
    BY <1>5 DEF UpPrepare, UpSpawn, UpPoll, UpDied, UpTimeout, UpRetry
  <2>3. systemProxy' = NoPort /\ running' = NoRun
    BY <2>1, <2>2 DEF LocalInv, CallerInv
  <2>4. pc'[a] \in {"idle", "up_spawn", "up_poll", "up_proxy", "up_check"}
    BY <1>5, GotoAt, ReturnAt DEF UpPrepare, UpSpawn, UpPoll, UpDied, UpTimeout, UpRetry
  <2> QED
    BY <2>3, <2>4, OffInv DEF Holding, Window
<1>6. CASE UpProxy(a)
  <2>1. systemProxy = NoPort /\ running' = NoRun
    BY <1>6 DEF UpProxy, LocalInv, CallerInv, ProxyDown, Unrecorded
  <2>2. pc'[a] = "up_save"
    BY <1>6, GotoAt DEF UpProxy
  <2>3. systemProxy' = IF loc'[a].on THEN loc'[a].port ELSE NoPort
    BY <1>6, <2>1 DEF UpProxy, TypeOK, Locals
  <2> QED
    BY <2>1, <2>2, <2>3 DEF LocalInv, CallerInv, Window, Holding, ProxyDown, Unrecorded, Migrating
<1>7. CASE UpSave(a)
  <2>1. /\ systemProxy' = IF loc[a].on THEN loc[a].port ELSE NoPort
        /\ pc'[a] = "idle"
        /\ running' = [pid |-> loc[a].pid, started |-> StartedAt(loc[a].pid),
                       port |-> loc[a].port, sysproxy |-> loc[a].on]
    BY <1>7, ReturnAt DEF UpSave, SaveState, Continue, Fault, ProxyFaultFree, LocalInv, CallerInv
  <2>2. Accounted'
    BY <2>1 DEF Accounted, TypeOK, Locals
  <2> QED
    BY <2>1, <2>2, IdleFree, FreeInv
<1>8. CASE UpMigrate(a)
  BY <1>8, MigrateInv DEF UpMigrate, Migrating, Holding, Window
<1> QED
  BY <1>1, <1>2, <1>3, <1>4, <1>5, <1>6, <1>7, <1>8 DEF Up

LEMMA DownInv ==
  ASSUME TypeOK, ProxyFaultFree, NEW a \in Actors, LocalInv(a), Down(a)
  PROVE  LocalInv(a)'
<1>1. CASE DownLoad(a)
  <2>1. Accounted /\ UNCHANGED <<running, versioned, systemProxy>>
    BY <1>1 DEF DownLoad, LocalInv, Window
  <2>2. CASE Return(a)
    BY <2>1, <2>2, ReturnAt, IdleFree, FreeInv, KeepAccounted
  <2>3. CASE LoadState(a, "down_migrate", "down_clear")
    BY <2>1, <2>3, LoadInv DEF Migrating, ProxyDown, Unrecorded, Window
  <2> QED
    BY <1>1, <2>2, <2>3 DEF DownLoad
<1>2. CASE DownClear(a)
  <2>1. pc'[a] = "down_kill" /\ systemProxy' = NoPort /\ loc'[a].run = running'
    BY <1>2, ClearRecordedInv DEF DownClear, Holding, Window
  <2> QED
    BY <2>1, HoldingInv DEF Unrecorded, Migrating, Window
<1>3. CASE DownKill(a)
  <2>1. systemProxy' = NoPort /\ UNCHANGED running
    BY <1>3 DEF DownKill, LocalInv, CallerInv, ProxyDown
  <2>2. pc'[a] \in {"idle", "down_save"}
    BY <1>3, GotoAt, ReturnAt DEF DownKill
  <2> QED
    BY <2>1, <2>2 DEF LocalInv, CallerInv, Accounted, Holding, Window, Unrecorded, Migrating
<1>4. CASE DownSave(a)
  <2>1. pc'[a] = "idle" /\ running' = NoRun /\ systemProxy' = NoPort
    BY <1>4, ForgetInv DEF DownSave, ProxyDown
  <2> QED
    BY <2>1, OffInv DEF Holding, Window
<1>5. CASE DownMigrate(a)
  BY <1>5, MigrateInv DEF DownMigrate, Migrating, Holding, Window
<1> QED
  BY <1>1, <1>2, <1>3, <1>4, <1>5 DEF Down

LEMMA SysproxyInv ==
  ASSUME TypeOK, ProxyFaultFree, NEW a \in Actors, LocalInv(a), Sysproxy(a)
  PROVE  LocalInv(a)'
<1>1. CASE SpIntent(a)
  <2>1. Accounted'
    BY <1>1, KeepAccounted DEF SpIntent, LocalInv, Window
  <2>2. pc'[a] \in {"idle", "sp_load"}
    BY <1>1, GotoAt, ReturnAt DEF SpIntent
  <2> QED
    BY <2>1, <2>2, FreeInv DEF Free, Labels, Window, Holding, ProxyDown, Unrecorded, Migrating
<1>2. CASE SpLoad(a)
  <2>1. Accounted /\ UNCHANGED <<running, versioned, systemProxy>>
    BY <1>2 DEF SpLoad, LocalInv, Window
  <2>2. CASE Return(a)
    BY <2>1, <2>2, ReturnAt, IdleFree, FreeInv, KeepAccounted
  <2>3. CASE LoadState(a, "sp_migrate", "sp_apply")
    BY <2>1, <2>3, LoadInv DEF Migrating, ProxyDown, Unrecorded, Window
  <2> QED
    BY <1>2, <2>2, <2>3 DEF SpLoad
<1>3. CASE SpApply(a)
  <2>1. Accounted /\ loc[a].run = running /\ UNCHANGED running
    BY <1>3 DEF SpApply, LocalInv, CallerInv, Holding, Window
  <2>2. CASE Return(a) /\ UNCHANGED systemProxy
    BY <2>1, <2>2, ReturnAt, IdleFree, FreeInv, KeepAccounted
  <2>3. CASE Goto(a, "sp_save") /\ UNCHANGED loc
    <3>1. systemProxy' = IF loc[a].on THEN loc[a].run.port ELSE NoPort
      BY <1>3, <2>3, GotoAt, ReturnAt DEF SpApply
    <3> QED
      BY <2>1, <2>3, <3>1, GotoAt
      DEF LocalInv, CallerInv, Window, ProxyDown, Unrecorded, Migrating
  <2> QED
    BY <1>3, <2>2, <2>3 DEF SpApply
<1>4. CASE SpSave(a)
  <2>1. /\ systemProxy' = IF loc[a].on THEN loc[a].run.port ELSE NoPort
        /\ pc'[a] = "idle"
        /\ running' = [loc[a].run EXCEPT !.sysproxy = loc[a].on]
    BY <1>4, ReturnAt DEF SpSave, SaveState, Continue, Fault, ProxyFaultFree, LocalInv, CallerInv
  <2>2. Accounted'
    BY <2>1 DEF Accounted, TypeOK, Locals, Runs
  <2> QED
    BY <2>1, <2>2, IdleFree, FreeInv
<1>5. CASE SpMigrate(a)
  BY <1>5, MigrateInv DEF SpMigrate, Migrating, Holding, Window
<1> QED
  BY <1>1, <1>2, <1>3, <1>4, <1>5 DEF Sysproxy

LEMMA ReconcileInv ==
  ASSUME TypeOK, ProxyFaultFree, NEW a \in Actors, LocalInv(a), Reconcile(a)
  PROVE  LocalInv(a)'
<1>1. CASE RcLoad(a)
  <2>1. Accounted /\ UNCHANGED <<running, versioned, systemProxy>>
    BY <1>1 DEF RcLoad, LocalInv, Window
  <2>2. CASE Return(a)
    BY <2>1, <2>2, ReturnAt, IdleFree, FreeInv, KeepAccounted
  <2>3. CASE LoadState(a, "rc_migrate", "rc_clear")
    BY <2>1, <2>3, LoadInv DEF Migrating, ProxyDown, Unrecorded, Window
  <2> QED
    BY <1>1, <2>2, <2>3 DEF RcLoad
<1>2. CASE RcClear(a)
  <2>1. pc'[a] = "rc_save" /\ systemProxy' = NoPort /\ loc'[a].run = running'
    BY <1>2, ClearRecordedInv DEF RcClear, Holding, Window
  <2> QED
    BY <2>1, HoldingInv DEF Unrecorded, Migrating, Window
<1>3. CASE RcSave(a)
  <2>1. pc'[a] = "idle" /\ running' = NoRun /\ systemProxy' = NoPort
    BY <1>3, ForgetInv DEF RcSave, ProxyDown
  <2> QED
    BY <2>1, OffInv DEF Holding, Window
<1>4. CASE RcMigrate(a)
  BY <1>4, MigrateInv DEF RcMigrate, Migrating, Holding, Window
<1> QED
  BY <1>1, <1>2, <1>3, <1>4 DEF Reconcile

LEMMA RepairInv ==
  ASSUME TypeOK, ProxyFaultFree, NEW a \in Actors, LocalInv(a), Repair(a)
  PROVE  LocalInv(a)'
<1>1. CASE RpClear(a) \/ (RpLoad(a) /\ versioned) \/ RpKill(a) \/ RpSweep(a)
  <2>1. systemProxy' = NoPort
    BY <1>1 DEF RpClear, RpLoad, RpKill, RpSweep, TryClearProxy, Fault, ProxyFaultFree,
                LocalInv, CallerInv, ProxyDown
  <2>2. pc'[a] \in {"idle", "rp_load", "rp_kill", "rp_save"}
    BY <1>1, GotoAt, ReturnAt DEF RpClear, RpLoad, RpKill, RpSweep, LoadState
  <2> QED
    BY <2>1, <2>2 DEF LocalInv, CallerInv, Accounted, Holding, Window, Unrecorded, Migrating
<1>2. CASE RpSave(a)
  <2>1. pc'[a] = "rp_sweep" /\ running' = NoRun /\ systemProxy' = NoPort
    BY <1>2, ForgetInv DEF RpSave, ProxyDown
  <2> QED
    BY <2>1, OffInv DEF Holding, Window
<1>3. CASE RpLoad(a) /\ ~versioned
  <2>1. running' = NoRun /\ systemProxy' = NoPort
    BY <1>3 DEF RpLoad, LocalInv, CallerInv, ProxyDown, TypeOK
  <2>2. pc'[a] \in {"idle", "rp_migrate"}
    BY <1>3, GotoAt, ReturnAt DEF RpLoad, LoadState
  <2> QED
    BY <2>1, <2>2, OffInv DEF Holding, Window
<1>4. CASE RpMigrate(a)
  BY <1>4, MigrateInv DEF RpMigrate, Migrating, Holding, Window
<1> QED
  BY <1>1, <1>2, <1>3, <1>4 DEF Repair

LEMMA StatusInv ==
  ASSUME TypeOK, NEW a \in Actors, LocalInv(a), Status(a)
  PROVE  LocalInv(a)'
<1>1. CASE StLoad(a)
  <2>1. Accounted /\ UNCHANGED <<running, versioned, systemProxy>>
    BY <1>1 DEF StLoad, LocalInv, Window
  <2>2. CASE Return(a)
    BY <2>1, <2>2, ReturnAt, IdleFree, FreeInv, KeepAccounted
  <2>3. CASE LoadState(a, "st_migrate", "idle") /\ ~versioned
    BY <2>1, <2>3, LoadInv DEF Migrating
  <2> QED
    BY <1>1, <2>2, <2>3 DEF StLoad
<1>2. CASE StMigrate(a)
  BY <1>2, MigrateInv DEF StMigrate, Migrating, Holding, Window
<1> QED
  BY <1>1, <1>2 DEF Status

LEMMA EnvironmentInv ==
  ASSUME TypeOK, ProxyFaultFree, SoleCaller, ProxyInv, Environment
  PROVE  ProxyInv'
<1>1. ASSUME UNCHANGED <<running, systemProxy, pc, loc>>
      PROVE  ProxyInv'
  BY <1>1 DEF ProxyInv, CallerInv, Accounted
<1>2. ASSUME NEW a \in Actors, CallerKilled(a)
      PROVE  ProxyInv'
  <2>1. LocalInv(a) /\ pc[a] \notin Window
    BY <1>2, SoleInv DEF CallerKilled, ProxyFaultFree
  <2>2. Accounted' /\ pc'[a] = "idle"
    BY <1>2, <2>1, KeepAccounted, ReturnAt DEF CallerKilled, LocalInv
  <2> QED
    BY <2>2, IdleFree, FreeInv, SoleInv
<1> QED
  BY <1>1, <1>2 DEF Environment, CoreBinds, ProcessExits, ProgramStarts, FaultsEnd

LEMMA NextInv ==
  ASSUME ProxyFaultFree, SoleCaller
  PROVE  TypeOK /\ ProxyInv /\ [Next]_vars => ProxyInv'
<1> SUFFICES ASSUME TypeOK, ProxyInv, [Next]_vars PROVE ProxyInv'
  OBVIOUS
<1>1. ASSUME NEW a \in Actors, Call(a) \/ Step(a)
      PROVE  ProxyInv'
  <2>1. LocalInv(a)
    BY SoleInv
  <2>2. LocalInv(a)'
    BY <1>1, <2>1, CallInv, UpInv, DownInv, SysproxyInv, ReconcileInv, RepairInv, StatusInv DEF Step
  <2> QED
    BY <2>2, SoleInv
<1>2. CASE UNCHANGED vars
  BY <1>2 DEF vars, ProxyInv, CallerInv, Accounted
<1> QED
  BY <1>1, <1>2, EnvironmentInv DEF Next

LEMMA InitInv == Init => ProxyInv
  BY IdleFree DEF Init, ProxyInv, CallerInv, Accounted, Free, Holding, ProxyDown, Unrecorded

\* The proxy setting and the record agree at every control point.
THEOREM ProxyInvariant ==
  ASSUME ProxyFaultFree, SoleCaller
  PROVE  Spec => []ProxyInv
<1>1. TypeOK /\ ProxyInv /\ [Next]_vars => ProxyInv'
  BY NextInv
<1> QED
  BY <1>1, InitInv, TypeCorrect, PTL DEF Spec

\* Between commands a proxy that is on is one the record accounts for, so that
\* the next up, down or reconcile clears it.
THEOREM ProxyIsAccounted ==
  ASSUME ProxyFaultFree, SoleCaller
  PROVE  Spec => []ProxyAccounted
<1>1. ProxyInv => ProxyAccounted
  BY DEF ProxyInv, ProxyAccounted, Quiet, Accounted, Window
<1> QED
  BY <1>1, ProxyInvariant, PTL

-----------------------------------------------------------------------------
(* A sole caller                                                           *)
(*                                                                         *)
(* What a sole caller may rely on: no core is lost, the record reaches its *)
(* core, no other sing-box answers the wait of `up`, the OS proxy is what  *)
(* the record says, and reconcile heals.                                   *)

-----------------------------------------------------------------------------
(* The recorded core and the one `up` waits for *)

\* No kill and no save fails, and no caller dies while it waits for its core.
CoreFaultFree == /\ "kill" \notin Faults /\ "save" \notin Faults
                 /\ \A l \in {"up_poll", "up_check", "up_proxy", "up_save"} : l \notin CrashPoints

Waiting == {"up_poll", "up_check", "up_proxy", "up_save"}

\* Where the command has seen to it that the recorded core is gone.
Gone == {"up_forget", "down_save", "rc_clear", "rc_save", "rp_save"}

Copied == Holding \cup {"rp_migrate", "rp_kill"}

CallerCore(a) ==
  /\ pc[a] \in Copied => loc[a].run = running
  /\ pc[a] \in Unrecorded => running = NoRun
  /\ pc[a] \in Gone => running.pid \notin Cores
  /\ pc[a] \in Waiting /\ loc[a].pid \in Cores => proc[loc[a].pid].port = loc[a].port

CoreInv == NoOrphanCore /\ RecordReachesItsCore /\ \A a \in Actors : CallerCore(a)

\* The same, seen by the sole caller.
CoreAt(a) ==
  /\ \A p \in Cores : p = running.pid \/ (pc[a] \in Waiting /\ loc[a].pid = p)
  /\ RecordReachesItsCore
  /\ CallerCore(a)

LEMMA NoRunNoCore == NoRun.pid \notin Pids /\ NoRun.pid \notin Cores
  BY PidsAssumption DEF NoRun, NoPid, Cores

LEMMA SoleCore ==
  ASSUME SoleCaller, NEW a \in Actors
  PROVE  (CoreInv => CoreAt(a)) /\ (CoreAt(a)' => CoreInv')
<1>1. \A b \in Actors : b = a
  BY DEF SoleCaller
<1> QED
  BY <1>1 DEF CoreInv, CoreAt, NoOrphanCore, Waiting

\* A step that starts no core; it may kill some.
Mild ==
  \A p \in Pids : proc'[p].kind = "core" =>
    proc[p].kind = "core" /\ proc'[p].born = proc[p].born /\ proc'[p].port = proc[p].port

LEMMA KillMild ==
  ASSUME TypeOK, NEW p \in Pids, Kill(p)
  PROVE  Mild /\ p \notin Cores'
  BY DEF TypeOK, Mild, Kill, Dead, Cores

LEMMA SameMild == UNCHANGED proc => Mild
  BY DEF Mild

LEMMA MildCores == Mild => Cores' \subseteq Cores
  BY DEF Mild, Cores

\* The recorded core stays the recorded one.
LEMMA MildReaches ==
  ASSUME Mild, UNCHANGED running, RecordReachesItsCore
  PROVE  RecordReachesItsCore'
<1> SUFFICES ASSUME running.pid \in Cores'
             PROVE  /\ PidMatches(running.pid, running.started)'
                    /\ proc'[running.pid].port = running.port
  BY DEF RecordReachesItsCore
<1>1. running.pid \in Cores /\ running.pid \in Pids /\ proc'[running.pid].kind = "core"
  BY MildCores DEF Cores
<1>2. /\ proc'[running.pid].born = proc[running.pid].born
      /\ proc'[running.pid].port = proc[running.pid].port
  BY <1>1 DEF Mild
<1>3. PidMatches(running.pid, running.started) /\ proc[running.pid].port = running.port
  BY <1>1 DEF RecordReachesItsCore
<1>4. Alive(running.pid) /\ Alive(running.pid)'
  BY <1>1 DEF Alive, Cores
<1>5. StartedAt(running.pid)' = StartedAt(running.pid)
  BY <1>2, <1>4 DEF StartedAt
<1> QED
  BY <1>2, <1>3, <1>4, <1>5 DEF PidMatches

\* A command goes on without a new core, and without writing the record.
LEMMA MildCore ==
  ASSUME NEW a \in Actors, CoreAt(a), Mild, UNCHANGED running,
         pc'[a] \in Copied => loc'[a].run = running,
         pc'[a] \in Unrecorded => running = NoRun,
         pc'[a] \in Gone => running.pid \notin Cores',
         pc[a] \in Waiting /\ loc[a].pid \in Cores' => pc'[a] \in Waiting,
         pc'[a] \in Waiting => /\ pc[a] \in Waiting
                               /\ loc'[a].pid = loc[a].pid /\ loc'[a].port = loc[a].port
  PROVE  CoreAt(a)'
<1>1. Cores' \subseteq Cores
  BY MildCores
<1>2. ASSUME NEW p \in Cores'
      PROVE  p = running'.pid \/ (pc'[a] \in Waiting /\ loc'[a].pid = p)
  BY <1>1, <1>2 DEF CoreAt
<1>3. ASSUME pc'[a] \in Waiting, loc'[a].pid \in Cores'
      PROVE  proc'[loc'[a].pid].port = loc'[a].port
  <2>1. loc[a].pid \in Cores /\ proc[loc[a].pid].port = loc[a].port
    BY <1>1, <1>3 DEF CoreAt, CallerCore
  <2> QED
    BY <1>3, <2>1 DEF Mild, Cores
<1> QED
  BY <1>2, <1>3, MildReaches DEF CoreAt, CallerCore

\* Back to idle without a core of its own.
LEMMA MildReturn ==
  ASSUME TypeOK, NEW a \in Actors, CoreAt(a), Mild, UNCHANGED running, Return(a),
         pc[a] \in Waiting => loc[a].pid \notin Cores'
  PROVE  CoreAt(a)'
<1>1. pc'[a] = "idle"
  BY ReturnAt
<1>2. "idle" \notin Copied \cup Unrecorded \cup Gone \cup Waiting
  BY DEF Copied, Holding, Unrecorded, Migrating, Gone, Waiting
<1> QED
  BY <1>1, <1>2, MildCore

\* Past the wait, and in every other command, no core is waited for.
LEMMA MildGoto ==
  ASSUME TypeOK, NEW a \in Actors, CoreAt(a), Mild, UNCHANGED running, NEW l, Goto(a, l),
         pc[a] \notin Waiting, l \notin Waiting \cup Copied,
         l \in Unrecorded => running = NoRun,
         l \in Gone => running.pid \notin Cores'
  PROVE  CoreAt(a)'
<1>1. pc'[a] = l
  BY GotoAt
<1> QED
  BY <1>1, MildCore

\* A copy of the record is taken, or kept.
LEMMA MildHold ==
  ASSUME TypeOK, NEW a \in Actors, CoreAt(a), Mild, UNCHANGED running, NEW l, Goto(a, l),
         loc'[a].run = running, pc[a] \notin Waiting, l \notin Waiting,
         l \in Unrecorded => running = NoRun,
         l \in Gone => running.pid \notin Cores'
  PROVE  CoreAt(a)'
<1>1. pc'[a] = l
  BY GotoAt
<1> QED
  BY <1>1, MildCore

\* A record that is forgotten has no core any more.
LEMMA ForgetCore ==
  ASSUME TypeOK, CoreFaultFree, NEW a \in Actors, CoreAt(a), NEW at \in Gone, NEW l,
         l \notin Copied \cup Waiting, Forget(a, at, l)
  PROVE  CoreAt(a)'
<1>1. running' = NoRun /\ pc'[a] = l /\ proc' = proc
  BY GotoAt, ReturnAt DEF Forget, SaveState, Continue, Fault, CoreFaultFree
<1>2. pc[a] = at /\ at \notin Waiting
  BY DEF Forget, Gone, Waiting
<1>3. Cores' = {}
  BY <1>1, <1>2 DEF CoreAt, CallerCore, Cores
<1> QED
  BY <1>1, <1>3 DEF CoreAt, CallerCore, RecordReachesItsCore, NoRun, NoPid

\* LoadState: a copy of the record, which is empty where there is no file, or the
\* error return.
LEMMA LoadCore ==
  ASSUME TypeOK, NEW a \in Actors, CoreAt(a), UNCHANGED <<running, proc>>,
         NEW m \in Migrating, NEW l, LoadState(a, m, l),
         pc[a] \notin Waiting, versioned => l \notin Waiting \cup Unrecorded \cup Gone
  PROVE  CoreAt(a)'
<1>1. CASE Return(a)
  BY <1>1, SameMild, MildReturn
<1>2. CASE loc' = [loc EXCEPT ![a].run = running] /\ Goto(a, IF versioned THEN l ELSE m)
  <2>1. loc'[a].run = running
    BY <1>2 DEF TypeOK, Locals
  <2>2. CASE versioned
    BY <1>2, <2>1, <2>2, SameMild, MildHold
  <2>3. CASE ~versioned
    <3>1. Goto(a, m) /\ running = NoRun
      BY <1>2, <2>3 DEF TypeOK
    <3>2. m \notin Waiting \cup Gone
      BY DEF Migrating, Waiting, Gone
    <3> QED
      BY <2>1, <3>1, <3>2, SameMild, MildHold
  <2> QED
    BY <2>2, <2>3
<1> QED
  BY <1>1, <1>2 DEF LoadState

\* What a migration overwrites is no record: no command runs beside this one.
LEMMA MigrateCore ==
  ASSUME TypeOK, NEW a \in Actors, CoreAt(a), NEW at \in Migrating, NEW l, Migrate(a, at, l),
         l \notin Waiting \cup Gone, l \in Copied => at \in Copied /\ l # "idle"
  PROVE  CoreAt(a)'
<1>1. running = NoRun /\ running' = running /\ UNCHANGED proc /\ pc[a] \notin Waiting
  BY DEF Migrate, CoreAt, CallerCore, Unrecorded, Migrating, Waiting
<1>2. CASE Return(a)
  BY <1>1, <1>2, SameMild, MildReturn
<1>3. CASE Goto(a, l) /\ UNCHANGED loc
  <2>1. l \in Copied => loc'[a].run = running
    BY <1>3 DEF Migrate, CoreAt, CallerCore
  <2>2. pc'[a] = l
    BY <1>3, GotoAt
  <2> QED
    BY <1>1, <2>1, <2>2, SameMild, MildCore
<1> QED
  BY <1>2, <1>3 DEF Migrate, Continue

LEMMA ClearCore ==
  ASSUME TypeOK, NEW a \in Actors, CoreAt(a), NEW at \in Copied, NEW l,
         l \notin Waiting \cup Unrecorded,
         l \in Gone => running.pid \notin Cores, ClearRecorded(a, at, l)
  PROVE  CoreAt(a)'
<1>1. pc[a] = at /\ Goto(a, l) /\ UNCHANGED <<running, proc, loc>>
  BY DEF ClearRecorded
<1>2. loc'[a].run = running /\ pc[a] \notin Waiting /\ Cores' = Cores
  BY <1>1 DEF CoreAt, CallerCore, Copied, Holding, Waiting, Cores
<1> QED
  BY <1>1, <1>2, SameMild, MildHold

LEMMA CallCore ==
  ASSUME TypeOK, NEW a \in Actors, CoreAt(a), Call(a)
  PROVE  CoreAt(a)'
<1>1. PICK l \in {"up_load", "down_load", "sp_intent", "rc_load", "rp_clear", "st_load"} :
        Goto(a, l)
  BY DEF Call, BeginUp, BeginDown, BeginSysproxy, BeginReconcile, BeginRepair, BeginStatus, Begin
<1>2. pc[a] = "idle" /\ UNCHANGED <<running, proc>>
  BY DEF Call, BeginUp, BeginDown, BeginSysproxy, BeginReconcile, BeginRepair, BeginStatus, Begin
<1> QED
  BY <1>1, <1>2, SameMild, MildGoto DEF Waiting, Copied, Holding, Unrecorded, Migrating, Gone

\* up stops the recorded core before it forgets it, and waits for the new one
\* until it is recorded, dead or killed (lib.rs:152-293).
LEMMA UpCore ==
  ASSUME TypeOK, CoreFaultFree, NEW a \in Actors, CoreAt(a), Up(a)
  PROVE  CoreAt(a)'
<1>1. CASE UpLoad(a)
  <2>1. pc[a] = "up_load" /\ UNCHANGED <<running, proc>>
    BY <1>1 DEF UpLoad
  <2>2. CASE running = NoRun
    <3>1. Return(a) \/ Goto(a, "up_prepare") \/ Goto(a, "up_migrate")
      BY <1>1, <2>2 DEF UpLoad, LoadState
    <3> QED
      BY <2>1, <2>2, <3>1, SameMild, MildReturn, MildGoto DEF Waiting, Copied, Holding, Gone
  <2>3. CASE running # NoRun
    BY <1>1, <2>1, <2>3, LoadCore DEF UpLoad, Waiting, Unrecorded, Migrating, Gone
  <2> QED
    BY <2>2, <2>3
<1>2. CASE UpClear(a)
  BY <1>2, ClearCore DEF UpClear, Copied, Holding, Waiting, Unrecorded, Migrating, Gone
<1>3. CASE UpStop(a)
  <2>1. /\ pc[a] = "up_stop" /\ UNCHANGED running /\ loc[a].run = running
        /\ pc[a] \notin Waiting
    BY <1>3 DEF UpStop, CoreAt, CallerCore, Copied, Holding, Waiting
  <2>2. CASE PidMatches(running.pid, running.started)
    <3>1. Kill(running.pid) /\ Goto(a, "up_forget")
      BY <1>3, <2>1, <2>2 DEF UpStop, Fault, CoreFaultFree
    <3>2. running.pid \in Pids
      BY <2>2 DEF PidMatches, Alive
    <3>3. Mild /\ running.pid \notin Cores'
      BY <3>1, <3>2, KillMild
    <3> QED
      BY <2>1, <3>1, <3>3, MildGoto DEF Waiting, Copied, Holding, Unrecorded, Migrating
  <2>3. CASE ~PidMatches(running.pid, running.started)
    <3>1. Goto(a, "up_forget") /\ UNCHANGED proc
      BY <1>3, <2>1, <2>3 DEF UpStop
    <3>2. running.pid \notin Cores'
      BY <2>3, <3>1 DEF CoreAt, RecordReachesItsCore, Cores
    <3> QED
      BY <2>1, <3>1, <3>2, SameMild, MildGoto DEF Waiting, Copied, Holding, Unrecorded, Migrating
  <2> QED
    BY <2>2, <2>3
<1>4. CASE UpForget(a)
  BY <1>4, ForgetCore DEF UpForget, Gone, Copied, Holding, Waiting
<1>5. CASE UpPrepare(a)
  <2>1. /\ pc[a] = "up_prepare" /\ UNCHANGED <<running, proc>> /\ running = NoRun
    BY <1>5 DEF UpPrepare, CoreAt, CallerCore, Unrecorded
  <2>2. Return(a) \/ Goto(a, "up_spawn")
    BY <1>5 DEF UpPrepare
  <2> QED
    BY <2>1, <2>2, SameMild, MildReturn, MildGoto DEF Waiting, Copied, Holding, Gone
<1>6. CASE UpSpawn(a)
  <2>1. pc[a] = "up_spawn" /\ UNCHANGED running /\ running = NoRun
    BY <1>6 DEF UpSpawn, CoreAt, CallerCore, Unrecorded
  <2>2. CASE Return(a) /\ UNCHANGED proc
    BY <2>1, <2>2, SameMild, MildReturn DEF Waiting
  <2>3. ASSUME NEW p \in Pids,
               proc' = [proc EXCEPT ![p] = [kind |-> "core", born |-> @.born + 1,
                                            port |-> loc[a].port, ready |-> FALSE]],
               loc' = [loc EXCEPT ![a].pid = p], Goto(a, "up_poll")
        PROVE  CoreAt(a)'
    <3>1. Cores = {}
      BY <2>1, NoRunNoCore DEF CoreAt, Waiting, Cores
    <3>2. Cores' \subseteq {p} /\ proc'[p].port = loc[a].port
      BY <2>3, <3>1 DEF TypeOK, Cores
    <3>3. pc'[a] = "up_poll" /\ loc'[a].pid = p /\ loc'[a].port = loc[a].port
      BY <2>3, GotoAt DEF TypeOK, Locals
    <3>4. running'.pid \notin Cores'
      BY <2>1, NoRunNoCore DEF Cores
    <3> QED
      BY <2>1, <3>2, <3>3, <3>4
      DEF CoreAt, CallerCore, RecordReachesItsCore, Waiting, Copied, Holding, Gone
  <2> QED
    BY <1>6, <2>2, <2>3 DEF UpSpawn
<1>7. CASE UpPoll(a) \/ UpRetry(a) \/ UpProxy(a)
  <2>1. /\ pc[a] \in Waiting /\ pc[a] \in Unrecorded /\ UNCHANGED <<running, proc>>
    BY <1>7 DEF UpPoll, UpRetry, UpProxy, Waiting, Unrecorded, Migrating
  <2>2. pc'[a] \in Waiting
    BY <1>7, GotoAt DEF UpPoll, UpRetry, UpProxy, Waiting
  <2>3. loc'[a].pid = loc[a].pid /\ loc'[a].port = loc[a].port
    BY <1>7 DEF UpPoll, UpRetry, UpProxy, TypeOK, Locals
  <2>4. running = NoRun
    BY <2>1 DEF CoreAt, CallerCore
  <2> QED
    BY <2>1, <2>2, <2>3, <2>4, SameMild, MildCore DEF Waiting, Copied, Holding, Gone
<1>8. CASE UpDied(a)
  <2>1. loc[a].pid \notin Cores'
    BY <1>8 DEF UpDied, PidMatches, Alive, Cores
  <2> QED
    BY <1>8, <2>1, SameMild, MildReturn DEF UpDied
<1>9. CASE UpTimeout(a)
  <2>1. loc[a].pid \in Pids /\ Kill(loc[a].pid)
    BY <1>9 DEF UpTimeout, PidMatches, Alive, Fault, CoreFaultFree
  <2> QED
    BY <1>9, <2>1, KillMild, MildReturn DEF UpTimeout
<1>10. CASE UpSave(a)
  <2>1. /\ running' = [pid |-> loc[a].pid, started |-> StartedAt(loc[a].pid),
                       port |-> loc[a].port, sysproxy |-> loc[a].on]
        /\ pc'[a] = "idle" /\ UNCHANGED proc
    BY <1>10, ReturnAt DEF UpSave, SaveState, Continue, Fault, CoreFaultFree
  <2>2. pc[a] = "up_save" /\ running = NoRun
    BY <1>10 DEF UpSave, CoreAt, CallerCore, Unrecorded
  <2>3. \A p \in Cores' : p = running'.pid
    BY <2>1, <2>2, NoRunNoCore DEF CoreAt, Cores
  <2>4. RecordReachesItsCore'
    <3>1. \A q \in Pids : StartedAt(q)' = StartedAt(q)
      BY <2>1 DEF StartedAt, Alive
    <3>2. loc[a].pid \in Cores' => proc'[loc[a].pid].port = loc[a].port
      BY <2>1, <2>2 DEF CoreAt, CallerCore, Waiting, Cores
    <3> QED
      BY <2>1, <3>1, <3>2 DEF RecordReachesItsCore, PidMatches, Alive, Cores
  <2> QED
    BY <2>1, <2>3, <2>4 DEF CoreAt, CallerCore, Waiting, Copied, Holding, Unrecorded, Migrating, Gone
<1>11. CASE UpMigrate(a)
  BY <1>11, MigrateCore DEF UpMigrate, Migrating, Waiting, Gone, Copied, Holding
<1> QED
  BY <1>1, <1>2, <1>3, <1>4, <1>5, <1>6, <1>7, <1>8, <1>9, <1>10, <1>11 DEF Up

\* down kills before it forgets (lib.rs:295-312).
LEMMA DownCore ==
  ASSUME TypeOK, CoreFaultFree, NEW a \in Actors, CoreAt(a), Down(a)
  PROVE  CoreAt(a)'
<1>1. CASE DownLoad(a)
  <2>1. pc[a] = "down_load" /\ UNCHANGED <<running, proc>>
    BY <1>1 DEF DownLoad
  <2> QED
    BY <1>1, <2>1, SameMild, MildReturn, LoadCore
    DEF DownLoad, Waiting, Unrecorded, Migrating, Gone
<1>2. CASE DownClear(a)
  BY <1>2, ClearCore DEF DownClear, Copied, Holding, Waiting, Unrecorded, Migrating, Gone
<1>3. CASE DownKill(a)
  <2>1. pc[a] = "down_kill" /\ UNCHANGED running /\ loc[a].run = running
    BY <1>3 DEF DownKill, CoreAt, CallerCore, Copied, Holding
  <2>2. CASE Alive(running.pid)
    <3>1. running.pid \in Pids /\ Kill(running.pid) /\ Goto(a, "down_save")
      BY <1>3, <2>1, <2>2 DEF DownKill, Fault, CoreFaultFree, Alive
    <3> QED
      BY <2>1, <3>1, KillMild, MildGoto DEF Waiting, Copied, Holding, Unrecorded, Migrating
  <2>3. CASE ~Alive(running.pid)
    <3>1. Goto(a, "down_save") /\ UNCHANGED proc /\ running.pid \notin Cores'
      BY <1>3, <2>1, <2>3 DEF DownKill, Alive, Cores
    <3> QED
      BY <2>1, <3>1, SameMild, MildGoto DEF Waiting, Copied, Holding, Unrecorded, Migrating
  <2> QED
    BY <2>2, <2>3
<1>4. CASE DownSave(a)
  BY <1>4, ForgetCore DEF DownSave, Gone, Copied, Holding, Waiting
<1>5. CASE DownMigrate(a)
  BY <1>5, MigrateCore DEF DownMigrate, Migrating, Waiting, Gone, Copied, Holding
<1> QED
  BY <1>1, <1>2, <1>3, <1>4, <1>5 DEF Down

\* sysproxy rewrites the record it holds, which still reaches its core.
LEMMA SysproxyCore ==
  ASSUME TypeOK, CoreFaultFree, NEW a \in Actors, CoreAt(a), Sysproxy(a)
  PROVE  CoreAt(a)'
<1>1. CASE SpIntent(a)
  <2>1. pc[a] = "sp_intent" /\ UNCHANGED <<running, proc>>
    BY <1>1 DEF SpIntent
  <2> QED
    BY <1>1, <2>1, SameMild, MildReturn, MildGoto
    DEF SpIntent, Waiting, Copied, Holding, Unrecorded, Migrating, Gone
<1>2. CASE SpLoad(a)
  <2>1. pc[a] = "sp_load" /\ UNCHANGED <<running, proc>>
    BY <1>2 DEF SpLoad
  <2> QED
    BY <1>2, <2>1, SameMild, MildReturn, LoadCore
    DEF SpLoad, Waiting, Unrecorded, Migrating, Gone
<1>3. CASE SpApply(a)
  <2>1. pc[a] = "sp_apply" /\ UNCHANGED <<running, proc>> /\ loc[a].run = running
    BY <1>3 DEF SpApply, CoreAt, CallerCore, Copied, Holding
  <2> QED
    BY <1>3, <2>1, SameMild, MildReturn, MildHold DEF SpApply, Waiting, Unrecorded, Migrating, Gone
<1>4. CASE SpSave(a)
  <2>1. /\ pc[a] = "sp_save" /\ pc'[a] = "idle" /\ UNCHANGED proc
        /\ running' = [running EXCEPT !.sysproxy = loc[a].on]
    BY <1>4, ReturnAt DEF SpSave, SaveState, Continue, Fault, CoreFaultFree, CoreAt, CallerCore, Copied, Holding
  <2>2. /\ running'.pid = running.pid /\ running'.started = running.started
        /\ running'.port = running.port
    BY <2>1 DEF TypeOK, Runs
  <2>3. \A p \in Cores' : p = running'.pid
    BY <2>1, <2>2 DEF CoreAt, Waiting, Cores
  <2>4. RecordReachesItsCore'
    <3>1. \A q \in Pids : StartedAt(q)' = StartedAt(q)
      BY <2>1 DEF StartedAt, Alive
    <3> QED
      BY <2>1, <2>2, <3>1 DEF CoreAt, RecordReachesItsCore, PidMatches, Alive, Cores
  <2> QED
    BY <2>1, <2>3, <2>4 DEF CoreAt, CallerCore, Waiting, Copied, Holding, Unrecorded, Migrating,
      Gone
<1>5. CASE SpMigrate(a)
  BY <1>5, MigrateCore DEF SpMigrate, Migrating, Waiting, Gone, Copied, Holding
<1> QED
  BY <1>1, <1>2, <1>3, <1>4, <1>5 DEF Sysproxy

\* reconcile forgets only a record that reaches nothing (lib.rs:95-112).
LEMMA ReconcileCore ==
  ASSUME TypeOK, CoreFaultFree, NEW a \in Actors, CoreAt(a), Reconcile(a)
  PROVE  CoreAt(a)'
<1>1. CASE RcLoad(a)
  <2>1. pc[a] = "rc_load" /\ UNCHANGED <<running, proc>>
    BY <1>1 DEF RcLoad
  <2>2. CASE Return(a)
    BY <2>1, <2>2, SameMild, MildReturn DEF Waiting
  <2>3. CASE ~versioned
    BY <1>1, <2>1, <2>3, LoadCore DEF RcLoad, Waiting, Migrating
  <2>4. CASE versioned /\ ~Return(a)
    <3>1. /\ ~PidMatches(running.pid, running.started)
          /\ loc' = [loc EXCEPT ![a].run = running] /\ Goto(a, "rc_clear")
      BY <1>1, <2>4 DEF RcLoad, LoadState
    <3>2. running.pid \notin Cores' /\ loc'[a].run = running
      BY <2>1, <3>1 DEF CoreAt, RecordReachesItsCore, Cores, TypeOK, Locals
    <3> QED
      BY <2>1, <3>1, <3>2, SameMild, MildHold DEF Waiting, Unrecorded, Migrating
  <2> QED
    BY <2>2, <2>3, <2>4
<1>2. CASE RcClear(a)
  <2>1. running.pid \notin Cores
    BY <1>2 DEF RcClear, ClearRecorded, CoreAt, CallerCore, Gone
  <2> QED
    BY <1>2, <2>1, ClearCore DEF RcClear, Copied, Holding, Waiting, Unrecorded, Migrating
<1>3. CASE RcSave(a)
  BY <1>3, ForgetCore DEF RcSave, Gone, Copied, Holding, Waiting
<1>4. CASE RcMigrate(a)
  BY <1>4, MigrateCore DEF RcMigrate, Migrating, Waiting, Gone, Copied, Holding
<1> QED
  BY <1>1, <1>2, <1>3, <1>4 DEF Reconcile

\* repair kills what is recorded, forgets it, then sweeps (lib.rs:114-149).
LEMMA RepairCore ==
  ASSUME TypeOK, CoreFaultFree, NEW a \in Actors, CoreAt(a), Repair(a)
  PROVE  CoreAt(a)'
<1>1. CASE RpClear(a)
  <2>1. pc[a] = "rp_clear" /\ UNCHANGED <<running, proc>> /\ Goto(a, "rp_load")
    BY <1>1 DEF RpClear
  <2> QED
    BY <2>1, SameMild, MildGoto DEF Waiting, Copied, Holding, Unrecorded, Migrating, Gone
<1>2. CASE RpLoad(a)
  <2>1. pc[a] = "rp_load" /\ UNCHANGED <<running, proc>>
    BY <1>2 DEF RpLoad
  <2> QED
    BY <1>2, <2>1, LoadCore DEF RpLoad, Waiting, Unrecorded, Migrating, Gone
<1>3. CASE RpKill(a)
  <2>1. /\ pc[a] = "rp_kill" /\ UNCHANGED running /\ loc[a].run = running
        /\ Goto(a, "rp_save")
    BY <1>3 DEF RpKill, CoreAt, CallerCore, Copied
  <2>2. Mild /\ running.pid \notin Cores'
    <3>1. CASE Alive(running.pid)
      <4>1. running.pid \in Pids /\ Kill(running.pid)
        BY <1>3, <2>1, <3>1 DEF RpKill, Fault, CoreFaultFree, Alive
      <4> QED
        BY <4>1, KillMild
    <3>2. CASE ~Alive(running.pid)
      <4>1. UNCHANGED proc
        BY <1>3, <2>1, <3>2 DEF RpKill
      <4> QED
        BY <2>1, <3>2, <4>1, SameMild DEF Alive, Cores
    <3> QED
      BY <3>1, <3>2
  <2> QED
    BY <2>1, <2>2, MildGoto DEF Waiting, Copied, Holding, Unrecorded, Migrating
<1>4. CASE RpSave(a)
  BY <1>4, ForgetCore DEF RpSave, Gone, Copied, Holding, Waiting
<1>5. CASE RpSweep(a)
  <2>1. Mild
    BY <1>5 DEF RpSweep, Mild, Dead
  <2> QED
    BY <1>5, <2>1, MildReturn DEF RpSweep, Waiting
<1>6. CASE RpMigrate(a)
  BY <1>6, MigrateCore DEF RpMigrate, Migrating, Waiting, Gone, Copied, Holding
<1> QED
  BY <1>1, <1>2, <1>3, <1>4, <1>5, <1>6 DEF Repair

LEMMA StatusCore ==
  ASSUME TypeOK, NEW a \in Actors, CoreAt(a), Status(a)
  PROVE  CoreAt(a)'
<1>1. CASE StLoad(a)
  <2>1. pc[a] = "st_load" /\ UNCHANGED <<running, proc>>
    BY <1>1 DEF StLoad
  <2> QED
    BY <1>1, <2>1, SameMild, MildReturn, LoadCore DEF StLoad, Waiting, Migrating
<1>2. CASE StMigrate(a)
  BY <1>2, MigrateCore DEF StMigrate, Migrating, Waiting, Gone, Copied, Holding
<1> QED
  BY <1>1, <1>2 DEF Status

\* Nothing but `up` starts a sing-box; callers die, but not while they wait.
LEMMA EnvironmentCore ==
  ASSUME TypeOK, CoreFaultFree, SoleCaller, CoreInv, Environment
  PROVE  CoreInv'
<1>1. ASSUME Mild, UNCHANGED <<running, pc, loc>>
      PROVE  CoreInv'
  <2>1. Cores' \subseteq Cores /\ RecordReachesItsCore'
    BY <1>1, MildCores, MildReaches DEF CoreInv
  <2>2. NoOrphanCore'
    BY <1>1, <2>1 DEF CoreInv, NoOrphanCore
  <2>3. ASSUME NEW a \in Actors PROVE CallerCore(a)'
    BY <1>1, <2>1 DEF CoreInv, CallerCore, Mild, Cores
  <2> QED
    BY <2>1, <2>2, <2>3 DEF CoreInv
<1>2. ASSUME NEW a \in Actors, CallerKilled(a)
      PROVE  CoreInv'
  <2>1. pc[a] \notin Waiting
    BY <1>2 DEF CallerKilled, CoreFaultFree, Waiting
  <2> QED
    BY <1>2, <2>1, SoleCore, SameMild, MildReturn DEF CallerKilled
<1>3. ASSUME NEW p \in Pids, CoreBinds(p) PROVE CoreInv'
  <2>1. proc' = [proc EXCEPT ![p].ready = TRUE] /\ UNCHANGED <<running, pc, loc>>
    BY <1>3 DEF CoreBinds
  <2>2. Mild
    BY <1>3, <2>1 DEF CoreBinds, Mild, TypeOK, Processes
  <2> QED
    BY <1>1, <2>1, <2>2
<1>4. ASSUME NEW p \in Pids, ProcessExits(p) PROVE CoreInv'
  BY <1>1, <1>4, KillMild DEF ProcessExits
<1>5. ASSUME NEW p \in Pids, ProgramStarts(p) PROVE CoreInv'
  BY <1>1, <1>5 DEF ProgramStarts, Mild, TypeOK
<1>6. CASE FaultsEnd
  BY <1>1, <1>6, SameMild DEF FaultsEnd
<1> QED
  BY <1>2, <1>3, <1>4, <1>5, <1>6 DEF Environment

LEMMA NextCore ==
  ASSUME CoreFaultFree, SoleCaller
  PROVE  TypeOK /\ CoreInv /\ [Next]_vars => CoreInv'
<1> SUFFICES ASSUME TypeOK, CoreInv, [Next]_vars PROVE CoreInv'
  OBVIOUS
<1>1. ASSUME NEW a \in Actors, Call(a) \/ Step(a)
      PROVE  CoreInv'
  <2>1. CoreAt(a)
    BY SoleCore
  <2>2. CoreAt(a)'
    BY <1>1, <2>1, CallCore, UpCore, DownCore, SysproxyCore, ReconcileCore, RepairCore,
       StatusCore DEF Step
  <2> QED
    BY <2>2, SoleCore
<1>2. CASE UNCHANGED vars
  BY <1>2 DEF vars, CoreInv, NoOrphanCore, RecordReachesItsCore, CallerCore, Cores, PidMatches,
    StartedAt, Alive
<1> QED
  BY <1>1, <1>2, EnvironmentCore DEF Next

LEMMA InitCore == Init => CoreInv
<1> SUFFICES ASSUME Init PROVE CoreInv
  OBVIOUS
<1>1. Cores = {}
  BY DEF Init, Cores, Dead
<1>2. \A a \in Actors : pc[a] = "idle"
  BY DEF Init
<1> QED
  BY <1>1, <1>2 DEF CoreInv, NoOrphanCore, RecordReachesItsCore, CallerCore, Waiting, Copied,
    Holding, Unrecorded, Migrating, Gone

LEMMA CoreAlways ==
  ASSUME CoreFaultFree, SoleCaller
  PROVE  Spec => []CoreInv
<1>1. TypeOK /\ CoreInv /\ [Next]_vars => CoreInv'
  BY NextCore
<1> QED
  BY <1>1, InitCore, TypeCorrect, PTL DEF Spec

\* One command at a time, no kill and no save failing: a live sing-box is the
\* recorded one or the one an `up` waits for (lib.rs:114-312).
THEOREM NoCoreIsOrphaned ==
  ASSUME CoreFaultFree, SoleCaller
  PROVE  Spec => []NoOrphanCore
<1>1. CoreInv => NoOrphanCore
  BY DEF CoreInv
<1> QED
  BY <1>1, CoreAlways, PTL

\* The record, if its pid is a sing-box, names that very process and its port.
THEOREM TheRecordReachesItsCore ==
  ASSUME CoreFaultFree, SoleCaller
  PROVE  Spec => []RecordReachesItsCore
<1>1. CoreInv => RecordReachesItsCore
  BY DEF CoreInv
<1> QED
  BY <1>1, CoreAlways, PTL

\* When the wait of `up` ends, no sing-box but its own can have answered: every
\* other one was stopped, or given up on and killed (lib.rs:179-253).
THEOREM NoStaleCoreEverAnswers ==
  ASSUME CoreFaultFree, SoleCaller
  PROVE  Spec => NoStaleCoreAnswers
<1>1. ASSUME CoreInv, NEW a \in Actors, pc[a] = "up_poll", NEW p \in Cores
      PROVE  p = loc[a].pid
  <2>1. CoreAt(a)
    BY <1>1, SoleCore
  <2>2. running = NoRun
    BY <1>1, <2>1 DEF CoreAt, CallerCore, Unrecorded
  <2> QED
    BY <1>1, <2>1, <2>2, NoRunNoCore DEF CoreAt
<1>2. CoreInv =>
        [\A a \in Actors : pc[a] = "up_poll" /\ pc'[a] = "up_proxy" =>
           \A p \in Cores : proc[p].ready /\ proc[p].port = loc[a].port => p = loc[a].pid]_vars
  BY <1>1
<1> QED
  BY <1>2, CoreAlways, PTL DEF NoStaleCoreAnswers

-----------------------------------------------------------------------------
(* The proxy is what the record says *)

\* Where the OS proxy is ahead of the record.
Ahead == Window \cup {"up_stop", "up_forget", "down_kill", "down_save", "rc_save",
                      "rp_load", "rp_kill", "rp_save"}

\* No failure and no kill ends a command there.
ExactFaultFree == /\ ProxyFaultFree /\ "load" \notin Faults /\ "kill" \notin Faults
                  /\ \A l \in Ahead : l \notin CrashPoints

Exact == systemProxy = IF running.sysproxy THEN running.port ELSE NoPort

ExactInv == (\A a \in Actors : pc[a] \notin Ahead) => Exact

ExactAt(a) == pc[a] \notin Ahead => Exact

LEMMA SoleExact ==
  ASSUME SoleCaller, NEW a \in Actors
  PROVE  (ExactInv => ExactAt(a)) /\ (ExactAt(a)' => ExactInv')
  BY DEF SoleCaller, ExactInv, ExactAt

LEMMA KeepExact == Exact /\ UNCHANGED <<running, systemProxy>> => Exact'
  BY DEF Exact

\* A forgotten record with the proxy off.
LEMMA OffExact == running' = NoRun /\ systemProxy' = NoPort => Exact'
  BY DEF Exact, NoRun

\* A step that touches neither, from a label where they agree.
LEMMA IdleExact ==
  ASSUME NEW a \in Actors, ExactAt(a), pc[a] \notin Ahead, UNCHANGED <<running, systemProxy>>
  PROVE  ExactAt(a)'
  BY KeepExact DEF ExactAt

LEMMA ForgetExact ==
  ASSUME TypeOK, ProxyFaultFree, NEW a \in Actors, LocalInv(a), NEW at \in ProxyDown, NEW l,
         Forget(a, at, l)
  PROVE  ExactAt(a)'
  BY ForgetInv, OffExact DEF ExactAt

LEMMA MigrateExact ==
  ASSUME NEW a \in Actors, LocalInv(a), NEW at \in Migrating, NEW l, Migrate(a, at, l)
  PROVE  ExactAt(a)'
  BY OffExact DEF ExactAt, Migrate, LocalInv, CallerInv, Unrecorded, ProxyDown

LEMMA CallExact ==
  ASSUME NEW a \in Actors, ExactAt(a), Call(a)
  PROVE  ExactAt(a)'
<1>1. pc[a] = "idle" /\ UNCHANGED <<running, systemProxy>>
  BY DEF Call, BeginUp, BeginDown, BeginSysproxy, BeginReconcile, BeginRepair, BeginStatus, Begin
<1> QED
  BY <1>1, IdleExact DEF Ahead, Window

LEMMA UpExact ==
  ASSUME TypeOK, ExactFaultFree, NEW a \in Actors, LocalInv(a), ExactAt(a), Up(a)
  PROVE  ExactAt(a)'
<1>1. CASE UpLoad(a) \/ UpPrepare(a) \/ UpSpawn(a) \/ UpPoll(a) \/ UpDied(a) \/ UpTimeout(a)
           \/ UpRetry(a)
  <2>1. pc[a] \notin Ahead
    BY <1>1 DEF UpLoad, UpPrepare, UpSpawn, UpPoll, UpDied, UpTimeout, UpRetry, Ahead, Window
  <2>2. UNCHANGED <<running, systemProxy>>
    BY <1>1 DEF UpLoad, UpPrepare, UpSpawn, UpPoll, UpDied, UpTimeout, UpRetry
  <2> QED
    BY <2>1, <2>2, IdleExact
<1>2. CASE UpClear(a)
  BY <1>2, GotoAt DEF UpClear, ClearRecorded, ExactAt, Ahead
<1>3. CASE UpStop(a)
  <2>1. Goto(a, "up_forget")
    BY <1>3 DEF UpStop, Fault, ExactFaultFree
  <2> QED
    BY <2>1, GotoAt DEF ExactAt, Ahead
<1>4. CASE UpForget(a)
  BY <1>4, ForgetExact DEF UpForget, ProxyDown, ExactFaultFree
<1>5. CASE UpProxy(a)
  BY <1>5, GotoAt DEF UpProxy, ExactAt, Ahead, Window
<1>6. CASE UpSave(a)
  <2>1. /\ systemProxy' = IF loc[a].on THEN loc[a].port ELSE NoPort
        /\ running' = [pid |-> loc[a].pid, started |-> StartedAt(loc[a].pid),
                       port |-> loc[a].port, sysproxy |-> loc[a].on]
    BY <1>6 DEF UpSave, SaveState, Fault, ProxyFaultFree, ExactFaultFree, LocalInv, CallerInv
  <2> QED
    BY <2>1 DEF ExactAt, Exact
<1>7. CASE UpMigrate(a)
  BY <1>7, MigrateExact DEF UpMigrate, Migrating
<1> QED
  BY <1>1, <1>2, <1>3, <1>4, <1>5, <1>6, <1>7 DEF Up

LEMMA DownExact ==
  ASSUME TypeOK, ExactFaultFree, NEW a \in Actors, LocalInv(a), ExactAt(a), Down(a)
  PROVE  ExactAt(a)'
<1>1. CASE DownLoad(a)
  <2>1. pc[a] = "down_load" /\ UNCHANGED <<running, systemProxy>>
    BY <1>1 DEF DownLoad
  <2> QED
    BY <2>1, IdleExact DEF Ahead, Window
<1>2. CASE DownClear(a)
  BY <1>2, GotoAt DEF DownClear, ClearRecorded, ExactAt, Ahead
<1>3. CASE DownKill(a)
  <2>1. Goto(a, "down_save")
    BY <1>3 DEF DownKill, Fault, ExactFaultFree
  <2> QED
    BY <2>1, GotoAt DEF ExactAt, Ahead
<1>4. CASE DownSave(a)
  BY <1>4, ForgetExact DEF DownSave, ProxyDown, ExactFaultFree
<1>5. CASE DownMigrate(a)
  BY <1>5, MigrateExact DEF DownMigrate, Migrating
<1> QED
  BY <1>1, <1>2, <1>3, <1>4, <1>5 DEF Down

LEMMA SysproxyExact ==
  ASSUME TypeOK, ExactFaultFree, NEW a \in Actors, LocalInv(a), ExactAt(a), Sysproxy(a)
  PROVE  ExactAt(a)'
<1>1. CASE SpIntent(a) \/ SpLoad(a)
  <2>1. pc[a] \in {"sp_intent", "sp_load"} /\ UNCHANGED <<running, systemProxy>>
    BY <1>1 DEF SpIntent, SpLoad
  <2> QED
    BY <2>1, IdleExact DEF Ahead, Window
<1>2. CASE SpApply(a)
  <2>1. CASE Goto(a, "sp_save")
    BY <2>1, GotoAt DEF ExactAt, Ahead, Window
  <2>2. CASE UNCHANGED systemProxy
    BY <1>2, <2>2, IdleExact DEF SpApply, Ahead, Window
  <2> QED
    BY <1>2, <2>1, <2>2 DEF SpApply
<1>3. CASE SpSave(a)
  <2>1. /\ systemProxy' = IF loc[a].on THEN loc[a].run.port ELSE NoPort
        /\ running' = [loc[a].run EXCEPT !.sysproxy = loc[a].on]
    BY <1>3 DEF SpSave, SaveState, Fault, ProxyFaultFree, ExactFaultFree, LocalInv, CallerInv
  <2>2. running'.sysproxy = loc[a].on /\ running'.port = loc[a].run.port
    BY <2>1 DEF TypeOK, Locals, Runs
  <2> QED
    BY <2>1, <2>2 DEF ExactAt, Exact
<1>4. CASE SpMigrate(a)
  BY <1>4, MigrateExact DEF SpMigrate, Migrating
<1> QED
  BY <1>1, <1>2, <1>3, <1>4 DEF Sysproxy

LEMMA ReconcileExact ==
  ASSUME TypeOK, ExactFaultFree, NEW a \in Actors, LocalInv(a), ExactAt(a), Reconcile(a)
  PROVE  ExactAt(a)'
<1>1. CASE RcLoad(a)
  <2>1. pc[a] = "rc_load" /\ UNCHANGED <<running, systemProxy>>
    BY <1>1 DEF RcLoad
  <2> QED
    BY <2>1, IdleExact DEF Ahead, Window
<1>2. CASE RcClear(a)
  BY <1>2, GotoAt DEF RcClear, ClearRecorded, ExactAt, Ahead
<1>3. CASE RcSave(a)
  BY <1>3, ForgetExact DEF RcSave, ProxyDown, ExactFaultFree
<1>4. CASE RcMigrate(a)
  BY <1>4, MigrateExact DEF RcMigrate, Migrating
<1> QED
  BY <1>1, <1>2, <1>3, <1>4 DEF Reconcile

LEMMA RepairExact ==
  ASSUME TypeOK, ExactFaultFree, NEW a \in Actors, LocalInv(a), ExactAt(a), Repair(a)
  PROVE  ExactAt(a)'
<1>1. CASE RpClear(a) \/ RpKill(a)
  <2>1. pc'[a] \in {"rp_load", "rp_save"}
    BY <1>1, GotoAt DEF RpClear, RpKill
  <2> QED
    BY <2>1 DEF ExactAt, Ahead
<1>2. CASE RpLoad(a)
  <2>1. CASE versioned
    <3>1. Goto(a, "rp_kill")
      BY <1>2, <2>1 DEF RpLoad, LoadState, Fault, ExactFaultFree
    <3> QED
      BY <3>1, GotoAt DEF ExactAt, Ahead
  <2>2. CASE ~versioned
    BY <1>2, <2>2, OffExact DEF RpLoad, TypeOK, LocalInv, CallerInv, ProxyDown, ExactAt
  <2> QED
    BY <2>1, <2>2
<1>3. CASE RpSave(a)
  BY <1>3, ForgetExact DEF RpSave, ProxyDown, ExactFaultFree
<1>4. CASE RpSweep(a)
  <2>1. pc[a] = "rp_sweep" /\ UNCHANGED <<running, systemProxy>>
    BY <1>4 DEF RpSweep
  <2> QED
    BY <2>1, IdleExact DEF Ahead, Window
<1>5. CASE RpMigrate(a)
  BY <1>5, MigrateExact DEF RpMigrate, Migrating
<1> QED
  BY <1>1, <1>2, <1>3, <1>4, <1>5 DEF Repair

LEMMA StatusExact ==
  ASSUME NEW a \in Actors, LocalInv(a), ExactAt(a), Status(a)
  PROVE  ExactAt(a)'
<1>1. CASE StLoad(a)
  <2>1. pc[a] = "st_load" /\ UNCHANGED <<running, systemProxy>>
    BY <1>1 DEF StLoad
  <2> QED
    BY <2>1, IdleExact DEF Ahead, Window
<1>2. CASE StMigrate(a)
  BY <1>2, MigrateExact DEF StMigrate, Migrating
<1> QED
  BY <1>1, <1>2 DEF Status

LEMMA NextExact ==
  ASSUME ExactFaultFree, SoleCaller
  PROVE  TypeOK /\ ProxyInv /\ ExactInv /\ [Next]_vars => ExactInv'
<1> SUFFICES ASSUME TypeOK, ProxyInv, ExactInv, [Next]_vars PROVE ExactInv'
  OBVIOUS
<1>1. ASSUME NEW a \in Actors, Call(a) \/ Step(a)
      PROVE  ExactInv'
  <2>1. LocalInv(a) /\ ExactAt(a)
    BY SoleInv, SoleExact
  <2>2. ExactAt(a)'
    BY <1>1, <2>1, CallExact, UpExact, DownExact, SysproxyExact, ReconcileExact, RepairExact,
      StatusExact DEF Step
  <2> QED
    BY <2>2, SoleExact
<1>2. ASSUME NEW a \in Actors, CallerKilled(a)
      PROVE  ExactInv'
  <2>1. pc[a] \notin Ahead /\ UNCHANGED <<running, systemProxy>>
    BY <1>2 DEF CallerKilled, ExactFaultFree
  <2> QED
    BY <2>1, SoleExact, IdleExact
<1>3. CASE UNCHANGED <<running, systemProxy, pc>>
  BY <1>3, KeepExact DEF ExactInv
<1> QED
  BY <1>1, <1>2, <1>3 DEF Next, Environment, CoreBinds, ProcessExits, ProgramStarts, FaultsEnd, vars

\* One command at a time, where no failure leaves one half done: between
\* commands the OS proxy is on iff the record says so, at the recorded port
\* (lib.rs:95-334).
THEOREM ProxyIsAsRecorded ==
  ASSUME ExactFaultFree, SoleCaller
  PROVE  Spec => []ProxyAsRecorded
<1>1. Init => ExactInv
  BY OffExact DEF Init, ExactInv, Exact, NoRun
<1>2. TypeOK /\ ProxyInv /\ ExactInv /\ [Next]_vars => ExactInv'
  BY NextExact
<1>3. ExactInv => ProxyAsRecorded
  BY DEF ExactInv, Exact, ProxyAsRecorded, Quiet, Ahead, Window
<1>4. Spec => []ProxyInv
  BY ProxyInvariant DEF ExactFaultFree
<1> QED
  BY <1>1, <1>2, <1>3, <1>4, TypeCorrect, PTL DEF Spec

\* One command at a time, no clear and no save failing: when reconcile returns,
\* a proxy that is on is the one the record accounts for (lib.rs:95-112).
THEOREM ReconcileIsHealing ==
  ASSUME ProxyFaultFree, SoleCaller
  PROVE  Spec => ReconcileHeals
<1>1. ASSUME TypeOK, ProxyInv, NEW a \in Actors,
             RcLoad(a) \/ RcMigrate(a) \/ RcSave(a), pc'[a] = "idle"
      PROVE  systemProxy' = NoPort \/ (running'.sysproxy /\ running'.port = systemProxy')
  <2>1. LocalInv(a)
    BY <1>1, SoleInv
  <2>2. LocalInv(a)'
    BY <1>1, <2>1, ReconcileInv DEF Reconcile
  <2> QED
    BY <1>1, <2>2 DEF LocalInv, Accounted, Window
<1>2. TypeOK /\ ProxyInv /\ [Next]_vars =>
        [\A a \in Actors :
           (RcLoad(a) \/ RcMigrate(a) \/ RcSave(a)) /\ pc'[a] = "idle" /\ ~faulty =>
             systemProxy' = NoPort \/ (running'.sysproxy /\ running'.port = systemProxy')]_vars
  BY <1>1
<1>3. Spec => []ProxyInv
  BY ProxyInvariant
<1> QED
  BY <1>2, <1>3, TypeCorrect, PTL DEF Spec, ReconcileHeals

-----------------------------------------------------------------------------
(* Each command is one step of Engine *)

\* What a step may do to processes: leave one, end one, start younger ones.
Ages ==
  \A p \in Pids :
    \/ /\ proc'[p].born = proc[p].born
       /\ proc'[p].kind = proc[p].kind \/ proc'[p].kind = "none"
    \/ proc'[p].born > proc[p].born

BornInv == \A p \in Pids : proc[p].kind # "none" => proc[p].born # NoTime

\* A recorded pid has a port; a recorded start time is one that the pid has had.
TimeInv ==
  running.pid \in Pids =>
    /\ running.port # NoPort
    /\ Timed => Windows /\ running.started <= proc[running.pid].born

\* What the caller has seen to: the port it was given, and for reconcile and
\* repair that the recorded process is gone or forgotten.
CallerEngine(a) ==
  /\ pc[a] \in {"up_spawn"} \cup Waiting => loc[a].port \in Ports
  /\ pc[a] \in {"rc_clear", "rc_save"} => ~(Live /\ Timed)
  /\ pc[a] = "rp_sweep" => running = NoRun

EngineInv == BornInv /\ TimeInv /\ \A a \in Actors : CallerEngine(a)

LEMMA SameAges == UNCHANGED proc => Ages
  BY DEF Ages

LEMMA KillAges ==
  ASSUME TypeOK, NEW p \in Pids, Kill(p)
  PROVE  Ages
  BY DEF TypeOK, Ages, Kill, Dead

LEMMA StartAges ==
  ASSUME TypeOK, NEW p \in Pids, NEW kind, NEW port, NEW ready,
         proc' = [proc EXCEPT ![p] = [kind |-> kind, born |-> @.born + 1,
                                      port |-> port, ready |-> ready]]
  PROVE  Ages
  BY DEF TypeOK, Processes, Ages

LEMMA NextAges ==
  ASSUME TypeOK, [Next]_vars
  PROVE  Ages
<1>1. ASSUME NEW a \in Actors, Up(a)
      PROVE  Ages
  <2>1. CASE UpStop(a)
    BY <2>1, SameAges, KillAges DEF UpStop, PidMatches, Alive
  <2>2. CASE UpSpawn(a)
    BY <2>2, SameAges, StartAges DEF UpSpawn
  <2>3. CASE UpTimeout(a)
    BY <2>3, SameAges, KillAges DEF UpTimeout, PidMatches, Alive
  <2>4. CASE UNCHANGED proc
    BY <2>4, SameAges
  <2>5. QED
    BY <1>1, <2>1, <2>2, <2>3, <2>4
    DEF Up, UpLoad, UpMigrate, Migrate, UpClear, ClearRecorded, UpForget, Forget, UpPrepare, UpPoll, UpDied,
        UpRetry, UpProxy, UpSave
<1>2. ASSUME NEW a \in Actors, Down(a)
      PROVE  Ages
  <2>1. CASE DownKill(a)
    BY <2>1, SameAges, KillAges DEF DownKill, Alive
  <2>2. QED
    BY <1>2, <2>1, SameAges
    DEF Down, DownLoad, DownMigrate, Migrate, DownClear, ClearRecorded, DownSave, Forget
<1>3. ASSUME NEW a \in Actors,
             Sysproxy(a) \/ Reconcile(a) \/ Status(a) \/ Call(a) \/ CallerKilled(a)
      PROVE  Ages
  BY <1>3, SameAges
  DEF Sysproxy, SpIntent, SpLoad, SpMigrate, SpApply, SpSave, Reconcile, RcLoad, RcMigrate,
      RcClear, ClearRecorded, RcSave, Forget, Migrate, Status, StLoad, StMigrate, Call, BeginUp,
      BeginDown, BeginSysproxy, BeginReconcile, BeginRepair, BeginStatus, Begin, CallerKilled
<1>4. ASSUME NEW a \in Actors, Repair(a)
      PROVE  Ages
  <2>1. CASE RpKill(a)
    BY <2>1, SameAges, KillAges DEF RpKill, Alive
  <2>2. CASE RpSweep(a)
    <3>1. CASE UNCHANGED proc
      BY <3>1, SameAges
    <3>2. CASE proc' = [p \in Pids |-> IF proc[p].kind = "core" THEN Dead(proc[p].born)
                                                               ELSE proc[p]]
      BY <3>2 DEF Ages, Dead
    <3>3. QED
      BY <2>2, <3>1, <3>2 DEF RpSweep
  <2>3. QED
    BY <1>4, <2>1, <2>2, SameAges
    DEF Repair, RpClear, RpLoad, RpMigrate, Migrate, RpSave, Forget
<1>5. ASSUME NEW p \in Pids, CoreBinds(p) \/ ProcessExits(p) \/ ProgramStarts(p)
      PROVE  Ages
  <2>1. CASE CoreBinds(p)
    BY <2>1 DEF CoreBinds, TypeOK, Processes, Ages
  <2>2. QED
    BY <1>5, <2>1, KillAges, StartAges DEF ProcessExits, ProgramStarts
<1>6. CASE UNCHANGED vars \/ FaultsEnd
  BY <1>6, SameAges DEF vars, FaultsEnd
<1>7. QED
  BY <1>1, <1>2, <1>3, <1>4, <1>5, <1>6 DEF Next, Step, Environment

LEMMA NextBorn ==
  ASSUME TypeOK, TypeOK', BornInv, Ages
  PROVE  BornInv'
  BY DEF TypeOK, Processes, BornInv, Ages, NoTime

\* What was recorded with its start time and is gone does not come back: a
\* process that has its pid later is younger.
LEMMA GoneForGood ==
  ASSUME TypeOK, TypeOK', BornInv', TimeInv, Ages, Timed, ~Live,
         UNCHANGED <<running.pid, running.started>>
  PROVE  ~Live'
<1>. DEFINE p == running.pid
<1>. SUFFICES ASSUME Live'
              PROVE  FALSE
  OBVIOUS
<1>1. p \in Pids /\ Alive(p)' /\ proc'[p].kind # "none"
  BY DEF Live, PidMatches, Alive
<1>2. Windows /\ running.started <= proc[p].born
  BY <1>1 DEF TimeInv
<1>3. running.started = proc'[p].born
  <2>1. StartedAt(p)' = proc'[p].born
    BY <1>1, <1>2 DEF StartedAt
  <2>2. proc'[p].born # NoTime /\ running.started # NoTime
    BY <1>1 DEF BornInv, Timed
  <2>3. QED
    BY <2>1, <2>2 DEF Live, PidMatches
<1>4. running.started \in Nat /\ proc[p].born \in Nat /\ proc'[p].born \in Nat
  BY <1>1 DEF TypeOK, Runs, Processes
<1>5. proc'[p].born = proc[p].born /\ proc[p].kind # "none"
  <2>1. \/ proc'[p].born = proc[p].born /\ proc'[p].kind = proc[p].kind
        \/ proc'[p].kind = "none"
        \/ proc'[p].born > proc[p].born
    BY <1>1 DEF Ages
  <2>2. QED
    BY <1>1, <1>2, <1>3, <1>4, <2>1
<1>6. Alive(p) /\ running.started = StartedAt(p)
  <2>1. Alive(p)
    BY <1>1, <1>5 DEF Alive
  <2>2. QED
    BY <1>2, <1>3, <1>5, <2>1 DEF StartedAt
<1>7. QED
  BY <1>6 DEF Live, PidMatches

LEMMA KeepTime ==
  ASSUME TypeOK, TypeOK', TimeInv, Ages,
         UNCHANGED <<running.pid, running.started, running.port>>
  PROVE  TimeInv'
<1>. SUFFICES ASSUME Timed, running.pid \in Pids
              PROVE  Windows /\ running.started <= proc'[running.pid].born
  BY DEF TimeInv, Timed
<1>1. Windows /\ running.started <= proc[running.pid].born
  BY DEF TimeInv
<1>2. /\ running.started \in Nat
      /\ proc[running.pid].born \in Nat /\ proc'[running.pid].born \in Nat
  BY DEF TypeOK, Runs, Processes
<1>3. proc[running.pid].born <= proc'[running.pid].born
  <2>1. \/ proc'[running.pid].born = proc[running.pid].born
        \/ proc'[running.pid].born > proc[running.pid].born
    BY DEF Ages
  <2>2. QED
    BY <1>2, <2>1
<1>4. QED
  BY <1>1, <1>2, <1>3

\* What is known before a step of the sole caller, and what is to be shown of it.
Before(a) ==
  /\ TypeOK /\ TypeOK' /\ LocalInv(a) /\ ExactInv /\ ExactInv'
  /\ BornInv' /\ TimeInv /\ CallerEngine(a) /\ Ages

Refines == [Eng!Next]_(Eng!vars)

After(a) == TimeInv' /\ CallerEngine(a)' /\ Refines

\* Labels that ask nothing of CallerEngine.
Plain == Labels \ ({"up_spawn", "rc_clear", "rc_save", "rp_sweep"} \cup Waiting)

LEMMA IdlePlain == "idle" \in Plain
  BY DEF Plain, Labels, Waiting

LEMMA PlainLabel ==
  ASSUME NEW a \in Actors, pc'[a] \in Plain
  PROVE  CallerEngine(a)'
  BY DEF Plain, CallerEngine

LEMMA CommandIs ==
  ASSUME SoleCaller, NEW a \in Actors
  PROVE  Command = CommandOf(pc[a]) /\ Command' = CommandOf(pc'[a])
<1>1. \A b \in Actors : b = a
  BY DEF SoleCaller
<1>2. CommandOf("idle") = "idle"
  BY DEF CommandOf
<1>3. Command = CommandOf(pc[a])
  <2>1. CASE pc[a] = "idle"
    BY <1>1, <1>2, <2>1 DEF Command, Quiet
  <2>2. CASE pc[a] # "idle"
    <3>1. (CHOOSE b \in Actors : pc[b] # "idle") = a
      BY <1>1, <2>2
    <3>2. QED
      BY <2>2, <3>1 DEF Command, Quiet
  <2>3. QED
    BY <2>1, <2>2
<1>4. Command' = CommandOf(pc'[a])
  <2>1. CASE pc'[a] = "idle"
    BY <1>1, <1>2, <2>1 DEF Command, Quiet
  <2>2. CASE pc'[a] # "idle"
    <3>1. (CHOOSE b \in Actors : pc'[b] # "idle") = a
      BY <1>1, <2>2
    <3>2. QED
      BY <2>2, <3>1 DEF Command, Quiet
  <2>3. QED
    BY <2>1, <2>2
<1>5. QED
  BY <1>3, <1>4

LEMMA ProxyIs ==
  ASSUME ExactInv, ExactInv'
  PROVE  Proxy = RecordedProxy /\ Proxy' = RecordedProxy'
<1>1. "idle" \notin Ahead
  BY DEF Ahead, Window
<1>2. Proxy = RecordedProxy
  BY <1>1 DEF Proxy, RecordedProxy, Quiet, ExactInv, Exact
<1>3. Proxy' = RecordedProxy'
  BY <1>1 DEF Proxy, RecordedProxy, Quiet, ExactInv, Exact
<1>4. QED
  BY <1>2, <1>3

LEMMA StatusType == Live \in BOOLEAN /\ Live' \in BOOLEAN /\ Timed \in BOOLEAN /\ Timed' \in BOOLEAN
  BY DEF Live, PidMatches, Timed

\* A step that leaves the record alone and stays in its command: Engine sees
\* at most that the instance has died, or has been mistaken for another's.
LEMMA StaysRefines ==
  ASSUME TypeOK, TypeOK', ExactInv, ExactInv', BornInv', TimeInv, Ages,
         UNCHANGED running, Command' = Command
  PROVE  TimeInv' /\ Refines
<1>1. UNCHANGED <<running.pid, running.started, running.port>>
  OBVIOUS
<1>2. Timed' = Timed /\ RecordedProxy' = RecordedProxy
  BY DEF Timed, RecordedProxy
<1>3. Proxy' = Proxy
  BY <1>2, ProxyIs
<1>4. Refines
  <2>1. CASE Live' = Live
    BY <1>1, <1>2, <1>3, <2>1 DEF Refines, Eng!vars, Eng!instance
  <2>2. CASE Live /\ ~Live'
    <3>1. Eng!Dies
      BY <1>1, <1>2, <1>3, <2>2, StatusType DEF Eng!Dies
    <3>2. QED
      BY <3>1 DEF Refines, Eng!Next
  <2>3. CASE ~Live /\ Live'
    <3>1. ~Timed /\ running.port # NoPort
      BY <1>1, <2>3, GoneForGood DEF TimeInv, Live, PidMatches, Alive
    <3>2. Eng!Mistaken
      BY <1>1, <1>2, <1>3, <2>3, <3>1, StatusType DEF Eng!Mistaken
    <3>3. QED
      BY <3>2 DEF Refines, Eng!Next
  <2>4. QED
    BY <2>1, <2>2, <2>3, StatusType
<1>5. QED
  BY <1>1, <1>4, KeepTime

LEMMA GoesOn ==
  ASSUME SoleCaller, NEW a \in Actors, Before(a), UNCHANGED running, NEW l \in Plain,
         Goto(a, l), CommandOf(l) = CommandOf(pc[a])
  PROVE  After(a)
<1>1. pc'[a] = l
  BY GotoAt DEF Before
<1>2. Command' = Command
  BY <1>1, CommandIs
<1>3. QED
  BY <1>1, <1>2, PlainLabel, StaysRefines DEF Before, After

\* A command ends without having written the record, or begins.
LEMMA EndsRefines ==
  ASSUME SoleCaller, NEW a \in Actors, Before(a), UNCHANGED running, Live' = Live,
         Return(a), pc[a] \in Labels \ {"idle"}
  PROVE  After(a)
<1>1. pc'[a] = "idle" /\ "idle" \in Plain
  BY ReturnAt DEF Before, Plain, Labels, Waiting
<1>2. CommandOf(pc[a]) # "idle" /\ CommandOf("idle") = "idle"
  BY DEF CommandOf, Labels
<1>3. Timed' = Timed /\ RecordedProxy' = RecordedProxy /\ UNCHANGED <<running.port>>
  BY DEF Timed, RecordedProxy
<1>4. Proxy' = Proxy
  BY <1>3, ProxyIs DEF Before
<1>5. Eng!Return
  BY <1>1, <1>2, <1>3, <1>4, CommandIs DEF Eng!Return, Eng!instance
<1>6. TimeInv'
  BY KeepTime DEF Before
<1>7. QED
  BY <1>1, <1>5, <1>6, PlainLabel DEF After, Refines, Eng!Next

LEMMA SameLive == UNCHANGED <<running, proc>> => Live' = Live
  BY DEF Live, PidMatches, Alive, StartedAt

LEMMA NoRunNotLive ==
  /\ running = NoRun => ~Live /\ ~Timed /\ RecordedProxy = NoPort
  /\ running' = NoRun => ~Live' /\ ~Timed' /\ RecordedProxy' = NoPort /\ running'.port = NoPort
<1>1. NoRun.pid \notin Pids /\ NoRun.started = NoTime /\ NoRun.port = NoPort /\ ~NoRun.sysproxy
  BY DEF NoRun, NoPid
<1>2. QED
  BY <1>1 DEF Live, PidMatches, Alive, Timed, RecordedProxy

LEMMA CallRefines ==
  ASSUME SoleCaller, NEW a \in Actors, Before(a), Call(a)
  PROVE  After(a)
<1>1. PICK l \in {"up_load", "down_load", "sp_intent", "rc_load", "rp_clear", "st_load"} :
        Goto(a, l)
  BY DEF Call, BeginUp, BeginDown, BeginSysproxy, BeginReconcile, BeginRepair, BeginStatus, Begin
<1>2. pc[a] = "idle" /\ UNCHANGED <<running, proc>>
  BY DEF Call, BeginUp, BeginDown, BeginSysproxy, BeginReconcile, BeginRepair, BeginStatus, Begin
<1>3. pc'[a] = l /\ l \in Plain
  BY <1>1, GotoAt DEF Before, Plain, Labels, Waiting
<1>4. /\ CommandOf(l) \in {"up", "down", "sysproxy", "reconcile", "repair", "status"}
      /\ CommandOf("idle") = "idle"
  BY <1>1 DEF CommandOf
<1>5. /\ Timed' = Timed /\ RecordedProxy' = RecordedProxy /\ Live' = Live
      /\ UNCHANGED <<running.port>>
  BY <1>2, SameLive DEF Timed, RecordedProxy
<1>6. Proxy' = Proxy
  BY <1>5, ProxyIs DEF Before
<1>7. Eng!Call
  BY <1>2, <1>3, <1>4, <1>5, <1>6, CommandIs DEF Eng!Call, Eng!instance
<1>8. TimeInv'
  BY <1>2, KeepTime DEF Before
<1>9. QED
  BY <1>3, <1>7, <1>8, PlainLabel DEF After, Refines, Eng!Next

\* A migration is no step of Engine, or the end of the command.
LEMMA MigrateRefines ==
  ASSUME SoleCaller, NEW a \in Actors, Before(a), NEW at \in Migrating, NEW l \in Plain,
         Migrate(a, at, l), CommandOf(l) = CommandOf(at) \/ l = "idle"
  PROVE  After(a)
<1>1. pc[a] = at /\ UNCHANGED <<running, proc>>
  BY DEF Migrate, Before, LocalInv, CallerInv, Unrecorded
<1>2. CASE l = "idle"
  <2>1. Return(a) /\ pc[a] \in Labels \ {"idle"}
    BY <1>1, <1>2 DEF Migrate, Continue, Migrating, Labels
  <2>2. QED
    BY <1>1, <2>1, SameLive, EndsRefines
<1>3. CASE l # "idle"
  BY <1>1, <1>3, GoesOn DEF Migrate, Continue
<1>4. QED
  BY <1>2, <1>3

LEMMA ForgetRefines ==
  ASSUME ProxyFaultFree, NEW a \in Actors, Before(a), NEW at \in ProxyDown, NEW l,
         Forget(a, at, l)
  PROVE  pc[a] = at /\ pc'[a] = l /\ running' = NoRun /\ Eng!Forget /\ TimeInv'
<1>1. pc[a] = at /\ pc'[a] = l /\ running' = NoRun
  BY ForgetInv DEF Before, Forget
<1>2. Proxy' = RecordedProxy'
  BY ProxyIs DEF Before
<1>3. Eng!Forget
  BY <1>1, <1>2, NoRunNotLive, StatusType DEF Eng!Forget
<1>4. TimeInv'
  BY <1>1 DEF TimeInv, NoRun, NoPid
<1>5. QED
  BY <1>1, <1>3, <1>4

\* The new instance is recorded: up takes effect.
LEMMA UpSaveRefines ==
  ASSUME SoleCaller, ProxyFaultFree, NEW a \in Actors, Before(a), UpSave(a)
  PROVE  After(a)
<1>0. PICK p : p = loc[a].pid
  OBVIOUS
<1>1. pc[a] = "up_save" /\ UNCHANGED proc
  BY DEF UpSave
<1>2. /\ running' = [pid |-> p, started |-> StartedAt(p), port |-> loc[a].port,
                     sysproxy |-> loc[a].on]
      /\ pc'[a] = "idle"
  BY <1>0, ReturnAt DEF UpSave, SaveState, Continue, Fault, ProxyFaultFree, Before
<1>3. loc[a].port \in Ports /\ running = NoRun
  BY <1>1 DEF Before, CallerEngine, Waiting, LocalInv, CallerInv, Unrecorded
<1>4. Alive(p)' = Alive(p) /\ StartedAt(p)' = StartedAt(p)
  BY <1>1 DEF Alive, StartedAt
<1>5. StartedAt(p) # NoTime <=> Alive(p) /\ Windows
  <2>1. Alive(p) => p \in Pids /\ proc[p].born # NoTime
    BY <1>1 DEF Alive, Before, BornInv
  <2>2. QED
    BY <2>1 DEF StartedAt
<1>6. Live' <=> Alive(p)
  BY <1>2, <1>4 DEF Live, PidMatches
<1>7. Timed' <=> Live' /\ Windows
  <2>1. running'.started = StartedAt(p)
    BY <1>2
  <2>2. Timed' <=> running'.started # NoTime
    BY DEF Timed
  <2>3. QED
    BY <1>5, <1>6, <2>1, <2>2
<1>8. Proxy' \in {running'.port, NoPort}
  BY <1>2, ProxyIs DEF Before, RecordedProxy
<1>9. Command = "up" /\ Command' = "idle"
  BY <1>1, <1>2, CommandIs DEF CommandOf
<1>10. Eng!UpStarts
  BY <1>2, <1>3, <1>7, <1>8, <1>9, StatusType, WindowsAssumption DEF Eng!UpStarts, NoRun
<1>11. TimeInv'
  <2>. SUFFICES ASSUME Timed', running'.pid \in Pids
                PROVE  Windows /\ running'.started <= proc'[running'.pid].born
    BY <1>2, <1>3, WindowsAssumption DEF TimeInv
  <2>1. Windows /\ Alive(p) /\ running'.pid = p /\ running'.started = StartedAt(p)
    BY <1>2, <1>6, <1>7
  <2>2. StartedAt(p) = proc'[p].born /\ proc'[p].born \in Nat
    BY <1>1, <2>1 DEF StartedAt, Alive, Before, TypeOK, Processes
  <2>3. QED
    BY <2>1, <2>2
<1>12. "idle" \in Plain
  BY DEF Plain, Labels, Waiting
<1>13. QED
  BY <1>2, <1>10, <1>11, <1>12, PlainLabel DEF After, Refines, Eng!Next

LEMMA UpRefines ==
  ASSUME SoleCaller, ExactFaultFree, NEW a \in Actors, Before(a), Up(a)
  PROVE  After(a)
<1>. USE DEF ExactFaultFree
<1>1. CASE UpLoad(a)
  <2>1. pc[a] = "up_load" /\ UNCHANGED <<running, proc>>
    BY <1>1 DEF UpLoad
  <2>2. PICK l \in {"up_clear", "up_prepare", "up_migrate"} : Goto(a, l)
    BY <1>1 DEF UpLoad, LoadState, Fault
  <2>3. l \in Plain /\ CommandOf(l) = CommandOf(pc[a])
    BY <2>1, <2>2 DEF Plain, Labels, Waiting, CommandOf
  <2>4. QED
    BY <2>1, <2>2, <2>3, GoesOn
<1>2. CASE UpClear(a)
  <2>1. "up_stop" \in Plain /\ CommandOf("up_stop") = CommandOf("up_clear")
    BY DEF Plain, Labels, Waiting, CommandOf
  <2>2. QED
    BY <1>2, <2>1, GoesOn DEF UpClear, ClearRecorded
<1>3. CASE UpStop(a)
  <2>1. "up_forget" \in Plain /\ CommandOf("up_forget") = CommandOf("up_stop")
    BY DEF Plain, Labels, Waiting, CommandOf
  <2>2. QED
    BY <1>3, <2>1, GoesOn DEF UpStop, Fault
<1>4. CASE UpForget(a)
  <2>1. /\ pc[a] = "up_forget" /\ pc'[a] = "up_prepare"
        /\ Eng!Forget /\ TimeInv'
    BY <1>4, ForgetRefines DEF UpForget, ProxyDown
  <2>2. Command = "up" /\ Command' = "up" /\ "up_prepare" \in Plain
    BY <2>1, CommandIs DEF CommandOf, Plain, Labels, Waiting
  <2>3. Eng!UpStops
    BY <2>1, <2>2 DEF Eng!UpStops
  <2>4. QED
    BY <2>1, <2>2, <2>3, PlainLabel DEF After, Refines, Eng!Next
<1>5. CASE UpPrepare(a)
  <2>1. pc[a] = "up_prepare" /\ UNCHANGED <<running, proc>>
    BY <1>5 DEF UpPrepare
  <2>2. CASE Return(a)
    BY <2>1, <2>2, SameLive, EndsRefines DEF Labels
  <2>3. ASSUME NEW q \in Ports, loc' = [loc EXCEPT ![a].port = q], Goto(a, "up_spawn")
        PROVE  After(a)
    <3>1. pc'[a] = "up_spawn" /\ loc'[a].port \in Ports
      BY <2>3, GotoAt DEF Before, TypeOK, Locals
    <3>2. CallerEngine(a)'
      BY <3>1 DEF CallerEngine
    <3>3. Command' = Command
      BY <2>1, <3>1, CommandIs DEF CommandOf
    <3>4. QED
      BY <2>1, <3>2, <3>3, StaysRefines DEF Before, After
  <2>4. QED
    BY <1>5, <2>2, <2>3 DEF UpPrepare
<1>6. CASE UpSpawn(a)
  <2>1. pc[a] = "up_spawn" /\ UNCHANGED running
    BY <1>6 DEF UpSpawn
  <2>2. CASE Return(a) /\ UNCHANGED proc
    BY <2>1, <2>2, SameLive, EndsRefines DEF Labels
  <2>3. ASSUME NEW p \in Pids, loc' = [loc EXCEPT ![a].pid = p], Goto(a, "up_poll")
        PROVE  After(a)
    <3>1. pc'[a] = "up_poll" /\ loc'[a].port = loc[a].port
      BY <2>3, GotoAt DEF Before, TypeOK, Locals
    <3>2. CallerEngine(a)'
      BY <2>1, <3>1 DEF CallerEngine, Before
    <3>3. Command' = Command
      BY <2>1, <3>1, CommandIs DEF CommandOf
    <3>4. QED
      BY <2>1, <3>2, <3>3, StaysRefines DEF Before, After
  <2>4. QED
    BY <1>6, <2>2, <2>3 DEF UpSpawn
<1>7. CASE UpPoll(a) \/ UpRetry(a) \/ UpProxy(a)
  <2>1. pc[a] \in Waiting /\ UNCHANGED running
    BY <1>7 DEF UpPoll, UpRetry, UpProxy, Waiting
  <2>2. pc'[a] \in Waiting
    BY <1>7, GotoAt DEF Before, UpPoll, UpRetry, UpProxy, Waiting
  <2>3. loc'[a].port = loc[a].port
    BY <1>7 DEF UpPoll, UpRetry, UpProxy, Before, TypeOK, Locals
  <2>4. CallerEngine(a)'
    BY <2>1, <2>2, <2>3 DEF CallerEngine, Before, Waiting
  <2>5. Command' = Command
    BY <2>1, <2>2, CommandIs DEF CommandOf, Waiting
  <2>6. QED
    BY <2>1, <2>4, <2>5, StaysRefines DEF Before, After
<1>8. CASE UpDied(a) \/ UpTimeout(a)
  <2>1. pc[a] = "up_check" /\ UNCHANGED running /\ Return(a)
    BY <1>8 DEF UpDied, UpTimeout
  <2>2. running = NoRun
    BY <2>1 DEF Before, LocalInv, CallerInv, Unrecorded
  <2>3. Live' = Live
    BY <2>1, <2>2, NoRunNotLive, StatusType
  <2>4. QED
    BY <2>1, <2>3, EndsRefines DEF Labels
<1>9. CASE UpMigrate(a)
  <2>1. "up_prepare" \in Plain /\ CommandOf("up_prepare") = CommandOf("up_migrate")
    BY DEF Plain, Labels, Waiting, CommandOf
  <2>2. QED
    BY <1>9, <2>1, MigrateRefines DEF UpMigrate, Migrating
<1>10. QED
  BY <1>1, <1>2, <1>3, <1>4, <1>5, <1>6, <1>7, <1>8, <1>9, UpSaveRefines DEF Up

LEMMA DownRefines ==
  ASSUME SoleCaller, ExactFaultFree, NEW a \in Actors, Before(a), Down(a)
  PROVE  After(a)
<1>. USE DEF ExactFaultFree
<1>1. CASE DownLoad(a)
  <2>1. pc[a] = "down_load" /\ UNCHANGED <<running, proc>>
    BY <1>1 DEF DownLoad
  <2>2. CASE Return(a)
    BY <2>1, <2>2, SameLive, EndsRefines DEF Labels
  <2>3. ASSUME NEW l \in {"down_clear", "down_migrate"}, Goto(a, l)
        PROVE  After(a)
    <3>1. l \in Plain /\ CommandOf(l) = CommandOf("down_load")
      BY DEF Plain, Labels, Waiting, CommandOf
    <3>2. QED
      BY <2>1, <2>3, <3>1, GoesOn
  <2>4. QED
    BY <1>1, <2>2, <2>3 DEF DownLoad, LoadState
<1>2. CASE DownClear(a)
  <2>1. "down_kill" \in Plain /\ CommandOf("down_kill") = CommandOf("down_clear")
    BY DEF Plain, Labels, Waiting, CommandOf
  <2>2. QED
    BY <1>2, <2>1, GoesOn DEF DownClear, ClearRecorded
<1>3. CASE DownKill(a)
  <2>1. "down_save" \in Plain /\ CommandOf("down_save") = CommandOf("down_kill")
    BY DEF Plain, Labels, Waiting, CommandOf
  <2>2. QED
    BY <1>3, <2>1, GoesOn DEF DownKill, Fault
<1>4. CASE DownSave(a)
  <2>1. /\ pc[a] = "down_save" /\ pc'[a] = "idle"
        /\ Eng!Forget /\ TimeInv'
    BY <1>4, ForgetRefines DEF DownSave, ProxyDown
  <2>2. Command = "down" /\ Command' = "idle" /\ "idle" \in Plain
    BY <2>1, CommandIs DEF CommandOf, Plain, Labels, Waiting
  <2>3. Eng!Down
    BY <2>1, <2>2 DEF Eng!Down
  <2>4. QED
    BY <2>1, <2>2, <2>3, PlainLabel DEF After, Refines, Eng!Next
<1>5. CASE DownMigrate(a)
  BY <1>5, IdlePlain, MigrateRefines DEF DownMigrate, Migrating
<1>6. QED
  BY <1>1, <1>2, <1>3, <1>4, <1>5 DEF Down

LEMMA SysproxyRefines ==
  ASSUME SoleCaller, ExactFaultFree, NEW a \in Actors, Before(a), Sysproxy(a)
  PROVE  After(a)
<1>. USE DEF ExactFaultFree
<1>1. CASE SpIntent(a) \/ SpLoad(a) \/ SpApply(a)
  <2>1. /\ pc[a] \in {"sp_intent", "sp_load", "sp_apply"}
        /\ UNCHANGED <<running, proc>>
    BY <1>1 DEF SpIntent, SpLoad, SpApply
  <2>2. CASE Return(a)
    BY <2>1, <2>2, SameLive, EndsRefines DEF Labels
  <2>3. ASSUME NEW l \in {"sp_load", "sp_migrate", "sp_apply", "sp_save"}, Goto(a, l)
        PROVE  After(a)
    <3>1. l \in Plain /\ CommandOf(l) = CommandOf(pc[a])
      BY <2>1 DEF Plain, Labels, Waiting, CommandOf
    <3>2. QED
      BY <2>1, <2>3, <3>1, GoesOn
  <2>4. QED
    BY <1>1, <2>2, <2>3 DEF SpIntent, SpLoad, SpApply, LoadState
<1>2. CASE SpSave(a)
  <2>1. pc[a] = "sp_save" /\ UNCHANGED proc /\ loc[a].run = running
    BY <1>2 DEF SpSave, Before, LocalInv, CallerInv, Holding
  <2>2. running' = [running EXCEPT !.sysproxy = loc[a].on] /\ pc'[a] = "idle"
    BY <1>2, <2>1, ReturnAt DEF SpSave, SaveState, Continue, Fault, ProxyFaultFree, Before
  <2>3. /\ UNCHANGED <<running.pid, running.started, running.port>>
        /\ running'.sysproxy = loc[a].on
    BY <2>2 DEF Before, TypeOK, Runs
  <2>4. Live' = Live /\ Timed' = Timed
    BY <2>1, <2>3 DEF Live, Timed, PidMatches, Alive, StartedAt
  <2>5. Proxy' \in {running.port, NoPort}
    BY <2>3, ProxyIs DEF Before, RecordedProxy
  <2>6. Command = "sysproxy" /\ Command' = "idle" /\ "idle" \in Plain
    BY <2>1, <2>2, CommandIs DEF CommandOf, Plain, Labels, Waiting
  <2>7. Eng!Sysproxy
    BY <2>3, <2>4, <2>5, <2>6 DEF Eng!Sysproxy, Eng!instance
  <2>8. TimeInv'
    BY <2>3, KeepTime DEF Before
  <2>9. QED
    BY <2>2, <2>6, <2>7, <2>8, PlainLabel DEF After, Refines, Eng!Next
<1>3. CASE SpMigrate(a)
  BY <1>3, IdlePlain, MigrateRefines DEF SpMigrate, Migrating
<1>4. QED
  BY <1>1, <1>2, <1>3 DEF Sysproxy

LEMMA ReconcileRefines ==
  ASSUME SoleCaller, ExactFaultFree, NEW a \in Actors, Before(a), Reconcile(a)
  PROVE  After(a)
<1>. USE DEF ExactFaultFree
<1>1. CASE RcLoad(a) \/ RcClear(a)
  <2>1. pc[a] \in {"rc_load", "rc_clear"} /\ UNCHANGED <<running, proc>>
    BY <1>1 DEF RcLoad, RcClear, ClearRecorded
  <2>2. Live' = Live /\ Timed' = Timed
    BY <2>1, SameLive DEF Timed
  <2>3. CASE Return(a)
    BY <2>1, <2>2, <2>3, EndsRefines DEF Labels
  <2>4. CASE ~Return(a)
    <3>1. pc'[a] \in {"rc_clear", "rc_save", "rc_migrate"}
      BY <1>1, <2>4, GotoAt DEF RcLoad, RcClear, ClearRecorded, LoadState, Before
    <3>2. ~(Live /\ Timed)
      <4>1. CASE RcLoad(a) /\ ~versioned
        BY <4>1, NoRunNotLive DEF Before, TypeOK
      <4>2. QED
        BY <1>1, <2>4, <4>1 DEF RcLoad, RcClear, ClearRecorded, Before, CallerEngine, Live
    <3>3. CallerEngine(a)'
      BY <2>2, <3>1, <3>2 DEF CallerEngine, Waiting
    <3>4. Command' = Command
      BY <2>1, <3>1, CommandIs DEF CommandOf
    <3>5. QED
      BY <2>1, <3>3, <3>4, StaysRefines DEF Before, After
  <2>5. QED
    BY <2>3, <2>4
<1>2. CASE RcSave(a)
  <2>1. /\ pc[a] = "rc_save" /\ pc'[a] = "idle"
        /\ Eng!Forget /\ TimeInv'
    BY <1>2, ForgetRefines DEF RcSave, ProxyDown
  <2>2. Command = "reconcile" /\ Command' = "idle" /\ "idle" \in Plain
    BY <2>1, CommandIs DEF CommandOf, Plain, Labels, Waiting
  <2>3. Live => ~Timed
    BY <2>1 DEF Before, CallerEngine
  <2>4. Eng!Reconcile
    BY <2>1, <2>2, <2>3 DEF Eng!Reconcile
  <2>5. QED
    BY <2>1, <2>2, <2>4, PlainLabel DEF After, Refines, Eng!Next
<1>3. CASE RcMigrate(a)
  BY <1>3, IdlePlain, MigrateRefines DEF RcMigrate, Migrating
<1>4. QED
  BY <1>1, <1>2, <1>3 DEF Reconcile

LEMMA RepairRefines ==
  ASSUME SoleCaller, ExactFaultFree, NEW a \in Actors, Before(a), Repair(a)
  PROVE  After(a)
<1>. USE DEF ExactFaultFree
<1>1. CASE RpClear(a) \/ RpLoad(a) \/ RpKill(a)
  <2>1. pc[a] \in {"rp_clear", "rp_load", "rp_kill"} /\ UNCHANGED running
    BY <1>1 DEF RpClear, RpLoad, RpKill
  <2>2. PICK l \in {"rp_load", "rp_migrate", "rp_kill", "rp_save"} : Goto(a, l)
    BY <1>1 DEF RpClear, RpLoad, RpKill, LoadState, Fault
  <2>3. l \in Plain /\ CommandOf(l) = CommandOf(pc[a])
    BY <2>1, <2>2 DEF Plain, Labels, Waiting, CommandOf
  <2>4. QED
    BY <2>1, <2>2, <2>3, GoesOn
<1>2. CASE RpSave(a)
  <2>1. /\ pc[a] = "rp_save" /\ pc'[a] = "rp_sweep" /\ running' = NoRun
        /\ Eng!Forget /\ TimeInv'
    BY <1>2, ForgetRefines DEF RpSave, ProxyDown
  <2>2. Command = "repair" /\ Command' = "repair"
    BY <2>1, CommandIs DEF CommandOf
  <2>3. Eng!Repair
    BY <2>1, <2>2 DEF Eng!Repair
  <2>4. CallerEngine(a)'
    BY <2>1 DEF CallerEngine, Waiting
  <2>5. QED
    BY <2>1, <2>3, <2>4 DEF After, Refines, Eng!Next
<1>3. CASE RpSweep(a)
  <2>1. pc[a] = "rp_sweep" /\ UNCHANGED running /\ Return(a)
    BY <1>3 DEF RpSweep
  <2>2. running = NoRun
    BY <2>1 DEF Before, CallerEngine
  <2>3. Live' = Live
    BY <2>1, <2>2, NoRunNotLive, StatusType
  <2>4. QED
    BY <2>1, <2>3, EndsRefines DEF Labels
<1>4. CASE RpMigrate(a)
  <2>1. "rp_kill" \in Plain /\ CommandOf("rp_kill") = CommandOf("rp_migrate")
    BY DEF Plain, Labels, Waiting, CommandOf
  <2>2. QED
    BY <1>4, <2>1, MigrateRefines DEF RpMigrate, Migrating
<1>5. QED
  BY <1>1, <1>2, <1>3, <1>4 DEF Repair

LEMMA StatusRefines ==
  ASSUME SoleCaller, NEW a \in Actors, Before(a), Status(a)
  PROVE  After(a)
<1>1. CASE StLoad(a)
  <2>1. pc[a] = "st_load" /\ UNCHANGED <<running, proc>>
    BY <1>1 DEF StLoad
  <2>2. CASE Return(a)
    BY <2>1, <2>2, SameLive, EndsRefines DEF Labels
  <2>3. CASE Goto(a, "st_migrate")
    <3>1. "st_migrate" \in Plain /\ CommandOf("st_migrate") = CommandOf("st_load")
      BY DEF Plain, Labels, Waiting, CommandOf
    <3>2. QED
      BY <2>1, <2>3, <3>1, GoesOn
  <2>4. QED
    BY <1>1, <2>2, <2>3 DEF StLoad, LoadState
<1>2. CASE StMigrate(a)
  BY <1>2, IdlePlain, MigrateRefines DEF StMigrate, Migrating
<1>3. QED
  BY <1>1, <1>2 DEF Status

LEMMA NextRefines ==
  ASSUME SoleCaller, ExactFaultFree, TypeOK, TypeOK', ProxyInv, ExactInv, ExactInv',
         EngineInv, [Next]_vars
  PROVE  EngineInv' /\ Refines
<1>1. Ages /\ BornInv'
  BY NextAges, NextBorn DEF EngineInv
<1>2. ASSUME NEW a \in Actors, Call(a) \/ Step(a) \/ CallerKilled(a)
      PROVE  EngineInv' /\ Refines
  <2>1. Before(a)
    BY <1>1, SoleInv DEF Before, EngineInv
  <2>2. After(a)
    <3>1. CASE CallerKilled(a)
      <4>1. /\ pc[a] \in Labels \ {"idle"} /\ UNCHANGED <<running, proc>> /\ Return(a)
        BY <3>1, CrashAssumption DEF CallerKilled
      <4>2. QED
        BY <2>1, <4>1, SameLive, EndsRefines
    <3>2. QED
      BY <1>2, <2>1, <3>1, CallRefines, UpRefines, DownRefines, SysproxyRefines,
         ReconcileRefines, RepairRefines, StatusRefines DEF Step
  <2>3. \A b \in Actors : b = a
    BY DEF SoleCaller
  <2>4. QED
    BY <1>1, <2>2, <2>3 DEF After, EngineInv
<1>3. CASE UNCHANGED <<running, pc, loc>>
  <2>1. Command' = Command
    BY <1>3 DEF Command, Quiet
  <2>2. TimeInv' /\ Refines
    BY <1>1, <1>3, <2>1, StaysRefines DEF EngineInv
  <2>3. ASSUME NEW a \in Actors
        PROVE  CallerEngine(a)'
    <3>1. CallerEngine(a) /\ Timed' = Timed
      BY <1>3 DEF EngineInv, Timed
    <3>2. Timed /\ ~Live => ~Live'
      BY <1>1, <1>3, GoneForGood DEF EngineInv
    <3>3. QED
      BY <1>3, <3>1, <3>2 DEF CallerEngine
  <2>4. QED
    BY <1>1, <2>2, <2>3 DEF EngineInv
<1>4. QED
  BY <1>2, <1>3
  DEF Next, Environment, CoreBinds, ProcessExits, ProgramStarts, FaultsEnd, vars

LEMMA InitEngine == Init => EngineInv /\ Eng!Init
<1>. SUFFICES ASSUME Init
              PROVE  EngineInv /\ Eng!Init
  OBVIOUS
<1>1. ~Live /\ ~Timed /\ running.port = NoPort
  BY NoRunNotLive DEF Init, NoRun
<1>2. Command = "idle" /\ Proxy = NoPort
  BY DEF Init, Command, Proxy, Quiet
<1>3. BornInv
  BY DEF Init, BornInv, Dead
<1>4. \A a \in Actors : CallerEngine(a)
  BY DEF Init, CallerEngine, Waiting
<1>5. QED
  BY <1>1, <1>2, <1>3, <1>4, StatusType
  DEF EngineInv, TimeInv, Eng!Init, Init, NoRun, NoPid

\* For one caller at a time and failures that leave no command half done, each
\* command takes effect in the step that writes state.json, as Engine says: a
\* core that has died is not taken for running again, reconcile forgets none
\* that runs, and no proxy is left without an instance (lib.rs:95-334).
THEOREM EachCommandIsAtomic ==
  ASSUME ExactFaultFree, SoleCaller
  PROVE  Spec => CommandsAreAtomic
<1>1. TypeOK /\ TypeOK' /\ ProxyInv /\ ExactInv /\ EngineInv /\ [Next]_vars =>
        ExactInv' /\ EngineInv' /\ [Eng!Next]_(Eng!vars)
  <2>. SUFFICES ASSUME TypeOK, TypeOK', ProxyInv, ExactInv, EngineInv, [Next]_vars
                PROVE  ExactInv' /\ EngineInv' /\ [Eng!Next]_(Eng!vars)
    OBVIOUS
  <2>1. ExactInv'
    BY NextExact
  <2>2. QED
    BY <2>1, NextRefines DEF Refines
<1>2. Init => ExactInv
  BY OffExact DEF Init, ExactInv, Exact, NoRun
<1>3. Spec => []ProxyInv
  BY ProxyInvariant DEF ExactFaultFree
<1>. QED
  BY <1>1, <1>2, <1>3, InitEngine, TypeCorrect, PTL DEF Spec, CommandsAreAtomic, Eng!Spec
=============================================================================
