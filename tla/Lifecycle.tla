----------------------------- MODULE Lifecycle -----------------------------
(***************************************************************************)
(* The life of the sing-box core as guderray-engine manages it: `up`,      *)
(* `down`, `sysproxy on|off`, `reconcile`, `repair` and `status` (lib.rs), *)
(* run by CLI processes and GUI threads that share nothing but             *)
(*   - state.json, whose content is the variable running (no record while  *)
(*     there is no such file),                                             *)
(*   - settings.json, of which only system_proxy (settingsProxy) matters,  *)
(*   - the operating system's proxy setting (systemProxy), and             *)
(*   - the operating system's processes (proc).                            *)
(* Nothing locks any of them, so a command is one action per access to a   *)
(* shared thing, in the order of the code.                                 *)
(*                                                                         *)
(* A "port" stands for the pair (socks port, Clash API port) of one core:  *)
(* `up` picks both in the same way, one after the other.                   *)
(***************************************************************************)
EXTENDS Naturals

CONSTANTS
  Actors,         \* CLI invocations and GUI threads that may issue commands
  Pids,           \* the process ids the operating system hands out
  PreferredPort,  \* settings.socks_port / settings.clash_api_port
  FallbackPorts,  \* base ..= base + 400 of ensure_free_port
  MaxBorn,        \* bound: how often one pid is reused
  Overrides,      \* the values callers of `up` pass as sysproxy_override
  MaxPolls,       \* bound: rounds of the wait loop before the 8s deadline
  Windows,        \* TRUE iff built with cfg(windows)
  Renamed,        \* TRUE iff the core's file is not called sing-box.exe
  StateFile,      \* whether there is a state.json at first: one answer or both
  Faults,         \* the operations that may fail, of FaultKinds
  CrashPoints     \* the control points at which a caller may be killed

NoPid  == 0
NoTime == 0
NoPort == 0
Ports  == {PreferredPort} \cup FallbackPorts

FaultKinds == {"load", "save", "clear", "set", "kill", "spawn"}

Labels == {"idle",
           "up_load", "up_migrate", "up_clear", "up_stop", "up_forget", "up_prepare",
           "up_spawn", "up_poll", "up_check", "up_proxy", "up_save",
           "down_load", "down_migrate", "down_clear", "down_kill", "down_save",
           "sp_intent", "sp_load", "sp_migrate", "sp_apply", "sp_save",
           "rc_load", "rc_migrate", "rc_clear", "rc_save",
           "rp_clear", "rp_load", "rp_migrate", "rp_kill", "rp_save", "rp_sweep",
           "st_load", "st_migrate"}

ASSUME PidsAssumption   == Pids \subseteq Nat \ {NoPid}
ASSUME PortsAssumption  == Ports \subseteq Nat \ {NoPort}
ASSUME BoundsAssumption == MaxBorn \in Nat /\ MaxPolls \in Nat
ASSUME OverridesAssumption == Overrides \subseteq BOOLEAN
ASSUME StateFileAssumption == StateFile \subseteq BOOLEAN
ASSUME FaultsAssumption == Faults \subseteq FaultKinds
ASSUME CrashAssumption  == CrashPoints \subseteq Labels
ASSUME WindowsAssumption == Windows \in BOOLEAN
ASSUME RenamedAssumption == Renamed \in BOOLEAN

VARIABLES
  running,        \* State.running in state.json
  versioned,      \* state.json exists (every save writes schema_version)
  systemProxy,    \* the port the OS proxy setting points at, or NoPort
  settingsProxy,  \* settings.system_proxy in settings.json
  proc,           \* proc[p]: what runs under pid p
  faulty,         \* failures and kills still happen
  pc,             \* pc[a]: what actor a does next
  loc             \* loc[a]: the locals of a's command

vars == <<running, versioned, systemProxy, settingsProxy, proc, faulty, pc, loc>>

(***************************************************************************)
(* Data                                                                    *)
(***************************************************************************)
Runs == [pid : Pids \cup {NoPid}, started : Nat,
         port : Ports \cup {NoPort}, sysproxy : BOOLEAN]

NoRun == [pid |-> NoPid, started |-> NoTime, port |-> NoPort, sysproxy |-> FALSE]

\* born is the creation time of the pid's latest process.  A foreign process has
\* its port at once; a core is ready when its inbound and its Clash API are
\* bound, a foreign process if it answers GET /version with JSON, as they do.
Processes == [kind : {"none", "core", "foreign"}, born : Nat,
              port : Ports \cup {NoPort}, ready : BOOLEAN]

Dead(born) == [kind |-> "none", born |-> born, port |-> NoPort, ready |-> FALSE]

\* on: the wanted system proxy, later what was applied (sysproxy_applied).
Locals == [run : Runs, pid : Pids \cup {NoPid}, port : Ports \cup {NoPort},
           on : BOOLEAN, polls : Nat]

NoLocals == [run |-> NoRun, pid |-> NoPid, port |-> NoPort,
             on |-> FALSE, polls |-> 0]

TypeOK ==
  /\ running \in Runs
  /\ versioned \in BOOLEAN /\ (~versioned => running = NoRun)
  /\ systemProxy \in Ports \cup {NoPort}
  /\ settingsProxy \in BOOLEAN
  /\ proc \in [Pids -> Processes]
  /\ faulty \in BOOLEAN
  /\ pc \in [Actors -> Labels]
  /\ loc \in [Actors -> Locals]

(***************************************************************************)
(* process.rs                                                              *)
(***************************************************************************)
Alive(p) == p \in Pids /\ proc[p].kind # "none"

StartedAt(p) == IF Windows /\ Alive(p) THEN proc[p].born ELSE NoTime

PidMatches(p, started) ==
  /\ Alive(p)
  /\ \/ started = NoTime
     \/ StartedAt(p) = NoTime
     \/ started = StartedAt(p)

Kill(p) == proc' = [proc EXCEPT ![p] = Dead(@.born)]

(***************************************************************************)
(* Ports and the Clash API                                                 *)
(***************************************************************************)
Bound(q) == \E p \in Pids : proc[p].port = q /\ (proc[p].ready \/ proc[p].kind = "foreign")

\* q is what ensure_free_port returns.
EnsureFreePort(q) ==
  LET free == {r \in FallbackPorts : ~Bound(r)} IN
  \/ q = PreferredPort /\ (~Bound(PreferredPort) \/ free = {})
  \/ Bound(PreferredPort) /\ q \in free /\ \A r \in free : q <= r

\* GET /version on q answers: whoever has the port, not necessarily the caller's
\* core and not necessarily a core, replied with some JSON.
ClashAnswers(q) == \E p \in Pids : proc[p].ready /\ proc[p].port = q

(***************************************************************************)
(* Control                                                                 *)
(***************************************************************************)
Goto(a, l) == pc' = [pc EXCEPT ![a] = l]

Return(a) == Goto(a, "idle") /\ loc' = [loc EXCEPT ![a] = NoLocals]

Fault(f) == faulty /\ f \in Faults

\* State::load, or its error return.  Where there is no state.json it has read
\* the default, which it saves as the migrated state (migrate) before it returns.
LoadState(a, migrate, next) ==
  \/ loc' = [loc EXCEPT ![a].run = running] /\ Goto(a, IF versioned THEN next ELSE migrate)
  \/ Fault("load") /\ Return(a)

Continue(a, next) ==
  IF next = "idle" THEN Return(a) ELSE Goto(a, next) /\ UNCHANGED loc

\* At label at, in State::load: the default state is saved, whatever is in the
\* file by now, and a failure to save it is dropped.
Migrate(a, at, next) ==
  /\ pc[a] = at
  /\ \/ running' = NoRun /\ versioned' = TRUE
     \/ Fault("save") /\ UNCHANGED <<running, versioned>>
  /\ Continue(a, next)
  /\ UNCHANGED <<systemProxy, settingsProxy, proc, faulty>>

\* state.running = new; state.save: the next label, or the error return.
SaveState(a, new, next) ==
  \/ running' = new /\ versioned' = TRUE /\ Continue(a, next)
  \/ Fault("save") /\ UNCHANGED <<running, versioned>> /\ Return(a)

\* clear_system_proxy with its failure swallowed by a warning.
TryClearProxy ==
  \/ systemProxy' = NoPort
  \/ Fault("clear") /\ UNCHANGED systemProxy

\* At label at: clear the proxy if the loaded record says it was set.
ClearRecorded(a, at, next) ==
  /\ pc[a] = at
  /\ IF loc[a].run.sysproxy THEN TryClearProxy ELSE UNCHANGED systemProxy
  /\ Goto(a, next)
  /\ UNCHANGED <<running, versioned, settingsProxy, proc, faulty, loc>>

\* At label at: state.running = None; state.save.
Forget(a, at, next) ==
  /\ pc[a] = at
  /\ SaveState(a, NoRun, next)
  /\ UNCHANGED <<systemProxy, settingsProxy, proc, faulty>>

Begin(a, command, locals) ==
  /\ pc[a] = "idle"
  /\ Goto(a, command)
  /\ loc' = [loc EXCEPT ![a] = locals]
  /\ UNCHANGED <<running, versioned, systemProxy, settingsProxy, proc, faulty>>

(***************************************************************************)
(* up.  The error returns before the first write (no such profile, TUN     *)
(* without elevation) change nothing and are not steps.                    *)
(***************************************************************************)
BeginUp(a) == \E on \in {settingsProxy} \cup Overrides :
                Begin(a, "up_load", [NoLocals EXCEPT !.on = on])

UpLoad(a) ==
  /\ pc[a] = "up_load"
  /\ LoadState(a, "up_migrate", IF running = NoRun THEN "up_prepare" ELSE "up_clear")
  /\ UNCHANGED <<running, versioned, systemProxy, settingsProxy, proc, faulty>>

UpMigrate(a) == Migrate(a, "up_migrate", "up_prepare")

\* Mutant: the restart forgets the proxy of the instance it replaces.
UpClearSkipped(a) ==
  pc[a] = "up_clear" /\ Goto(a, "up_stop")
  /\ UNCHANGED <<running, versioned, systemProxy, settingsProxy, proc, faulty, loc>>

UpClear(a) == ClearRecorded(a, "up_clear", "up_stop")

\* pid_matches and the kill that follows at once are one step.
UpStop(a) ==
  LET run == loc[a].run IN
  /\ pc[a] = "up_stop"
  /\ \/ /\ PidMatches(run.pid, run.started)
        /\ Kill(run.pid) /\ Goto(a, "up_forget") /\ UNCHANGED loc
     \/ /\ PidMatches(run.pid, run.started)
        /\ Fault("kill") /\ Return(a) /\ UNCHANGED proc
     \/ /\ ~PidMatches(run.pid, run.started)
        /\ Goto(a, "up_forget") /\ UNCHANGED <<proc, loc>>
  /\ UNCHANGED <<running, versioned, systemProxy, settingsProxy, faulty>>

UpForget(a) == Forget(a, "up_forget", "up_prepare")

\* resolve_singbox, the two ports, gen-config.json and `sing-box check`.
UpPrepare(a) ==
  /\ pc[a] = "up_prepare"
  /\ \/ \E q \in Ports : /\ EnsureFreePort(q)
                         /\ loc' = [loc EXCEPT ![a].port = q]
                         /\ Goto(a, "up_spawn")
     \/ Fault("spawn") /\ Return(a)
  /\ UNCHANGED <<running, versioned, systemProxy, settingsProxy, proc, faulty>>

UpSpawn(a) ==
  /\ pc[a] = "up_spawn"
  /\ \/ \E p \in Pids :
          /\ proc[p].kind = "none" /\ proc[p].born < MaxBorn
          /\ proc' = [proc EXCEPT ![p] = [kind |-> "core", born |-> @.born + 1,
                                          port |-> loc[a].port, ready |-> FALSE]]
          /\ loc' = [loc EXCEPT ![a].pid = p]
          /\ Goto(a, "up_poll")
     \/ /\ Fault("spawn") \/ \A p \in Pids : proc[p].kind # "none" \/ proc[p].born = MaxBorn
        /\ Return(a) /\ UNCHANGED proc
  /\ UNCHANGED <<running, versioned, systemProxy, settingsProxy, faulty>>

\* The wait loop: ask the Clash API first, then look at the process, ...
UpPoll(a) ==
  /\ pc[a] = "up_poll"
  /\ Goto(a, IF ClashAnswers(loc[a].port) THEN "up_proxy" ELSE "up_check")
  /\ UNCHANGED <<running, versioned, systemProxy, settingsProxy, proc, faulty, loc>>

\* ... whose pid is compared with its own start time, so a reused pid passes.
UpDied(a) ==
  /\ pc[a] = "up_check"
  /\ ~PidMatches(loc[a].pid, StartedAt(loc[a].pid))
  /\ Return(a)
  /\ UNCHANGED <<running, versioned, systemProxy, settingsProxy, proc, faulty>>

\* Mutant: the core that missed the deadline is left running.
UpTimeoutNoKill(a) ==
  pc[a] = "up_check" /\ Alive(loc[a].pid) /\ Return(a)
  /\ UNCHANGED <<running, versioned, systemProxy, settingsProxy, proc, faulty>>

\* Past the deadline: kill the pid (a failure is a warning) and give up.
UpTimeout(a) ==
  /\ pc[a] = "up_check"
  /\ PidMatches(loc[a].pid, StartedAt(loc[a].pid))
  /\ Kill(loc[a].pid) \/ (Fault("kill") /\ UNCHANGED proc)
  /\ Return(a)
  /\ UNCHANGED <<running, versioned, systemProxy, settingsProxy, faulty>>

\* Mutant: every round sets the deadline anew.
UpRetryForever(a) ==
  pc[a] = "up_check" /\ Alive(loc[a].pid) /\ Goto(a, "up_poll")
  /\ UNCHANGED <<running, versioned, systemProxy, settingsProxy, proc, faulty, loc>>

\* Before the deadline: sleep and ask again.
UpRetry(a) ==
  /\ pc[a] = "up_check"
  /\ PidMatches(loc[a].pid, StartedAt(loc[a].pid))
  /\ loc[a].polls < MaxPolls
  /\ loc' = [loc EXCEPT ![a].polls = @ + 1]
  /\ Goto(a, "up_poll")
  /\ UNCHANGED <<running, versioned, systemProxy, settingsProxy, proc, faulty>>

\* on becomes sysproxy_applied.
UpProxy(a) ==
  /\ pc[a] = "up_proxy"
  /\ \/ loc[a].on /\ systemProxy' = loc[a].port /\ UNCHANGED loc
     \/ /\ loc[a].on /\ Fault("set")
        /\ loc' = [loc EXCEPT ![a].on = FALSE] /\ UNCHANGED systemProxy
     \/ ~loc[a].on /\ UNCHANGED <<systemProxy, loc>>
  /\ Goto(a, "up_save")
  /\ UNCHANGED <<running, versioned, settingsProxy, proc, faulty>>

\* Mutant: the configured port is recorded, not the fallback that is in use.
UpSaveConfigured(a) ==
  /\ pc[a] = "up_save"
  /\ SaveState(a, [pid |-> loc[a].pid, started |-> StartedAt(loc[a].pid),
                   port |-> PreferredPort, sysproxy |-> loc[a].on], "idle")
  /\ UNCHANGED <<systemProxy, settingsProxy, proc, faulty>>

UpSave(a) ==
  /\ pc[a] = "up_save"
  /\ SaveState(a, [pid |-> loc[a].pid, started |-> StartedAt(loc[a].pid),
                   port |-> loc[a].port, sysproxy |-> loc[a].on], "idle")
  /\ UNCHANGED <<systemProxy, settingsProxy, proc, faulty>>

Up(a) == \/ UpLoad(a) \/ UpMigrate(a) \/ UpClear(a) \/ UpStop(a) \/ UpForget(a)
         \/ UpPrepare(a) \/ UpSpawn(a)
         \/ UpPoll(a) \/ UpDied(a) \/ UpTimeout(a) \/ UpRetry(a)
         \/ UpProxy(a) \/ UpSave(a)

(***************************************************************************)
(* down                                                                    *)
(***************************************************************************)
BeginDown(a) == Begin(a, "down_load", NoLocals)

DownLoad(a) ==
  /\ pc[a] = "down_load"
  /\ IF versioned /\ running = NoRun THEN Return(a)
                                     ELSE LoadState(a, "down_migrate", "down_clear")
  /\ UNCHANGED <<running, versioned, systemProxy, settingsProxy, proc, faulty>>

DownMigrate(a) == Migrate(a, "down_migrate", "idle")

DownClear(a) == ClearRecorded(a, "down_clear", "down_kill")

\* pid_alive, not pid_matches: whatever has the recorded pid now is killed.
DownKill(a) ==
  LET p == loc[a].run.pid IN
  /\ pc[a] = "down_kill"
  /\ \/ Alive(p) /\ Kill(p) /\ Goto(a, "down_save") /\ UNCHANGED loc
     \/ Alive(p) /\ Fault("kill") /\ Return(a) /\ UNCHANGED proc
     \/ ~Alive(p) /\ Goto(a, "down_save") /\ UNCHANGED <<proc, loc>>
  /\ UNCHANGED <<running, versioned, systemProxy, settingsProxy, faulty>>

DownSave(a) == Forget(a, "down_save", "idle")

Down(a) == DownLoad(a) \/ DownMigrate(a) \/ DownClear(a) \/ DownKill(a) \/ DownSave(a)

(***************************************************************************)
(* set_sysproxy                                                            *)
(***************************************************************************)
BeginSysproxy(a) == \E on \in BOOLEAN : Begin(a, "sp_intent", [NoLocals EXCEPT !.on = on])

SpIntent(a) ==
  /\ pc[a] = "sp_intent"
  /\ \/ settingsProxy' = loc[a].on /\ Goto(a, "sp_load") /\ UNCHANGED loc
     \/ (Fault("load") \/ Fault("save")) /\ Return(a) /\ UNCHANGED settingsProxy
  /\ UNCHANGED <<running, versioned, systemProxy, proc, faulty>>

\* The intent is saved by now, whether or not an instance is there to apply it to.
SpLoad(a) ==
  /\ pc[a] = "sp_load"
  /\ IF versioned /\ ~PidMatches(running.pid, running.started)
       THEN Return(a)
       ELSE LoadState(a, "sp_migrate", "sp_apply")
  /\ UNCHANGED <<running, versioned, systemProxy, settingsProxy, proc, faulty>>

SpMigrate(a) == Migrate(a, "sp_migrate", "idle")

\* Mutant: another field of the record is taken for the port.
SpApplyWrongField(a) ==
  /\ pc[a] = "sp_apply"
  /\ systemProxy' = IF loc[a].on THEN loc[a].run.started ELSE NoPort
  /\ Goto(a, "sp_save")
  /\ UNCHANGED <<running, versioned, settingsProxy, proc, faulty, loc>>

SpApply(a) ==
  /\ pc[a] = "sp_apply"
  /\ \/ /\ systemProxy' = IF loc[a].on THEN loc[a].run.port ELSE NoPort
        /\ Goto(a, "sp_save") /\ UNCHANGED loc
     \/ /\ Fault(IF loc[a].on THEN "set" ELSE "clear")
        /\ Return(a) /\ UNCHANGED systemProxy
  /\ UNCHANGED <<running, versioned, settingsProxy, proc, faulty>>

\* Mutant: run.system_proxy = on is forgotten.
SpSaveUnchanged(a) ==
  /\ pc[a] = "sp_save"
  /\ SaveState(a, loc[a].run, "idle")
  /\ UNCHANGED <<systemProxy, settingsProxy, proc, faulty>>

SpSave(a) ==
  /\ pc[a] = "sp_save"
  /\ SaveState(a, [loc[a].run EXCEPT !.sysproxy = loc[a].on], "idle")
  /\ UNCHANGED <<systemProxy, settingsProxy, proc, faulty>>

Sysproxy(a) == SpIntent(a) \/ SpLoad(a) \/ SpMigrate(a) \/ SpApply(a) \/ SpSave(a)

(***************************************************************************)
(* reconcile, called once when the GUI starts                              *)
(***************************************************************************)
BeginReconcile(a) == Begin(a, "rc_load", NoLocals)

\* Mutant: reconcile takes every record for a dead one's.
RcLoadUnchecked(a) ==
  /\ pc[a] = "rc_load"
  /\ IF versioned /\ running = NoRun THEN Return(a)
                                     ELSE LoadState(a, "rc_migrate", "rc_clear")
  /\ UNCHANGED <<running, versioned, systemProxy, settingsProxy, proc, faulty>>

RcLoad(a) ==
  /\ pc[a] = "rc_load"
  /\ IF versioned /\ (running = NoRun \/ PidMatches(running.pid, running.started))
       THEN Return(a)
       ELSE LoadState(a, "rc_migrate", "rc_clear")
  /\ UNCHANGED <<running, versioned, systemProxy, settingsProxy, proc, faulty>>

RcMigrate(a) == Migrate(a, "rc_migrate", "idle")

\* Mutant: only the record is reconciled.
RcClearSkipped(a) ==
  pc[a] = "rc_clear" /\ Goto(a, "rc_save")
  /\ UNCHANGED <<running, versioned, systemProxy, settingsProxy, proc, faulty, loc>>

RcClear(a) == ClearRecorded(a, "rc_clear", "rc_save")

RcSave(a) == Forget(a, "rc_save", "idle")

Reconcile(a) == RcLoad(a) \/ RcMigrate(a) \/ RcClear(a) \/ RcSave(a)

(***************************************************************************)
(* repair_network                                                          *)
(***************************************************************************)
BeginRepair(a) == Begin(a, "rp_clear", NoLocals)

RpClear(a) ==
  /\ pc[a] = "rp_clear"
  /\ TryClearProxy
  /\ Goto(a, "rp_load")
  /\ UNCHANGED <<running, versioned, settingsProxy, proc, faulty, loc>>

RpLoad(a) ==
  /\ pc[a] = "rp_load"
  /\ LoadState(a, "rp_migrate", "rp_kill")
  /\ UNCHANGED <<running, versioned, systemProxy, settingsProxy, proc, faulty>>

RpMigrate(a) == Migrate(a, "rp_migrate", "rp_kill")

RpKill(a) ==
  /\ pc[a] = "rp_kill"
  /\ \/ Alive(loc[a].run.pid) /\ Kill(loc[a].run.pid)
     \/ (Alive(loc[a].run.pid) => Fault("kill")) /\ UNCHANGED proc
  /\ Goto(a, "rp_save")
  /\ UNCHANGED <<running, versioned, systemProxy, settingsProxy, faulty, loc>>

RpSave(a) == Forget(a, "rp_save", "rp_sweep")

\* Mutant: repair ends at the recorded process.
RpSweepNothing(a) ==
  pc[a] = "rp_sweep" /\ Return(a)
  /\ UNCHANGED <<running, versioned, systemProxy, settingsProxy, proc, faulty>>

\* kill_leftover_singbox: every process called sing-box.exe, on Windows only.
RpSweep(a) ==
  /\ pc[a] = "rp_sweep"
  /\ \/ /\ Windows /\ ~Renamed
        /\ proc' = [p \in Pids |-> IF proc[p].kind = "core" THEN Dead(proc[p].born)
                                                            ELSE proc[p]]
     \/ (Windows /\ ~Renamed => Fault("kill")) /\ UNCHANGED proc
  /\ Return(a)
  /\ UNCHANGED <<running, versioned, systemProxy, settingsProxy, faulty>>

Repair(a) == RpClear(a) \/ RpLoad(a) \/ RpMigrate(a) \/ RpKill(a) \/ RpSave(a) \/ RpSweep(a)

(***************************************************************************)
(* status, attach, stats and connections only read, State::load's          *)
(* migration apart                                                         *)
(***************************************************************************)
BeginStatus(a) == Begin(a, "st_load", NoLocals)

StLoad(a) ==
  /\ pc[a] = "st_load"
  /\ IF versioned THEN Return(a) ELSE LoadState(a, "st_migrate", "idle")
  /\ UNCHANGED <<running, versioned, systemProxy, settingsProxy, proc, faulty>>

StMigrate(a) == Migrate(a, "st_migrate", "idle")

Status(a) == StLoad(a) \/ StMigrate(a)

(***************************************************************************)
(* The environment                                                         *)
(***************************************************************************)
\* A core binds its port; where it cannot, sing-box exits (ProcessExits).
CoreBinds(p) ==
  /\ proc[p].kind = "core" /\ ~proc[p].ready
  /\ ~Bound(proc[p].port)
  /\ proc' = [proc EXCEPT ![p].ready = TRUE]
  /\ UNCHANGED <<running, versioned, systemProxy, settingsProxy, faulty, pc, loc>>

\* A core crashes, or another program quits.
ProcessExits(p) ==
  /\ proc[p].kind # "none"
  /\ Kill(p)
  /\ UNCHANGED <<running, versioned, systemProxy, settingsProxy, faulty, pc, loc>>

\* Another program gets the pid and perhaps a port (another proxy client, which
\* may answer as the Clash API does).
ProgramStarts(p) ==
  /\ proc[p].kind = "none" /\ proc[p].born < MaxBorn
  /\ \E q \in Ports \cup {NoPort}, answers \in BOOLEAN :
       /\ IF q = NoPort THEN ~answers ELSE ~Bound(q)
       /\ proc' = [proc EXCEPT ![p] = [kind |-> "foreign", born |-> @.born + 1,
                                       port |-> q, ready |-> answers]]
  /\ UNCHANGED <<running, versioned, systemProxy, settingsProxy, faulty, pc, loc>>

\* The CLI or GUI process is killed in the middle of a command.
CallerKilled(a) ==
  /\ faulty /\ pc[a] \in CrashPoints \ {"idle"}
  /\ Return(a)
  /\ UNCHANGED <<running, versioned, systemProxy, settingsProxy, proc, faulty>>

FaultsEnd ==
  /\ faulty' = FALSE
  /\ UNCHANGED <<running, versioned, systemProxy, settingsProxy, proc, pc, loc>>

Environment == \/ \E p \in Pids : CoreBinds(p) \/ ProcessExits(p) \/ ProgramStarts(p)
               \/ \E a \in Actors : CallerKilled(a)
               \/ FaultsEnd

(***************************************************************************)
(* Specification                                                           *)
(***************************************************************************)
Init ==
  /\ running = NoRun /\ versioned \in StateFile
  /\ systemProxy = NoPort
  /\ settingsProxy \in BOOLEAN
  /\ proc = [p \in Pids |-> Dead(0)]
  /\ faulty = TRUE
  /\ pc = [a \in Actors |-> "idle"]
  /\ loc = [a \in Actors |-> NoLocals]

Call(a) == \/ BeginUp(a) \/ BeginDown(a) \/ BeginSysproxy(a)
           \/ BeginReconcile(a) \/ BeginRepair(a) \/ BeginStatus(a)

Step(a) == Up(a) \/ Down(a) \/ Sysproxy(a) \/ Reconcile(a) \/ Repair(a) \/ Status(a)

Next == (\E a \in Actors : Call(a) \/ Step(a)) \/ Environment

\* A thread inside a command keeps running until the command returns.
Fairness == \A a \in Actors : WF_vars(Step(a))

Spec == Init /\ [][Next]_vars /\ Fairness

(***************************************************************************)
(* Properties                                                              *)
(***************************************************************************)
Cores == {p \in Pids : proc[p].kind = "core"}

Quiet == \A a \in Actors : pc[a] = "idle"

\* Between commands the OS proxy setting is what the record says it is: on at
\* the recorded port iff the record says `up` or `sysproxy on` set it.  (up,
\* down, set_sysproxy, reconcile and repair keep state.json and the setting in
\* step on every path that meets no I/O failure and is not cut short.)
ProxyAsRecorded ==
  Quiet => systemProxy = IF running.sysproxy THEN running.port ELSE NoPort

\* Between commands a proxy setting that is on is one the record accounts for,
\* so that a later up, down or reconcile will clear it.
ProxyAccounted ==
  Quiet /\ systemProxy # NoPort => running.sysproxy /\ running.port = systemProxy

\* A live sing-box is the recorded one or the one an `up` under way is waiting
\* for: no path of up, down or repair loses a core it started.
NoOrphanCore ==
  \A p \in Cores :
    \/ p = running.pid
    \/ \E a \in Actors : /\ pc[a] \in {"up_poll", "up_check", "up_proxy", "up_save"}
                         /\ loc[a].pid = p

\* If the recorded pid is a sing-box at all it is the very instance recorded,
\* at the recorded port: attach, status, stats and `sysproxy` reach it.
RecordReachesItsCore ==
  running.pid \in Cores =>
    /\ PidMatches(running.pid, running.started)
    /\ proc[running.pid].port = running.port

\* An `up` never ends its wait on the answer of a sing-box other than the one it
\* started: no core that an earlier `up` gave up on, stopped or lost is still there
\* to answer on the port it chose.  (A program that is not sing-box may be: up
\* cannot tell its answer from its own core's.)
NoStaleCoreAnswers ==
  [][\A a \in Actors :
       pc[a] = "up_poll" /\ pc'[a] = "up_proxy" =>
         \A p \in Cores : proc[p].ready /\ proc[p].port = loc[a].port => p = loc[a].pid]_vars

\* When reconcile returns with no failure left to blame, the OS proxy is off or
\* belongs to the process it found running.
ReconcileHeals ==
  [][\A a \in Actors :
       (RcLoad(a) \/ RcMigrate(a) \/ RcSave(a)) /\ pc'[a] = "idle" /\ ~faulty =>
         systemProxy' = NoPort \/ (running'.sysproxy /\ running'.port = systemProxy')]_vars

\* Every command returns: the wait for the Clash API is bounded.
CommandReturns == \A a \in Actors : pc[a] # "idle" ~> pc[a] = "idle"

\* Whatever failures, kills and exits came before, a repair that meets none of
\* them and no other command leaves the proxy off, no record and no sing-box.
\* (On Windows, with a core that goes by its own name.)
Repaired == systemProxy = NoPort /\ running = NoRun /\ Cores = {}

OthersIdle(a) == \A b \in Actors \ {a} : pc[b] = "idle"

RepairHeals ==
  \A a \in Actors :
    pc[a] = "rp_clear" /\ ~faulty /\ OthersIdle(a) ~> Repaired \/ ~OthersIdle(a)

\* state.json coordinates the callers: once every command has returned, a live
\* sing-box is the recorded one.
RecordOwnsTheCore == Quiet => Cores \subseteq {running.pid}

(***************************************************************************)
(* The inductive invariant behind ProxyAccounted, for one caller at a time *)
(* and a clear_system_proxy and a State::save that do not fail.            *)
(***************************************************************************)
Accounted == systemProxy # NoPort => running.sysproxy /\ running.port = systemProxy

\* Where the OS proxy may be ahead of the record.
Window == {"up_save", "sp_save"}

\* Where the command holds a copy of the current record, ...
Holding == {"up_clear", "up_stop", "down_clear", "down_kill",
            "sp_apply", "sp_save", "rc_clear"}

\* Where State::load has met no file, ...
Migrating == {"up_migrate", "down_migrate", "sp_migrate", "rc_migrate", "rp_migrate",
              "st_migrate"}

\* ... where it has made sure the proxy is off, ...
ProxyDown == Migrating \cup
             {"up_stop", "up_forget", "up_prepare", "up_spawn", "up_poll", "up_check",
              "up_proxy", "down_kill", "down_save", "rc_save",
              "rp_load", "rp_kill", "rp_save", "rp_sweep"}

\* ... and where the record is empty.
Unrecorded == Migrating \cup
              {"up_prepare", "up_spawn", "up_poll", "up_check", "up_proxy", "up_save"}

CallerInv(a) ==
  /\ pc[a] \in Holding => loc[a].run = running
  /\ pc[a] \in ProxyDown => systemProxy = NoPort
  /\ pc[a] \in Unrecorded => running = NoRun
  /\ pc[a] = "up_save" => systemProxy = IF loc[a].on THEN loc[a].port ELSE NoPort
  /\ pc[a] = "sp_save" => systemProxy = IF loc[a].on THEN loc[a].run.port ELSE NoPort

\* The proxy setting and the record agree at every control point: outside the
\* two windows a proxy that is on is accounted for, inside them the caller's
\* locals say what it points at (up 260-280, set_sysproxy 323-329).
ProxyInv ==
  /\ (\A a \in Actors : pc[a] \notin Window) => Accounted
  /\ \A a \in Actors : CallerInv(a)

(***************************************************************************)
(* A command is one step of Engine (two for `up`), for one caller at a     *)
(* time: it takes effect where it writes the record.  Inside a command the *)
(* OS proxy counts as what the record says, between commands as it is.     *)
(***************************************************************************)
CommandOf(label) ==
  CASE label = "idle" -> "idle"
    [] label \in {"down_load", "down_migrate", "down_clear", "down_kill", "down_save"} -> "down"
    [] label \in {"sp_intent", "sp_load", "sp_migrate", "sp_apply", "sp_save"} -> "sysproxy"
    [] label \in {"rc_load", "rc_migrate", "rc_clear", "rc_save"} -> "reconcile"
    [] label \in {"rp_clear", "rp_load", "rp_migrate", "rp_kill", "rp_save", "rp_sweep"} -> "repair"
    [] label \in {"st_load", "st_migrate"} -> "status"
    [] label \in {"up_load", "up_migrate", "up_clear", "up_stop", "up_forget", "up_prepare",
                  "up_spawn", "up_poll", "up_check", "up_proxy", "up_save"} -> "up"

Command == IF Quiet THEN "idle"
           ELSE CommandOf(pc[CHOOSE a \in Actors : pc[a] # "idle"])

\* What status finds of the record, and whether the start time is in it.
Live == PidMatches(running.pid, running.started)
Timed == running.started # NoTime

RecordedProxy == IF running.sysproxy THEN running.port ELSE NoPort
Proxy == IF Quiet THEN systemProxy ELSE RecordedProxy

Eng == INSTANCE Engine WITH command <- Command, port <- running.port,
                            timed <- Timed, live <- Live, proxy <- Proxy

\* What runs, what is recorded and where the proxy points change only as the
\* commands promise: a core that has died is never taken for running again
\* (unless it died before its start time was read), and reconcile, down and the
\* restart in up forget a record together with its process and its proxy.
CommandsAreAtomic == Eng!Spec
=============================================================================
