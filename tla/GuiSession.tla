----------------------------- MODULE GuiSession -----------------------------
(***************************************************************************)
(* The GUI's side of the core's life (guderray-gui/main.rs): launch with   *)
(* auto-connect, the Start, Stop, Repair and Refresh buttons, the tray     *)
(* menu, and the 1.5s status timer with its watchdog, next to a CLI that   *)
(* starts and stops the core behind the GUI's back.                        *)
(*                                                                         *)
(* Callbacks and timers run one at a time on the event loop, and the       *)
(* engine commands they call there are seen by their outcome on state.json *)
(* and the core; Lifecycle has their steps.  An `up` elsewhere, in the     *)
(* auto-connect thread or in a CLI process, has two: the old instance is   *)
(* stopped, and seconds later the new one is recorded.                     *)
(***************************************************************************)
CONSTANTS
  Profiles,   \* profile ids
  NoProfile,
  Failures    \* TRUE iff the engine's commands may fail for a time

ASSUME ProfilesAssumption == NoProfile \notin Profiles
ASSUME FailuresAssumption == Failures \in BOOLEAN

VARIABLES
  faulty,      \* engine commands still fail
  run,         \* profile of the instance state.json records, or NoProfile
  alive,       \* pid_matches holds of it
  known,       \* profiles profiles.json still holds
  settings,    \* auto_connect, auto_restart, last_profile_id: cache and disk
  open,        \* the GUI is running
  isRunning,   \* the window's is-running property
  wasRunning,  \* the watchdog's was_running
  starting     \* the `up` of the auto-connect thread and of a CLI process

vars == <<faulty, run, alive, known, settings, open, isRunning, wasRunning, starting>>
engine == <<run, alive>>

Others == {"thread", "cli"}

MaybeProfile == Profiles \cup {NoProfile}

Idle == [profile |-> NoProfile, stopped |-> FALSE]
Starts(p) == [profile |-> p, stopped |-> FALSE]

\* A closed GUI has no window, no timer and no thread.
TypeOK ==
  /\ faulty \in BOOLEAN
  /\ run \in MaybeProfile /\ alive \in BOOLEAN
  /\ known \subseteq Profiles
  /\ settings \in [auto_connect : BOOLEAN, auto_restart : BOOLEAN, last : MaybeProfile]
  /\ open \in BOOLEAN /\ isRunning \in BOOLEAN /\ wasRunning \in BOOLEAN
  /\ starting \in [Others -> [profile : MaybeProfile, stopped : BOOLEAN]]
  /\ ~open => ~isRunning /\ ~wasRunning /\ starting["thread"] = Idle

\* engine::status: "running".
Running == run # NoProfile /\ alive

Engine(r, l) == run' = r /\ alive' = l

\* down: stopped and forgotten; or the kill failed; or the save after it did.
EngineDown == \/ Engine(NoProfile, FALSE)
              \/ faulty /\ run' = run /\ alive' \in {alive, FALSE}

\* up(p): started; or refused before, or failed after, the old one was stopped.
\* A profile that is not in the store is refused before anything is done.
EngineUp(p) == \/ p \in known /\ (Engine(p, TRUE) \/ (faulty /\ EngineDown))
               \/ p \notin known /\ UNCHANGED engine

\* The first half of the `up` of another: the old instance is stopped and
\* forgotten, or the command ends there.
UpStops(a) ==
  LET p == starting[a].profile IN
  /\ p # NoProfile /\ ~starting[a].stopped
  /\ \/ /\ p \in known /\ Engine(NoProfile, FALSE)
        /\ starting' = [starting EXCEPT ![a].stopped = TRUE]
     \/ /\ \/ p \in known /\ faulty /\ run' = run /\ alive' \in {alive, FALSE}
           \/ p \notin known /\ UNCHANGED engine
        /\ starting' = [starting EXCEPT ![a] = Idle]
  /\ UNCHANGED <<faulty, known, settings, open, isRunning, wasRunning>>

\* The second half: the new core answers and is recorded, or is given up.
UpStarts(a) ==
  /\ starting[a].stopped
  /\ Engine(starting[a].profile, TRUE) \/ (faulty /\ UNCHANGED engine)
  /\ starting' = [starting EXCEPT ![a] = Idle]
  /\ UNCHANGED <<faulty, known, settings, open, isRunning, wasRunning>>

\* apply_status after the engine call of the same callback: a status that
\* fails is shown as "not running".
ApplyStatus == \/ isRunning' = (run' # NoProfile /\ alive')
               \/ faulty /\ isRunning' = FALSE

\* main: reconcile (its error is ignored), load the cache, decide on auto-connect
\* from the window's is-running, which is still its initial FALSE, and only then
\* apply_status.
Launch ==
  /\ ~open /\ open' = TRUE
  /\ IF Running THEN UNCHANGED engine ELSE EngineDown
  /\ \E assets_ready \in BOOLEAN :
       starting' = IF settings.auto_connect /\ assets_ready /\ ~isRunning
                     THEN [starting EXCEPT !["thread"] = Starts(settings.last)]
                     ELSE starting
  /\ ApplyStatus
  /\ wasRunning' = FALSE
  /\ UNCHANGED <<faulty, known, settings>>

\* on_select makes the row the last profile, running or not.  The row may be
\* of a profile another process has deleted.
Select ==
  /\ open
  /\ \E p \in Profiles : settings' = [settings EXCEPT !.last = p]
  /\ UNCHANGED <<faulty, run, alive, known, open, isRunning, wasRunning, starting>>

\* The selected row is the last profile, or none after a deletion, which starts
\* as little as a deleted profile.
StartSelected ==
  /\ open /\ settings.last # NoProfile
  /\ EngineUp(settings.last) /\ ApplyStatus
  /\ UNCHANGED <<faulty, known, settings, open, wasRunning, starting>>

\* on_stop_proxy and the tray's stop item.
StopProxy ==
  /\ open
  /\ EngineDown /\ ApplyStatus
  /\ UNCHANGED <<faulty, known, settings, open, wasRunning, starting>>

\* on_repair_network: what it stops or fails to stop is what down does.
RepairNetwork ==
  /\ open
  /\ EngineDown /\ ApplyStatus
  /\ UNCHANGED <<faulty, known, settings, open, wasRunning, starting>>

Refresh ==
  /\ open
  /\ UNCHANGED engine /\ ApplyStatus
  /\ UNCHANGED <<faulty, known, settings, open, wasRunning, starting>>

ToggleAutoConnect ==
  /\ open
  /\ settings' = [settings EXCEPT !.auto_connect = ~@]
  /\ UNCHANGED <<faulty, run, alive, known, open, isRunning, wasRunning, starting>>

\* Mutant: a `was_running` that outlives the event loop.
ClosedKeepsEdge == /\ open' = FALSE /\ isRunning' = FALSE /\ wasRunning' = wasRunning
                   /\ starting' = [starting EXCEPT !["thread"] = Idle]

Closed == /\ open' = FALSE /\ isRunning' = FALSE /\ wasRunning' = FALSE
          /\ starting' = [starting EXCEPT !["thread"] = Idle]

\* The tray's quit item stops the core and leaves, its thread with it.
Quit == open /\ EngineDown /\ Closed /\ UNCHANGED <<faulty, known, settings>>

\* The GUI is killed; the core is detached and lives on.
GuiKilled == open /\ Closed /\ UNCHANGED <<faulty, run, alive, known, settings>>

\* What the timer's own apply_status may show.
Seen == {Running} \cup {shown \in {FALSE} : faulty}

\* The watchdog acts on the edge from a tick that saw a core to one that does not.
CoreLost(shown) == wasRunning /\ ~shown

Restarts(shown) == CoreLost(shown) /\ settings.auto_restart /\ settings.last # NoProfile

\* Mutant: the status is applied and remembered before the two are compared.
TickComparesNew ==
  /\ open
  /\ UNCHANGED engine /\ ApplyStatus /\ wasRunning' = isRunning'
  /\ UNCHANGED <<faulty, known, settings, open, starting>>

\* Mutant: the timer leaves the window's status to the buttons.
TickWithoutStatus ==
  /\ open
  /\ IF Restarts(Running) THEN EngineUp(settings.last) ELSE UNCHANGED engine
  /\ wasRunning' = isRunning
  /\ UNCHANGED <<faulty, known, settings, open, isRunning, starting>>

\* poll_status_tick: the status is applied, and again after a restart.
Tick ==
  /\ open
  /\ \E shown \in Seen :
       IF Restarts(shown)
         THEN EngineUp(settings.last) /\ ApplyStatus
         ELSE UNCHANGED engine /\ isRunning' = shown
  /\ wasRunning' = isRunning'
  /\ UNCHANGED <<faulty, known, settings, open, starting>>

\* A CLI process runs `up`; its two halves follow.
CliUp == /\ starting["cli"] = Idle
         /\ \E p \in Profiles : starting' = [starting EXCEPT !["cli"] = Starts(p)]
         /\ UNCHANGED <<faulty, run, alive, known, settings, open, isRunning, wasRunning>>

CliDown == /\ EngineDown
           /\ UNCHANGED <<faulty, known, settings, open, isRunning, wasRunning, starting>>

\* A profile is deleted, in the GUI, by the CLI or by a subscription's update;
\* last_profile_id keeps its id.
ProfileGone == /\ \E p \in known : known' = known \ {p}
               /\ UNCHANGED <<faulty, run, alive, settings, open, isRunning, wasRunning, starting>>

CoreDies == /\ Running
            /\ alive' = FALSE
            /\ UNCHANGED <<faulty, run, known, settings, open, isRunning, wasRunning, starting>>

\* auto_restart has no control in the GUI: it is what the settings file says.
Init ==
  /\ faulty = Failures
  /\ run = NoProfile /\ alive = FALSE
  /\ known = Profiles
  /\ settings \in [auto_connect : BOOLEAN, auto_restart : BOOLEAN, last : {NoProfile}]
  /\ open = FALSE /\ isRunning = FALSE /\ wasRunning = FALSE
  /\ starting = [a \in Others |-> Idle]

\* What made the commands fail is gone for good.
FailuresEnd == /\ faulty /\ faulty' = FALSE
               /\ UNCHANGED <<run, alive, known, settings, open, isRunning, wasRunning, starting>>

Buttons == Select \/ StartSelected \/ StopProxy \/ RepairNetwork \/ Refresh \/ ToggleAutoConnect

Next == \/ Launch \/ Buttons \/ Quit \/ GuiKilled \/ Tick
        \/ CliUp \/ CliDown \/ ProfileGone \/ CoreDies \/ FailuresEnd
        \/ \E a \in Others : UpStops(a) \/ UpStarts(a)

\* The repeated timer keeps firing while the event loop runs; an `up` that was
\* begun goes on unless its process is gone.
Spec == /\ Init /\ [][Next]_vars
        /\ WF_vars(Tick)
        /\ \A a \in Others : WF_vars(UpStops(a)) /\ WF_vars(UpStarts(a))

(***************************************************************************)
(* Properties                                                              *)
(***************************************************************************)
\* With auto_restart on, a core the timer has seen and then finds dead is
\* started again, unless the GUI goes first or the last profile is one that was
\* deleted (main.rs:1378-1401).  A restart that fails is not tried again, so no
\* failure is left to come.
WatchdogReconnects ==
  (/\ ~faulty /\ open /\ wasRunning /\ ~Running
   /\ settings.auto_restart /\ settings.last \in known)
    ~> Running \/ ~open \/ settings.last \notin known

\* A core the GUI's own buttons did not start (the thread's, the CLI's, the
\* watchdog's) is shown by the next tick whose status can be read, whatever was
\* shown before (main.rs:584-602, 1378-1401).
ShownAfterATick == ~faulty /\ open /\ Running ~> isRunning \/ ~Running \/ ~open

\* "Restart automatically if the managed sing-box process dies" (store.rs:299):
\* what sets the watchdog off is a recorded core that died, not one that was
\* stopped, and not one another `up` is about to replace.
RestartsOnlyTheDead == open /\ Restarts(Running) => run # NoProfile

\* "auto-connect the last profile on launch, if enabled and nothing is running
\* yet" (main.rs:1649): a launch over a running core starts nothing.
AutoConnectOnlyWhenIdle == [][Launch /\ Running => starting'["thread"] = Idle]_vars
=============================================================================
