------------------------------- MODULE Engine -------------------------------
(***************************************************************************)
(* What the GUI, the CLI and a user rely on when one command of the engine *)
(* runs at a time and none is cut short: the whole of it is seen at once,  *)
(* where it saves state.json.  Only the end of an `up` makes an instance   *)
(* run, and only on a clean slate; one that is gone stays gone; reconcile  *)
(* forgets none that runs; the proxy points at the recorded instance.      *)
(***************************************************************************)
CONSTANTS
  Ports, NoPort,
  Windows    \* TRUE iff the start time of a process can be read

VARIABLES
  command,   \* what is under way, or "idle"
  port,      \* where the recorded instance listens, NoPort if none is recorded
  timed,     \* its start time is recorded
  live,      \* pid_matches holds of it: status says that it is running
  proxy      \* where the OS proxy points, NoPort if it is off

instance == <<port, timed, live>>
vars == <<command, instance, proxy>>

Init == /\ command = "idle"
        /\ port = NoPort /\ timed = FALSE /\ live = FALSE
        /\ proxy = NoPort

Call == /\ command = "idle"
        /\ command' \in {"up", "down", "sysproxy", "reconcile", "repair", "status"}
        /\ UNCHANGED <<instance, proxy>>

\* A command returns without effect, as status always does, or after all it does.
Return == /\ command # "idle"
          /\ command' = "idle"
          /\ UNCHANGED <<instance, proxy>>

Forget == port' = NoPort /\ timed' = FALSE /\ live' = FALSE /\ proxy' = NoPort

\* The first half of up, which restarts what runs.
UpStops == command = "up" /\ Forget /\ UNCHANGED command

\* The second: the new instance, which may be gone already when it is recorded.
UpStarts == /\ command = "up" /\ port = NoPort
            /\ port' \in Ports
            /\ live' \in BOOLEAN /\ timed' = (live' /\ Windows)
            /\ proxy' \in {port', NoPort}
            /\ command' = "idle"

Down == command = "down" /\ Forget /\ command' = "idle"

Sysproxy == /\ command = "sysproxy"
            /\ proxy' \in {port, NoPort}
            /\ command' = "idle"
            /\ UNCHANGED instance

\* What runs is forgotten only if it may be another program.
Reconcile == /\ command = "reconcile"
             /\ live => ~timed
             /\ Forget
             /\ command' = "idle"

Repair == command = "repair" /\ Forget /\ UNCHANGED command

Dies == live /\ live' = FALSE /\ UNCHANGED <<command, port, timed, proxy>>

\* Another program has the pid of a record without a start time.
Mistaken == /\ port # NoPort /\ ~timed
            /\ ~live /\ live' = TRUE
            /\ UNCHANGED <<command, port, timed, proxy>>

Next == \/ Call \/ Return
        \/ UpStops \/ UpStarts \/ Down \/ Sysproxy \/ Reconcile \/ Repair
        \/ Dies \/ Mistaken

Spec == Init /\ [][Next]_vars
=============================================================================
