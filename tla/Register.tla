------------------------------ MODULE Register ------------------------------
(***************************************************************************)
(* What the users of a JSON store may rely on: save replaces the whole     *)
(* value in one step or leaves it alone, and load returns the latest value *)
(* saved, or the default if nothing ever was.  Where a rename may fail, a  *)
(* save that is under way may also fall back to the default.               *)
(***************************************************************************)
CONSTANTS Writers, Values, Default,
          Loses  \* TRUE iff a save may lose the old value

VARIABLES
  value,   \* what load returns
  pending  \* pending[w]: what w is saving, Default if nothing

vars == <<value, pending>>

Init == value = Default /\ pending = [w \in Writers |-> Default]

\* w starts to save v.
Start(w) == /\ pending[w] = Default
            /\ \E v \in Values : pending' = [pending EXCEPT ![w] = v]
            /\ UNCHANGED value

\* The save takes effect and returns.
Commit(w) == /\ pending[w] # Default
             /\ value' = pending[w]
             /\ pending' = [pending EXCEPT ![w] = Default]

\* The save fails, or its caller is killed: nothing has changed.
Abort(w) == /\ pending[w] # Default
            /\ pending' = [pending EXCEPT ![w] = Default]
            /\ UNCHANGED value

\* The old value is gone before the new one is there.
Lose(w) == /\ Loses /\ pending[w] # Default
           /\ value' = Default
           /\ UNCHANGED pending

Next == \E w \in Writers : Start(w) \/ Commit(w) \/ Abort(w) \/ Lose(w)

Spec == Init /\ [][Next]_vars
=============================================================================
