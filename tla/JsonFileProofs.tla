--------------------------- MODULE JsonFileProofs ---------------------------
(***************************************************************************)
(* One writer at a time: a JSON store is a register (Register), for all    *)
(* contents and files, though writes and renames fail and the writer is    *)
(* killed.                                                                 *)
(***************************************************************************)
EXTENDS JsonFile, TLAPS

USE ValuesAssumption, FilesAssumption

\* The store has one writer.
SoleWriter == \A w, x \in Writers : w = x

LEMMA InitType == Init => TypeOK /\ Saving
  BY DEF Init, TypeOK, Saving, Labels

LEMMA ReturnType ==
  ASSUME TypeOK, Saving, NEW w \in Writers, Return(w)
  PROVE  /\ pc' \in [Writers -> Labels]
         /\ val' \in [Writers -> Values \cup {Default}]
         /\ fd' \in [Writers -> Files \cup {NoFile}]
         /\ Saving'
  BY DEF TypeOK, Saving, Return, Goto, Labels

\* A step within write_json.
LEMMA GotoType ==
  ASSUME TypeOK, Saving, NEW w \in Writers, NEW l \in Labels \ {"idle"}, pc[w] # "idle",
         Goto(w, l), UNCHANGED val
  PROVE  pc' \in [Writers -> Labels] /\ Saving'
  BY DEF TypeOK, Saving, Goto

LEMMA RenamedType ==
  ASSUME TypeOK, Saving, NEW w \in Writers, Renamed(w), UNCHANGED content
  PROVE  TypeOK' /\ Saving'
  BY ReturnType DEF TypeOK, Renamed

LEMMA NextType == TypeOK /\ Saving /\ [Next]_vars => TypeOK' /\ Saving'
<1> SUFFICES ASSUME TypeOK, Saving, [Next]_vars PROVE TypeOK' /\ Saving'
  OBVIOUS
<1> DEFINE Goal == TypeOK' /\ Saving'
<1>1. ASSUME NEW w \in Writers, Begin(w) PROVE Goal
  BY <1>1 DEF TypeOK, Saving, Begin, Goto, Labels
<1>2. ASSUME NEW w \in Writers, Create(w) PROVE Goal
  <2>1. CASE Return(w)
    BY <1>2, <2>1, ReturnType DEF TypeOK, Create
  <2>2. CASE Goto(w, "write") /\ UNCHANGED val
    <3>1. pc' \in [Writers -> Labels] /\ Saving'
      BY <1>2, <2>2, GotoType DEF Create, Labels
    <3> QED
      BY <1>2, <2>2, <3>1 DEF TypeOK, Create, Return
  <2> QED
    BY <1>2, <2>1, <2>2 DEF Create
<1>3. ASSUME NEW w \in Writers, Write(w) PROVE Goal
  <2>1. CASE Return(w) /\ UNCHANGED content
    BY <1>3, <2>1, ReturnType DEF TypeOK, Write
  <2>2. CASE /\ content' = [content EXCEPT ![fd[w]] = val[w]]
             /\ fd' = [fd EXCEPT ![w] = NoFile]
             /\ Goto(w, "rename") /\ UNCHANGED val
    <3>1. val[w] \in Values
      BY <1>3 DEF Write, TypeOK, Saving
    <3>2. pc' \in [Writers -> Labels] /\ Saving'
      BY <1>3, <2>2, GotoType DEF Write, Labels
    <3> QED
      BY <1>3, <2>2, <3>1, <3>2 DEF TypeOK, Write
  <2> QED
    BY <1>3, <2>1, <2>2 DEF Write
<1>4. ASSUME NEW w \in Writers, Rename(w) PROVE Goal
  <2>1. CASE Renamed(w)
    BY <1>4, <2>1, RenamedType DEF Rename
  <2>2. CASE NotRenamed /\ Goto(w, "exists") /\ UNCHANGED <<val, fd>>
    BY <1>4, <2>2, GotoType DEF TypeOK, Rename, NotRenamed, Labels
  <2> QED
    BY <1>4, <2>1, <2>2 DEF Rename
<1>5. ASSUME NEW w \in Writers, Exists(w) PROVE Goal
  BY <1>5, ReturnType, GotoType DEF TypeOK, Exists, Labels
<1>6. ASSUME NEW w \in Writers, Remove(w) PROVE Goal
  BY <1>6, ReturnType, GotoType DEF TypeOK, Remove, Labels
<1>7. ASSUME NEW w \in Writers, RenameAgain(w) PROVE Goal
  BY <1>7, RenamedType, ReturnType DEF TypeOK, RenameAgain, NotRenamed
<1>8. ASSUME NEW w \in Writers, Kill(w) PROVE Goal
  BY <1>8, ReturnType DEF TypeOK, Kill
<1>9. CASE UNCHANGED vars
  BY <1>9 DEF TypeOK, Saving, vars
<1> QED
  BY <1>1, <1>2, <1>3, <1>4, <1>5, <1>6, <1>7, <1>8, <1>9 DEF Next, Step

\* The names, the files and every writer's locals keep their types, with any
\* number of writers and every failure.
THEOREM TypeCorrect == Spec => [](TypeOK /\ Saving)
  BY InitType, NextType, PTL DEF Spec

(***************************************************************************)
(* Refinement                                                              *)
(***************************************************************************)
LEMMA InitFile == Init => FileInv
  BY DEF Init, FileInv

\* One step at a time: the file invariant is kept, and what load returns and
\* the writers are saving makes a step of the register, or none.
LEMMA StepRefines ==
  ASSUME SoleWriter, TypeOK, Saving, FileInv,
         NEW w \in Writers, Begin(w) \/ Step(w) \/ Kill(w)
  PROVE  FileInv' /\ [Reg!Next]_<<Loaded, val>>
<1> DEFINE Goal == FileInv' /\ [Reg!Next]_<<Loaded, val>>
<1>0. \A x \in Writers : x = w
  BY DEF SoleWriter
<1>a. ASSUME Return(w), pc[w] # "idle", UNCHANGED <<path, content>>,
             tmp' # NoFile => tmp' # path
      PROVE  Goal
  <2>1. FileInv'
    BY <1>0, <1>a DEF FileInv, TypeOK, Return, Goto
  <2>2. val[w] # Default /\ UNCHANGED Loaded
    BY <1>a DEF Saving, Loaded
  <2>3. Reg!Abort(w)
    BY <1>a, <2>2 DEF Reg!Abort, Return
  <2> QED
    BY <2>1, <2>3 DEF Reg!Next
<1>1. CASE Begin(w)
  <2>1. FileInv'
    BY <1>0, <1>1 DEF Begin, FileInv, TypeOK, Goto
  <2>2. UNCHANGED Loaded
    BY <1>1 DEF Begin, Loaded
  <2>3. Reg!Start(w)
    BY <1>1, <2>2 DEF Begin, Reg!Start, Saving
  <2> QED
    BY <2>1, <2>3 DEF Reg!Next
<1>2. CASE Create(w)
  <2>1. CASE Return(w) /\ UNCHANGED <<tmp, content>>
    BY <1>2, <2>1, <1>a DEF Create, FileInv
  <2>2. CASE Goto(w, "write") /\ UNCHANGED val
    <3>1. PICK f \in Files : /\ f # path /\ tmp' = f
                             /\ content' = [content EXCEPT ![f] = Torn]
                             /\ fd' = [fd EXCEPT ![w] = f]
      BY <1>2, <2>2 DEF Create, Return, Goto, TypeOK, FileInv
    <3>2. UNCHANGED path /\ (path # NoFile => content'[path] = content[path])
      BY <1>2, <3>1 DEF Create, TypeOK
    <3>3. FileInv'
      BY <1>0, <2>2, <3>1, <3>2 DEF FileInv, TypeOK, Goto
    <3>4. UNCHANGED <<Loaded, val>>
      BY <2>2, <3>2 DEF Loaded
    <3> QED
      BY <3>3, <3>4
  <2> QED
    BY <1>2, <2>1, <2>2 DEF Create
<1>3. CASE Write(w)
  <2>0. tmp # NoFile /\ fd[w] = tmp /\ tmp # path /\ UNCHANGED <<path, tmp>>
    BY <1>3 DEF Write, FileInv
  <2>1. CASE Return(w) /\ UNCHANGED content
    BY <1>3, <2>0, <2>1, <1>a DEF Write
  <2>2. CASE /\ content' = [content EXCEPT ![fd[w]] = val[w]]
             /\ Goto(w, "rename") /\ UNCHANGED val
    <3>1. content'[tmp] = val[w] /\ (path # NoFile => content'[path] = content[path])
      BY <2>0, <2>2 DEF TypeOK
    <3>2. FileInv'
      BY <1>0, <2>0, <2>2, <3>1 DEF FileInv, TypeOK, Goto
    <3>3. UNCHANGED <<Loaded, val>>
      BY <2>0, <2>2, <3>1 DEF Loaded
    <3> QED
      BY <3>2, <3>3
  <2> QED
    BY <1>3, <2>1, <2>2 DEF Write
<1>b. ASSUME pc[w] \in {"rename", "exists", "remove", "again"}
      PROVE  /\ tmp # NoFile /\ tmp # path /\ content[tmp] = val[w]
             /\ val[w] # Default /\ val[w] \in Values
  BY <1>b DEF FileInv, Saving, TypeOK
<1>c. ASSUME Renamed(w), UNCHANGED content, pc[w] \in {"rename", "again"}
      PROVE  Goal
  <2>1. path' = tmp /\ tmp' = NoFile /\ Return(w)
    BY <1>c DEF Renamed
  <2>2. FileInv'
    BY <1>0, <1>b, <1>c, <2>1 DEF FileInv, TypeOK, Return, Goto
  <2>3. Loaded' = val[w]
    BY <1>b, <1>c, <2>1 DEF Loaded
  <2>4. Reg!Commit(w)
    BY <1>b, <1>c, <2>1, <2>3 DEF Reg!Commit, Return
  <2> QED
    BY <2>2, <2>4 DEF Reg!Next
\* On the way to the next access, with nothing changed.
<1>d. ASSUME NEW l \in {"exists", "remove"}, Goto(w, l), RenameFails,
             UNCHANGED <<path, tmp, content, val, fd>>, pc[w] \in {"rename", "exists"}
      PROVE  Goal
  <2>1. FileInv'
    BY <1>0, <1>b, <1>d DEF FileInv, TypeOK, Goto
  <2> QED
    BY <1>d, <2>1 DEF Loaded
<1>4. CASE Rename(w)
  BY <1>4, <1>b, <1>c, <1>d DEF Rename, NotRenamed
<1>5. CASE Exists(w)
  BY <1>5, <1>a, <1>b, <1>d DEF Exists, FileInv
<1>7. CASE Remove(w)
  <2>1. CASE UNCHANGED path /\ Return(w)
    BY <1>7, <2>1, <1>a, <1>b DEF Remove
  <2>2. CASE path # NoFile /\ path' = NoFile /\ Goto(w, "again") /\ UNCHANGED <<val, fd>>
    <3>1. FileInv'
      BY <1>0, <1>b, <1>7, <2>2 DEF FileInv, TypeOK, Remove, Goto
    <3>2. Loaded' = Default /\ UNCHANGED val
      BY <1>7, <2>2 DEF Remove, Loaded
    <3>3. Reg!Lose(w)
      BY <1>b, <1>7, <3>2 DEF Remove, FileInv, Reg!Lose
    <3> QED
      BY <3>1, <3>3 DEF Reg!Next
  <2> QED
    BY <1>7, <2>1, <2>2 DEF Remove
<1>8. CASE RenameAgain(w)
  <2>1. CASE NotRenamed /\ Return(w)
    BY <1>8, <2>1, <1>a, <1>b DEF RenameAgain, NotRenamed
  <2> QED
    BY <1>8, <2>1, <1>c DEF RenameAgain
<1>6. CASE Kill(w)
  BY <1>6, <1>a DEF Kill, FileInv
<1> QED
  BY <1>1, <1>2, <1>3, <1>4, <1>5, <1>6, <1>7, <1>8 DEF Step

LEMMA NextRefines ==
  ASSUME SoleWriter
  PROVE  TypeOK /\ Saving /\ FileInv /\ [Next]_vars
           => FileInv' /\ [Reg!Next]_<<Loaded, val>>
<1> SUFFICES ASSUME TypeOK, Saving, FileInv, [Next]_vars
             PROVE  FileInv' /\ [Reg!Next]_<<Loaded, val>>
  OBVIOUS
<1>1. CASE UNCHANGED vars
  BY <1>1 DEF vars, FileInv, Loaded
<1> QED
  BY <1>1, StepRefines DEF Next

LEMMA InitRefines == Init => Reg!Init
  BY DEF Init, Reg!Init, Loaded

\* What is under the file's name is whole, and what is renamed over it is the
\* complete new content, at every point of write_json.
THEOREM FileInvariant ==
  ASSUME SoleWriter
  PROVE  Spec => []FileInv
<1>1. TypeOK /\ Saving /\ FileInv /\ [Next]_vars => FileInv'
  BY NextRefines
<1> QED
  BY <1>1, InitFile, TypeCorrect, PTL DEF Spec

\* write_json removes the old file only with the new one ready to take its place.
THEOREM RemovalIsSafe ==
  ASSUME SoleWriter
  PROVE  Spec => RemovedOnlyWhenReplaceable
<1>1. FileInv /\ [Next]_vars
        => [\A w \in Writers :
              Remove(w) /\ path' # path => tmp # NoFile /\ content[tmp] = val[w]]_vars
  BY DEF FileInv, Remove
<1> QED
  BY <1>1, FileInvariant, PTL DEF Spec, RemovedOnlyWhenReplaceable

\* A save by the only writer takes effect at once or not at all, but for the
\* default it may pass through where a rename can fail: write_json and read_json
\* implement a register.
THEOREM SaveIsAtomic ==
  ASSUME SoleWriter
  PROVE  Spec => AtomicSave
<1>1. TypeOK /\ Saving /\ FileInv /\ [Next]_vars => [Reg!Next]_<<Loaded, val>>
  BY NextRefines
<1>2. Spec => [][Reg!Next]_<<Loaded, val>>
  BY <1>1, FileInvariant, TypeCorrect, PTL DEF Spec
<1> QED
  BY <1>2, InitRefines, PTL DEF Spec, AtomicSave, Reg!Spec, Reg!vars
=============================================================================
