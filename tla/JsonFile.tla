------------------------------ MODULE JsonFile ------------------------------
(***************************************************************************)
(* read_json and write_json of guderray-core/store.rs, which keep every    *)
(* store (profiles, subscriptions, settings, state) in one file: write the *)
(* new content to `<file>.json.tmp`, rename it over `<file>.json`.  Every  *)
(* writer of a file uses the same temporary name and none takes a lock.    *)
(*                                                                         *)
(* The file system is the two names, what file each of them names, and     *)
(* what the files hold; an open file follows its rename.                   *)
(***************************************************************************)
CONSTANTS
  Writers,      \* the processes and threads that save the store
  Values,       \* what they save
  Default,      \* what load returns when there is no file (unwrap_or_default)
  Torn,         \* a file that is truncated or half written
  Files,        \* files (inodes) the two names may name
  NoFile,
  RenameFails,  \* TRUE iff replacing or removing the file may fail (a reader has it open)
  WriteFails,   \* TRUE iff creating or writing may fail (a full disk)
  Killed        \* TRUE iff writers may be killed

ASSUME ValuesAssumption == Default \notin Values /\ Torn \notin Values \cup {Default}
ASSUME FilesAssumption == NoFile \notin Files
ASSUME FlagsAssumption == {RenameFails, WriteFails, Killed} \subseteq BOOLEAN

Labels == {"idle", "create", "write", "rename", "exists", "remove", "again"}

VARIABLES
  path,     \* the file `<file>.json` names, or NoFile
  tmp,      \* the file `<file>.json.tmp` names, or NoFile
  content,  \* content[f]: what file f holds
  pc,       \* pc[w]: the writer's next access to the file system
  val,      \* val[w]: what it saves
  fd        \* fd[w]: the temporary file it has open

vars == <<path, tmp, content, pc, val, fd>>

TypeOK ==
  /\ path \in Files \cup {NoFile}
  /\ tmp \in Files \cup {NoFile}
  /\ content \in [Files -> Values \cup {Torn}]
  /\ pc \in [Writers -> Labels]
  /\ val \in [Writers -> Values \cup {Default}]
  /\ fd \in [Writers -> Files \cup {NoFile}]

\* What read_json yields now; Torn does not parse.
Loaded == IF path = NoFile THEN Default ELSE content[path]

Goto(w, l) == pc' = [pc EXCEPT ![w] = l]

\* write_json returns, with an error or without, or its process is gone.
Return(w) == /\ Goto(w, "idle")
             /\ val' = [val EXCEPT ![w] = Default]
             /\ fd' = [fd EXCEPT ![w] = NoFile]

Begin(w) ==
  /\ pc[w] = "idle"
  /\ \E v \in Values : val' = [val EXCEPT ![w] = v]
  /\ Goto(w, "create")
  /\ UNCHANGED <<path, tmp, content, fd>>

\* Mutant: the file itself is opened and truncated, not a temporary one.
CreateInPlace(w) ==
  /\ pc[w] = "create"
  /\ \E f \in Files :
       /\ IF path = NoFile THEN f # tmp ELSE f = path
       /\ path' = f
       /\ content' = [content EXCEPT ![f] = Torn]
       /\ fd' = [fd EXCEPT ![w] = f]
  /\ Goto(w, "write")
  /\ UNCHANGED <<tmp, val>>

\* fs::write opens the temporary file, creating or truncating it, ...
Create(w) ==
  /\ pc[w] = "create"
  /\ \/ /\ \E f \in Files :
             /\ IF tmp = NoFile THEN f # path /\ \A x \in Writers : fd[x] # f ELSE f = tmp
             /\ tmp' = f
             /\ content' = [content EXCEPT ![f] = Torn]
             /\ fd' = [fd EXCEPT ![w] = f]
        /\ Goto(w, "write") /\ UNCHANGED val
     \/ WriteFails /\ Return(w) /\ UNCHANGED <<tmp, content>>
  /\ UNCHANGED path

\* Mutant: the result of fs::write is not looked at.
WriteUnchecked(w) ==
  /\ pc[w] = "write"
  /\ \/ content' = [content EXCEPT ![fd[w]] = val[w]]
     \/ WriteFails /\ UNCHANGED content
  /\ fd' = [fd EXCEPT ![w] = NoFile]
  /\ Goto(w, "rename")
  /\ UNCHANGED <<path, tmp, val>>

\* Mutant: a default store is serialised in the place of the caller's.
WriteDefault(w) ==
  /\ pc[w] = "write"
  /\ content' = [content EXCEPT ![fd[w]] = Default]
  /\ fd' = [fd EXCEPT ![w] = NoFile]
  /\ Goto(w, "rename")
  /\ UNCHANGED <<path, tmp, val>>

\* ... and fills what it has opened, under whatever name that is by now.
Write(w) ==
  /\ pc[w] = "write"
  /\ \/ /\ content' = [content EXCEPT ![fd[w]] = val[w]]
        /\ fd' = [fd EXCEPT ![w] = NoFile]
        /\ Goto(w, "rename") /\ UNCHANGED val
     \/ WriteFails /\ Return(w) /\ UNCHANGED content
  /\ UNCHANGED <<path, tmp>>

\* rename(tmp, path), which needs a file to be named tmp.
Renamed(w) == tmp # NoFile /\ path' = tmp /\ tmp' = NoFile /\ Return(w)

NotRenamed == (tmp = NoFile \/ RenameFails) /\ UNCHANGED <<path, tmp>>

Rename(w) ==
  /\ pc[w] = "rename"
  /\ \/ Renamed(w)
     \/ NotRenamed /\ Goto(w, "exists") /\ UNCHANGED <<val, fd>>
  /\ UNCHANGED content

\* The rename failed: if there is an old file, it is taken to be the obstacle.
Exists(w) ==
  /\ pc[w] = "exists"
  /\ IF path = NoFile THEN Return(w) ELSE Goto(w, "remove") /\ UNCHANGED <<val, fd>>
  /\ UNCHANGED <<path, tmp, content>>

\* remove_file fails where there is no file (any more), or as the rename did.
Remove(w) ==
  /\ pc[w] = "remove"
  /\ \/ path # NoFile /\ path' = NoFile /\ Goto(w, "again") /\ UNCHANGED <<val, fd>>
     \/ (path = NoFile \/ RenameFails) /\ UNCHANGED path /\ Return(w)
  /\ UNCHANGED <<tmp, content>>

RenameAgain(w) ==
  /\ pc[w] = "again"
  /\ Renamed(w) \/ (NotRenamed /\ Return(w))
  /\ UNCHANGED content

Kill(w) == /\ Killed /\ pc[w] # "idle"
           /\ Return(w)
           /\ UNCHANGED <<path, tmp, content>>

Init ==
  /\ path = NoFile /\ tmp = NoFile
  /\ content = [f \in Files |-> Torn]
  /\ pc = [w \in Writers |-> "idle"]
  /\ val = [w \in Writers |-> Default]
  /\ fd = [w \in Writers |-> NoFile]

Step(w) == Create(w) \/ Write(w) \/ Rename(w) \/ Exists(w) \/ Remove(w) \/ RenameAgain(w)

Next == \E w \in Writers : Begin(w) \/ Step(w) \/ Kill(w)

Spec == Init /\ [][Next]_vars

(***************************************************************************)
(* Properties                                                              *)
(***************************************************************************)
\* The store is a register: seen through read_json, a save takes effect at
\* once or not at all, though its writer fails or is killed half-way; no load
\* meets half a file.  Only where rename may fail does a save pass through the
\* default, and stay there if it is killed.  (One writer at a time.)
Reg == INSTANCE Register WITH value <- Loaded, pending <- val, Loses <- RenameFails

AtomicSave == Reg!Spec

\* The fallback that removes the old file does so only with the complete new
\* content waiting under the temporary name.
RemovedOnlyWhenReplaceable ==
  [][\A w \in Writers :
       Remove(w) /\ path' # path => tmp # NoFile /\ content[tmp] = val[w]]_vars

(***************************************************************************)
(* The inductive invariant behind AtomicSave.                              *)
(***************************************************************************)
\* A writer has something to save exactly while write_json runs.
Saving == \A w \in Writers : pc[w] = "idle" <=> val[w] = Default

\* Of one writer at a time: the file is whole, the temporary file is another
\* one, the one the writer has open, and complete when it is renamed.
FileInv ==
  /\ path # NoFile => content[path] # Torn
  /\ tmp # NoFile => tmp # path
  /\ \A w \in Writers :
       /\ pc[w] = "write" => tmp # NoFile /\ fd[w] = tmp
       /\ pc[w] \in {"rename", "exists", "remove", "again"}
            => tmp # NoFile /\ content[tmp] = val[w]
       /\ pc[w] \in {"exists", "remove", "again"} => RenameFails
=============================================================================
