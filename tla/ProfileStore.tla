---------------------------- MODULE ProfileStore ----------------------------
(***************************************************************************)
(* The profiles (ProfileStore, store.rs) in profiles.json, in the GUI's    *)
(* cache (AppState, state.rs) and in the hands of whatever works on a copy *)
(* of its own: the GUI's background threads (latency tests, subscription   *)
(* imports) and CLI processes.  A callback of the GUI changes the cache    *)
(* and writes it through; a task loads the file, works, and saves.         *)
(*                                                                         *)
(* A node's name, link and outbound are its content, of which only whether *)
(* it was edited is kept; of its latency, whether test-all measured it.    *)
(* The subscriptions file only says what an update may fetch: it is left   *)
(* out.                                                                    *)
(***************************************************************************)
EXTENDS Naturals

CONSTANTS
  Feeds,    \* names of subscriptions, and of the groups they fill
  NoGroup,
  Tasks,    \* background threads and CLI processes
  MaxId,    \* bound: ids given out
  MaxFetch  \* bound: nodes in a subscription's answer

ASSUME FeedsAssumption == NoGroup \notin Feeds
ASSUME BoundsAssumption == MaxId \in Nat /\ MaxFetch \in Nat

VARIABLES
  disk,    \* profiles.json
  cache,   \* AppState.profiles
  task,    \* task[t]: what t does
  overlap  \* what may overlap in this behaviour, one of Overlaps

vars == <<disk, cache, task, overlap>>

\* Nothing: one operation at a time, no CLI, and no save that fails.  Tests: the
\* latency tests and the edits of the GUI, but no import or CLI, and no refresh
\* beside a test.
Overlaps == {"nothing", "tests", "anything"}
calm == overlap = "nothing"

Groups == Feeds \cup {NoGroup}
Nodes == [group : Groups, edited : BOOLEAN, measured : BOOLEAN]

IsStore(s) ==
  /\ s = [next |-> s.next, nodes |-> [i \in DOMAIN s.nodes |-> s.nodes[i]]]
  /\ s.next \in Nat \ {0}
  /\ \A i \in DOMAIN s.nodes : i \in Nat /\ s.nodes[i] \in Nodes

\* Mutant: next_id starts where a derived Default would have it.
EmptyStoreDerived == [next |-> 0, nodes |-> [i \in {} |-> i]]

EmptyStore == [next |-> 1, nodes |-> [i \in {} |-> i]]

NewNode(g) == [group |-> g, edited |-> FALSE, measured |-> FALSE]

\* add, n times.
Added(s, n, g) ==
  [next  |-> s.next + n,
   nodes |-> [i \in DOMAIN s.nodes \cup (s.next .. s.next + n - 1) |->
                IF i \in DOMAIN s.nodes THEN s.nodes[i] ELSE NewNode(g)]]

Kept(s, ids) == [s EXCEPT !.nodes = [i \in ids |-> s.nodes[i]]]

Removed(s, id) == Kept(s, DOMAIN s.nodes \ {id})

InGroup(s, g) == {i \in DOMAIN s.nodes : s.nodes[i].group = g}

\* Mutant: the ids of the group are given out again.
RemovedGroupReusing(s, g) ==
  [Kept(s, DOMAIN s.nodes \ InGroup(s, g)) EXCEPT
     !.next = IF InGroup(s, g) = {} THEN @ ELSE CHOOSE i \in InGroup(s, g) : TRUE]

RemovedGroup(s, g) == Kept(s, DOMAIN s.nodes \ InGroup(s, g))

\* rename, replace_outbound; kept where a property looks at it.
Edited(s, id) == [s EXCEPT !.nodes[id].edited = calm]

SetGroup(s, id, g) == [s EXCEPT !.nodes[id].group = g]

\* set_latency, whose error for an id that is gone the GUI ignores; who measured
\* it is kept where a property looks at it.
Measured(s, id, kind) ==
  IF id \in DOMAIN s.nodes
  THEN [s EXCEPT !.nodes[id].measured = overlap = "tests" /\ kind = "test_all"]
  ELSE s

\* import_sub's own part.
Imported(s, n, g) == Added(IF g = NoGroup THEN s ELSE RemovedGroup(s, g), n, g)

(***************************************************************************)
(* Tasks.  kind: a latency test of the GUI's test-all, one of its test     *)
(* button, which holds the event loop; an import of the GUI; a CLI         *)
(* command, or one round of it where it updates several subscriptions.     *)
(***************************************************************************)
Kinds == {"idle", "test_all", "ping_selected", "gui_import", "cli"}
Pings == {"test_all", "ping_selected"}

Task(kind, stage, id, todo, copy) ==
  [kind |-> kind, stage |-> stage, id |-> id, todo |-> todo, copy |-> copy]

NoTask == Task("idle", "load", 0, {}, EmptyStore)

Idle(t) == task[t].kind = "idle"
Quiet == \A t \in Tasks : Idle(t)

\* The event loop is free.
LoopFree == \A t \in Tasks : task[t].kind # "ping_selected"

Begin(t, kind, id, todo) ==
  /\ Idle(t) /\ (calm => Quiet)
  /\ task' = [task EXCEPT ![t] = Task(kind, "load", id, todo, EmptyStore)]
  /\ UNCHANGED <<disk, cache, overlap>>

\* on_test_all: a thread per node of the cache; each may start at any time.
\* on_ping_selected
BeginPing(t) ==
  LoopFree /\ \E id \in DOMAIN cache.nodes, kind \in Pings : Begin(t, kind, id, {})

\* on_sub_add; on_sub_update_all, whatever subscriptions the file holds;
\* on_add_link with a URL.
BeginImport(t) ==
  /\ LoopFree /\ overlap # "tests"
  /\ \E gs \in (SUBSET Feeds \ {{}}) \cup {{NoGroup}} : Begin(t, "gui_import", 0, gs)

BeginCli(t) == overlap = "anything" /\ Begin(t, "cli", 0, {})

\* What a CLI command makes of the store it has loaded: profile add (a link, a
\* file, a URL), sub add or a subscription of sub update, rename or edit,
\* remove, set-group, ping.
CliResults(s) ==
  {Added(s, n, g) : n \in 0 .. MaxFetch, g \in Groups}
    \cup {Imported(s, n, f) : n \in 0 .. MaxFetch, f \in Feeds}
    \cup {Edited(s, i) : i \in DOMAIN s.nodes}
    \cup {Removed(s, i) : i \in DOMAIN s.nodes}
    \cup {Measured(s, i, "cli") : i \in DOMAIN s.nodes}
    \cup {SetGroup(s, i, g) : i \in DOMAIN s.nodes, g \in Groups}

\* What the task makes of the copy it has loaded, for the group it is at.
Results(t, g) ==
  LET s == task[t].copy IN
  IF task[t].kind \in Pings THEN {Measured(s, task[t].id, task[t].kind)}
  ELSE IF task[t].kind = "gui_import" THEN {Imported(s, n, g) : n \in 0 .. MaxFetch}
  ELSE CliResults(s)

\* The groups whose turn it may be; only an import of the GUI has some.
Turn(t) == IF task[t].todo = {} THEN {NoGroup} ELSE task[t].todo

\* What follows on the event loop when a background thread is done.
Reports(t) == task[t].kind \in {"test_all", "gui_import"}

\* Done with g: the next subscription, if there is one.
NextOf(t, g) ==
  LET rest == task[t].todo \ {g} IN
  task' = [task EXCEPT ![t] =
    IF rest = {} /\ ~Reports(t) THEN NoTask
    ELSE Task(@.kind, IF rest = {} THEN "finish" ELSE "load", @.id, rest, EmptyStore)]

\* ProfileStore::load; a test of a node that is not there ends here.
Load(t) ==
  /\ ~Idle(t) /\ task[t].stage = "load"
  /\ IF task[t].kind \in Pings /\ task[t].id \notin DOMAIN disk.nodes
       THEN NextOf(t, NoGroup)
       ELSE task' = [task EXCEPT ![t] = Task(@.kind, "save", @.id, @.todo, disk)]
  /\ UNCHANGED <<disk, cache, overlap>>

\* store.save, long after the load where a connection was tried in between.
\* An import goes on to the next subscription.
Save(t) ==
  /\ ~Idle(t) /\ task[t].stage = "save"
  /\ \E g \in Turn(t) :
       /\ disk' \in Results(t, g)
       /\ disk'.next <= MaxId + 1
       /\ NextOf(t, g)
  /\ UNCHANGED <<cache, overlap>>

\* No such node, its name does not resolve, a fetch fails (the other
\* subscriptions go on), a save fails.
Fail(t) ==
  /\ ~Idle(t) /\ task[t].stage \in {"load", "save"}
  /\ task[t].stage = "save" => task[t].kind # "gui_import" \/ ~calm
  /\ \E g \in Turn(t) : NextOf(t, g)
  /\ UNCHANGED <<disk, cache, overlap>>

\* reload, whose error is ignored.
Reload == cache' = disk \/ (~calm /\ UNCHANGED cache)

Finished(t, kind) ==
  /\ task[t].kind = kind /\ task[t].stage = "finish"
  /\ task' = [task EXCEPT ![t] = NoTask]
  /\ UNCHANGED <<disk, overlap>>

\* Mutant: the callback of an import rebuilds the list and does not reload.
FinishImportNoReload(t) ==
  /\ Finished(t, "gui_import") /\ LoopFree
  /\ UNCHANGED cache

\* Back on the event loop, an import, failed or not, is followed by reload.
FinishImport(t) ==
  /\ Finished(t, "gui_import") /\ LoopFree
  /\ Reload

\* Mutant: a test's result goes to the rows on the screen only.
FinishTestNoMirror(t) ==
  /\ Finished(t, "test_all") /\ LoopFree
  /\ UNCHANGED cache

\* The result of a test of test-all, reachable or not, is mirrored in the cache.
FinishTest(t) ==
  /\ Finished(t, "test_all") /\ LoopFree
  /\ cache' = Measured(cache, task[t].id, "test_all")

Finish(t) == FinishImport(t) \/ FinishTest(t)

(***************************************************************************)
(* Callbacks on the event loop                                             *)
(***************************************************************************)
\* Change the cache and save it; where the save fails the change stays.
WriteThrough(s) ==
  /\ LoopFree /\ (calm => Quiet)
  /\ cache' = s
  /\ disk' = s \/ (~calm /\ UNCHANGED disk)
  /\ UNCHANGED <<task, overlap>>

\* on_add_link with links, on_save_node_editor for a new node.
AddNodes ==
  \E n \in 1 .. MaxFetch : /\ cache.next + n <= MaxId + 1
                           /\ WriteThrough(Added(cache, n, NoGroup))

\* on_rename_selected, on_save_node_editor
EditNode == \E id \in DOMAIN cache.nodes : WriteThrough(Edited(cache, id))

\* on_delete_selected, on_delete_node
DeleteNode == \E id \in DOMAIN cache.nodes : WriteThrough(Removed(cache, id))

\* on_refresh
Refresh ==
  /\ LoopFree /\ (overlap # "anything" => Quiet)
  /\ Reload
  /\ UNCHANGED <<disk, task, overlap>>

Init ==
  /\ disk = EmptyStore /\ cache = EmptyStore
  /\ task = [t \in Tasks |-> NoTask]
  /\ overlap \in Overlaps

TaskStep(t) == Load(t) \/ Save(t) \/ Fail(t) \/ Finish(t)

Next ==
  \/ \E t \in Tasks : BeginPing(t) \/ BeginImport(t) \/ BeginCli(t) \/ TaskStep(t)
  \/ AddNodes \/ EditNode \/ DeleteNode \/ Refresh

Spec == Init /\ [][Next]_vars

(***************************************************************************)
(* Properties                                                              *)
(***************************************************************************)
IsTask(k) ==
  /\ k = Task(k.kind, k.stage, k.id, k.todo, k.copy)
  /\ k.kind \in Kinds /\ k.stage \in {"load", "save", "finish"}
  /\ k.id \in Nat /\ k.todo \subseteq Groups
  /\ IsStore(k.copy)

\* Every store is one, its counter past 0, wherever a copy of it is (a file
\* that is not there loads as Default, store.rs:146-150).
TypeOK ==
  /\ IsStore(disk) /\ IsStore(cache)
  /\ overlap \in Overlaps
  /\ task = [t \in Tasks |-> task[t]]
  /\ \A t \in Tasks : IsTask(task[t])

\* Every id of a store was given out by its next_id.
IdsGivenOut(s) == \A i \in DOMAIN s.nodes : i < s.next

\* Whatever overlaps, fails and overwrites what: no copy of the store ever
\* holds an id its next_id has yet to give out, so add never lands on a node
\* that is there (store.rs:165-170, 208-223).
IdsFresh == /\ IdsGivenOut(disk) /\ IdsGivenOut(cache)
            /\ \A t \in Tasks : IdsGivenOut(task[t].copy)

\* Equal up to latencies.
SameNodes(s, r) ==
  /\ s.next = r.next /\ DOMAIN s.nodes = DOMAIN r.nodes
  /\ \A i \in DOMAIN s.nodes : /\ s.nodes[i].group = r.nodes[i].group
                               /\ s.nodes[i].edited = r.nodes[i].edited

\* One operation at a time, every path of the GUI either writes its cache
\* through or reloads it: what the next save writes is what the file holds, up
\* to latencies (state.rs:41-44).
CacheCurrent == calm /\ Quiet => SameNodes(cache, disk)

\* One operation at a time, a deleted node stays deleted and its id is not
\* given to another (the state.rs test profile_delete_survives_a_fresh_load).
DeletedForGood ==
  [][calm => /\ disk'.next >= disk.next
             /\ \A i \in DOMAIN disk'.nodes \ DOMAIN disk.nodes : i >= disk.next]_vars

\* What test-all has written of a node is in the cache, or about to be, whatever
\* other tests, edits and failing saves are under way: no later save of the GUI
\* "would overwrite it with a stale in-memory copy and clobber what ping_profile
\* just wrote to disk" (main.rs:851-856).
Pending(id) == \E t \in Tasks :
  task[t].kind = "test_all" /\ task[t].id = id /\ task[t].stage = "finish"

LatencyMirrored ==
  overlap = "tests" =>
    \A id \in DOMAIN disk.nodes \cap DOMAIN cache.nodes :
      disk.nodes[id].measured => cache.nodes[id].measured \/ Pending(id)
=============================================================================
