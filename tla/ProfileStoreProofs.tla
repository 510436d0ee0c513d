------------------------- MODULE ProfileStoreProofs -------------------------
(***************************************************************************)
(* For any number of tasks, feeds and nodes: type correctness and          *)
(* freshness of ids, which go together (Good says of one store what they   *)
(* say of every store, and each operation of store.rs keeps it); one       *)
(* operation at a time, that the cache stays current and deletions last;   *)
(* and, however tests and edits overlap, that no latency of test-all is in *)
(* the file alone.                                                         *)
(***************************************************************************)
EXTENDS ProfileStore, TLAPS

Good(s) == IsStore(s) /\ IdsGivenOut(s)

\* What holds of every copy of the store there is.
Inv ==
  /\ Good(disk) /\ Good(cache)
  /\ overlap \in Overlaps
  /\ task = [t \in Tasks |-> task[t]]
  /\ \A t \in Tasks : IsTask(task[t]) /\ Good(task[t].copy)

-----------------------------------------------------------------------------
(* The operations of a store *)

\* What a store is, from its parts.
LEMMA MadeGood ==
  ASSUME NEW n \in Nat \ {0}, NEW ids \in SUBSET Nat, NEW F \in [ids -> Nodes],
         \A i \in ids : i < n
  PROVE  Good([next |-> n, nodes |-> F])
  BY DEF Good, IsStore, IdsGivenOut

LEMMA PartsOfGood ==
  ASSUME NEW s, Good(s)
  PROVE  /\ s = [next |-> s.next, nodes |-> s.nodes]
         /\ s.next \in Nat \ {0} /\ DOMAIN s.nodes \in SUBSET Nat
         /\ s.nodes \in [DOMAIN s.nodes -> Nodes]
         /\ \A i \in DOMAIN s.nodes : i < s.next
  BY DEF Good, IsStore, IdsGivenOut

\* A file that is not there loads as a store (store.rs:146-150).
LEMMA EmptyIsGood == Good(EmptyStore)
  BY DEF Good, IsStore, IdsGivenOut, EmptyStore

\* add keeps the ids fresh (store.rs:165-170).
LEMMA AddedIsGood ==
  ASSUME NEW s, Good(s), NEW n \in Nat, NEW g \in Groups
  PROVE  Good(Added(s, n, g))
<1> DEFINE ids == DOMAIN s.nodes \cup (s.next .. s.next + n - 1)
           F == [i \in ids |-> IF i \in DOMAIN s.nodes THEN s.nodes[i] ELSE NewNode(g)]
<1>1. s.next + n \in Nat \ {0} /\ ids \in SUBSET Nat /\ \A i \in ids : i < s.next + n
  BY PartsOfGood
<1>2. F \in [ids -> Nodes]
  <2>1. NewNode(g) \in Nodes
    BY DEF NewNode, Nodes
  <2> QED
    BY <2>1, PartsOfGood
<1>3. Added(s, n, g) = [next |-> s.next + n, nodes |-> F]
  BY DEF Added
<1> HIDE DEF ids, F
<1> QED
  BY <1>1, <1>2, <1>3, MadeGood

\* Dropping nodes keeps the counter, and so the ids fresh (store.rs:208-223).
LEMMA KeptIsGood ==
  ASSUME NEW s, Good(s), NEW ids \in SUBSET DOMAIN s.nodes
  PROVE  Good(Kept(s, ids))
<1> DEFINE F == [i \in ids |-> s.nodes[i]]
<1>1. Kept(s, ids) = [next |-> s.next, nodes |-> F]
  BY PartsOfGood DEF Kept
<1>2. F \in [ids -> Nodes] /\ ids \in SUBSET Nat /\ \A i \in ids : i < s.next
  BY PartsOfGood
<1> HIDE DEF F
<1> QED
  BY <1>1, <1>2, PartsOfGood, MadeGood

LEMMA RemovedIsGood ==
  ASSUME NEW s, Good(s), NEW id
  PROVE  Good(Removed(s, id))
  BY KeptIsGood DEF Removed

LEMMA ImportedIsGood ==
  ASSUME NEW s, Good(s), NEW n \in Nat, NEW g \in Groups
  PROVE  Good(Imported(s, n, g))
<1>1. Good(RemovedGroup(s, g))
  BY KeptIsGood DEF RemovedGroup
<1> QED
  BY <1>1, AddedIsGood DEF Imported

\* A node that is there may change, as long as it stays a node.
LEMMA ChangedIsGood ==
  ASSUME NEW s, Good(s), NEW id \in DOMAIN s.nodes, NEW node \in Nodes
  PROVE  Good([s EXCEPT !.nodes[id] = node])
<1> DEFINE F == [s.nodes EXCEPT ![id] = node]
<1>1. [s EXCEPT !.nodes[id] = node] = [next |-> s.next, nodes |-> F]
  BY PartsOfGood
<1>2. F \in [DOMAIN s.nodes -> Nodes]
  BY PartsOfGood
<1> HIDE DEF F
<1> QED
  BY <1>1, <1>2, PartsOfGood, MadeGood

LEMMA EditedIsGood ==
  ASSUME NEW s, Good(s), NEW id \in DOMAIN s.nodes
  PROVE  Good(Edited(s, id))
<1> DEFINE node == [s.nodes[id] EXCEPT !.edited = calm]
<1>0. calm \in BOOLEAN
  BY DEF calm
<1>1. node \in Nodes
  BY <1>0, PartsOfGood DEF Nodes
<1>2. Edited(s, id) = [s EXCEPT !.nodes[id] = node]
  BY DEF Edited
<1> HIDE DEF node
<1> QED
  BY <1>1, <1>2, ChangedIsGood

LEMMA SetGroupIsGood ==
  ASSUME NEW s, Good(s), NEW id \in DOMAIN s.nodes, NEW g \in Groups
  PROVE  Good(SetGroup(s, id, g))
<1> DEFINE node == [s.nodes[id] EXCEPT !.group = g]
<1>1. node \in Nodes
  BY PartsOfGood DEF Nodes
<1>2. SetGroup(s, id, g) = [s EXCEPT !.nodes[id] = node]
  BY DEF SetGroup
<1> HIDE DEF node
<1> QED
  BY <1>1, <1>2, ChangedIsGood

LEMMA MeasuredIsGood ==
  ASSUME NEW s, Good(s), NEW id, NEW kind
  PROVE  Good(Measured(s, id, kind))
<1>1. CASE id \notin DOMAIN s.nodes
  BY <1>1 DEF Measured
<1>2. CASE id \in DOMAIN s.nodes
  <2> DEFINE node == [s.nodes[id] EXCEPT !.measured =
                                overlap = "tests" /\ kind = "test_all"]
  <2>1. s.nodes[id] \in Nodes
    BY <1>2, PartsOfGood
  <2>3. node \in Nodes
    BY <2>1 DEF Nodes
  <2>2. Measured(s, id, kind) = [s EXCEPT !.nodes[id] = node]
    BY <1>2 DEF Measured
  <2> HIDE DEF node
  <2> QED
    BY <1>2, <2>3, <2>2, ChangedIsGood
<1> QED
  BY <1>1, <1>2

LEMMA CliResultsAreGood ==
  ASSUME NEW s, Good(s), NEW r \in CliResults(s)
  PROVE  Good(r)
<1>1. CASE \E n \in 0 .. MaxFetch, g \in Groups : r = Added(s, n, g)
  BY <1>1, AddedIsGood, BoundsAssumption
<1>2. CASE \E n \in 0 .. MaxFetch, f \in Feeds : r = Imported(s, n, f)
  BY <1>2, ImportedIsGood, BoundsAssumption DEF Groups
<1>3. CASE \E i \in DOMAIN s.nodes : r \in {Edited(s, i), Removed(s, i), Measured(s, i, "cli")}
  BY <1>3, EditedIsGood, RemovedIsGood, MeasuredIsGood
<1>4. CASE \E i \in DOMAIN s.nodes, g \in Groups : r = SetGroup(s, i, g)
  BY <1>4, SetGroupIsGood
<1> QED
  BY <1>1, <1>2, <1>3, <1>4 DEF CliResults

LEMMA ResultsAreGood ==
  ASSUME Inv, NEW t \in Tasks, NEW g \in Groups, NEW r \in Results(t, g)
  PROVE  Good(r)
<1>1. Good(task[t].copy)
  BY DEF Inv
<1>2. CASE task[t].kind \in Pings
  BY <1>1, <1>2, MeasuredIsGood DEF Results
<1>3. CASE task[t].kind \notin Pings /\ task[t].kind = "gui_import"
  BY <1>1, <1>3, ImportedIsGood, BoundsAssumption DEF Results, Pings
<1>4. CASE task[t].kind \notin Pings /\ task[t].kind # "gui_import"
  BY <1>1, <1>4, CliResultsAreGood DEF Results
<1> QED
  BY <1>2, <1>3, <1>4

-----------------------------------------------------------------------------
(* Tasks *)

GoodTask(k) == IsTask(k) /\ Good(k.copy)

LEMMA MadeTaskIsGood ==
  ASSUME NEW kind \in Kinds, NEW stage \in {"load", "save", "finish"}, NEW id \in Nat,
         NEW todo \in SUBSET Groups, NEW copy, Good(copy)
  PROVE  GoodTask(Task(kind, stage, id, todo, copy))
  BY DEF Task, IsTask, GoodTask, Good

LEMMA NoTaskIsGood == GoodTask(NoTask)
  BY MadeTaskIsGood, EmptyIsGood DEF NoTask, Kinds

\* A step that gives one task a good record and leaves good stores keeps Inv.
LEMMA TaskChanges ==
  ASSUME Inv, NEW t \in Tasks, NEW k, GoodTask(k), task' = [task EXCEPT ![t] = k],
         Good(disk)', Good(cache)', overlap' = overlap
  PROVE  Inv'
  BY DEF Inv, GoodTask

LEMMA TurnIsAGroup ==
  ASSUME Inv, NEW t \in Tasks
  PROVE  Turn(t) \subseteq Groups
  BY DEF Inv, Turn, IsTask, Groups

LEMMA NextOfIsGood ==
  ASSUME Inv, NEW t \in Tasks, NEW g, NextOf(t, g), Good(disk)', Good(cache)', overlap' = overlap
  PROVE  Inv'
<1> DEFINE rest == task[t].todo \ {g}
           k == Task(task[t].kind, IF rest = {} THEN "finish" ELSE "load", task[t].id, rest,
                     EmptyStore)
<1>1. GoodTask(k)
  BY MadeTaskIsGood, EmptyIsGood DEF Inv, IsTask
<1>2. task' = [task EXCEPT ![t] = NoTask] \/ task' = [task EXCEPT ![t] = k]
  BY DEF NextOf, Inv
<1> HIDE DEF k
<1> QED
  BY <1>1, <1>2, NoTaskIsGood, TaskChanges

LEMMA BeginIsGood ==
  ASSUME Inv, NEW t \in Tasks, NEW kind \in Kinds, NEW id \in Nat, NEW todo \in SUBSET Groups,
         Begin(t, kind, id, todo)
  PROVE  Inv'
<1>1. Good(disk)' /\ Good(cache)' /\ overlap' = overlap
  BY DEF Begin, Inv, Good, IsStore, IdsGivenOut
<1>2. task' = [task EXCEPT ![t] = Task(kind, "load", id, todo, EmptyStore)]
  BY DEF Begin
<1> QED
  BY <1>1, <1>2, MadeTaskIsGood, EmptyIsGood, TaskChanges

LEMMA WriteThroughIsGood ==
  ASSUME Inv, NEW s, Good(s), WriteThrough(s)
  PROVE  Inv'
<1>1. Good(disk) /\ disk' \in {s, disk} /\ cache' = s /\ task' = task /\ overlap' = overlap
  BY DEF WriteThrough, Inv
<1> QED
  BY <1>1 DEF Inv, Good, IsStore, IdsGivenOut

-----------------------------------------------------------------------------
(* The invariant *)

LEMMA InvInit == Init => Inv
  BY EmptyIsGood, NoTaskIsGood DEF Init, Inv, GoodTask

LEMMA InvNext == Inv /\ [Next]_vars => Inv'
<1> SUFFICES ASSUME Inv, [Next]_vars PROVE Inv'
  OBVIOUS
<1>0. Good(disk) /\ Good(cache)
  BY DEF Inv
<1>1. ASSUME NEW t \in Tasks, BeginPing(t) PROVE Inv'
  <2>1. DOMAIN cache.nodes \in SUBSET Nat
    BY <1>0, PartsOfGood
  <2> QED
    BY <1>1, <2>1, BeginIsGood DEF BeginPing, Pings, Kinds
<1>2. ASSUME NEW t \in Tasks, BeginImport(t) PROVE Inv'
  BY <1>2, BeginIsGood DEF BeginImport, Kinds, Groups
<1>3. ASSUME NEW t \in Tasks, BeginCli(t) PROVE Inv'
  BY <1>3, BeginIsGood DEF BeginCli, Kinds
<1>4. ASSUME NEW t \in Tasks, Load(t) PROVE Inv'
  <2>1. UNCHANGED <<disk, cache, overlap>>
    BY <1>4 DEF Load
  <2>2. Good(disk)' /\ Good(cache)'
    BY <1>0, <2>1 DEF Good, IsStore, IdsGivenOut
  <2>3. CASE NextOf(t, NoGroup)
    BY <2>1, <2>2, <2>3, NextOfIsGood
  <2>4. CASE task' = [task EXCEPT ![t] = Task(@.kind, "save", @.id, @.todo, disk)]
    <3> DEFINE k == Task(task[t].kind, "save", task[t].id, task[t].todo, disk)
    <3>1. GoodTask(k)
      BY <1>0, MadeTaskIsGood DEF Inv, IsTask
    <3>2. task' = [task EXCEPT ![t] = k]
      BY <2>4 DEF Inv
    <3> HIDE DEF k
    <3> QED
      BY <2>1, <2>2, <3>1, <3>2, TaskChanges
  <2> QED
    BY <1>4, <2>3, <2>4 DEF Load
<1>5. ASSUME NEW t \in Tasks, Save(t) PROVE Inv'
  <2>1. PICK g \in Turn(t) : disk' \in Results(t, g) /\ NextOf(t, g)
    BY <1>5 DEF Save
  <2>2. Good(disk')
    BY <2>1, TurnIsAGroup, ResultsAreGood
  <2>3. Good(disk)' /\ Good(cache)' /\ overlap' = overlap
    BY <1>0, <1>5, <2>2 DEF Save, Good, IsStore, IdsGivenOut
  <2> QED
    BY <2>1, <2>3, NextOfIsGood
<1>6. ASSUME NEW t \in Tasks, Fail(t) PROVE Inv'
  <2>1. Good(disk)' /\ Good(cache)' /\ overlap' = overlap
    BY <1>0, <1>6 DEF Fail, Good, IsStore, IdsGivenOut
  <2> QED
    BY <1>6, <2>1, NextOfIsGood DEF Fail
<1>7. ASSUME NEW t \in Tasks, Finish(t) PROVE Inv'
  <2>1. Good(Measured(cache, task[t].id, "test_all"))
    BY <1>0, MeasuredIsGood
  <2>2. cache' \in {cache, disk, Measured(cache, task[t].id, "test_all")}
    BY <1>7 DEF Finish, FinishImport, FinishTest, Reload
  <2>3. /\ UNCHANGED <<disk, overlap>>
        /\ task' = [task EXCEPT ![t] = NoTask]
    BY <1>7 DEF Finish, FinishImport, FinishTest, Finished
  <2>4. Good(disk)' /\ Good(cache)'
    BY <1>0, <2>1, <2>2, <2>3 DEF Good, IsStore, IdsGivenOut
  <2> QED
    BY <2>3, <2>4, NoTaskIsGood, TaskChanges
<1>8. CASE AddNodes
  BY <1>0, <1>8, AddedIsGood, WriteThroughIsGood, BoundsAssumption DEF AddNodes, Groups
<1>9. CASE EditNode
  BY <1>0, <1>9, EditedIsGood, WriteThroughIsGood DEF EditNode, Inv
<1>10. CASE DeleteNode
  BY <1>0, <1>10, RemovedIsGood, WriteThroughIsGood DEF DeleteNode
<1>11. CASE Refresh
  <2>1. cache' \in {cache, disk} /\ UNCHANGED <<disk, task, overlap>>
    BY <1>11 DEF Refresh, Reload
  <2> QED
    BY <1>0, <2>1 DEF Inv, Good, IsStore, IdsGivenOut
<1>12. CASE UNCHANGED vars
  BY <1>12 DEF Inv, Good, IsStore, IdsGivenOut, vars
<1> QED
  BY <1>1, <1>2, <1>3, <1>4, <1>5, <1>6, <1>7, <1>8, <1>9, <1>10, <1>11, <1>12
  DEF Next, TaskStep

LEMMA InvAlways == Spec => []Inv
  BY InvInit, InvNext, PTL DEF Spec

\* Every copy of the store is one, whatever overlaps and fails (store.rs:133-224).
THEOREM TypeCorrect == Spec => []TypeOK
<1>1. Inv => TypeOK
  BY DEF Inv, TypeOK, Good
<1> QED
  BY <1>1, InvAlways, PTL

\* No copy of the store, in the file, the cache or a task's hands, holds an id
\* that add would give out again (store.rs:165-170).
THEOREM IdsStayFresh == Spec => []IdsFresh
<1>1. Inv => IdsFresh
  BY DEF Inv, IdsFresh, Good
<1> QED
  BY <1>1, InvAlways, PTL

-----------------------------------------------------------------------------
(* One operation at a time *)

\* In a calm behaviour at most one task is at work, what it has loaded is still
\* what the file holds, and only an import of the GUI, which ends in a reload,
\* may leave the cache behind the file.
CalmInv ==
  calm => /\ \A t, u \in Tasks : task[t].kind # "idle" /\ task[u].kind # "idle" => t = u
          /\ \A t \in Tasks : task[t].kind # "cli"
          /\ \A t \in Tasks : task[t].kind # "idle" /\ task[t].stage = "save" => task[t].copy = disk
          /\ (\A t \in Tasks : task[t].kind # "gui_import") => SameNodes(cache, disk)

\* No id below the counter comes back, and the counter does not.
Grows(s, r) == /\ r.next >= s.next
               /\ \A i \in DOMAIN r.nodes \ DOMAIN s.nodes : i >= s.next

LEMMA SameItself == ASSUME NEW s PROVE SameNodes(s, s)
  BY DEF SameNodes

LEMMA SameThrough ==
  ASSUME NEW s, NEW r, NEW q, SameNodes(s, q), SameNodes(r, q)
  PROVE  SameNodes(s, r)
  BY DEF SameNodes

\* set_latency changes latencies only.
LEMMA MeasuredIsSame ==
  ASSUME NEW s, Good(s), NEW id, NEW kind
  PROVE  SameNodes(Measured(s, id, kind), s)
<1>1. CASE id \notin DOMAIN s.nodes
  BY <1>1, SameItself DEF Measured
<1>2. CASE id \in DOMAIN s.nodes
  <2> DEFINE node == [s.nodes[id] EXCEPT !.measured =
                                overlap = "tests" /\ kind = "test_all"]
  <2>1. s.nodes[id] \in Nodes
    BY <1>2, PartsOfGood
  <2>2. node.group = s.nodes[id].group /\ node.edited = s.nodes[id].edited
    BY <2>1 DEF Nodes
  <2>3. Measured(s, id, kind) = [s EXCEPT !.nodes[id] = node]
    BY <1>2 DEF Measured
  <2> HIDE DEF node
  <2>4. Measured(s, id, kind) = [next |-> s.next, nodes |-> [s.nodes EXCEPT ![id] = node]]
    BY <2>3, PartsOfGood
  <2> QED
    BY <2>2, <2>4, PartsOfGood DEF SameNodes
<1> QED
  BY <1>1, <1>2

LEMMA SameGrows ==
  ASSUME NEW s, Good(s), NEW r, SameNodes(r, s)
  PROVE  Grows(s, r)
  BY PartsOfGood DEF Grows, SameNodes

\* add, and remove_group before it, give out new ids only.
LEMMA AddedGrows ==
  ASSUME NEW s, Good(s), NEW n \in Nat, NEW g
  PROVE  Grows(s, Added(s, n, g))
  BY PartsOfGood DEF Grows, Added

LEMMA KeptGrows ==
  ASSUME NEW s, Good(s), NEW ids \in SUBSET DOMAIN s.nodes
  PROVE  Grows(s, Kept(s, ids))
<1>1. Kept(s, ids) = [next |-> s.next, nodes |-> [i \in ids |-> s.nodes[i]]]
  BY PartsOfGood DEF Kept
<1> QED
  BY <1>1, PartsOfGood DEF Grows

LEMMA ImportedGrows ==
  ASSUME NEW s, Good(s), NEW n \in Nat, NEW g \in Groups
  PROVE  Grows(s, Imported(s, n, g))
<1> DEFINE ids == DOMAIN s.nodes \ InGroup(s, g)
<1>1. CASE g = NoGroup
  BY <1>1, AddedGrows DEF Imported
<1>2. CASE g # NoGroup
  <2>1. Kept(s, ids) = [next |-> s.next, nodes |-> [i \in ids |-> s.nodes[i]]]
    BY PartsOfGood DEF Kept
  <2>2. Imported(s, n, g) = Added(Kept(s, ids), n, g)
    BY <1>2 DEF Imported, RemovedGroup
  <2>3. DOMAIN Imported(s, n, g).nodes = ids \cup (s.next .. s.next + n - 1)
        /\ Imported(s, n, g).next = s.next + n
    BY <2>1, <2>2 DEF Added
  <2> QED
    BY <2>3, PartsOfGood DEF Grows
<1> QED
  BY <1>1, <1>2

LEMMA EditedGrows ==
  ASSUME NEW s, Good(s), NEW id \in DOMAIN s.nodes
  PROVE  Grows(s, Edited(s, id))
<1>1. Edited(s, id).next = s.next /\ DOMAIN Edited(s, id).nodes = DOMAIN s.nodes
  BY PartsOfGood DEF Edited
<1> QED
  BY <1>1, PartsOfGood DEF Grows

\* What the file grows by, what is the file up to latencies grows by.
LEMMA GrowsFromSame ==
  ASSUME NEW s, NEW r, NEW q, SameNodes(r, s), Grows(r, q)
  PROVE  Grows(s, q)
  BY DEF SameNodes, Grows

\* What a task makes of its copy when nothing else is at work.
LEMMA ResultsGrow ==
  ASSUME Inv, NEW t \in Tasks, task[t].kind # "cli", task[t].kind # "idle",
         NEW g \in Groups, NEW r \in Results(t, g)
  PROVE  /\ Grows(task[t].copy, r)
         /\ task[t].kind # "gui_import" => SameNodes(r, task[t].copy)
<1>1. Good(task[t].copy) /\ task[t].kind \in Kinds
  BY DEF Inv, IsTask
<1>2. CASE task[t].kind \in Pings
  <2>1. r = Measured(task[t].copy, task[t].id, task[t].kind)
    BY <1>2 DEF Results
  <2> QED
    BY <1>1, <2>1, MeasuredIsSame, SameGrows
<1>3. CASE task[t].kind = "gui_import"
  <2>1. PICK n \in 0 .. MaxFetch : r = Imported(task[t].copy, n, g)
    BY <1>3 DEF Results, Pings
  <2>2. n \in Nat
    BY BoundsAssumption
  <2> QED
    BY <1>1, <1>3, <2>1, <2>2, ImportedGrows
<1> QED
  BY <1>1, <1>2, <1>3 DEF Kinds, Pings

\* Where nothing is at work, the cache is the file up to latencies.
LEMMA QuietIsSame ==
  ASSUME CalmInv, calm, Quiet
  PROVE  SameNodes(cache, disk)
  BY DEF CalmInv, Quiet, Idle

\* A task that has loaded, failed or saved; an import still has to report.
LEMMA NextOfIsCalm ==
  ASSUME Inv, CalmInv, calm, overlap' = overlap, NEW t \in Tasks, task[t].kind # "idle",
         NEW g, NextOf(t, g),
         task[t].kind # "gui_import" => SameNodes(cache, disk)'
  PROVE  CalmInv'
<1>1. \A u \in Tasks : u # t => task[u].kind = "idle"
  BY DEF CalmInv
<1>2. task = [u \in Tasks |-> task[u]] /\ task[t].kind # "cli"
  BY DEF Inv, CalmInv
<1>3. \A u \in Tasks : u # t => task'[u] = task[u]
  BY <1>2 DEF NextOf
<1>4. /\ task'[t].kind \in {"idle", task[t].kind}
      /\ task[t].kind = "gui_import" => task'[t].kind = "gui_import"
      /\ task'[t].stage # "save"
  BY <1>2 DEF NextOf, NoTask, Task, Reports
<1>5. (\A u \in Tasks : task'[u].kind # "gui_import") => SameNodes(cache, disk)'
  BY <1>4
<1> QED
  BY <1>1, <1>2, <1>3, <1>4, <1>5 DEF CalmInv

\* Every step of a calm behaviour: the invariant again, and no id comes back.
LEMMA CalmStep ==
  ASSUME Inv, CalmInv, calm, [Next]_vars
  PROVE  CalmInv' /\ Grows(disk, disk')
<1>0. Good(disk) /\ Good(cache) /\ task = [t \in Tasks |-> task[t]]
  BY DEF Inv
<1>a. ASSUME disk' = disk PROVE Grows(disk, disk')
  BY <1>a, <1>0, SameItself, SameGrows
<1>b. ASSUME NEW t \in Tasks, NEW kind \in Kinds \ {"cli"}, NEW id, NEW todo, Begin(t, kind, id, todo)
      PROVE  CalmInv' /\ Grows(disk, disk')
  <2>1. /\ Quiet /\ disk' = disk /\ cache' = cache /\ overlap' = overlap
        /\ task' = [task EXCEPT ![t] = Task(kind, "load", id, todo, EmptyStore)]
    BY <1>b DEF Begin
  <2>2. /\ \A u \in Tasks : u # t => task'[u].kind = "idle"
        /\ task'[t].kind # "cli" /\ task'[t].stage = "load"
    BY <1>0, <2>1 DEF Task, Quiet, Idle
  <2>3. SameNodes(cache, disk)'
    BY <2>1, QuietIsSame DEF SameNodes
  <2> QED
    BY <1>a, <2>1, <2>2, <2>3 DEF CalmInv, Kinds
<1>c. ASSUME NEW s, Grows(cache, s), WriteThrough(s)
      PROVE  CalmInv' /\ Grows(disk, disk')
  <2>1. Quiet /\ cache' = s /\ disk' = s /\ task' = task /\ overlap' = overlap
    BY <1>c DEF WriteThrough
  <2>2. SameNodes(disk, cache)
    BY <2>1, QuietIsSame, SameItself, SameThrough
  <2>3. Grows(disk, disk')
    BY <1>c, <2>1, <2>2, QuietIsSame, GrowsFromSame DEF SameNodes
  <2>4. SameNodes(cache, disk)'
    BY <2>1, SameItself DEF SameNodes
  <2> QED
    BY <2>1, <2>3, <2>4 DEF CalmInv, Quiet, Idle
<1>1. ASSUME NEW t \in Tasks, BeginPing(t) PROVE CalmInv' /\ Grows(disk, disk')
  BY <1>1, <1>b DEF BeginPing, Pings, Kinds
<1>2. ASSUME NEW t \in Tasks, BeginImport(t) PROVE CalmInv' /\ Grows(disk, disk')
  BY <1>2, <1>b DEF BeginImport, Kinds
<1>3. ASSUME NEW t \in Tasks, BeginCli(t) PROVE FALSE
  BY <1>3 DEF BeginCli, calm
<1>4. ASSUME NEW t \in Tasks, Load(t) PROVE CalmInv' /\ Grows(disk, disk')
  <2>1. disk' = disk /\ cache' = cache /\ overlap' = overlap /\ task[t].kind # "idle"
    BY <1>4 DEF Load, Idle
  <2>2. \A u \in Tasks : u # t => task[u].kind = "idle"
    BY <2>1 DEF CalmInv
  <2>3. task[t].kind # "gui_import" => SameNodes(cache, disk)
    BY <2>2 DEF CalmInv
  <2>4. task[t].kind # "gui_import" => SameNodes(cache, disk)'
    BY <2>1, <2>3 DEF SameNodes
  <2>5. CASE NextOf(t, NoGroup)
    BY <1>a, <2>1, <2>4, <2>5, NextOfIsCalm
  <2>6. CASE task' = [task EXCEPT ![t] = Task(@.kind, "save", @.id, @.todo, disk)]
    <3>1. /\ task'[t] = Task(task[t].kind, "save", task[t].id, task[t].todo, disk)
          /\ \A u \in Tasks : u # t => task'[u] = task[u]
      BY <1>0, <2>6
    <3>2. task'[t].kind = task[t].kind /\ task'[t].copy = disk'
      BY <2>1, <3>1 DEF Task
    <3>3. task[t].kind # "cli"
      BY DEF CalmInv
    <3> QED
      BY <1>a, <2>1, <2>2, <2>4, <3>1, <3>2, <3>3 DEF CalmInv
  <2> QED
    BY <1>4, <2>5, <2>6 DEF Load
<1>5. ASSUME NEW t \in Tasks, Save(t) PROVE CalmInv' /\ Grows(disk, disk')
  <2>1. PICK g \in Turn(t) : disk' \in Results(t, g) /\ NextOf(t, g)
    BY <1>5 DEF Save
  <2>2. cache' = cache /\ overlap' = overlap /\ task[t].kind # "idle" /\ task[t].stage = "save"
    BY <1>5 DEF Save, Idle
  <2>3. task[t].kind # "cli" /\ task[t].copy = disk
    BY <2>2 DEF CalmInv
  <2>4. Grows(disk, disk') /\ (task[t].kind # "gui_import" => SameNodes(disk', disk))
    BY <2>1, <2>2, <2>3, TurnIsAGroup, ResultsGrow
  <2>5. task[t].kind # "gui_import" => SameNodes(cache, disk)
    BY <2>2 DEF CalmInv
  <2>6. task[t].kind # "gui_import" => SameNodes(cache, disk)'
    BY <2>2, <2>4, <2>5, SameThrough DEF SameNodes
  <2> QED
    BY <2>1, <2>2, <2>4, <2>6, NextOfIsCalm
<1>6. ASSUME NEW t \in Tasks, Fail(t) PROVE CalmInv' /\ Grows(disk, disk')
  <2>1. disk' = disk /\ cache' = cache /\ overlap' = overlap /\ task[t].kind # "idle"
    BY <1>6 DEF Fail, Idle
  <2>2. task[t].kind # "gui_import" => SameNodes(cache, disk)'
    BY <2>1 DEF CalmInv, SameNodes
  <2> QED
    BY <1>6, <1>a, <2>1, <2>2, NextOfIsCalm DEF Fail
<1>7. ASSUME NEW t \in Tasks, Finish(t) PROVE CalmInv' /\ Grows(disk, disk')
  <2>1. /\ disk' = disk /\ overlap' = overlap /\ task[t].kind # "idle"
        /\ task' = [task EXCEPT ![t] = NoTask]
    BY <1>7 DEF Finish, FinishImport, FinishTest, Finished
  <2>2. \A u \in Tasks : task'[u].kind = "idle"
    BY <1>0, <2>1 DEF CalmInv, NoTask, Task
  <2>3. SameNodes(cache', disk)
    <3>1. CASE FinishImport(t)
      BY <3>1, SameItself DEF FinishImport, Reload
    <3>2. CASE FinishTest(t)
      <4>1. cache' = Measured(cache, task[t].id, "test_all") /\ task[t].kind = "test_all"
        BY <3>2 DEF FinishTest, Finished
      <4>2. SameNodes(cache, disk)
        BY <2>1, <4>1 DEF CalmInv
      <4>3. SameNodes(disk, cache)
        BY <4>2 DEF SameNodes
      <4> QED
        BY <1>0, <4>1, <4>3, MeasuredIsSame, SameThrough
    <3> QED
      BY <1>7, <3>1, <3>2 DEF Finish
  <2>4. SameNodes(cache, disk)'
    BY <2>1, <2>3 DEF SameNodes
  <2> QED
    BY <1>a, <2>1, <2>2, <2>4 DEF CalmInv
<1>8. ASSUME AddNodes PROVE CalmInv' /\ Grows(disk, disk')
  <2>1. PICK n \in 1 .. MaxFetch : WriteThrough(Added(cache, n, NoGroup))
    BY <1>8 DEF AddNodes
  <2> QED
    BY <1>0, <1>c, <2>1, AddedGrows, BoundsAssumption
<1>9. ASSUME EditNode PROVE CalmInv' /\ Grows(disk, disk')
  BY <1>0, <1>9, <1>c, EditedGrows DEF EditNode
<1>10. ASSUME DeleteNode PROVE CalmInv' /\ Grows(disk, disk')
  <2>1. PICK id \in DOMAIN cache.nodes : WriteThrough(Kept(cache, DOMAIN cache.nodes \ {id}))
    BY <1>10 DEF DeleteNode, Removed
  <2> QED
    BY <1>0, <1>c, <2>1, KeptGrows
<1>11. ASSUME Refresh PROVE CalmInv' /\ Grows(disk, disk')
  <2>1. Quiet /\ cache' = disk /\ disk' = disk /\ task' = task /\ overlap' = overlap
    BY <1>11 DEF Refresh, Reload, calm
  <2>2. SameNodes(cache, disk)'
    BY <2>1, SameItself DEF SameNodes
  <2> QED
    BY <1>a, <2>1, <2>2 DEF CalmInv, Quiet, Idle
<1>12. CASE UNCHANGED vars
  <2>1. disk' = disk /\ cache' = cache /\ task' = task /\ overlap' = overlap
    BY <1>12 DEF vars
  <2> QED
    BY <1>a, <2>1 DEF CalmInv, SameNodes
<1> QED
  BY <1>1, <1>2, <1>3, <1>4, <1>5, <1>6, <1>7, <1>8, <1>9, <1>10, <1>11, <1>12
  DEF Next, TaskStep

LEMMA OverlapStays == [Next]_vars => overlap' = overlap
  BY DEF Next, vars, BeginPing, BeginImport, BeginCli, Begin, TaskStep, Load, Save, Fail,
    Finish, FinishImport, FinishTest, Finished, AddNodes, EditNode, DeleteNode, WriteThrough, Refresh

LEMMA CalmNext == Inv /\ CalmInv /\ [Next]_vars => CalmInv'
<1>1. ASSUME [Next]_vars, ~calm PROVE CalmInv'
  BY <1>1, OverlapStays DEF CalmInv, calm
<1> QED
  BY <1>1, CalmStep

LEMMA CalmAlways == Spec => []CalmInv
<1>1. Init => CalmInv
  BY SameItself DEF Init, CalmInv, NoTask, Task
<1> QED
  BY <1>1, CalmNext, InvAlways, PTL DEF Spec

\* One operation at a time, whatever fails: when all are done, the cache is the
\* file up to latencies, so the next save undoes nothing (state.rs:41-44).
THEOREM CacheStaysCurrent == Spec => []CacheCurrent
<1>1. CalmInv => CacheCurrent
  BY QuietIsSame DEF CacheCurrent
<1> QED
  BY <1>1, CalmAlways, PTL

\* One operation at a time, no step brings an id back that was given out and
\* dropped, nor takes the counter back (store.rs:165-170, 208-223).
THEOREM DeletedStaysDeleted == Spec => DeletedForGood
<1>1. ASSUME Inv, CalmInv, [Next]_vars
      PROVE  [calm => /\ disk'.next >= disk.next
                      /\ \A i \in DOMAIN disk'.nodes \ DOMAIN disk.nodes : i >= disk.next]_vars
  BY <1>1, CalmStep DEF Grows
<1> QED
  BY <1>1, InvAlways, CalmAlways, PTL DEF Spec, DeletedForGood

-----------------------------------------------------------------------------
(* Tests and edits side by side *)

\* A store whose latencies of test-all are the cache's, or about to be; nodes
\* the cache adds later have ids it does not hold.
Mirrored(s) ==
  /\ s.next <= cache.next
  /\ \A id \in DOMAIN s.nodes \cap DOMAIN cache.nodes :
       s.nodes[id].measured => cache.nodes[id].measured \/ Pending(id)

\* While nothing but tests and edits is at work, this holds of the file and of
\* what a test has loaded and will save, each of which may become the other.
TestsInv ==
  overlap = "tests" =>
    /\ Mirrored(disk)
    /\ \A t \in Tasks : task[t].kind # "idle" =>
         /\ task[t].kind \in Pings /\ task[t].todo = {}
         /\ task[t].stage = "save" => Mirrored(task[t].copy)

\* The nodes of a store after set_latency.
LEMMA MeasuredIs ==
  ASSUME NEW s, Good(s), NEW id, NEW kind, overlap = "tests",
         NEW r, r = Measured(s, id, kind)
  PROVE  /\ r.next = s.next /\ DOMAIN r.nodes = DOMAIN s.nodes
         /\ \A i \in DOMAIN s.nodes \ {id} : r.nodes[i].measured = s.nodes[i].measured
         /\ id \in DOMAIN s.nodes => (r.nodes[id].measured <=> kind = "test_all")
<1>1. CASE id \notin DOMAIN s.nodes
  BY <1>1 DEF Measured
<1>2. CASE id \in DOMAIN s.nodes
  <2> DEFINE byAll == overlap = "tests" /\ kind = "test_all"
             node == [s.nodes[id] EXCEPT !.measured = byAll]
  <2>1. s.nodes[id] \in Nodes
    BY <1>2, PartsOfGood
  <2>2. r = [s EXCEPT !.nodes[id] = node]
    BY <1>2 DEF Measured
  <2>3. node.measured = byAll
    BY <2>1 DEF Nodes
  <2> HIDE DEF node, byAll
  <2>4. r = [next |-> s.next, nodes |-> [s.nodes EXCEPT ![id] = node]]
    BY <2>2, PartsOfGood
  <2>5. r.nodes[id] = node /\ \A i \in DOMAIN s.nodes \ {id} : r.nodes[i] = s.nodes[i]
    BY <1>2, <2>4, PartsOfGood
  <2>6. r.nodes[id].measured <=> kind = "test_all"
    BY <2>3, <2>5 DEF byAll
  <2> QED
    BY <2>4, <2>5, <2>6
<1> QED
  BY <1>1, <1>2

\* The cache may only gain nodes a mirrored store does not hold, lose nodes, and
\* keep its latencies and the announced ones.
LEMMA StaysMirrored ==
  ASSUME NEW s, Good(s), Mirrored(s), cache'.next >= cache.next,
         cache.next \in Nat, cache'.next \in Nat,
         \A i \in DOMAIN cache'.nodes :
           \/ i >= cache.next
           \/ /\ i \in DOMAIN cache.nodes
              /\ cache.nodes[i].measured => cache'.nodes[i].measured
              /\ Pending(i) => cache'.nodes[i].measured \/ Pending(i)'
  PROVE  /\ s.next <= cache'.next
         /\ \A i \in DOMAIN s.nodes \cap DOMAIN cache'.nodes :
              s.nodes[i].measured => cache'.nodes[i].measured \/ Pending(i)'
<1>1. s.next \in Nat /\ \A i \in DOMAIN s.nodes : i < s.next /\ i \in Nat
  BY PartsOfGood
<1>2. s.next <= cache.next
  BY DEF Mirrored
<1>3. \A i \in DOMAIN s.nodes : ~(i >= cache.next)
  BY <1>1, <1>2
<1>4. \A i \in DOMAIN s.nodes \cap DOMAIN cache.nodes :
        s.nodes[i].measured => cache.nodes[i].measured \/ Pending(i)
  BY DEF Mirrored
<1> QED
  BY <1>1, <1>2, <1>3, <1>4

\* The cache changes as it may, and what is written or loaded is mirrored.
CacheKeeps ==
  /\ cache'.next >= cache.next
  /\ \A i \in DOMAIN cache'.nodes :
       \/ i >= cache.next
       \/ /\ i \in DOMAIN cache.nodes
          /\ cache.nodes[i].measured => cache'.nodes[i].measured
          /\ Pending(i) => cache'.nodes[i].measured \/ Pending(i)'

LEMMA TestsKept ==
  ASSUME Inv, Inv', TestsInv, overlap = "tests", CacheKeeps,
         disk' = disk \/ Mirrored(disk)',
         \A u \in Tasks : task'[u].kind # "idle" =>
           /\ task'[u].kind \in Pings /\ task'[u].todo = {}
           /\ task'[u].stage = "save" => task'[u] = task[u] \/ task'[u].copy = disk
  PROVE  TestsInv'
<1>1. /\ Good(disk) /\ Good(cache) /\ Good(cache')
      /\ \A u \in Tasks : Good(task[u].copy)
  BY DEF Inv, Good, IsStore, IdsGivenOut
<1>2. cache.next \in Nat /\ cache'.next \in Nat
  BY <1>1, PartsOfGood
<1>3. ASSUME NEW s, Good(s), Mirrored(s)
      PROVE  /\ s.next <= cache'.next
             /\ \A i \in DOMAIN s.nodes \cap DOMAIN cache'.nodes :
                  s.nodes[i].measured => cache'.nodes[i].measured \/ Pending(i)'
  BY <1>2, <1>3, StaysMirrored DEF CacheKeeps
<1>4. Mirrored(disk)'
  <2>1. CASE disk' = disk
    BY <1>1, <1>3, <2>1 DEF TestsInv, Mirrored
  <2> QED
    BY <2>1
<1>5. ASSUME NEW u \in Tasks, task'[u].kind # "idle", task'[u].stage = "save"
      PROVE  Mirrored(task[u].copy)'
  <2> DEFINE copy == task'[u].copy
  <2>1. PICK c : c = copy /\ Good(c) /\ Mirrored(c)
    <3>1. CASE task'[u] = task[u]
      BY <1>1, <1>5, <3>1 DEF TestsInv
    <3>2. CASE task'[u].copy = disk
      BY <1>1, <3>2 DEF TestsInv
    <3> QED
      BY <1>5, <3>1, <3>2
  <2>2. /\ c.next <= cache'.next
        /\ \A i \in DOMAIN c.nodes \cap DOMAIN cache'.nodes :
             c.nodes[i].measured => cache'.nodes[i].measured \/ Pending(i)'
    BY <1>3, <2>1
  <2> QED
    BY <2>1, <2>2 DEF Mirrored
<1> QED
  BY <1>4, <1>5 DEF TestsInv

\* A test that goes from loading or saving to its end announces its result.
LEMMA NextOfAnnounces ==
  ASSUME Inv, TestsInv, overlap = "tests", NEW t \in Tasks, task[t].kind # "idle",
         task[t].stage # "finish", NEW g, NextOf(t, g)
  PROVE  /\ \A i : Pending(i) => Pending(i)'
         /\ \A i : i = task[t].id /\ task[t].kind = "test_all" => Pending(i)'
         /\ \A u \in Tasks : task'[u].kind # "idle" =>
              /\ task'[u].kind \in Pings /\ task'[u].todo = {}
              /\ task'[u].stage = "save" => task'[u] = task[u]
<1>1. /\ task = [u \in Tasks |-> task[u]]
      /\ task[t].kind \in Pings /\ task[t].todo = {}
  BY DEF Inv, TestsInv
<1>2. \A u \in Tasks : u # t => task'[u] = task[u]
  BY <1>1 DEF NextOf
<1>3. task'[t] = IF task[t].kind = "test_all"
                 THEN Task("test_all", "finish", task[t].id, {}, EmptyStore)
                 ELSE NoTask
  BY <1>1 DEF NextOf, Reports, Pings
<1>4. \A i : Pending(i) => Pending(i)'
  BY <1>2 DEF Pending
<1>5. \A i : i = task[t].id /\ task[t].kind = "test_all" => Pending(i)'
  BY <1>3 DEF Pending, Task
<1>6. \A u \in Tasks : task'[u].kind # "idle" =>
        /\ task'[u].kind \in Pings /\ task'[u].todo = {}
        /\ task'[u].stage = "save" => task'[u] = task[u]
  BY <1>2, <1>3 DEF TestsInv, NoTask, Task, Pings
<1> QED
  BY <1>4, <1>5, <1>6

LEMMA TestsStep ==
  ASSUME Inv, Inv', TestsInv, overlap = "tests", [Next]_vars
  PROVE  TestsInv'
<1>0. /\ Good(disk) /\ Good(cache) /\ task = [t \in Tasks |-> task[t]]
      /\ cache.next \in Nat /\ ~calm
  BY PartsOfGood DEF Inv, calm
<1>a. ASSUME cache' = cache, \A i : Pending(i) => Pending(i)'
      PROVE  CacheKeeps
  BY <1>0, <1>a DEF CacheKeeps
<1>b. ASSUME NEW s, WriteThrough(s), s.next \in Nat, s.next >= cache.next,
             \A i \in DOMAIN s.nodes :
               \/ i >= cache.next
               \/ i \in DOMAIN cache.nodes /\ s.nodes[i].measured = cache.nodes[i].measured
      PROVE  TestsInv'
  <2>1. cache' = s /\ disk' \in {s, disk} /\ task' = task
    BY <1>b DEF WriteThrough
  <2>2. \A i : Pending(i) => Pending(i)'
    BY <2>1 DEF Pending
  <2>3. CacheKeeps
    BY <1>b, <2>1, <2>2 DEF CacheKeeps
  <2>4. disk' = s => Mirrored(disk)'
    BY <1>b, <2>1 DEF Mirrored
  <2> QED
    BY <2>1, <2>3, <2>4, TestsKept DEF TestsInv
<1>1. ASSUME NEW t \in Tasks, BeginPing(t) PROVE TestsInv'
  <2>1. PICK id \in DOMAIN cache.nodes, kind \in Pings : Begin(t, kind, id, {})
    BY <1>1 DEF BeginPing
  <2>2. /\ task[t].kind = "idle" /\ disk' = disk /\ cache' = cache
        /\ \A u \in Tasks : u # t => task'[u] = task[u]
        /\ task'[t] = Task(kind, "load", id, {}, EmptyStore)
    BY <1>0, <2>1 DEF Begin, Idle
  <2>3. \A i : Pending(i) => Pending(i)'
    BY <2>2 DEF Pending
  <2>4. task'[t].kind = kind /\ task'[t].todo = {} /\ task'[t].stage = "load"
    BY <2>2 DEF Task
  <2> QED
    BY <1>a, <2>2, <2>3, <2>4, TestsKept DEF TestsInv
<1>2. ASSUME NEW t \in Tasks, BeginImport(t) \/ BeginCli(t) PROVE FALSE
  BY <1>2 DEF BeginImport, BeginCli
<1>4. ASSUME NEW t \in Tasks, Load(t) PROVE TestsInv'
  <2>1. /\ task[t].kind # "idle" /\ task[t].stage = "load"
        /\ disk' = disk /\ cache' = cache
    BY <1>4 DEF Load, Idle
  <2>2. CASE NextOf(t, NoGroup)
    BY <1>a, <2>1, <2>2, NextOfAnnounces, TestsKept
  <2>3. CASE task' = [task EXCEPT ![t] = Task(@.kind, "save", @.id, @.todo, disk)]
    <3>1. /\ task'[t] = Task(task[t].kind, "save", task[t].id, task[t].todo, disk)
          /\ \A u \in Tasks : u # t => task'[u] = task[u]
      BY <1>0, <2>3
    <3>2. /\ task'[t].kind = task[t].kind /\ task'[t].todo = task[t].todo
          /\ task'[t].copy = disk
      BY <3>1 DEF Task
    <3>3. \A i : Pending(i) => Pending(i)'
      BY <2>1, <3>1 DEF Pending
    <3> QED
      BY <1>a, <2>1, <3>1, <3>2, <3>3, TestsKept DEF TestsInv
  <2> QED
    BY <1>4, <2>2, <2>3 DEF Load
<1>5. ASSUME NEW t \in Tasks, Save(t) PROVE TestsInv'
  <2>1. PICK g \in Turn(t) : disk' \in Results(t, g) /\ NextOf(t, g)
    BY <1>5 DEF Save
  <2>2. /\ task[t].kind # "idle" /\ task[t].stage = "save" /\ cache' = cache
    BY <1>5 DEF Save, Idle
  <2>3. task[t].kind \in Pings /\ Mirrored(task[t].copy) /\ Good(task[t].copy)
    BY <2>2 DEF TestsInv, Inv
  <2>4. disk' = Measured(task[t].copy, task[t].id, task[t].kind)
    BY <2>1, <2>3 DEF Results
  <2>5. /\ \A i : Pending(i) => Pending(i)'
        /\ \A i : i = task[t].id /\ task[t].kind = "test_all" => Pending(i)'
    BY <2>1, <2>2, NextOfAnnounces
  <2>6. /\ disk'.next = task[t].copy.next /\ DOMAIN disk'.nodes = DOMAIN task[t].copy.nodes
        /\ \A i \in DOMAIN disk'.nodes :
             disk'.nodes[i].measured =>
               \/ i = task[t].id /\ task[t].kind = "test_all"
               \/ task[t].copy.nodes[i].measured
    <3> DEFINE copy == task[t].copy
               id == task[t].id
               kind == task[t].kind
               r == disk'
    <3>1. Good(copy) /\ r = Measured(copy, id, kind)
      BY <2>3, <2>4
    <3> HIDE DEF copy, id, kind, r
    <3>2. /\ r.next = copy.next /\ DOMAIN r.nodes = DOMAIN copy.nodes
          /\ \A i \in DOMAIN copy.nodes \ {id} :
               r.nodes[i].measured = copy.nodes[i].measured
          /\ id \in DOMAIN copy.nodes => (r.nodes[id].measured <=> kind = "test_all")
      BY <3>1, MeasuredIs
    <3>3. /\ r.next = copy.next /\ DOMAIN r.nodes = DOMAIN copy.nodes
          /\ \A i \in DOMAIN r.nodes : r.nodes[i].measured =>
               (i = id /\ kind = "test_all") \/ copy.nodes[i].measured
      BY <3>2
    <3> QED
      BY <3>3 DEF copy, id, kind, r
  <2>7. Mirrored(disk)'
    <3>1. ASSUME NEW i \in DOMAIN disk'.nodes \cap DOMAIN cache.nodes, disk'.nodes[i].measured
          PROVE  cache.nodes[i].measured \/ Pending(i)'
      <4>1. CASE i = task[t].id /\ task[t].kind = "test_all"
        BY <2>5, <4>1
      <4>2. CASE task[t].copy.nodes[i].measured
        <5>1. cache.nodes[i].measured \/ Pending(i)
          BY <2>3, <2>6, <4>2 DEF Mirrored
        <5> QED
          BY <2>5, <5>1
      <4> QED
        BY <2>6, <3>1, <4>1, <4>2
    <3>2. disk'.next <= cache.next
      BY <2>3, <2>6 DEF Mirrored
    <3> QED
      BY <2>2, <3>1, <3>2 DEF Mirrored
  <2>8. \A u \in Tasks : task'[u].kind # "idle" =>
          /\ task'[u].kind \in Pings /\ task'[u].todo = {}
          /\ task'[u].stage = "save" => task'[u] = task[u]
    BY <2>1, <2>2, NextOfAnnounces
  <2> QED
    BY <1>a, <2>2, <2>5, <2>7, <2>8, TestsKept
<1>6. ASSUME NEW t \in Tasks, Fail(t) PROVE TestsInv'
  <2>1. PICK g \in Turn(t) : NextOf(t, g)
    BY <1>6 DEF Fail
  <2>2. /\ task[t].kind # "idle" /\ task[t].stage # "finish"
        /\ disk' = disk /\ cache' = cache
    BY <1>6 DEF Fail, Idle
  <2> QED
    BY <1>a, <2>1, <2>2, NextOfAnnounces, TestsKept
<1>7. ASSUME NEW t \in Tasks, Finish(t) PROVE TestsInv'
  <2>1. task[t].kind # "gui_import"
    BY DEF TestsInv, Pings
  <2>2. /\ task[t].kind = "test_all" /\ disk' = disk
        /\ cache' = Measured(cache, task[t].id, "test_all")
        /\ task' = [task EXCEPT ![t] = NoTask]
    BY <1>7, <2>1 DEF Finish, FinishImport, FinishTest, Finished
  <2>3. task'[t].kind = "idle" /\ \A u \in Tasks : u # t => task'[u] = task[u]
    BY <1>0, <2>2 DEF NoTask, Task
  <2>4. \A i : i # task[t].id /\ Pending(i) => Pending(i)'
    BY <2>3 DEF Pending
  <2>5. /\ cache'.next = cache.next /\ DOMAIN cache'.nodes = DOMAIN cache.nodes
        /\ \A i \in DOMAIN cache.nodes :
             /\ cache.nodes[i].measured => cache'.nodes[i].measured
             /\ i = task[t].id => cache'.nodes[i].measured
    <3> DEFINE id == task[t].id
               r == cache'
    <3>1. r = Measured(cache, id, "test_all")
      BY <2>2
    <3> HIDE DEF id, r
    <3>2. /\ r.next = cache.next /\ DOMAIN r.nodes = DOMAIN cache.nodes
          /\ \A i \in DOMAIN cache.nodes \ {id} :
               r.nodes[i].measured = cache.nodes[i].measured
          /\ id \in DOMAIN cache.nodes => r.nodes[id].measured
      BY <1>0, <3>1, MeasuredIs
    <3> QED
      BY <3>2 DEF id, r
  <2>6. CacheKeeps
    BY <1>0, <2>4, <2>5 DEF CacheKeeps
  <2> QED
    BY <2>2, <2>3, <2>6, TestsKept DEF TestsInv
<1>8. ASSUME AddNodes PROVE TestsInv'
  <2>1. PICK n \in 1 .. MaxFetch : WriteThrough(Added(cache, n, NoGroup))
    BY <1>8 DEF AddNodes
  <2> DEFINE s == Added(cache, n, NoGroup)
  <2>2. n \in Nat
    BY BoundsAssumption
  <2>3. s.next = cache.next + n /\ \A i \in DOMAIN s.nodes :
          i >= cache.next \/ (i \in DOMAIN cache.nodes /\ s.nodes[i] = cache.nodes[i])
    <3> DEFINE ids == DOMAIN cache.nodes \cup (cache.next .. cache.next + n - 1)
               F == [i \in ids |->
                       IF i \in DOMAIN cache.nodes THEN cache.nodes[i] ELSE NewNode(NoGroup)]
    <3>1. s = [next |-> cache.next + n, nodes |-> F]
      BY DEF Added
    <3>2. \A i \in ids :
            i >= cache.next \/ (i \in DOMAIN cache.nodes /\ F[i] = cache.nodes[i])
      BY <1>0, <2>2
    <3>3. DOMAIN F = ids
      OBVIOUS
    <3> HIDE DEF s, F, ids
    <3> QED
      BY <3>1, <3>2, <3>3
  <2> HIDE DEF s
  <2> QED
    BY <1>0, <1>b, <2>1, <2>2, <2>3 DEF s
<1>9. ASSUME EditNode PROVE TestsInv'
  <2>1. PICK id \in DOMAIN cache.nodes : WriteThrough(Edited(cache, id))
    BY <1>9 DEF EditNode
  <2> DEFINE node == [cache.nodes[id] EXCEPT !.edited = calm]
             s == [next |-> cache.next, nodes |-> [cache.nodes EXCEPT ![id] = node]]
  <2>2. cache.nodes[id] \in Nodes
    BY <1>0, PartsOfGood
  <2>3. node.measured = cache.nodes[id].measured
    BY <2>2 DEF Nodes
  <2>4. Edited(cache, id) = s
    BY <1>0, PartsOfGood DEF Edited
  <2> HIDE DEF node
  <2>5. s.next = cache.next /\ \A i \in DOMAIN s.nodes :
          i \in DOMAIN cache.nodes /\ s.nodes[i].measured = cache.nodes[i].measured
    BY <1>0, <2>3, PartsOfGood
  <2> HIDE DEF s
  <2> QED
    BY <1>0, <1>b, <2>1, <2>4, <2>5
<1>10. ASSUME DeleteNode PROVE TestsInv'
  <2>1. PICK id \in DOMAIN cache.nodes : WriteThrough(Kept(cache, DOMAIN cache.nodes \ {id}))
    BY <1>10 DEF DeleteNode, Removed
  <2> DEFINE ids == DOMAIN cache.nodes \ {id}
             s == [next |-> cache.next, nodes |-> [i \in ids |-> cache.nodes[i]]]
  <2>2. Kept(cache, ids) = s
    BY <1>0, PartsOfGood DEF Kept
  <2>3. s.next = cache.next /\ \A i \in DOMAIN s.nodes :
          i \in DOMAIN cache.nodes /\ s.nodes[i].measured = cache.nodes[i].measured
    OBVIOUS
  <2> HIDE DEF s
  <2> QED
    BY <1>0, <1>b, <2>1, <2>2, <2>3
<1>11. ASSUME Refresh PROVE TestsInv'
  <2>1. Quiet /\ cache' \in {disk, cache} /\ disk' = disk /\ task' = task
    BY <1>11 DEF Refresh, Reload
  <2>2. Mirrored(disk)'
    <3>1. CASE cache' = disk
      BY <1>0, <2>1, <3>1, PartsOfGood DEF Mirrored
    <3>2. CASE cache' = cache
      BY <2>1, <3>2 DEF TestsInv, Mirrored, Pending
    <3> QED
      BY <2>1, <3>1, <3>2
  <2> QED
    BY <2>1, <2>2 DEF TestsInv, Quiet, Idle
<1>12. CASE UNCHANGED vars
  BY <1>12 DEF vars, TestsInv, Mirrored, Pending
<1> QED
  BY <1>1, <1>2, <1>4, <1>5, <1>6, <1>7, <1>8, <1>9, <1>10, <1>11, <1>12
  DEF Next, TaskStep

LEMMA TestsAlways == Spec => []TestsInv
<1>1. Init => TestsInv
  BY DEF Init, TestsInv, Mirrored, NoTask, Task, EmptyStore
<1>2. Inv /\ Inv' /\ TestsInv /\ [Next]_vars => TestsInv'
  BY TestsStep, OverlapStays DEF TestsInv
<1> QED
  BY <1>1, <1>2, InvAlways, PTL DEF Spec

\* However tests and edits of the GUI overlap and saves fail, no latency that
\* test-all wrote is in the file alone: the cache has it, or the thread that
\* wrote it is about to put it there (main.rs:851-860).
THEOREM LatenciesAreMirrored == Spec => []LatencyMirrored
<1>1. TestsInv => LatencyMirrored
  BY DEF TestsInv, Mirrored, LatencyMirrored
<1> QED
  BY <1>1, TestsAlways, PTL

=============================================================================
