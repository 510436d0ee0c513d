# A TLA+ model of GuderRay

GuderRay is a Windows GUI and CLI around [sing-box](https://github.com/SagerNet/sing-box):
it keeps proxy profiles, generates a sing-box configuration, starts and stops the
sing-box process (the *core*), and sets and clears the operating system's proxy.
This directory holds TLA+ modules of the parts of it whose correctness hangs on order,
failure and concurrency, the TLC configurations that check them, and TLAPS proofs about
them. Paths below are relative to `src/crates/`; `engine`, `core`, `gui`, `cli` stand for
`guderray-engine/src`, `guderray-core/src`, `guderray-gui/src`, `guderray-cli/src`.

`PROJECT.json` lists the components, runs, mutants (one plausible bug per property, which
the property must catch), the source lines of every definition, the findings, the hazards
and the theorems.

## 1. The system

| Component | State it keeps | Operations | Module |
|---|---|---|---|
| core lifecycle (`engine/lib.rs`, `process.rs`, `sysproxy_mod.rs`, `clash.rs`) | `state.json`: pid, start time, ports, `sysproxy`; the OS proxy setting; the detached core process; `settings.system_proxy` | `up`, `down`, `set_sysproxy`, `reconcile`, `repair_network`; `status`, `attach`, `stats`, `test_running`, `connections`, which only read, but for the save that loading an absent `state.json` makes | `Lifecycle`, refining `Engine` |
| store files (`core/store.rs` 75-109) | one JSON file and one `.tmp` beside it per store | `read_json`, `write_json` | `JsonFile`, refining `Register` |
| GUI session (`gui/main.rs`) | window properties, the 1.5 s status timer's `was_running`, the auto-connect thread | launch, buttons, tray, timer with watchdog | `GuiSession` |
| profiles (`core/store.rs`, `gui/state.rs`, `engine/lib.rs` 484-607, `cli/main.rs` `run_profile`) | `profiles.json`, the GUI's cached copy, the copies of threads and CLI commands | add, edit, remove, set group, import, update, latency tests, reload | `ProfileStore` |
| settings and forms (`core/store.rs` 270-347, `gui/state.rs`, `gui/main.rs` 462-580 and 923-1356, `cli/main.rs` `run_routing`, `tun`, `sysproxy`) | `settings.json`, the GUI's cached copy, what the window shows, the drafts of the settings page and the node editor | chips, toggles, mode selector, settings page, import, node editor, reload, routing commands | `Forms` |
| CLI (`cli/main.rs`) | none of its own | every command is one process calling the above | an actor of `Lifecycle`, `GuiSession`, `ProfileStore`, `Forms` |
| routing rules, preview (`core/routing.rs`, `classify.rs`), config generation (`core/config.rs`) | pure | lines to lists and back, compilation to matchers, route rules, DNS rules, rule-set registry, preview | `Routing` |
| outbounds (`core/model.rs`) and the node editor draft (`core/draft.rs`) | pure | rendering for sing-box, outbound to form and back | `Outbounds` |
| links, subscription bodies (`core/link.rs`, `sub.rs`) | pure | what a link or an entry becomes, or that it is refused | `Links` |
| assets (`engine/assets.rs`) | downloaded files | download, checksum | not modelled |
| connections view, icon, Slint UI | presentation | | not modelled |

How they interact. The GUI and the CLI are separate processes. They meet in files
(`state.json`, `settings.json`, `profiles.json`, `subscriptions.json`), in the OS proxy
setting and in the process table; **nothing locks any of them**. Inside the GUI, callbacks
and timers run one at a time on the event loop; some call the engine right there, others
start a thread that calls the engine and posts a closure back to the loop. The GUI caches
profiles and settings (`gui/state.rs`) and writes the cache through; `state.json` is read
afresh each time. The core is detached and outlives whoever started it.

What makes this hard, and what correctness means:

- *Crash and partial failure.* A command touches the record, the OS proxy and a process,
  in this order or that, and may fail or be killed between any two. Right means: a proxy
  setting that is on is one the record accounts for; a core that runs is one that can be
  stopped; `reconcile` and `repair` undo what is left.
- *Stale identity.* A pid in `state.json` may be another program's by the time it is used;
  ports fall back when taken. Right means: what is reached or killed is the core recorded.
- *Three copies of the settings.* File, cache and window, each handler changing some of
  them; the CLI changes the file only; a save may fail. Right means: no handler puts two
  copies out of step that a later whole save would then make permanent.
- *Many rules, one meaning.* Route rules, DNS rules, the rule-set registry and the preview
  are four readings of one set of lists. Right means: they agree on every name, and the
  configuration starts. A node, likewise, has a file form, a JSON form and an editor form.
- *Interleaving.* Two commands at once; a timer between two halves of an `up`; a latency
  test that loads, waits seconds and saves. Right means: no id is used twice, no copy
  overwrites what it should not, the watchdog acts on deaths and on nothing else.
- *Liveness.* The wait for the Clash API ends; the watchdog brings a dead core back; the
  window learns of a core started behind it.

## 2. The modules

**`Lifecycle`** has one action per access to a shared thing, in the code's order, so that
other callers, the operating system and kills come between any two: `up` is `UpLoad`,
`UpClear`, `UpStop`, `UpForget`, `UpPrepare`, `UpSpawn`, `UpPoll` / `UpDied` /
`UpTimeout` / `UpRetry`, `UpProxy`, `UpSave`; the other commands likewise. `pc[a]` and
`loc[a]` are the caller's place and locals; `running` is the record, `proc[p]` what runs
under a pid, with the creation time of its latest process. `Environment` binds the core's
ports after its spawn, lets processes exit, starts foreign programs on free pids and ports
(so pids are reused and ports taken), kills callers at the labels in `CrashPoints`, and
ends the failures. An I/O operation fails when its kind is in `Faults` and `faulty` still
holds. A "port" stands for the pair (socks port, Clash API port), which `up` picks in the
same way one after the other. `ClashAnswers` is what `Clash::version` takes for an answer:
JSON from whatever process has the port, the core or another program.

Loading is not free of writes: where there is no `state.json`, `State::load` takes the derived
default, whose schema version is 0, and saves it migrated before it returns (no save writes a
version 0, so a file that is there is never migrated), so each command has a `*_migrate` label between its load and what follows, and `versioned` says whether
the file is there. `status` is an action because of it; `stats`, `attach` and `connections`
load in the same way and rely for the rest on `RecordReachesItsCore`. `StateFile` is what may be
there at first. `Renamed` is a core from `settings.singbox_path` that is not called
`sing-box.exe`, which repair's sweep passes by. `MCLifecycle` names sets of crash points.

`Engine` is what a user of the commands relies on when they come one at a time: each is one
step on what `status` reports (`live`), what is recorded (`port`, `timed`) and where the OS
proxy points; `up` is two, the stop of what ran and the start. `Lifecycle` implements it
under `live <- PidMatches` of the record: a command takes effect where it writes
`state.json`, and inside one the proxy counts as what the record says of it. The instance
may also die, and, if its start time is not recorded, be `Mistaken` for another program.

**`JsonFile`** has `write_json` system call by system call: create the temporary file,
write it (whole, torn, or failing), rename; where the rename fails and the target exists,
remove it (which may fail, and ends the save there) and rename again. A file is an object with content, a path points at one, an
open descriptor stays with its object. `Register` is what a user of a store relies on: a
save takes effect at once or not at all. `JsonFile` implements it under
`value <- Loaded`, `pending <- val`. Where `rename` onto an existing file can fail,
`Register`'s `Lose` admits what the fallback really does: it passes through the default,
and stays there when killed in between.

**`GuiSession`** sees engine commands by their outcome. Callbacks and timer ticks are
atomic as the event loop makes them; an `up` of the auto-connect thread or of a CLI process
is in two halves (`UpStops`, `UpStarts`), because ticks do come in between. `Tick` is
`poll_status_tick` with the watchdog's comparison of `was_running` and the new status and
its restart of the last selected profile. A status that fails is shown as "not running"
(`ApplyStatus`, `Seen`). `known` is the profiles that are still there: `up` of another is
refused before it does anything. `Launch` reads `is-running` before the first
`apply_status`, as `main.rs` does.

**`ProfileStore`** has the operations of `store.rs` as operators on a store
`[next, nodes]` and three places a store lives: the file, the GUI's cache, the hands of a
task. A task is a background thread or a CLI command: it loads (`Load`), works for a while,
saves (`Save`) or gives up (`Fail`), and a GUI thread then posts to the event loop
(`FinishImport` reloads, `FinishTest` mirrors the latency). `WriteThrough` is every GUI
callback that edits the cache and saves it, the save failing or not. A test of the
window's own button runs on the event loop, so nothing else does there meanwhile
(`LoopFree`). `overlap` splits the behaviours in three. "nothing" (`calm`): one operation runs
at a time, no CLI command runs and no save fails, which is what the exact agreement of cache
and file is promised for. "tests": any number of latency tests beside any edits and
deletions of the GUI, with saves that fail, which is what test-all's mirroring is for; no
import and no CLI command, and a refresh only between tests. "anything": everything
overlaps, the CLI included. The subscriptions file only decides what
an update fetches and is left out; of a node's content only whether it was edited (kept in
calm behaviours, where a property looks at it), of its latency only whether test-all measured
it (kept in "tests" behaviours).

**`Routing`** has `to_lines`, `from_lines`, `compile_domains`, `compile_ips`, `emit_rules`,
`build_config`'s lists of rules and `classify_domain` as operators. A name is the sequence of
its labels; a compiled rule is a set of matchers and what it does. `Verdict` is how sing-box
reads such a list: the first rule with a matcher that holds. It is the one part that is
not in the repository and is marked external. A destination is a host and the set
of the matchers that cannot be decided from the host alone, so every combination of
rule-sets is a destination. `Needs` is who must be up for whom: the DNS servers' detours and
resolvers, the proxy's resolver, the rule-sets' downloads.

**`Outbounds`** has an outbound as a record with one function for its text fields; the
arms of the code's `match` on the protocol are the tables `Required`, `Optional`, `StreamIn`,
`TlsAlways`, `TlsIn`. A text is the sequence of its comma-separated pieces (of the constant
`Pieces`, strings in the runs), which is all that `split_csv` and `join` can tell apart.
`IsOutbound` is the type of an outbound, field by field that of `model.rs`. **`Links`** takes
a link, a query, a JSON or YAML object as a function on the keys that are present, and gives
the outbound or `None`; `IsLink`, `IsClash` and `IsMap` say which keys hold numbers and
which hold Booleans. A body is read in the first of the four formats, in the order of the
code, whose list it has (`Format`). **`Filter`** is what `Iterator::filter` keeps of a list,
as a function of its prefixes.

**`Forms`** (extends `Routing` and `Links`) has the state: `disk`, `cache` and `shown` for the
settings, `form` and `editor` for the two drafts, `node` for one profile's outbound. One
action per handler and per CLI command. `save_settings` is a save that happens or fails, the
handlers ignoring which. `stale` and `unseen` are history variables: they record that
somebody outside the handlers, or a failure, has put two copies out of step, so that the
properties can say that nothing else does. `launch` also stands for a quit that precedes it.
`clamp` panics as Rust's does when its bounds are crossed, and `Die` is what `panic = "abort"`
makes of it. Every Save of the node editor or the settings page ends there
(`forms_panic`), so what these handlers would do after their clamp is in the model but is
reached by no behaviour, and nothing is claimed of it. `RoundTrip` and `StableAfterOnce`
are not about the window: they apply `guderray-core`'s two conversions to the node one after the other
(`ThroughDraft`), without the window's own between them (`core_draft_to_node`,
`node_draft_to_core`), which cut an `alter_id` to an i32. `SettingsType`,
`ShownType`, `FormType` and `EditorType` are the types of the copies and the drafts.
`MCForms` holds the instance.

`Forms` extends `Routing` and `Links`, `Links` extends `Outbounds`, both use `Filter`,
`JsonFile` instances `Register`; the others do not import one another. Their seams:
`Lifecycle`, `ProfileStore` and `Forms` take a save as one step that happens or fails; that this is
what a save is, is `JsonFile`'s `AtomicSave`, for one writer of a file at a time.
`GuiSession` takes `up` and `down` by their outcomes, which are those of `Engine`'s steps,
but leaves out that what is gone may be mistaken for running.

## 3. What the runs show

Runs that pass:

| Run | Question | Properties |
|---|---|---|
| `lifecycle_serial` | One caller, all commands in all orders; cores die, pids and ports are taken; spawns fail. Do record, setting and core stay in step? | `ProxyAsRecorded`, `NoOrphanCore`, `RecordReachesItsCore`, `NoStaleCoreAnswers`, `CommandsAreAtomic` (the refinement of `Engine`), `TypeOK` |
| `lifecycle_crash` | One caller killed anywhere but between setting the proxy and recording it; loads, sets, kills, spawns fail. Is a proxy that is on still accounted for? | `ProxyAccounted`, `ProxyInv` (its inductive strengthening), `ReconcileHeals`, `RepairHeals` |
| `lifecycle_repair` | Two callers, every failure, kills everywhere. Does every command return, and does a repair that runs alone and meets no failure clean up what both left? | `CommandReturns`, `RepairHeals` |
| `jsonfile` | One writer, failing writes and renames, kills. Is a store file an atomic register? | `AtomicSave`, `RemovedOnlyWhenReplaceable`, `FileInv`, `TypeOK` |
| `gui` | GUI, auto-connect thread and CLI side by side; profiles are deleted; commands and `status` fail for a time. Does the watchdog act, and does the window follow? | `WatchdogReconnects`, `ShownAfterATick`, `TypeOK` |
| `profiles` | GUI callbacks beside two background threads or CLI commands; saves fail. Are ids fresh in every copy? One operation at a time, are cache and file one, and deletions final? With tests and edits overlapping, is what test-all wrote mirrored? | `IdsFresh`, `CacheCurrent`, `DeletedForGood`, `LatencyMirrored`, `TypeOK` |
| `forms` | Every form and every routing command in any order. Do file, cache and window stay in step? | `CacheCurrent`, `WindowCurrent`, `TypeOK` |
| | Does a chip keep the rest of its list? | `ChipEditKeepsTheRest` |
| | On every settings file that results, do route rules, DNS rules, registry and preview agree? | `PreviewAgrees`, `NxdomainOnlyForBlocked`, `DirectNamesResolvedDirectly`, `RuleSetsDeclared`, `LoopFree` |
| | Do `guderray-core`'s two conversions between an outbound and its draft undo each other on everything imported? | `RoundTrip`, `StableAfterOnce` |

Runs that end in a counterexample, each against a sentence of the repository (quoted under
`findings` in `PROJECT.json`):

| Run | What the code does |
|---|---|
| `lifecycle_forced_kill` | `up` sets the OS proxy and then saves the record. Killed in between, the proxy stays on and `reconcile`, which looks at the record alone, does not clear it. |
| `lifecycle_two_callers` | Two concurrent `up`s both find no record and both spawn; the later save forgets the earlier core. |
| `gui_stopped` | With `auto_restart` on, the tick after a press of Stop sees running turn to not running and starts the core again. |
| `gui_auto_connect` | The auto-connect check reads `is-running` before the window's first status: it is always false, and a core that runs is stopped and replaced. |
| `forms_panic` | Save in the node editor and on the settings page calls `clamp(.., u32::MAX as i32)`, whose upper bound is -1, and panics; the release build aborts. |

**Bounds.** `Pids = {1, 2}` is an old and a new core, or a core and a foreign program;
`MaxBorn` is how often a pid may be used (up to 3 times in `lifecycle_serial`): reuse is all
that start times can tell apart. One fallback port makes "preferred port taken" and "all taken"
both happen. `MaxPolls = 1` gives the wait loop a round that is followed by another and one
that meets the deadline. `lifecycle_repair` has one pid
that is used once, so one core in the whole run, as two interleaving callers already give
208 000 states there; a second pid is what `lifecycle_crash` has. `Renamed` is FALSE in all runs
(`RepairHeals` needs it). `StateFile` is both answers, but in `lifecycle_two_callers` only that the
file is there, so that its counterexample does not rest on the first load. `jsonfile` has three values and
three file objects: the store, the temporary file of a save that was killed, and the one being written. `gui` has two
profiles: the one that runs and the one last selected. `profiles` has two feeds (one
fails, one does not), ids up to `MaxId = 2` (one replaced by another), answers of 0 or 1
node, and two tasks beside each other and the event loop: a test that is loaded, another
that saves, an edit between the first's save and its result. That `IdsFresh` and
`LatencyMirrored` do not depend on these numbers is proved. `forms` starts from three settings files: the
default one, one where the buckets contest a name, a suffix of it, a keyword and a category, and one where the CLI has put
entries in the wrong lists; `MaxEdits = 2` changes follow, enough for one writer to follow
another. Destinations are three hosts by six sets of what else holds. The share links are
every security with every transport, each other protocol with and without its
optional parts, and four bodies, one per format. `Half` stands for 2^31 and is scaled to
131072: the conversions to 32 bits depend only on which side of it a number is, and it stays
above every 16-bit number. What the rule properties say of these settings is proved of all.
Distinct states: `lifecycle_serial` 1.5 million, `lifecycle_crash` 551 000, `jsonfile` 3 931,
`gui` 36 320, `profiles` 3.5 million, `forms` 257 000.

**Deadlock** is checked in every run.

**Fairness.** `Lifecycle`: weak fairness of each caller's next step: a thread inside a
command runs on. None of the environment: a core may never bind its port or never exit.
`GuiSession`: weak fairness of the repeating timer and of the halves of an `up` under
way; none of the user, the CLI or the core. `ProfileStore`, `JsonFile` and `Forms` state no
liveness and no fairness.
`faulty` turns false at any time or never; the properties that need failures to end say so
(`~faulty` on their left).

## 4. What is proved

TLAPS checks these for every value of the constants, under the constants' named
assumptions (which TLC evaluates in the runs). Those of `Forms` and what it extends say that
the settings to start with, the rules typed, the links and the bodies are what the parsers of
the files, the rule lines, the URLs and the JSON and YAML before them let through
(`SettingsAssumption`, `EntriesAssumption`, `LinksAssumption`, `BodiesAssumption`), that what is
typed has the type of its field (`TypingAssumption`), that "/"
is a text (`PiecesAssumption`), and that `None` is none of the things it stands beside
(`NoneAssumption`); `Half` is any positive number.

- `LifecycleProofs!TypeCorrect`: `Spec => []TypeOK`, for any callers, pids, ports, faults
  and crash points.
- `LifecycleProofs!ProxyInvariant`, `ProxyIsAccounted`: `Spec => []ProxyInv`, hence
  `[]ProxyAccounted`, assuming `SoleCaller` (one caller at a time) and `ProxyFaultFree`
  (no failing `clear` and `save`, no kill in the two windows between setting the proxy and
  saving). The other failures and all other kills are allowed. `ProxyAccounted` speaks of
  the moments between commands and is not inductive. `ProxyInv` adds, label by label, what
  the caller knows: where its copy of the record is current (`Holding`), where the proxy is
  off for certain (`ProxyDown`), where the record is empty (`Unrecorded`), and what the
  setting is in the two windows where it is ahead of the record. The assumptions cannot be
  dropped: `lifecycle_forced_kill` and `lifecycle_two_callers` show what happens without.
- `LifecycleProofs!NoCoreIsOrphaned`, `TheRecordReachesItsCore`, `NoStaleCoreEverAnswers`:
  `[]NoOrphanCore`, `[]RecordReachesItsCore`, `NoStaleCoreAnswers`, assuming `SoleCaller` and
  `CoreFaultFree` (no failing `kill` and `save`, no caller killed while it waits for its core
  to answer), on Windows and elsewhere. `CoreInv` adds to the first two what the caller's copy
  of the record is worth (`Copied`), where the recorded core is known to be gone (`Gone`), and
  that the core it waits for has the port it was given. Only `up_spawn` makes a sing-box, and
  there `CoreInv` says that none is left; every other step is `Mild`: it starts none. A pid
  that another program has taken since is covered. `NoStaleCoreAnswers` is about sing-box
  processes only: another program may answer the wait, here as in the code (section 5).
- `LifecycleProofs!ProxyIsAsRecorded`: `[]ProxyAsRecorded`, assuming `SoleCaller` and
  `ExactFaultFree` (no failing `load`, `save`, `clear`, `kill`, no caller killed where the
  proxy is ahead of the record). `ExactInv` says that proxy and record agree outside the
  labels of `Ahead`, and rests on `ProxyInv` for what they are inside. A `set` that fails is
  allowed: `up` then records that it did not set the proxy. A `load` is not: a repair whose
  load fails has cleared the proxy and keeps the record of it.
- `LifecycleProofs!ReconcileIsHealing`: `Spec => ReconcileHeals`, from `ProxyInv` and
  under its assumptions.
- `LifecycleProofs!EachCommandIsAtomic`: `Spec => CommandsAreAtomic`, that is `Eng!Spec`,
  under the assumptions of `ProxyIsAsRecorded`; the only kills inside a command left out are
  those where the proxy is ahead of the record. Every step maps to one of `Engine`'s or to a
  stutter. `EngineInv` adds to `ExactInv` what that needs: a recorded start time is one that
  the recorded pid has had (`TimeInv`), and as a later process of the pid is younger (`Ages`),
  what was recorded with its start time and is gone stays gone (`GoneForGood`); so
  `reconcile`, which decides several steps before it writes, still forgets nothing that runs.
- `GuiSessionProofs!TypeCorrect`: `Spec => []TypeOK`, for any profiles; its last conjunct
  needs that an `up` in the auto-connect thread runs only while the window is open.
- `JsonFileProofs`: `TypeCorrect`, `FileInvariant`, `RemovalIsSafe`, and `SaveIsAtomic`:
  `Spec => Reg!Spec`, each step of `write_json` mapping to a step of `Register` or to a
  stutter, assuming `SoleWriter` (all but the first). `FileInv` says that the file is whole, that the
  temporary file is another one, and that from the rename on it holds the complete new value.
- `FormsProofs!CacheIsCurrent`: `Spec => []CacheCurrent`, which is inductive as it stands.
- `FormsProofs!WindowIsCurrent`: `Spec => []WindowCurrent`. A change of one field leaves the
  others alone only if the record has them, so `WindowInv` adds the fields of the settings
  and of the window.
- `FormsProofs!TypeIsCorrect`: `Spec => []TypeOK`, inductive as it stands. Two parts carry
  it. The rules of a bucket are entries after any number of trips through their lines
  (`FromLinesKeeps`). And the node is an `IsOutbound`: whatever keys a link, a Clash, sing-box
  or SIP008 entry has, what its parser accepts has every field of its protocol at its type,
  the required ones filled in (`LinksProofs`, one lemma per parser, joined in `ParsedLink` and
  `ParsedBody`). The draft the editor is opened with has the type of its fields for every
  such node (`DraftType`) and keeps it whatever is typed; the window and the settings form
  likewise. Of the outbound a Save would make nothing is said, as no Save gets there.
- `FormsProofs!ChipEditsKeepTheRest`: `Spec => ChipEditKeepsTheRest`, for any lists. The lines
  of a bucket (`LinesOf`) sort into the three lists by tests one of which holds of each entry
  that is no comment and not empty, so nothing else is dropped, only moved.
- `FormsProofs!DraftTripIsFaithful`, `SecondTripLosesNothing`: `[]RoundTrip`,
  `[]StableAfterOnce`, for any outbound. `ThroughDraft` is first given a closed form, `Trip`,
  part by part (fields, TLS, transport, hosts): the trip through the one flat draft
  turns empty optional texts into none, cuts lists at their commas, fills in the TLS a
  protocol always has, and drops gRPC's two knobs. `Lossless` is what makes each part's trip render
  as before, and each part's trip is a fixed point of itself.
- `FormsProofs!BlockedNamesAreRejected`, `DirectNamesAreResolvedDirectly`,
  `RuleSetsAreDeclared`, `NeedsAreLoopFree`: the four properties of the generated rules, for
  any lists of any entries, any destination, and any DNS addresses; and `PreviewIsTheRoute`,
  which joins `CacheIsCurrent` (the preview reads the cache, the core is given the file) with
  the agreement of `classify_domain` and `route_rules`. They rest on `RoutingProofs`: what a
  list of rules says of a destination is decided rule by rule (`VerdictSays`, `ConcatSays`), so
  `route_rules` and `dns_rules` have closed forms (`RouteIs`, `ResolverIs`): the first of
  block, proxy, direct, cn, ads that matches. The properties are then case splits on these.
- `ProfileStoreProofs!TypeCorrect`, `IdsStayFresh`: `Spec => []TypeOK`, `[]IdsFresh`, for
  any number of tasks, feeds and ids. One lemma per operation of `store.rs` (a good store
  stays good: what is added gets the counter's value and pushes it, what is removed leaves
  it), then one per way a copy travels between file, cache and task. It needs no assumption
  on overlap: each copy carries its own counter, so it is consistent even when it is stale.

- `ProfileStoreProofs!CacheStaysCurrent`, `DeletedStaysDeleted`: `[]CacheCurrent`,
  `DeletedForGood`. Both are about behaviours with one operation at a time. `CalmInv` says of
  them that at most one task is at work, that what it has loaded is still the file, and that
  the cache is the file up to latencies unless an import of the GUI is under way, which ends
  in a reload. A callback's write-through then grows the file as it grows the cache.
- `ProfileStoreProofs!LatenciesAreMirrored`: `[]LatencyMirrored`, for any number of tests.
  `TestsInv` says of "tests" behaviours that not only the file but every copy a test has
  loaded is `Mirrored`: each latency in it that test-all measured is in the cache or in the
  hands of a test that is about to put it there. So a test that saves an older copy writes
  nothing the cache lacks but its own result, which is then pending; an edit writes the cache
  itself.

Lists. The chips, the texts and the answers of subscriptions are lists of any length, and
three operators go through them from the first element on: `filter`, `join` (a
`FlattenSeq`), and the conversions of their elements. `ListProofs` says once what each
returns: `filter` a list of just the elements that are in the set (`FilterSelects`), `join`
of one-piece texts the text of these pieces (`JoinSingles`), so that it undoes `split_csv`,
and of what type. The induction this takes is not over an operator, which the provers cannot instantiate,
but over the set of the lengths for which the claim holds: the least one outside it would
have a predecessor inside (`Induction`, from the library's well-foundedness of `<`). `SelectSeq`
and `@@` are opaque to the provers, so the modules use `filter` and explicit functions.

Reasoning about `Links` also found that its body formats were the guards of a `CASE`, of
which TLA+ does not say which one is taken when two hold (a document with both `proxies` and
`outbounds`); the code tries them in order, and so does `Format`.

Model-checked only: liveness (`CommandReturns`, `RepairHeals`, `WatchdogReconnects`,
`ShownAfterATick`), as TLAPS does not do liveness under fairness.
Every other property of the runs that pass is proved.

## 5. Behaviour worth knowing that no run condemns

These follow from the models or were seen while writing them. Of most the repository says
nothing; where a sentence of it says more than the code does, it is quoted.

- Two processes that save one store at once share one `.tmp`. The loser of the rename
  finds no temporary file, takes the store for an obstacle, removes it, and fails: the
  store is gone (`core/store.rs` 95-107).
- A latency test loads `profiles.json`, connects for up to seconds, and saves: what was
  saved in between is lost, a profile deleted in between comes back (`engine/lib.rs`
  484-518). `DeletedForGood` is for one operation at a time because of it.
- The window's own test button (`gui/main.rs` 684-697) neither mirrors the latency in the
  cache, as test-all takes care to (855-866), nor reloads: the next save drops it.
- An answer that parses to no node empties its group (`engine/lib.rs` 547-559). An update gives every node
  of its group a new id, so the last selected profile, kept by id, is gone after it.
- `down` asks `pid_alive`, not `pid_matches` (`engine/lib.rs` 302): when the core has died and
  its pid is another program's, `down` kills that program.
- A core that dies between its answer and the saving of the record is recorded without a
  start time (`engine/lib.rs` 272), or, if its pid was taken at once, with that of the program
  which took it; and without one, `pid_matches` then accepts any process that has its
  pid (`engine/process.rs` 148-156): `status` can report another program as the core, and
  `up` kills it. This is `Engine`'s `Mistaken`.
- `on_refresh` and the reload after a subscription's import re-read the settings but set
  neither the toggles nor the rules view; Start then passes the toggles shown as overrides
  of what was read.
- `on_toggle_cn` leaves the mode selector of the rules view as it was (`gui/main.rs`
  1113-1120), although `refresh_rules_view` is said to be "called at startup and after every rule
  add/remove/routing-mode change" (563-566); it is right again after the next chip or
  mode change. `WindowCurrent` leaves the selector out.
- The settings page is filled from the cache each time it opens (`gui/main.rs` 546-561), so
  it shows the CLI's changes only after a refresh, and Save writes the whole cache.
- Block rules answer NXDOMAIN only for names that no direct rule and not geosite-cn claims
  first; a name of geosite-geolocation-cn goes direct but is resolved remotely
  (`core/config.rs` 272-326). The ads rule comes after the cn rules and exists only in cn-direct.
- A chip edit drops comments and empty lines, and moves an entry the CLI put in another list
  (`--domain 1.2.3.4`) to the list its text says, which changes what it compiles to.
- The draft drops gRPC's `idle_timeout` and `permit_without_stream` (said so at
  `core/draft.rs` 86-88), turns an empty optional text into none, and splits a vmess host
  with a comma in two. `Lossless` names these. The repository's README (148-151) says that the
  editor covers "every field" and that "editing a node can't silently drop or leak fields";
  that is more than the draft does.
- The node editor's window holds `alter_id` as an i32 (`gui/main.rs` 507): a vmess link with
  2^31 or more opens with a negative number. What a Save would make of it cannot be said, since
  every Save panics at the clamp before (473).
- `up` waits for any answer in JSON at the port it chose (`engine/clash.rs` 42-49). Where another
  Clash-compatible program takes that port between the probe (`engine/lib.rs` 193-203) and the
  core's own bind, its answer ends the wait: the OS proxy is pointed at a port the core does
  not have, and the pid recorded is that of a core which is about to exit.
- A first load that is slow overwrites a record: `State::load` reads no file, another command
  starts a core and saves its record, and the load then saves the default it has read
  (`core/store.rs` 411-417). Even `status` can do it.
- A `status` that fails is shown as "not running" (`gui/main.rs` 597-601); the watchdog takes it
  for a death and, with `auto_restart` on, restarts a core that runs.
- `kill_leftover_singbox` stops processes called `sing-box.exe` (`engine/lib.rs` 134-149). A core
  from `settings.singbox_path` with another name, and not recorded, survives repair.
- A `domain:` or bare entry with nothing behind it matches no name in the preview,
  a `keyword:` with nothing behind it every name.
- A port of a sing-box or SIP008 entry is cut to 16 bits: 65537 becomes 1, a SIP008 65536
  becomes 0 and is accepted (`core/sub.rs` 194, 207). A vmess link without a port gets 443.
- A Clash trojan without `tls: true` is imported without TLS, while a trojan link defaults to
  TLS (`core/link.rs` 158). A trojan or tuic link without a password is imported but cannot
  be saved from the editor.
- A save that fails leaves the change in the GUI's cache; the next one that succeeds writes it.
- The watchdog restarts the profile selected last, with the settings' TUN and proxy, not
  what died. `auto_restart` has no control in the window.
- `repair_network` answers `"system_proxy_cleared": true` even where clearing failed.
- `up` clears the record also where clearing the proxy failed with a warning; only a
  repair heals that.

## 6. Not modelled

- The rule-set and core download (`engine/assets.rs`): a straight sequence of downloads and
  `fs::write`s that nothing interleaves with but a second press, which a flag refuses. A
  failure leaves the files written before it and is reported.
- The inbounds, log and experimental sections of the configuration, which copy options;
  `classify_connection`, a label for the table of connections.
- Percent and base64 decoding, lower-casing, trimming, regular expressions, and the names of
  nodes: the parsers are modelled from the decoded parts on.
- TUN, elevation, autostart, log rotation and tailing: single calls into the operating system.
- The connections view, the icon and the Slint markup: presentation.
- Settings that are only copied into the configuration (ports, log level, TUN stack).
- The schema migrations of `settings.json` and `profiles.json`, whose defaults and files have the
  current version: they change nothing. Only an absent `state.json` is migrated (`Lifecycle`).
- The subscriptions file, and the GUI's cached copy of it.
- Which of several addresses a connection tries, and latencies' values.
- On systems other than Windows `process_started_at` knows no start times; `Windows = FALSE`
  is a parameter of `Lifecycle` that the proofs cover and the runs do not use.

## 7. What could come next

1. `GuiSession` over `Engine`'s steps in place of its own `up` and `down`; a run for two savers
   of one store.
2. The subscriptions file in `ProfileStore`, and `last_profile_id` across both stores.
