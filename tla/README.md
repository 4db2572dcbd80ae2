# Bananagine in TLA+

Bananagine runs game servers. A *facade cell* (a single-threaded WebAssembly cell,
`src/pulp-cell`) offers an HTTP API, drives the docker daemon through the Pulp host, and keeps
what it allotted — host ports, overlay addresses, CPU and memory — in tables in memory. Beside it
run *owner cells* (template catalog, registry, worker, state) that each own one piece of state,
a Lua composition that chains calls to them, a *host agent* inside the facade that pulls
assignments from the Evolution control server, and a host-side *archive source*.

This directory holds a model of the parts that have state worth arguing about, the TLC
configurations that check it on small instances, and theorems checked by TLAPS for every instance.

    tlc -workers 2 -config MCServerCore.cfg MCServerCore     # check a configuration
    tlapm ServerCoreProofs.tla                               # check the proofs

`PROJECT.json` lists the components, runs, mutations, the source lines behind each definition, the
findings, the hazards and the theorems.

## 1. Inventory

"Hard" is what a unit test would hardly reach.

| Component (source under `src/`) | State | Operations | Interacts with | Hard | Correct when | Modelled in |
|---|---|---|---|---|---|---|
| Allocation tables (`pulp-cell/ports.go`, `ips.go`, `capacity.go`) | port pools, ip pool, capacity entries and total | allocate, reserve, release, re-key, commit | every server operation | partial releases, totals beside entries, pools that run dry | one owner per entry; total = sum, within budget | `Pools` |
| Create (`creation_core.go`, `idempotent_create.go`, `main.go`) | the tables | lookup/adopt, recover a failed runtime, allocate, hook, docker create, commit | daemon, hook, tables | six exits, each giving back what was taken; a create that fails for the caller and lands later; name conflicts | a live runtime owns what it uses; nothing leaks | `ServerCore` |
| Recreate (`recreate_core.go`) | receipts by idempotency key | create first, then retire the old one, then remember the receipt | create, retire | failure between the two; replay; the replacement is the old one | a receipt means the old one is gone and the new one is another | `ServerCore` |
| Retire (`retirement_core.go`, `main.go`) | the tables | destroy, then release or re-key | daemon, tables | failed destroy; kept ports | tables change only after the runtime is gone | `ServerCore` |
| Bootstrap (`main.go`) | all of the above | rebuild the tables from `docker.List` | daemon | crash between any two daemon calls; what the list omits | the tables agree with the daemon again | `ServerCore` |
| Fleet effects (`fleet_lifecycle_routes.go`, `fleet_world_transfer_routes.go`, `exec_idempotency_routes.go`) | receipt files; flag files in the world's volume | run docker calls, then store a receipt by write and rename | daemon, game, cell storage | crash or failure between effect and receipt; key reuse; staged work | a receipt tells the truth and never changes; a repeat needs a break | `FleetEffects` |
| Template catalog (`templatecatalog`, `template-catalog-cell`, `template_catalog_composition.go`, `template.go`) | the owner's entries, revision, answered ids; the facade's two maps | load, synchronize, reload, export, import, queries | disk, owner cell | lost answers, replays, restarts on either side | the owner serves one whole set; the facade uses only what was accepted | `TemplateCatalog` |
| Host agent (`hostagent`, `host_agent_runtime.go`) | the action in flight | claim, execute, receipt, retry | Evolution, engine | lost calls, expired leases, superseded assignments, crash in flight | what is settled was executed and still stands; every assignment ends | `HostAgent` |
| Dispatch loop and event stream (`main.go`) | event cursor | host agent step, poll events, dispatch | host | an error before the dispatch drops the event | every event is dispatched once | as atomicity only |
| Game worker (`gameworker`, `worker-cell`) | jobs by key; the host's tasks | submit, status, cancel, export, import | host's async HTTP | cancel racing a result, retry after import, partial import, restart | one task and one end per key, each its own | `GameWorker` |
| Registry (`registry`, `registry-cell`) | servers and their matches (Go maps held by reference), one lock | register, update, unregister, matches, get, list | callers | copies made after the unlock; shared maps | a call takes effect once, at one moment | `Registry`, `Directory` |
| Archive source (`archiveowner`) | calls in flight, staging files; the game's saving | snapshot with save-off, flush, fetch, save-on; cleanup | facade cell over HTTP | two calls on one world, deadlines, requests obeyed after the caller gave up | a backup is of one moment and saving comes back | `ArchiveSource` |
| Create plan (`composition/bananagine.lua`, `state-cell`) | in the engines it calls | five engine calls with derived command ids | other repositories' engines | failure midway and retry | a retry completes the same plan | no: see section 6 |
| Resources, allow list, observation, files/worlds/images, proxies, contracts, harnesses | none, or plain I/O | | | | | not modelled: pure functions or I/O without a protocol |

How they interact: the facade handles one HTTP request, or one step of the host agent, at a time;
it waits inside a handler for the daemon, a hook, another cell or Evolution. So the tables never
see two handlers at once, but everything *outside* the cell moves between two calls of one
handler: containers exit, are restarted or removed, late creates land, assignments are superseded;
and the cell may crash there. These are the places where the modules split a handler into steps.

## 2. Modules

| Module | Models | Actions |
|---|---|---|
| `Pools` | one table of each kind and its operations, as operators: `LowestFree`, `Assign`, `ReleaseByServer`, `ReleaseOneByServer` (the ip pool, which returns after the first entry), `ReKey`, `TryAllocate`, `Commit`, `ReleaseCapacity` | – |
| `ServerCore` | daemon, tables and the handlers that use both | one per segment between two daemon calls: `CreateMissing`, `AdoptReplacement`, `RecoverFailed`, `HookAnswers`, `HookFails`, `Created`, `CreateFails`, `CreateTimesOut`, `NameConflict`, `RecoverDestroys`, `RetireOld`, `DestroyFails`, `Retire`, `Restart`; the daemon's `Exit`, `Vanish`, `LateCreateLands`, `LateCreateDropped`; `Crash`, `Bootstrap` |
| `ExclusiveUse` | what the tables are for: a resource is used by one runtime at a time | `Acquire`, `Leave` |
| `FleetEffects` | the handler the Fleet routes share | `Begin`, `Effect`, `EffectFails`, `WriteTemp`, `Rename`, `StoreFails`, `Crash`, `GameStops`, `GameExits` |
| `TemplateCatalog` | disk, facade and owner | `Edit`, `Boot`, `Reload`, `AnswerLost`, `FacadeCrash`, `OwnerRestart`, `Export`, `Import` |
| `HostAgent` | Evolution's leases, the agent's loop, one container per workload | `Assign`, `LeaseExpires`, `BeginStep`, `Claim`, `ClaimNothing`, `ClaimLost`, `Execute`, `ExecuteRefused`, `ExecuteFails`, `Receipt`, `Retry`, `Rejected`, `SettlementLost`, `Crash`, `Stops`, `Exits`, `Removed` |
| `GameWorker` | the jobs of one owner cell beside the host's task table, over several lives of the cell | `Submit`, `SubmitAgain`, `Status`, `StatusAgain`, `Cancel`, `CancelFails`, `Finish`, `Export`, `Import`, `Restart` |
| `Registry` | records, the maps they share, the lock, and callers inside their calls | `Start`, `Lock`, `Get`, `List`, `ListNext`, `ListEnds`, `Register`, `Copy`, `Unregister`, `NotFound`, `Update`, `WriteMatch`; `Scribble`: a caller writes a map it was given |
| `Directory` | what the registry promises: plain values, each call one step | `Ask`, `Perform` |
| `ArchiveSource` | callers, the cell with its queue, the game | callers: `Begin`, `AccessFails`, `Proceed`, `Delayed`, `Fetched`, `Fails`, `Restored`, `RestoreFails`, `Cleaned`, `Close`; the cell: `Exec`, `ExecFails`, `OpenWorld`, `ReadFile`, `EndWalk`, `RemoveWorld`; the game: `Play`, `Autosave` |
| `ServerCoreProofs`, `ServerCoreStepProofs`, `FleetEffectsProofs`, `TemplateCatalogProofs`, `HostAgentProofs`, `GameWorkerProofs`, `RegistryProofs`, `ArchiveSourceProofs` | theorems | – |
| `MC...` | instances for TLC | – |

State and code: `portPools`, `ipp`, `capacity` are the trackers of the same names built in
`bootstrap`; `replays` is `recreateCore.replays`; `op` is the local state of the Go handler in
flight (what it took, whom it is to destroy); `containers` and `late` are the daemon. In
`FleetEffects`, `temps` and `receipts` are the files below the two receipt directories, `flag` the
files the game's start script looks for. In `TemplateCatalog`, `hot` is the variable
`templates` of `bootstrap` and `boot` the map inside `creationCore`. In `GameWorker`, `jobs` is
the map of the state, `tasks` the host's table, `saved` the exported snapshot. In `Registry`,
`servers` is the map of the state and `heap` gives the contents of each map of matches: a record
holds an address, as a Go map is a reference, so a missed copy shows as two records at one
address; `pc` says how far a call is, at the granularity of lock, copy and unlock. In
`ArchiveSource`, `queue` and `walk` are the requests the cell has not finished, `memory` and `disk`
the versions of each file, `staged` the caller's temporary file. Variables commented as
history are read by properties only.

A request that changes nothing (invalid, not found, a replay) is a stuttering step. Operators
commented "Mutant" are plausible bugs; `PROJECT.json` pairs each with a property that TLC finds
violated when it replaces the definition.

Abstractions:

* a container id is given out once; clients name containers by ids they were given;
* CPU and memory are one resource; an override of zero is a load of zero, which is no entry;
* a template is a demand per pool, a load, and whether it has a network and a hook; the set of
  pools is fixed when the cell starts, as `bootstrap` touches every template's range;
* addresses matter for overlay templates only; host-network containers have none;
* a request digest is the identity of the request; a set of templates is its own digest;
* in `HostAgent` an engine call is one step: what a create or a retirement does inside is
  `ServerCore`'s subject. Evolution is known from what the client sends and expects only;
* in `GameWorker` a result is the task it came from, which is what tells two results apart;
* in `Registry` metadata is left out (it is copied and shared as matches are), mode and type
  filters are like the capacity filter; an address in use by nobody may be given out again;
* in `ArchiveSource` a world's contents are a version per file. The cell reads the files of a zip one by
  one, in any order, while the game plays and saves.

## 3. What the runs check

| Run | Configuration and bounds | Shows |
|---|---|---|
| `core` | 3 containers ever, 2 names, a range pool {2,3} and a fallback pool {1}, 2 addresses, budget 3 (loads 1, 2, 1), one recreate key; 901,653 states | `TypeOK`, `Reservations`, `LiveOwnsNetwork`, `NoBindConflict`, `LiveIsCharged`, and that the daemon's containers implement `ExclusiveUse` for ports and for addresses |
| `core_faults` | 2 containers, a list that fails or omits stopped containers, one late create, budget 2; 544,058 states | `CapacityExact`, `NoLeak`, `ReceiptsTruthful`, `NetworkKept`: what survives an unreliable daemon |
| `fleet_effects` | six requests, one per kind, two keys shared by two requests, 2 faults; 221,286 states | `TypeOK`, `ReceiptsSound`, `ReceiptProtocol`, `RepeatsAreForBreaks`, `ReceiptMeansReplaced`, `AutosaveIsBack`, `BindingsStable`, `ResumeSettles` |
| `catalog` | four sets of templates (one invalid), two import ids, 3 faults, revisions up to 3 imported; 497,400 states | `TypeOK`, `ServesOneLoad`, `RevisionNamesCatalog`, `NeverAhead` |
| `host_agent` | a workload assigned three times (any operation) and one created once, two actions a step, 2 faults; 193,827 states | `TypeOK`, `SettledWasExecuted`, `SettledMatches`, `HeldMatches`, and in the end `AssignmentsSettle` |
| `worker` | 2 keys, 2 requests, 2 tasks in each of 2 lives; 469,442 states | `TypeOK`, `OneTaskPerKey`, `OneAnswerPerKey`, `AnswersAreOwn`, and in the end `JobsSettle` |
| `registry` | 2 callers, a server that may have a match and one that has none, 7 addresses, eleven operations; `register` and `get` overlap with nothing; 465,415 states | `TypeOK`, `NoMapRace`, and that the registry implements `Directory` |
| `archive` | two calls on one world (backup beside backup, plain snapshot or cleanup), 2 files, 2 changes; 823,241 states | `TypeOK`, `BackupIsWhole`, `BackupIsFresh`, `OutcomeIsHonest`, and in the end `SavingComesBack` |
| `self_recreate` | as `core` | violates `ReplacementIsDistinct` |
| `budget_drift` | as `core`, one name without a template prefix, budget 2 | violates `BudgetHolds` |
| `host_agent_recovery` | one create, two faults | violates `CreatesRecover` |
| `registry_native` | as `registry`, but everything overlaps | violates `NoMapRace` |

Why the bounds are enough. In `core`, three containers are a live one, the one it replaces and one
that competes; pools are one resource larger than a server needs, so that a kept reservation makes
the second server run dry; two names let one name's recovery meet another's create. The
interesting interleavings — crash with a create in flight, recreate whose destroy fails, adoption
of a kept address — all occur within three containers, and the mutants show that each property
notices its bug at this size. In `fleet_effects`, two faults are a failed attempt and a failed
retry. In `host_agent`, two faults are a call that takes effect without an answer, followed by
the loss of its consequence; three assignments are create, stop and create again. In `catalog`, the four sets
are the empty one, two that differ, between which a directory can change and change back, and an
invalid one. In `worker`, the second task of a life is the one a repeated or resubmitted key would
get, and the second life is the one after the import. In `registry`, seven addresses leave two
free in every state, so that a copy never lacks one; two callers are one that is between two steps
and one that overtakes it. In `archive`, one call is undercut by another at every
point, two files tear a zip, and two changes are one before and one during the call.
Deadlock is not checked for `core`, `core_faults`, `fleet_effects`, `catalog`, `worker` and
`archive`, because ids, requests, edits, tasks or calls run out; it is for `host_agent` and `registry`.

### Fairness

`ServerCore`, `TemplateCatalog` and `Registry` state safety only. `FleetEffects` assumes that a handler
that has begun goes on (WF of its steps: the cell is single threaded and its calls return), that a
game told to stop stops, and that a caller who retries gets its turn (SF of `Begin`), since
the routes exist to be retried until they answer. `HostAgent` assumes that the cell keeps stepping
(WF of the agent), that leases run out and a stopping game exits (WF), and that Evolution
hands out every assignment that stays due (SF of `Claim`). `GameWorker` assumes that the host
ends every task (it bounds each in time) and that a caller polls until its job is done (WF of
`Finish` and `Status`). `ArchiveSource` assumes that a caller goes on (WF: every request has a deadline)
and that the cell works off its queue (WF); neither the game's play nor its own saving is
fair. Faults are bounded, so they end; no fault is ever fair.

## 4. What is proved

All theorems hold for every set of containers, names, ports, pools, templates, requests and
workloads, under the assumptions on constants the modules name.

**`ServerCoreProofs`**: `ReservationsTheorem`, `LiveOwnsNetworkTheorem`, `NoBindConflictTheorem`,
`AllocatesOneByOne`, `RefusedWhenExhausted`. The first three are about reservations.
They assume `Reliable`: `docker.List` is complete, a create that
failed had no effect, and port ranges are disjoint. They are false without: a list
that omits a runtime leaves its ports free, and a port in two ranges is booked in one pool only.

That every live container owns its ports is not inductive. `Reservations` adds, conjunct by
conjunct, what each step needs:

* `OpShape`: what a handler's record holds at each of its places — a step that resumes
  after a daemon call has nothing else to go by;
* `Registered`: ownership in the table that *hands the port out* (its home pool), and not in some
  table, since allocation looks only there;
* `OpRegistered`: what a create in flight took is entered under its name. An entry has one owner,
  so it cannot be a live container's: this gives `NoBindConflict`, and `Created` turns it
  into `Registered` by the re-key;
* `DaemonExclusive`: containers do not share a resource. While the cell is down its tables are
  gone, and only this lets `Bootstrap` enter every resource under its own container.

The proof has one step per action; all table operations are reduced to the lemmas
`ReleasePortsEffect`, `ReKeyPortsEffect`, `AssignIPEffect`, `ReleaseOneEffect`, and to
`KeepsEntriesOf`: no step of a handler touches the entries of another existing container.

The module also holds what the other proofs need of sums and of the lowest entries of a set. The
library's induction theorems are out of the prover's reach, but not well-foundedness itself: of
the finite sets that break a claim there is a smallest one (`SmallestSet`), and removing one element
refutes it. So `SumIsNat`, `SumPicks`, `SumUpdate`, `SumOfPart` say what a fold over a finite set
computes, and `LowestCount` and `LowestNext` how many the k lowest are and which comes next. Two theorems
about allocation follow, from the constants' assumptions only:

* `AllocatesOneByOne`: granting k ports in one step is what the code's loop of k calls does, each
  taking the lowest free port and entering its owner;
* `RefusedWhenExhausted`: with finite ranges, a create is refused for ports exactly when some pool
  has fewer free ones than the template wants.

**`ServerCoreStepProofs`** is about what a single step may do.

* `TypeCorrect`, `ReceiptsTruthfulTheorem`, `OwnershipStableTheorem` and `NoLeakTheorem` assume nothing
  of the daemon: it may fail to list, omit stopped containers, finish a create it reported as
  failed. They rest on `Shape` (types, and `OpShape`), on `DaemonStep` (at most one container is
  born, dies, or keeps what it uses), and on `Outcome`: a whole allocation gives and takes under the
  request's name only. `NoLeak` looks between handlers; inductive is `HeldForAReason`, which
  says at every moment why an owner may hold anything: it exists, it is excused, or it is
  the name of the create in flight.
* `ExclusiveUseTheorem` (the refinement of `ExclusiveUse`, for ports and for addresses) assumes
  `Reliable`: a container that is born uses what no other does because `Reservations` holds after the step.
* `CapacityExactTheorem` assumes nothing of the daemon either. The total moves by what the entries
  move only if the entry that an allocation or a commit overwrites is empty; `Ledger` says so:
  a name is charged while its create waits for docker and at no other time, and an unborn id never.
* `NetworkKeptTheorem` is what remains of `LiveOwnsNetwork` when the daemon is not reliable and ranges may
  overlap: a runtime the running cell created owns its ports and its address until it is gone. A create in
  flight owns what it is going to use (`OpOwns`), and no step touches another container's entries (`EntriesKept`).
  What may be there unregistered is what the cell did not create itself: a container the
  bootstrap was not told of, or a create that landed late.
* `LiveIsChargedTheorem`, `ManagedFitTheorem` and `BudgetHoldsTheorem` assume `Reliable`. That every managed
  container is charged needs the budget: reconciliation skips a container that does not fit. `Funded`
  adds that a create waiting for docker is charged under its name, and that while the cell is down the
  managed containers fit the budget (they were charged when it went down, and one that a crash leaves
  behind was charged as speculation), so nothing is skipped (`NothingIsSkipped`).
  `BudgetHoldsTheorem` adds `Managed = ServerID`: then finding 2 cannot happen.
* `OwnNameOnlyTheorem` assumes nothing of the daemon: a receipt whose replacement is the runtime it
  destroyed is written only by a recreate under that runtime's own name. Its invariant follows the adopted
  container's name from the lookup to the receipt (`NamesItself`).

**`FleetEffectsProofs`**: `ReceiptProtocolTheorem`, `ReceiptsSoundTheorem`,
`BindingsStableTheorem`, `TypeCorrect`, `RepeatsAreForBreaksTheorem`,
`ReceiptMeansReplacedTheorem`, `AutosaveIsBackTheorem`. `ReceiptProtocol` says what the handler knows of
its receipt at each place (the key is free while it works; the temporary file is whole before the
rename; the effects have run before the write); it is inductive with `TypeOK`. `EffectsAccounted`
adds the books: each run of a request's effects belongs to its receipt, to the attempt in flight
or to one that broke off; a staged world has its flag until the restart; and saving is off only
inside a regeneration or after a broken one. It uses the order of the docker calls (`StepsOrder`).

**`HostAgentProofs`**: `SettledWasExecutedTheorem`, `HeldMatchesTheorem`, `TypeCorrect`, from the
inductive `Settlement`: the generation the agent holds between claim and receipt is the one in its
history, and container and tables change in one step except where the workload is excused.
`SettledMatchesTheorem` needs `Agreement` too: the agent works on unsettled workloads only, its claim
is not newer than what is desired, and a good outcome left the container as wanted.

**`TemplateCatalogProofs`**: `TypeCorrect`, `ServesOneLoadTheorem`, `RevisionNamesCatalogTheorem`,
`NeverAheadTheorem`, inductive together with `Served`: the revisions served since the owner's
start or last import lie below its counter, so the next one is new.

**`GameWorkerProofs`**: `TypeCorrect`, `OneTaskPerKeyTheorem`, `OneAnswerPerKeyTheorem`,
`AnswersAreOwnTheorem`. Inductive are `Ledger` (a task of this life has its job, so a key that is new has
none; imported jobs have their tasks in earlier lives) and `Agreed` (job, snapshot and callers
hold the same end of a key).

**`RegistryProofs`**: `NoMapRaceTheorem`, `TypeCorrect`, `ImplementsDirectoryTheorem`. All assume
`CopiesAlone`: the two operations that copy after the unlock overlap with nothing, as in the owner
cell; finding 4 is what happens otherwise. The first needs only who may be where (`Turns`). The
refinement needs what the maps hold: `RInv` adds that no two records, and no record and caller, share a
map (`Private`), what a caller's place says of its record (`Placed`), and that a listing in
progress is the directory's answer for the servers it has passed (`Listings`); the read lock keeps it so.
These two assume `[]Room`: two addresses are always free. `RoomTheorem` proves it when callers and
servers are finite and addresses are not (`EnoughMemory`: memory does not run out), since every step
keeps finitely many maps in use; `TypeCorrectWithMemory` and `ImplementsDirectoryWithMemory` are the
same theorems without a condition on the behaviour. TLC checks them with as many addresses as the
callers of the run can hold.

**`ArchiveSourceProofs`**: `ProtectionTheorem`, `TypeCorrect`, `BackupIsWholeTheorem`, `BackupIsFreshTheorem`,
`OutcomeIsHonestTheorem`. From the answer to its save-off to its own save-on, a backup that nobody
undercuts finds saving off, and from its flush the files are good (`Protected`); and no save-on of its
own is in the queue before it gave up or has the world (`Sane`), which is what the order of
requests and the cell's queue give.

Only model-checked is liveness under fairness (`ResumeSettles`, `AssignmentsSettle`, `JobsSettle`,
`SavingComesBack`), which is out of the prover's reach.

## 5. Findings

Each is a run that ends in a violation; `PROJECT.json` quotes the line that says otherwise.

1. `self_recreate` — recreate compares the replacement's *name* with the old container's *id*; a
   replacement with the old name adopts the old container, destroys it and reports it as ready. It is the
   only way: `OwnNameOnlyTheorem`.
2. `budget_drift` — reconciliation charges only names with a template prefix, create charges every name.
   With all names managed the budget holds: `BudgetHoldsTheorem`.
3. `host_agent_recovery` — the agent's idempotency key contains `/`, which the fenced recovery
   refuses: a create whose runtime came up and stopped before it was settled never succeeds.
4. `registry_native` — `Get` and `Register` copy a record's map of matches after the unlock, while
   `PutMatch` and `RemoveMatch` write it in place: callers that overlap race for one Go map. Callers that
   keep these two to themselves do not: `NoMapRaceTheorem`.

Observations that contradict no statement of the repository, and so have no run:
`ipPool.releaseByServer` returns after one entry while `reKey` moves all (`ips.go:53`), so an owner with
two addresses leaks one; a provision takes new ports beside the ones kept for it (`main.go:912`); a
reload assigns a variable that creates do not read (`main.go:1308`); and a reload of a set that was
current before is a replay for the owner, which goes on serving the set in between
(`templatecatalog/state.go:35`).

## 6. Not covered, and next

Behaviour the models have but no property forbids is listed with a note among the
hazards: a delete by name, overlapping ranges, `keep_ports` without a heir, a suspend retried on a
stopped server, a create that adopts a stopping runtime, and others.

Not modelled, and why:

* *Dispatch loop and event stream*: which invocation the host makes, and what it does with a failed
  one, is not in this repository; the models take one invocation at a time for granted. The
  facade's own part is a cursor; its hazards are listed.
* *Create plan*: a script without state that forwards to engines of other repositories.
* *Fleet observation*: projections of what the daemon reports, without state.
* *Routes for files, images, game rules and uploads*: one call each on the cell's storage or the
  daemon. Fetching and deleting a world are in `ArchiveSource`.
* *Resources, allow list, wire records, proxies and clients*: pure functions, or encode, call,
  decode; a lost answer is modelled where the state behind it is.

What would add most next: clients of `ServerCore` that name servers by their logical name or by an
id prefix; restarts by the daemon between two calls of a recovery; overlapping ranges with the
pool order of Go's maps; and the expiry of transfer URLs in `FleetEffects`.
