# Verification of Discloud

TLA+ models of Discloud, checked with TLC on small instances and proved about
with TLAPS for all values of their constants. Discloud is a drive whose bytes
are attachments of Discord messages: PostgreSQL holds the accounts, the folder
tree, the upload sessions and the locators of the chunks; a pool of Discord
bots carries the bytes; a web client and a desktop application upload parts,
show what is stored and manage it over HTTP.

The models cover the core of the server (quota ledger and node tree, chunks and
their collector, job queue, scheduler of the bots, second factor) and the state
machines of the two clients (uploads, queues of previews, browser, pages,
routes, dialogs, settings, and the desktop's projections of its native engines).

## 1. Inventory

Paths are relative to `src/`; `internal/` is the Go server.

### Server

| Part | State it keeps | Operations that change it | What is hard, and what makes it correct |
|---|---|---|---|
| Upload sessions and quota (`internal/uploads`) | `upload_sessions`, `users.storage_used_bytes`, `users.storage_reserved_bytes` | create, cancel, expire (worker, once a minute), finalize | four ways to close a session race; a reservation is released exactly once and the two counters stay the sums they stand for |
| Part uploads (`uploads/parts.go`, `attempts.go`, `chunk_planner.go`) | `upload_parts`, `upload_attempts`, digest locks | PutPart with up to five attempts on different bots | two systems without a common transaction; ambiguous answers; a session-level advisory lock in a connection that can die |
| Node tree (`internal/nodes`) | `nodes` | create, batch, rename, move, trash, restore, purge, empty trash | one advisory lock per owner, taken by all but version restores; no cycles, no orphans, quota of reachable bytes |
| Files and versions (`internal/files`) | `files`, `file_versions`, chunk references, derived metadata | finalize of a new version, RestoreVersion, metadata jobs | checks made before the transaction |
| Chunks (`internal/chunks`), orphan collector (`internal/orphangc`) | `chunks` and the messages on Discord | register, find, mark ready; sweep every 15 minutes | one row for one content, shared between files; a chunk may be found or attached while it is being deleted |
| Job queue (`internal/jobs`) | `jobs` | enqueue, claim, heartbeat, complete, fail, retry, recover | leases and clocks; worker names that every process reuses; shutdown in the middle of a job |
| Bots (`internal/discordstore`) | in memory: leases, waiters, cooldowns, operator controls | acquire, release, cooldown, drain, enable, probe, add | waiters that must be woken, rotation between classes of work, one lease per bot |
| Second factor (`internal/mfa`, `internal/auth/mfa.go`) | enrollments, secrets, recovery codes, login challenges | enroll, confirm, regenerate, disable, verify | a challenge is read without a lock and consumed at the end; codes used once |
| Storage objects, thumbnails, avatars | `storage_objects`, thumbnail rows | put, job, client upload, sweep | results about an older version |
| Access control, collections, public shares, users, settings, setup, rate limiter | rows and counters | grant, share, unlock, update, allow | each a single statement or transaction |
| Search, folders, analyzer, HTTP, logging | none of their own | read, decode, report | no state changes |

How they meet. The HTTP handlers call the services, and the services meet in
the database: an upload session reserves quota on the owner's `users` row,
PutPart leases a bot from the scheduler, posts, and registers a chunk under the
digest lock; Finalize commits the session into the node tree, marks the chunks
ready, turns the reservation into used bytes and enqueues a metadata and a
thumbnail job. Purge removes rows of all of these in one transaction. The
expiry worker, the orphan collector, the object collector and the job workers
are goroutines that `app/app.go:175-198` starts beside the HTTP server.

### Clients

Both clients are React applications: between two awaits, or in one effect, the
code runs alone; every await, timer, event and rendering is a point where
something else may come in between. Nearly every hazard of the clients is of
that kind: an answer applied to what is shown by then.

| Part | State it keeps | What is hard, and what makes it correct |
|---|---|---|
| Upload engine (`web/src/lib/uploads`) | tasks, queue, runs, epochs; the adaptive gate | tasks cancelled, retried or reset while their calls are under way; active tasks settle, completed ones are stored, no slot leaks |
| Upload pages, folder plans, drop targets (`web/src/components/uploads`, `desktop/src/features/uploads/ui`) | indexes and counters of the tasks, the dock, batches of folders, drags | counters kept step by step; what is dropped reaches the folder that was shown, with every directory in its parent |
| Thumbnails and preloading (`web/src/lib/files`) | slots, retries, windows of chunks | rows and files change while images load; what a window wants is queued, fetched or remembered |
| Previews and carousel (`file-preview*.tsx`) | what a text, picture or video shows; the slide and its address | effects run after a rendering, the router answers late |
| Browser and favorites (`web/src/components/files/browser`) | pages of the list, history, stars | loads overlap; stars are changed before they are stored |
| Search (`packages/shared/src/search.ts` and both pages) | the options in the address, the box | the address is replaced while the user goes on |
| Routes (`web/src/app`, `desktop/src/router.tsx`) | session, address, mounted layouts | guards read a session that ends or changes between them |
| Dialogs, views, settings of both | one form each; rows, pages and keys; drafts and copies | answers after a closing, a second opening or a time-out |
| Desktop transfers, sync, session, updater | projections of the native engines | events overtake snapshots, mounts overlap, an answer of another server |
| Desktop local server (`desktop/src-tauri/src/runtime/local`, `server-connection.tsx`, `settings/local-server`) | the runtime's snapshot and the screens that read it | overlapping polls, stages inferred from what is missing, commands that overlap |
| Native transfer and sync engines (`desktop/src-tauri/src/{transfers,sync}`) | local databases, partial files | external to the models: their events and snapshots are modelled |

## 2. Modules

`MC...` modules hold the instances for TLC (symmetry sets, constraints, values of
operators); `...Proofs` modules hold theorems about the modules they extend.

| Module | Models | State |
|---|---|---|
| `NodeForest` | the recursive queries over `nodes.parent_id` | none: `Chain`, `Subtree`, `Below` as least closed sets |
| `StorageLedger` | one owner's counters, tree and sessions | `row`, `parent`, `name`; `size`, `versions`; `sess`, `due`, `finalizing`; `treeTx`, `restoring`; `used`, `reserved`, `quota` |
| `ChunkStore` | chunk rows against Discord messages | `msg`; `chunk`, `aged`; `sess`, `part`, `hashed`, `commit`; `refs`, `file`; `lock`; `call` (PutPart); `gc` (sweep) |
| `JobLifecycle` | abstract: what the queue promises of a job | `status`, `attempts` |
| `JobQueue` | the jobs table, its workers, shutdown and restart | `status`, `attempts`, `lockedBy`, `stale`, `later`; `worker`, `up` |
| `BotScheduler` | `discordstore.Scheduler` with its controls and the probe | `size`, `next`, `cursor`, `queue`, `busy`, `cooling`, `enabled`, `healthy`, `draining`; `call`, `awake` |
| `SecondFactor` | enrollment, codes and challenges on the server, the security pages of the account's sessions, the sign-in form | `enrolled`, `secret`, `codes`, `codeUsed`; `page`, `call`; `challenge`, `form`, `verify` |
| `Semaphore` | abstract: a resizable semaphore | `holders`, `waiters`, `capacity` |
| `UploadGate` | `ConcurrencyGate` and `AdaptiveConcurrencyGate` | `pc`, `aborted`, `active`, `waiting`, `limit`, `ceiling`, `healthy` |
| `WebUploads` | the upload engine and the calls of an upload | `status`, `session`, `queue`, `runs`, `controller`, `cancels`, `epoch`; `sessions` |
| `UploadPages` | the store's indexes, the dock, the page of uploads | `tasks`, `index`, `summary`, `dock`, `chosen`, `cancelling` |
| `FolderPlans` | a dropped tree cut into batches, against `CreateFolderBatch` | `folders`, `plan` |
| `DropTargets` | where files are dropped and picked, in both applications | `targets`, `drag`, `overlay`, `held`, `picking` |
| `ThumbnailLoads` | visuals, their loads and the slots | `source`, `image`, `call`, `pending`, `loading` |
| `PreviewWarms` | windows of chunks fetched ahead | `windows`, `warmQueue`, `warming`, `warmed` |
| `FilePreviews` | text, picture and video previews | `shown`, `effectsDue`, `text`, `request`, `picture`, `video` |
| `PreviewCarousel` | the carousel, its address and caption | `route`, `snap`, `navigatingTo`, `replacing`, `infoVisible` |
| `WebBrowser` | the list of a folder | `folder`, `sort`, `nodes`, `main`, `more`, `loads`; `url`, `content` |
| `FileFavorites` | stars and selection of its rows | `starred`, `bulk`, `toggles`, `reload`; `favorites` |
| `SearchPages` | the options in the address and the box | `url`, `going`, `value`, `timer` |
| `Routes` | pages, guards, layouts, redirects and links | `status`, `setup`, `user`, `at`, `screen`, `tree` |
| `FormDialogs` | 27 dialogs, a record each, under one protocol | `opening`, `pending`, `message`, `requests` |
| `ResourceViews` | 37 views, a record each, under one protocol | `key`, `rows`, `loading`, `reads`, `changes`; `stored` |
| `SettingsForms` | profile, common settings, switches | `shown`, `draft`, `saving`, `refresh`, `native`; `server` |
| `TransferProjection` | upload and download stores against the engine's events | `native`, `events`, `sub`, `shownTasks`, `taskRevisions`, `indexes` |
| `DesktopSync` | pairs, runs and conflicts | `ref`, `running`, `ops`, `listening`; `stored`, `schedule`, `active`, `runEvents` |
| `DesktopSession` | connection and sign-in | `view`, `saved`, `calls`; `client`, `signedIn` |
| `DesktopUpdater` | checks, offers, channel, installation | `stage`, `update`, `channel`, `busy`, `task`, `switch` |
| `LocalProvisioning` | the runtime's commands and the screen that follows them | `localRuntime`, `attempt`, `config`; `screen`, `steps`, `polls` |
| `LocalServerPage` | saving, restarting, export and import on one page | `server`, `page`, `flow`, `databaseAction` |

In every module a variable marked *external* stands for something outside the
code that is modelled (the server, the router, the native engine), as that code
uses it; a variable marked *history* records what happened and guards nothing.

### StorageLedger

An action is one transaction. All operations of the tree take the owner's
advisory lock (`nodes/service.go:624`), so they exclude each other and need not
be cut. Three things are cut because somebody gets in between:

* Trash and Restore first measure the active bytes of the subtree and then lock
  the `users` row. RestoreVersion takes no tree lock and can commit between
  the two: `TrashMeasure`/`TrashCommit`, `RestoreMeasure`/`RestoreCommit`,
  with `treeTx` for the transaction under way.
* RestoreVersion checks access before its transaction and does not look at
  `deleted_at` again: `AuthorizeRestoreVersion`/`RestoreVersion`.
* Finalize loads and checks the session before it locks it: `BeginFinalize`
  and `FinalizeNew`/`FinalizeVersion`. Two calls for one session may both pass
  the first check.

`raced` is a history variable: a version restore has run against a trash since
the last reconciliation. Sizes stand for bytes, names for name keys; the owner
is one of many, as nothing in the ledger relates two owners.

### ChunkStore

An action is one statement, transaction or Discord call. A PutPart call goes
through `lock`, `recheck`, `find`, `post`, `register` (or `clean`), `attach`;
it may be cut off before each (`Abort`), the answer of Discord may be lost
(`PostUnanswered`, `SweepDeleteUnanswered`), and PostgreSQL may drop the
connection that holds a digest lock while its holder goes on (`LoseLock`).
These three count as faults. A chunk row is named by the message it locates,
since no two rows share a message. `exposed` is a history variable: the
contents for which a sweep was cut off after its Discord delete, or whose lock
was lost.

### JobQueue and JobLifecycle

An action is one statement on the table or the end of a handler. `stale` is the
set of running jobs whose `locked_at` is older than the lease timeout; the
clock may pass it at any time, because a process may be suspended.
`Restart` brings up a process whose workers have the same names, while the rows
keep the leases of the old one. `JobLifecycle` is the drawing of the operator's
manual as a specification over `status` and `attempts`, and `JobQueue`
implements it with the identity mapping of these two variables.

### BotScheduler

The scheduler is a monitor, and an action is one critical section of its mutex.
A caller that must wait leaves the mutex holding the channel `changed` and
perhaps a timer for the earliest cooldown; `awake` is the set of sleeping
callers whose channel has been closed or whose timer has gone off, `timer` the
cooldowns of which the first to end wakes the caller. Time is not counted: a
cooldown ends when it ends. The queue is one sequence in the order of the
waiter ids; each waiter has its class, and `IsNext` is the search of
`nextAssignableFairWaiterLocked`. Release, drain, enabling, the probe and a new
bot are actions of their own; `passed` is a history variable that counts how
often a class has been passed over.

### SecondFactor

Every operation of the server but the verification of a challenge is one
transaction under the lock of the user's row and one action (`Enroll`,
`Confirm`, `Act`). The verification is cut: `readChallenge` takes no lock,
`verifyMFAChallenge` is the rest. A page asks, the server answers when it does,
the page hears later, and an answer may be lost. Secrets and sets of codes are
numbered by the change that made them; `told` records of which change a page
was told last, so that a page that was not told is not held to what it shows.

### The clients

An action is what runs between two awaits, one effect, or one event of the
browser or the native side. A request is sent, served at a moment of its own,
and answered later, so that answers overtake each other; it may fail, and it
may time out after it was served.

`FormDialogs` and `ResourceViews` have one protocol and one record per dialog or
view: what it locks while it is busy, what it does with a late answer, whether
its state survives a closing, what it reads again. Their records are where the
64 components differ, each read from its own source. `Leaky`, `Misreporting`,
`Mixed` and `Outdated` name the components whose own records make one part of
the property fail; they are excused from that part and the rest holds for them.

What a component is known not to withstand is kept in a history variable
(`excused`, `raced`, `crossed`, `met`, `slipped`, `early`, `forgiven`,
`pardoned`, `wiped`, `vanished`, `stolen`, `lost`, `interrupted`,
`cancelFailed`), which the action that exposes it sets, and the property is
stated for the rest. What each of them stands for is said above the property;
what follows from some of them is in section 4.

## 3. Runs

The parts that a run of the clients composes share no state: a variable of the
`MC` module chooses one part, and a behaviour exercises that one.

| Run | Question | Instance |
|---|---|---|
| `ledger_uploads` | Is every reservation released once, and growth kept within the quota? | two sessions, two files, sizes 0..2, quota 2 or none |
| `ledger_tree` | Does the used counter follow the tree, and does the tree stay one? | three folders, one file, two names, one session |
| `chunks_safety` | Are committed chunks ready and referenced bytes present, and do racing uploads leave one message? | two calls, two sessions, one of them verified, two files, three messages of one content, two faults |
| `chunks_liveness` | Is every orphan collected? | one session of two parts, two contents, one fault |
| `jobs` | Do leases protect attempts, does the queue keep the life cycle, does every job settle? | two jobs (one of an unknown type), two workers, three attempts |
| `bots` | One lease per bot, rotation, no lost wake-up? | three callers, two classes, two bots of which one is added later, two interventions |
| `bots_liveness` | Is every call answered? | three callers, two classes, one bot, one intervention |
| `web_queues` | Do gate, thumbnails, preloading, drops, folder plans, previews and search keep their promises under overlap? Does the gate implement the semaphore and serve who waits? | three clients of a gate of 1..3; two visuals with one slot; two owners of windows of two; two folders, mounts and gifts; two drops of two directories; nine files; two changes of a search |
| `web_uploads` | Is what the page calls complete stored, are the counters right, and does every active task settle? | two tasks of one part, three runs, one reset, one fault |
| `web_views` | Do browser, stars, carousel, routes and upload pages show what is so? | two folders, three loads; two files; three slides; two names, one of them "login", three hops; two uploads |
| `desktop` | Do the projections, the session, the updater and the local server's screens show what is so? | two transfers and three revisions; one pair, two calls; two servers; two channels; two attempts and polls |
| `web_forms` | Do dialogs, views, settings and the second factor withstand late answers? | three openings; three reads, two changes; four saves; two pages, one challenge, two verifications |

### Bounds and why they are enough

* The ledger's interesting states need two writers on one file and one session
  closed in two ways; two files let a quota be shared. Drift left by races can
  add up without end, and the constraint `BoundedDrift` follows it to twice
  what the files can hold. Three folders are the fewest in which two moves can
  close a cycle together.
* In `chunks_safety` two calls and the sweeper meet on one content; contents do
  not interact except through sessions with several parts, which is what
  `chunks_liveness` has. Three messages allow a duplicate and a re-upload; two
  faults allow a lost lock followed by a cut-off.
* Three attempts give `jobs` a first, a middle and a last one. Restarts,
  suspensions and lost answers are not bounded.
* In `bots`, `MaxDisturbances` bounds drains, enablings, probes and cancelled
  calls together; calls, releases, cooldowns and the addition of a bot are not
  bounded. Callers either exclude nothing or the first bot, as a retry does.
  `passed` counts up to `NumClasses`, one more than the property allows.
* In the clients a fault needs two requests that overlap, and for some a third
  thing between them: two of a kind and one event are always there. Three
  clients of the gate give a holder, a first and a second waiter. Slots, hops
  and retries are small numbers of larger ones (`WarmLimit`, `BatchLimit`,
  `Attempts`): what is tested is the boundary, not its distance. Names differ
  in case because the server takes them for one; one user is called "login"
  because that is also a route.
* `CHECK_DEADLOCK FALSE` is set where the instance uses something up (messages,
  sessions, requests, changes) that the program does not: `chunks_*`,
  `web_uploads`, `web_views`, `desktop`, `web_forms`. It stays on in the others.

### Fairness

* `ChunkStore!FairSpec`: calls in flight go on; waiting for a digest lock is
  strongly fair, because PostgreSQL queues the waiters of a lock; the sweep
  comes round every 15 minutes and takes the oldest candidates first, so each
  candidate is listed again and again; Discord answers in the end. No fairness
  is assumed of clients, faults or purges.
* `JobQueue!FairSpec`: the clock runs, handlers return (the processing of
  a video has a timeout, the others read one file), a worker goes on to its next
  statement, a process that stops is started again, and Claim orders by
  `run_at`, so a job that is due again and again is claimed. A lease is only
  assumed to expire once no worker attends to the job.
* `BotScheduler!FairSpec`: goroutines that can run do, requests to Discord end
  and cooldowns pass. Nothing is assumed of Go's mutex or of the order in which
  woken callers run.
* `UploadGate!GateFair`: work that was admitted ends and the event loop runs
  what follows. Nothing is assumed of aborts, of the server's ceiling or of
  congestion.
* `WebUploads!FairSpec`: a request is answered or fails, and what awaits it goes
  on. API requests time out after 30 seconds; the sending of a part has no
  time-out of its own and relies on the browser ending a dead connection.
  Nothing is assumed of the user.

## 4. What was found

Where the code and its documents, comments or screens disagree, the models
follow the code. A property then holds for everything but the named case, which
a history variable excuses.

On the server:

* Create reserves only the growth of a replacement
  (`uploads/service.go:250-262`), Finalize insists on a reservation of the
  whole size (`uploads/finalize.go:115`): replacing a file that is not empty
  cannot be finalized, though the API offers it
  (`docs/openapi/components.json:3792`).
* A version restore authorised before its file was trashed charges the
  difference afterwards (`files/versions.go:144`), against
  `docs/OPERATIONS.md:571`. Reconciliation repairs it. `raced` excuses it.
* A sweep cut off between the Discord delete and the row delete leaves an
  uncommitted row without a message (`orphangc/service.go:101`), which the next
  upload of the same bytes shares and commits, against `docs/SECURITY.md:94,96`.
  `exposed` excuses it.
* A purge deletes chunk rows and never their messages (`nodes/purge.go:264`),
  against `FEATURES.md:267`. `NoStrayMessages` is about the uploads and the
  sweep, and leaves what a purge drops aside.
* A probe takes a bot without notifying anyone
  (`discordstore/controls.go:147`). The waiter that was woken for that bot goes
  back to sleep, and the next one, which had looked before and found it was not
  its turn, sleeps although another bot is free, until some lease ends;
  `docs/BENCHMARKING.md:374-375` expects it to use that bot. Hence "unless
  probing" in `NextWaiterIsAwakeUnlessProbing`.
* Two folders of one drop whose names differ only in case are one path to the
  server (`nodes/batch.go:169`): in one batch the whole drop is refused, in two
  they become one folder; the client keeps them apart
  (`web/src/lib/uploads/folder.ts:71`).

In the clients:

* Two changes of a search that are made before the address is replaced: the
  second takes the first back (`web/src/components/search/search-view.tsx:22`,
  `desktop/src/features/search/search-page.tsx:82`). `excused`.
* A picture that was loaded before the effect that resets it keeps its spinner
  (`web/src/components/files/file-preview.tsx:186`). `early`.
* When the factor turns out to be off, the security page goes on showing
  recovery codes the server has deleted
  (`web/src/components/settings/security-settings.tsx:144`, the desktop's page
  at `:241`). `SecondFactor` excuses it while the factor is off.
* A start that is answered after another page turned the factor on leaves its
  secret on a page that shows the factor on, and turning it off, or finding it
  off, does not take the secret away: the page offers it again, though the
  server has another or none
  (`web/src/components/settings/security-settings.tsx:56`). It was met in the
  proof, as a step that did not keep the invariant; TLC shows it with eight
  changes. `told.late` excuses that secret and no other.
* When one upload fails while another is active, the desktop's notification
  names the active one
  (`desktop/src/features/uploads/ui/upload-provider.tsx:96`).
* A local runtime that fails while it prepares its directories shows the
  failure at the step of PostgreSQL
  (`desktop/src/components/local-server-provisioning.tsx:215`).
* A poll asked earlier and answered later replaces a newer snapshot
  (`desktop/src/components/server-connection.tsx:62`). `LocalProvisioning`
  excuses what an older poll shows.

Three more were met and are not modelled: the purge deletes `ready` rows
(`nodes/purge.go:269`) that `docs/OPERATIONS.md:648` protects; RestoreVersion of
an image or video names a column that does not exist (`files/versions.go:216`);
and a waiter whose retry excludes the bots that come free can be passed over for
ever by younger waiters of its own class, because the rotation is between
classes only (`EveryCallIsAnswered` does not hold with two bots when
`Exclusions` has `{0}`), against `docs/BENCHMARKING.md:386`.

## 5. Proofs

All theorems are about the specification of their module with arbitrary
constants that meet its named assumption: finite sets where something is summed
or counted, null values outside their sets, positive bounds. Each rests on an
inductive invariant, named in its module; the properties it implies are the ones
TLC checks on the module's run.

* `StorageLedgerProofs`: the types (which include that no counter goes
  negative), that `reserved` is the sum of the open reservations, that closed
  sessions stay closed, that growth stays within the quota, and that an open
  session keeps its folder. `reserved` is a cardinality (one element per
  reserved byte), so that the lemmas on sums are lemmas on finite sets.
  `ReservedIsDerived` is inductive with the types and the fact that sessions
  which do not exist reserve nothing; the quota theorem rests on it.

  That every node reaches the root, and that `used` is the size of the reachable
  files unless a version restore met a trash, are proved there as well. A chain
  to the root is the least set of nodes closed under the parent, so nothing
  is proved by induction along it: a chain that avoids the node a step hangs
  elsewhere stays as it was, one that passes it goes over to the chain of the new
  parent, and `folderContains` keeps the moved node off that chain. A node whose
  chain reaches the root is on no cycle, so its subtree is what
  a trash takes away, a restore brings back and a purge removes. The
  invariant (`TreeInv`) adds `TxInv`, which holds between the two halves of a
  trash or a restore: the tree lock keeps its node, its target and their chains
  as they were read. For `used`, the bytes a trash or a restore has measured are
  still the bytes of its subtree when it commits (`Measured`), unless `raced`
  says that a version restore came between; the sums before and after then differ
  by a sum over a disjoint set.
* `ChunkStoreProofs`: `FileChunksAreReady`, `ReferencedBytesAreLive` and
  `NoStrayMessages` are not inductive. `IInv` adds what protects them: parts
  point at rows (the foreign key), a call past its lock holds it and no row of
  its content turns up between its search and its registration
  (`CallsAreGuarded`), the sweeper deletes only under the lock what is still
  unprotected (`SweepIsGuarded`), and a row leads to its bytes unless the
  sweeper is about to remove it (`RowsAreLive`), each of them excepting exposed
  contents.
* `JobQueueProofs`: the lease invariant (a worker that holds the lease makes
  the current attempt), from it that only that worker or an expired lease ends
  an attempt, and that the queue implements `JobLifecycle`, initial states and
  every step.
* `BotSchedulerProofs`: one lease per bot, drains end with their lease, the
  queue is exactly the waiting callers, rotation, and no lost wake-up while no
  probe holds a bot. Rotation follows from `TurnComesNearer`: each time a class
  is passed over, the distance of the cursor to it shrinks, so the count and
  the distance together stay below the number of classes. The wake-up theorem
  needs `SleepersAreTimed`: a sleeper with nothing to take has a timer for
  every usable bot that only a cooldown keeps from it, so the end of a cooldown
  either wakes it or changes nothing for it.
* `WebFormsProofs`:
  * `SecondFactor`: `SecondFactorIsTrue`. A challenge that has signed in is over
    and never opens again, and each code that is spent is counted for one
    challenge. Of the pages, an answer given in the present state of the server
    is true while it is on its way (`AnswersAreTrue`), and a page that was told
    of the last change shows it (`PageIsCurrent`): a change of the server puts
    every page and answer out of date at once, so only its own page is looked at.
  * `FormDialogs`: `DialogsAreTrue`, from `DialogsAreSound`, a lemma about the
    records of the 27 dialogs: what locks, frees and closes fits together, except
    for the named ones. From there on no dialog is looked at by itself.
  * `SettingsForms`: `SettingsAreTrue`. One invariant per form: a copy is what is
    stored, but for the answer on its way, which says what is stored.
  * `WebUploads`: `TasksAreTrue`, from `UploadsInv`. Its part `Good` speaks of the
    store, the queue, the runs and the server's sessions given one by one, so that
    a step is followed through its `pump` piece by piece: the runs of the epoch are
    counted; a task has at most one of them and no place in the queue beside it,
    unless a cancel of it failed; a run past `onSession` uploads to the session its
    task remembers, so what it completes is what the task shows; tasks wait only
    while all slots are taken (`QueueIsFull`), so one end lets at most one start; a
    plan of this epoch is of a task nobody has seen (`PlansAreSound`). A reset
    starts an epoch with no runs, and those of the last one end without a word.
    That the first of the queue is taken (`Lowest`) is proved by the
    well-foundedness of the naturals.
  * `ResourceViews`: `ViewsAreCurrent`, from `ViewsAreSound`, a lemma about the
    records of the 37 views. A view that is loading has a read that ends it
    (`LoadingEnds`), and rows that are hidden are coming (`RowsAppear`). Where
    reads discard each other, only those of the present key are wanted, and the
    rows are of it unless a read or a failure is to come (`KeysAgree`). A view that
    patches its rows never reads them again (`PatchesAreShown`). One that reads
    them again starts that read when a change is answered and drops those asked
    before, so what is answered contains the changes that are over; where no read
    is dropped, or the change patches a dialog that stays open, none is made while
    a read is wanted (`ReloadsAreShown`).
* `WebViewsProofs`:
  * `PreviewCarousel`: a settled carousel agrees with its address and shows what
    was swiped to last. The navigation under way is always to the slide wanted
    last (`NavigationIsWanted`), and a caption that differs from its slide is
    explained by an effect that is due (`CaptionIsExplained`).
  * `FileFavorites`: `FavoritesAgree`. A star has one change under way at most
    (`OneChangeOf`), and what the list and the database say of it follows from the
    stage of that change (`StarIsKnown`).
  * `Routes`: `RoutesFitTheSession`. `webRank` and `desktopRank` bound the
    redirects still to come from an address; each redirect lowers them, so every
    navigation of an ordinary user ends within `MaxHops`. The layouts of the web
    that are fresh belong to the session (`LayoutsAreFresh`).
  * `WebBrowser`: `BrowserIsTrue`. What is alive is the main load or, with no main
    load, the one that extends the list (`LoadsAreHeld`); an answer on its way
    fits the list it will replace or extend (`AnswerFits`); unless the timer runs
    or an event was missed, the answer served has all that happened in its folder
    (`RestIsKnown`).
  * `UploadPages`: `UploadsAreShown`. Each index of the store lists the tasks of
    its statuses, each once (`Lists`, `IndexIs`), which the change of one task
    keeps, so the lengths of the indexes are the counts and their first elements
    make the summary (`StoreInv`); a completion the dock has not seen was earned,
    and its timer runs exactly while it takes the pointer to be away (`DockInv`).
* `DesktopProofs`:
  * `DesktopUpdater`: an offer is of the selected channel and the controls tell
    what a click does.
  * `DesktopSession`: `SessionIsTrue`. At most one call connects, and only while
    nothing is connected (`OneConnects`); without a crossing each call asks the
    present server about the present user (`OneSession`).
  * `LocalServerPage`: `PageIsTrue`. What is shown or answered was so at some time
    (`SnapshotsAreOld`), and whenever the page is behind, some function that
    changed the server will still read it (`RuntimeIsComing`,
    `SettingsAreComing`).
  * `DesktopSync`: `SyncIsTrue`. A pair is run by one call and nobody else, or by
    the scheduler and nobody else; then its mark follows the events still on
    their way, which come in order, a start before its end (`PairInv`). A single
    edit has the only list to write (`EditInv`).
  * `LocalProvisioning`: `StepsAreTrue`. The runtime is as far as the command's
    step says (`RuntimeIs`). What the steps show, what every snapshot on its way
    would show and what a snapshot read now would show is done (`ReachedIsDone`);
    in a first attempt none of them is ahead of the runtime (`NotAhead`), and once
    a web interface that failed is passed, no later snapshot hides its error
    (`WebIsDone`): the screen never goes back, but it overwrites the error.
  * `TransferProjection`: `ProjectionConverges`. The invariant speaks of a history
    that no variable holds: there is a map of tasks for each revision of the
    engine, the last one the present, of which a snapshot on its way is one and
    an event one step. What the store shows of a task is what the engine had at
    the revision the store remembers for it, or later; what is newer is on its
    way to a listener, or in the buffer of a subscription that reads its
    snapshot. The indexes list the tasks that are shown in the order of their
    revisions, each once.
* `WebQueuesProofs`:
  * `UploadGate`: the gate implements `Semaphore`, and its slots are counted. The
    queue and the clients that wait are the same (each once, none aborted), and
    nobody waits below the limit; a drain admits exactly as many as there are
    free slots.
  * `ThumbnailLoads`: `VisualsShowTheirFile`. A call that was not aborted brings
    what its visual shows (`CallBrings`), so a visual that waits has one and an
    answer that is out of date finds its call aborted; the queue lists the calls
    that wait, each once, and a drain admits the first of them and counts them
    (`SlotsOf`).
  * `PreviewWarms`: `WarmQueueIsExact`. The property needs only that the memory
    holds a key once. What is behind it are lists: what a filter keeps, and what
    is put behind or taken from the front.
  * `FilePreviews`: `PreviewsAreTrue`. One request is heard at most, a picture is
    not done before its effects have run unless it was early, and the window of
    chunks was made for the chunk that plays.
  * `SearchPages`: `SearchIsWanted`. The address that is on its way reads back as
    the options asked for; parsing what `searchParamsForOptions` writes gives the
    options again, for any bounds of the ranges.
  * `DropTargets`: `DropsReachTheirFolder`, the half of `DropsAreTrue` about where
    drops go. Gifts are numbered without gaps, so the next one is new (`GiftIs`);
    what the browser reads is of the folder it was dropped on and not added yet
    (`HeldIsTrue`); and only targets that can be written to ask for events, so the
    overlay of the desktop is over such a folder (`OnlyEditableHear`).
  * `FolderPlans`: `FoldersNestRightly`, the other half. A call of a plan is a
    forest: what is not below another of its directories is directly below one
    that has its folder (`GoodForest`), and what has no folder yet is in one of
    the calls (`Awaited`). A batch keeps that: `Before` is a total order in which
    a parent comes first, so with a directory all above it are selected; the
    parents of what is left over have the ranks from 0 on, each once, so
    `Deferred` has a call for every one of them. Two twins in a batch are two
    directories of the drop with one key path. That no folder is counted twice
    needs sets of folders, one for each plan and disjoint, which no variable
    holds.
  * `MCWebQueues`: `DropsAreTrue`, of the composition that TLC checks. Its queues
    share no state, so a behaviour of it is one of `DropTargets` and one of
    `FolderPlans`.

Assumptions on constants, beside types and bounds: in `Routes` the names are not
the values for nobody and for a name nobody has, and `MaxHops` allows three; in
`FilePreviews` a file is of one kind; in `UploadPages` no upload is called
"none"; in `ThumbnailLoads` no source is called "none" or "loading"; in
`TransferProjection` no transfer is called "none" or "answer"; in
`DesktopSession` no server is called "nowhere" or "no one"; in `DesktopSession`
and `DesktopSync` the calls include 1, the one that is made at the start. In
`FolderPlans` a drop has finitely many directories, made of the names that
`Names` puts in order; `NameKey` may fold any of them.

Only model-checked is liveness under fairness (`OrphansAreSwept`, `JobsSettle`,
`EveryCallIsAnswered`, `WaitersAreServed`, `TasksSettle`), which is out of the
prover's reach. Every invariant and every other action property a run checks has
a theorem.

Induction over data is replaced by a least counterexample: a set of naturals that
is not empty has a least element (`LeastOne`), so a recursive function that
differed from what it should be would do so for a first index, a shortest path
or a smallest set. That is how the theorems know what `Kept` takes of a list,
that a list made of a set names each element once, where `Placed` puts a
directory and what `Counted` adds up. `SelectSeq`, `Remove` and `CASE` with
`OTHER`, which the provers cannot expand, are written as `Kept`, `RemoveAt` and
conditionals where something is proved about them.

## 6. Not modelled, and why

* Search, listings, recent activity, the storage analyzer, folder downloads and
  the HTTP layer of the server read or translate; they change no state of their
  own.
* Encryption, image and video decoding and the Discord protocol are outside
  what these models tell apart; `ChunkStore` and `BotScheduler` keep the answers
  Discord may give.
* Row-lock deadlocks: PostgreSQL aborts one of the transactions, which is the
  same as the failure of that request. The pool of database connections and the
  loop of part attempts: what they add to `ChunkStore` and `BotScheduler` is
  waiting, and a bound on retries.
* The chunk planner, range parsing and quota arithmetic at the edge of a bigint
  are straight-line functions; nothing interleaves in them.
* Derived media (thumbnails, metadata, `storage_objects` and their collector),
  access control, collections, public shares, users, runtime settings, first-run
  setup and the rate limiter: each operation is one statement or one
  transaction. Their hazards are listed in `PROJECT.json`, without a property.
* The native engines of the desktop (transfers, folder synchronisation, mounts)
  appear as the external side of `TransferProjection` and `DesktopSync`: their
  snapshots, events and revisions, not their local databases and files.
* The resolution of bots at start-up, the runtime page with its events and
  metrics, and the direct links observe the scheduler or call it as any other
  caller does.
* Second factor: the reset by an administrator and the time steps of one-time
  passwords; of the sessions, what the routes and the sign-in tell apart.
* In the clients: the drafts of search inputs before they are committed, the log
  panes, data of an incompatible version, and the fields of drafts that no
  property tells apart.
* The generated API types (about 5,500 lines), the vendored primitives of
  `packages/ui` (over 7,000), static pages and markup have no state of their
  own. They are most of what the map leaves out.
