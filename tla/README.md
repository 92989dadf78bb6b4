# OpenCode Register in TLA+

OpenCode Register is a desktop application (a Tauri shell, a React page and a Python backend) that
creates GitHub and OpenCode Go accounts through a visible browser, keeps them in an encrypted vault and
maintains the OpenCode configuration files that pool their API keys. This directory specifies the
backend's stateful core, checks it with TLC and proves parts of it with TLAPS.

`src/` below is the repository; line numbers refer to the commit the modules were written from.
`PROJECT.json` lists components, runs, theorems, hazards and, for each definition, the lines it models.

## 1. The system

| Component | State | Operations | Where |
|---|---|---|---|
| Account-creation flow | the `FlowSession` (status, pending manual intervention, error), secrets, pause request, open sessions | `start`, `resume`, `request_pause`, `cancel`, `fail` | `backend/engine/flow.py`, `steps.py`, `models.py` |
| Flow service | one operation task and one timeout task per flow, subscribers | `create`, `resume`, `pause`, `cancel`, `close`, timeout of an intervention | `backend/engine/service.py` |
| Events and WebSocket | one bounded queue (8) per subscriber | publish a snapshot, subscribe, reconnect | `engine/events.py`, `api/websocket.py`, `src/services/api.ts` |
| Account completion | an `asyncio.Lock` | `complete`, `import_bundle`, `apply_pending_configuration`, rollback | `engine/completion.py` |
| Pool configuration | `auth.json`, `opencode.json`, `oh-my-openagent.json`, their backups | add, remove, promote, repair, refresh | `config/*.py` |
| Vault | SQLite tables of complete and pending accounts, settings, cleanup operations; master key | unlock, rows, migrations | `storage/*.py` |
| Account cleanup | a flow per account, a persisted state `requested`/`remote_deleted`, a lock per account | `start`, `resume`, `cancel`, local cleanup | `engine/cleanup*.py` |
| Quota checks | a lock per account, the scheduler's task | refresh one or all, mark exhausted, sweep | `engine/quota_service.py`, `scheduler/*.py` |
| Browser | the download task, one browser per client, contexts | `start`, `create_session`, `close` | `backend/browser/*.py` |
| Mailbox | one temporary address, a page | create, poll, dispose | `browser/temp_mail.py`, `providers/*` |
| Screenshots | picture files with retention | capture, clear, prune | `storage/screenshots.py` |
| Bundles | none | encrypted export and import | `storage/bundles.py` |
| Desktop shell | the backend process, its port | spawn, restart, stop | `src-tauri/src/*.rs` |
| Pages | what the user sees, `isSubmitting` | requests and snapshots | `src/src/**` |

How they interact: an API request calls the flow service, which starts or interrupts an asyncio task
that drives one flow; the flow awaits browsers, the mailbox and threads that use the vault, and ends by
calling account completion, which writes up to two configuration files and then commits one row.
Import, application of settings and repair reach the same files from the account and settings APIs;
account cleanup reaches them after GitHub has confirmed a deletion. Everything runs on one event loop,
so only an `await` lets anything else run; a thread started by `asyncio.to_thread` cannot be stopped.

What is hard about it:

* cancellation. Each request and the shutdown cancel tasks at any `await`; some awaits are shielded,
  some cleanups are interrupted, a thread's effect outlives its coroutine.
* checks before an `await` that are acted upon after it (`_ensure_idle`, the account a removal works on).
* three files and a database that change together without a transaction around them.
* locks that cover one part of the callers (completion, but neither cleanup nor repair).
* timeouts that race the answer they wait for.

What makes each component right:

* flow and service: one operation at a time; an ended flow stays ended, keeps no secrets and no browser;
  a stored account is never reported as failed and only a stored one as done; nobody is waited for
  without a timeout; every request is answered and the shutdown comes to its end.
* completion and pool: the files carry the keys of exactly the accounts the vault says are configured,
  under the names the vault has; a failed call leaves no trace; nobody's key is overwritten.
* cleanup: the intent on record before GitHub is asked, no local deletion before the remote one is
  confirmed, no second remote deletion, a retry finishes what a crash left.
* vault: an account is in one table; a wrong password changes nothing; migrations keep rows.
* events: a subscriber that is slow loses intermediate snapshots, never the last.
* quota: one check per account at a time, what it finds is stored, and the scheduler keeps going.
* browser and mailbox: one download, one browser per client, a failure that does not stick, a shutdown
  that leaves nothing running.

## 2. Modules

```
FlowSession            a flow's data and the pure updates of it
  CreateFlow           its coroutines, await by await
    CreateAccountService   requests, timeouts and the shutdown around it   (Init, Next, Spec)
      FlowGuarantees       properties, fairness, refinement of FlowLifecycle
        MCFlowGuarantees   symmetry, for TLC
        FlowProofs         theorems
          SerialFlowProofs theorems for requests sent one after the other
FlowLifecycle          the abstract specification of a flow
PoolFiles              the configuration files' providers, numbering, rows of the vault
  AccountPool          complete, import, apply, repair, remove             (Init, Next, Spec)
    PoolGuarantees     properties
      PoolBalance      the inductive invariant behind InStep
        MCPoolGuarantees  symmetry, for TLC
        PoolProofs     theorems, with
        FiniteNumbers  the greatest and the least of finitely many numbers
AccountRows            an account's rows in the vault and its transactions
  AccountCleanup       removing accounts: service, flow and page
    QuotaCheck         quota checks and their scheduler on the same vault
      AccountCare      both in one process, with crashes                   (Init, Next, Spec)
        CareGuarantees properties, refinement of Removal
          CareProofs   theorems
Removal                the abstract specification of a removal
Vault                  unlock, migrations, keys, bundles                   (Init, Next, Spec)
  VaultGuarantees      properties
    VaultProofs        theorems
BrowserRuntime         download, clients, sessions, shutdown               (Init, Next, Spec)
  BrowserGuarantees    properties
    BrowserProofs      theorems
FlowFeed               events, polls and answers on their way to the page  (Init, Next, Spec)
  FeedProofs           theorems
```

### The flow (FlowSession, CreateFlow, CreateAccountService)

`flow` is the `CreateAccountFlow` object: status, manual intervention and the state saved for it, pause
request, which secrets are in memory, whether a mailbox and a pending account exist. A process is a
coroutine that asyncio runs: `Op(t)` the task of `start()` or `resume()`, `Timer(t)` the timeout task it
leaves, `Request(r)` an API call, `Closer` the shutdown. `pc[p]` is the await it is parked at; an action
runs it from there to its next await, as the event loop does. `onExit` is what follows the shared cleanup
tail (`fail_mark`, `dispose`, `close`, `clear`). `slot` and `current` are the service's dictionaries of
timeout and operation tasks. `contexts`, `shots`, `row`, `completion` and `stray` are the world: browser
contexts, pictures on disk, the flow's row in the vault, the shielded completion task, and threads whose
awaiting coroutine is gone.

Cancelling a task (`Interrupt`) sends it where its `except` and `finally` clauses lead: the wait for a
mail code and a page action end with the flow unchanged, the creation of a mailbox and the completion are
shielded, a thread's job becomes stray and lands later (`Land`). What a page, mailbox or thread
answers is any of the results its adapter can return. Each flow has its own state in the service, so one
flow shows every behaviour.

### The pool (PoolFiles, AccountPool)

`files` maps the three files to their providers: whose key a provider has (auth, opencode) or which
providers the agents name (omo). `vault` is the table of complete accounts in order of id; `pending`,
`flows` and `outside` say where the other accounts are. A call is a job with its local variables; `pc`
is the await it is at. In a thread, loading a file and replacing it are two steps, because a job without
the lock can come between them. `writes` are the `ConfigWriteResult`s that a rollback undoes in reverse;
`newer` counts the later backups of the same file, because `_prune_backups` keeps five. `Legible` is the
writers' pattern for provider names, taken literally.

### Removals and quota checks (AccountRows, AccountCleanup, QuotaCheck, AccountCare)

`rows[a]` joins an account's row in `accounts` or `pending_accounts` with its cleanup operation; one
operator per repository transaction says what it leaves. A call is a request to the cleanup API, `pc` its
await, `seen` the record it read before the lock's boundary and works with afterwards. `flow[a]` is the
entry of `_flows`, with the table the account was read from (`known`), which decides whether the local
cleanup drops a pending row or takes the keys out of the files first. `remote` and `submitted` are
GitHub's: a deletion that was submitted takes effect at any later time, whatever the flow has concluded.
A checker is a quota request or the scheduler's task (`qpc`); `check` is the quota service's lock, which
a removal awaits at its boundary (`CrossBoundary`) and does not take. `Restart` ends the process anywhere:
flows, locks and tasks are gone, `rows` and `config` stay, the vault is locked. `FlowEnds` is a creation
flow that completes a stored account while it may be removed (`Concurrent`).

### The vault (Vault)

A key is a password with a salt, a ciphertext the key it was made with. `unlock` is taken apart at its
transactions: missing migrations, each migration, salt, verifier, verification or validation, creation of
the verifier. Nothing keeps the application from being started twice, so several processes do this to one
file at once; within a process the service's `RLock` makes the other operations single steps. Files come
from any earlier version, also from one before there was a verifier.

### Browsers (BrowserRuntime)

The initializer's status, task and thread; a client's `_start_lock` and `_browser`; `launched` counts the
processes really running. A session stands for one owner's sessions, one after the other. Cancellation
(`Interrupted`) leaves contexts behind where the code does (`stray`). The shutdown is `lifespan`'s
sequence, one stage for each owner it closes.

### The feed (FlowFeed)

A snapshot is a number. `queue`, `held` and `popped` are the subscriber's queue, the event on the wire and
the last one taken; `poll` and `action` are the two other ways a snapshot reaches the page. `shown` is the
page's session, with the rules of `CreateFlow.tsx` for what replaces it and when it reconnects.

## 3. Runs

| Run | Module, cfg | Shows |
|---|---|---|
| `flow_serial` | MCFlowGuarantees, FlowSerial | with a client that waits for each answer, as the page does: safety, a waiting flow is timed, a flow that is over holds no context, the flow implements `FlowLifecycle`, requests are answered, operations yield, abandoned flows end, the shutdown completes |
| `flow_overlap` | MCFlowGuarantees, FlowOverlap | with overlapping requests and cleanups that fail: finality, the vault |
| `pool_locked` | MCPoolGuarantees, PoolLocked | vault and files agree between calls, reservations, no key overwritten |
| `care` | CareGuarantees, Care | no key outlives its row, an end says the truth, checks exclude each other, removal implements `Removal`, with a crash or failure anywhere |
| `care_liveness` | CareGuarantees, CareLiveness | a verified deletion is finished by retries, the scheduler keeps sweeping |
| `vault` | VaultGuarantees, Vault | one key, one schema, one table per account, nobody locked out, with two processes |
| `browser` | BrowserGuarantees, Browser | one download, one browser per client, an ordered shutdown, every session answered |
| `feed` | FlowFeed, Feed | the newest snapshot survives a slow subscriber, the page ends with the end of the flow |
| `flow_double_resume`, `pool_tenth`, `quota_scheduler_dies`, `removal_midflow` | | counterexamples, section 5 |

Bounds, and why they are enough:

* `Requests`: two. The service keeps one operation and one timeout task, and for requests sent one after
  the other the theorems cover any number. For overlapping requests they cover what `flow_overlap` checks;
  a third overlapping request does more harm than two (section 5, consequences of the double resume).
* `MaxUsernameAttempts = 2` (five in the code): first, last, and their difference.
* `ScreenshotsEnabled = TRUE` except where pictures play no part; `CleanupMayFail = TRUE` only in
  `flow_overlap`: with it, `ResourcesReleased` would say that a failing close may leave a context open.
* two accounts and two calls in `pool_locked`: one primary, one secondary, each also waiting for its
  configuration, and a queue for the lock. `Own = {2}`: the user may have a provider of his own. In
  `pool_tenth` he has eight, so that the first account gets number ten. `Retention = 5` is the code's; no
  write of these instances has five successors.
* `Overlap`. In the flow, FALSE is the page's conduct (`isSubmitting`). In the pool, "none" gives a
  removal or a repair the pool for itself, because neither takes the lock; "waiting" lets other calls
  run while a removal waits for GitHub, which takes minutes; "any" restricts nothing.
* `care`: one account, since locks, flows and rows are kept per account and the theorems cover any number;
  two removal requests (one holds the lock, one waits or cancels), one quota request beside the
  scheduler, one failure or restart (`MaxTrouble`), after which everything is retried. `ReadsMayFail` and
  `InstallMayFail` are FALSE only in the liveness run, where the first leaves a removal stuck and the
  second ends the scheduler: section 5. `Concurrent = FALSE` is a user who waits for the creation flow
  before removing its account; `removal_midflow` drops that.
* `vault`: two processes, two passwords, two salts, two migrations, one account and one failure. A race
  for salt, verifier or migration has two sides, and the second password is the wrong one.
* `browser`: a flow, a mailbox and a removal (two sessions share a client, one has its own), the
  scheduler with a sweep of one account, one failure.
* `feed`: a queue of two for the code's eight, five snapshots, two lost connections: the queue overflows
  and what is behind it arrives.
* An account that was removed is not imported again, and a flow completes once.

Deadlock is not checked for the flow, the pool and the feed: a flow that has ended, a pool without calls
and a page that shows the end rest. It is checked for the others, which always have something to do.

Fairness. Each one follows what the code schedules:

* `flow_serial`: weak fairness of every operation, timeout, completion, request and of the shutdown once
  they have begun. Browser calls and the wait for a mail have timeouts, threads run to their end and a
  sleep expires, so each await returns; the event loop runs every ready task. None for sending requests,
  for stray threads or for shutting down. `OperationYields` excepts the wait for a mail code: GitHub may
  ask for codes for ever, and a pause or cancel ends that wait.
* `care_liveness`: weak fairness of calls, checkers and the scheduler's timer; strong fairness where an
  `asyncio.Lock` is awaited, because it serves its waiters in turn; the user unlocks the vault and goes on
  asking for the removal. GitHub owes nothing.
* `vault`: a call that was made is carried out, and the user tries every password, typing it twice.
* `browser`: a download ends, the loop runs what can go on, locks serve in turn, a check closes its page
  and the shutdown that of a removal. A flow may keep its page for ever.
* `feed`: server, network and page carry out what they have begun. Nobody has to act or to poll: events
  alone bring the end.

Every property of a passing run is falsified by a mutant of a modelled definition: a forgotten guard, a
dropped reset, a shield removed, an off-by-one. They stand next to the definition they change.

## 4. Proofs

All theorems hold for every value of the constants that the modules' named assumptions allow: any number
of requests, accounts, processes, sessions, snapshots, failures.

**The flow** (`FlowProofs`, overlapping or serialised clients, cleanups that fail or not). `TypeCorrect`,
`DoneStored` (`DoneIsStored`), `Final` (`TerminalIsFinal`), `AccountKept` (`AccountIsKept`).
`DoneIsStored` is not inductive: `ApiKeyObtained` awaits a shielded completion task that commits in a
step of its own, and the flow is set to done later. So `IInv == TypeOK /\ CommitsKept /\ DoneIsStored`,
where `CommitsKept` says that a task that has committed finds the row complete. Some sixty lemmas, one
per action and per place a step can lead to, say that the step is `Sound`: the control part keeps its
type, leaves an ended flow alone and reaches done only from a committed completion (`ControlStep`); the
world keeps its type, its rows and its commits (`WorldStep`); the service keeps its types. `SoundInv` then
carries `IInv` over, and the action properties are conjuncts of `Sound`. `NoWayBack` (the transition table
leads nowhere from an ended state) is the fact `Final` rests on.

**The flow, requests sent one after the other** (`SerialFlowProofs`, every theorem under `~Overlap`,
cleanups that fail or not). `OneOperation` (`SingleOperation`), `Wipes` (`SecretsWiped`), `StoredReported`
(`StoredIsReported`), `TimeoutSpares` (`TimeoutSparesWork`), `Refinement` (`LifecycleSpec`). None of these
is inductive alone: that no timeout ends a flow at work needs that none is armed while an operation runs,
which needs that a request that waits for an old timeout has nobody beside it. `SerialInv` is
what each process may rely on at its await: an operation that runs is the one in `_tasks` (`OneInv`); one
request at a time, none once the service shuts down (`AskInv`); a timeout that runs is the one on record or is
being reaped, and no operation runs beside it (`TimerInv`); what a request waits for is still what it will find
(`RequestInv`); where a shielded call returns to (`ExitInv`); the status an operation
has at its await (`WorkInv`); a stored account that is not reported has the operation that will report it
(`StoreInv`). A step of an operation leaves everything else alone and arrives at an await that fits the flow
(`Led`, `Accounted`); every other step happens while no operation runs (`Quiet`) or leaves status and
secrets as they are (`Aside`, `CutInv`). For the refinement, the row reaches the vault only by
`CredentialsPersisted` and is completed only by the commit; every other step keeps it (`Kept`).

*What the flow leaves behind* (the same module). `HumanTimed` (`HumanIsTimed`): an operation arms the timeout
in its last step, but between two steps of a resume or a cancel there is none, and a timeout reads
`manual_intervention`, which operations reset. `HumanInv` says who attends to a waiting flow then (`Attended`:
a timeout, an operation, a request that reaps one, or the pause the property excepts) and where the processes
can be given the status (`PlaceInv`: nobody is at a release unless the flow is over; screenshots belong to an
intervention, an address is awaited in `creating_email` only). An operation keeps it because every way to its
end is a `Return` that arms, or ends the flow (`Tended`). `Releases` (`ResourcesReleased`, with
`~CleanupMayFail`): `CleanInv` says that the contexts of a flow that is over are released, or somebody stands
at a release (`Releasing`), or a cancel has interrupted him and is or will be refused (`Broken`), or the
shutdown is under way; that a mailbox has its address or an operation that gives it back; and what whoever is
past `dispose` and `close` has released (`BoxInv`). That interruptions open no context of a flow that is over
is `ReapBox`; that a request interrupts no release of its own is `RequestInv`. Both invariants were checked by
TLC with three requests before they were proved.

**The vault** (`VaultProofs`). `TypeCorrect`, `OneKeyForAll` (`OneKey`), `OpenersHaveTheKey`
(`OpenMeansKey`), `SchemaIsSound` (`SchemaSound`), `TablesAreDisjoint` (`OneTable`), `KeyIsFixed`
(`KeyStays`). The difficulty is a process between two transactions of `unlock`, which acts on what it read
in the first. `UnlockKnows` says what it may still rely on at each place: the salt is set and stays, the
verifier, once seen, stays, and a process about to create a verifier either finds one (its `INSERT` is
refused) or all rows are in its own key. The latter survives other processes because nobody writes a row
without an open repository, and nobody has one without a verifier.

**Removals and quota checks** (`CareProofs`). `TypeCorrect`, `NoOrphans` (`NoOrphanEntry`), `EndTrue`
(`EndIsTrue`), `OneCheckAtATime` (`OneCheck`), `FilesGoLast` (`FilesLast`), and, where an account is not
removed while it is still being made (`~Concurrent`), `Refinement`: every step of the service is one of
`Removal` or a stutter (`RemovalPromise`). `CallOK` is what a request relies on at each await, `AccountOK` what is
true of an account between requests: for instance, a flow that may be cancelled has an intent on record
and no verified deletion, unless its cancellation is just being closed. `Elsewhere` shows once that a step
leaves all other calls and accounts alone, because everyone past the lock holds it; `ChecksApart` that a
quota check touches nothing the invariant speaks of, which is needed because checks share the vault but
not the lock.

**Browsers** (`BrowserProofs`). `TypeCorrect`, `OneOfEachAlways` (`OneOfEach`), `OrderedShutdown`
(`ShutdownIsOrdered`). `LockInv` ties a client's lock to the session that waits for the download or launches for it;
`StageInv` says which sessions may still open pages after each stage of the shutdown, so that a browser
that was closed stays closed.

**The feed** (`FeedProofs`). `TypeCorrect`, `Latest` (`LastIsLatest`): dropping the oldest event and
taking the next one both leave the newest snapshot last.

**The pool** (`PoolProofs`). For calls that overlap with anything: `TypeCorrect`, and `LockIsHeld` (the
completion lock is held by the one completion, import or apply at work, from its entry to its end,
rollbacks included, and by nobody else). For removals and repairs that get their turn alone
(`Overlap # "any"`): `NobodyInBetween` (one call at most is at work on files and vault) and `AddersKeepKeys`
(completions, imports, applies and repairs overwrite no key in `auth.json` or `opencode.json`), of which
`KeysStay` (`KeysKept`, without removals) is a case. The last two take for granted that all names in
`opencode.json` are legible to the application (`[]Readable`); `pool_tenth` shows that they fail without that.
`AddersKeepKeys` needs that what a writer has loaded is still the file when it writes (`FreshInv`),
that needs that nobody comes in between, and that needs, for two calls at work, that both would hold the lock
or one would be a removal or a repair (`Held`, `Apart`). Every action is one lemma: its step is `Sound`. What a
call has at hand (`RowInv`, `PlaceInv`) is what makes it so: for instance, a row that goes to `opencode.json`
without a number is one to which the file will give one. `NextNumber` is the code's `max(...) + 1`; that it is
free is lemma `FreshProvider`, which rests on `FiniteNumbers`: a maximum is a `CHOOSE`, and that
there is one for any finite set of numbers is a well-founded induction over its subsets.

*Files and vault in step* (the same module, definitions in `PoolBalance`). For a pool where each call
finishes before the next begins (`Overlap = "none"`): `PoolInStep` (`InStep`: between calls every row's key
stands under its number, and no key belongs to nobody), `PoolWaitingAbove` (`WaitingAbove`: who waits for
a number will get one above all given) and `RemovalsKeepKeys` (`KeysKept`, removals included). `InStep`
speaks of the moments between calls only, so the invariant, `LedgerInv`, has to say what is true within one.
Between calls vault and files are `Balanced`. The one call at work knows what the files were when it came
(`Original`, read off the backups it has made), and that they were balanced with the vault then; it knows how the
files have come to differ: by the keys of the rows it has written so far (`Gained`), or by the keys of those it
is taking away (`Shrunk`); and that undoing its writes, last first, from any of the places where it can fail, leads
back to `Original`. A step either keeps the call `Settled` or closes it with everything balanced again
(`Closed`): one lemma per action. The hard ones are the partial rollbacks (`WriteEdit`, `Undo`) and the
promotion that a removal of the primary makes.

Two conditions are hypotheses of the three theorems, as invariants of the behaviour. `Readable`: every name in
`opencode.json` is legible to the application; the tenth number is not, and `pool_tenth` shows what happens then.
`Backed`: a backup a call may need has not been pruned by its own later writes of the file (an import of six
accounts prunes its first one, see section 5). That the numbers of the model suffice (`Roomy`) is no hypothesis:
`Provider` ends twice the number of accounts above the user's own names, and `ThriftInv` shows why no row is
given a higher one. A number is given as the highest seen plus one, so what has to be counted is how often that
can have raised it: `Highest` grants one for every account that cannot come in any more (`Open`: still outside,
pending, or in an import under way), because every account enters the vault once; a call raises it further by one
a row, which its commit pays for with the accounts it brings and its rollback gives back (`Numbered`,
`ThriftStep`). That a removed account is not imported again is thus a bound that matters to the proof.
The same count of rows (`Counted`) bounds the later writes of a file by the accounts: with no more of them than
backups are kept, `Backed` follows (`BackupsAreThere`). And while all numbers have one digit they are legible:
`SmallPools` has `InStep`, `WaitingAbove` and `KeysKept` for every pool with at most four accounts whose
highest own name and twice the number of accounts come to nine at most, without a hypothesis about its
behaviours; `PoolLocked.cfg` is such a pool. TLC found `LedgerInv` and `ThriftInv` to hold in all 2.4 million
states of that configuration before they were proved (list them as `INVARIANTS`, in a module that extends
`PoolBalance`, to repeat it).

Model-checked only: liveness everywhere, which is out of the prover's reach (`RequestsAnswered`,
`OperationYields`, `AbandonedFlowEnds`, `ShutdownCompletes`, `VerifiedIsFinished`, `ChecksGoOn`, `NoLockout`,
`Answered`, `EndIsShown`), and of the pool what holds when a removal waits its turn (`Overlap = "waiting"`):
there `InStep` and `KeysKept` with removals are `pool_locked`'s.

## 5. Where code and promises part

With a run whose property TLC finds violated, and an entry under "findings":

1. **Two operations on one flow** (`service.py:190`, `flow_double_resume`). `resume` checks
   `_ensure_idle`, awaits the timeout task it has cancelled, and starts its operation without checking again.
   A consequence that takes a third request: one operation reports a blocked page while the other gets GitHub's
   question for a code and takes the intervention away; the first then moves the flow to `manual_verify` without
   an intervention and arms no timeout. `HumanIsTimed` is therefore claimed for serialised requests
   (`HumanTimed`), where it holds for any number.
2. **The account after the tenth** (`opencode_writer.py:12`, `pool_tenth`). The pattern `[2-9][0-9]*` does
   not match 10 to 19. `opencode-go10` is handed out once and is then invisible: the next account gets the
   same number and replaces its key, until the vault refuses the row and the write is rolled back. Such an
   account cannot be removed or named to Oh My OpenAgent either, and it blocks every name computed from the
   vault.
3. **A scheduler that dies** (`quota_service.py:83`, `quota_scheduler_dies`). `BrowserInitializationError`
   is none of the errors a check expects: one check that meets a failed download ends the task for good.
4. **A removal in the middle of the flow** (`repositories.py:586`, `removal_midflow`). Completing a pending
   account takes the removal's intent with the pending row; GitHub is then asked without one.

Met while modelling; a property excepts the case, or a comment at the definition says it:

* A pause that interrupts the wait for the mail code sets `manual_verify` itself, and `_run` never
  schedules the timeout (`service.py:239`; excepted in `HumanIsTimed`).
* Cancelling a flow in its own cleanup breaks the cleanup off; the cancel is then refused and nobody
  closes the browser until the shutdown (`service.py:213`; excepted in `ResourcesReleased`).
* A flow that ends with an intervention pending is published as `manual_intervention_required`
  (`events.py:55`); the page reads the snapshot in it, so nothing follows.
* A secondary account whose removal waits for GitHub while the primary's completes is promoted, then
  removed under the name it had: its key stays in `auth.json` (`cleanup.py:169`).
* `append_account_fallback` without a change looks like the creation of a file; rolled back, it deletes
  `oh-my-openagent.json` (`omo_writer.py:77`).
* A failing `list_complete_accounts` leaves a removal in `local_cleanup`, where it is busy until the
  process restarts (`cleanup.py:166`; `ReadsMayFail`).
* An `sqlite3.OperationalError` in the commit is not among the exceptions that trigger a rollback; an
  import or apply of six or more accounts prunes its own first backups and cannot be rolled back
  completely; with configuration switched on, a completion ignores the number of an account that waits for
  its configuration and is then refused by the vault; after a removal has lowered the highest number such
  an account can never be applied; the number of the highest account is reused after its removal, which
  `architecture.md:563` wants to avoid.

## 6. What is left out, and why

Assumed: `launch_async`, cancelled, leaves no browser process; `context.close` does not raise; uvicorn
finishes the requests under way before `lifespan` shuts down; `begin_cleanup` and `update_status` fail
only where they refuse (a storage failure there ends the call as one in `mark` does, with less done).

Not modelled:

* What pages say and how they are found (selectors, navigation): the outside world, chosen freely.
* Wording, masks, formats and encryption: no property tells them apart. Names of events: the page reads
  the snapshot.
* Two `cancel()` of one task before either is delivered: the model delivers each at once.
* In the pool: `write_document` is one step (it replaces the file atomically and restores it if the
  verification fails), a backup that exists can be copied back, model catalogues and stale fallbacks,
  more than one agent, edits by the user after the start, SQLite errors other than conflicts, a crash,
  the pending accounts of a bundle. `refresh_models` has no caller. `account_count` and
  `get_automatic_configuration` are two reads of one step: neither depends on the other's result, and what
  an import or apply needs is read again by `list_complete_accounts`.
* The removal of keys from the files is one step in `AccountCleanup`; `AccountPool` has it await by await.
* The polling loop of the mailbox (a deadline and a sleep; only its interruption races anything), the
  retention of screenshots (files of flows that are over), figures and dates of quotas.
* Build scripts, HTTP error mapping, rendering: stateless. The desktop shell starts, watches and ends the
  backend; to the models it is what makes `Restart` happen.

## 7. What could follow

1. `InStep` for calls that wait for each other rather than come one by one (`Overlap = "waiting"`): `LedgerInv`
   then has to tell the call at work from the removals that wait with the row they have read.
2. `PoolLedger`, an abstract pool (add with a fresh number, remove with promotion of the lowest) that
   `AccountPool` implements between calls; a crash between two files of one account.
3. The shell's supervision of the backend (`src-tauri/src/*.rs`).
