# louiselm in TLA+

louiselm runs coding Agents from Neovim.  A **Run** is the durable record of a
piece of Agent work: which Session works on it, how many Beads issues it may
still generate, which issues it has claimed, and whether it is at work, *Parked*
(waiting for its operator) or over.  The record outlives the editor, the Agent,
the capture daemon and every message between them.  What needs its operator
shows up in the **Attention** inbox, which a privileged broker feeds through an
outbox of its own.  The Agent itself runs in a sandbox under a launch supervisor,
whose **lifecycle owner** freezes, thaws and ends the Session's process tree
and has to sign and deliver a receipt of everything it did to it.  This
directory models the Runs, the processes that act on them, the broker's
Attention projection, the lifecycle owner with the broker's receipt chain, and
what they promise each other, checks the models with TLC, and proves the
central results with TLAPS.

Contents: 1 inventory, 2 modules, 3 runs and bounds, 4 fairness,
5 disagreements found, 6 proofs, 7 what is left out, 8 plan.

## 1. Inventory

### Capture service (Rust, `capture-service/`)

| component | state | operations | hard behaviour | what makes it correct |
|---|---|---|---|---|
| Run store `runs.rs` | one JSON record per Run: revision, lifecycle state, Park time and expiry, resume attempt, generated-work counters with pending and output journals, Beads cleanup journal | admit, attach, reserve / confirm / release generated work, park_cold, raise ceiling, begin / finalize resume, reap_expired, listings | calls of Agents, editors, socket and daemon in any order; stale revisions; retries with the same id; a reaper pass that calls `br` between two writes and may die there | budget and journals agree; a revision names one record; an answer given is repeated; journalled claims were released; expired Runs are reaped |
| generation `generation.rs` | nothing of its own: the Run record, the Beads database | generate: reconcile pending mutations, reserve, `br create`, confirm or keep | overlapping brokers, killed brokers whose `br` lives on, answers lost after the commit | at most one issue per mutation id, never more than approved, none forgotten |
| reaper task `cli/service.rs` | a timer | a pass every ten seconds | crash inside a pass, one bad Run among many | the others are reaped all the same |
| Run socket `run_socket.rs`, `operator_socket.rs` | connections | snapshot, raise, resume, finalize_resume | answers lost, answer read after the lock is dropped | implements the store |
| Attention projection `attention_projection.rs`, `broker_attention.rs` | the inbox file with its items and the cursor of the last broker entry | project: refuse a gap or a conflict, answer an old entry, apply the next one | exact retries, requests handled after their sender gave up, a rename that is visible but not yet synced | items follow the outbox in order; an answer is given only for what is on disk |
| Attention inbox `attention.rs`, `attention_runs.rs`, `attention_socket.rs`, `attention_withdrawal.rs` | the same file; generation | upsert, set_eligible, clear, clear_session(_kind), reconcile local Parks | editors and broker write one file; Runs are read under another lock | what an operator has seen goes and stays gone |
| pairing and notifications | devices, grants, delivery queue | pair, revoke, deliver, back off | at-least-once, revocation during delivery | a grant is used once; a revoked device gets nothing |
| ingest and transcription `store.rs`, `transcription.rs`, `receiver.rs` | staged and committed captures, transcripts | upload, commit, transcribe, retry | crash between files, retry racing the worker | a capture is accepted once and finishes |
| command line, support | none | the calls above | a captured time that waits for the lock | — |

### Editor (Lua, `lua/louiselm/`)

| component | state | operations | hard behaviour | what makes it correct |
|---|---|---|---|---|
| Run recovery `workflow/{recovery,resume_controller,run_client,run,park_observer}.lua` | local Runs, Park observed or made, attempt of the controller, pending requests | attach, cold Park, observe, resume, load a Session, finalize | several messages per operation, several editors, lost connections, quitting | one Session per Run; no late answer revives a Run; a reported Park is durable |
| workflow executor and operator | stages, loop budgets | run a workflow, Park, resume | asynchronous stages | loops end at their budget |
| Session lifecycle, recording | turn state machine, queue of turn records | prompt, cancel, permission, record | cancel against result, failed write stops later prompts | one turn at a time, each turn recorded |
| ACP transport | pending requests, Agent process | request, notify, exit | exit with requests pending | every request is answered once |
| permissions | remembered decisions, open prompts | decide, remember | prompts of several Sessions | no decision leaks between them |
| routing, UI, configuration, provenance | selections, buffers | selection, rendering | few | — |

### Broker and skills (Rust, `skills-core/`, `usage-cli/`), Android app

The broker's **Attention outbox** (`skills-core/src/broker/attention.rs`,
`attention_transport.rs`, `bin/control/attention.rs`) keeps one file per entry
and one per acknowledgement.  `enqueue` appends an entry once per mutation
identity and `acknowledge` records an answer; one worker delivers the oldest
pending entry and retries for ever.  Hard: an entry or acknowledgement is created,
filled and synced in three steps; the outbox is unlocked while a delivery is
under way; answers get lost.  Correct: every entry is applied once, in order,
and what was acknowledged is never lost.

The launch supervisor's **lifecycle owner** (`launch_supervisor/lifecycle.rs`,
`resume_dispatch.rs`, `conformance_monitor.rs`, `key_authority.rs`) is one
thread that dispatches the events of a mailbox.

* State: the Session's state (Running, Parked, Terminal), its process tree, the
  capability gate and channel, the signed receipts with the head the broker is
  known to have, outcomes *deferred* until they can be signed, the operation
  under way with its phase (applying, signing, awaiting the durable
  acknowledgement, activating), the connection to the broker (connected, in its
  grace period, disconnected, reconciling), and flags that say what
  is lost, unsettled, unproven, blocked or quarantined.
* Operations: Park, Resume, Interrupt and Disposal on request; process exit,
  controller loss and its settlement, broker loss, grace, reconnect,
  reconciliation; suspension for a host that no longer conforms; withdrawal of
  the signing key; the end of the thread.
* Hard: all of these arrive between the asynchronous steps of one another.  A
  freeze, an exit or an activation has happened before its receipt is signed and
  before the broker has it; the signer, a deadline, the acknowledgement, a loss
  and the next request race.
* Correct: what is signed, being signed and owed is always one legal chain which
  says what state the Session is in; nothing is recorded twice or lost; nothing
  thaws or passes the gate before its evidence is durable; the owner ends with
  success only when the broker has the whole chain.

The broker's end (`broker/receipts.rs`, `broker/reconnect.rs`) appends one legal
receipt after another, acknowledges what is durable, closes a channel that sends
anything else, and quarantines for good a Session whose reconnect contradicts
what it has stored.

The rest of the control broker (durable lifecycle jobs, cold resume, command
approvals), the launch and the sandbox, skill admission and quarantine, the
usage index and the Android capture client are listed in `PROJECT.json` with the
reason why they are not modelled yet.

### How they interact

    Agent --run generate--> generation --+                       +--> br create / br list
    editor --run attach/park--------------+--> Run store <--reaper+--> br update --assignee ""
    editor --resume/finalize/raise--> Run socket --+                        |
      ^ <---------- snapshots, answers ------------+      Beads: issue -> assignee

    broker --enqueue--> outbox --project (sequence, change)--> Attention inbox <-- clear -- editor
                          ^ <------- exact acknowledgement -------+

    operator --request--> broker --forwards--> lifecycle owner --freeze, thaw, end--> process tree
                        |  ^                      ^  |
                        |  +--- signed receipts ---|--+
                        +-- acknowledgement, head -+

For Runs everything meets in the store's records.  Mutators hold an exclusive file lock
from reading the record to the atomic rename that replaces it, so each is one
atomic step.  What is not atomic is everything around it: the time read before
the lock is waited for, the reaper's calls of `br` between two writes, the
steps of a generation call, the messages of a Park or a resume.  Those are the
steps that interleave in the models.

`PROJECT.json` lists the hazards of this code at their lines, each with the
properties that would catch it going wrong, or the reason why none does yet.

## 2. Modules

| module | models | state | 
|---|---|---|
| `RunRecord` | one record of `runs.rs`, and for every mutator the condition `CanX(run, ..)` under which it writes and the record `X-ed(run, ..)` it writes | none: functions of a record |
| `RunStore` | the store among its callers: one action per mutator, the reaper's pass step by step, the wall clock, Beads assignments | `runs`, `clock`, `reaper`, `assignee`, `listed`; history `freed`, `crashes` |
| `GenerationLedger` | abstract specification: what generation promises a Run | `stage` of each mutation, `ceiling` |
| `Generation` | `generate_with` and `reconcile_with`, one process per call, over one Run of `RunRecord` | `run`, `broker`, `beads`, `orphans`; history `attempted`; `mishaps`, `acts` |
| `RunEditors` | EXTENDS `RunStore`: editors, Run socket, messages | `hold`, `worker`, `park`, `resume`, `wire`, `drawn`; history `lost`; `breaks` |
| `ProjectionLog` | abstract specification: a log of changes, applied in order, remembered once told | `log`, `applied`, `told` |
| `AttentionOutbox` | outbox, delivery worker, receiver, and the files of both | `entries`, `acks`; `worker`, `offer`; `flying`; `inbox`, `onDisk`; `mishaps` |
| `SessionOwner` | the lifecycle owner of one Session, its mailbox, and the broker's end of the receipt chain | `owner` (a record), `asked`; `stored`, `link`, `catchup`; `losses` |
| `MCRunStore`, `MCGeneration`, `MCRunEditors`, `MCAttentionOutbox`, `MCSessionOwner` | instances for TLC: symmetry sets | |
| `RunRecordProofs`, `RunStoreProofs`, `RunEditorsProofs`, `AttentionOutboxProofs`, `SessionOwnerProofs`, `SessionOwnerEvidence`, `GenerationProofs`, `GenerationLedger` | theorems | |

Correspondence worth knowing before reading:

* **A refused or already satisfied call writes nothing**, and in the store's
  modules is no action.  In `Generation` and `RunEditors`, where the caller
  goes on differently after a refusal, the refusal is a disjunct.
* **Reservations are sets of unit tokens** `<<mutation, k>>`.  The code keeps a
  list with one entry per unit; confirming removes one, releasing all.
* **Optional fields** are `None`, the Park expiry 0 when absent, and an absent
  record file is `NoRun`.  Names, directories, Agent arguments and JSON text
  carry no behaviour and are left out, or are members of `Sessions`.
* **u64** is `0..U64Max` with a small `U64Max`: revisions, expiry sums and
  counters are refused at the end as `checked_add` refuses them.
* **Time.** `Captured` is every time between `clock - MaxWait` and `clock`:
  callers read the time and then wait for the lock.
* **The reaper** goes through `scan` (pick a record, skip or visit it),
  `released` (`br` freed a claim, the journal is not yet written) and back.  It
  holds the lock throughout, so `Write` needs `Unlocked`; a crash drops the
  lock and forgets the pass, and nothing else.
* **Beads** is external.  `br update <issue> --assignee ""` is `Release`: it
  frees the issue whoever has it.  A failing `br` may or may not have had its
  effect (`ReapFail`).  `br create` adds an issue with a fresh id and the
  mutation as its external reference.
* **`RunEditors`** is where messages live: a request is in `wire` until it is
  handled, its answer reaches the attempt only if that still waits (`Answered`),
  and the view sent back is read in a step of its own (`ReadBegun`,
  `ReadEnded`) because the socket reads it after the lock is dropped.  `hold` is
  the state of an editor's local Run and `worker` the Session it owns: a load
  reopens the Session retained by a Parked local Run, or the recorded one
  (`Reconstructed`), and the attempt keeps it until the finalize is answered.
* **Files in `AttentionOutbox`.**  An entry or acknowledgement is `"torn"` when
  it was created but not filled, `"written"` when it is filled but its sync
  failed or was cut off, and `"synced"` otherwise.  A torn file makes every
  read of its directory fail, as the code's reader does.  `PowerLoss` may drop
  the files made since the last sync of the directory (`Survivors`) and
  may empty the written ones (`Kept`).  A file system could also keep a later
  one of two unsynced files and lose the earlier; the outbox would then be as
  unreadable as with a torn one, and that case is left to it.  `attention.json` is
  replaced by rename: `inbox` is what readers see, `onDisk` the set of versions
  that a loss of power can bring back, several exactly when the last sync of
  the directory failed.
* **Messages in `AttentionOutbox`.**  The broker waits for one answer at a time
  (`worker`, `offer`).  When it gives up (deadline, lost connection, stop) the
  request may still be with the receiver's blocking worker: it goes to
  `flying` and is handled at any later time, after newer entries too.  A digest
  is the entry it is the digest of (`Wire`), without the mutation's identity.
* **A handler in `SessionOwner`** is an operator from the owner's record to its
  next value, composed as the code's methods call each other, and an event of
  the mailbox is an action that applies one.  `e` is the set of what goes wrong
  in the mechanics while it runs: the tree cannot be frozen (`"stuck"`), is in
  an unknown state (`"ambiguous"`) or has exited (`"exited"`), the gate cannot be
  revoked (`"revoke"`), cleanup is not proved (`"cleanup"`), the sender guard fails
  (`"guard"`).  One handler meets one of them, or an ambiguous freeze whose
  cleanup fails too (`Luck`).
* **Epochs** in the code make an event void that was sent for an earlier
  connection or operation.  The models drop those events instead: what a lost
  connection had in flight goes with it (`LoseBroker` empties `acks`), the
  signer answers the operation under way.  A deadline may pass at any time after
  its operation began, which covers one that could not be armed.
* **Receipts** carry kind, resulting state, the identity of the request or event
  they are about (`by`), and their sequence.  Digests are equality of these.  The
  Launch and Start receipts of a Session are one, at sequence 1.
* What the broker refuses (`Acceptable`) is a receipt that is not the next, skips a
  state, or repeats a request.  The ids which the owner draws for its own events
  contain the digest of the head they follow, so only a controller's request can
  come twice; their `by` has no digest and is not compared.
* **The broker in `SessionOwner`** is `stored`, how much of the owner's chain it
  has, and `link`.  It can only store what the owner signed, in order, so a prefix
  length says everything.  `catchup` is the head that the reconnect under way
  promised: a refusal below it quarantines.
* An operation whose name says *Mutant* in its comment is a plausible wrong
  version of the definition after it; no specification uses it.

## 3. Runs and bounds

| run | question | distinct states, time |
|---|---|---|
| `store` | One Run, two mutations of up to two units, two claims, two resume operations, a clock of three instants, a captured time one instant old, one crash, up to an exhausted revision: do counters, journals, leases and stored answers stay right, and does the reaper act only when due? | 1 224 017 states, 2 minutes |
| `store_live` | Two Runs, two claims of which one can never be released, a resume that may never be finalized, one crash: is every expired Park and resume lease reaped that can be? | 643 532 states |
| `generation` | Two brokers, two mutations, a mishap, three operator acts: one issue per mutation, accounting, refinement of `GenerationLedger` (and with it the ceiling); is an issue whose broker died recorded by later calls? | 915 624 states |
| `editors` | Two editors and two operations on one Run, generated work, raise, one break, the reaper, two Sessions a Run can be attached to: is a cold resumed Run's own Session open in the editor that resumed it, is disposal final, refinement of `RunStore`; does a resume begin on the record it was asked for? | 1 315 918 states, 2 to 3 minutes |
| `outbox_log` | Four mutations for three entries, losses of power on both sides, torn files, stores that fail after the rename, late requests, editors clearing: is anything acknowledged lost, does a condition come back or show after it was resolved, do both sides implement one log? | 149 311 states |
| `outbox_live` | Is every entry acknowledged, past failing syncs and stores and lost answers, and none queued twice by a retry? | 57 145 states |
| `owner_faults` | Two requests to Park, interrupt or dispose, freezes that fail or are ambiguous, cleanups that fail, deadlines, exit, controller loss, a lost connection, a queue of three: does the evidence say what happened, once and in order, and is it ever taken back or refused? | 1 711 866 states, over 2 minutes |
| `owner_resume` | Two requests with Resumes among them, behind a sender guard and a conformance monitor, with exits, a withdrawn key and half-open channels: does anything thaw, pass the gate or come back too early, is the chain legal when Resumes fail half-way? | 2 576 356 states |
| `owner_live` | Two lost connections, a lost controller, an exit, one request: does a reconnect drain what is owed, is a lost controller settled, does a terminated owner end? | 95 077 states |
| `store_steal`, `outbox_torn`, `owner_suspend` | each shows one disagreement of section 5 | a counterexample |

Bounds, each a CONSTANT of its module:

* `U64Max` (8 to 20): the largest revision.  It is the bound on the number of
  writes too, and the run goes through "the revision cannot advance" in every
  state.  8 is enough in `store` for admit, attach, Park, begin, finalize,
  two journal entries and a disposal; `store_live` has 9 so that running out
  of revisions does not take the place of the reaping it asks about, and
  `generation` has 20 for the same reason.
* `MaxUnits` (1 or 2): units of one reservation.  Two is the least number
  that tells confirming (one unit) from releasing (all).
* `Horizon`, `MaxWait`: the last instant and the age of a captured time.  With
  `Ttls = {1}`, `Lease = 1` and `Horizon = 2` a Run can Park, resume when the Park is
  about to expire, fail, and expire under its lease or, wrongly, under its Park.  `store_live` only asks
  whether what is due is reaped: with `Ttls = {1}`, `Lease = 1` and `Horizon = 1`
  a Park and a lease both become due.
* `MaxCrashes`, `MaxMishaps`, `MaxActs`, `MaxBreaks`: crashes of the daemon;
  killed brokers and failed `br` calls; what the operator does meanwhile; lost
  connections and quitting editors.  The proofs of section 6 hold for all
  values of the first and the last.
* `MaxEntries` (the code's 4096) and `Mutations`: `outbox_log` has one mutation
  more than the outbox holds, so that the bound refuses one.  Three entries are
  enough for a late copy of the first to be handled after the second resolved
  it and the third raised another.  Faults of all kinds in `AttentionOutbox`
  share one bound, `MaxMishaps`.
* `Faults` selects which kinds of fault an instance has.  The passing runs leave
  out what section 5 shows to fail: `outbox_log` has every kind but
  `entry_unsynced`, without which a delivered entry cannot be lost;
  `outbox_live` has no torn files, and `entry_unsynced` but no loss of power.
  The theorems name the same condition where they need it (`EntriesLast`).
* `MaxRequests`, `MaxLosses`: requests made of one Session and connections lost
  for another reason than the broker's own refusal.  Two requests are a Park and
  the Resume after it, or one that is pending when the next event comes;
  requests are retransmitted without bound.  One loss lets evidence pile up,
  be resent and be drained; `owner_live` has two, so that a connection is lost
  again in the middle of reconciliation.  It has no deadlines: a drain that fails
  while the channel stays connected (`DrainFails`) leaves evidence that waits
  for a reconnect which no event starts, and is not repeated (section 5).
* `MaxPending` is the code's `MAX_PENDING_RECEIPTS` (8): 3 or 4 so that the bound is
  met.  Below 3 the code's own limits (`MAX_PENDING_RECEIPTS - 2` for an
  Interrupt) would admit nothing; `OwnerAssumption` says so.
* `Actions`, `Faults`, `Events`, `Guarded`, `Monitored` select what an instance of
  `SessionOwner` goes through: all of it at once is out of TLC's reach.
  `owner_faults` is about the bookkeeping of evidence under failing mechanics,
  `owner_resume` about thawing, the gate and the legality of the chain.  A lost controller together with
  Resumes, a half-open channel together with `NeverRefused`, and a gate that
  cannot be revoked (`"revoke"`) are in no passing run: section 5 says how they
  fail.  The theorems of section 6 combine everything; those that exclude
  one of the three say so in their hypotheses.
* One Run is enough for the safety runs of the store because no operation reads
  two records; the pass over several is what `store_live` is about, and the
  theorems are for any number.

Deadlock checking is on but in `outbox_log`, `outbox_torn` and the runs of
`SessionOwner`: an outbox with a torn file really stops, and a full one has
nothing left to do; an owner that has finished has ended its thread.  In the other runs an idle reaper can always begin a pass
and a pass can always be ended, an idle broker can always be called, and an
enqueued mutation can always be retried.  Symmetry is used for mutations,
issues, operations, brokers, editors, the Sessions of `editors` and Attention conditions in safety runs only, never
for Runs and never in a run with a liveness property.

`ImplementsStore` says little of the single editor step: most of them are written
with the actions of `RunStore`, and map to these or to a stutter.  What it does
say is that a Park writes claims that were listed for its Session, and that what
an editor sends, late or lost, is only ever handled by an operation of the
store; it is what carries the store's guarantees over to a system with editors
(`EditorsKeepBudget`, `EditorsKeepJournal`).

`FailedResumeKeepsLease` is about one attempt: its failure leaves the expiry at the
deadline this attempt was given.  A new `begin_resume` is given a new deadline, so
operators who begin again and again do extend a Park; the code means it so.

Action properties are stated with `[][..]_vars`; refinements with `INSTANCE ..
WITH` (`KeepsLedger`, `KeepsLog`) or, where the detailed module extends the abstract one and
keeps its variables, as the abstract specification itself (`ImplementsStore`).

## 4. Fairness

`RunStore!Fairness`: the clock moves; the daemon starts a pass with the current
time again and again (`cli/service.rs` repeats it every ten seconds); a pass
that has begun goes on (weak fairness of its steps: they run in one thread, and
`br` returns); and, strongly fair, a release that *can* succeed does not fail
every time.  `Unreleasable` claims never succeed, whatever the fairness: they
are what `ExpiredIsReaped` makes the exception for, and why it says something
about the other Runs.  Nothing is assumed about operators, editors or Agents:
a resume may never be finalized.  The property is stated as "does not stay
due", not "becomes disposed", because an operator may resume an expired Run
until the reaper has it.

`Generation!Fairness`: a call that was not killed takes its next step, and every
Agent slot calls again, for some mutation.  The second is not a promise of the
program: reconciliation happens only in later calls, as the code says, and
`CreatedIsRecorded` is claimed under that condition only.

`AttentionOutbox!Fairness`: the delivery worker publishes when there is something
pending (`bin/control/attention.rs` polls every second and retries for ever, with
at most thirty seconds between attempts), the receiver handles a request that is
waited for, and an answered delivery is acknowledged.  Enqueuing, clearing and
all faults may happen or not; as faults are bounded, the last one leaves the
worker to succeed.  Late requests are not fair: they may never be handled.

`SessionOwner!Fairness`: the thread goes through its mailbox (weak fairness of each
kind of event once it is there: the loop of `run` takes one after another), the
signer answers or refuses, a grace timer expires, and the broker reads what it is sent and
answers a reconnect, which the owner retries until it is told to stop
(`schedule_broker_reconnect_retry`; here `trying`).  Nothing is assumed about
operators: a request may never come or never be repeated.  Faults are not fair,
and connections break at most `MaxLosses` times, so the last reconnect is left
to succeed.  The three liveness properties are claimed without evidence that
waits for a reconnect which no event will start (`Unblocked`): section 5 says
where the code gets there.

No fairness is stated for `RunEditors`; it has safety properties only.

## 5. Disagreements found

Three are runs that TLC must find violated; the lines are quoted in
`PROJECT.json`.

* `store_steal`, `ReleasesOwnClaimOnly` (`runs.rs:1031`).  The reaper frees a
  claim and dies before the journal entry; somebody else claims the free issue;
  the next pass frees it again, from its new owner.  `br update --assignee ""`
  is idempotent only while nobody else takes the issue.
* `outbox_torn`, `EveryEntryAcknowledged` (`broker.rs:261`).  Record files are
  created under their final name and filled afterwards.  A broker stopped in
  between leaves an empty file that no later read accepts, and nothing is
  delivered any more; the documentation promises the retry after SIGTERM.
* `owner_suspend`, `SuspendedStaysFrozen` (`conformance_monitor.rs:443`).  A host
  mismatch found while a Resume is being prepared suspends the Session and
  leaves the Resume alone; its preparation then thaws the tree.  The gate stays
  closed.

These were met on the way and have no run of their own.  In the broker's
outbox, the store's callers and the editor:

* Invalid arguments (`generation.rs:145`) are refused after capacity was taken,
  and the refusal does not give it back: the mutation stays pending although
  nothing was ever started.
* A successful finalize whose answer is lost (`run_socket.rs:284`) leaves the Run
  active without a Session anywhere: the editor disposes of the one it loaded, and
  nothing undoes the finalize.  `SessionSurvivesResume` excludes it by `lost`.
* A cold Park after an observed budget Park (`run.lua:355`) succeeds at once
  without being persisted: the claims are not journalled.
* An entry whose sync failed is delivered nevertheless (`broker/attention.rs:340`).
  If power is lost, the receiver has applied an entry which the outbox no longer
  has, and the next change gets its number and is refused as a conflict.

In the lifecycle owner, each with the choice of constants of `SessionOwner` that
leads to it:

* *A second Park* (`lifecycle.rs:1664`; `Actions = {"Park", "Resume"}`,
  `Events = {"controller"}`, violates `LegalChain`).  The controller is lost while
  a Resume is being signed: failing the Resume defers the Resume and the Park
  that follows it, and the Session, Parked again but asked as if it had been
  Running, gets a second Park for the controller.  The comment at
  `conformance_monitor.rs:455` says why that must not be: "A second Park would
  contradict that immutable chain."
* *A settlement nobody starts* (`lifecycle.rs:1924`; `Actions = {"Interrupt"}`,
  `Events = {"controller"}`).  The controller is lost while an operation is being
  signed: its outcome is deferred, so there is a backlog, and the settlement waits
  for it to be drained.  Evidence is drained by a reconnect only, and the
  channel is connected.  `docs/broker-lifecycle.md:467` says that the old
  supervisor then disposes of its tree.  The same wait holds a Terminal Session
  whose Disposal met a backlog on a connected channel.  `TerminalFinishes` and
  `LossSettles` exclude it by `Unblocked`.
* *A drain that is not repeated* (`lifecycle.rs:3365`; `Events = {"exit", "deadline"}`,
  `Actions = {"Park", "Interrupt"}`, `MaxLosses = 2`, violates `ReconnectDrains`).  The
  evidence of a reconnected channel is being drained when its signature or
  acknowledgement is not in time: `fail_deferred_receipt_reconciliation` drops the
  drain and calls the channel connected.  What is owed stays owed until a later
  connection is lost.
* *A Resume that thawed nothing* (`lifecycle.rs:2576`; `Actions = {"Park", "Resume"}`,
  `Events = {"exit"}`, unguarded).  The process exits while a Resume is still being
  prepared: the failed operation leaves a Resume receipt in the queue although
  the tree was never thawed.
* *A refused history* (`broker/reconnect.rs:114`; `Events = {"halfopen"}`, violates
  `NeverRefused`).  The owner gives up a channel that still works, and a receipt
  that was on it is stored while the reconnect offers an older head:
  the broker takes the history for corrupt and quarantines the Session.
  `broker/reconnect.rs:22` says "Interrupted I/O closes only that connection; it
  does not invalidate signed history."
* *A given-up Session that still signs* (`lifecycle.rs:3015`;
  `Actions = {"Park", "Resume"}`, `Faults = {"ambiguous", "cleanup"}`,
  `Events = {"deadline", "conformance"}`, `Monitored`, violates `LegalChain` and
  `NeverRefused`).  Conformance is lost while a Resume is being signed, and the
  cleanup of the failed freeze fails too: the Session is quarantined as it was,
  Running, with its connection (`quarantine_mechanic`, `lifecycle.rs:2483`).  When that
  is lost, `handle_broker_grace_expired` parks what still counts as Running
  and signs a Park, which need not follow what was signed before.  Neither handler
  asks whether the Session is quarantined; the theorems about the chain therefore
  speak of Sessions that are not.
* A gate that cannot be revoked lets a Park succeed in freezing and fail without
  a receipt (`lifecycle.rs:1270`): the Session is Parked and no record says so.
  A process exit in the middle of parking for a reconciliation leaves the
  connection in its grace period with nobody retrying.

## 6. Proofs

Checked by TLAPS for every value of the constants that satisfies the modules'
assumptions (`RecordAssumption`, `StoreAssumption`, `EditorsAssumption`, `GenerationAssumption`,
`OutboxAssumption`, `OwnerAssumption`: positive widths and times, ceilings and Park times
that are u64 values, finitely many issues, `None` outside the identities, room for
three pending receipts; the code keeps 8).

**`RunRecordProofs`.**  `RunInv` says of one record that its fields have their
types, that counters equal journals and fit the ceiling (`Counted`), and that
the lifecycle state agrees with Session, expiry and attempt (`Lifecycle`).  One
lemma per operation: if it may write, what it writes satisfies `RunInv`.  The
lifecycle part is stronger than the properties drawn from it because they are
not inductive alone: that a failed resume leaves an expiry, for one, needs every
stored attempt to have a positive deadline, in whatever state the Run is.

**`RunStoreProofs`.**  `Inv == Records /\ Pass /\ Surroundings`, one part per
owner of state.  `Records` adds to `RunInv` that the cleanup journal tells the
truth about the history `freed`.  `Pass` says that a pass looks back in time and
that, between a release and its journal entry, the Run visited is still due and
the claim about to be journalled has been freed; without it `ReapJournal` would
not keep `Records`.  `MutatorWrites` reduces the nine mutators to "one record is
replaced by one that satisfies `RunInv` and keeps the journal or resets it with
`freed`", so that preservation is argued once (`WriteKeepsInv`), and the
reaper's steps are taken one by one (`ReaperKeepsInv`).  From `Inv`: type
correctness, `WithinBudget`, `ReapableIsComplete`, `FailedResumeKeepsLease`,
`JournalledWasReleased`, and the action properties `RevisionCountsWrites`,
`DisposedAfterCleanup`, `ReleasesOnlyWhenDue`.

Its last part is about what an operation may never take back.  `RecordRewritten`
lists the ways in which one step can rewrite one record; `ConfirmedForever`
(`ConfirmedStaysConfirmed`) and `AnswersStand` (`StoredAnswerStands`) follow by
cases.  They ask of `Inv` only
that the records are well typed: no reachable-state argument is hidden in them,
so they hold after any crash.  `SessionFixed` is the same for the Session of a Run
that has been attached, and needs `Lifecycle`: attachment is for admitted Runs, and those
have none.

**`RunEditorsProofs`.**  `EditorInv` adds to `Inv` that an attempt which is
loading, and a finalize request on the wire, carry a revision that is `Past`:
not larger than the record's, and smaller once the record is disposed.
`PastKept` proves it stable from `RecordStep`.  `finalize_resume` does not look
at the lifecycle state, so this is the only reason why a late finalize cannot
revive a disposed Run (`DisposedStaysDisposed`).  `EditorStep` shows that every
step is a step of `RunStore` or none: `EditorsImplementStore`, and by it
`EditorsKeepBudget` and `EditorsKeepJournal`.

Two more properties need to know what an attempt waits for.  `Waiting` says
that operation identities are drawn once, that an attempt waits for exactly one
request or reply (`OneRequest`), and that a finalize on the wire is awaited by
the attempt that sent it.  `Seen` relates what an attempt was shown to the
record: never newer, and the same record where the revisions agree; since
`begin_resume` compares the revision, a resume is granted on what was observed
(`ResumeIsOnWhatWasObserved`).

That a Run resumed cold has its own Session open in the editor which resumed it,
`SessionKeptOnResume`, has two parts.  `Survives` says where: the editor that drew
the operation the record names holds the Run, or its attempt has ended with
something loaded, unless that editor quit or lost the answer.  It is kept because
a record becomes cold resumed by a finalize only, and that finalize is the one
request its editor waits for (`Came`, `FinalizeSurvives`).  `OwnedInv` says
which Session: what any editor's local Run owns, and what any attempt has loaded,
is the Session of the record.  It rests on `SessionFixed` of `RunStoreProofs`, that
no step changes the Session of a record once it is attached, and on a Park in
progress being that of a Run its editor holds (`ParkingHeld`): an answer to it
must not make an editor hold what it gave up.

**`AttentionOutboxProofs`.**  `Inv == Typed /\ Held /\ EnqueuedOnce`.  `Held` is the
reason why acknowledgements are safe: what readers see is one of the versions
on disk, every version's cursor is at least the number of acknowledgements, and
while the worker holds an answer, also at least the entry it offered.  That last part is
established by `StoringHolds`: an accepted request has just stored the state,
whether it was new or old.  From it
`OutboxTypeCorrect`, `AcknowledgedSurvives` and `QueuedOnce`.
`ResolvedStaysResolved` (`NeverResurrected`) rests on `InboxStep`, which says
that outside a loss of power the inbox changes only by `Projected` of some
request without a gap, or loses items.  `ShownIsUnresolved`
(`ShowsOnlyUnresolved`) needs more: `AgreeInv` says that every version on disk
agrees with the outbox up to its cursor, and that every request on its way is
that of an entry which is here to stay.  It has the hypothesis `EntriesLast` (no
loss of power, or no unsynced entries), without which section 5 has the
counterexample.  Under the same hypothesis the outbox with all its files,
worker and losses of power implements `ProjectionLog` (`OutboxImplementsLog`): the log
is the prefix of whole entries (`Queued`), what is applied is the cursor of the
inbox, and what is told is the acknowledgements.  A loss of power maps to a
stutter because no version on disk is ahead of the inbox (`NoneAhead`) and none
is behind what was acknowledged (`Held`).

**`SessionOwnerProofs`.**  `Heads` is the inductive invariant, of the owner and
of how much the broker *stored*: the head the owner knows, the head of a
reconnect that was offered and every acknowledgement on its way are within what
was stored, every receipt on the wire was signed, what was stored is a legal
chain, and the tree of a Terminal Session is gone (`Sound`).  `KnownIsDurable`
alone is not inductive: a handler adopts a head from an acknowledgement, so what
is in flight has to be bounded too.  The handlers call each other, so there is
one lemma per operator, in the order of the calls.  A handler that signs and
receives nothing leaves the history, the known head and a Terminal state alone
(`Kept`, lemmas `...Keeps`); the few that learn a head, sign or send restore
`Heads` and only extend the history (`Follows`, lemmas `...Follows`), the broker's
acceptance included.  `StepFollows` takes the actions one by one.
`HeadsInvariant` gives `OwnerKnowsDurable` and `BrokerStoresChain`, that what is
stored is a legal chain from the Start whatever was sent; `Grows`, the other half
of `Follows`, gives `SignedHistoryStays` and `TerminalStays`.  All hold for
every choice of faults and events, those of section 5 included: the disagreements
cost evidence or progress, never the durable chain.

Its second part is about what the owner does at a time.  `Orderly == Fit /\ Under`:
`Fit` has the types of all fields and says that a receipt is sent again, or
evidence drained, only past the head known to be stored and while the connection
is reconciled, and that a Resume waits for its check only while nothing else is
going on; `Under`, that an operation is under way only when nothing is owed, sent
again or drained, that it stands at the known head, and that the receipt it awaits
is the last one.  `Under` alone is not inductive: `complete_pending_receipt`,
`finish_broker_reconnect` and the drain call each other, and each relies on the
others having finished.  Handlers that begin nothing are shown to `Ease` the owner,
those that end an operation to be `Ends`, and only then may the next be taken.
From `OneThingAtATime`: `OwnerTypeCorrect` (the bound `MaxPending` on the evidence kept
included) and `ThawIsDurable`.

The gate is argued separately.  A handler that leaves it open leaves what is
behind it (`Bars`); a handler of a reconnect leaves it shut and the connection used
again or something to wait for on it (`Rejoined`).  `GateOK` says what stands behind
an open gate: a running, connected Session all of whose Resumes are within the known
head, and no Resume under way that is not yet activating.  It needs
`Linked`: on a connection that is lost, with no checkpoint at hand, no old
acknowledgement is left to be taken for the new Resume's, and a reconcile is
always waiting for something.  `GateIsEarned` has the hypothesis that the gate can be
shut (`"revoke"` is no fault): with a gate that cannot be revoked the property
fails, and section 5 lists that case.

Its last part is about what is on the way while the broker catches up (`InFlight`).  A
reconnect is attempted only on a channel the broker has lost too, and offers a
head that is not behind the stored one; until the broker has reached that head, the one thing on
the way is its checkpoint, or its acknowledgement of the last receipt it stored, or
the receipt after that.  The reason is that nothing new is signed in that time:
an operation or a drain that signs stands at a head known to be stored (`Under`,
`Drains`), and the head to reach is not past what is signed (`Channelled`).  A
handler that neither signs, reconnects nor is told anything leaves at most
silence (`Hushed`), one that is told of head *i* may send receipt *i + 1*
(`Says`).  `OneReceiptOnTheWay` has the hypothesis that the owner does not give
up a channel that works (`"halfopen"` is no event), without which section 5 has the
counterexample.

**`SessionOwnerEvidence`.**  What the evidence says of the Session.  `Recorded` holds
of a Session that was not quarantined.  `LastTo` is the state the last of the
evidence reaches, signed, being signed or owed, and by `Reaches` it is the one
the Session is in.  This is not inductive alone, for three reasons.  An outcome
that finds no room among the pending receipts quarantines the Session, and a
handler that was called by another must not find it full in the middle: `Room`
keeps two places free while the Session is Running and one while it is Parked,
for the Park and the Disposal that may still have to be owed.  A Resume is prepared
while Parked and signed when Running (`Placed`), so an end that comes in between
must know which of the two it interrupts.  And the owner decides to end with
success in one handler, and ends in another after a reconnect: `Oks` says that
wherever a success is written down, in a reply, a failure kept or the finish that
waits for the drain, the Session is `Closed`: its end is signed or owed and nothing
else is under way.  `Answers` connects this to the requests, whose identities are
drawn once (`Requests`).

Each handler is shown to `Tell`: it quarantines, or it keeps `Records`, drops
nothing that is signed or owed (`Owes`), and answers nothing but the operation
under way (`Heeds`).  Handlers call each other, so most are shown to leave the
evidence `Alike` or to be an `Entry` to one that tells, and are composed from that;
`Carries` lifts a handler to an action and `StepTells` takes the actions one by one.
From `EvidenceIsRecorded`: `SuccessIsRecorded`, `NothingUnrecorded` and `EvidenceIsKept`.
All three have the hypothesis `Wide`, room for four pending receipts: the code has eight
(`launch_protocol.rs:72`).  Losing the controller while a Resume is awaited can leave
three outcomes owed (the Resume, the Park that undoes it and the Park for the
controller), and the Disposal still needs its place; the run with a bound of
three meets no Resume.  `NothingUnrecorded` also asks for a gate that can be shut, for the reason
given in section 5.

That all of it is one chain the broker may store, `OwedChainIsLegal`
(`LegalChain`), needs to know what may follow at every moment, not only once it
is signed.  `Legal` is the strengthening: receipts and evidence owed are a chain
(`Line`); the payload of the operation under way may follow its last element as long
as it is not signed (`Apt`); an end that is queued finds a Session that is not ended
and an operation that does not end it (`Closing`); and nothing is owed while an
operation is under way (`Sole`).  Its hypotheses exclude the three cases of section 5:
the gate can be shut, a controller is not lost where Sessions are resumed
(`Steady`: the Park that undoes a failed Resume is what the controller's Park may
not follow), and the property is claimed until a quarantine.  With
`OneReceiptOnTheWay` and its hypothesis, and with what `RequestsRecordedOnce` below is
proved from, it gives `HistoryIsNotRefused`
(`NeverRefused`), for a Session that is not quarantined either: what the
broker is sent while it catches up is the next receipt of a legal chain, numbered
by its place and of a request it has no receipt of, and what it is offered is not
behind what it stored, so it finds no
reason to take the history for corrupt, whatever is lost, refused or late.

`RequestsRecordedOnce` has no hypothesis, and an invariant of its own.  A second
record of a request could come from three sides: the request is sent again after
its operation failed, the outcome of a failed operation is owed although it was
signed, or the evidence drained stays in the queue.  `Single` excludes them
together.  `Parted`: no request is twice in the receipts, twice in what is owed,
or in both.  `Proper`: the operation under way has no record of its request until it is
signed, which is all that `fail_receipt_operation` asks before it owes the outcome.
`Leading`: what is drained is the first that is owed.  `Answering`: a request that has
a record has its answer too, or is the operation under way, so that the cached
answer, not a second operation, meets a repetition.  That one holds only until a
quarantine, which forgets the operation under way and admits nothing after it.
`Fresh` says the same of a Resume that still waits for its check, and a settlement
of a lost controller starts only on a Session that answers nobody (the last
conjunct).  Between the point where a handler takes an operation back and the
point where it tells the requester, `Answering` fails for that one request:
`Single(o, S)` carries the requests that are being ended in `S`, and the lemmas say
which handler empties it.  Most handlers are `Level`: they touch neither records,
operation nor answers.

**`GenerationProofs`.**  `GenInv` adds to the types and to `RunInv` who may still
turn a mutation's capacity into an issue.  `Alone`: at most one call stands
before its `br create` or before giving its unit back (`Decides`), or one `br`
outlived its call, and then the unit is held, nothing is booked and no issue
exists (`Unspent`).  That is what makes `OneIssuePerMutation` inductive: the code
never compares what two processes are doing, it relies on the reservation being
refused for a mutation that is pending or booked, and the one branch that takes
capacity back is reached only from a start that failed.  `Owned` says that
whatever was booked exists and whatever exists is booked or held, `Known` that a
call confirms only what it saw in Beads.  A step that leaves the accounts alone is argued
once (`QuietStepInv`), one that works on them while nobody else may decide about
the mutation once (`ExclusiveStepInv`).  Every step that keeps `GenInv` is at the
same time shown to be one of the ledger or none (`StepKept`): hence
`GenerationKeepsLedger`, for any number of brokers, kills and failures.  A
confirmation is a step of the ledger because the first output recorded for a mutation is
its one issue (`RecordedIsIssue`), a reservation because everything taken is
booked or held (`TakenFits`), which gives `CreatedWithinApproval` as well.
`GenerationAssumption` asks for a Session and for a revision counter that can
reach two, without which no Run could have been attached.

**`GenerationLedger`.**  `LedgerKeepsCeiling`: from finitely many mutations and a
ceiling that is a number, a ledger never takes more than approved.

Model-checked only: the liveness properties.  Every invariant and action property
of a passing run is stated by a theorem; `owner_faults` checks some of them with room
for three pending receipts, where `Wide` asks for four.  Proved without a run of their own:
the types of `RunEditors` and `AttentionOutbox`, `SignedStays`, `DurableChain`, the ceiling
on generated issues.  Liveness under
fairness is out of the prover's reach and stays with TLC.  No module of the
project is recursive.

## 7. What the models leave out

* Malformed or foreign record files, file-system errors, permissions: a call
  that meets one fails and writes nothing.
* Idempotent repetitions of `attach` and `admit`, read-only listings, snapshots
  as data.  `list_resumable` shows the whole journal (`runs.rs:956`), so a Run that
  was half cleaned up, resumed, and Parked again by a failed load is listed with
  claims it has already given up; nothing is decided on that list.
* `run release` given by hand while a `br create` runs: the command's own
  precondition is that the mutation did not start.
* The order in which a pass meets the records is any; it is the directory's.
* In `Generation` the clock: Parks expire at any time.  In `RunEditors` the
  picker: an operator resumes any Parked Run; the revision is the newest
  snapshot's, of any age.  A Park with several Sessions per Run, `run_changed`
  invalidations and the relay of replayed events are not modelled.
* In `AttentionOutbox`: authentication and framing, entries that fail validation,
  the receiver's generation counter and its overflow, restart of a receiver
  with a malformed file, data of a condition beyond its key (an upsert of a
  condition already shown replaces its data), items raised by editors, and
  reconciliation of local Parks.  A raised item of an editor has a key of its
  own operation, so it does not meet those of the broker.
* What happens in `br` beyond assignee and external reference.
* In `SessionOwner`: the launch before the Start receipt and the recovery of a
  launcher that died (`launch_recovery.rs`); the sandbox and the guard themselves,
  which succeed or fail; framing and authentication of packets; status queries;
  dispatch of commands, tools, verification and sender-guard changes, which
  read the state but do not move it; the capacity of the cache of failed
  requests; reconnect attempts one by one (`trying`); `restore_after_reconnect`,
  which is computed and changes no state here; a grace period of zero; and
  overflow of epochs.  Owners of different Sessions share nothing.
* The broker's durable lifecycle jobs, which decide what to request and when to
  repeat it: `Ask` and `Repeat` stand for any such broker.

## 8. Plan

Done, in this order: `RunRecord`, `RunStore`, its proofs; `GenerationLedger`,
`Generation` and its proofs; `RunEditors` and its proofs; `ProjectionLog`, `AttentionOutbox` and its
proofs; `SessionOwner` and its proofs.  Next, most important first:

1. `AttentionInbox`: upserts, eligibility and clears of editors, with the queue
   of `ui/attention.lua` that pipelines them and puts failed ones back; clears
   repeated after a failed sync; reconciliation of local Parks with
   `RunStore`'s Runs under its own lock.  Abstract specification: the set of
   open alerts as a function of what producers last said.
2. `CaptureStore` with the transcription worker and the operator's retry, with
   crashes between its files; the restart-safety the worker's documentation
   states.
3. `TurnRecorder` and `SessionLifecycle`: admission of turns behind the recording
   barrier, cancellation, permission waits, exit of the Agent; abstract
   specification: one turn at a time, each recorded in order.
4. `Notifications` with pairing and revocation; liveness of delivery.
5. `WorkflowExecutor`: stages, loop budgets, Park and resume.
6. The broker's durable lifecycle jobs, the producers of the outbox, controller
   loss and recovery as seen from the broker, composed with `SessionOwner`.
7. Recovery of a launcher that died, and the launch transaction itself.
8. Skill admission, endorsement and quarantine.

Proofs, in parallel: the type and safety invariants of each new module.
