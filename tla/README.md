# A verification project for ForWin

ForWin writes serial novels with language models. Around the models it keeps a
database of record: a *canon* that chapters enter one at a time, durable tasks
that worker processes claim under leases, a transactional outbox, and
maintenance that has to be complete before the next chapter may enter. This
directory holds TLA+ models of that machinery, TLC instances that check them and
proofs that TLAPS checks. Paths below are relative to `src/`.

## 1. Inventory

### 1.1 Parts, state, operations

| part | state it keeps | operations | correct when |
|---|---|---|---|
| Outbox (`forwin/outbox`) | `outbox_events`: status, worker id, lease epoch, lease expiry, attempts, next time | enqueue in the producer's transaction, claim (`SKIP LOCKED`), heartbeat thread, handler, acknowledge, release with backoff, delete with the project | every event is handled at least once; only the claim whose handler returned acknowledges; no event is stranded |
| Generation tasks (`forwin/generation`, `forwin/application/generation*.py`, `forwin/http/project_support.py`) | `generation_tasks`: status, flags, lease, chapter lists | enqueue, claim and reclaim, heartbeat, fenced progress, recovery of committed work, pause, terminate, delete, failure | one holder at a time; progress follows canon; stop requests stop; quota kept; nothing runs for ever |
| Pipeline (`forwin/generation/pipeline_core`) | the run's workset and result lists | chapter loop: checkpoint, write and review, prepare, repair, admit, conclude | a chapter is written once and in order |
| Canon admission (`forwin/canon`, `forwin/candidate_drafts.py`, `forwin/state/updater.py`) | chapter plans, candidates, `CanonCommitRecord` | prepare a plan, revalidate it under lock, commit everything in one transaction, replay a committed plan | no second admission, no stale candidate |
| Post-Canon maintenance (`forwin/maintenance`) | three step rows per commit with status, worker id, epoch, lease; order controls | claim a step, heartbeat, complete under a fence, fail, order controls, barrier | steps in order, once and for good, before the next commit |
| Checkpoints (`forwin/application/project_control`, `forwin/generation/gate_delegation.py`) | `band_checkpoints` | create by hand or at a band's end, approve, delegate | what holds the book back can be released |
| Upload attempts (`forwin/publisher_runtime`, `browser_extension`) | upload jobs, attempts with leases, receipts; the journal of each browser extension | claim, heartbeat, phases, pause, resume, terminate, recover, finish, reconcile, late receipt, replay of the journal | no button is pressed twice, no receipt lost, a job says uploaded only when it is |
| Publish hub (`forwin/publish_hub`) | the request stored with an upload row, the hub's job id, the feed cursor | release gate, release and submit, send again, mirror the feed, catch up, create the book | a chapter goes out once and in order, rows and hub agree in the end |
| World engine (`forwin/world_engine`) | deltas of canon with source `world_engine`, world snapshots, `world_plan_conflicts` rows, news | tick after a commit, hold a change for review, decide a conflict, expire, supersede after a rewrite | no tick is committed over a newer canon; the plot answers an intent once; every hold ends |
| Planning (`forwin/planning`) | arcs, beat sheets, bands, chapter plans | activate, draft, replan; commits unit by unit | a repeated step finds what it did |
| Review, acceptance, rewrite (`pipeline_core/acceptance.py`, `application/review*`, `canon/historical_rewrite.py`) | chapter status, candidate versions, rewrite markers | approve, reopen, retry, ask for a rewrite | a chapter has one text in canon, replaced only when asked |
| Auto-continue, auto-retry (`forwin/generation/auto_continue.py`, `review_auto_retry.py`) | decision events | enqueue the next task, reset a chapter for review | never two tasks, bounded retries |
| Production scheduler (`forwin/production`) | runs, backlog | plan, execute | backlog kept, no duplicate work |
| Book state, map, characters (`forwin/book_state` ...) | graph deltas, snapshots | compile in the commit's transaction | derived state matches canon |
| Review, canon quality, audits | verdicts, obligations | review, verify, audit | verdicts respected by the pipeline |
| Writer, context, LLM, skills, genesis | prompts, artifacts | text in, text out | - |
| Knowledge, retrieval, Obsidian, observability, HTTP, MCP, UI, browser extension, scripts, migrations | projections, presentation | - | - |

### 1.2 How the parts interact

- A commit (`canon/admission.py`) writes the chapter, the candidate, the commit
  record and a maintenance event of the **outbox** in one transaction, guarded by
  the lease of the **generation task** that asked for it and by the **barrier**
  of the previous chapter's maintenance.
- The maintenance of a chapter has two kinds of callers: the outbox handler
  (`maintenance/events.py`) and the pipeline, right after its own commit and again
  before it writes the next chapter. They meet only in the step rows.
- The pipelines of a host share a maintenance worker id
  (`pipeline_core/world_projection.py`), and the worker services share the ids of
  `docker-compose.yml`; identity alone separates nobody, the claim's epoch does.
- The API changes task rows (pause, terminate, delete) while a worker runs; the
  worker looks at the flags at the checkpoints of its loop only.
- The world step reasons over the latest canon for minutes, in read transactions, while
  people decide the conflicts of earlier steps and send chapters back to be rewritten.
  Both commit deltas on the latest chapter under the project's lock; the step compares
  the snapshot it read, a decision reads under the lock. A rewrite replays the deltas of
  later chapters and takes back what they had decided.
- The operator creates and approves checkpoints that the barrier looks at.
- A person approves a draft in a transaction of the API, beside the run that wrote
  it; both go through the same admission. Each ends with a handler that may retry
  the chapter or enqueue the next task.
- An accepted chapter becomes an upload row. Rows of the direct path are claimed by
  browser extensions over HTTP; rows of the hub's path are sent to an external
  service, which uploads them, and a sync process mirrors what became of them.

### 1.3 What is hard

Leases that run out under a working process; heartbeat threads that hang or give
up; claims, guards and writes in different transactions; crashes between commit
and report; replay of committed work by the next claim; stop requests between two
checkpoints; two callers of one maintenance step; failures recorded late, in
transactions of their own; holds that nobody can release; a session that keeps rows
as it read them before another actor changed them; an external effect that was
perhaps had, and whose answer was lost. `PROJECT.json` lists each
hazard with its line and the properties that watch it.

## 2. Modules

| module | what it is |
|---|---|
| `AtLeastOnce` | abstract: what an outbox promises of an event |
| `Outbox`, `MCOutbox`, `OutboxProofs` | the outbox and its workers, its instances, its theorems |
| `CanonLedger` | abstract: chapters enter canon in order, once, for good |
| `GenerationTask`, `MCGenerationTask`, `GenerationTaskProofs` | tasks, workers, the run over the chapters and admission; instances; theorems |
| `ChapterCadence` | abstract: commit, three steps, controls, then the next chapter |
| `PostCanon`, `MCPostCanon`, `PostCanonProofs` | maintenance, checkpoints, barrier and their callers; instances; theorems |
| `CanonText` | abstract: one text per chapter, in order, replaced once for each request |
| `ChapterReview`, `MCChapterReview`, `ChapterReviewProofs` | a run, approvals, retries and rewrites over the versions of each chapter; instance; theorems |
| `UploadOnce` | abstract: sent once, reported when there, withdrawn only when never sent |
| `UploadAttempts`, `MCUploads`, `UploadAttemptsProofs` | upload jobs, attempts, browser extensions with their journals, the platform; instance; theorems |
| `ChapterPublication` | abstract: what the hub's rows promise of a chapter |
| `HubPublishing`, `MCHub`, `HubPublishingProofs` | release, submission and sync with the external hub; instance; theorems |
| `HeldIntents`, `HeldIntentsProofs` | world steps, conflicts, decisions, the plans that answer them, and rewrites, for the intents of characters; theorems |
| `Extrema` | lemmas that the proofs share: `Min` and `Max`, least elements, folds over sequences |

An action is one transaction, or one step of a process between two transactions.
Row locks (`FOR UPDATE`, `SKIP LOCKED`) are therefore part of the atomicity, except
that `SKIP LOCKED` may pass over a row another process is using (`MayLock` in
`Outbox`, `Busy` in `PostCanon`). Definitions marked *Mutation* stand next to the
definition they damage and are used by no specification: they record which bug each
property notices.

### 2.1 Outbox

`row[e]` is the row of event `e`; `worker[w]` the call of `run_one_outbox_event`
process `w` is in (`handling` while the handler runs beside the heartbeat thread,
`joining` in `stop_and_join`, `settling` before the second transaction); `late`
holds heartbeat threads that outlived the join. Time is kept as remaining ticks, so
`Tick` needs no bound. `attempts` and `lease_epoch` only grow together and are one
field. Enqueueing is atomic with its producer; handlers return or raise. A crash
also stands for the loop that ends on an exception of its own transaction.

### 2.2 GenerationTask

`task[t]` is the row; `worker[w].phase` the place in `run_one_generation_task`:
stop requests and recovery (`cancelling` .. `crediting`), the start (`starting`,
`planning`), the loop (`looping` .. `concluding`), the end (`finishing`,
`reporting`) and the two exception handlers (`failing`; `raising`, `condemning`,
which are two actions because the code reads without a lock and writes later).
`candidate[c]` is the sequence of the chapter's candidate statuses, `chapter[c]` the
status of its plan. `wrote` and `overrun` are history variables. Abstractions:

- leases have no clock: `Expire` may end one at any time. This allows more than the
  code does, except that nothing here says *when* a lease ends;
- writing and reviewing a chapter with its in-place repairs is `Write`, then
  `GateStops`, `ChapterBlocked`, `Prepare` or `ChapterFails`, with any outcome;
- a plan may be rejected as stale for reasons that are not modelled (policy version,
  world edits), so `CommitPlan` may always reject;
- a heartbeat is one action: its row read and its update run in one transaction;
- `Start` takes the abort check and the fenced update after it in one step; a lease lost
  between the two ends the call in an exception either way;
- a reclaim that finds the chapter demoted by its superseded owner drops it (`dropped`);
- deletion of a project is left out; human acceptance, "drafted" chapters, rewrites and
  auto-continue are in `ChapterReview`.

### 2.3 PostCanon

`run[c][s]` are the three step rows of chapter `c`, `controls[c]` the order controls
kept in the feedback row, `checkpoint` the checkpoint rows in creation order,
`worker[w]` a call of the maintenance. An event worker starts a call for any event
that is not processed; a pipeline starts one after its commit (`acceptance`) or
before it writes (`preflight`, which recovers the chapter before when it blocks).
Pipelines may be chapters behind: that is the superseded owner of a task.
`_ensure_runs` and the check of the previous chapter are one action. The policy is
`pause_on_warn`, the default; audits of the future plan are the outcome `blocked` of
the controls; `available_at` of a failed step is ignored because the code sets it to
the present. `Delegate` reads the warning and overrides it in one step, although the delegate's model is
asked in between: what a person does to the checkpoint meanwhile lifts the hold as well.
Strict-progression checkpoints at the start of a chapter block the
pipeline only, in `NextChapter` of `GenerationTask`.

### 2.4 ChapterReview

The same chapters as seen by the people who review them. `version[c]` are the candidates
of chapter `c`, each with its status, its prepared plan (who prepared it, on which last
accepted chapter) and its commit record; `asked[c]` the pending rewrite markers;
`retried[c]` the automatic retries on record; `task` the project's one active task.
`worker[w]` is a run from `Begin` to the handler after it (`EndTask`, `Decide`,
`RetryRun`, `EnqueueRun`); `approver[a]` one approve request. A session of the
code keeps the objects it loaded (`expire_on_commit=False`) and writes a field only when
its value differs from the one it kept: `seen` and `kept` of an approver, and the
drafted chapter a run keeps. Hence a run or an approver may write over what another made
of a row, and only `Admit` reads again under locks. It is one transaction: the old
record superseded, the new one, the chapter, the candidate, the marker.
`RewritesAreAsked` says that canon still follows `CanonText`. Abstractions:

- the lease, its loss and recovery are in `GenerationTask`; the barrier, the policy, a
  changed plan or world are the free refusal `Refuse`, after which the candidate may be
  marked failed in the same step;
- judging, repairing and preparing end in any way the code allows;
- drafts resumed after a world conflict behave as `Retry`; the reset of `needs_review`
  chapters without a candidate is left out; two versions never have the same body;
- what blocks `continue` besides the task slot is free.

### 2.5 UploadAttempts

`job` and `att` are the rows, `receipt` says whether the job has one. An extension `c` is
at `pc[c]` of its round, with at most one unacknowledged journal entry: the attempt
`held[c]` and what was `saved[c]` about it, the only things a `Restart` leaves. Each HTTP call
is one action with two outcomes: the answer arrives, and the extension continues, or it
does not, and the server's transaction stands alone. `Press` is the button on the
platform's page, `Land` its effect there, at once, later or never. A lease is live until
`Lapse`; the claim of any extension expires what lapsed (`JobsWithout`, for the rows
`SKIP LOCKED` does not pass over). `RecoverInterrupted` is the start of the backend.
Attempts are named by extension and slot, and a slot is used again when no row, token or
journal names it. Left out: audit synchronisation, cover and comment jobs, rows the hub
owns, retry delays, the platform's login state, a receipt that contradicts the recorded
one, and a journal entry of a deleted job (its calls are answered "not found" for ever).

### 2.6 HubPublishing

`row[r]` is an upload row as committed, `hub[r]` the hub's job for the row's idempotency
key (one per row), `unread` the changes after the committed cursor. The release
transaction and the sync round each have a `session`: the rows they locked with their
uncommitted versions, so that a request can reach the hub and the commit be lost
(`ReleaseFails`, `RoundFails`). A release after such a loss builds the request again, and
from a mode, a destination or a cover that may have changed since (`rebuilt`, `Rebuilds`):
the hub answers it with a conflict, and the row adopts the job of its key, or fails when
the lookup by key is refused (`unresolved`). `Answers` are the hub's answers: it looks at the key
first, and refuses a second job of one publication while another is active and after one
succeeded. That is its contract and external here, as `HubWorks` is. A sync round sends again what has no
job (`Resend`), mirrors a page of the feed (`FeedReads`) and asks for rows it has not
looked at (`CatchUp`). Left out: covers, pause reasons and events, the risk pause of a
destination (it holds rows, as `Hold` does), a create request whose settings changed
(it has another key, so it would be another row), the importer, the limit of 50 rows of a catch-up, and two releases of
one project at once, which the scheduler's advisory lock excludes
(`production/scheduler.py:98`).

### 2.7 HeldIntents

`canon` are the chapters in canon, each with its commit, the intents its text settled, the
world engine's deltas on it and the ticks a rewrite retired; `world` is the status of each
intent in the latest snapshot; `plans[c]` a chapter's plan and the intents it binds;
`conflicts` the rows in order of creation, each with the response it owes and the chapter
whose plan carries that response; `owing` the commits whose world step is not done;
`tick[n]` a running step: the canon and the conflicts it read, and, when it is `closing`,
what it leaves for the completion transaction. `canon` itself stands for the snapshot's
id, which every committed delta changes. `late` is a history variable.

`StartTick` is what `_Tick` reads; models are asked between it and `CommitTick` (the project
lock and `_lock_fresh_canon`), `CheckQuietTick` (a check without the lock, then
`CloseQuietTick` with the completion of the step) or `FinishHolds` (the last chapter);
`FailTick` is every way to roll back. `SkipTick` is the step of a rewritten chapter that
is not the latest. `Resolve` is a person's decision, `Plan` a band plan with the patches
for pending responses (`FirstReachable`, `Rebound`), `Draft` and `Accept` the pipeline,
`Reset` and `Rewrite` a user's rewrite with its replay (`Replay`, `Lost`, `Keeps`).
Abstractions:

- the six statuses are three: planned and due are live; resolved, disrupted and vetoed
  are settled. An intent is what actors want; which one an actor plans is free, and so is
  every verdict of a model (`Turns`, `more`);
- of the kinds of conflicts there are those over a held intent (`impact_review`,
  `onstage_slip`) and the one a rewrite leaves for a person (`replay_cas`); those over a
  chapter's draft, a band's plan, a milestone or a protection are left out, as are
  clocks, news, drift, budgets, rerolls and the ledger of obligations;
- two deltas are related by the statuses they read and set, and by `vanished`, any use the
  later one may make of what the earlier one created;
- the extraction of a chapter is shown planned and due intents only, so a chapter settles
  live ones (`LiveBefore`);
- the lease of the step is in `PostCanon`, admission's own checks are in `GenerationTask`.

## 3. Runs

| run | instance | shows |
|---|---|---|
| `outbox` | 2 events (one with a broken payload), 2 workers of one name, one of them on time and one stalled at will, lease 3, 2 claims, fair | `TypeOK`, `OneHolder`, `ProcessedWasHandled`, `SettledIsFinal`, that every step is an `AtLeastOnce` step; `NoOverlap`: a call that beats on time and believes in its claim is never overtaken; `EventuallySettled`, of rows that have claims left |
| `task_fence` | 1 task of 2 chapters, 2 replicas, 2 claims, 2 drafts | `TypeOK`, `OneHolder`, `CreditedIsCanon`, `StopsSoon`, and that every step is a `CanonLedger` step |
| `task_live` | 1 task of 1 chapter in a book of 2, 2 replicas, 2 claims, fair | `WithinRequest`, `RunningSettles` |
| `post_canon_fence` | 1 chapter, outbox worker and 2 pipelines of one id, 1 reclaim, 1 manual checkpoint | `TypeOK`, `RecordedByHolder`, `AckedIsMaintained`, `LapsedClaimIsDead`, `FollowsCadence` |
| `post_canon_cadence` | 2 chapters of one band, outbox worker and pipeline, 1 reclaim, 1 crash, fair | `FollowsCadence` across chapters, with stale pipelines; `EventuallyMaintained` |
| `chapter_review` | 1 run, 1 approve request, 2 chapters; chapter 1 drafted twice, rewrites of both | `TypeOK` (with the bound on automatic retries), `AcceptedIsCanon`, and that every step is a `CanonText` step (`RewritesAreAsked`) |
| `uploads` | 1 job, 2 extensions, 1 attempt each, fair | `TypeOK` (with: a running attempt is its job's current one), `UploadsOnce` (every step is an `UploadOnce` step: nothing is sent twice), `NothingForgotten`, `UploadsSettle` |
| `hub` | three starts: two candidates of a chapter, two chapters, a chapter whose book is missing; fair | `TypeOK`, `NotDisowned`, `InOrder`, `TellsTheTruth` (every step is a `ChapterPublication` step), `ResultsArrive`, `RequestsGoOut` |
| `held_intents` | 1 intent, 3 chapters, one of the last two rewritten, 2 conflicts, fair | `TypeOK`, `SnapshotIsReplay`: the snapshot is the replay of the ledger; `OncePerIntent`; `HeldIsAnswered`: without a rewrite, a held intent is owed a response; `SettledStays`: without a rewrite, nothing brings a settled intent back; `HoldsEnd` |
| `task_cancel`, `post_canon_held`, `upload_abort` | the least instance that shows it | a property that the documents state and the code does not keep, section 6 |

**Bounds.** `MaxEpoch`, `MaxReclaims`: the fence compares two claims, the one in hand and
the one of the row, so one reclaim shows what it must refuse, and two or three claims
let a superseded owner meet the owner after the next. `EventuallyMaintained` is checked with
one reclaim only: with two, its run has more than two million states. `MaxDrafts` 2: a candidate
and the one that supersedes it. `Book` 2: a chapter and its predecessor. `MaxManual`
1 or 2: a hold, and a hold hidden by another. Two workers suffice for a superseded
owner and its successor; the third of `post_canon_fence` separates pipelines that
share an id from the outbox worker that does not. `chapter_review`: the hazards are between
two actors, so one run and one approver; a second version is needed for a rewrite, a
second chapter for a successor. `uploads`: a second press needs a second
attempt of the same job, by the same extension after a restart or by another; two jobs
share nothing but the extension's round. `hub`: two rows relate as candidates of one
chapter or as chapters in order, and a book's request comes before its chapters';
`Starts` takes one of these at a time. `Varying`: one candidate and the book may have their
request rebuilt as another one; the second candidate differs from the first in nothing else. `held_intents`: an intent is raised in one chapter,
answered in the next and released after it, so three chapters; a second conflict shows
what the first one's offer consumed; one rewrite, since a second one repeats the first on
another chapter, and `MaxVanished` 1 since a delta lost for its use of what is gone is
then like one lost for its statuses. The conflicts are reviews of an impact; with both
kinds, which the module has, the safety properties hold as well on 1.7 million states.
Symmetry is used in `task_fence` and `post_canon_fence` only, over replicas that have
the same name, with no liveness property.

**Deadlock** is checked for the outbox, for post-Canon maintenance and for the hub. The
runs of `GenerationTask`, `ChapterReview`, `UploadAttempts` and `HeldIntents` turn it off, since these
systems really stop: a chapter waits for a review when all requests were made, a job is
over, paused or waits for an operator, a book is complete or waits for a decision.

**Fairness.** `Outbox`: weak fairness of claiming, of the end of a handler, a join
(which has a timeout), a settlement and a heartbeat turn, and of time. Services are
restarted and poll for ever; model calls run under request timeouts. Nothing is
assumed of enqueues, deletions and crashes. `GenerationTask`: weak fairness of each
worker's claim and of its call, and a lease nobody renews runs out. A stuck
heartbeat is not assumed to fail. `PostCanon`: the outbox hands out an unprocessed
event again and again and finds the row unlocked at some try (strong fairness of
`Begin` and `ClaimStep` for the outbox worker, since crashes, busy rows and other
callers interrupt both), calls end, an unrenewed lease runs out; nothing is assumed
of pipelines beginning. `UploadAttempts`: an extension's alarm starts round after round
and a round gets on (weak fairness), a lease nobody renews lapses, a page that can be
inspected is so in the end and content that is there is found in the end (strong
fairness); restarts, lost answers and failed heartbeats stop at some time
(`<>[][~Fault]_vars`), without which nothing can be promised. `HubPublishing`: a
release transaction ends, sync rounds go on (`run_forever`), each row is asked for in some
round (strong, for each row), and faults of the sync process stop at some time; nothing is
assumed of the hub. `HeldIntents`: the maintenance of a commit is retried
until its step is done (weak fairness of `StartTick` and `SkipTick`), a step reaches its
commit at some try although decisions make it stale again and again (strong; the number
of conflicts is finite), a stale one rolls back, the band planner plans on to the end and
the loop writes on; nothing is assumed of people, of failures or of replanning.
`DiligentSpec` says only that the operator approves whatever
the API lets him approve. Each liveness property excuses the case in which the bound
on claims is used up, which the code does not have.

## 4. Proofs

The theorems hold for every set of events, tasks, workers, extensions, rows and intents,
every naming of the workers, every length of the book and every value of the bounds, under
the named assumptions of the modules, which TLC evaluates in the runs: `OutboxAssumption`,
`TaskAssumption`, `PostCanonAssumption`, `BoundAssumption` and `ActorAssumption` of
`ChapterReview`, `NoneAssumption` of `UploadAttempts` (no attempt is the empty value),
`BookAssumption` and `StartsAssumption` of `HubPublishing` (the row that creates the book is
none of the chapters', which have positive numbers; a start is some rows and whether the
book exists), and `HeldIntentsAssumption`, which says among the types that the
intents are finitely many: the replay of the ledger needs their order.

`OutboxProofs`. The inductive invariant `IInv` adds to `TypeOK` what `OneHolder` and
`ProcessedWasHandled` need: a call's claim is not newer than its row, two calls never
hold the same claim of an event, a call that reports a returned handler is recorded
in `handled` and was claimed, a processed row is still, and an idle worker has no thread
beside it. `Invariance` is `Spec => []IInv`; from it `TypeCorrect`,
`FenceAdmitsOne`, `AckedWasHandled`; `AckIsFinal` is the action property
`SettledIsFinal`; `ImplementsPromise` is the refinement of `AtLeastOnce` (initial
states, and every step maps to a step or a stutter). `OnTimeIsNewest` proves `NoOverlap`
from a second invariant, `TInv`: the row of a call that beats on time carries the call's
own claim and a lease that is longer than its wait for the next beat, or went with its
project. A tick takes one from both and waits for a beat that is due, a beat makes them
`Lease` and `Interval`, and a row with a lease is not claimable; that is where
`Interval < Lease` is used.

`GenerationTaskProofs`. `IInv` is `TypeOK`, `CallsOK` (what each phase says of the
fields of a call: it has a task, a chapter of the book while it is in one, a terminal
result when it is finishing) and `ClaimsApart` (no two calls hold one epoch of one task, none an epoch beyond the row's).
`TypeOK` needs `CallsOK`, since actions index rows by the fields of a call;
`OneHolder` follows from `ClaimsApart`. There is one lemma per group of actions and one
case per action. `CInv` adds what canon, calls and progress lists say of each other.
`CallsCredit`: the draft of a call exists, a call that credits or concludes a chapter has it
in canon, and so has what it counts as done; a recovering call has seen only chapters in
canon. `RowsCredit`: the same of the completed list of a row. `AcceptedIsCanon`: an accepted
chapter has an accepted candidate. `NoGap`: the chapters in canon are an initial part of
the book. `Halted`: a task admits at most one chapter after a stop request, and once it has,
no holder of its row is in a phase that may admit another. What makes them stable is `Steady`:
canon, the fence and the stop flags of a row change in one direction only. From `CInv`
follow `ProgressIsCanon`, `OneChapterAfterStop` and `CanonInOrder`, the refinement of
`CanonLedger`; all three in spite of the two unfenced writes, which is the point of them.
`QuotaKept` proves `WithinRequest` from a second invariant, `QInv`, which holds as long as
no row was failed by a call that had lost it (`NoneCondemned`; no step undoes such a
failure, `CondemnedStays`); on the instances tried, TLC found it invariant before it was proved.
It has five parts. `RowsFit`: what a task wrote exceeds its progress list by at most one
chapter, and where it does the row resumes from a chapter in canon, so that the recovery
finds the commit instead of writing another; and what was asked for covers all that is
missing from canon, unless it is the quota. `CallsFit`: what a call has left to write
fits in the request with what is written (`HolderFits`, of the call that holds the row), and
the chapters before the one it works on are in canon or ahead of it in its list (`CallFits`,
of every call). `OneActive`: one task at a time is active, the partial unique index.
`DraftsFit`: what precedes a chapter with a candidate is in canon; hence at most one
chapter outside canon is `Open`, and `Room` says the active task may still write it, which is what
the commit of a prepared candidate by a recovery needs. The lemmas are about counting
(`Cardinality` of worksets cut off by the quota), about what each step leaves alone, and one
per group of actions.

`PostCanonProofs`. `IInv` has five parts. `RowsOK`: a lease belongs to a running step,
steps succeed in order, and a success is recorded by the row's last claim. `CallsOK`:
what a call has found out stays true although others act, that is, the steps before
its own succeeded, all three once it is past them, and the chapter it works on is in
canon. `BookOK`: chapters behind the last one are maintained and controlled, those not
yet in canon untouched. `PlansOK` and `CountersOK` are types. Neither of the first three
is inductive alone: a completion keeps the order of the rows because of what its call
knows, and a call's knowledge lasts because no action takes a success back (`Grows`).
`StepHolds` says more than that `IInv` is kept: every step is a commit, the success of a
claimed step, the success of order controls, or `Quiet`, which changes nothing the
cadence sees. From it follow `TypeCorrect`, `LastClaimRecords`, `AckFollowsSteps`,
`LapsedWritesNothing` (an action property, by the one row a step writes) and
`KeepsCadence`, the refinement of `ChapterCadence`: a commit is stage 1 of its chapter,
a claimed step 2 to 4, the controls 5, and a quiet step a stutter.

`ChapterReviewProofs`. `IInv` has four parts. `RowsOK` and `CallsOK` are types with what
an actor's place says of it: it is at a chapter of the book, and the version it works on
is there. `TextOK` adds to `AcceptedIsCanon` that a rewrite is pending only where there is
a text to replace: that is why the check of the successors in canon, which looks only at
chapters with a text, also rules out a pending rewrite of any later chapter. `RetriesOK` bounds the automatic retries on record together with the actors that
have read a chapter as never retried and will reset it: since such an actor adds one
retry and leaves that set, the sum never exceeds the number of actors, although reading
and resetting are two steps. `AllSteps` says what every step does to the text (`Text`): it
is `Quiet` (no text changes and no chapter becomes accepted, whatever statuses a stale
session writes), `Asks` for a rewrite, or `Enters` a version into canon; only `Admit` and
`Retry` are not quiet. From it follow `TypeCorrect`, `AcceptedText`, and `RewritesAsAsked`,
the refinement of `CanonText`: `Enters` is `Enter`, `Asks` is `Ask`, a quiet step a stutter.
The theorems hold for any number of workers and approve requests, where the run has one
of each.

`UploadAttemptsProofs`. `IInv` has five parts: `Types`; `Linked` (a row's current attempt is
its own, and a running attempt is its job's current one); `EvidenceOK` (a press on record
is one of the platform, and what the receipt says was there); `ClientOK(c)`, what the place
of an extension says of its journal, of the attempt it holds and of what it may still do;
`PressOK`, the centre: a job with a press nobody has accounted for has an attempt, a
journal entry or a status that keeps it from being offered again. A claim, a replay and the
expiry of leases each need it for a job the acting extension does not hold. `Typed`,
`Unforgotten` and `Uploaded`, the refinement of `UploadOnce`, follow from it.

`HubPublishingProofs`. `IInv` relates each row, committed or held by an open session, to the
hub's job of its key: `RowOK` (what a status says of the job and of the result mirrored so
far; a job without its row is left only by a request `rebuilt` as another), `OneJob` (the hub's own rule), `DraftsOK` (an uncommitted version differs from the
committed one by what its process did), `ReleaseOK`, `SyncOK` (rows and cursor of a round).
That a request reaches the hub before the commit that records it is why `RowOK` speaks of
jobs a row does not know yet. From it `OwnJob`, `Owned`, `Ordered`, and `Truthful`, the
refinement of `ChapterPublication`.

`HeldIntentsProofs`. The snapshot is the replay of the ledger (`Agreed`) because every writer
appends one delta that fits and a rewrite replaces both by a fold of what it keeps; the
proof is an induction over that fold. `AnsweredOnce` and `NeverStranded` relate the
conflicts, in order of creation, to the plans that carry their responses and to the steps
that have read them and not committed; `Settled` is the action property that only a
rewrite brings an intent back. The induction theorems of the library take an operator, which
these provers cannot supply; `Extrema` proves instead that a set of numbers has a least
element, and each induction is the argument that there is no least counterexample. For the same
reason the lemmas on folds speak of a function that traces the fold (`IsTrace`), and each
user shows that its own fold has one.

`Extrema` proves that `Min` and `Max` of a bounded non-empty set of numbers are its
extreme members; resumption points, candidates and checkpoints are chosen by them. It also
holds the lemmas on least elements and folds.

**Model-checked only.** Liveness (`EventuallySettled`, `RunningSettles`,
`EventuallyMaintained`, `UploadsSettle`, `ResultsArrive`, `RequestsGoOut`, `HoldsEnd`), since
liveness under fairness and `ENABLED` are beyond this prover. Every safety property the
runs check is proved.

## 5. Not modelled

Of the world engine and of planning only what happens to intents is modelled (section
2.7); the units of the plan step, which commit one by one, and the production scheduler
have state machines worth a module and are in the plan. Book state, review and
quality, writer, context, LLM access, genesis, knowledge, retrieval, export, observability,
HTTP reads, UI, scripts and migrations are transformations, wiring or
presentation; where the modelled parts call them, the model takes every outcome.
The delay of a reclaim by pause requests needs time that the present models leave out.

## 6. Where code and documents disagree

Shown by a run:

1. `CancelSettles` (`task_cancel`): a worker that dies while its row is `terminating`
   leaves the row so for ever; no claim takes that status, and the row keeps
   the project's only active slot.
2. `HoldsAreReleased` (`post_canon_held`): approval reaches the newest checkpoint of a band
   only; an older pending manual one holds the next commit back for ever.
3. `AbortConverges` (`upload_abort`): the termination of a job that may have reached the
   platform promises a read-only reconciliation; the server hands it out, and the
   extension, which stops at every abort, never carries it out.

Met while modelling, and part of the models, without a run of their own:

- a worker whose commit was refused for its lost lease marks the chapter `needs_review`
  without a fence, although its successor had the chapter accepted meanwhile
  (`forwin/generation/pipeline_core/project_chapters.py:693`);
- the last exception handler reads the row unlocked and writes `failed` over a newer claim
  (`forwin/generation/worker.py:128`). The row is then terminal although its new holder
  runs, so a second task may be enqueued beside it; when the second has prepared the
  chapter that the first resumes from, the recovery of the first commits it and counts it,
  one more than it was asked for. With one task this cannot happen; `WithinRequest` excepts the
  states after such a write (`condemned`), and `QuotaKept` proves it of all others;
- a task reclaimed before its first chapter resumes from chapter 1, finds the commit of an
  earlier task and counts it as its own (`forwin/application/generation.py:335`);
- a person approves a version while the run, or a second approval, commits it. The
  loser's session kept the candidate, `CandidateDraftRepository.get(for_update=True)`
  (`forwin/candidate_drafts.py:83`) locks the row without refreshing the kept object, and so a
  status such as `needs_review` is written over `accepted`, although the table at
  `candidate_drafts.py:25` lets nothing follow `accepted`. From then on the maintenance of
  that commit is refused ("Canon commit candidate is not accepted",
  `forwin/maintenance/post_canon.py:476`), which `Disowned` models. An automatic retry or a
  demotion may likewise reset the plan of a chapter that was accepted meanwhile; its text
  stays in canon, without a marker, so that no later version can replace it;
- a release's commit is lost after the hub took the request, and the next release builds
  another one, since the mode, the destination or the cover changed meanwhile. When the
  lookup that should resolve the hub's conflict is itself refused, `_unresolved_conflict`
  (`forwin/publish_hub/submit.py:776`) fails the row for a person while the hub's
  job runs on, and names no job on the row, so the sync never mirrors it. The comment says
  so of the row; `NotDisowned` excepts exactly these rows;
- "retries once" (`tests/test_project_operation_guards.py:528`) holds of each caller: two
  callers that read the chapter before either resets it retry twice.

- "Every held intent is eventually released or settled"
  (`docs/superpowers/plans/2026-10-24-world-engine-p4a-followup.md:46`): `finish_holds` of the
  last chapter releases what is held when it looks. When an earlier chapter is rewritten
  after that, the replay may drop the delta of the release
  (`forwin/canon/historical_rewrite.py:735`) while it keeps the hold, and the rewritten
  chapter's own step stops at `chapter_not_latest`
  (`forwin/world_engine/tick.py:197`): the intent stays held in a complete book. A
  rewrite between a quiet last step's check and its completion does the same. `late`
  marks both, and `HoldsEnd` exempts them;
- "obsolete open conflicts become `expired`" after a rewrite of the latest chapter
  (`forwin/book_state/README.md:80`): the conflicts expired are those of the ticks in
  `retired_tick_ids`, which are found by their deltas
  (`forwin/canon/historical_rewrite.py:567`). A tick that committed no delta but raised a
  conflict is not among them, so its conflict still blocks the next chapter and keeps the new
  tick from raising the same change;
- a chapter sent back to be rewritten has a plan that is `planned` again; when its tick
  retires the response it carried, the plan loses the binding as well
  (`forwin/world_engine/superseded_resolutions.py:109`), and the hold is left to another
  response or to `finish_holds`.

## 7. Plan

Done: `Outbox`, `GenerationTask` with admission, `PostCanon`, `ChapterReview`,
`UploadAttempts`, `HubPublishing`, `HeldIntents`. Next, in this order:

1. The plan step, whose units commit one by one and are repeated after a failure; then conflicts
   over drafts and plans, protections and milestones in the world step.
2. The production scheduler over the task queue.
3. With each new module its type correctness, safety invariants and refinement as theorems.
