--------------------------- MODULE GenerationTask ---------------------------
(***************************************************************************)
(* The generation tasks of one project and the workers that execute them:  *)
(* the claim and heartbeat (generation/task_lease.py), the worker process  *)
(* (generation/worker.py), its recovery and fenced updates                 *)
(* (application/generation.py), the run over the chapters                  *)
(* (application/generation_execution.py, pipeline_core/run_control.py and  *)
(* project_chapters.py) and the requests of the HTTP API                   *)
(* (http/project_support.py).                                              *)
(*                                                                         *)
(* One action per transaction on the task row or the chapters.  The        *)
(* progress a stage reports is part of the action that reaches the stage.  *)
(* Leases carry no clock: a lease may run out at any moment (Expire).      *)
(***************************************************************************)
EXTENDS Naturals, Sequences, FiniteSets, FiniteSetsExt

CONSTANTS
    Tasks,        \* task rows, numbered in the order of their creation
    Workers,      \* worker processes
    Name,         \* Name[w]: the worker id of process w, not always unique
    Book,         \* number of writable chapters
    MaxChapters,  \* max_chapters of every task, 0 for no limit
    MaxEpoch,     \* bound: claims of one task
    MaxDrafts     \* bound: candidates of one chapter

Chapters == 1..Book

ASSUME TaskAssumption ==
    /\ Tasks \subseteq Nat \ {0}
    /\ Book \in Nat /\ MaxChapters \in Nat
    /\ MaxEpoch \in Nat /\ MaxDrafts \in Nat
    /\ DOMAIN Name = Workers

VARIABLES
    task,       \* task[t]: the generation_tasks row
    worker,     \* worker[w]: the call of run_one_generation_task w is in
    chapter,    \* chapter[c]: the status of the chapter plan
    candidate,  \* candidate[c]: the statuses of the chapter's candidate versions
    wrote,      \* history: wrote[t]: the chapters admitted by a claim of t
    overrun     \* history: overrun[t]: chapters admitted after a stop request

vars == <<task, worker, chapter, candidate, wrote, overrun>>

Names == {Name[w] : w \in Workers}
None == ""
NoTask == 0

Terminal == {"completed", "partial_failed", "failed", "needs_review",
             "cancelled", "paused"}

TaskType ==
    [status    : {"absent", "queued", "running", "terminating"} \cup Terminal,
     deleted   : BOOLEAN,
     cancel    : BOOLEAN,             \* cancel_requested
     pause     : BOOLEAN,             \* pause_requested
     owner     : Names \cup {None},
     epoch     : 0..MaxEpoch,
     live      : BOOLEAN,             \* lease_expires_at > now
     requested : 0..Book,             \* requested_chapters
     completed : SUBSET Chapters,
     failed    : SUBSET Chapters,
     paused    : SUBSET Chapters,
     condemned : BOOLEAN]             \* history: failed by a call that had lost the row

WorkerType ==
    [phase   : {"idle", "cancelling", "pausing", "recovering", "replaying",
                "crediting", "starting", "planning", "looping", "writing",
                "preparing", "repairing", "admitting", "rejecting", "concluding",
                "finishing", "reporting", "failing", "raising", "condemning"},
     task    : Tasks \cup {NoTask},
     epoch   : 0..MaxEpoch,
     beating : BOOLEAN,               \* the heartbeat thread is alive
     seen    : SUBSET Chapters,       \* completed chapters in the claimed copy
     resume  : 0..(Book + 1),         \* resume_from_chapter
     todo    : SUBSET Chapters,       \* the workset left
     at      : 0..Book,               \* the chapter in progress
     draft   : 0..MaxDrafts,          \* its candidate
     done    : SUBSET Chapters,       \* completed_chapters of the run
     failed  : SUBSET Chapters,
     paused  : SUBSET Chapters,
     result  : Terminal \cup {None}]  \* the status of the RunResult

\* Every variable has its type.
TypeOK ==
    /\ task \in [Tasks -> TaskType]
    /\ worker \in [Workers -> WorkerType]
    /\ chapter \in [Chapters -> {"planned", "failed", "needs_review", "accepted"}]
    /\ candidate \in [Chapters -> Seq({"reviewed", "ready", "failed", "accepted"})]
    /\ \A c \in Chapters : Len(candidate[c]) <= MaxDrafts
    /\ wrote \in [Tasks -> SUBSET Chapters]
    /\ overrun \in [Tasks -> 0..Book]

Idle == [phase |-> "idle", task |-> NoTask, epoch |-> 0, beating |-> FALSE,
         seen |-> {}, resume |-> 0, todo |-> {}, at |-> 0, draft |-> 0,
         done |-> {}, failed |-> {}, paused |-> {}, result |-> None]

Init ==
    /\ task = [t \in Tasks |->
                 [status |-> "absent", deleted |-> FALSE, cancel |-> FALSE,
                  pause |-> FALSE, owner |-> None, epoch |-> 0, live |-> FALSE,
                  requested |-> 0, completed |-> {}, failed |-> {}, paused |-> {},
                  condemned |-> FALSE]]
    /\ worker = [w \in Workers |-> Idle]
    /\ chapter = [c \in Chapters |-> "planned"]
    /\ candidate = [c \in Chapters |-> <<>>]
    /\ wrote = [t \in Tasks |-> {}]
    /\ overrun = [t \in Tasks |-> 0]

-----------------------------------------------------------------------------
(* The rows *)

\* has_active and the partial unique index: neither deleted nor terminal.
Active(t) == ~task[t].deleted /\ task[t].status \notin Terminal \cup {"absent"}

\* Mutation: the fence compares the owner only.
OwnsRowByName(w) == task[worker[w].task].owner = Name[w]

OwnsRow(w) ==
    LET row == task[worker[w].task]
    IN  row.owner = Name[w] /\ row.epoch = worker[w].epoch

\* _require_task_lease, and the guard of a Canon commit.
Holds(w) == OwnsRow(w) /\ task[worker[w].task].live

\* _task_flag: a worker that lost its lease reads TRUE for either flag.
AbortRequested(w) == ~Holds(w) \/ task[worker[w].task].cancel
PauseRequested(w) == ~Holds(w) \/ task[worker[w].task].pause

\* The unique index lets no row turn active beside another active one.
IndexAllows(t, status) ==
    \/ status \in Terminal
    \/ task[t].deleted \/ task[t].status \notin Terminal
    \/ \A s \in Tasks \ {t} : ~Active(s)

\* An update with the chapter lists of a run; completed chapters accumulate.
Stamped(row, call, status) ==
    [row EXCEPT !.status = status, !.completed = @ \cup call.done,
                !.failed = call.failed, !.paused = call.paused]

\* A fenced update with the lists; where the fence or the index refuses it the
\* callback's error is swallowed (_emit_progress).
Progress(w, call, status) ==
    LET t == worker[w].task
    IN  task' = IF Holds(w) /\ IndexAllows(t, status)
                THEN [task EXCEPT ![t] = Stamped(@, call, status)]
                ELSE task

Become(w, call) == worker' = [worker EXCEPT ![w] = call]

At(w, phase) == worker[w].phase = phase

\* The unaccepted chapters from `from` on, at most `limit` of them (0: all).
Workset(from, limit) ==
    LET pending == {c \in Chapters : c >= from /\ chapter[c] # "accepted"}
    IN  {c \in pending : limit = 0 \/ Cardinality({d \in pending : d < c}) < limit}

\* A chapter waiting for review blocks every run.
ReviewPending == \E c \in Chapters : chapter[c] = "needs_review"

\* generation_task_resume_from_chapter.
ResumeFrom(row) ==
    IF row.failed # {} THEN Min(row.failed)
    ELSE IF row.paused # {} THEN Min(row.paused)
    ELSE Max(row.completed \cup {0}) + 1

\* _remaining_max_chapters.
Remaining(seen) ==
    IF MaxChapters = 0 THEN 0 ELSE Max({1, MaxChapters - Cardinality(seen)})

\* Mutation: the stage is taken for the status.
ResultStage(call) ==
    IF call.paused # {} THEN "paused_for_review" ELSE "completed"

\* RunResult.status where neither paused nor cancelled is set.
ResultStatus(call) ==
    IF call.paused # {} THEN "needs_review"
    ELSE IF call.failed = {} THEN "completed"
    ELSE IF call.done = {} THEN "failed" ELSE "partial_failed"

\* The run returns: the pipeline's last progress, if any, is already written.
Returned(call, result) ==
    [call EXCEPT !.phase = "finishing", !.result = result, !.todo = {}, !.at = 0, !.draft = 0]

ReturnPaused(w, call) ==
    Progress(w, call, "paused") /\ Become(w, Returned(call, "paused"))

ReturnCancelled(w, call) ==
    Progress(w, call, "cancelled") /\ Become(w, Returned(call, "cancelled"))

\* The candidate in canon, 0 for none.
Canon(c) ==
    LET accepted == {k \in 1..Len(candidate[c]) : candidate[c][k] = "accepted"}
    IN  IF accepted = {} THEN 0 ELSE CHOOSE k \in accepted : TRUE

-----------------------------------------------------------------------------
(* The HTTP API, under a lock on the row *)

\* Enqueue (API, scheduler or auto-continue): the project has no active task,
\* no chapter waits for review, and there is a chapter to write.
Enqueue(t) ==
    /\ task[t].status = "absent"
    /\ \A s \in Tasks : ~Active(s) /\ (s < t => task[s].status # "absent")
    /\ ~ReviewPending
    /\ Workset(1, MaxChapters) # {}
    /\ task' = [task EXCEPT ![t].status = "queued",
                            ![t].requested = Cardinality(Workset(1, MaxChapters))]
    /\ UNCHANGED <<worker, chapter, candidate, wrote, overrun>>

Terminate(t) ==
    /\ Active(t) /\ ~task[t].cancel
    /\ task' = [task EXCEPT ![t].cancel = TRUE,
                            ![t].status = IF @ = "queued" THEN "cancelled" ELSE "terminating"]
    /\ UNCHANGED <<worker, chapter, candidate, wrote, overrun>>

\* A running row is given a fresh lease, whether or not its worker still lives.
Pause(t) ==
    /\ Active(t) /\ ~task[t].cancel /\ ~task[t].pause
    /\ task[t].status \in {"queued", "running"}
    /\ task' = [task EXCEPT ![t].pause = TRUE,
                            ![t].status = IF @ = "queued" THEN "paused" ELSE @,
                            ![t].live = @ \/ task[t].status = "running"]
    /\ UNCHANGED <<worker, chapter, candidate, wrote, overrun>>

Delete(t) ==
    /\ task[t].status \in Terminal /\ ~task[t].deleted
    /\ task' = [task EXCEPT ![t].deleted = TRUE]
    /\ UNCHANGED <<worker, chapter, candidate, wrote, overrun>>

\* The lease of a row runs out.
Expire(t) ==
    /\ task[t].live
    /\ task' = [task EXCEPT ![t].live = FALSE]
    /\ UNCHANGED <<worker, chapter, candidate, wrote, overrun>>

-----------------------------------------------------------------------------
(* Claim and heartbeat *)

\* Mutation: an expired running row is not reclaimed.
ClaimableQueued(t) == ~task[t].deleted /\ task[t].status = "queued"

Claimable(t) ==
    /\ ~task[t].deleted
    /\ \/ task[t].status = "queued" /\ ~task[t].cancel /\ ~task[t].pause
       \/ task[t].status = "running" /\ ~task[t].live

\* execute_claimed looks at the copy of the row the claim returned.
FirstPhase(row) ==
    IF row.cancel THEN "cancelling"
    ELSE IF row.pause THEN "pausing"
    ELSE IF row.status = "running" THEN "recovering" ELSE "starting"

\* The oldest claimable row that no other transaction has locked (SKIP LOCKED);
\* the API or another worker may have any row locked at this moment.
Claim(w) ==
    /\ At(w, "idle")
    /\ \E t \in Tasks :
        /\ Claimable(t) /\ task[t].epoch < MaxEpoch
        /\ task' = [task EXCEPT ![t] =
              [task[t] EXCEPT !.status = "running", !.owner = Name[w],
                              !.epoch = task[t].epoch + 1, !.live = TRUE]]
        /\ Become(w, [Idle EXCEPT !.phase = FirstPhase(task[t]), !.task = t,
                                  !.epoch = task[t].epoch + 1, !.beating = TRUE,
                                  !.seen = task[t].completed,
                                  !.resume = ResumeFrom(task[t])])
    /\ UNCHANGED <<chapter, candidate, wrote, overrun>>

\* The heartbeat has no expiry check: it revives a lease nobody reclaimed.  It
\* gives up for good when the row is another's or is no longer "running".
Heartbeat(w) ==
    /\ worker[w].beating
    /\ IF OwnsRow(w) /\ task[worker[w].task].status = "running"
       THEN /\ task' = [task EXCEPT ![worker[w].task].live = TRUE]
            /\ UNCHANGED worker
       ELSE /\ worker' = [worker EXCEPT ![w].beating = FALSE]
            /\ UNCHANGED task
    /\ UNCHANGED <<chapter, candidate, wrote, overrun>>

\* The call is over; the process polls again, or has exited and been restarted.
Over(w) == Become(w, Idle)

\* An exception leaves execute_claimed; the heartbeat thread is stopped.
Raised(call) == [call EXCEPT !.phase = "raising", !.beating = FALSE]

-----------------------------------------------------------------------------
(* Stop requests and recovery, before a pipeline exists *)

Acknowledge(w) ==
    /\ At(w, "cancelling") \/ At(w, "pausing")
    /\ IF Holds(w)
       THEN /\ task' = [task EXCEPT ![worker[w].task].status =
                          IF At(w, "cancelling") THEN "cancelled" ELSE "paused"]
            /\ Over(w)
       ELSE /\ Become(w, Raised(worker[w]))
            /\ UNCHANGED task
    /\ UNCHANGED <<chapter, candidate, wrote, overrun>>

\* _recover_committed_chapter up to the commit: only the chapter the claim
\* resumes from is looked at, and only its latest candidate.
ReadCandidate(w) ==
    LET c == worker[w].resume
        k == IF c \in Chapters THEN Len(candidate[c]) ELSE 0
        stored == IF k = 0 THEN "reviewed" ELSE candidate[c][k]
    IN
    /\ At(w, "recovering")
    /\ Become(w,
         IF c \in worker[w].seen
         THEN [worker[w] EXCEPT !.phase = "starting", !.resume = c + 1]
         ELSE IF c \notin Chapters
         THEN [worker[w] EXCEPT !.phase = "starting"]
         ELSE IF stored \notin {"ready", "accepted"}
         THEN IF chapter[c] = "accepted" THEN Raised(worker[w])
              ELSE [worker[w] EXCEPT !.phase = "starting"]
         ELSE IF stored = "accepted" /\ chapter[c] # "accepted"
         THEN Raised(worker[w])
         ELSE [worker[w] EXCEPT !.phase = "replaying", !.at = c, !.draft = k])
    /\ UNCHANGED <<task, chapter, candidate, wrote, overrun>>

\* The previous chapter is in canon, this one is not, whatever its status says
\* (without the marker of an API retry a commit is not replaced), and the
\* candidate is ready (_revalidate_locked_plan).
Admissible(c, k) ==
    /\ c > 1 => Canon(c - 1) # 0
    /\ chapter[c] # "accepted" /\ Canon(c) = 0
    /\ candidate[c][k] = "ready"

\* The transaction of commit_plan takes effect.
EnterCanon(w, c, k) ==
    LET t == worker[w].task
    IN  /\ candidate' = [candidate EXCEPT ![c][k] = "accepted"]
        /\ chapter' = [chapter EXCEPT ![c] = "accepted"]
        /\ wrote' = [wrote EXCEPT ![t] = @ \cup {c}]
        /\ overrun' = [overrun EXCEPT ![t] =
              IF (task[t].cancel \/ task[t].pause) /\ @ < Book THEN @ + 1 ELSE @]

\* Mutation: the transaction trusts the prepared plan.
CommitUnchecked(w, committed, blocked) ==
    LET c == worker[w].at
        k == worker[w].draft
    IN
    /\ IF candidate[c][k] = "ready"
       THEN EnterCanon(w, c, k) /\ Become(w, committed)
       ELSE Become(w, blocked) /\ UNCHANGED <<chapter, candidate, wrote, overrun>>
    /\ UNCHANGED task

\* commit_plan: committed, replayed from its record, rejected as stale, or failed
\* in writing.  A plan may be stale for what is not modelled here: the policy, the
\* chapter plan, the world state, the post-Canon barrier of the chapter before.
CommitPlan(w, committed, blocked) ==
    LET c == worker[w].at
        k == worker[w].draft
        replay == candidate[c][k] = "accepted"
    IN
    /\ \/ /\ Holds(w) /\ replay
          /\ Become(w, committed)
          /\ UNCHANGED <<chapter, candidate, wrote, overrun>>
       \/ /\ Holds(w) /\ ~replay /\ Admissible(c, k)
          /\ EnterCanon(w, c, k)
          /\ Become(w, committed)
       \/ /\ ~Holds(w) \/ ~replay
          /\ Become(w, blocked)
          /\ UNCHANGED <<chapter, candidate, wrote, overrun>>
       \/ /\ candidate[c][k] = "ready"
          /\ candidate' = [candidate EXCEPT ![c][k] = "failed"]
          /\ Become(w, blocked)
          /\ UNCHANGED <<chapter, wrote, overrun>>
    /\ UNCHANGED task

\* Mutation: recovery does not look at the outcome of the commit.
ReplayAnyway(w) ==
    /\ At(w, "replaying")
    /\ CommitPlan(w, [worker[w] EXCEPT !.phase = "crediting"],
                     [worker[w] EXCEPT !.phase = "crediting"])

\* Recovery commits or replays the plan the candidate carries.
Replay(w) ==
    /\ At(w, "replaying")
    /\ CommitPlan(w, [worker[w] EXCEPT !.phase = "crediting"], Raised(worker[w]))

\* _persist_recovered_chapter.
Credit(w) ==
    LET c == worker[w].at
        t == worker[w].task
    IN
    /\ At(w, "crediting")
    /\ IF Holds(w)
       THEN /\ task' = [task EXCEPT ![t] =
                 [task[t] EXCEPT !.completed = worker[w].seen \cup {c},
                                 !.failed = @ \ {c}, !.paused = @ \ {c}]]
            /\ Become(w, [worker[w] EXCEPT !.phase = "starting", !.at = 0, !.draft = 0,
                                           !.seen = @ \cup {c}, !.resume = c + 1])
       ELSE Become(w, Raised(worker[w])) /\ UNCHANGED task
    /\ UNCHANGED <<chapter, candidate, wrote, overrun>>

\* Mutation: the completed task is found one chapter too late.
StartOneMore(w) ==
    LET t == worker[w].task
    IN
    /\ At(w, "starting")
    /\ IF Cardinality(worker[w].seen) > task[t].requested
       THEN Over(w) /\ task' = [task EXCEPT ![t].status = "completed"]
       ELSE Become(w, [worker[w] EXCEPT !.phase = "planning"]) /\ UNCHANGED task
    /\ UNCHANGED <<chapter, candidate, wrote, overrun>>

\* execute_claimed without recovery work: the task is complete already, or the
\* pipeline starts and reports "running" unless it is to stop at once.
Start(w) ==
    LET t == worker[w].task
        call == [worker[w] EXCEPT !.phase = "planning"]
    IN
    /\ At(w, "starting")
    /\ IF Cardinality(worker[w].seen) >= task[t].requested
       THEN IF Holds(w)
            THEN /\ task' = [task EXCEPT ![t] =
                       [task[t] EXCEPT !.status = "completed",
                                       !.completed = @ \cup worker[w].seen]]
                 /\ Over(w)
            ELSE Become(w, Raised(worker[w])) /\ UNCHANGED task
       ELSE IF AbortRequested(w)
       THEN Become(w, call) /\ UNCHANGED task
       ELSE IF IndexAllows(t, "running")
       THEN /\ task' = [task EXCEPT ![t].status = "running"]
            /\ Become(w, call)
       ELSE Become(w, [call EXCEPT !.phase = "failing"]) /\ UNCHANGED task
    /\ UNCHANGED <<chapter, candidate, wrote, overrun>>
-----------------------------------------------------------------------------
(* The run over the chapters *)

\* continue_project up to the loop.  Its own "planning_band" report carries no
\* chapter lists.
Plan(w) ==
    LET t == worker[w].task
        todo == Workset(worker[w].resume, Remaining(worker[w].seen))
        call == [worker[w] EXCEPT !.seen = {}, !.resume = 0]
    IN
    /\ At(w, "planning")
    /\ IF ReviewPending
       THEN Become(w, [call EXCEPT !.phase = "failing"]) /\ UNCHANGED task
       ELSE IF todo = {}
       THEN Become(w, Returned(call, "completed")) /\ UNCHANGED task
       ELSE IF AbortRequested(w)
       THEN ReturnCancelled(w, call)
       ELSE /\ task' = IF IndexAllows(t, "running")
                       THEN [task EXCEPT ![t].status = "running"] ELSE task
            /\ Become(w, [call EXCEPT !.phase = "looping", !.todo = todo])
    /\ UNCHANGED <<chapter, candidate, wrote, overrun>>

\* The safe checkpoints: the top of the loop, and before a chapter is written.
Checkpoint(w) ==
    /\ \/ At(w, "looping") /\ worker[w].todo # {}
       \/ At(w, "writing")
    /\ \/ AbortRequested(w) /\ ReturnCancelled(w, worker[w])
       \/ ~AbortRequested(w) /\ PauseRequested(w) /\ ReturnPaused(w, worker[w])
    /\ UNCHANGED <<chapter, candidate, wrote, overrun>>

\* Mutation: the loop looks at the pause flag only.
PauseOnly(w) == PauseRequested(w)

StopRequested(w) == AbortRequested(w) \/ PauseRequested(w)

\* The loop ends, skips an accepted chapter, begins the next one, or finds it
\* blocked: by a world conflict or the lack of a plan ("paused_for_review"), by the
\* post-Canon recovery of the chapter before, or by a checkpoint (paused). The run
\* ends in an exception when the planning of the chapter's arc or band raises.
NextChapter(w) ==
    LET c == Min(worker[w].todo)
        call == [worker[w] EXCEPT !.todo = @ \ {c}]
        blocked == [worker[w] EXCEPT !.paused = @ \cup {c}]
    IN
    /\ At(w, "looping")
    /\ IF worker[w].todo = {}
       THEN Become(w, Returned(worker[w], ResultStatus(worker[w]))) /\ UNCHANGED task
       ELSE /\ ~StopRequested(w)
            /\ \/ /\ Progress(w, blocked, "needs_review")
                  /\ Become(w, Returned(blocked, ResultStatus(blocked)))
               \/ /\ c > 1 \/ chapter[c] # "accepted"
                  /\ ReturnPaused(w, blocked)
               \/ /\ Become(w, [worker[w] EXCEPT !.phase = "failing"])
                  /\ UNCHANGED task
               \/ chapter[c] = "accepted" /\ Become(w, call) /\ UNCHANGED task
               \/ /\ chapter[c] # "accepted"
                  /\ Progress(w, call, "running")
                  /\ Become(w, [call EXCEPT !.phase = "writing", !.at = c])
    /\ UNCHANGED <<chapter, candidate, wrote, overrun>>

\* The draft is written, reviewed and recorded as a new candidate; only a pause
\* is checked then.
Write(w) ==
    LET c == worker[w].at
    IN
    /\ At(w, "writing")
    /\ Len(candidate[c]) < MaxDrafts
    /\ candidate' = [candidate EXCEPT ![c] = Append(@, "reviewed")]
    /\ IF PauseRequested(w)
       THEN ReturnPaused(w, worker[w])
       ELSE /\ Progress(w, worker[w], "running")
            /\ Become(w, [worker[w] EXCEPT !.phase = "preparing",
                                           !.draft = Len(candidate[c]) + 1])
    /\ UNCHANGED <<chapter, wrote, overrun>>

\* mark_chapter_status: no fence and no look at the status it overwrites.
MarkChapter(c, status) == chapter' = [chapter EXCEPT ![c] = status]

\* The hard floor fails the chapter, or the review gate holds it back.
GateStops(w) ==
    LET c == worker[w].at
        floor == [worker[w] EXCEPT !.failed = @ \cup {c}]
        gate == [worker[w] EXCEPT !.paused = @ \cup {c}]
    IN
    /\ At(w, "preparing")
    /\ \/ /\ MarkChapter(c, "failed")
          /\ Become(w, Returned(floor, ResultStatus(floor)))
          /\ UNCHANGED task
       \/ /\ MarkChapter(c, "needs_review")
          /\ Progress(w, gate, "needs_review")
          /\ Become(w, Returned(gate, ResultStatus(gate)))
    /\ UNCHANGED <<candidate, wrote, overrun>>

\* A conflict of the chapter or an infeasible plan pauses it, its status untouched.
ChapterBlocked(w) ==
    LET call == [worker[w] EXCEPT !.paused = @ \cup {worker[w].at}]
    IN
    /\ At(w, "writing") \/ At(w, "preparing")
    /\ Progress(w, call, "needs_review")
    /\ Become(w, Returned(call, ResultStatus(call)))
    /\ UNCHANGED <<chapter, candidate, wrote, overrun>>

\* CanonPreparationService.prepare takes the latest candidate of the chapter and
\* raises when that is another's (ChapterFails); it readies the plan or blocks,
\* and some blocks may be repaired.
Prepare(w) ==
    LET c == worker[w].at
        k == worker[w].draft
    IN
    /\ At(w, "preparing")
    /\ k = Len(candidate[c])
    /\ Progress(w, worker[w], "running")
    /\ \/ /\ candidate[c][k] = "reviewed"
          /\ candidate' = [candidate EXCEPT ![c][k] = "ready"]
          /\ Become(w, [worker[w] EXCEPT !.phase = "admitting"])
       \/ /\ \E phase \in {"repairing", "rejecting"} :
                Become(w, [worker[w] EXCEPT !.phase = phase])
          /\ UNCHANGED candidate
    /\ UNCHANGED <<chapter, wrote, overrun>>

\* A repair records a new candidate, which is prepared in its turn unless its
\* review fails again.
Repair(w) ==
    LET c == worker[w].at
    IN
    /\ At(w, "repairing")
    /\ Len(candidate[c]) < MaxDrafts
    /\ candidate' = [candidate EXCEPT ![c] = Append(@, "reviewed")]
    /\ \E phase \in {"preparing", "rejecting"} :
          Become(w, [worker[w] EXCEPT !.phase = phase, !.draft = Len(candidate[c]) + 1])
    /\ UNCHANGED <<task, chapter, wrote, overrun>>

Admit(w) ==
    /\ At(w, "admitting")
    /\ CommitPlan(w, [worker[w] EXCEPT !.phase = "concluding"],
                     [worker[w] EXCEPT !.phase = "rejecting"])

\* Whatever blocked the commit, the chapter is sent to review.
Reject(w) ==
    LET call == [worker[w] EXCEPT !.paused = @ \cup {worker[w].at}]
    IN
    /\ At(w, "rejecting")
    /\ MarkChapter(worker[w].at, "needs_review")
    /\ Progress(w, call, "needs_review")
    /\ Become(w, Returned(call, ResultStatus(call)))
    /\ UNCHANGED <<candidate, wrote, overrun>>

\* After the commit: a pause returns without counting the chapter; then the
\* post-acceptance work runs, which may pause the run, and the next one starts.
Conclude(w) ==
    LET c == worker[w].at
        call == [worker[w] EXCEPT !.done = @ \cup {c}]
    IN
    /\ At(w, "concluding")
    /\ \/ PauseRequested(w) /\ (ReturnPaused(w, worker[w]) \/ ReturnPaused(w, call))
       \/ ReturnPaused(w, [call EXCEPT !.paused = @ \cup {c}])
       \/ /\ ~PauseRequested(w)
          /\ Progress(w, call, "running")
          /\ Become(w, [call EXCEPT !.phase = "looping", !.at = 0, !.draft = 0])
    /\ UNCHANGED <<chapter, candidate, wrote, overrun>>

\* An exception while a chapter is in progress: an accepted chapter stays so and
\* its post-acceptance work is deferred, any other is marked failed.
ChapterFails(w) ==
    LET c == worker[w].at
        deferred == [worker[w] EXCEPT !.done = @ \cup {c}, !.paused = @ \cup {c}]
        failed == [worker[w] EXCEPT !.failed = @ \cup {c}]
    IN
    /\ \E phase \in {"writing", "preparing", "repairing", "concluding"} : At(w, phase)
    /\ IF chapter[c] = "accepted"
       THEN ReturnPaused(w, deferred) /\ UNCHANGED chapter
       ELSE /\ MarkChapter(c, "failed")
            /\ Progress(w, failed, "running")
            /\ Become(w, Returned(failed, ResultStatus(failed)))
    /\ UNCHANGED <<candidate, wrote, overrun>>

-----------------------------------------------------------------------------
(* The end of the call *)

\* execute_pipeline_task writes the result, fenced.
Finish(w) ==
    /\ At(w, "finishing")
    /\ Progress(w, worker[w], worker[w].result)
    /\ Become(w, [worker[w] EXCEPT !.phase = IF Holds(w) THEN "reporting" ELSE "failing"])
    /\ UNCHANGED <<chapter, candidate, wrote, overrun>>

\* A second fenced update repeats the status with a message; if it is refused,
\* the call that has just succeeded counts as failed.
Report(w) ==
    /\ At(w, "reporting")
    /\ IF Holds(w) THEN Over(w) ELSE Become(w, [worker[w] EXCEPT !.phase = "failing"])
    /\ UNCHANGED <<task, chapter, candidate, wrote, overrun>>

\* execute_pipeline_task's exception handler.
Fail(w) ==
    /\ At(w, "failing")
    /\ IF Holds(w)
       THEN task' = [task EXCEPT ![worker[w].task].status = "failed"] /\ Over(w)
       ELSE Become(w, Raised(worker[w])) /\ UNCHANGED task
    /\ UNCHANGED <<chapter, candidate, wrote, overrun>>

\* run_one_generation_task's exception handler reads the row without a lock ...
Raise(w) ==
    /\ At(w, "raising")
    /\ IF OwnsRow(w) THEN Become(w, [worker[w] EXCEPT !.phase = "condemning"]) ELSE Over(w)
    /\ UNCHANGED <<task, chapter, candidate, wrote, overrun>>

\* ... and writes it, whoever claimed it in between.
Condemn(w) ==
    /\ At(w, "condemning")
    /\ task' = [task EXCEPT ![worker[w].task].status = "failed",
                            ![worker[w].task].condemned = @ \/ ~OwnsRow(w)]
    /\ Over(w)
    /\ UNCHANGED <<chapter, candidate, wrote, overrun>>

Crash(w) ==
    /\ worker[w].phase # "idle"
    /\ Over(w)
    /\ UNCHANGED <<task, chapter, candidate, wrote, overrun>>

-----------------------------------------------------------------------------
Run(w) ==
    \/ Acknowledge(w) \/ ReadCandidate(w) \/ Replay(w) \/ Credit(w) \/ Start(w)
    \/ Plan(w) \/ Checkpoint(w) \/ NextChapter(w)
    \/ Write(w) \/ GateStops(w) \/ ChapterBlocked(w) \/ Prepare(w) \/ Repair(w)
    \/ Admit(w) \/ Reject(w)
    \/ Conclude(w) \/ ChapterFails(w)
    \/ Finish(w) \/ Report(w) \/ Fail(w) \/ Raise(w) \/ Condemn(w)

Next ==
    \/ \E t \in Tasks :
          Enqueue(t) \/ Terminate(t) \/ Pause(t) \/ Delete(t) \/ Expire(t)
    \/ \E w \in Workers : Claim(w) \/ Heartbeat(w) \/ Run(w) \/ Crash(w)

Spec == Init /\ [][Next]_vars

\* A lease that no heartbeat renews runs out; calls end (LLM requests have
\* timeouts); the services restart their workers, which poll for ever.
Unrenewed(t) == \A w \in Workers : worker[w].beating => worker[w].task # t

Fairness ==
    /\ \A t \in Tasks : WF_vars(Unrenewed(t) /\ Expire(t))
    /\ \A w \in Workers : WF_vars(Claim(w)) /\ WF_vars(Run(w))

FairSpec == Spec /\ Fairness

-----------------------------------------------------------------------------
(* Properties *)

InCall(w, t) == ~At(w, "idle") /\ worker[w].task = t

\* However leases lapse and are revived, and whatever ids the workers carry, at
\* most one worker passes the fence of a task at any moment: the updates, the
\* flags and the Canon guard of two workers never both believe in their claim.
OneHolder ==
    \A t \in Tasks, v, w \in Workers :
        InCall(v, t) /\ InCall(w, t) /\ OwnsRow(v) /\ OwnsRow(w) => v = w

\* No crash, lost lease, replay or deferred work credits a task with a chapter
\* that has no Canon commit: progress never runs ahead of canon.
CreditedIsCanon ==
    /\ \A t \in Tasks : \A c \in task[t].completed : Canon(c) # 0
    /\ \A w \in Workers : \A c \in worker[w].done : Canon(c) # 0

\* After a cancel or pause request at most the chapter in progress still enters
\* canon, over all the claims, crashes and recoveries that follow.
StopsSoon == \A t \in Tasks : overrun[t] <= 1

\* A task never writes more chapters into canon than it was asked for, however
\* often it is reclaimed and its remaining quota recomputed.  Condemn is excepted:
\* it can end a row behind its new holder's back and so let a second task into the
\* project, whose prepared chapters the first one's recovery then commits.
WithinRequest ==
    (\A t \in Tasks : ~task[t].condemned) =>
        \A t \in Tasks : Cardinality(wrote[t]) <= task[t].requested

Ledger == INSTANCE CanonLedger
    WITH Candidates <- 1..MaxDrafts, canon <- [c \in Chapters |-> Canon(c)]

\* Chapters enter canon in order and once each, no second admission after a
\* crash or by a second worker: every step is a CanonLedger step.
AdmitsOnceInOrder == Ledger!Spec

Settled(t) == task[t].status \in Terminal \cup {"terminating"} \/ task[t].deleted

\* A running task is never stranded: its worker ends it, or its lease runs out
\* and another claim does, unless its claims are used up.
RunningSettles ==
    \A t \in Tasks :
        task[t].status = "running" ~> Settled(t) \/ task[t].epoch = MaxEpoch

-----------------------------------------------------------------------------
(* What the documents say and the code does not keep *)

\* "An expired pause/cancel request reaches a terminal status without LLM or
\* pipeline work" (2026-07-19-generation-task-single-truth-design.md): a task
\* whose termination was requested ends.  A worker that crashes while the row is
\* "terminating" leaves it so: no claim takes that status.
CancelSettles ==
    \A t \in Tasks :
        task[t].cancel ~> task[t].status \in Terminal \/ task[t].epoch = MaxEpoch
=============================================================================
