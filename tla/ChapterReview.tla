---------------------------- MODULE ChapterReview ----------------------------
(***************************************************************************)
(* The chapters of one project between a draft and canon: the generation   *)
(* run that writes, judges and admits them, people who approve, retry and  *)
(* ask for a rewrite at any time, and the follow-up of each: the next      *)
(* task, or one automatic retry of a chapter that was sent to review.      *)
(*                                                                         *)
(* A chapter takes minutes of model calls; every step below is one         *)
(* transaction, so what an actor read at its start may be old when it      *)
(* writes.  Admission alone reads again what it needs, under row locks.    *)
(***************************************************************************)
EXTENDS Naturals, FiniteSets, Sequences

CONSTANTS Book,       \* the last chapter
          MaxVersions,\* bound: how many drafts of each chapter are written
          Workers,    \* generation workers
          Approvers   \* approve requests, handled once each

ASSUME BoundAssumption == /\ Book \in Nat \ {0}
                          /\ MaxVersions \in [1..Book -> Nat \ {0}]
ASSUME ActorAssumption == /\ IsFiniteSet(Workers) /\ IsFiniteSet(Approvers)
                          /\ Workers \cap Approvers = {}

VARIABLES plan,       \* ChapterPlan.status
          version,    \* CandidateDraftRecord, by version, with its commit record
          asked,      \* markers of rewrites that are pending
          retried,    \* automatic retries of a chapter on record
          task,       \* the project's active generation task
          worker,     \* each worker's run and its completion handler
          approver    \* each approve request

rows == <<plan, version, asked>>
vars == <<plan, version, asked, retried, task, worker, approver>>

Chapters == 1..Book

-----------------------------------------------------------------------------
(* Rows                                                                     *)

PlanStatus == {"planned", "drafted", "needs_review", "accepted", "failed"}

\* "committing" is inside a transaction; drafts are stored as reviewed.
CandidateStatus == {"reviewed", "ready_for_canon", "needs_review", "failed", "accepted"}

\* What of a CanonCommitPlan two preparations may differ in: the acceptance mode
\* and the last accepted chapter it was prepared on.
CommitPlan == [by : {"run", "human"}, base : 0..Book]
NoPlan == [by |-> "none", base |-> 0]

Candidate == [status : CandidateStatus,
              plan   : CommitPlan \cup {NoPlan},     \* canon_commit_plan_json
              record : {"none", "committed", "superseded"}]

\* previous: the version to replace; after: how many there were.
Marker == [previous : Nat, after : Nat]

\* A worker: where it is, the chapters left, the one it is at, its commit plan,
\* and how the run ended.
Idle == [at |-> "idle", todo |-> {}, chapter |-> 0, plan |-> NoPlan, result |-> "none"]

\* An approver: the chapter and version it opened, the plan and the statuses it
\* keeps from then, and whether to continue generation afterwards.
Free == [at |-> "free", chapter |-> 0, version |-> 0, plan |-> NoPlan,
         seen |-> "none", kept |-> "none", continue |-> FALSE]
Answered == [Free EXCEPT !.at = "answered"]

Init == /\ plan = [c \in Chapters |-> "planned"]
        /\ version = [c \in Chapters |-> << >>]
        /\ asked = [c \in Chapters |-> {}]
        /\ retried = [c \in Chapters |-> 0]
        /\ task = "none"
        /\ worker = [w \in Workers |-> Idle]
        /\ approver = [a \in Approvers |-> Free]

Latest(c) == Len(version[c])

InCanon(c) == {v \in DOMAIN version[c] : version[c][v].record = "committed"}

\* The highest accepted chapter below c.
Base(c) == LET accepted == {d \in 1..(c - 1) : plan[d] = "accepted"}
           IN IF accepted = {} THEN 0
              ELSE CHOOSE d \in accepted : \A e \in accepted : e <= d

\* The chapters of a run: none while one waits for review or acceptance.
Workset == IF \E c \in Chapters : plan[c] \in {"needs_review", "drafted"} THEN {}
           ELSE {c \in Chapters : plan[c] # "accepted"}

SetPlan(c, status) == plan' = [plan EXCEPT ![c] = status]
SetCandidate(c, v, status) == version' = [version EXCEPT ![c][v].status = status]

-----------------------------------------------------------------------------
(* Admission                                                                *)

\* Mutation: chapters after the one replaced are not looked at.
ReplaceUnderSuccessors(c, v) ==
    \/ InCanon(c) = {}
    \/ /\ v \notin InCanon(c) /\ Cardinality(InCanon(c)) = 1
       /\ \E m \in asked[c] : asked[c] = {m} /\ m.previous \in InCanon(c)

\* prepare_replacement: a chapter without text, or exactly one pending marker
\* for the text it has, and every chapter in canon after it accepted.
MayReplace(c, v) ==
    \/ InCanon(c) = {}
    \/ /\ v \notin InCanon(c) /\ Cardinality(InCanon(c)) = 1
       /\ \A d \in Chapters : d > c /\ InCanon(d) # {} => plan[d] = "accepted"
       /\ \E m \in asked[c] : asked[c] = {m} /\ m.previous \in InCanon(c)

\* The predecessor in canon, and what is checked again under the locks.  Policy,
\* plan revision, lease and barrier may refuse too: see Refuse.
Revalidates(c, v, p) ==
    /\ c > 1 => InCanon(c - 1) # {}
    /\ MayReplace(c, v)
    /\ plan[c] # "accepted"
    /\ version[c][v].status = "ready_for_canon"
    /\ version[c][v].plan = p
    /\ p.base = Base(c)

Committed(c, v) ==
    [u \in DOMAIN version[c] |->
        IF u = v THEN [version[c][u] EXCEPT !.status = "accepted", !.record = "committed"]
        ELSE IF u \in InCanon(c) THEN [version[c][u] EXCEPT !.record = "superseded"]
        ELSE version[c][u]]

\* Mutation: the marker keeps without its replacement.
AdmitKeepsMarker(c, v, p) ==
    \/ version[c][v].record = "committed" /\ UNCHANGED rows
    \/ /\ version[c][v].record = "none" /\ Revalidates(c, v, p)
       /\ SetPlan(c, "accepted")
       /\ version' = [version EXCEPT ![c] = Committed(c, v)]
       /\ UNCHANGED asked

\* commit_plan succeeds: the same answer for a commit that was made, else the
\* chapter, its candidate, the old record, the marker and the record together.
Admit(c, v, p) ==
    \/ version[c][v].record = "committed" /\ UNCHANGED rows
    \/ /\ version[c][v].record = "none" /\ Revalidates(c, v, p)
       /\ SetPlan(c, "accepted")
       /\ version' = [version EXCEPT ![c] = Committed(c, v)]
       /\ asked' = [asked EXCEPT ![c] = {}]

\* It refuses a stale plan, or fails to write one: then the candidate has failed.
Refuse(c, v, p) ==
    /\ version[c][v].record # "committed"
    /\ \/ UNCHANGED version
       \/ /\ version[c][v].record = "none" /\ Revalidates(c, v, p)
          /\ SetCandidate(c, v, "failed")
    /\ UNCHANGED <<plan, asked>>

-----------------------------------------------------------------------------
(* The follow-up task and the automatic retry                               *)

\* The one active task of a project is a unique index: a second one is refused.
Enqueue == task' = IF task = "none" THEN "queued" ELSE task

\* Mutation: the retries on record are not counted.
MayAlwaysRetry(c) == plan[c] = "needs_review"

MayAutoRetry(c) == plan[c] = "needs_review" /\ retried[c] = 0

\* The reset of a chapter that was read as needing review.
AutoRetry(c) == /\ SetPlan(c, "planned")
                /\ retried' = [retried EXCEPT ![c] = @ + 1]
                /\ UNCHANGED <<version, asked>>

-----------------------------------------------------------------------------
(* A generation run                                                         *)

Move(w, place) == worker' = [worker EXCEPT ![w].at = place]

\* The chapter of a run, and the version it wrote: no one else writes one.
At(w) == worker[w].chapter
Own(w) == Latest(At(w))

\* The run is over: clean, stopped, or paused at a chapter.  The task and its
\* completion handler go by that.
Over(w, c, result) ==
    worker' = [worker EXCEPT ![w] = [Idle EXCEPT !.at = "ending", !.result = result,
                                        !.chapter = IF result = "paused" THEN c ELSE 0]]

\* The run fails at once while a chapter waits for review.
Begin(w) ==
    /\ worker[w].at = "idle" /\ task = "queued"
    /\ \/ /\ \A c \in Chapters : plan[c] # "needs_review"
          /\ \E last \in Workset \cup {Book} :
                worker' = [worker EXCEPT ![w].at = "next",
                                         ![w].todo = {c \in Workset : c <= last}]
          /\ task' = "running"
       \/ /\ \E c \in Chapters : plan[c] = "needs_review"
          /\ task' = "none"
          /\ UNCHANGED worker
    /\ UNCHANGED <<rows, retried, approver>>

\* The commit before c whose maintenance the run is to finish first has lost
\* the acceptance of its candidate.
Disowned(c) ==
    \E d \in 1..(c - 1) : \E v \in InCanon(d) :
        /\ \A e \in (d + 1)..(c - 1) : InCanon(e) = {}
        /\ version[d][v].status # "accepted"

\* The next chapter: with the chapter before it accepted it is written, unless
\* maintenance, a conflict, a checkpoint or a user's pause stops the run.
NextChapter(w) ==
    /\ worker[w].at = "next"
    /\ IF worker[w].todo = {} THEN Over(w, 0, "clean")
       ELSE LET c == CHOOSE d \in worker[w].todo : \A e \in worker[w].todo : d <= e IN
            \/ Over(w, c, "paused")
            \/ /\ plan[c] = "accepted" /\ ~Disowned(c)
               /\ worker' = [worker EXCEPT ![w].todo = @ \ {c}]
            \/ /\ plan[c] # "accepted" /\ ~Disowned(c)
               /\ c > 1 => plan[c - 1] = "accepted"
               /\ worker' = [worker EXCEPT ![w].at = "writing", ![w].chapter = c,
                                           ![w].todo = @ \ {c}]
    /\ UNCHANGED <<rows, retried, task, approver>>

NewVersion(c) == /\ Latest(c) < MaxVersions[c]
                 /\ version' = [version EXCEPT ![c] =
                        Append(@, [status |-> "reviewed", plan |-> NoPlan,
                                   record |-> "none"])]

\* Draft, review and candidate are stored, and the chapter is drafted, whatever
\* has become of it.
Write(w) ==
    /\ worker[w].at = "writing"
    /\ NewVersion(At(w))
    /\ SetPlan(At(w), "drafted")
    /\ Move(w, "judging")
    /\ UNCHANGED <<asked, retried, task, approver>>

\* A repaired draft is another version. The session keeps the chapter as
\* drafted, so that its plan is not written again.
Repair(w) ==
    /\ worker[w].at \in {"judging", "repairing"}
    /\ NewVersion(At(w))
    /\ Move(w, IF worker[w].at = "repairing" THEN "preparing" ELSE "judging")
    /\ UNCHANGED <<plan, asked, retried, task, approver>>

\* The hard floor fails the chapter; a gate sends it to review or lets it pass.
Judge(w) ==
    /\ worker[w].at = "judging"
    /\ \/ SetPlan(At(w), "failed") /\ Over(w, At(w), "stopped")
       \/ SetPlan(At(w), "needs_review") /\ Over(w, At(w), "paused")
       \/ Move(w, "preparing") /\ UNCHANGED plan
    /\ UNCHANGED <<version, asked, retried, task, approver>>

\* The session keeps the candidate as it wrote it, reviewed, and so writes the
\* new status over whatever is there.
PrepareRun(w) ==
    LET c == At(w)
        p == [by |-> "run", base |-> Base(c)]
    IN /\ worker[w].at = "preparing"
       /\ \/ /\ version' = [version EXCEPT ![c][Own(w)].plan = p,
                                           ![c][Own(w)].status = "ready_for_canon"]
             /\ worker' = [worker EXCEPT ![w].at = "committing", ![w].plan = p]
             /\ UNCHANGED plan
          \/ /\ SetCandidate(c, Own(w), "needs_review")
             /\ Move(w, "repairing")
             /\ UNCHANGED plan
          \/ /\ \E s \in {"needs_review", "failed"} : SetCandidate(c, Own(w), s)
             /\ SetPlan(c, "needs_review")
             /\ Over(w, c, "paused")
       /\ UNCHANGED <<asked, retried, task, approver>>

\* The repair of a blocked candidate does not pass either.
RepairFails(w) ==
    /\ worker[w].at = "repairing"
    /\ SetPlan(At(w), "needs_review")
    /\ Over(w, At(w), "paused")
    /\ UNCHANGED <<version, asked, retried, task, approver>>

CommitRun(w) ==
    /\ worker[w].at = "committing"
    /\ \/ /\ Admit(At(w), Own(w), worker[w].plan)
          /\ worker' = [worker EXCEPT ![w].at = "committed", ![w].plan = NoPlan]
       \/ /\ Refuse(At(w), Own(w), worker[w].plan)
          /\ worker' = [worker EXCEPT ![w].at = "refused", ![w].plan = NoPlan]
    /\ UNCHANGED <<retried, task, approver>>

\* After maintenance the run goes on, or a checkpoint stops it: then the chapter
\* is completed and paused at once, which the handler takes for completed.
FinishChapter(w) ==
    /\ worker[w].at = "committed"
    /\ \/ worker' = [worker EXCEPT ![w].at = "next", ![w].chapter = 0]
       \/ Over(w, At(w), "clean")
    /\ UNCHANGED <<rows, retried, task, approver>>

\* A refused chapter goes to review, in a transaction of its own and without a
\* look at what it is by now.
DemoteRun(w) ==
    /\ worker[w].at = "refused"
    /\ SetPlan(At(w), "needs_review")
    /\ Over(w, At(w), "paused")
    /\ UNCHANGED <<version, asked, retried, task, approver>>

\* An exception: an accepted chapter stays so, and is deferred; any other failed.
RunRaises(w) ==
    /\ worker[w].at \in {"writing", "judging", "preparing", "repairing", "committed"}
    /\ IF plan[At(w)] = "accepted" THEN UNCHANGED plan /\ Over(w, At(w), "clean")
       ELSE SetPlan(At(w), "failed") /\ Over(w, At(w), "stopped")
    /\ UNCHANGED <<version, asked, retried, task, approver>>

\* A user's pause or cancellation, or a conflict with the world, leaves the
\* chapter as it is: a draft may wait for acceptance.
RunStops(w) ==
    /\ worker[w].at \in {"writing", "judging", "committed"}
    /\ \/ Over(w, At(w), "stopped")
       \/ worker[w].at # "committed" /\ Over(w, At(w), "paused")
    /\ UNCHANGED <<rows, retried, task, approver>>

\* The task ends before its completion handler runs.
EndTask(w) ==
    /\ worker[w].at = "ending"
    /\ task' = "none"
    /\ Move(w, "deciding")
    /\ UNCHANGED <<rows, retried, approver>>

Rest(w) == worker' = [worker EXCEPT ![w] = Idle]

\* after_task_completion: stops, retries the paused chapter, or goes on. The
\* retry reads the chapter here and resets it next.
Decide(w) ==
    /\ worker[w].at = "deciding"
    /\ \/ Rest(w)
       \/ /\ worker[w].result = "paused" /\ MayAutoRetry(At(w))
          /\ Move(w, "retrying")
       \/ /\ worker[w].result = "clean" /\ plan[Book] # "accepted" /\ Workset # {}
          /\ worker' = [worker EXCEPT ![w].at = "enqueueing", ![w].chapter = 0]
    /\ UNCHANGED <<rows, retried, task, approver>>

RetryRun(w) ==
    /\ worker[w].at = "retrying"
    /\ AutoRetry(At(w))
    /\ IF \E c \in Chapters \ {At(w)} : plan[c] \in {"needs_review", "drafted"} THEN Rest(w)
       ELSE worker' = [worker EXCEPT ![w].at = "enqueueing", ![w].chapter = 0]
    /\ UNCHANGED <<task, approver>>

EnqueueRun(w) ==
    /\ worker[w].at = "enqueueing"
    /\ Enqueue
    /\ Rest(w)
    /\ UNCHANGED <<rows, retried, approver>>

WorkerStep(w) == \/ Begin(w) \/ NextChapter(w) \/ Write(w) \/ Repair(w) \/ Judge(w)
                 \/ PrepareRun(w) \/ RepairFails(w) \/ CommitRun(w) \/ FinishChapter(w)
                 \/ DemoteRun(w) \/ RunRaises(w) \/ RunStops(w) \/ EndTask(w) \/ Decide(w)
                 \/ RetryRun(w) \/ EnqueueRun(w)

-----------------------------------------------------------------------------
(* An approval                                                              *)

Turn(a, place) == approver' = [approver EXCEPT ![a].at = place]
Leave(a) == approver' = [approver EXCEPT ![a] = Answered]

Opened(a) == approver[a].chapter

\* One that is to continue generation afterwards needs the task slot free.
Open(a, c) ==
    /\ approver[a].at = "free"
    /\ plan[c] \in {"drafted", "needs_review"} /\ version[c] # << >>
    /\ version[c][Latest(c)].status # "failed"
    /\ \E continue \in BOOLEAN :
          /\ continue => task = "none"
          /\ approver' = [approver EXCEPT ![a] =
                 [at |-> "preparing", chapter |-> c, version |-> Latest(c), plan |-> NoPlan,
                  seen |-> plan[c], kept |-> version[c][Latest(c)].status,
                  continue |-> continue]]
    /\ UNCHANGED <<rows, retried, task, worker>>

\* What is done after an answer: a blocked chapter may be retried, an accepted
\* one be followed by the next task.
AnsweredAs(a, continue, next) ==
    IF continue THEN approver' = [approver EXCEPT ![a] =
            [Free EXCEPT !.at = next, !.chapter = Opened(a), !.continue = TRUE]]
    ELSE Leave(a)

\* The session compares with the statuses it kept: what it believes to be there
\* it does not write.  A candidate it knows as accepted or failed stays.
PrepareApproval(a) ==
    LET c == Opened(a)
        v == approver[a].version
        p == [by |-> "human", base |-> Base(c)]
        kept == approver[a].kept
    IN /\ approver[a].at = "preparing"
       /\ \/ /\ kept \notin {"accepted", "failed"}
             /\ version' = [version EXCEPT ![c][v].plan = p, ![c][v].status =
                               IF kept = "ready_for_canon" THEN @ ELSE "ready_for_canon"]
             /\ approver' = [approver EXCEPT ![a].at = "committing", ![a].plan = p]
             /\ UNCHANGED plan
          \/ /\ \E s \in {"needs_review", "failed"} :
                   version' = [version EXCEPT ![c][v].status =
                                  IF kept \in {"accepted", "failed", s} THEN @ ELSE s]
             /\ plan' = [plan EXCEPT ![c] =
                            IF approver[a].seen = "needs_review" THEN @ ELSE "needs_review"]
             /\ AnsweredAs(a, approver[a].continue, "blocked")
          \/ /\ Leave(a)
             /\ UNCHANGED <<plan, version>>
       /\ UNCHANGED <<asked, retried, task, worker>>

\* The one way back for a failed candidate: the latest version, written after
\* a rewrite was asked for that it may still carry out.  The project stays
\* locked until the preparation it is followed by has ended.
Reopen(a, c) ==
    LET v == Latest(c)
        p == [by |-> "human", base |-> Base(c)]
    IN /\ approver[a].at = "free"
       /\ plan[c] = "needs_review" /\ version[c] # << >>
       /\ version[c][v].status = "failed" /\ version[c][v].plan # NoPlan
       /\ version[c][v].record = "none"
       /\ InCanon(c) # {} /\ MayReplace(c, v)
       /\ \A u \in InCanon(c) : version[c][u].status = "accepted" /\ u < v
       /\ \A m \in asked[c] : v > m.after
       /\ \E continue \in BOOLEAN :
             /\ continue => task = "none"
             /\ \/ /\ version' = [version EXCEPT ![c][v].plan = p,
                                                 ![c][v].status = "ready_for_canon"]
                   /\ approver' = [approver EXCEPT ![a] =
                         [at |-> "committing", chapter |-> c, version |-> v, plan |-> p,
                          seen |-> "needs_review", kept |-> "needs_review",
                          continue |-> continue]]
                \/ /\ \E s \in {"needs_review", "failed"} : SetCandidate(c, v, s)
                   /\ approver' = [approver EXCEPT ![a] =
                         IF continue THEN [Free EXCEPT !.at = "blocked", !.chapter = c,
                                                       !.continue = TRUE]
                         ELSE Answered]
       /\ UNCHANGED <<plan, asked, retried, task, worker>>

CommitApproval(a) ==
    LET c == Opened(a)
        v == approver[a].version
        p == approver[a].plan
    IN /\ approver[a].at = "committing"
       /\ \/ /\ Admit(c, v, p)
             /\ AnsweredAs(a, approver[a].continue, "accepted")
          \/ /\ Refuse(c, v, p)
             /\ Turn(a, "refused")
       /\ UNCHANGED <<retried, task, worker>>

DemoteApproval(a) ==
    /\ approver[a].at = "refused"
    /\ SetPlan(Opened(a), "needs_review")
    /\ AnsweredAs(a, approver[a].continue, "blocked")
    /\ UNCHANGED <<version, asked, retried, task, worker>>

\* The retry reads the chapter here and resets it next.
FollowBlocked(a) ==
    /\ approver[a].at = "blocked"
    /\ \/ MayAutoRetry(Opened(a)) /\ Turn(a, "retrying")
       \/ Leave(a)
    /\ UNCHANGED <<rows, retried, task, worker>>

RetryApproval(a) ==
    /\ approver[a].at = "retrying"
    /\ AutoRetry(Opened(a))
    /\ IF \E c \in Chapters \ {Opened(a)} : plan[c] \in {"needs_review", "drafted"}
       THEN Leave(a)
       ELSE approver' = [approver EXCEPT ![a].at = "enqueueing", ![a].chapter = 0]
    /\ UNCHANGED <<task, worker>>

FollowAccepted(a) ==
    /\ approver[a].at = "accepted"
    /\ IF Workset = {} THEN Leave(a)
       ELSE approver' = [approver EXCEPT ![a].at = "enqueueing", ![a].chapter = 0]
    /\ UNCHANGED <<rows, retried, task, worker>>

EnqueueApproval(a) ==
    /\ approver[a].at = "enqueueing"
    /\ Enqueue
    /\ Leave(a)
    /\ UNCHANGED <<rows, retried, worker>>

ApproverStep(a) == \/ \E c \in Chapters : Open(a, c) \/ Reopen(a, c)
                   \/ PrepareApproval(a) \/ CommitApproval(a) \/ DemoteApproval(a)
                   \/ FollowBlocked(a) \/ RetryApproval(a) \/ FollowAccepted(a)
                   \/ EnqueueApproval(a)

-----------------------------------------------------------------------------
(* Requests                                                                 *)

\* A retry of a chapter, under the project's lock: with allow_accepted it asks
\* for a rewrite of an accepted one, whose text stays in canon until then.
Retry(c) ==
    /\ task = "none"
    /\ \/ plan[c] \in {"needs_review", "drafted"} /\ UNCHANGED asked
       \/ /\ plan[c] = "accepted"
          /\ \E v \in InCanon(c) :
                /\ InCanon(c) = {v}
                /\ asked' = [asked EXCEPT ![c] =
                                @ \cup {[previous |-> v, after |-> Latest(c)]}]
    /\ SetPlan(c, "planned")
    /\ UNCHANGED <<version, retried, task, worker, approver>>

\* A user starts or continues the generation.
UserContinues ==
    /\ task = "none" /\ Workset # {}
    /\ task' = "queued"
    /\ UNCHANGED <<rows, retried, worker, approver>>

Next == \/ \E w \in Workers : WorkerStep(w)
        \/ \E a \in Approvers : ApproverStep(a)
        \/ \E c \in Chapters : Retry(c)
        \/ UserContinues

Spec == Init /\ [][Next]_vars

-----------------------------------------------------------------------------
(* Properties                                                               *)

\* Every row has its type; and a chapter is retried automatically at most once
\* for each actor, however their reads and resets interleave.
TypeOK ==
    /\ plan \in [Chapters -> PlanStatus]
    /\ \A c \in Chapters : Latest(c) <= MaxVersions[c] /\ \A v \in DOMAIN version[c] :
                             version[c][v] \in Candidate
    /\ asked \in [Chapters -> SUBSET Marker]
    /\ retried \in [Chapters -> 0..Cardinality(Workers \cup Approvers)]
    /\ task \in {"none", "queued", "running"}
    /\ \A w \in Workers : worker[w].chapter \in {0} \cup Chapters
    /\ \A a \in Approvers : approver[a].version \in Nat

\* A chapter that is shown as accepted has one text in canon and no rewrite of
\* it pending, whoever accepted it, beside whatever run.
AcceptedIsCanon ==
    \A c \in Chapters : plan[c] = "accepted" => Cardinality(InCanon(c)) = 1 /\ asked[c] = {}

Canon == INSTANCE CanonText WITH
    Versions <- UNION {1..MaxVersions[c] : c \in Chapters},
    text <- [c \in Chapters |-> InCanon(c)],
    past <- [c \in Chapters |->
                {v \in DOMAIN version[c] : version[c][v].record = "superseded"}],
    asked <- [c \in Chapters |-> asked[c] # {}]

\* Canon text changes as CanonText says, in spite of every stale status, reset
\* and approval: in order, and replaced once for each request.
RewritesAreAsked == Canon!Spec
=============================================================================
