------------------------------ MODULE PostCanon ------------------------------
(***************************************************************************)
(* The work owed after a chapter entered canon: the maintenance runs and   *)
(* order controls (maintenance/post_canon.py), their callers (the outbox   *)
(* handler of maintenance/events.py and the pipeline's world_projection.py *)
(* and project_chapters.py), the band checkpoints that hold a book back    *)
(* (project_control/operations.py, audit_control.py) and the barrier a     *)
(* Canon commit asks for (maintenance/state.py, canon/admission.py).       *)
(*                                                                         *)
(* One action per transaction.  Leases carry no clock: a lease may run out *)
(* at any moment (Expire).  The policy is pause_on_warn, the default.      *)
(***************************************************************************)
EXTENDS Naturals, Sequences, FiniteSets, FiniteSetsExt

CONSTANTS
    Book,          \* number of chapters
    BandEnds,      \* the last chapter of each band, which stands for the band
    Workers,       \* processes that run maintenance
    EventWorkers,  \* those that do so for the outbox; the others are pipelines
    Name,          \* Name[w]: the worker id w claims with
    MaxReclaims,   \* bound: claims of steps that were claimed before
    MaxManual,     \* bound: manual checkpoints
    MaxCrashes     \* bound: crashes

Chapters == 1..Book

\* POST_CANON_STEP_NAMES: 1 is world, 2 is plan, 3 is feedback.
Steps == 1..3

ASSUME PostCanonAssumption ==
    /\ Book \in Nat
    /\ BandEnds \subseteq Chapters /\ Book \in BandEnds
    /\ EventWorkers \subseteq Workers
    /\ DOMAIN Name = Workers
    /\ MaxReclaims \in Nat /\ MaxManual \in Nat /\ MaxCrashes \in Nat

VARIABLES
    canon,       \* the last chapter in canon
    run,         \* run[c][s]: the post_canon_maintenance_runs row
    controls,    \* controls[c]: the order controls kept in the feedback row
    checkpoint,  \* the band_checkpoints rows in the order of their creation
    worker,      \* worker[w]: the call process w is in
    acked,       \* the chapters whose outbox event is processed
    reclaims,    \* claims so far of steps that were claimed before
    crashes      \* crashes so far

vars == <<canon, run, controls, checkpoint, worker, acked, reclaims, crashes>>

Names == {Name[w] : w \in Workers}
None == ""

RunType ==
    [status : {"absent", "pending", "running", "failed", "succeeded"},
     owner  : Names \cup {None},
     epoch  : 0..(MaxReclaims + 1),
     live   : BOOLEAN,           \* lease_expires_at > now
     by     : 0..(MaxReclaims + 1)]       \* history: the claim whose result is recorded

ControlsType ==
    [status : {"none", "failed", "blocked", "succeeded"},
     auto   : Nat]              \* the checkpoint of its result, 0 for none

CheckpointType ==
    [chapter : Chapters, auto : BOOLEAN,
     status  : {"pending", "pass", "warn", "fail", "overridden"}]

WorkerType ==
    [phase   : {"idle", "checking", "claiming", "starting", "working", "failing",
                "acking", "ordering", "recording", "asserting"},
     kind    : {"event", "acceptance", "preflight"},
     goal    : 0..Book,          \* the commit the call is for
     chapter : 0..Book,          \* the commit it works on
     first   : BOOLEAN,          \* it may still turn to the previous chapter
     step    : Steps,
     epoch   : 0..(MaxReclaims + 1),
     lost    : BOOLEAN]          \* _ownership_lost is set

\* Every variable has its type, only a running row carries a lease, and a result
\* names a checkpoint that exists.
TypeOK ==
    /\ canon \in 0..Book
    /\ run \in [Chapters -> [Steps -> RunType]]
    /\ \A c \in Chapters, s \in Steps :
          run[c][s].live => run[c][s].status = "running"
    /\ controls \in [Chapters -> ControlsType]
    /\ checkpoint \in Seq(CheckpointType)
    /\ \A c \in Chapters : controls[c].auto <= Len(checkpoint)
    /\ worker \in [Workers -> WorkerType]
    /\ acked \subseteq Chapters
    /\ reclaims \in 0..MaxReclaims
    /\ crashes \in 0..MaxCrashes

Idle == [phase |-> "idle", kind |-> "event", goal |-> 0, chapter |-> 0,
         first |-> FALSE, step |-> 1, epoch |-> 0, lost |-> FALSE]

Init ==
    /\ canon = 0
    /\ run = [c \in Chapters |-> [s \in Steps |->
                [status |-> "absent", owner |-> None, epoch |-> 0,
                 live |-> FALSE, by |-> 0]]]
    /\ controls = [c \in Chapters |-> [status |-> "none", auto |-> 0]]
    /\ checkpoint = <<>>
    /\ worker = [w \in Workers |-> Idle]
    /\ acked = {}
    /\ reclaims = 0
    /\ crashes = 0

-----------------------------------------------------------------------------
(* The barrier *)

\* post_canon_phase3_complete.
Maintained(c) == \A s \in Steps : run[c][s].status = "succeeded"

\* The checkpoint the controls' result names, by its status now.
HeldByControls(c) ==
    /\ controls[c].auto # 0
    /\ checkpoint[controls[c].auto].status \notin {"pass", "overridden"}

\* A pending manual checkpoint at the chapter or at the band end it is.
HeldByHand(c) ==
    \E i \in 1..Len(checkpoint) :
        /\ ~checkpoint[i].auto /\ checkpoint[i].chapter = c
        /\ checkpoint[i].status = "pending"

\* Mutation: the barrier asks for the three steps only.
ReadyWithoutControls(c) == Maintained(c) /\ ~HeldByControls(c) /\ ~HeldByHand(c)

\* post_canon_barrier_ready.
Ready(c) ==
    /\ Maintained(c)
    /\ controls[c].status = "succeeded"
    /\ ~HeldByControls(c)
    /\ ~HeldByHand(c)

-----------------------------------------------------------------------------
(* The book and the operator *)

\* The next chapter's Canon commit, which writes the event of its maintenance.
Commit ==
    /\ canon < Book
    /\ canon > 0 => Ready(canon)
    /\ canon' = canon + 1
    /\ UNCHANGED <<run, controls, checkpoint, worker, acked, reclaims, crashes>>

Manual == {i \in 1..Len(checkpoint) : ~checkpoint[i].auto}

\* create_manual_checkpoint: at any chapter, written or not.
CreateManual(c) ==
    /\ Cardinality(Manual) < MaxManual
    /\ checkpoint' = Append(checkpoint,
                        [chapter |-> c, auto |-> FALSE, status |-> "pending"])
    /\ UNCHANGED <<canon, run, controls, worker, acked, reclaims, crashes>>

Band(c) == Min({e \in BandEnds : e >= c})

\* The rows of a band; approval sees the newest of them, whatever its status.
InBand(b) == {i \in 1..Len(checkpoint) : Band(checkpoint[i].chapter) = b}

\* approve_band_checkpoint ("pass" or "overridden", with the same effect).
Approve(b) ==
    /\ InBand(b) # {}
    /\ checkpoint' = [checkpoint EXCEPT ![Max(InBand(b))].status = "overridden"]
    /\ UNCHANGED <<canon, run, controls, worker, acked, reclaims, crashes>>

-----------------------------------------------------------------------------
(* Claims *)

OwnsRun(w) ==
    LET row == run[worker[w].chapter][worker[w].step]
    IN  /\ row.status = "running"
        /\ row.owner = Name[w]
        /\ row.epoch = worker[w].epoch

\* Mutation: the epoch is left out of _claim_predicates.
HoldsByName(w) ==
    LET row == run[worker[w].chapter][worker[w].step]
    IN  row.status = "running" /\ row.owner = Name[w] /\ row.live

\* The predicate of the heartbeat, the completion fence and the failure.
Holds(w) == OwnsRun(w) /\ run[worker[w].chapter][worker[w].step].live

At(w, phase) == worker[w].phase = phase

Become(w, call) == worker' = [worker EXCEPT ![w] = call]

Over(w) == Become(w, Idle)

SetRun(w, row) == run' = [run EXCEPT ![worker[w].chapter][worker[w].step] = row]

\* Mutation: the lease of a settled row is kept.
SettledLeased(row, status) == [row EXCEPT !.status = status, !.owner = None]

\* A row nobody owns any more.
Settled(row, status) == [row EXCEPT !.status = status, !.owner = None, !.live = FALSE]

\* After a step: the next one, or what the caller does when run returns.
NextStep(call) ==
    IF call.step < 3
    THEN [call EXCEPT !.phase = "claiming", !.step = @ + 1, !.epoch = 0, !.lost = FALSE]
    ELSE [call EXCEPT !.phase = IF call.kind = "event" THEN "acking" ELSE "ordering",
                      !.step = 1, !.epoch = 0, !.lost = FALSE]

\* An event worker is handed an event until it is processed; a pipeline runs the
\* maintenance of the chapter it has committed, or of the one before the chapter
\* it is about to write.  A superseded pipeline may be chapters behind.
Begin(w, c) ==
    /\ At(w, "idle")
    /\ c <= canon
    /\ \E kind \in IF w \in EventWorkers THEN {"event"} ELSE {"acceptance", "preflight"} :
          Become(w, [Idle EXCEPT !.phase = "checking", !.kind = kind, !.goal = c,
                                 !.chapter = c, !.first = (kind = "preflight")])
    /\ w \in EventWorkers => c \notin acked
    /\ UNCHANGED <<canon, run, controls, checkpoint, acked, reclaims, crashes>>

\* _ensure_runs and _assert_previous_canon_ready.  The preflight answers a block
\* by recovering the chapter before, then tries once more.
CheckPrevious(w) ==
    LET c == worker[w].chapter
    IN
    /\ At(w, "checking")
    /\ run' = [run EXCEPT ![c] = [s \in Steps |->
                 IF run[c][s].status = "absent"
                 THEN [run[c][s] EXCEPT !.status = "pending"] ELSE run[c][s]]]
    /\ IF c = 1 \/ Ready(c - 1)
       THEN Become(w, [worker[w] EXCEPT !.phase = "claiming"])
       ELSE IF worker[w].first
       THEN Become(w, [worker[w] EXCEPT !.chapter = c - 1])
       ELSE Over(w)
    /\ UNCHANGED <<canon, controls, checkpoint, acked, reclaims, crashes>>

\* Mutation: an expired step is not reclaimed.
ClaimableFresh(row) == row.status \in {"pending", "failed"}

Claimable(row) ==
    \/ row.status \in {"pending", "failed"}
    \/ row.status = "running" /\ ~row.live

\* A step that succeeded is passed over, a claimable one is claimed.
ClaimStep(w) ==
    LET row == run[worker[w].chapter][worker[w].step]
    IN
    /\ At(w, "claiming")
    /\ \/ /\ row.status = "succeeded"
          /\ Become(w, NextStep(worker[w]))
          /\ UNCHANGED <<run, reclaims>>
       \/ /\ Claimable(row)
          /\ row.epoch > 0 => reclaims < MaxReclaims
          /\ reclaims' = IF row.epoch = 0 THEN reclaims ELSE reclaims + 1
          /\ SetRun(w, [row EXCEPT !.status = "running", !.owner = Name[w],
                                   !.epoch = @ + 1, !.live = TRUE])
          /\ Become(w, [worker[w] EXCEPT !.phase = "starting", !.epoch = row.epoch + 1])
    /\ UNCHANGED <<canon, controls, checkpoint, acked, crashes>>

\* Mutation: a step that is owned by a live worker counts as done.
BusyIsDone(w) ==
    /\ At(w, "claiming")
    /\ run[worker[w].chapter][worker[w].step].live
    /\ Become(w, NextStep(worker[w]))
    /\ UNCHANGED <<canon, run, controls, checkpoint, acked, reclaims, crashes>>

\* PostCanonMaintenanceBusy: the row has a live owner, or another call in the
\* chapter has it locked at this moment (SKIP LOCKED).
Busy(w) ==
    /\ At(w, "claiming")
    /\ \/ run[worker[w].chapter][worker[w].step].live
       \/ \E v \in Workers \ {w} : ~At(v, "idle") /\ worker[v].chapter = worker[w].chapter
    /\ Over(w)
    /\ UNCHANGED <<canon, run, controls, checkpoint, acked, reclaims, crashes>>

-----------------------------------------------------------------------------
(* A claimed step *)

\* The first heartbeat, before the thread is started.
Start(w) ==
    /\ At(w, "starting")
    /\ IF Holds(w) THEN Become(w, [worker[w] EXCEPT !.phase = "working"]) ELSE Over(w)
    /\ UNCHANGED <<canon, run, controls, checkpoint, acked, reclaims, crashes>>

\* The thread renews the lease it still has; a refusal or any error is final.
Heartbeat(w) ==
    /\ At(w, "working") /\ ~worker[w].lost
    /\ \/ /\ Holds(w)
          /\ SetRun(w, [run[worker[w].chapter][worker[w].step] EXCEPT !.live = TRUE])
          /\ UNCHANGED worker
       \/ /\ Become(w, [worker[w] EXCEPT !.lost = TRUE])
          /\ UNCHANGED run
    /\ UNCHANGED <<canon, controls, checkpoint, acked, reclaims, crashes>>

\* The step's runner returns: the completion fence and the result, one transaction.
Complete(w) ==
    LET row == run[worker[w].chapter][worker[w].step]
    IN
    /\ At(w, "working")
    /\ IF ~worker[w].lost /\ Holds(w)
       THEN /\ SetRun(w, [Settled(row, "succeeded") EXCEPT !.by = worker[w].epoch])
            /\ Become(w, NextStep(worker[w]))
       ELSE Over(w) /\ UNCHANGED run
    /\ UNCHANGED <<canon, controls, checkpoint, acked, reclaims, crashes>>

\* The runner, the trace or the result raises.
StepRaises(w) ==
    /\ At(w, "working")
    /\ Become(w, [worker[w] EXCEPT !.phase = "failing"])
    /\ UNCHANGED <<canon, run, controls, checkpoint, acked, reclaims, crashes>>

\* _fail_claim: a claim whose lease ran out leaves the row as it is.
Fail(w) ==
    LET row == run[worker[w].chapter][worker[w].step]
    IN
    /\ At(w, "failing")
    /\ IF Holds(w) THEN SetRun(w, Settled(row, "failed")) ELSE UNCHANGED run
    /\ Over(w)
    /\ UNCHANGED <<canon, controls, checkpoint, acked, reclaims, crashes>>

\* The handler returned: the outbox marks the event.
Ack(w) ==
    /\ At(w, "acking")
    /\ acked' = acked \cup {worker[w].goal}
    /\ Over(w)
    /\ UNCHANGED <<canon, run, controls, checkpoint, reclaims, crashes>>

-----------------------------------------------------------------------------
(* Order controls *)

\* _create_auto_band_checkpoint: at the end of a band, the row there is or a new
\* one, which warns at least while the band has a pending checkpoint.
AutoRow(c) ==
    {i \in 1..Len(checkpoint) : checkpoint[i].auto /\ checkpoint[i].chapter = c}

Verdicts(c) ==
    IF \E i \in InBand(Band(c)) : checkpoint[i].status = "pending"
    THEN {"warn", "fail"} ELSE {"pass", "warn", "fail"}

\* run_order_controls: the result there is, a new one with or without blockers,
\* or an exception that rolls everything back.
RunOrderControls(w) ==
    LET c == worker[w].chapter
        Conclude(status, k) ==
            /\ controls' = [controls EXCEPT ![c] = [status |-> status, auto |-> k]]
            /\ Become(w, [worker[w] EXCEPT !.phase = "asserting"])
    IN
    /\ At(w, "ordering")
    /\ \/ /\ controls[c].status = "succeeded"
          /\ Become(w, [worker[w] EXCEPT !.phase = "asserting"])
          /\ UNCHANGED <<controls, checkpoint>>
       \/ /\ controls[c].status # "succeeded"
          /\ \E status \in {"succeeded", "blocked"} :
                \/ c \notin BandEnds /\ Conclude(status, 0) /\ UNCHANGED checkpoint
                \/ /\ c \in BandEnds /\ AutoRow(c) # {}
                   /\ Conclude(status, Max(AutoRow(c))) /\ UNCHANGED checkpoint
                \/ /\ c \in BandEnds /\ AutoRow(c) = {}
                   /\ Conclude(status, Len(checkpoint) + 1)
                   /\ \E verdict \in Verdicts(c) :
                        checkpoint' = Append(checkpoint,
                            [chapter |-> c, auto |-> TRUE, status |-> verdict])
       \/ /\ controls[c].status # "succeeded"
          /\ Become(w, [worker[w] EXCEPT !.phase = "recording"])
          /\ UNCHANGED <<controls, checkpoint>>
    /\ UNCHANGED <<canon, run, acked, reclaims, crashes>>

\* Mutation: the failure is recorded whatever was recorded since.
RecordAnyway(w) ==
    /\ At(w, "recording")
    /\ controls' = [controls EXCEPT ![worker[w].chapter] = [status |-> "failed", auto |-> 0]]
    /\ Over(w)
    /\ UNCHANGED <<canon, run, checkpoint, acked, reclaims, crashes>>

\* _record_order_controls_failure, in a transaction of its own: a success of
\* another call stays, any other result is dropped.
RecordFailure(w) ==
    LET c == worker[w].chapter
    IN
    /\ At(w, "recording")
    /\ controls' = IF controls[c].status = "succeeded" THEN controls
                   ELSE [controls EXCEPT ![c] = [status |-> "failed", auto |-> 0]]
    /\ Over(w)
    /\ UNCHANGED <<canon, run, checkpoint, acked, reclaims, crashes>>

\* _resolve_checkpoint_gate: the delegate may override a warning, and only that.
Delegate(w) ==
    LET k == controls[worker[w].chapter].auto
    IN
    /\ At(w, "asserting")
    /\ k # 0 /\ checkpoint[k].status = "warn"
    /\ checkpoint' = [checkpoint EXCEPT ![k].status = "overridden"]
    /\ UNCHANGED <<canon, run, controls, worker, acked, reclaims, crashes>>

\* assert_barrier_ready; a recovered chapter lets its successor try again.
AssertReady(w) ==
    LET c == worker[w].chapter
    IN
    /\ At(w, "asserting")
    /\ IF Ready(c) /\ c < worker[w].goal
       THEN Become(w, [worker[w] EXCEPT !.phase = "checking", !.chapter = c + 1, !.first = FALSE])
       ELSE Over(w)
    /\ UNCHANGED <<canon, run, controls, checkpoint, acked, reclaims, crashes>>

-----------------------------------------------------------------------------
Expire(c, s) ==
    /\ run[c][s].live
    /\ run' = [run EXCEPT ![c][s].live = FALSE]
    /\ UNCHANGED <<canon, controls, checkpoint, worker, acked, reclaims, crashes>>

Crash(w) ==
    /\ ~At(w, "idle") /\ crashes < MaxCrashes
    /\ crashes' = crashes + 1
    /\ Over(w)
    /\ UNCHANGED <<canon, run, controls, checkpoint, acked, reclaims>>

\* What a call does next, other than to claim.
Proceed(w) ==
    \/ CheckPrevious(w) \/ Busy(w) \/ Start(w) \/ Complete(w) \/ StepRaises(w) \/ Fail(w)
    \/ Ack(w) \/ RunOrderControls(w) \/ RecordFailure(w) \/ AssertReady(w)

Next ==
    \/ Commit
    \/ \E c \in Chapters : CreateManual(c)
    \/ \E b \in BandEnds : Approve(b)
    \/ \E c \in Chapters, s \in Steps : Expire(c, s)
    \/ \E w \in Workers :
          \/ \E c \in Chapters : Begin(w, c)
          \/ ClaimStep(w) \/ Heartbeat(w) \/ Proceed(w) \/ Delegate(w) \/ Crash(w)

Spec == Init /\ [][Next]_vars

\* The outbox hands an unprocessed event out again and again, a row is not locked
\* by others at every try, calls end, and a lease nobody renews runs out.
Unrenewed(c, s) ==
    \A w \in Workers :
        At(w, "working") /\ worker[w].chapter = c /\ worker[w].step = s => worker[w].lost

Fairness ==
    /\ \A w \in EventWorkers :
        /\ \A c \in Chapters : SF_vars(Begin(w, c))
        /\ \A s \in Steps : SF_vars(worker[w].step = s /\ ClaimStep(w))
    /\ \A w \in Workers : WF_vars(Proceed(w))
    /\ \A c \in Chapters, s \in Steps : WF_vars(Unrenewed(c, s) /\ Expire(c, s))

FairSpec == Spec /\ Fairness

\* An operator who approves whatever the API lets him approve.
DiligentSpec == Spec /\ \A b \in BandEnds : WF_vars(Approve(b))

-----------------------------------------------------------------------------
(* Properties *)

\* The result a row keeps is the one of its last claim: no call whose lease was
\* taken over records its own, though pipelines of one task claim under one id.
RecordedByHolder ==
    \A c \in Chapters, s \in Steps :
        run[c][s].status = "succeeded" => run[c][s].by = run[c][s].epoch

\* The outbox drops an event only when the three steps of its chapter succeeded,
\* whoever ran them, and however many calls found them busy or lost them.
AckedIsMaintained == \A c \in acked : Maintained(c)

\* A lease that ran out is never revived and its claim writes nothing: neither a
\* heartbeat, a completion nor a failure changes the row before the next claim.
LapsedClaimIsDead ==
    [][\A c \in Chapters, s \in Steps :
         /\ run[c][s].status = "running" /\ ~run[c][s].live
         /\ run'[c][s].epoch = run[c][s].epoch
         => run'[c][s] = run[c][s]]_vars

\* The stages of a chapter as ChapterCadence numbers them: its commit, the three
\* steps, the order controls.
Stages(c) ==
    {s \in {1} : canon >= c} \cup {s + 1 : s \in {r \in Steps : run[c][r].status = "succeeded"}}
        \cup {s \in {5} : controls[c].status = "succeeded"}

Cadence == INSTANCE ChapterCadence
    WITH Steps <- 1..5, done <- [c \in Chapters |-> Stages(c)]

\* Every chapter is maintained and controlled in order, each stage once and for
\* good, before the next one enters canon, through crashes, lost leases and
\* concurrent callers: every step is a ChapterCadence step.
FollowsCadence == Cadence!Spec

\* No crash, busy row or dead owner leaves a chapter of canon unmaintained, unless
\* the retries are used up or a checkpoint holds the chapter before it.
EventuallyMaintained ==
    \A c \in Chapters :
        canon >= c ~> Maintained(c) \/ reclaims = MaxReclaims \/ (c > 1 /\ ~Ready(c - 1))

-----------------------------------------------------------------------------
(* What the documents say and the code does not keep *)

\* "Unresolved ... checkpoints or manual blocks make the commit wait for recovery"
\* (CURRENT_DESIGN.md): a pending checkpoint can be released.  Approval reaches
\* only the newest row of a band, so an older pending one holds the book for ever.
HoldsAreReleased ==
    \A i \in 1..(MaxManual + Book) :
        (i \in Manual /\ checkpoint[i].status = "pending")
            ~> (i \in Manual /\ checkpoint[i].status = "overridden")
=============================================================================
