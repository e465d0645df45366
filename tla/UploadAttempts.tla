--------------------------- MODULE UploadAttempts ---------------------------
(***************************************************************************)
(* The upload of accepted chapters to a publishing platform: the job and   *)
(* attempt rows of the publisher runtime, the browser extensions that      *)
(* claim them and press the platform's button, and the journal that each   *)
(* extension keeps over restarts.  The platform offers no idempotency key: *)
(* a button that is pressed twice publishes twice.                         *)
(*                                                                         *)
(* A call of an extension is one action: the server's transaction and the  *)
(* extension's continuation up to its next call, or, when the answer does  *)
(* not arrive, the server's transaction alone.  An error that is not       *)
(* caught ends the extension's round; the next round replays the journal.  *)
(***************************************************************************)
EXTENDS Naturals, FiniteSets

CONSTANTS Jobs,       \* upload jobs
          Clients,    \* browser extensions; each works on one job at a time
          Slots,      \* bound: the attempts of one extension that are referred to
          None        \* no attempt

\* An attempt is named by its worker and a slot, which is used again when
\* nothing refers to the attempt any more.
Attempts == Clients \X Slots

ASSUME NoneAssumption == None \notin Attempts

VARIABLES job,        \* PublisherUploadJob
          att,        \* PublisherUploadAttempt
          receipt,    \* whether the job has its PublisherUploadReceipt
          presses,    \* how often a job's publish button was pressed
          copies,     \* copies of a job's content on the platform
          pc,         \* where an extension is in its round
          held,       \* the attempt of its one unacknowledged journal entry
          saved       \* what that entry says

server   == <<job, att, receipt>>
platform == <<presses, copies>>
local    == <<pc, held, saved>>
vars     == <<server, platform, local>>

-----------------------------------------------------------------------------
(* Rows                                                                     *)

Terminal == {"succeeded", "cancelled"}

JobStatus == {"scheduled", "pending", "running", "terminating", "paused", "reconciling"}
               \cup Terminal

JobRow == [status   : JobStatus,
           current  : Attempts \cup {None},   \* current_attempt_id
           abort    : BOOLEAN,                \* abort_requested
           deleted  : BOOLEAN,                \* deleted_at
           token    : Attempts \cup {None}]   \* risk_pause.pause_token

Phases(kind) == IF kind = "execute"
                THEN <<"claimed", "mutation_started", "receipt_observed">>
                ELSE <<"claimed", "observation_started", "receipt_observed">>

AttemptRow == [job      : Jobs,
               kind     : {"execute", "reconcile"},
               phase    : {"claimed", "mutation_started", "observation_started",
                           "receipt_observed"},
               status   : {"running", "paused", "cancelled", "indeterminate",
                           "over"},   \* succeeded, failed, expired, superseded, ...
               live     : BOOLEAN,    \* lease_expires_at > now
               archived : BOOLEAN,    \* named by risk_after_abort or risk_termination
               receipt  : BOOLEAN]    \* named by the job's receipt

NoRow == [status |-> "none"]

Saved == {"none", "receipt", "pause",                              \* journal
          "succeeded", "failed", "cancelled",                      \* a result
          "matched", "indeterminate", "risk_pause"}                \* a finding

Places == {"idle", "claimed", "started", "go", "pressed", "received", "report",
           "result", "replayed", "look"}

Init == /\ job = [j \in Jobs |-> [status |-> "scheduled", current |-> None,
                                  abort |-> FALSE, deleted |-> FALSE,
                                  token |-> None]]
        /\ att = [a \in Attempts |-> NoRow]
        /\ receipt = [j \in Jobs |-> FALSE]
        /\ presses = [j \in Jobs |-> 0]
        /\ copies = [j \in Jobs |-> 0]
        /\ pc = [c \in Clients |-> "idle"]
        /\ held = [c \in Clients |-> None]
        /\ saved = [c \in Clients |-> "none"]

-----------------------------------------------------------------------------
(* Helpers                                                                  *)

\* The attempts something can still name.  The rows of the others are not kept.
Referred == {held[c] : c \in Clients} \cup UNION {{job[j].current, job[j].token} : j \in Jobs}

Keep(rows) == att' = [a \in Attempts |-> IF a \in Referred' THEN rows[a] ELSE NoRow]

Running == {a \in Attempts : att[a].status = "running"}

JobOf(a) == job[att[a].job]

Owned(c, a) == /\ ~ JobOf(a).deleted
               /\ JobOf(a).current = a
               /\ a[1] = c
               /\ att[a].status = "running"

Fenced(c, a) == Owned(c, a) /\ att[a].live

\* A refusal the extension takes to mean that the attempt is over; a call about
\* a deleted job is answered "not found", which it does not.
Stale(c, a) == ~ JobOf(a).deleted /\ ~ Fenced(c, a)

Uncertain(a) == att[a].kind = "reconcile" \/ att[a].phase # "claimed"

\* Mutation: the abort is looked at first.
AfterFailureAbortFirst(a) == IF JobOf(a).abort THEN "cancelled"
                             ELSE IF Uncertain(a) THEN "reconciling" ELSE "pending"

\* Where a job goes when its attempt ends without success.
AfterFailure(a) == IF Uncertain(a) THEN "reconciling"
                   ELSE IF JobOf(a).abort THEN "cancelled" ELSE "pending"

Left(a, status) == [JobOf(a) EXCEPT !.status = status, !.current = None]

Over(row, status) == [row EXCEPT !.status = status, !.live = FALSE]

\* A call about attempt a that gives its job and the attempts new rows.
Settle(a, jobRow, rows) == /\ job' = [job EXCEPT ![att[a].job] = jobRow]
                           /\ Keep(rows)

\* The attempt whose pause the job's payload archives: an earlier one is replaced.
Archive(rows, a) ==
    [x \in Attempts |-> IF rows[x] # NoRow /\ rows[x].job = rows[a].job
                         THEN [rows[x] EXCEPT !.archived = (x = a)] ELSE rows[x]]

-----------------------------------------------------------------------------
(* Handlers of the extension's calls                                        *)

\* The attempts whose lease ran out are expired by the next claim of anybody;
\* S are those whose rows no other transaction holds (skip_locked).
Lapsed == {a \in Running : ~ att[a].live}

JobsWithout(S) == [j \in Jobs |-> LET a == job[j].current
                                  IN IF a \in S THEN Left(a, AfterFailure(a)) ELSE job[j]]

RowsWithout(S) == [a \in Attempts |-> IF a \in S THEN Over(att[a], "over") ELSE att[a]]

\* Mutation: only what is pending is handed out.
ClaimablePending(row) == /\ ~ row.deleted
                         /\ row.current = None
                         /\ row.status = "pending" /\ ~ row.abort

Claimable(row) == /\ ~ row.deleted
                  /\ row.current = None
                  /\ row.status = "reconciling" \/ (row.status = "pending" /\ ~ row.abort)

NewClaim(j, status) ==
    [job |-> j, kind |-> IF status = "reconciling" THEN "reconcile" ELSE "execute",
     phase |-> "claimed", status |-> "running", live |-> TRUE,
     archived |-> FALSE, receipt |-> FALSE]

\* An attempt moves forward through its phases; no mutation starts once an
\* abort is requested.
MayEnter(c, a, phase) ==
    LET ph == Phases(att[a].kind)
    IN /\ Fenced(c, a)
       /\ ~ (JobOf(a).abort /\ phase = "mutation_started")
       /\ \E i, k \in DOMAIN ph : ph[i] = att[a].phase /\ ph[k] = phase /\ i <= k

Enter(a, phase) == /\ UNCHANGED <<job, receipt>>
                   /\ Keep([att EXCEPT ![a].phase = phase])

\* update_upload_job_result
MayFinish(c, a, outcome) ==
    /\ Fenced(c, a)
    /\ att[a].kind = "execute"
    /\ (outcome = "succeeded") <=> att[a].receipt

Finish(a, outcome) ==
    /\ UNCHANGED receipt
    /\ Settle(a, Left(a, IF outcome = "succeeded" THEN "succeeded" ELSE AfterFailure(a)),
              [att EXCEPT ![a] = Over(@, IF outcome = "cancelled" THEN "cancelled" ELSE "over")])

\* reconcile_upload_job
MayReconcile(c, a) == /\ Fenced(c, a)
                      /\ att[a].kind = "reconcile"
                      /\ att[a].phase = "observation_started"

RecordReceipt(a) == receipt' = [receipt EXCEPT ![att[a].job] = TRUE]

\* A job has one receipt; it names the attempt that submitted it first.
Receipted(a) == [att[a] EXCEPT !.receipt = @ \/ ~ receipt[att[a].job],
                               !.phase = "receipt_observed"]

Reconcile(a, outcome) ==
    \/ /\ outcome = "matched"
       /\ RecordReceipt(a)
       /\ Settle(a, Left(a, "succeeded"), [att EXCEPT ![a] = Over(Receipted(a), "over")])
    \/ /\ outcome = "indeterminate"
       /\ UNCHANGED receipt
       /\ Settle(a, Left(a, "reconciling"), [att EXCEPT ![a] = Over(@, "indeterminate")])
    \/ /\ outcome = "risk_pause" /\ JobOf(a).abort
       /\ UNCHANGED receipt
       /\ Settle(a, [Left(a, "reconciling") EXCEPT !.token = None],
                 Archive([att EXCEPT ![a] = Over(@, "indeterminate")], a))
    \/ /\ outcome = "risk_pause" /\ ~ JobOf(a).abort
       /\ UNCHANGED receipt
       /\ Settle(a, [Left(a, "paused") EXCEPT !.token = a],
                 [att EXCEPT ![a] = Over(@, "paused")])

\* record_upload_receipt: the receipt of a live attempt waits for its result;
\* one that is late settles the job, whatever was made of it meanwhile.
MayRecord(c, a) ==
    /\ ~ JobOf(a).deleted
    /\ Fenced(c, a) => att[a].kind = "execute" /\ att[a].phase # "claimed"

\* Mutation: a late receipt leaves the attempt alone that runs meanwhile.
RecordLeavesCurrent(c, a) ==
    /\ RecordReceipt(a)
    /\ IF Fenced(c, a)
       THEN UNCHANGED job /\ Keep([att EXCEPT ![a] = Receipted(a)])
       ELSE Settle(a, Left(a, "succeeded"), [att EXCEPT ![a] = Over(Receipted(a), "over")])

Record(c, a) ==
    /\ RecordReceipt(a)
    /\ \/ /\ Fenced(c, a)
          /\ UNCHANGED job
          /\ Keep([att EXCEPT ![a] = Receipted(a)])
       \/ /\ ~ Fenced(c, a)
          /\ Settle(a, Left(a, "succeeded"),
                    [x \in Attempts |->
                       IF x = a THEN Over(Receipted(a), "over")
                       ELSE IF x = JobOf(a).current /\ x \in Running THEN Over(att[x], "over")
                       ELSE att[x]])

\* pause: also answers a repeated report of the pause that is in force, or of one
\* that a termination archived.
PauseKnown(a) ==
    /\ ~ JobOf(a).deleted
    /\ JobOf(a).current = None
    /\ \/ /\ att[a].status = "paused"
          /\ JobOf(a).status = "paused"
          /\ JobOf(a).token = a
       \/ /\ att[a].status \in {"paused", "cancelled", "indeterminate"}
          /\ JobOf(a).abort
          /\ att[a].archived

Pause(c, a) ==
    \/ /\ PauseKnown(a)
       /\ UNCHANGED job
       /\ Keep(att)
    \/ /\ Fenced(c, a) /\ JobOf(a).abort
       /\ Settle(a, [Left(a, AfterFailure(a)) EXCEPT !.token = None],
                 Archive([att EXCEPT ![a] = Over(@, IF Uncertain(a) THEN "indeterminate"
                                                    ELSE "cancelled")], a))
    \/ /\ Fenced(c, a) /\ ~ JobOf(a).abort
       /\ Settle(a, [Left(a, "paused") EXCEPT !.token = a],
                 [att EXCEPT ![a] = Over(@, "paused")])

-----------------------------------------------------------------------------
(* Extensions                                                               *)

Goto(c, place) == pc' = [pc EXCEPT ![c] = place]

Save(c, what) == saved' = [saved EXCEPT ![c] = what]

\* The entry is acknowledged and dropped; the round goes on.
Ack(c) == /\ Goto(c, "idle")
          /\ held' = [held EXCEPT ![c] = None]
          /\ Save(c, "none")

\* The round ends with an error, or the answer is lost: the entry stays.
Throw(c) == Goto(c, "idle") /\ UNCHANGED <<held, saved>>

\* A round claims only when its journal is clear.
Clear(c) == pc[c] = "idle" /\ held[c] = None

\* The attempt is in the journal and has not been carried further.
Receive(c, a) == /\ Goto(c, "claimed")
                 /\ held' = [held EXCEPT ![c] = a]
                 /\ UNCHANGED saved

\* Polling finds nothing that is due, but expires what lapsed.
PollExpires(c, S) ==
    /\ Clear(c) /\ S # {}
    /\ job' = JobsWithout(S)
    /\ UNCHANGED <<receipt, platform, local>>
    /\ Keep(RowsWithout(S))

\* The worker's running claim is given to it again if it had not begun.
PollReturns(c, S, a) ==
    /\ Clear(c)
    /\ a \in Running \ S
    /\ Fenced(c, a) /\ att[a].phase = "claimed" /\ ~ JobOf(a).abort
    /\ job' = JobsWithout(S)
    /\ Receive(c, a)
    /\ UNCHANGED <<receipt, platform>>
    /\ Keep(RowsWithout(S))

\* A new attempt of a job, when the worker has no live one.
PollClaims(c, S, j, n, arrived) ==
    /\ Clear(c) /\ att[<<c, n>>] = NoRow
    /\ ~ \E b \in Attempts : att[b] # NoRow /\ Fenced(c, b)
    /\ LET row == JobsWithout(S)[j]
           a   == <<c, n>>
       IN /\ Claimable(row)
          /\ job' = [JobsWithout(S) EXCEPT ![j].status = "running", ![j].current = a]
          /\ IF arrived THEN Receive(c, a) ELSE UNCHANGED local
          /\ UNCHANGED <<receipt, platform>>
          /\ Keep([RowsWithout(S) EXCEPT ![a] = NewClaim(j, row.status)])

\* The page is inspected before the mutation: clear, at risk, or in the way.
Inspect(c) ==
    /\ pc[c] = "claimed" /\ att[held[c]].kind = "execute"
    /\ \/ Goto(c, "started") /\ UNCHANGED saved
       \/ Goto(c, "idle") /\ Save(c, "pause")
       \/ Goto(c, "result") /\ Save(c, "failed")
    /\ UNCHANGED <<held, server, platform>>

\* The server is told that the mutation starts, and answers whether it may.
\* "blocked": the heartbeat failed meanwhile, which stops the extension as well.
StartMutation(c, arrived, blocked) ==
    /\ pc[c] = "started"
    /\ MayEnter(c, held[c], "mutation_started")
    /\ IF ~ arrived THEN Throw(c)
       ELSE IF blocked \/ JobOf(held[c]).abort
       THEN Goto(c, "result") /\ Save(c, "cancelled") /\ UNCHANGED held
       ELSE Goto(c, "go") /\ UNCHANGED <<held, saved>>
    /\ UNCHANGED platform
    /\ Enter(held[c], "mutation_started")

StartRefused(c) ==
    /\ pc[c] = "started"
    /\ ~ MayEnter(c, held[c], "mutation_started")
    /\ Throw(c)
    /\ UNCHANGED <<server, platform>>

\* The browser command runs and presses the platform's button.
Press(c) ==
    /\ pc[c] = "go"
    /\ presses' = [presses EXCEPT ![att[held[c]].job] = @ + 1]
    /\ Goto(c, "pressed")
    /\ UNCHANGED <<held, saved, server, copies>>

\* What was pressed may reach the platform at once, late or never.
Land(j) ==
    /\ copies[j] < presses[j]
    /\ copies' = [copies EXCEPT ![j] = @ + 1]
    /\ UNCHANGED <<server, presses, local>>

\* The command returns: with a receipt, with a risk signal, or without evidence.
CommandReturns(c) ==
    /\ pc[c] = "pressed"
    /\ \/ /\ copies[att[held[c]].job] > 0
          /\ Goto(c, "received") /\ Save(c, "receipt")
       \/ Goto(c, "idle") /\ Save(c, "pause")
       \/ Goto(c, "result") /\ Save(c, "failed")
    /\ UNCHANGED <<held, server, platform>>

SaveResult(c) ==
    /\ pc[c] = "received"
    /\ Goto(c, "report") /\ Save(c, "succeeded")
    /\ UNCHANGED <<held, server, platform>>

\* The receipt is submitted first, in the round that saw it or in a replay.
SubmitReceipt(c, arrived) ==
    /\ pc[c] = "report" \/ (pc[c] = "idle" /\ saved[c] \in {"receipt", "succeeded"})
    /\ MayRecord(c, held[c])
    /\ UNCHANGED platform
    /\ IF ~ arrived THEN Throw(c)
       ELSE IF pc[c] = "report" THEN Goto(c, "result") /\ UNCHANGED <<held, saved>>
       ELSE IF ~ Fenced(c, held[c]) THEN Ack(c)
       ELSE Goto(c, "replayed") /\ Save(c, "succeeded") /\ UNCHANGED held
    /\ Record(c, held[c])

\* A risk pause is reported until the server has it or the job is terminal.
SubmitPause(c, arrived) ==
    /\ pc[c] = "idle" /\ saved[c] = "pause"
    /\ PauseKnown(held[c]) \/ Fenced(c, held[c])
    /\ IF arrived THEN Ack(c) ELSE Throw(c)
    /\ UNCHANGED <<receipt, platform>>
    /\ Pause(c, held[c])

PauseCovered(c) ==
    /\ pc[c] = "idle" /\ saved[c] = "pause"
    /\ Stale(c, held[c]) /\ ~ PauseKnown(held[c])
    /\ JobOf(held[c]).status \in Terminal
    /\ Ack(c)
    /\ UNCHANGED <<job, receipt, platform>>
    /\ Keep(att)

Findings == {"matched", "indeterminate", "risk_pause"}

\* Mutation: the result is replayed without the receipt.
ReportingAnyway(c) == \/ pc[c] \in {"result", "replayed"}
                      \/ /\ pc[c] = "idle"
                         /\ saved[c] \in {"receipt", "succeeded", "failed", "cancelled"} \cup Findings

Reporting(c) == \/ pc[c] \in {"result", "replayed"}
                \/ pc[c] = "idle" /\ saved[c] \in {"failed", "cancelled"} \cup Findings

\* The result of an execution.
SubmitResult(c, arrived) ==
    /\ Reporting(c) /\ saved[c] \notin Findings
    /\ MayFinish(c, held[c], saved[c])
    /\ IF arrived THEN Ack(c) ELSE Throw(c)
    /\ UNCHANGED platform
    /\ Finish(held[c], saved[c])

\* The finding of a reconciliation.
SubmitFinding(c, arrived) ==
    /\ Reporting(c) /\ saved[c] \in Findings
    /\ MayReconcile(c, held[c])
    /\ IF arrived THEN Ack(c) ELSE Throw(c)
    /\ UNCHANGED platform
    /\ Reconcile(held[c], saved[c])

\* A stale report is an error in the round itself and dropped in a replay.
ReportStale(c) ==
    /\ Reporting(c) /\ Stale(c, held[c])
    /\ IF pc[c] = "result" THEN Throw(c) ELSE Ack(c)
    /\ UNCHANGED <<job, receipt, platform>>
    /\ Keep(att)

\* A replay without a result: the execution failed for the restart ...
ReplayExecution(c) ==
    /\ pc[c] = "idle" /\ held[c] # None /\ saved[c] = "none"
    /\ att[held[c]].kind = "execute"
    /\ Save(c, "failed")
    /\ UNCHANGED <<pc, held, server, platform>>

\* ... and the reconciliation found nothing, once the server has acknowledged it.
ReplayObservation(c, arrived) ==
    /\ pc[c] = "idle" /\ held[c] # None /\ saved[c] = "none"
    /\ att[held[c]].kind = "reconcile"
    /\ \/ /\ MayEnter(c, held[c], "observation_started")
          /\ IF arrived THEN Save(c, "indeterminate") ELSE UNCHANGED saved
          /\ UNCHANGED <<pc, held, platform>>
          /\ Enter(held[c], "observation_started")
       \/ /\ Stale(c, held[c]) /\ arrived
          /\ Ack(c)
          /\ UNCHANGED <<job, receipt, platform>>
          /\ Keep(att)

\* The reconciliation is announced; an abort or a failed heartbeat stops it.
StartObservation(c, arrived, blocked) ==
    /\ pc[c] = "claimed" /\ att[held[c]].kind = "reconcile"
    /\ MayEnter(c, held[c], "observation_started")
    /\ IF arrived /\ ~ blocked /\ ~ JobOf(held[c]).abort
       THEN Goto(c, "look") /\ UNCHANGED <<held, saved>>
       ELSE Throw(c)
    /\ UNCHANGED platform
    /\ Enter(held[c], "observation_started")

ObservationRefused(c) ==
    /\ pc[c] = "claimed" /\ att[held[c]].kind = "reconcile"
    /\ ~ MayEnter(c, held[c], "observation_started")
    /\ Throw(c)
    /\ UNCHANGED <<server, platform>>

\* What the platform's pages show: the very content, a risk, or nothing certain.
Look(c, finding) ==
    /\ pc[c] = "look"
    /\ finding = "matched" => copies[att[held[c]].job] > 0
    /\ Goto(c, "result") /\ Save(c, finding)
    /\ UNCHANGED <<held, server, platform>>

\* The extension's worker is restarted: only its journal is left.  An error of
\* the browser or of the network on the way to the server has the same effect.
Restart(c) ==
    /\ pc[c] # "idle"
    /\ Throw(c)
    /\ UNCHANGED <<server, platform>>

-----------------------------------------------------------------------------
(* The clock, the operator, and the backend's restart                       *)

\* A lease that is not renewed in time.
Lapse(a) ==
    /\ a \in Running /\ att[a].live
    /\ att' = [att EXCEPT ![a].live = FALSE]
    /\ UNCHANGED <<job, receipt, platform, local>>

Release(j) ==
    /\ job[j].status = "scheduled"
    /\ job' = [job EXCEPT ![j].status = "pending", ![j].abort = FALSE]
    /\ UNCHANGED <<att, receipt, platform, local>>

Terminated(row) ==
    CASE row.status \in {"scheduled", "pending"} ->
           [row EXCEPT !.status = "cancelled", !.abort = TRUE]
      [] row.status = "reconciling" -> [row EXCEPT !.abort = TRUE]
      [] row.status = "paused" ->
           [row EXCEPT !.status = IF Uncertain(row.token) THEN "reconciling" ELSE "cancelled",
                       !.abort = TRUE, !.token = None]
      [] OTHER -> [row EXCEPT !.status = "terminating", !.abort = TRUE]

Terminate(j) ==
    /\ ~ job[j].deleted /\ job[j].status \notin Terminal
    /\ job' = [job EXCEPT ![j] = Terminated(job[j])]
    /\ UNCHANGED <<receipt, platform, local>>
    /\ Keep(IF job[j].status = "paused" THEN Archive(att, job[j].token) ELSE att)

Delete(j) ==
    /\ ~ job[j].deleted /\ job[j].status \in Terminal
    /\ job' = [job EXCEPT ![j].deleted = TRUE]
    /\ UNCHANGED <<att, receipt, platform, local>>

Resume(j) ==
    /\ ~ job[j].deleted /\ job[j].status = "paused" /\ ~ job[j].abort
    /\ job[j].current = None /\ att[job[j].token].status = "paused"
    /\ job' = [job EXCEPT
         ![j].status = IF Uncertain(job[j].token) THEN "reconciling" ELSE "pending",
         ![j].token = None]
    /\ UNCHANGED <<receipt, platform, local>>
    /\ Keep(att)

\* A starting backend interrupts every attempt, also those before the mutation.
RecoverInterrupted ==
    /\ Running # {}
    /\ job' = [j \in Jobs |->
                 IF \/ job[j].current \in Running
                    \/ ~ job[j].deleted /\ job[j].status \in {"running", "terminating"}
                 THEN [job[j] EXCEPT !.status = "reconciling", !.current = None]
                 ELSE job[j]]
    /\ UNCHANGED <<receipt, platform, local>>
    /\ Keep([a \in Attempts |-> IF a \in Running THEN Over(att[a], "over") ELSE att[a]])

-----------------------------------------------------------------------------
Poll(c) == \E S \in SUBSET Lapsed :
              \/ PollExpires(c, S)
              \/ \E a \in Attempts : PollReturns(c, S, a)
              \/ \E j \in Jobs, n \in Slots, arrived \in BOOLEAN :
                    PollClaims(c, S, j, n, arrived)

Call(c, arrived, blocked) == \/ StartMutation(c, arrived, blocked)
                             \/ StartObservation(c, arrived, blocked)
                             \/ SubmitReceipt(c, arrived)
                             \/ SubmitPause(c, arrived)
                             \/ SubmitResult(c, arrived)
                             \/ SubmitFinding(c, arrived)
                             \/ ReplayObservation(c, arrived)

Step(c) == \/ Inspect(c) \/ StartRefused(c) \/ Press(c) \/ CommandReturns(c)
           \/ SaveResult(c) \/ PauseCovered(c) \/ ReportStale(c)
           \/ ReplayExecution(c) \/ ObservationRefused(c)
           \/ \E finding \in Findings : Look(c, finding)

Operator(j) == Release(j) \/ Terminate(j) \/ Delete(j) \/ Resume(j)

Next == \/ \E c \in Clients : \/ Poll(c) \/ Step(c) \/ Restart(c)
                              \/ \E arrived, blocked \in BOOLEAN : Call(c, arrived, blocked)
        \/ \E j \in Jobs : Operator(j) \/ Land(j)
        \/ \E a \in Attempts : Lapse(a)
        \/ RecoverInterrupted

Spec == Init /\ [][Next]_vars

-----------------------------------------------------------------------------
(* Fairness                                                                 *)

\* An extension that is at work renews the lease of its attempt.
Attended(a) == \E c \in Clients : held[c] = a /\ pc[c] # "idle"

\* The extension gets on, and so does the server when it is polled.
Works(c) == Step(c) \/ Call(c, TRUE, FALSE)

Sweeps == \E c \in Clients, S \in SUBSET Lapsed : PollExpires(c, S)

\* What only happens so often: restarts, lost answers, failed heartbeats.
Fault == /\ \/ \E c \in Clients :
                 \/ Restart(c)
                 \/ \E arrived, blocked \in BOOLEAN : Call(c, arrived, blocked)
                 \/ \E S \in SUBSET Lapsed, j \in Jobs, n \in Slots :
                       PollClaims(c, S, j, n, FALSE)
            \/ \E a \in Attempts : Attended(a) /\ Lapse(a)
            \/ RecoverInterrupted
         /\ ~ (Sweeps \/ \E c \in Clients : Works(c))

\* The extension's alarm starts round after round and a round runs to its end;
\* a lease nobody renews runs out; a page that can be inspected is so in the end,
\* and content that is on the platform is found there in the end.
Fairness ==
    /\ \A c \in Clients :
         /\ WF_vars(Works(c))
         /\ WF_vars(PollExpires(c, Lapsed))
         /\ WF_vars(\E j \in Jobs, n \in Slots : PollClaims(c, Lapsed, j, n, TRUE))
         /\ WF_vars(\E a \in Attempts : PollReturns(c, Lapsed, a))
         /\ SF_vars(Inspect(c) /\ pc'[c] = "started")
         /\ SF_vars(Look(c, "matched"))
    /\ \A a \in Attempts : WF_vars(Lapse(a) /\ ~ Attended(a))
    /\ <>[][~ Fault]_vars

FairSpec == Spec /\ Fairness

-----------------------------------------------------------------------------
(* Properties                                                               *)

\* Every row, place and entry has its type; and a running attempt is the one its
\* job names, so a job has one at most: an ended one leaves its job, whichever of the
\* callers ended it.
TypeOK == /\ job \in [Jobs -> JobRow]
          /\ att \in [Attempts -> AttemptRow \cup {NoRow}]
          /\ receipt \in [Jobs -> BOOLEAN]
          /\ presses \in [Jobs -> Nat] /\ copies \in [Jobs -> Nat]
          /\ pc \in [Clients -> Places]
          /\ held \in [Clients -> Attempts \cup {None}]
          /\ saved \in [Clients -> Saved]
          /\ \A a \in Attempts : a \in Running <=> \E j \in Jobs : job[j].current = a

Reported(row) == CASE row.status = "succeeded" -> "uploaded"
                   [] row.status = "cancelled" -> "withdrawn"
                   [] OTHER -> "open"

Once == INSTANCE UploadOnce
    WITH sent <- presses, there <- copies, told <- [j \in Jobs |-> Reported(job[j])]

\* No publish button is pressed twice, through lapsed leases, restarts of either
\* side, replayed claims, lost answers and aborts; and what jobs report agrees with
\* what was sent and arrived, for good: a job is
\* uploaded only when its content is on the platform, and cancelled only when no
\* button was pressed, nor will be by an extension that has not heard of it.
UploadsOnce == Once!Spec

\* An extension drops what it knows of an attempt only when the server does not
\* need it: a receipt it holds is recorded, and a job whose button was pressed
\* is not open to another execution.
NothingForgotten ==
    [][\A c \in Clients :
         held[c] # None /\ held'[c] = None =>
            LET j == att[held[c]].job
            IN /\ saved[c] \in {"receipt", "succeeded"} => receipt'[j]
               /\ presses[j] > 0 => job'[j].status \notin {"scheduled", "pending", "cancelled"}]_vars

\* A pause that the server does not take and the extension does not drop.
Stuck(c) == /\ pc[c] = "idle" /\ saved[c] = "pause"
            /\ Stale(c, held[c]) /\ ~ PauseKnown(held[c])
            /\ JobOf(held[c]).status \notin Terminal

\* A job that waits for its reconciliation or is in it.
Reconciling(j) == \/ job[j].status = "reconciling"
                  \/ job[j].current # None /\ att[job[j].current].kind = "reconcile"

\* Where only a person can help, or nothing is left to do.
AtRest(j) == \/ job[j].deleted \/ job[j].status \in Terminal \cup {"paused"}
             \/ Reconciling(j) /\ (copies[j] = 0 \/ job[j].abort)
             \/ \A c \in Clients : Stuck(c)

\* A released upload does not stay with a dead extension or in a restarted one's
\* journal: it ends, is paused, or its content did not arrive and it waits for an
\* operator to find out, unless each extension is kept by a pause of its own.
UploadsSettle == \A j \in Jobs : job[j].status # "scheduled" ~> AtRest(j)

-----------------------------------------------------------------------------
(* What the messages and tests say and the code does not keep               *)

\* Termination of a job that may have mutated answers "it converges after
\* read-only reconciliation" (upload_jobs.py): content that is on the platform is
\* found.  The server hands out the reconciliation, and the extension, which
\* stops at every abort, does not carry it out.
AbortConverges ==
    \A j \in Jobs :
        job[j].status = "reconciling" /\ job[j].abort /\ copies[j] > 0
            ~> \/ job[j].status \in Terminal
               \/ \A c \in Clients : Stuck(c)
=============================================================================
