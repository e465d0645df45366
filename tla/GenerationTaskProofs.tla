------------------------ MODULE GenerationTaskProofs ------------------------
(***************************************************************************)
(* Theorems about GenerationTask, for every number of tasks, workers,      *)
(* chapters, claims and candidates and whatever ids the workers carry.     *)
(***************************************************************************)
EXTENDS GenerationTask, Extrema, SequenceTheorems, TLAPS

(* The inductive invariant *)

InChapter == {"replaying", "crediting", "writing", "preparing", "repairing",
              "admitting", "rejecting", "concluding"}

\* What a call carries from phase to phase.
CallOK(call) ==
    /\ call \in WorkerType
    /\ call.phase # "idle" => call.task \in Tasks
    /\ call.phase \in InChapter => call.at \in Chapters
    /\ call.phase = "finishing" => call.result \in Terminal

CallsOK == \A w \in Workers : CallOK(worker[w])

\* Claims of one task have different epochs, none beyond the row's.
ClaimsApart ==
    /\ \A w \in Workers :
          ~At(w, "idle") => worker[w].epoch <= task[worker[w].task].epoch
    /\ \A v, w \in Workers :
          /\ v # w /\ ~At(v, "idle") /\ ~At(w, "idle")
          /\ worker[v].task = worker[w].task
          => worker[v].epoch # worker[w].epoch

IInv == TypeOK /\ CallsOK /\ ClaimsApart

BookOK ==
    /\ chapter \in [Chapters -> {"planned", "failed", "needs_review", "accepted"}]
    /\ candidate \in [Chapters -> Seq({"reviewed", "ready", "failed", "accepted"})]
    /\ \A c \in Chapters : Len(candidate[c]) <= MaxDrafts
    /\ wrote \in [Tasks -> SUBSET Chapters]
    /\ overrun \in [Tasks -> 0..Book]

-----------------------------------------------------------------------------
(* What every step but a claim keeps *)

\* The epoch of a row.
RowsKept ==
    /\ task' \in [Tasks -> TaskType]
    /\ \A t \in Tasks : task'[t].epoch = task[t].epoch

\* The claim of a call that goes on.
Keeps(old, new) ==
    \/ new.phase = "idle"
    \/ old.phase # "idle" /\ new.task = old.task /\ new.epoch = old.epoch

CallsKept ==
    /\ worker' \in [Workers -> WorkerType]
    /\ \A w \in Workers : CallOK(worker'[w]) /\ Keeps(worker[w], worker'[w])

Kept == RowsKept /\ CallsKept /\ BookOK'

LEMMA TypeParts == TypeOK <=> /\ task \in [Tasks -> TaskType]
                              /\ worker \in [Workers -> WorkerType]
                              /\ BookOK
BY DEF TypeOK, BookOK

\* A step that keeps rows, calls and book preserves the invariant.
LEMMA KeptPreserves == ASSUME IInv, Kept PROVE IInv'
<1>1. TypeOK'
  BY DEF TypeOK, BookOK, Kept, RowsKept, CallsKept
<1>2. CallsOK'
  BY DEF CallsOK, Kept, CallsKept, CallOK
<1>3. \A w \in Workers : ~At(w, "idle")' =>
          ~At(w, "idle") /\ worker'[w].task = worker[w].task
                         /\ worker'[w].epoch = worker[w].epoch
                         /\ worker[w].task \in Tasks
  BY DEF At, Kept, CallsKept, Keeps, IInv, CallsOK, CallOK
<1>4. \A t \in Tasks : task'[t].epoch = task[t].epoch
  BY DEF Kept, RowsKept
<1>5. ClaimsApart'
  BY <1>3, <1>4 DEF IInv, ClaimsApart
<1> QED
  BY <1>1, <1>2, <1>5 DEF IInv

-----------------------------------------------------------------------------
(* Operators *)

LEMMA UnchangedRows == ASSUME TypeOK, UNCHANGED task PROVE RowsKept
BY DEF TypeOK, RowsKept

LEMMA UnchangedCalls == ASSUME TypeOK, CallsOK, UNCHANGED worker PROVE CallsKept
BY DEF TypeOK, CallsKept, CallsOK, CallOK, Keeps

LEMMA UnchangedBook ==
  ASSUME TypeOK, UNCHANGED <<chapter, candidate, wrote, overrun>> PROVE BookOK'
BY DEF TypeOK, BookOK

\* A call replaced by one with the same claim.
LEMMA BecomeKeeps ==
  ASSUME TypeOK, CallsOK, NEW w \in Workers, NEW call, CallOK(call),
         Keeps(worker[w], call), Become(w, call)
  PROVE  CallsKept
<1>1. worker' = [worker EXCEPT ![w] = call]
  BY DEF Become
<1>2. worker \in [Workers -> WorkerType] /\ call \in WorkerType
  BY DEF TypeOK, CallOK
<1>3. worker' \in [Workers -> WorkerType]
  BY <1>1, <1>2
<1>4. \A v \in Workers : worker'[v] = IF v = w THEN call ELSE worker[v]
  BY <1>1, <1>2
<1>5. \A v \in Workers : Keeps(worker[v], worker[v])
  BY DEF Keeps
<1> QED
  BY <1>3, <1>4, <1>5 DEF CallsKept, CallsOK

LEMMA IdleOK == ASSUME TaskAssumption PROVE CallOK(Idle)
BY DEF TaskAssumption, CallOK, Idle, WorkerType, InChapter, None, NoTask

\* The call ends.
LEMMA OverKeeps ==
  ASSUME TaskAssumption, TypeOK, CallsOK, NEW w \in Workers, Over(w)
  PROVE  CallsKept
<1>1. Keeps(worker[w], Idle)
  BY DEF Keeps, Idle
<1> QED
  BY <1>1, IdleOK, BecomeKeeps DEF Over

Statuses == {"absent", "queued", "running", "terminating"} \cup Terminal

\* A row with new values keeps its type and, but for the epoch, is the same claim.
LEMMA RowChange ==
  ASSUME TypeOK, NEW t \in Tasks, NEW r \in TaskType, r.epoch = task[t].epoch,
         task' = [task EXCEPT ![t] = r]
  PROVE  RowsKept
BY DEF TypeOK, RowsKept

LEMMA StampedType ==
  ASSUME NEW r \in TaskType, NEW call \in WorkerType, NEW status \in Statuses
  PROVE  /\ Stamped(r, call, status) \in TaskType
         /\ Stamped(r, call, status).epoch = r.epoch
BY DEF Stamped, TaskType, WorkerType, Statuses

LEMMA ProgressKeeps ==
  ASSUME TypeOK, NEW w \in Workers, worker[w].task \in Tasks,
         NEW call \in WorkerType, NEW status \in Statuses, Progress(w, call, status)
  PROVE  RowsKept
<1> DEFINE t == worker[w].task
           r == Stamped(task[t], call, status)
<1>1. task[t] \in TaskType
  BY DEF TypeOK
<1>2. r \in TaskType /\ r.epoch = task[t].epoch
  BY <1>1, StampedType
<1>3. task' = [task EXCEPT ![t] = r] \/ UNCHANGED task
  BY DEF Progress
<1> QED
  BY <1>2, <1>3, RowChange, UnchangedRows

LEMMA ResultStatusIsTerminal == \A call : ResultStatus(call) \in Terminal
BY DEF ResultStatus, Terminal

\* The run has returned.
LEMMA ReturnedOK ==
  ASSUME TaskAssumption, NEW call \in WorkerType, call.task \in Tasks,
         NEW result \in Terminal
  PROVE  /\ CallOK(Returned(call, result))
         /\ Returned(call, result) \in WorkerType
         /\ Returned(call, result).task = call.task
         /\ Returned(call, result).epoch = call.epoch
<1> DEFINE r == Returned(call, result)
<1>1. /\ r.phase = "finishing" /\ r.result = result
      /\ r.task = call.task /\ r.epoch = call.epoch
  BY DEF Returned, WorkerType
<1>2. {} \in SUBSET Chapters /\ 0 \in 0..Book /\ 0 \in 0..MaxDrafts
  BY DEF TaskAssumption
<1>3. r \in WorkerType
  BY <1>2 DEF Returned, WorkerType
<1> QED
  BY <1>1, <1>3 DEF CallOK, InChapter

\* A worker in a call.
LEMMA InCallFacts ==
  ASSUME IInv, NEW w \in Workers, ~At(w, "idle")
  PROVE  /\ TypeOK /\ CallsOK
         /\ worker[w] \in WorkerType /\ worker[w].phase # "idle"
         /\ worker[w].task \in Tasks
         /\ task[worker[w].task] \in TaskType
         /\ worker[w].phase \in InChapter => worker[w].at \in Chapters
         /\ worker[w].phase = "finishing" => worker[w].result \in Terminal
BY DEF IInv, TypeOK, CallsOK, CallOK, At

\* A run returns with the lists of `call`, whatever it reports.
LEMMA ReturnsKeep ==
  ASSUME TaskAssumption, IInv, NEW w \in Workers, ~At(w, "idle"),
         NEW call \in WorkerType, call.task = worker[w].task, call.epoch = worker[w].epoch,
         NEW result \in Terminal, Become(w, Returned(call, result))
  PROVE  CallsKept
<1>1. CallOK(Returned(call, result)) /\ Keeps(worker[w], Returned(call, result))
  BY InCallFacts, ReturnedOK DEF Keeps
<1> QED
  BY <1>1, InCallFacts, BecomeKeeps

LEMMA ReturnPausedKeeps ==
  ASSUME TaskAssumption, IInv, NEW w \in Workers, ~At(w, "idle"),
         NEW call \in WorkerType, call.task = worker[w].task, call.epoch = worker[w].epoch,
         ReturnPaused(w, call)
  PROVE  RowsKept /\ CallsKept
<1>1. Progress(w, call, "paused") /\ Become(w, Returned(call, "paused"))
  BY DEF ReturnPaused
<1>2. "paused" \in Terminal /\ "paused" \in Statuses
  BY DEF Terminal, Statuses
<1> QED
  BY <1>1, <1>2, InCallFacts, ReturnsKeep, ProgressKeeps

LEMMA ReturnCancelledKeeps ==
  ASSUME TaskAssumption, IInv, NEW w \in Workers, ~At(w, "idle"),
         NEW call \in WorkerType, call.task = worker[w].task, call.epoch = worker[w].epoch,
         ReturnCancelled(w, call)
  PROVE  RowsKept /\ CallsKept
<1>1. Progress(w, call, "cancelled") /\ Become(w, Returned(call, "cancelled"))
  BY DEF ReturnCancelled
<1>2. "cancelled" \in Terminal /\ "cancelled" \in Statuses
  BY DEF Terminal, Statuses
<1> QED
  BY <1>1, <1>2, InCallFacts, ReturnsKeep, ProgressKeeps

\* A call goes on with new values of its own fields.
LEMMA GoesOn ==
  ASSUME IInv, NEW w \in Workers, ~At(w, "idle"),
         NEW call, CallOK(call), call.task = worker[w].task, call.epoch = worker[w].epoch,
         Become(w, call)
  PROVE  CallsKept
<1>1. Keeps(worker[w], call)
  BY InCallFacts DEF Keeps
<1> QED
  BY <1>1, InCallFacts, BecomeKeeps

LEMMA RaisedFacts ==
  ASSUME IInv, NEW w \in Workers, ~At(w, "idle")
  PROVE  /\ CallOK(Raised(worker[w]))
         /\ Raised(worker[w]).task = worker[w].task
         /\ Raised(worker[w]).epoch = worker[w].epoch
<1> DEFINE new == Raised(worker[w])
<1>1. worker[w] \in WorkerType
  BY InCallFacts
<1>2. new = [worker[w] EXCEPT !.phase = "raising", !.beating = FALSE]
  BY DEF Raised
<1>3. /\ new \in WorkerType /\ new.phase = "raising"
      /\ new.task = worker[w].task /\ new.epoch = worker[w].epoch
  BY <1>1, <1>2 DEF WorkerType
<1>4. worker[w].task \in Tasks
  BY InCallFacts
<1> HIDE DEF new
<1>5. CallOK(new)
  BY <1>3, <1>4 DEF CallOK, InChapter
<1> QED
  BY <1>3, <1>5 DEF new

LEMMA RaisedOK ==
  ASSUME IInv, NEW w \in Workers, ~At(w, "idle"), Become(w, Raised(worker[w]))
  PROVE  CallsKept
BY RaisedFacts, GoesOn

LEMMA MarkChapterKeeps ==
  ASSUME TypeOK, NEW c \in Chapters, NEW status \in {"failed", "needs_review"},
         MarkChapter(c, status), UNCHANGED <<candidate, wrote, overrun>>
  PROVE  BookOK'
BY DEF MarkChapter, TypeOK, BookOK

\* A candidate changes its status.
LEMMA CandidateSet ==
  ASSUME TypeOK, NEW c \in Chapters, NEW k \in Nat,
         NEW s \in {"reviewed", "ready", "failed", "accepted"},
         candidate' = [candidate EXCEPT ![c][k] = s]
  PROVE  /\ candidate' \in [Chapters -> Seq({"reviewed", "ready", "failed", "accepted"})]
         /\ \A d \in Chapters : Len(candidate'[d]) <= MaxDrafts
         /\ \A d \in Chapters : Len(candidate'[d]) = Len(candidate[d])
<1> DEFINE S == {"reviewed", "ready", "failed", "accepted"}
           q == [candidate[c] EXCEPT ![k] = s]
<1>1. candidate[c] \in Seq(S) /\ Len(candidate[c]) \in Nat /\ Len(candidate[c]) <= MaxDrafts
  BY DEF TypeOK
<1>2. q \in Seq(S) /\ Len(q) = Len(candidate[c])
  <2>1. CASE k \in 1..Len(candidate[c])
    BY <1>1, <2>1, ExceptSeq
  <2>2. CASE k \notin 1..Len(candidate[c])
    <3>1. candidate[c] \in [1..Len(candidate[c]) -> S]
      BY <1>1, LenProperties
    <3>2. q = candidate[c]
      <4>1. q \in [1..Len(candidate[c]) -> S]
        BY <3>1, <2>2
      <4>2. \A i \in 1..Len(candidate[c]) : q[i] = candidate[c][i]
        BY <3>1, <2>2
      <4> HIDE DEF q
      <4> QED
        BY <3>1, <4>1, <4>2
    <3> QED
      BY <1>1, <3>2
  <2> QED
    BY <2>1, <2>2
<1>3. candidate' = [candidate EXCEPT ![c] = q]
  OBVIOUS
<1> HIDE DEF q
<1> QED
  BY <1>1, <1>2, <1>3 DEF TypeOK

\* A chapter gets a new candidate.
LEMMA CandidateAppended ==
  ASSUME TypeOK, TaskAssumption, NEW c \in Chapters, Len(candidate[c]) < MaxDrafts,
         candidate' = [candidate EXCEPT ![c] = Append(@, "reviewed")],
         UNCHANGED <<chapter, wrote, overrun>>
  PROVE  BookOK'
<1> DEFINE S == {"reviewed", "ready", "failed", "accepted"}
           q == Append(candidate[c], "reviewed")
<1>1. candidate[c] \in Seq(S) /\ Len(candidate[c]) \in Nat
  BY DEF TypeOK
<1>2. q \in Seq(S) /\ Len(q) = Len(candidate[c]) + 1
  BY <1>1
<1>3. candidate' = [candidate EXCEPT ![c] = q]
  OBVIOUS
<1>4. Len(q) <= MaxDrafts
  BY <1>1, <1>2 DEF TaskAssumption
<1> HIDE DEF q
<1> QED
  BY <1>2, <1>3, <1>4 DEF TypeOK, BookOK

-----------------------------------------------------------------------------
(* Resumption *)

LEMMA ResumeFromType ==
  ASSUME TaskAssumption, NEW r \in TaskType
  PROVE  ResumeFrom(r) \in 0..(Book + 1)
<1>1. /\ r.failed \in SUBSET (0..Book) /\ r.paused \in SUBSET (0..Book)
      /\ r.completed \cup {0} \in SUBSET (0..Book) /\ r.completed \cup {0} # {}
      /\ Book \in Nat
  BY DEF TaskType, Chapters, TaskAssumption
<1>2. r.failed # {} => Min(r.failed) \in 0..Book
  BY <1>1, MinOfBounded
<1>3. r.paused # {} => Min(r.paused) \in 0..Book
  BY <1>1, MinOfBounded
<1>4. Max(r.completed \cup {0}) \in 0..Book
  BY <1>1, MaxOfBounded
<1> QED
  BY <1>1, <1>2, <1>3, <1>4 DEF ResumeFrom

LEMMA ChaptersCounted ==
  ASSUME TaskAssumption, NEW S \in SUBSET Chapters
  PROVE  IsFiniteSet(S) /\ Cardinality(S) \in 0..Book
<1>1. IsFiniteSet(Chapters) /\ Cardinality(Chapters) <= Book
  BY FS_Interval DEF TaskAssumption, Chapters
<1>2. IsFiniteSet(S) /\ Cardinality(S) <= Cardinality(Chapters)
  BY <1>1, FS_Subset
<1>3. Cardinality(S) \in Nat /\ Cardinality(Chapters) \in Nat
  BY <1>1, <1>2, FS_CardinalityType
<1> QED
  BY <1>1, <1>2, <1>3 DEF TaskAssumption

LEMMA WorksetType == \A from, limit : Workset(from, limit) \in SUBSET Chapters
BY DEF Workset

-----------------------------------------------------------------------------
(* The HTTP API, the clock and the claim *)

\* A request changes a row, but neither its type nor its epoch.
LEMMA RowStep ==
  ASSUME IInv, RowsKept, UNCHANGED <<worker, chapter, candidate, wrote, overrun>>
  PROVE  Kept
<1>1. CallsKept
  BY UnchangedCalls DEF IInv
<1>2. BookOK'
  BY UnchangedBook DEF IInv
<1> QED
  BY <1>1, <1>2 DEF Kept

LEMMA EnqueueKeeps ==
  ASSUME TaskAssumption, IInv, NEW t \in Tasks, Enqueue(t) PROVE Kept
<1> DEFINE n == Cardinality(Workset(1, MaxChapters))
           r == [task[t] EXCEPT !.status = "queued", !.requested = n]
<1>1. n \in 0..Book
  BY WorksetType, ChaptersCounted
<1>2. task[t] \in TaskType
  BY DEF IInv, TypeOK
<1>3. r \in TaskType /\ r.epoch = task[t].epoch
  <2> HIDE DEF n
  <2> QED
    BY <1>1, <1>2 DEF TaskType
<1>4. task' = [task EXCEPT ![t] = r]
  BY DEF Enqueue
<1>5. RowsKept
  <2> HIDE DEF r
  <2> QED
    BY <1>3, <1>4, RowChange DEF IInv
<1> QED
  BY <1>5, RowStep DEF Enqueue

LEMMA TerminateKeeps == ASSUME IInv, NEW t \in Tasks, Terminate(t) PROVE Kept
<1> DEFINE r == [task[t] EXCEPT !.cancel = TRUE,
                   !.status = IF @ = "queued" THEN "cancelled" ELSE "terminating"]
<1>1. task[t] \in TaskType
  BY DEF IInv, TypeOK
<1>2. r \in TaskType /\ r.epoch = task[t].epoch
  BY <1>1 DEF TaskType, Terminal
<1>3. task' = [task EXCEPT ![t] = r]
  BY DEF Terminate
<1>4. RowsKept
  <2> HIDE DEF r
  <2> QED
    BY <1>2, <1>3, RowChange DEF IInv
<1> QED
  BY <1>4, RowStep DEF Terminate

LEMMA PauseKeeps == ASSUME IInv, NEW t \in Tasks, Pause(t) PROVE Kept
<1> DEFINE b == task[t].live \/ task[t].status = "running"
           r == [task[t] EXCEPT !.pause = TRUE,
                   !.status = IF @ = "queued" THEN "paused" ELSE @, !.live = b]
<1>1. task[t] \in TaskType
  BY DEF IInv, TypeOK
<1>2. b \in BOOLEAN
  BY <1>1 DEF TaskType
<1>3. r \in TaskType /\ r.epoch = task[t].epoch
  <2> HIDE DEF b
  <2> QED
    BY <1>1, <1>2 DEF TaskType, Terminal
<1>4. task' = [task EXCEPT ![t] = r]
  BY <1>1 DEF Pause, TaskType
<1>5. RowsKept
  <2> HIDE DEF r
  <2> QED
    BY <1>3, <1>4, RowChange DEF IInv
<1> QED
  BY <1>5, RowStep DEF Pause

LEMMA DeleteKeeps == ASSUME IInv, NEW t \in Tasks, Delete(t) PROVE Kept
<1> DEFINE r == [task[t] EXCEPT !.deleted = TRUE]
<1>1. task[t] \in TaskType
  BY DEF IInv, TypeOK
<1>2. r \in TaskType /\ r.epoch = task[t].epoch
  BY <1>1 DEF TaskType
<1>3. task' = [task EXCEPT ![t] = r]
  BY DEF Delete
<1>4. RowsKept
  <2> HIDE DEF r
  <2> QED
    BY <1>2, <1>3, RowChange DEF IInv
<1> QED
  BY <1>4, RowStep DEF Delete

LEMMA ExpireKeeps == ASSUME IInv, NEW t \in Tasks, Expire(t) PROVE Kept
<1> DEFINE r == [task[t] EXCEPT !.live = FALSE]
<1>1. task[t] \in TaskType
  BY DEF IInv, TypeOK
<1>2. r \in TaskType /\ r.epoch = task[t].epoch
  BY <1>1 DEF TaskType
<1>3. task' = [task EXCEPT ![t] = r]
  BY DEF Expire
<1>4. RowsKept
  <2> HIDE DEF r
  <2> QED
    BY <1>2, <1>3, RowChange DEF IInv
<1> QED
  BY <1>4, RowStep DEF Expire

\* The one step that gives out a claim: its epoch is beyond every earlier one.
LEMMA ClaimPreserves ==
  ASSUME TaskAssumption, IInv, NEW w \in Workers, Claim(w) PROVE IInv'
<1>1. PICK t \in Tasks :
        /\ Claimable(t) /\ task[t].epoch < MaxEpoch
        /\ task' = [task EXCEPT ![t] =
              [task[t] EXCEPT !.status = "running", !.owner = Name[w],
                              !.epoch = task[t].epoch + 1, !.live = TRUE]]
        /\ Become(w, [Idle EXCEPT !.phase = FirstPhase(task[t]), !.task = t,
                                  !.epoch = task[t].epoch + 1, !.beating = TRUE,
                                  !.seen = task[t].completed,
                                  !.resume = ResumeFrom(task[t])])
  BY DEF Claim
<1> DEFINE n == task[t].epoch + 1
           f == FirstPhase(task[t])
           m == ResumeFrom(task[t])
           r == [task[t] EXCEPT !.status = "running", !.owner = Name[w],
                                !.epoch = n, !.live = TRUE]
           call == [Idle EXCEPT !.phase = f, !.task = t, !.epoch = n, !.beating = TRUE,
                                !.seen = task[t].completed, !.resume = m]
<1>2. task \in [Tasks -> TaskType] /\ task[t] \in TaskType /\ worker \in [Workers -> WorkerType]
  BY DEF IInv, TypeOK
<1>3. n \in 0..MaxEpoch /\ n \in Nat /\ n > task[t].epoch /\ task[t].epoch \in Nat
  BY <1>1, <1>2 DEF TaskType, TaskAssumption
<1>4. r \in TaskType /\ r.epoch = n
  <2>1. Name[w] \in Names \cup {None}
    BY DEF Names
  <2> HIDE DEF n
  <2> QED
    BY <1>2, <1>3, <2>1 DEF TaskType
<1>5. task' = [task EXCEPT ![t] = r]
  BY <1>1
<1>6. f \in {"cancelling", "pausing", "recovering", "starting"}
  BY DEF FirstPhase
<1>7. m \in 0..(Book + 1) /\ task[t].completed \in SUBSET Chapters
  BY <1>2, ResumeFromType DEF TaskType
<1>8. Idle \in WorkerType
  BY IdleOK DEF CallOK
<1>9. /\ call \in WorkerType /\ call.phase = f /\ call.task = t /\ call.epoch = n
  <2> HIDE DEF n, f, m
  <2> QED
    BY <1>3, <1>6, <1>7, <1>8 DEF WorkerType
<1>10. CallOK(call)
  BY <1>6, <1>9 DEF CallOK, InChapter
<1>11. worker' = [worker EXCEPT ![w] = call]
  BY <1>1 DEF Become
<1> HIDE DEF n, f, m, r, call
<1>12. /\ task' \in [Tasks -> TaskType] /\ worker' \in [Workers -> WorkerType]
       /\ \A s \in Tasks : task'[s].epoch = IF s = t THEN n ELSE task[s].epoch
       /\ \A v \in Workers : worker'[v] = IF v = w THEN call ELSE worker[v]
  BY <1>2, <1>4, <1>5, <1>9, <1>11
<1>13. BookOK'
  BY UnchangedBook DEF IInv, Claim
<1>14. TypeOK'
  BY <1>12, <1>13 DEF TypeOK, BookOK
<1>15. CallsOK'
  BY <1>10, <1>12 DEF IInv, CallsOK, CallOK
<1>16. \A v \in Workers : ~At(v, "idle") =>
          /\ worker[v].epoch <= task[worker[v].task].epoch
          /\ worker[v].task \in Tasks /\ worker[v].epoch \in Nat
          /\ task[worker[v].task].epoch \in Nat
  <2>1. SUFFICES ASSUME NEW v \in Workers, ~At(v, "idle")
                 PROVE  /\ worker[v].epoch <= task[worker[v].task].epoch
                        /\ worker[v].task \in Tasks /\ worker[v].epoch \in Nat
                        /\ task[worker[v].task].epoch \in Nat
    OBVIOUS
  <2>2. worker[v] \in WorkerType /\ worker[v].task \in Tasks
    BY <2>1, InCallFacts
  <2>3. worker[v].epoch \in 0..MaxEpoch /\ task[worker[v].task].epoch \in 0..MaxEpoch
    BY <1>2, <2>2 DEF WorkerType, TaskType
  <2>4. worker[v].epoch <= task[worker[v].task].epoch
    BY <2>1 DEF IInv, ClaimsApart
  <2> QED
    BY <2>2, <2>3, <2>4 DEF TaskAssumption
<1>17. ClaimsApart'
  <2>1. \A v \in Workers : ~At(v, "idle")' =>
           worker'[v].epoch <= task'[worker'[v].task].epoch
    <3>1. SUFFICES ASSUME NEW v \in Workers, ~At(v, "idle")'
                   PROVE  worker'[v].epoch <= task'[worker'[v].task].epoch
      OBVIOUS
    <3>2. CASE v = w
      BY <1>3, <1>9, <1>12, <3>2
    <3>3. CASE v # w
      <4>1. worker'[v] = worker[v] /\ ~At(v, "idle")
        BY <1>12, <3>1, <3>3 DEF At
      <4>2. task'[worker[v].task].epoch >= task[worker[v].task].epoch
        <5>1. worker[v].task \in Tasks /\ task[worker[v].task].epoch \in Nat
          BY <1>16, <4>1
        <5>2. task'[worker[v].task].epoch = IF worker[v].task = t THEN n
                                            ELSE task[worker[v].task].epoch
          BY <1>12, <5>1
        <5> QED
          BY <1>3, <5>1, <5>2
      <4>3. /\ worker[v].epoch <= task[worker[v].task].epoch
            /\ worker[v].epoch \in Nat /\ task[worker[v].task].epoch \in Nat
            /\ task'[worker[v].task].epoch \in Nat
        BY <1>3, <1>12, <1>16, <4>1
      <4> QED
        BY <4>1, <4>2, <4>3
    <3> QED
      BY <3>2, <3>3
  <2>2. \A v \in Workers \ {w} :
           ~At(v, "idle")' /\ worker'[v].task = t => worker'[v].epoch < n
    BY <1>3, <1>12, <1>16 DEF At
  <2>3. \A u, v \in Workers :
           u # v /\ ~At(u, "idle")' /\ ~At(v, "idle")' /\ worker'[v].task = worker'[u].task
           => worker'[v].epoch # worker'[u].epoch
    <3>1. SUFFICES ASSUME NEW u \in Workers, NEW v \in Workers, u # v,
                          ~At(u, "idle")', ~At(v, "idle")',
                          worker'[v].task = worker'[u].task
                   PROVE  worker'[v].epoch # worker'[u].epoch
      OBVIOUS
    <3>2. CASE u = w
      <4>1. worker'[v].epoch < n /\ worker'[v].epoch \in Nat
        BY <1>9, <1>12, <1>16, <2>2, <3>1, <3>2 DEF At
      <4> QED
        BY <1>3, <1>9, <1>12, <3>2, <4>1
    <3>3. CASE v = w
      <4>1. worker'[u].epoch < n /\ worker'[u].epoch \in Nat
        BY <1>9, <1>12, <1>16, <2>2, <3>1, <3>3 DEF At
      <4> QED
        BY <1>3, <1>9, <1>12, <3>3, <4>1
    <3>4. CASE u # w /\ v # w
      BY <1>12, <3>1, <3>4 DEF At, IInv, ClaimsApart
    <3> QED
      BY <3>2, <3>3, <3>4
  <2> QED
    BY <2>1, <2>3 DEF ClaimsApart
<1> QED
  BY <1>14, <1>15, <1>17 DEF IInv

-----------------------------------------------------------------------------
(* Stop requests and recovery *)

LEMMA HeartbeatKeeps == ASSUME IInv, NEW w \in Workers, Heartbeat(w) PROVE Kept
<1>1. TypeOK /\ CallsOK
  BY DEF IInv
<1>2. BookOK'
  BY <1>1, UnchangedBook DEF Heartbeat
<1>3. CASE OwnsRow(w) /\ task[worker[w].task].status = "running"
  <2> DEFINE t == worker[w].task
             r == [task[t] EXCEPT !.live = TRUE]
  <2>1. task' = [task EXCEPT ![t] = r] /\ UNCHANGED worker
    BY <1>3 DEF Heartbeat
  <2>2. RowsKept
    <3>1. CASE t \in Tasks
      <4>1. r \in TaskType /\ r.epoch = task[t].epoch
        <5>1. task[t] \in TaskType
          BY <1>1, <3>1 DEF TypeOK
        <5> QED
          BY <5>1 DEF TaskType
      <4> HIDE DEF r
      <4> QED
        BY <1>1, <2>1, <3>1, <4>1, RowChange
    <3>2. CASE t \notin Tasks
      BY <1>1, <2>1, <3>2 DEF TypeOK, RowsKept
    <3> QED
      BY <3>1, <3>2
  <2> QED
    BY <1>1, <1>2, <2>1, <2>2, UnchangedCalls DEF Kept
<1>4. CASE ~(OwnsRow(w) /\ task[worker[w].task].status = "running")
  <2> DEFINE call == [worker[w] EXCEPT !.beating = FALSE]
  <2>1. worker' = [worker EXCEPT ![w] = call] /\ UNCHANGED task
    BY <1>4 DEF Heartbeat
  <2>2. CallOK(call) /\ Keeps(worker[w], call)
    <3>1. CallOK(worker[w]) /\ worker[w] \in WorkerType
      BY <1>1 DEF CallsOK, CallOK
    <3>2. call \in WorkerType
      BY <3>1 DEF WorkerType
    <3>3. /\ call.phase = worker[w].phase /\ call.task = worker[w].task
          /\ call.epoch = worker[w].epoch /\ call.at = worker[w].at
          /\ call.result = worker[w].result
      BY <3>1 DEF WorkerType
    <3> HIDE DEF call
    <3> QED
      BY <3>1, <3>2, <3>3 DEF CallOK, Keeps
  <2>3. Become(w, call)
    BY <2>1 DEF Become
  <2> HIDE DEF call
  <2> QED
    BY <1>1, <1>2, <2>1, <2>2, <2>3, BecomeKeeps, UnchangedRows DEF Kept
<1> QED
  BY <1>3, <1>4

\* A step inside a call that leaves the book alone.
LEMMA CallStep ==
  ASSUME IInv, RowsKept, CallsKept, UNCHANGED <<chapter, candidate, wrote, overrun>>
  PROVE  Kept
<1>1. BookOK'
  BY UnchangedBook DEF IInv
<1> QED
  BY <1>1 DEF Kept

\* The row gets another status.
LEMMA StatusChange ==
  ASSUME TypeOK, NEW t \in Tasks, NEW status \in Statuses,
         task' = [task EXCEPT ![t].status = status]
  PROVE  RowsKept
<1> DEFINE r == [task[t] EXCEPT !.status = status]
<1>1. r \in TaskType /\ r.epoch = task[t].epoch
  <2>1. task[t] \in TaskType
    BY DEF TypeOK
  <2> QED
    BY <2>1 DEF TaskType, Statuses
<1>2. task' = [task EXCEPT ![t] = r]
  OBVIOUS
<1> HIDE DEF r
<1> QED
  BY <1>1, <1>2, RowChange

LEMMA AcknowledgeKeeps ==
  ASSUME TaskAssumption, IInv, NEW w \in Workers, Acknowledge(w) PROVE Kept
<1>1. ~At(w, "idle") /\ UNCHANGED <<chapter, candidate, wrote, overrun>>
  BY DEF Acknowledge, At
<1>2. CASE Holds(w)
  <2> DEFINE status == IF At(w, "cancelling") THEN "cancelled" ELSE "paused"
  <2>1. task' = [task EXCEPT ![worker[w].task].status = status] /\ Over(w)
    BY <1>2 DEF Acknowledge
  <2>2. status \in Statuses
    BY DEF Statuses, Terminal
  <2> HIDE DEF status
  <2> QED
    BY <1>1, <2>1, <2>2, InCallFacts, StatusChange, OverKeeps, CallStep
<1>3. CASE ~Holds(w)
  <2>1. UNCHANGED task /\ Become(w, Raised(worker[w]))
    BY <1>3 DEF Acknowledge
  <2> QED
    BY <1>1, <2>1, InCallFacts, UnchangedRows, RaisedOK, CallStep
<1> QED
  BY <1>2, <1>3

LEMMA ReadCandidateKeeps ==
  ASSUME TaskAssumption, IInv, NEW w \in Workers, ReadCandidate(w) PROVE Kept
<1> DEFINE c == worker[w].resume
           k == IF c \in Chapters THEN Len(candidate[c]) ELSE 0
<1>1. /\ ~At(w, "idle") /\ UNCHANGED <<task, chapter, candidate, wrote, overrun>>
      /\ worker[w].phase = "recovering"
  BY DEF ReadCandidate, At
<1>2. /\ worker[w] \in WorkerType /\ worker[w].task \in Tasks
  BY <1>1, InCallFacts
<1>3. \/ c \in worker[w].seen /\ Become(w, [worker[w] EXCEPT !.phase = "starting", !.resume = c + 1])
      \/ Become(w, [worker[w] EXCEPT !.phase = "starting"])
      \/ Become(w, Raised(worker[w]))
      \/ c \in Chapters /\ Become(w, [worker[w] EXCEPT !.phase = "replaying", !.at = c, !.draft = k])
  BY DEF ReadCandidate
<1>4. CASE c \in worker[w].seen /\ Become(w, [worker[w] EXCEPT !.phase = "starting", !.resume = c + 1])
  <2> DEFINE m == c + 1
             call == [worker[w] EXCEPT !.phase = "starting", !.resume = m]
  <2>1. m \in 0..(Book + 1)
    BY <1>2, <1>4 DEF WorkerType, Chapters, TaskAssumption
  <2>2. CallOK(call) /\ call.task = worker[w].task /\ call.epoch = worker[w].epoch
    <3> HIDE DEF m
    <3> QED
      BY <1>2, <2>1 DEF CallOK, WorkerType, InChapter
  <2> QED
    BY <1>1, <1>4, <2>2, GoesOn, InCallFacts, UnchangedRows, CallStep
<1>5. CASE Become(w, [worker[w] EXCEPT !.phase = "starting"])
  <2> DEFINE call == [worker[w] EXCEPT !.phase = "starting"]
  <2>1. CallOK(call) /\ call.task = worker[w].task /\ call.epoch = worker[w].epoch
    BY <1>2 DEF CallOK, WorkerType, InChapter
  <2> QED
    BY <1>1, <1>5, <2>1, GoesOn, InCallFacts, UnchangedRows, CallStep
<1>6. CASE Become(w, Raised(worker[w]))
  BY <1>1, <1>6, RaisedOK, InCallFacts, UnchangedRows, CallStep
<1>7. CASE /\ c \in Chapters
           /\ Become(w, [worker[w] EXCEPT !.phase = "replaying", !.at = c, !.draft = k])
  <2> DEFINE call == [worker[w] EXCEPT !.phase = "replaying", !.at = c, !.draft = k]
  <2>1. k \in 0..MaxDrafts
    BY <1>7 DEF IInv, TypeOK, TaskAssumption
  <2>2. c \in 0..Book
    BY <1>7 DEF Chapters
  <2>3. CallOK(call) /\ call.task = worker[w].task /\ call.epoch = worker[w].epoch
    <3> HIDE DEF c, k
    <3> QED
      BY <1>2, <1>7, <2>1, <2>2 DEF CallOK, WorkerType, InChapter
  <2> QED
    BY <1>1, <1>7, <2>3, GoesOn, InCallFacts, UnchangedRows, CallStep
<1> QED
  BY <1>3, <1>4, <1>5, <1>6, <1>7

\* A chapter enters canon.
LEMMA EnterCanonKeeps ==
  ASSUME TaskAssumption, IInv, NEW w \in Workers, worker[w].task \in Tasks,
         NEW c \in Chapters, NEW k \in Nat, EnterCanon(w, c, k)
  PROVE  BookOK'
<1> DEFINE t == worker[w].task
<1>1. TypeOK
  BY DEF IInv
<1>2. /\ candidate' = [candidate EXCEPT ![c][k] = "accepted"]
      /\ chapter' = [chapter EXCEPT ![c] = "accepted"]
      /\ wrote' = [wrote EXCEPT ![t] = @ \cup {c}]
      /\ \/ overrun' = [overrun EXCEPT ![t] = @ + 1] /\ overrun[t] < Book
         \/ overrun' = overrun
  <2>1. overrun \in [Tasks -> 0..Book]
    BY <1>1 DEF TypeOK
  <2> QED
    BY <2>1 DEF EnterCanon
<1>3. /\ candidate' \in [Chapters -> Seq({"reviewed", "ready", "failed", "accepted"})]
      /\ \A d \in Chapters : Len(candidate'[d]) <= MaxDrafts
  BY <1>1, <1>2, CandidateSet
<1>4. chapter' \in [Chapters -> {"planned", "failed", "needs_review", "accepted"}]
  BY <1>1, <1>2 DEF TypeOK
<1>5. wrote' \in [Tasks -> SUBSET Chapters]
  BY <1>1, <1>2 DEF TypeOK
<1>6. overrun' \in [Tasks -> 0..Book]
  <2>1. overrun \in [Tasks -> 0..Book] /\ overrun[t] \in 0..Book
    BY <1>1 DEF TypeOK
  <2>2. overrun[t] < Book => overrun[t] + 1 \in 0..Book
    BY <2>1 DEF TaskAssumption
  <2> QED
    BY <1>2, <2>1, <2>2
<1> QED
  BY <1>3, <1>4, <1>5, <1>6 DEF BookOK

LEMMA CommitPlanKeeps ==
  ASSUME TaskAssumption, IInv, NEW w \in Workers, ~At(w, "idle"),
         worker[w].phase \in InChapter,
         NEW committed, NEW blocked, CommitPlan(w, committed, blocked),
         CallOK(committed), committed.task = worker[w].task, committed.epoch = worker[w].epoch,
         CallOK(blocked), blocked.task = worker[w].task, blocked.epoch = worker[w].epoch
  PROVE  Kept
<1> DEFINE c == worker[w].at
           k == worker[w].draft
<1>1. c \in Chapters /\ k \in Nat /\ worker[w].task \in Tasks /\ TypeOK
  BY InCallFacts DEF WorkerType, TaskAssumption
<1>2. RowsKept
  BY <1>1, UnchangedRows DEF CommitPlan
<1>3. CallsKept
  BY GoesOn DEF CommitPlan
<1>4. BookOK'
  <2>1. \/ UNCHANGED <<chapter, candidate, wrote, overrun>>
        \/ EnterCanon(w, c, k)
        \/ /\ candidate' = [candidate EXCEPT ![c][k] = "failed"]
           /\ UNCHANGED <<chapter, wrote, overrun>>
    BY DEF CommitPlan
  <2>2. CASE UNCHANGED <<chapter, candidate, wrote, overrun>>
    BY <1>1, <2>2, UnchangedBook
  <2>3. CASE EnterCanon(w, c, k)
    BY <1>1, <2>3, EnterCanonKeeps
  <2>4. CASE /\ candidate' = [candidate EXCEPT ![c][k] = "failed"]
             /\ UNCHANGED <<chapter, wrote, overrun>>
    <3>1. /\ candidate' \in [Chapters -> Seq({"reviewed", "ready", "failed", "accepted"})]
          /\ \A d \in Chapters : Len(candidate'[d]) <= MaxDrafts
      BY <1>1, <2>4, CandidateSet
    <3> QED
      BY <1>1, <2>4, <3>1 DEF TypeOK, BookOK
  <2> QED
    BY <2>1, <2>2, <2>3, <2>4
<1> QED
  BY <1>2, <1>3, <1>4 DEF Kept

\* A call that only moves to another phase of a chapter in progress.
LEMMA PhaseMoves ==
  ASSUME IInv, NEW w \in Workers, worker[w].phase \in InChapter,
         NEW phase \in InChapter \cup {"failing", "planning"}
  PROVE  LET call == [worker[w] EXCEPT !.phase = phase]
         IN  CallOK(call) /\ call.task = worker[w].task /\ call.epoch = worker[w].epoch
<1>1. ~At(w, "idle")
  BY DEF At, InChapter
<1> QED
  BY <1>1, InCallFacts DEF CallOK, WorkerType, InChapter

LEMMA ReplayKeeps ==
  ASSUME TaskAssumption, IInv, NEW w \in Workers, Replay(w) PROVE Kept
<1>1. ~At(w, "idle") /\ worker[w].phase \in InChapter
  BY DEF Replay, At, InChapter
<1>2. /\ CallOK(Raised(worker[w]))
      /\ Raised(worker[w]).task = worker[w].task
      /\ Raised(worker[w]).epoch = worker[w].epoch
  BY <1>1, RaisedFacts
<1> DEFINE call == [worker[w] EXCEPT !.phase = "crediting"]
<1>3. CallOK(call) /\ call.task = worker[w].task /\ call.epoch = worker[w].epoch
  BY <1>1, PhaseMoves DEF InChapter
<1>4. CommitPlan(w, call, Raised(worker[w]))
  BY DEF Replay
<1> HIDE DEF call
<1> QED
  BY <1>1, <1>2, <1>3, <1>4, CommitPlanKeeps

LEMMA CreditKeeps ==
  ASSUME TaskAssumption, IInv, NEW w \in Workers, Credit(w) PROVE Kept
<1> DEFINE c == worker[w].at
           t == worker[w].task
<1>1. /\ ~At(w, "idle") /\ worker[w].phase \in InChapter
      /\ UNCHANGED <<chapter, candidate, wrote, overrun>>
  BY DEF Credit, At, InChapter
<1>2. /\ worker[w] \in WorkerType /\ t \in Tasks /\ c \in Chapters
      /\ task[t] \in TaskType /\ TypeOK
  BY <1>1, InCallFacts
<1>3. CASE Holds(w)
  <2> DEFINE seen == worker[w].seen \cup {c}
             m == c + 1
             r == [task[t] EXCEPT !.completed = seen, !.failed = @ \ {c}, !.paused = @ \ {c}]
             call == [worker[w] EXCEPT !.phase = "starting", !.at = 0, !.draft = 0,
                                       !.seen = seen, !.resume = m]
  <2>1. seen \in SUBSET Chapters /\ m \in 0..(Book + 1) /\ 0 \in 0..Book /\ 0 \in 0..MaxDrafts
    BY <1>2 DEF WorkerType, Chapters, TaskAssumption
  <2>2. task' = [task EXCEPT ![t] = r]
    BY <1>3 DEF Credit
  <2>3. Become(w, call)
    <3>1. Become(w, [worker[w] EXCEPT !.phase = "starting", !.at = 0, !.draft = 0,
                                      !.seen = @ \cup {c}, !.resume = c + 1])
      BY <1>3 DEF Credit
    <3>2. call = [worker[w] EXCEPT !.phase = "starting", !.at = 0, !.draft = 0,
                                   !.seen = @ \cup {c}, !.resume = c + 1]
      BY <1>2 DEF WorkerType
    <3> HIDE DEF call
    <3> QED
      BY <3>1, <3>2
  <2> HIDE DEF c, seen, m
  <2>4. r \in TaskType /\ r.epoch = task[t].epoch
    BY <1>2, <2>1 DEF TaskType
  <2>5. CallOK(call) /\ call.task = worker[w].task /\ call.epoch = worker[w].epoch
    BY <1>2, <2>1 DEF CallOK, WorkerType, InChapter
  <2> HIDE DEF r, call
  <2> QED
    BY <1>1, <1>2, <2>2, <2>3, <2>4, <2>5, RowChange, GoesOn, CallStep
<1>4. CASE ~Holds(w)
  <2>1. UNCHANGED task /\ Become(w, Raised(worker[w]))
    BY <1>4 DEF Credit
  <2> QED
    BY <1>1, <1>2, <2>1, UnchangedRows, RaisedOK, CallStep
<1> QED
  BY <1>3, <1>4

LEMMA StartKeeps ==
  ASSUME TaskAssumption, IInv, NEW w \in Workers, Start(w) PROVE Kept
<1> DEFINE t == worker[w].task
           call == [worker[w] EXCEPT !.phase = "planning"]
           seen == worker[w].seen
           r == [task[t] EXCEPT !.status = "completed", !.completed = @ \cup seen]
<1>1. ~At(w, "idle") /\ UNCHANGED <<chapter, candidate, wrote, overrun>>
  BY DEF Start, At
<1>2. /\ worker[w] \in WorkerType /\ t \in Tasks /\ task[t] \in TaskType
      /\ TypeOK /\ CallsOK /\ seen \in SUBSET Chapters
  BY <1>1, InCallFacts DEF WorkerType
<1>3. \/ task' = [task EXCEPT ![t] = r] /\ Over(w)
      \/ UNCHANGED task /\ Become(w, Raised(worker[w]))
      \/ UNCHANGED task /\ Become(w, call)
      \/ task' = [task EXCEPT ![t].status = "running"] /\ Become(w, call)
      \/ UNCHANGED task /\ Become(w, [call EXCEPT !.phase = "failing"])
  BY DEF Start
<1>4. CallOK(call) /\ call.task = worker[w].task /\ call.epoch = worker[w].epoch
  BY <1>2 DEF CallOK, WorkerType, InChapter
<1>5. CASE task' = [task EXCEPT ![t] = r] /\ Over(w)
  <2>1. r \in TaskType /\ r.epoch = task[t].epoch
    <3> HIDE DEF seen
    <3> QED
      BY <1>2 DEF TaskType, Terminal
  <2> HIDE DEF r
  <2> QED
    BY <1>1, <1>2, <1>5, <2>1, RowChange, OverKeeps, CallStep
<1>6. CASE UNCHANGED task /\ Become(w, Raised(worker[w]))
  BY <1>1, <1>2, <1>6, UnchangedRows, RaisedOK, CallStep
<1>7. CASE UNCHANGED task /\ Become(w, call)
  <2> HIDE DEF call
  <2> QED
    BY <1>1, <1>2, <1>4, <1>7, UnchangedRows, GoesOn, CallStep
<1>8. CASE task' = [task EXCEPT ![t].status = "running"] /\ Become(w, call)
  <2>1. "running" \in Statuses
    BY DEF Statuses
  <2> HIDE DEF call
  <2> QED
    BY <1>1, <1>2, <1>4, <1>8, <2>1, StatusChange, GoesOn, CallStep
<1>9. CASE UNCHANGED task /\ Become(w, [call EXCEPT !.phase = "failing"])
  <2> DEFINE new == [call EXCEPT !.phase = "failing"]
  <2>1. CallOK(new) /\ new.task = worker[w].task /\ new.epoch = worker[w].epoch
    BY <1>2 DEF CallOK, WorkerType, InChapter
  <2>2. UNCHANGED task /\ Become(w, new)
    BY <1>9
  <2> HIDE DEF new
  <2> QED
    BY <1>1, <1>2, <2>1, <2>2, UnchangedRows, GoesOn, CallStep
<1> QED
  BY <1>3, <1>5, <1>6, <1>7, <1>8, <1>9

-----------------------------------------------------------------------------
(* The run over the chapters *)

LEMMA PlanKeeps ==
  ASSUME TaskAssumption, IInv, NEW w \in Workers, Plan(w) PROVE Kept
<1> DEFINE t == worker[w].task
           todo == Workset(worker[w].resume, Remaining(worker[w].seen))
           call == [worker[w] EXCEPT !.seen = {}, !.resume = 0]
<1>1. ~At(w, "idle") /\ UNCHANGED <<chapter, candidate, wrote, overrun>>
      /\ worker[w].phase = "planning"
  BY DEF Plan, At
<1>2. /\ worker[w] \in WorkerType /\ t \in Tasks /\ TypeOK
  BY <1>1, InCallFacts
<1>3. 0 \in 0..(Book + 1) /\ todo \in SUBSET Chapters
  BY WorksetType DEF TaskAssumption
<1>4. /\ call \in WorkerType /\ call.task = worker[w].task /\ call.epoch = worker[w].epoch
      /\ call.phase = "planning"
  BY <1>1, <1>2, <1>3 DEF WorkerType
<1>5. \/ UNCHANGED task /\ Become(w, [call EXCEPT !.phase = "failing"])
      \/ UNCHANGED task /\ Become(w, Returned(call, "completed"))
      \/ ReturnCancelled(w, call)
      \/ /\ UNCHANGED task \/ task' = [task EXCEPT ![t].status = "running"]
         /\ Become(w, [call EXCEPT !.phase = "looping", !.todo = todo])
  BY DEF Plan
<1> HIDE DEF call, todo
<1>6. CASE UNCHANGED task /\ Become(w, [call EXCEPT !.phase = "failing"])
  <2> DEFINE new == [call EXCEPT !.phase = "failing"]
  <2>1. CallOK(new) /\ new.task = worker[w].task /\ new.epoch = worker[w].epoch
    BY <1>2, <1>4 DEF CallOK, WorkerType, InChapter
  <2>2. UNCHANGED task /\ Become(w, new)
    BY <1>6
  <2> HIDE DEF new
  <2> QED
    BY <1>1, <1>2, <2>1, <2>2, UnchangedRows, GoesOn, CallStep
<1>7. CASE UNCHANGED task /\ Become(w, Returned(call, "completed"))
  <2>1. "completed" \in Terminal
    BY DEF Terminal
  <2> QED
    BY <1>1, <1>2, <1>4, <1>7, <2>1, UnchangedRows, ReturnsKeep, CallStep
<1>8. CASE ReturnCancelled(w, call)
  BY <1>1, <1>4, <1>8, ReturnCancelledKeeps, CallStep
<1>9. CASE /\ UNCHANGED task \/ task' = [task EXCEPT ![t].status = "running"]
           /\ Become(w, [call EXCEPT !.phase = "looping", !.todo = todo])
  <2> DEFINE new == [call EXCEPT !.phase = "looping", !.todo = todo]
  <2>1. CallOK(new) /\ new.task = worker[w].task /\ new.epoch = worker[w].epoch
    BY <1>2, <1>3, <1>4 DEF CallOK, WorkerType, InChapter
  <2>2. "running" \in Statuses
    BY DEF Statuses
  <2>3. /\ UNCHANGED task \/ task' = [task EXCEPT ![t].status = "running"]
        /\ Become(w, new)
    BY <1>9
  <2> HIDE DEF new
  <2> QED
    BY <1>1, <1>2, <2>1, <2>2, <2>3, UnchangedRows, StatusChange, GoesOn, CallStep
<1> QED
  BY <1>5, <1>6, <1>7, <1>8, <1>9

LEMMA CheckpointKeeps ==
  ASSUME TaskAssumption, IInv, NEW w \in Workers, Checkpoint(w) PROVE Kept
<1>1. /\ ~At(w, "idle") /\ UNCHANGED <<chapter, candidate, wrote, overrun>>
      /\ ReturnCancelled(w, worker[w]) \/ ReturnPaused(w, worker[w])
  BY DEF Checkpoint, At
<1>2. worker[w] \in WorkerType
  BY <1>1, InCallFacts
<1> QED
  BY <1>1, <1>2, ReturnCancelledKeeps, ReturnPausedKeeps, CallStep

\* A report of a status of a running task, followed by another phase.
LEMMA ReportThenGo ==
  ASSUME IInv, NEW w \in Workers, ~At(w, "idle"),
         NEW call \in WorkerType, NEW status \in {"running", "needs_review"},
         Progress(w, call, status),
         NEW new, CallOK(new), new.task = worker[w].task, new.epoch = worker[w].epoch,
         Become(w, new)
  PROVE  RowsKept /\ CallsKept
<1>1. status \in Statuses
  BY DEF Statuses, Terminal
<1> QED
  BY <1>1, InCallFacts, ProgressKeeps, GoesOn

\* A report that the run stops, and its return.
LEMMA ReportThenReturn ==
  ASSUME TaskAssumption, IInv, NEW w \in Workers, ~At(w, "idle"),
         NEW call \in WorkerType, call.task = worker[w].task, call.epoch = worker[w].epoch,
         NEW status \in {"running", "needs_review"}, Progress(w, call, status),
         Become(w, Returned(call, ResultStatus(call)))
  PROVE  RowsKept /\ CallsKept
<1>1. status \in Statuses
  BY DEF Statuses, Terminal
<1>2. ResultStatus(call) \in Terminal
  BY ResultStatusIsTerminal
<1> QED
  BY <1>1, <1>2, InCallFacts, ProgressKeeps, ReturnsKeep

LEMMA NextChapterKeeps ==
  ASSUME TaskAssumption, IInv, NEW w \in Workers, NextChapter(w) PROVE Kept
<1> DEFINE c == Min(worker[w].todo)
           call == [worker[w] EXCEPT !.todo = @ \ {c}]
           blocked == [worker[w] EXCEPT !.paused = @ \cup {c}]
<1>1. /\ ~At(w, "idle") /\ UNCHANGED <<chapter, candidate, wrote, overrun>>
      /\ worker[w].phase = "looping"
  BY DEF NextChapter, At
<1>2. /\ worker[w] \in WorkerType /\ worker[w].task \in Tasks /\ TypeOK
      /\ worker[w].todo \in SUBSET Chapters
  BY <1>1, InCallFacts DEF WorkerType
<1>3. CASE worker[w].todo = {}
  <2>1. /\ UNCHANGED task
        /\ Become(w, Returned(worker[w], ResultStatus(worker[w])))
    BY <1>3 DEF NextChapter
  <2> QED
    BY <1>1, <1>2, <2>1, ResultStatusIsTerminal, UnchangedRows, ReturnsKeep, CallStep
<1>4. CASE worker[w].todo # {}
  <2>1. c \in Chapters
    <3>1. worker[w].todo \in SUBSET (0..Book) /\ Book \in Nat
      BY <1>2 DEF Chapters, TaskAssumption
    <3>2. c \in worker[w].todo
      BY <1>4, <3>1, MinOfBounded
    <3> QED
      BY <1>2, <3>2
  <2>2. \/ /\ Progress(w, blocked, "needs_review")
           /\ Become(w, Returned(blocked, ResultStatus(blocked)))
        \/ ReturnPaused(w, blocked)
        \/ Become(w, [worker[w] EXCEPT !.phase = "failing"]) /\ UNCHANGED task
        \/ Become(w, call) /\ UNCHANGED task
        \/ /\ Progress(w, call, "running")
           /\ Become(w, [call EXCEPT !.phase = "writing", !.at = c])
    BY <1>4 DEF NextChapter
  <2> HIDE DEF c
  <2>3. blocked \in WorkerType /\ blocked.task = worker[w].task /\ blocked.epoch = worker[w].epoch
    BY <1>2, <2>1 DEF WorkerType
  <2>4. /\ call \in WorkerType /\ call.task = worker[w].task /\ call.epoch = worker[w].epoch
        /\ call.phase = "looping"
    BY <1>1, <1>2 DEF WorkerType
  <2>5. CallOK(call)
    BY <1>2, <2>4 DEF CallOK, InChapter
  <2> DEFINE new == [call EXCEPT !.phase = "writing", !.at = c]
  <2> HIDE DEF blocked, call
  <2>6. CallOK(new) /\ new.task = worker[w].task /\ new.epoch = worker[w].epoch
    <3>1. c \in 0..Book
      BY <2>1 DEF Chapters
    <3>2. new \in WorkerType /\ new.task = call.task /\ new.epoch = call.epoch
          /\ new.phase = "writing" /\ new.at = c
      BY <2>4, <3>1 DEF WorkerType
    <3> QED
      BY <1>2, <2>1, <2>4, <3>2 DEF CallOK
  <2> HIDE DEF new
  <2>7. CASE /\ Progress(w, blocked, "needs_review")
             /\ Become(w, Returned(blocked, ResultStatus(blocked)))
    BY <1>1, <2>3, <2>7, ReportThenReturn, CallStep
  <2>8. CASE ReturnPaused(w, blocked)
    BY <1>1, <2>3, <2>8, ReturnPausedKeeps, CallStep
  <2>9. CASE Become(w, call) /\ UNCHANGED task
    BY <1>1, <1>2, <2>4, <2>5, <2>9, UnchangedRows, GoesOn, CallStep
  <2>10. CASE Progress(w, call, "running") /\ Become(w, new)
    BY <1>1, <2>4, <2>6, <2>10, ReportThenGo, CallStep
  <2>11. CASE Become(w, [worker[w] EXCEPT !.phase = "failing"]) /\ UNCHANGED task
    <3> DEFINE fail == [worker[w] EXCEPT !.phase = "failing"]
    <3>1. CallOK(fail) /\ fail.task = worker[w].task /\ fail.epoch = worker[w].epoch
      BY <1>2 DEF CallOK, WorkerType, InChapter
    <3>2. Become(w, fail)
      BY <2>11
    <3> HIDE DEF fail
    <3> QED
      BY <1>1, <1>2, <2>11, <3>1, <3>2, UnchangedRows, GoesOn, CallStep
  <2> QED
    BY <2>2, <2>7, <2>8, <2>9, <2>10, <2>11 DEF new
<1> QED
  BY <1>3, <1>4

\* A worker on a chapter, and its call with the chapter in one of the lists.
LEMMA InChapterFacts ==
  ASSUME TaskAssumption, IInv, NEW w \in Workers, worker[w].phase \in InChapter
  PROVE  /\ ~At(w, "idle") /\ TypeOK /\ CallsOK
         /\ worker[w] \in WorkerType /\ worker[w].task \in Tasks
         /\ worker[w].at \in Chapters /\ worker[w].draft \in Nat
         /\ Len(candidate[worker[w].at]) \in 0..MaxDrafts
<1>1. ~At(w, "idle")
  BY DEF At, InChapter
<1>2. /\ TypeOK /\ CallsOK /\ worker[w] \in WorkerType /\ worker[w].task \in Tasks
      /\ worker[w].at \in Chapters
  BY <1>1, InCallFacts
<1> QED
  BY <1>1, <1>2 DEF TypeOK, WorkerType, TaskAssumption

LEMMA ListsKeep ==
  ASSUME NEW call \in WorkerType, NEW c \in Chapters
  PROVE  /\ LET new == [call EXCEPT !.paused = @ \cup {c}]
            IN  new \in WorkerType /\ new.task = call.task /\ new.epoch = call.epoch
         /\ LET new == [call EXCEPT !.failed = @ \cup {c}]
            IN  new \in WorkerType /\ new.task = call.task /\ new.epoch = call.epoch
         /\ LET new == [call EXCEPT !.done = @ \cup {c}]
            IN  new \in WorkerType /\ new.task = call.task /\ new.epoch = call.epoch
BY DEF WorkerType

LEMMA WriteKeeps ==
  ASSUME TaskAssumption, IInv, NEW w \in Workers, Write(w) PROVE Kept
<1> DEFINE c == worker[w].at
           n == Len(candidate[c]) + 1
           call == [worker[w] EXCEPT !.phase = "preparing", !.draft = n]
<1>1. worker[w].phase \in InChapter
  BY DEF Write, At, InChapter
<1>2. /\ ~At(w, "idle") /\ TypeOK
      /\ worker[w] \in WorkerType /\ worker[w].task \in Tasks /\ c \in Chapters
      /\ Len(candidate[c]) \in 0..MaxDrafts
  BY <1>1, InChapterFacts
<1>3. BookOK'
  BY <1>2, CandidateAppended DEF Write
<1>4. n \in 0..MaxDrafts
  BY <1>2 DEF Write, TaskAssumption
<1>5. \/ ReturnPaused(w, worker[w])
      \/ Progress(w, worker[w], "running") /\ Become(w, call)
  BY DEF Write
<1>6. CallOK(call) /\ call.task = worker[w].task /\ call.epoch = worker[w].epoch
  <2> HIDE DEF n
  <2> QED
    BY <1>2, <1>4 DEF CallOK, WorkerType, InChapter
<1> HIDE DEF call
<1>7. RowsKept /\ CallsKept
  BY <1>2, <1>5, <1>6, ReturnPausedKeeps, ReportThenGo
<1> QED
  BY <1>3, <1>7 DEF Kept

LEMMA GateStopsKeeps ==
  ASSUME TaskAssumption, IInv, NEW w \in Workers, GateStops(w) PROVE Kept
<1> DEFINE c == worker[w].at
           floor == [worker[w] EXCEPT !.failed = @ \cup {c}]
           gate == [worker[w] EXCEPT !.paused = @ \cup {c}]
<1>1. worker[w].phase \in InChapter
  BY DEF GateStops, At, InChapter
<1>2. /\ ~At(w, "idle") /\ TypeOK /\ worker[w] \in WorkerType /\ c \in Chapters
  BY <1>1, InChapterFacts
<1>3. /\ floor \in WorkerType /\ floor.task = worker[w].task /\ floor.epoch = worker[w].epoch
      /\ gate \in WorkerType /\ gate.task = worker[w].task /\ gate.epoch = worker[w].epoch
  BY <1>2, ListsKeep
<1>4. /\ UNCHANGED <<candidate, wrote, overrun>>
      /\ \/ /\ MarkChapter(c, "failed") /\ UNCHANGED task
            /\ Become(w, Returned(floor, ResultStatus(floor)))
         \/ /\ MarkChapter(c, "needs_review") /\ Progress(w, gate, "needs_review")
            /\ Become(w, Returned(gate, ResultStatus(gate)))
  BY DEF GateStops
<1> HIDE DEF floor, gate
<1>5. BookOK'
  BY <1>2, <1>4, MarkChapterKeeps
<1>6. RowsKept /\ CallsKept
  BY <1>2, <1>3, <1>4, ResultStatusIsTerminal, UnchangedRows, ReturnsKeep, ReportThenReturn
<1> QED
  BY <1>5, <1>6 DEF Kept

LEMMA ChapterBlockedKeeps ==
  ASSUME TaskAssumption, IInv, NEW w \in Workers, ChapterBlocked(w) PROVE Kept
<1> DEFINE call == [worker[w] EXCEPT !.paused = @ \cup {worker[w].at}]
<1>1. worker[w].phase \in InChapter
  BY DEF ChapterBlocked, At, InChapter
<1>2. ~At(w, "idle") /\ worker[w] \in WorkerType /\ worker[w].at \in Chapters
  BY <1>1, InChapterFacts
<1>3. call \in WorkerType /\ call.task = worker[w].task /\ call.epoch = worker[w].epoch
  BY <1>2, ListsKeep
<1>4. /\ UNCHANGED <<chapter, candidate, wrote, overrun>>
      /\ Progress(w, call, "needs_review")
      /\ Become(w, Returned(call, ResultStatus(call)))
  BY DEF ChapterBlocked
<1> HIDE DEF call
<1> QED
  BY <1>2, <1>3, <1>4, ReportThenReturn, CallStep

LEMMA PrepareKeeps ==
  ASSUME TaskAssumption, IInv, NEW w \in Workers, Prepare(w) PROVE Kept
<1> DEFINE c == worker[w].at
           k == worker[w].draft
<1>1. worker[w].phase \in InChapter
  BY DEF Prepare, At, InChapter
<1>2. /\ ~At(w, "idle") /\ TypeOK /\ worker[w] \in WorkerType
      /\ c \in Chapters /\ k \in Nat
  BY <1>1, InChapterFacts
<1>3. PICK phase \in {"admitting", "repairing", "rejecting"} :
        Become(w, [worker[w] EXCEPT !.phase = phase])
  BY DEF Prepare
<1>4. /\ Progress(w, worker[w], "running") /\ UNCHANGED <<chapter, wrote, overrun>>
      /\ candidate' = [candidate EXCEPT ![c][k] = "ready"] \/ UNCHANGED candidate
  BY DEF Prepare
<1> DEFINE call == [worker[w] EXCEPT !.phase = phase]
<1>5. CallOK(call) /\ call.task = worker[w].task /\ call.epoch = worker[w].epoch
  BY <1>1, PhaseMoves DEF InChapter
<1> HIDE DEF call
<1>6. RowsKept /\ CallsKept
  BY <1>2, <1>3, <1>4, <1>5, ReportThenGo DEF call
<1>7. BookOK'
  <2>1. CASE UNCHANGED candidate
    BY <1>2, <1>4, <2>1, UnchangedBook
  <2>2. CASE candidate' = [candidate EXCEPT ![c][k] = "ready"]
    <3>1. /\ candidate' \in [Chapters -> Seq({"reviewed", "ready", "failed", "accepted"})]
          /\ \A d \in Chapters : Len(candidate'[d]) <= MaxDrafts
      BY <1>2, <2>2, CandidateSet
    <3> QED
      BY <1>2, <1>4, <3>1 DEF TypeOK, BookOK
  <2> QED
    BY <1>4, <2>1, <2>2
<1> QED
  BY <1>6, <1>7 DEF Kept

LEMMA RepairKeeps ==
  ASSUME TaskAssumption, IInv, NEW w \in Workers, Repair(w) PROVE Kept
<1> DEFINE c == worker[w].at
           n == Len(candidate[c]) + 1
<1>1. worker[w].phase \in InChapter
  BY DEF Repair, At, InChapter
<1>2. /\ ~At(w, "idle") /\ TypeOK
      /\ worker[w] \in WorkerType /\ worker[w].task \in Tasks /\ c \in Chapters
      /\ Len(candidate[c]) \in 0..MaxDrafts
  BY <1>1, InChapterFacts
<1>3. BookOK' /\ RowsKept
  BY <1>2, CandidateAppended, UnchangedRows DEF Repair
<1>4. n \in 0..MaxDrafts
  BY <1>2 DEF Repair, TaskAssumption
<1>5. PICK phase \in {"preparing", "rejecting"} :
        Become(w, [worker[w] EXCEPT !.phase = phase, !.draft = n])
  BY DEF Repair
<1> DEFINE call == [worker[w] EXCEPT !.phase = phase, !.draft = n]
<1>6. CallOK(call) /\ call.task = worker[w].task /\ call.epoch = worker[w].epoch
  <2> HIDE DEF n
  <2>1. call \in WorkerType /\ call.phase = phase /\ call.at = worker[w].at
        /\ call.task = worker[w].task /\ call.epoch = worker[w].epoch
    BY <1>2, <1>4 DEF WorkerType
  <2> QED
    BY <1>2, <2>1 DEF CallOK, InChapter
<1>7. Become(w, call)
  BY <1>5
<1> HIDE DEF call
<1> QED
  BY <1>2, <1>3, <1>6, <1>7, GoesOn DEF Kept

LEMMA AdmitKeeps ==
  ASSUME TaskAssumption, IInv, NEW w \in Workers, Admit(w) PROVE Kept
<1> DEFINE committed == [worker[w] EXCEPT !.phase = "concluding"]
           blocked == [worker[w] EXCEPT !.phase = "rejecting"]
<1>1. ~At(w, "idle") /\ worker[w].phase \in InChapter
  BY DEF Admit, At, InChapter
<1>2. /\ CallOK(committed) /\ committed.task = worker[w].task
      /\ committed.epoch = worker[w].epoch
      /\ CallOK(blocked) /\ blocked.task = worker[w].task
      /\ blocked.epoch = worker[w].epoch
  BY <1>1, PhaseMoves DEF InChapter
<1>3. CommitPlan(w, committed, blocked)
  BY DEF Admit
<1> HIDE DEF committed, blocked
<1> QED
  BY <1>1, <1>2, <1>3, CommitPlanKeeps

LEMMA RejectKeeps ==
  ASSUME TaskAssumption, IInv, NEW w \in Workers, Reject(w) PROVE Kept
<1> DEFINE call == [worker[w] EXCEPT !.paused = @ \cup {worker[w].at}]
<1>1. worker[w].phase \in InChapter
  BY DEF Reject, At, InChapter
<1>2. ~At(w, "idle") /\ TypeOK /\ worker[w] \in WorkerType /\ worker[w].at \in Chapters
  BY <1>1, InChapterFacts
<1>3. call \in WorkerType /\ call.task = worker[w].task /\ call.epoch = worker[w].epoch
  BY <1>2, ListsKeep
<1>4. /\ UNCHANGED <<candidate, wrote, overrun>>
      /\ MarkChapter(worker[w].at, "needs_review")
      /\ Progress(w, call, "needs_review")
      /\ Become(w, Returned(call, ResultStatus(call)))
  BY DEF Reject
<1> HIDE DEF call
<1>5. BookOK'
  BY <1>2, <1>4, MarkChapterKeeps
<1> QED
  BY <1>2, <1>3, <1>4, <1>5, ReportThenReturn DEF Kept

LEMMA ConcludeKeeps ==
  ASSUME TaskAssumption, IInv, NEW w \in Workers, Conclude(w) PROVE Kept
<1> DEFINE c == worker[w].at
           call == [worker[w] EXCEPT !.done = @ \cup {c}]
           held == [call EXCEPT !.paused = @ \cup {c}]
           next == [call EXCEPT !.phase = "looping", !.at = 0, !.draft = 0]
<1>1. worker[w].phase \in InChapter
  BY DEF Conclude, At, InChapter
<1>2. /\ ~At(w, "idle") /\ worker[w] \in WorkerType /\ worker[w].task \in Tasks
      /\ c \in Chapters
  BY <1>1, InChapterFacts
<1>3. call \in WorkerType /\ call.task = worker[w].task /\ call.epoch = worker[w].epoch
  BY <1>2, ListsKeep
<1>4. /\ UNCHANGED <<chapter, candidate, wrote, overrun>>
      /\ \/ ReturnPaused(w, worker[w])
         \/ ReturnPaused(w, call)
         \/ ReturnPaused(w, held)
         \/ Progress(w, call, "running") /\ Become(w, next)
  BY DEF Conclude
<1> HIDE DEF call
<1>5. held \in WorkerType /\ held.task = worker[w].task /\ held.epoch = worker[w].epoch
  BY <1>2, <1>3, ListsKeep
<1>6. CallOK(next) /\ next.task = worker[w].task /\ next.epoch = worker[w].epoch
  <2>1. 0 \in 0..Book /\ 0 \in 0..MaxDrafts
    BY DEF TaskAssumption
  <2>2. /\ next \in WorkerType /\ next.phase = "looping"
        /\ next.task = call.task /\ next.epoch = call.epoch
    BY <1>3, <2>1 DEF WorkerType
  <2> QED
    BY <1>2, <1>3, <2>2 DEF CallOK, InChapter
<1> HIDE DEF held, next
<1>7. RowsKept /\ CallsKept
  BY <1>2, <1>3, <1>4, <1>5, <1>6, ReturnPausedKeeps, ReportThenGo
<1> QED
  BY <1>4, <1>7, CallStep

LEMMA ChapterFailsKeeps ==
  ASSUME TaskAssumption, IInv, NEW w \in Workers, ChapterFails(w) PROVE Kept
<1> DEFINE c == worker[w].at
           deferred == [worker[w] EXCEPT !.done = @ \cup {c}, !.paused = @ \cup {c}]
           failed == [worker[w] EXCEPT !.failed = @ \cup {c}]
<1>1. worker[w].phase \in InChapter
  BY DEF ChapterFails, At, InChapter
<1>2. /\ ~At(w, "idle") /\ TypeOK /\ worker[w] \in WorkerType /\ c \in Chapters
  BY <1>1, InChapterFacts
<1>3. /\ failed \in WorkerType /\ failed.task = worker[w].task /\ failed.epoch = worker[w].epoch
      /\ deferred \in WorkerType /\ deferred.task = worker[w].task
      /\ deferred.epoch = worker[w].epoch
  BY <1>2 DEF WorkerType
<1>4. /\ UNCHANGED <<candidate, wrote, overrun>>
      /\ \/ ReturnPaused(w, deferred) /\ UNCHANGED chapter
         \/ /\ MarkChapter(c, "failed") /\ Progress(w, failed, "running")
            /\ Become(w, Returned(failed, ResultStatus(failed)))
  BY DEF ChapterFails
<1> HIDE DEF failed, deferred
<1>5. BookOK'
  BY <1>2, <1>4, MarkChapterKeeps, UnchangedBook
<1>6. RowsKept /\ CallsKept
  BY <1>2, <1>3, <1>4, ReturnPausedKeeps, ReportThenReturn
<1> QED
  BY <1>5, <1>6 DEF Kept

-----------------------------------------------------------------------------
(* The end of the call *)

LEMMA FinishKeeps ==
  ASSUME TaskAssumption, IInv, NEW w \in Workers, Finish(w) PROVE Kept
<1> DEFINE phase == IF Holds(w) THEN "reporting" ELSE "failing"
           call == [worker[w] EXCEPT !.phase = phase]
<1>1. /\ ~At(w, "idle") /\ worker[w].phase = "finishing"
      /\ UNCHANGED <<chapter, candidate, wrote, overrun>>
      /\ Progress(w, worker[w], worker[w].result) /\ Become(w, call)
  BY DEF Finish, At
<1>2. /\ TypeOK /\ CallsOK /\ worker[w] \in WorkerType /\ worker[w].task \in Tasks
  BY <1>1, InCallFacts
<1>3. worker[w].result \in Statuses
  BY <1>1, <1>2 DEF CallsOK, CallOK, Statuses
<1>4. phase \in {"reporting", "failing"}
  OBVIOUS
<1> HIDE DEF phase
<1>5. CallOK(call) /\ call.task = worker[w].task /\ call.epoch = worker[w].epoch
  <2>1. /\ call \in WorkerType /\ call.phase = phase
        /\ call.task = worker[w].task /\ call.epoch = worker[w].epoch
    BY <1>2, <1>4 DEF WorkerType
  <2> QED
    BY <1>2, <1>4, <2>1 DEF CallOK, InChapter
<1> HIDE DEF call
<1> QED
  BY <1>1, <1>2, <1>3, <1>5, ProgressKeeps, GoesOn, CallStep

LEMMA ReportKeeps ==
  ASSUME TaskAssumption, IInv, NEW w \in Workers, Report(w) PROVE Kept
<1> DEFINE call == [worker[w] EXCEPT !.phase = "failing"]
<1>1. /\ ~At(w, "idle") /\ UNCHANGED <<task, chapter, candidate, wrote, overrun>>
      /\ Over(w) \/ Become(w, call)
  BY DEF Report, At
<1>2. /\ TypeOK /\ CallsOK /\ worker[w] \in WorkerType /\ worker[w].task \in Tasks
  BY <1>1, InCallFacts
<1>3. CallOK(call) /\ call.task = worker[w].task /\ call.epoch = worker[w].epoch
  BY <1>2 DEF CallOK, WorkerType, InChapter
<1> HIDE DEF call
<1> QED
  BY <1>1, <1>2, <1>3, UnchangedRows, OverKeeps, GoesOn, CallStep

LEMMA FailKeeps ==
  ASSUME TaskAssumption, IInv, NEW w \in Workers, Fail(w) PROVE Kept
<1>1. /\ ~At(w, "idle") /\ UNCHANGED <<chapter, candidate, wrote, overrun>>
      /\ \/ /\ task' = [task EXCEPT ![worker[w].task].status = "failed"]
            /\ Over(w)
         \/ Become(w, Raised(worker[w])) /\ UNCHANGED task
  BY DEF Fail, At
<1>2. TypeOK /\ CallsOK /\ worker[w].task \in Tasks /\ "failed" \in Statuses
  BY <1>1, InCallFacts DEF Statuses, Terminal
<1> QED
  BY <1>1, <1>2, StatusChange, OverKeeps, UnchangedRows, RaisedOK, CallStep

LEMMA RaiseKeeps ==
  ASSUME TaskAssumption, IInv, NEW w \in Workers, Raise(w) PROVE Kept
<1> DEFINE call == [worker[w] EXCEPT !.phase = "condemning"]
<1>1. /\ ~At(w, "idle") /\ UNCHANGED <<task, chapter, candidate, wrote, overrun>>
      /\ Over(w) \/ Become(w, call)
  BY DEF Raise, At
<1>2. /\ TypeOK /\ CallsOK /\ worker[w] \in WorkerType /\ worker[w].task \in Tasks
  BY <1>1, InCallFacts
<1>3. CallOK(call) /\ call.task = worker[w].task /\ call.epoch = worker[w].epoch
  BY <1>2 DEF CallOK, WorkerType, InChapter
<1> HIDE DEF call
<1> QED
  BY <1>1, <1>2, <1>3, UnchangedRows, OverKeeps, GoesOn, CallStep

LEMMA CondemnKeeps ==
  ASSUME TaskAssumption, IInv, NEW w \in Workers, Condemn(w) PROVE Kept
<1> DEFINE t == worker[w].task
           lost == task[t].condemned \/ ~OwnsRow(w)
           r == [task[t] EXCEPT !.status = "failed", !.condemned = lost]
<1>1. ~At(w, "idle") /\ UNCHANGED <<chapter, candidate, wrote, overrun>> /\ Over(w)
  BY DEF Condemn, At
<1>2. TypeOK /\ CallsOK /\ t \in Tasks /\ task[t] \in TaskType
  BY <1>1, InCallFacts
<1>3. task' = [task EXCEPT ![t] = r]
  BY DEF Condemn
<1>4. lost \in BOOLEAN
  BY <1>2 DEF TaskType
<1> HIDE DEF lost
<1>5. r \in TaskType /\ r.epoch = task[t].epoch
  BY <1>2, <1>4 DEF TaskType, Terminal
<1> HIDE DEF r
<1> QED
  BY <1>1, <1>2, <1>3, <1>5, RowChange, OverKeeps, CallStep

LEMMA CrashKeeps ==
  ASSUME TaskAssumption, IInv, NEW w \in Workers, Crash(w) PROVE Kept
<1>1. Over(w) /\ UNCHANGED <<task, chapter, candidate, wrote, overrun>>
  BY DEF Crash
<1> QED
  BY <1>1, UnchangedRows, OverKeeps, CallStep DEF IInv

-----------------------------------------------------------------------------
(* The invariant *)

LEMMA RunKeeps ==
  ASSUME TaskAssumption, IInv, NEW w \in Workers, Run(w) PROVE Kept
BY AcknowledgeKeeps, ReadCandidateKeeps, ReplayKeeps, CreditKeeps, StartKeeps,
   PlanKeeps, CheckpointKeeps, NextChapterKeeps, WriteKeeps, GateStopsKeeps,
   ChapterBlockedKeeps, PrepareKeeps, RepairKeeps, AdmitKeeps, RejectKeeps,
   ConcludeKeeps, ChapterFailsKeeps, FinishKeeps, ReportKeeps, FailKeeps,
   RaiseKeeps, CondemnKeeps DEF Run

LEMMA InitIInv == ASSUME TaskAssumption, Init PROVE IInv
<1>1. task \in [Tasks -> TaskType]
  <2> DEFINE r == [status |-> "absent", deleted |-> FALSE, cancel |-> FALSE,
                   pause |-> FALSE, owner |-> None, epoch |-> 0, live |-> FALSE,
                   requested |-> 0, completed |-> {}, failed |-> {}, paused |-> {},
                   condemned |-> FALSE]
  <2>1. 0 \in 0..MaxEpoch /\ 0 \in 0..Book
    BY DEF TaskAssumption
  <2>2. r \in TaskType
    BY <2>1 DEF TaskType
  <2>3. task = [t \in Tasks |-> r]
    BY DEF Init
  <2> QED
    BY <2>2, <2>3
<1>2. \A w \in Workers : worker[w] = Idle
  BY DEF Init
<1>3. worker \in [Workers -> WorkerType]
  BY IdleOK DEF Init, CallOK
<1>4. BookOK
  <2>1. << >> \in Seq({"reviewed", "ready", "failed", "accepted"}) /\ Len(<< >>) = 0
    OBVIOUS
  <2> QED
    BY <2>1 DEF Init, BookOK, TaskAssumption
<1>5. CallsOK
  BY <1>2, IdleOK DEF CallsOK
<1>6. ClaimsApart
  BY <1>2 DEF ClaimsApart, At, Idle
<1> QED
  BY <1>1, <1>3, <1>4, <1>5, <1>6, TypeParts DEF IInv

LEMMA NextIInv == ASSUME TaskAssumption, IInv, [Next]_vars PROVE IInv'
<1>1. ASSUME NEW t \in Tasks,
             Enqueue(t) \/ Terminate(t) \/ Pause(t) \/ Delete(t) \/ Expire(t)
      PROVE  IInv'
  BY <1>1, EnqueueKeeps, TerminateKeeps, PauseKeeps, DeleteKeeps, ExpireKeeps, KeptPreserves
<1>2. ASSUME NEW w \in Workers, Claim(w) PROVE IInv'
  BY <1>2, ClaimPreserves
<1>3. ASSUME NEW w \in Workers, Heartbeat(w) \/ Run(w) \/ Crash(w) PROVE IInv'
  BY <1>3, HeartbeatKeeps, RunKeeps, CrashKeeps, KeptPreserves
<1>4. CASE UNCHANGED vars
  BY <1>4, UnchangedRows, RowStep, KeptPreserves DEF vars, IInv
<1> QED
  BY <1>1, <1>2, <1>3, <1>4 DEF Next

\* The inductive invariant holds in every reachable state.
THEOREM Invariance == Spec => []IInv
<1>1. Init => IInv
  BY TaskAssumption, InitIInv
<1>2. IInv /\ [Next]_vars => IInv'
  BY TaskAssumption, NextIInv
<1> QED
  BY <1>1, <1>2, PTL DEF Spec

\* Every variable has its type in every reachable state: no step leaves a row,
\* a call, a chapter or a candidate in a shape the code does not know.
THEOREM TypeCorrect == Spec => []TypeOK
<1>1. IInv => TypeOK
  BY DEF IInv
<1> QED
  BY <1>1, Invariance, PTL

\* At most one worker passes the fence of a task, for any naming of the workers
\* and any number of claims: two calls that own one row have its epoch, and the
\* epochs of two claims of one task differ.
THEOREM FenceAdmitsOne == Spec => []OneHolder
<1>1. IInv => OneHolder
  BY DEF IInv, ClaimsApart, OneHolder, InCall, OwnsRow
<1> QED
  BY <1>1, Invariance, PTL

-----------------------------------------------------------------------------
(* Canon: what the rows and the calls say of it, and what stops after a stop *)

InCanon == {c \in Chapters : Canon(c) # 0}

\* A call that prepares or commits a candidate has one.
DraftOK(call, drafts) ==
    call.phase \in {"replaying", "preparing", "repairing", "admitting"}
        => call.draft \in 1..Len(drafts[call.at])

\* What a call has counted or is about to count is among the chapters of S.
Credits(call, S) ==
    /\ call.done \subseteq S /\ call.seen \subseteq S
    /\ call.phase \in {"crediting", "concluding"} => call.at \in S

CallsCredit ==
    \A w \in Workers : DraftOK(worker[w], candidate) /\ Credits(worker[w], InCanon)

RowsCredit == \A t \in Tasks : task[t].completed \subseteq InCanon

\* The status of a chapter may lag behind canon, but is never ahead of it.
AcceptedIsCanon == \A c \in Chapters : chapter[c] = "accepted" => Canon(c) # 0

NoGap == \A c, d \in Chapters : d < c /\ Canon(c) # 0 => Canon(d) # 0

\* The phases from which a call may still admit a chapter without another look at
\* the stop requests.
MayAdmit == {"recovering", "replaying", "writing", "preparing", "repairing", "admitting"}

Stopping(t) == task[t].cancel \/ task[t].pause

\* Once a chapter has been admitted after a stop request, no owner of the row has
\* another one in progress.
Halted ==
    \A t \in Tasks : overrun[t] # 0 =>
        /\ overrun[t] = 1 /\ Stopping(t)
        /\ \A w \in Workers :
              InCall(w, t) /\ OwnsRow(w) => worker[w].phase \notin MayAdmit

CInv == IInv /\ CallsCredit /\ RowsCredit /\ AcceptedIsCanon /\ NoGap /\ Halted

(* What every step but a claim does *)

Stands(old, new) ==
    /\ DraftOK(new, candidate') /\ Credits(new, InCanon')
    /\ new.phase \in MayAdmit => old.phase \in MayAdmit \/ ~Stopping(old.task)

CallsStand == \A w \in Workers : Stands(worker[w], worker'[w])

RowsStand ==
    \A t \in Tasks :
        /\ task'[t].completed \subseteq InCanon'
        /\ task'[t].owner = task[t].owner
        /\ Stopping(t) => Stopping(t)'

CanonSame == \A c \in Chapters : Canon(c)' = Canon(c)

\* A chapter enters canon after its predecessor.
Entered ==
    \E c \in Chapters, k \in 1..MaxDrafts :
        /\ Canon(c) = 0
        /\ c > 1 => Canon(c - 1) # 0
        /\ \A d \in Chapters : Canon(d)' = IF d = c THEN k ELSE Canon(d)

DraftsStay == \A c \in Chapters : 1..Len(candidate[c]) \subseteq 1..Len(candidate'[c])

\* The one that admits holds the row and leaves the chapter.
Admitted(w) ==
    /\ ~At(w, "idle") /\ OwnsRow(w) /\ worker[w].phase \in MayAdmit
    /\ worker'[w].phase \notin MayAdmit
    /\ \A v \in Workers \ {w} : worker'[v] = worker[v]
    /\ UNCHANGED task
    /\ overrun' = [overrun EXCEPT ![worker[w].task] =
                     IF Stopping(worker[w].task) /\ @ < Book THEN @ + 1 ELSE @]

BookStands ==
    /\ DraftsStay /\ AcceptedIsCanon'
    /\ \/ CanonSame /\ UNCHANGED overrun
       \/ Entered /\ \E w \in Workers : Admitted(w)

-----------------------------------------------------------------------------
(* Canon and the candidates *)

\* A chapter is in canon when one of its candidates is accepted, and then that
\* candidate is one of them.
LEMMA CanonIs ==
  ASSUME TypeOK, NEW c \in Chapters
  PROVE  /\ Canon(c) # 0 <=> \E k \in 1..Len(candidate[c]) : candidate[c][k] = "accepted"
         /\ Canon(c) # 0 => /\ Canon(c) \in 1..Len(candidate[c])
                            /\ candidate[c][Canon(c)] = "accepted"
<1> DEFINE A == {k \in 1..Len(candidate[c]) : candidate[c][k] = "accepted"}
<1>1. Canon(c) = IF A = {} THEN 0 ELSE CHOOSE k \in A : TRUE
  BY DEF Canon
<1>2. A # {} => (CHOOSE k \in A : TRUE) \in A
  OBVIOUS
<1>3. \A k \in A : k # 0 /\ k \in 1..Len(candidate[c]) /\ candidate[c][k] = "accepted"
  BY DEF TypeOK
<1>4. A # {} <=> \E k \in 1..Len(candidate[c]) : candidate[c][k] = "accepted"
  OBVIOUS
<1> HIDE DEF A
<1> QED
  BY <1>1, <1>2, <1>3, <1>4

\* The same accepted candidates, the same canon.
LEMMA SameAccepted ==
  ASSUME NEW c \in Chapters,
         {k \in 1..Len(candidate'[c]) : candidate'[c][k] = "accepted"}
           = {k \in 1..Len(candidate[c]) : candidate[c][k] = "accepted"}
  PROVE  Canon(c)' = Canon(c)
<1> DEFINE A == {k \in 1..Len(candidate[c]) : candidate[c][k] = "accepted"}
           B == {k \in 1..Len(candidate'[c]) : candidate'[c][k] = "accepted"}
<1>1. Canon(c) = IF A = {} THEN 0 ELSE CHOOSE k \in A : TRUE
  BY DEF Canon
<1>2. Canon(c)' = IF B = {} THEN 0 ELSE CHOOSE k \in B : TRUE
  BY DEF Canon
<1>3. A = B
  OBVIOUS
<1> HIDE DEF A, B
<1> QED
  BY <1>1, <1>2, <1>3

\* Only the candidates of chapter c change.
LEMMA OthersSame ==
  ASSUME TypeOK, NEW c \in Chapters, NEW q, candidate' = [candidate EXCEPT ![c] = q]
  PROVE  /\ candidate'[c] = q
         /\ \A d \in Chapters : d # c => candidate'[d] = candidate[d] /\ Canon(d)' = Canon(d)
<1>1. candidate'[c] = q
  BY DEF TypeOK
<1>2. ASSUME NEW d \in Chapters, d # c
      PROVE  candidate'[d] = candidate[d] /\ Canon(d)' = Canon(d)
  <2>1. candidate'[d] = candidate[d]
    BY <1>2 DEF TypeOK
  <2>2. {k \in 1..Len(candidate'[d]) : candidate'[d][k] = "accepted"}
           = {k \in 1..Len(candidate[d]) : candidate[d][k] = "accepted"}
    BY <2>1
  <2> QED
    BY <2>1, <2>2, SameAccepted
<1> QED
  BY <1>1, <1>2

\* A new candidate changes no canon.
LEMMA AppendSame ==
  ASSUME TypeOK, NEW c \in Chapters,
         candidate' = [candidate EXCEPT ![c] = Append(@, "reviewed")]
  PROVE  /\ CanonSame /\ DraftsStay
         /\ Len(candidate'[c]) = Len(candidate[c]) + 1
<1> DEFINE p == candidate[c]
           q == Append(p, "reviewed")
<1>1. p \in Seq({"reviewed", "ready", "failed", "accepted"}) /\ Len(p) \in Nat
  BY DEF TypeOK
<1>2. /\ Len(q) = Len(p) + 1 /\ q[Len(p) + 1] = "reviewed"
      /\ \A k \in 1..Len(p) : q[k] = p[k]
  BY <1>1
<1>3. candidate' = [candidate EXCEPT ![c] = q]
  OBVIOUS
<1> HIDE DEF q
<1>4. /\ candidate'[c] = q
      /\ \A d \in Chapters : d # c => candidate'[d] = candidate[d] /\ Canon(d)' = Canon(d)
  BY <1>3, OthersSame
<1>5. {k \in 1..Len(q) : q[k] = "accepted"} = {k \in 1..Len(p) : p[k] = "accepted"}
  <2>1. \A k \in 1..Len(q) : k \in 1..Len(p) \/ k = Len(p) + 1
    BY <1>1, <1>2
  <2>2. \A k \in 1..Len(p) : k \in 1..Len(q)
    BY <1>1, <1>2
  <2> QED
    BY <1>2, <2>1, <2>2
<1>6. Canon(c)' = Canon(c)
  BY <1>4, <1>5, SameAccepted
<1>7. \A d \in Chapters : 1..Len(candidate[d]) \subseteq 1..Len(candidate'[d])
  BY <1>1, <1>2, <1>4
<1> QED
  BY <1>2, <1>4, <1>6, <1>7 DEF CanonSame, DraftsStay

\* A candidate changes its status.
LEMMA SetCandidate ==
  ASSUME TypeOK, NEW c \in Chapters, NEW k \in 1..Len(candidate[c]),
         NEW s \in {"reviewed", "ready", "failed", "accepted"},
         candidate' = [candidate EXCEPT ![c][k] = s]
  PROVE  /\ DraftsStay
         /\ \A d \in Chapters : d # c => Canon(d)' = Canon(d)
         /\ s # "accepted" /\ candidate[c][k] # "accepted" => CanonSame
         /\ s = "accepted" /\ Canon(c) = 0 => Canon(c)' = k
<1> DEFINE p == candidate[c]
           q == [p EXCEPT ![k] = s]
           S == {"reviewed", "ready", "failed", "accepted"}
<1>1. p \in Seq(S) /\ Len(p) \in Nat
  BY DEF TypeOK
<1>2. /\ Len(q) = Len(p) /\ q[k] = s
      /\ \A i \in 1..Len(p) : i # k => q[i] = p[i]
  BY <1>1, ExceptSeq
<1>3. candidate' = [candidate EXCEPT ![c] = q]
  OBVIOUS
<1> HIDE DEF q
<1>4. /\ candidate'[c] = q
      /\ \A d \in Chapters : d # c => candidate'[d] = candidate[d] /\ Canon(d)' = Canon(d)
  BY <1>3, OthersSame
<1>5. \A d \in Chapters : 1..Len(candidate[d]) \subseteq 1..Len(candidate'[d])
  BY <1>1, <1>2, <1>4
<1>6. ASSUME s # "accepted", p[k] # "accepted" PROVE CanonSame
  <2>1. {i \in 1..Len(q) : q[i] = "accepted"} = {i \in 1..Len(p) : p[i] = "accepted"}
    BY <1>2, <1>6
  <2>2. Canon(c)' = Canon(c)
    BY <1>4, <2>1, SameAccepted
  <2> QED
    BY <1>4, <2>2 DEF CanonSame
<1>7. ASSUME s = "accepted", Canon(c) = 0 PROVE Canon(c)' = k
  <2>1. \A i \in 1..Len(p) : p[i] # "accepted"
    BY <1>7, CanonIs
  <2>2. {i \in 1..Len(q) : q[i] = "accepted"} = {k}
    BY <1>2, <1>7, <2>1
  <2>3. Canon(c)' = CHOOSE i \in {k} : TRUE
    BY <1>4, <2>2 DEF Canon
  <2> QED
    BY <2>3
<1> QED
  BY <1>4, <1>5, <1>6, <1>7 DEF DraftsStay

LEMMA CInvFacts ==
  ASSUME CInv
  PROVE  /\ IInv /\ TypeOK
         /\ \A w \in Workers : /\ DraftOK(worker[w], candidate)
                               /\ worker[w].done \subseteq InCanon
                               /\ worker[w].seen \subseteq InCanon
                               /\ worker[w].phase \in {"crediting", "concluding"}
                                     => worker[w].at \in InCanon
BY DEF CInv, IInv, CallsCredit, Credits

\* A step that leaves the book alone.
LEMMA BookSame ==
  ASSUME CInv, UNCHANGED <<chapter, candidate, wrote, overrun>>
  PROVE  BookStands /\ InCanon' = InCanon
<1>1. \A c \in Chapters : Canon(c)' = Canon(c)
  BY SameAccepted
<1>2. AcceptedIsCanon'
  BY <1>1 DEF CInv, AcceptedIsCanon
<1>3. DraftsStay
  BY DEF CInv, IInv, TypeOK, DraftsStay
<1> QED
  BY <1>1, <1>2, <1>3 DEF BookStands, CanonSame, InCanon

\* A step that overwrites the status of a chapter.
LEMMA BookMarked ==
  ASSUME CInv, NEW c \in Chapters, NEW status \in {"failed", "needs_review"},
         MarkChapter(c, status), UNCHANGED <<candidate, wrote, overrun>>
  PROVE  BookStands /\ InCanon' = InCanon
<1>1. \A d \in Chapters : Canon(d)' = Canon(d)
  BY SameAccepted
<1>2. \A d \in Chapters : chapter'[d] = "accepted" => chapter[d] = "accepted"
  BY DEF MarkChapter, CInv, IInv, TypeOK
<1>3. AcceptedIsCanon'
  BY <1>1, <1>2 DEF CInv, AcceptedIsCanon
<1>4. DraftsStay
  BY DEF CInv, IInv, TypeOK, DraftsStay
<1> QED
  BY <1>1, <1>3, <1>4 DEF BookStands, CanonSame, InCanon

\* A step that changes candidates only, and no canon.
LEMMA BookDrafted ==
  ASSUME CInv, DraftsStay, CanonSame, UNCHANGED <<chapter, wrote, overrun>>
  PROVE  BookStands /\ InCanon' = InCanon
<1>1. AcceptedIsCanon'
  BY DEF CanonSame, CInv, AcceptedIsCanon
<1> QED
  BY <1>1 DEF BookStands, CanonSame, InCanon

LEMMA CanonGrows == ASSUME BookStands PROVE InCanon \subseteq InCanon'
<1>1. CASE CanonSame
  BY <1>1 DEF CanonSame, InCanon
<1>2. CASE Entered
  <2>1. PICK c \in Chapters, k \in 1..MaxDrafts :
          \A d \in Chapters : Canon(d)' = IF d = c THEN k ELSE Canon(d)
    BY <1>2 DEF Entered
  <2>2. k # 0
    OBVIOUS
  <2> QED
    BY <2>1, <2>2 DEF InCanon
<1> QED
  BY <1>1, <1>2 DEF BookStands

-----------------------------------------------------------------------------
(* Rows and calls *)

LEMMA RowsUnchanged == ASSUME CInv, BookStands, UNCHANGED task PROVE RowsStand
BY CanonGrows DEF CInv, RowsCredit, RowsStand, Stopping

\* A row with another status or lists, its owner and its flags kept.
LEMMA RowStands ==
  ASSUME CInv, BookStands, NEW t \in Tasks, NEW r,
         task' = [task EXCEPT ![t] = r],
         r.completed \subseteq InCanon', r.owner = task[t].owner,
         Stopping(t) => r.cancel \/ r.pause
  PROVE  RowsStand
<1>1. \A s \in Tasks : task'[s] = IF s = t THEN r ELSE task[s]
  BY DEF CInv, IInv, TypeOK
<1>2. ASSUME NEW s \in Tasks
      PROVE  /\ task'[s].completed \subseteq InCanon' /\ task'[s].owner = task[s].owner
             /\ Stopping(s) => Stopping(s)'
  <2>1. CASE s = t
    BY <1>1, <2>1 DEF Stopping
  <2>2. CASE s # t
    BY <1>1, <2>2, CanonGrows DEF CInv, RowsCredit, Stopping
  <2> QED
    BY <2>1, <2>2
<1> QED
  BY <1>2 DEF RowsStand

LEMMA StatusStands ==
  ASSUME CInv, BookStands, NEW t \in Tasks, NEW status,
         task' = [task EXCEPT ![t].status = status]
  PROVE  RowsStand
<1> DEFINE r == [task[t] EXCEPT !.status = status]
<1>1. task[t] \in TaskType /\ task[t].completed \subseteq InCanon
  BY DEF CInv, IInv, TypeOK, RowsCredit
<1>2. r.completed \subseteq InCanon' /\ r.owner = task[t].owner
      /\ (Stopping(t) => r.cancel \/ r.pause)
  BY <1>1, CanonGrows DEF TaskType, Stopping
<1>3. task' = [task EXCEPT ![t] = r]
  OBVIOUS
<1> HIDE DEF r
<1> QED
  BY <1>2, <1>3, RowStands

LEMMA ProgressStands ==
  ASSUME CInv, BookStands, NEW w \in Workers, worker[w].task \in Tasks,
         NEW call, call.done \subseteq InCanon', NEW status, Progress(w, call, status)
  PROVE  RowsStand
<1> DEFINE t == worker[w].task
           r == Stamped(task[t], call, status)
<1>1. task[t] \in TaskType /\ task[t].completed \subseteq InCanon
  BY DEF CInv, IInv, TypeOK, RowsCredit
<1>2. /\ r.completed = task[t].completed \cup call.done
      /\ r.owner = task[t].owner /\ r.cancel = task[t].cancel /\ r.pause = task[t].pause
  BY <1>1 DEF Stamped, TaskType
<1>3. r.completed \subseteq InCanon' /\ (Stopping(t) => r.cancel \/ r.pause)
  BY <1>1, <1>2, CanonGrows DEF Stopping
<1>4. task' = [task EXCEPT ![t] = r] \/ UNCHANGED task
  BY DEF Progress
<1> HIDE DEF r
<1> QED
  BY <1>2, <1>3, <1>4, RowStands, RowsUnchanged

\* A call that a step leaves alone stands.
LEMMA CallStands ==
  ASSUME CInv, BookStands, NEW v \in Workers
  PROVE  Stands(worker[v], worker[v])
<1>1. DraftOK(worker[v], candidate')
  <2>1. SUFFICES ASSUME worker[v].phase \in {"replaying", "preparing", "repairing",
                                             "admitting"}
                 PROVE  worker[v].draft \in 1..Len(candidate'[worker[v].at])
    BY DEF DraftOK
  <2>2. worker[v].draft \in 1..Len(candidate[worker[v].at])
    BY <2>1, CInvFacts DEF DraftOK
  <2>3. worker[v].at \in Chapters
    BY <2>1, CInvFacts, InCallFacts DEF At, InChapter
  <2> QED
    BY <2>2, <2>3 DEF BookStands, DraftsStay
<1>2. Credits(worker[v], InCanon')
  BY CInvFacts, CanonGrows DEF Credits
<1> QED
  BY <1>1, <1>2 DEF Stands

LEMMA CallsUnchanged == ASSUME CInv, BookStands, UNCHANGED worker PROVE CallsStand
BY CallStands DEF CallsStand

\* A call replaced by one that stands.
LEMMA CallsBecome ==
  ASSUME CInv, BookStands, NEW w \in Workers, NEW call, Become(w, call),
         Stands(worker[w], call)
  PROVE  CallsStand
<1>1. \A v \in Workers : worker'[v] = IF v = w THEN call ELSE worker[v]
  BY DEF Become, CInv, IInv, TypeOK
<1> QED
  BY <1>1, CallStands DEF CallsStand

LEMMA OverStands ==
  ASSUME CInv, BookStands, NEW w \in Workers, Over(w) PROVE CallsStand
<1>1. Stands(worker[w], Idle)
  BY DEF Stands, DraftOK, Credits, Idle, MayAdmit
<1> QED
  BY <1>1, CallsBecome DEF Over

LEMMA RaisedStands ==
  ASSUME CInv, BookStands, NEW w \in Workers, Become(w, Raised(worker[w])) PROVE CallsStand
<1> DEFINE new == Raised(worker[w])
<1>1. worker[w] \in WorkerType
  BY DEF CInv, IInv, TypeOK
<1>2. new.phase = "raising" /\ new.done = worker[w].done /\ new.seen = worker[w].seen
  BY <1>1 DEF Raised, WorkerType
<1> HIDE DEF new
<1>3. Stands(worker[w], new)
  BY <1>2, CInvFacts, CanonGrows DEF Stands, DraftOK, Credits, MayAdmit
<1> QED
  BY <1>3, CallsBecome DEF new

\* The run returns with lists that are in canon.
LEMMA ReturnedStands ==
  ASSUME CInv, BookStands, NEW w \in Workers, NEW call \in WorkerType, NEW result,
         call.done \subseteq InCanon', call.seen \subseteq InCanon',
         Become(w, Returned(call, result))
  PROVE  CallsStand
<1> DEFINE new == Returned(call, result)
<1>1. new.phase = "finishing" /\ new.done = call.done /\ new.seen = call.seen
  BY DEF Returned, WorkerType
<1> HIDE DEF new
<1>2. Stands(worker[w], new)
  BY <1>1 DEF Stands, DraftOK, Credits, MayAdmit
<1> QED
  BY <1>2, CallsBecome DEF new

LEMMA ReturnPausedStands ==
  ASSUME CInv, BookStands, NEW w \in Workers, worker[w].task \in Tasks,
         NEW call \in WorkerType,
         call.done \subseteq InCanon', call.seen \subseteq InCanon', ReturnPaused(w, call)
  PROVE  RowsStand /\ CallsStand
BY ProgressStands, ReturnedStands DEF ReturnPaused

LEMMA ReturnCancelledStands ==
  ASSUME CInv, BookStands, NEW w \in Workers, worker[w].task \in Tasks,
         NEW call \in WorkerType,
         call.done \subseteq InCanon', call.seen \subseteq InCanon', ReturnCancelled(w, call)
  PROVE  RowsStand /\ CallsStand
BY ProgressStands, ReturnedStands DEF ReturnCancelled

\* A call that goes on in a phase that needs no candidate and admits nothing.
LEMMA GoesOnStands ==
  ASSUME CInv, BookStands, NEW w \in Workers, NEW call, Become(w, call),
         call.phase \in {"starting", "planning", "looping", "rejecting", "finishing",
                         "reporting", "failing", "raising", "condemning"},
         call.done \subseteq InCanon', call.seen \subseteq InCanon'
  PROVE  CallsStand
<1>1. Stands(worker[w], call)
  BY DEF Stands, DraftOK, Credits, MayAdmit
<1> QED
  BY <1>1, CallsBecome

-----------------------------------------------------------------------------
(* A step that stands preserves the invariant *)

\* The owner of a row after the step owned it before.
LEMMA SameOwner ==
  ASSUME CInv, Kept, RowsStand, NEW w \in Workers, NEW t \in Tasks,
         InCall(w, t)', OwnsRow(w)'
  PROVE  InCall(w, t) /\ OwnsRow(w) /\ worker'[w].phase # "idle"
<1>1. worker'[w].phase # "idle" /\ worker'[w].task = t
  BY DEF InCall, At
<1>2. /\ worker[w].phase # "idle" /\ worker'[w].task = worker[w].task
      /\ worker'[w].epoch = worker[w].epoch
  BY <1>1 DEF Kept, CallsKept, Keeps
<1>3. task'[t].epoch = task[t].epoch /\ task'[t].owner = task[t].owner
  BY DEF Kept, RowsKept, RowsStand
<1>4. task'[t].owner = Name[w] /\ task'[t].epoch = worker'[w].epoch
  BY <1>1 DEF OwnsRow
<1> QED
  BY <1>1, <1>2, <1>3, <1>4 DEF InCall, OwnsRow, At

\* A task that was halted stays so.
LEMMA StaysHalted ==
  ASSUME CInv, Kept, RowsStand, CallsStand, NEW t \in Tasks, overrun[t] # 0
  PROVE  /\ Stopping(t)'
         /\ \A w \in Workers :
               InCall(w, t)' /\ OwnsRow(w)' => worker'[w].phase \notin MayAdmit
<1>1. /\ Stopping(t)
      /\ \A w \in Workers :
            InCall(w, t) /\ OwnsRow(w) => worker[w].phase \notin MayAdmit
  BY DEF CInv, Halted
<1>2. ASSUME NEW w \in Workers, InCall(w, t)', OwnsRow(w)'
      PROVE  worker'[w].phase \notin MayAdmit
  <2>1. InCall(w, t) /\ OwnsRow(w)
    BY <1>2, SameOwner
  <2>2. worker[w].phase \notin MayAdmit /\ Stopping(worker[w].task)
    BY <1>1, <2>1 DEF InCall
  <2> QED
    BY <2>2 DEF CallsStand, Stands
<1> QED
  BY <1>1, <1>2 DEF RowsStand

LEMMA AdmittedHalts ==
  ASSUME TaskAssumption, CInv, Kept, RowsStand, CallsStand, NEW w \in Workers, Admitted(w)
  PROVE  Halted'
<1>0. worker[w].task \in Tasks
  BY InCallFacts, CInvFacts DEF Admitted
<1> PICK u \in Tasks : u = worker[w].task
  BY <1>0
<1>1. InCall(w, u) /\ OwnsRow(w) /\ worker[w].phase \in MayAdmit
  BY DEF Admitted, InCall
<1>2. overrun[u] = 0
  BY <1>1 DEF CInv, Halted
<1>3. overrun \in [Tasks -> 0..Book]
  BY CInvFacts DEF TypeOK
<1>4. /\ overrun'[u] # 0 => overrun'[u] = 1 /\ Stopping(u)
      /\ \A t \in Tasks : t # u => overrun'[t] = overrun[t]
  BY <1>1, <1>2, <1>3 DEF Admitted
<1>5. ASSUME NEW v \in Workers, InCall(v, u)', OwnsRow(v)'
      PROVE  worker'[v].phase \notin MayAdmit
  <2>1. InCall(v, u) /\ OwnsRow(v)
    BY <1>1, <1>5, SameOwner
  <2>2. v = w
    BY <1>1, <2>1 DEF CInv, IInv, ClaimsApart, InCall, OwnsRow
  <2> QED
    BY <2>2 DEF Admitted
<1>6. ASSUME NEW t \in Tasks, overrun'[t] # 0
      PROVE  /\ overrun'[t] = 1 /\ Stopping(t)'
             /\ \A v \in Workers :
                   InCall(v, t)' /\ OwnsRow(v)' => worker'[v].phase \notin MayAdmit
  <2>1. CASE t = u
    <3>1. Stopping(u)'
      BY <1>1, <1>4, <1>6, <2>1 DEF RowsStand
    <3> QED
      BY <1>4, <1>5, <1>6, <2>1, <3>1
  <2>2. CASE t # u
    <3>1. overrun'[t] = overrun[t]
      BY <1>4, <2>2
    <3>2. overrun[t] # 0 /\ overrun[t] = 1
      BY <1>6, <3>1 DEF CInv, Halted
    <3> QED
      BY <3>1, <3>2, StaysHalted
  <2> QED
    BY <2>1, <2>2
<1> QED
  BY <1>6 DEF Halted

LEMMA EnteredNoGap == ASSUME TaskAssumption, NoGap, Entered PROVE NoGap'
<1>1. PICK e \in Chapters, k \in 1..MaxDrafts :
        /\ Canon(e) = 0 /\ (e > 1 => Canon(e - 1) # 0)
        /\ \A d \in Chapters : Canon(d)' = IF d = e THEN k ELSE Canon(d)
  BY DEF Entered
<1>2. k # 0
  OBVIOUS
<1>3. ASSUME NEW c \in Chapters, NEW d \in Chapters, d < c, Canon(c)' # 0
      PROVE  Canon(d)' # 0
  <2>1. CASE c = e
    <3>1. d <= e - 1 /\ e - 1 \in Chapters /\ e > 1
      BY <1>3, <2>1 DEF Chapters, TaskAssumption
    <3>2. Canon(d) # 0
      BY <1>1, <3>1 DEF NoGap, Chapters
    <3> QED
      BY <1>1, <1>2, <3>2
  <2>2. CASE c # e
    <3>1. Canon(d) # 0
      BY <1>1, <1>3, <2>2 DEF NoGap
    <3> QED
      BY <1>1, <1>2, <3>1
  <2> QED
    BY <2>1, <2>2
<1> QED
  BY <1>3 DEF NoGap

LEMMA StandsPreserves ==
  ASSUME TaskAssumption, CInv, Kept, RowsStand, CallsStand, BookStands PROVE CInv'
<1>1. IInv'
  BY KeptPreserves DEF CInv
<1>2. CallsCredit'
  BY DEF CallsStand, Stands, CallsCredit
<1>3. RowsCredit'
  BY DEF RowsStand, RowsCredit
<1>4. NoGap'
  BY EnteredNoGap DEF BookStands, CanonSame, CInv, NoGap
<1>5. Halted'
  <2>1. CASE UNCHANGED overrun
    <3>1. \A t \in Tasks : overrun'[t] # 0 => overrun[t] # 0 /\ overrun'[t] = 1
      BY <2>1 DEF CInv, Halted
    <3> QED
      BY <3>1, StaysHalted DEF Halted
  <2>2. CASE \E w \in Workers : Admitted(w)
    BY <2>2, AdmittedHalts
  <2> QED
    BY <2>1, <2>2 DEF BookStands
<1> QED
  BY <1>1, <1>2, <1>3, <1>4, <1>5 DEF CInv, BookStands

Steady == RowsStand /\ CallsStand /\ BookStands

-----------------------------------------------------------------------------
(* The requests, the heartbeat and the ends of a call *)

LEMMA RequestSteady ==
  ASSUME CInv, NEW t \in Tasks,
         Enqueue(t) \/ Terminate(t) \/ Pause(t) \/ Delete(t) \/ Expire(t)
  PROVE  Steady
<1>1. UNCHANGED <<worker, chapter, candidate, wrote, overrun>>
  BY DEF Enqueue, Terminate, Pause, Delete, Expire
<1>2. BookStands /\ InCanon' = InCanon
  BY <1>1, BookSame
<1>3. task[t] \in TaskType /\ task[t].completed \subseteq InCanon
  BY DEF CInv, IInv, TypeOK, RowsCredit
<1>4. PICK r : /\ task' = [task EXCEPT ![t] = r]
               /\ r.completed = task[t].completed /\ r.owner = task[t].owner
               /\ task[t].cancel => r.cancel
               /\ task[t].pause => r.pause
  <2>1. CASE Enqueue(t)
    <3> DEFINE n == Cardinality(Workset(1, MaxChapters))
               r == [task[t] EXCEPT !.status = "queued", !.requested = n]
    <3>1. task' = [task EXCEPT ![t] = r]
      BY <2>1 DEF Enqueue
    <3> HIDE DEF n
    <3>2. /\ r.completed = task[t].completed /\ r.owner = task[t].owner
          /\ r.cancel = task[t].cancel /\ r.pause = task[t].pause
      BY <1>3 DEF TaskType
    <3> QED
      BY <3>1, <3>2
  <2>2. CASE Terminate(t)
    <3> DEFINE r == [task[t] EXCEPT !.cancel = TRUE,
                       !.status = IF @ = "queued" THEN "cancelled" ELSE "terminating"]
    <3>1. task' = [task EXCEPT ![t] = r]
      BY <2>2 DEF Terminate
    <3>2. /\ r.completed = task[t].completed /\ r.owner = task[t].owner
          /\ r.cancel /\ r.pause = task[t].pause
      BY <1>3 DEF TaskType
    <3> QED
      BY <3>1, <3>2
  <2>3. CASE Pause(t)
    <3> DEFINE b == task[t].live \/ task[t].status = "running"
               r == [task[t] EXCEPT !.pause = TRUE,
                       !.status = IF @ = "queued" THEN "paused" ELSE @, !.live = b]
    <3>1. task' = [task EXCEPT ![t] = r]
      BY <1>3, <2>3 DEF Pause, TaskType
    <3> HIDE DEF b
    <3>2. /\ r.completed = task[t].completed /\ r.owner = task[t].owner
          /\ r.pause /\ r.cancel = task[t].cancel
      BY <1>3 DEF TaskType
    <3> QED
      BY <3>1, <3>2
  <2>4. CASE Delete(t)
    <3> DEFINE r == [task[t] EXCEPT !.deleted = TRUE]
    <3>1. task' = [task EXCEPT ![t] = r]
      BY <2>4 DEF Delete
    <3>2. /\ r.completed = task[t].completed /\ r.owner = task[t].owner
          /\ r.cancel = task[t].cancel /\ r.pause = task[t].pause
      BY <1>3 DEF TaskType
    <3> QED
      BY <3>1, <3>2
  <2>5. CASE Expire(t)
    <3> DEFINE r == [task[t] EXCEPT !.live = FALSE]
    <3>1. task' = [task EXCEPT ![t] = r]
      BY <2>5 DEF Expire
    <3>2. /\ r.completed = task[t].completed /\ r.owner = task[t].owner
          /\ r.cancel = task[t].cancel /\ r.pause = task[t].pause
      BY <1>3 DEF TaskType
    <3> QED
      BY <3>1, <3>2
  <2> QED
    BY <2>1, <2>2, <2>3, <2>4, <2>5
<1>5. RowsStand
  BY <1>2, <1>3, <1>4, RowStands DEF Stopping
<1> QED
  BY <1>1, <1>2, <1>5, CallsUnchanged DEF Steady

LEMMA HeartbeatSteady == ASSUME CInv, NEW w \in Workers, Heartbeat(w) PROVE Steady
<1>1. BookStands /\ InCanon' = InCanon
  BY BookSame DEF Heartbeat
<1>2. worker[w] \in WorkerType
  BY CInvFacts DEF TypeOK
<1>3. CASE OwnsRow(w) /\ task[worker[w].task].status = "running"
  <2> DEFINE t == worker[w].task
             r == [task[t] EXCEPT !.live = TRUE]
  <2>1. task' = [task EXCEPT ![t] = r] /\ UNCHANGED worker
    BY <1>3 DEF Heartbeat
  <2>2. RowsStand
    <3>1. CASE t \in Tasks
      <4>1. task[t] \in TaskType /\ task[t].completed \subseteq InCanon
        BY <3>1 DEF CInv, IInv, TypeOK, RowsCredit
      <4>2. /\ r.completed = task[t].completed /\ r.owner = task[t].owner
            /\ r.cancel = task[t].cancel /\ r.pause = task[t].pause
        BY <4>1 DEF TaskType
      <4> HIDE DEF r
      <4> QED
        BY <1>1, <2>1, <3>1, <4>1, <4>2, RowStands DEF Stopping
    <3>2. CASE t \notin Tasks
      <4>1. \A s \in Tasks : task'[s] = task[s]
        BY <2>1, <3>2, CInvFacts DEF TypeOK
      <4> QED
        BY <1>1, <4>1 DEF CInv, RowsCredit, RowsStand, Stopping
    <3> QED
      BY <3>1, <3>2
  <2> QED
    BY <1>1, <2>1, <2>2, CallsUnchanged DEF Steady
<1>4. CASE ~(OwnsRow(w) /\ task[worker[w].task].status = "running")
  <2> DEFINE call == [worker[w] EXCEPT !.beating = FALSE]
  <2>1. Become(w, call) /\ UNCHANGED task
    BY <1>4 DEF Heartbeat, Become
  <2>2. /\ call.phase = worker[w].phase /\ call.at = worker[w].at
        /\ call.draft = worker[w].draft
        /\ call.done = worker[w].done /\ call.seen = worker[w].seen
    BY <1>2 DEF WorkerType
  <2> HIDE DEF call
  <2>3. Stands(worker[w], worker[w])
    BY <1>1, CallStands
  <2>4. Stands(worker[w], call)
    BY <2>2, <2>3 DEF Stands, DraftOK, Credits
  <2> QED
    BY <1>1, <2>1, <2>4, CallsBecome, RowsUnchanged DEF Steady
<1> QED
  BY <1>3, <1>4

\* A worker in a call, its lists and the canon they are in.
LEMMA CallFacts ==
  ASSUME CInv, NEW w \in Workers, ~At(w, "idle")
  PROVE  /\ worker[w] \in WorkerType /\ worker[w].task \in Tasks
         /\ task[worker[w].task] \in TaskType
         /\ task[worker[w].task].completed \subseteq InCanon
         /\ worker[w].done \subseteq InCanon /\ worker[w].seen \subseteq InCanon
BY CInvFacts, InCallFacts DEF CInv, RowsCredit

LEMMA AcknowledgeSteady ==
  ASSUME CInv, NEW w \in Workers, Acknowledge(w) PROVE Steady
<1>1. ~At(w, "idle")
  BY DEF Acknowledge, At
<1>2. BookStands
  BY BookSame DEF Acknowledge
<1>3. \/ /\ task' = [task EXCEPT ![worker[w].task].status =
                        IF At(w, "cancelling") THEN "cancelled" ELSE "paused"]
         /\ Over(w)
      \/ Become(w, Raised(worker[w])) /\ UNCHANGED task
  BY DEF Acknowledge
<1>4. worker[w].task \in Tasks
  BY <1>1, CallFacts
<1> QED
  BY <1>2, <1>3, <1>4, StatusStands, OverStands, RowsUnchanged, RaisedStands DEF Steady

LEMMA FinishSteady == ASSUME CInv, NEW w \in Workers, Finish(w) PROVE Steady
<1> DEFINE phase == IF Holds(w) THEN "reporting" ELSE "failing"
           call == [worker[w] EXCEPT !.phase = phase]
<1>1. /\ ~At(w, "idle") /\ Progress(w, worker[w], worker[w].result) /\ Become(w, call)
  BY DEF Finish, At
<1>2. BookStands /\ InCanon' = InCanon
  BY BookSame DEF Finish
<1>3. phase \in {"reporting", "failing"}
  OBVIOUS
<1> HIDE DEF phase
<1>4. /\ call.phase = phase /\ call.done = worker[w].done /\ call.seen = worker[w].seen
  BY <1>1, CallFacts DEF WorkerType
<1> HIDE DEF call
<1>5. CallsStand
  BY <1>1, <1>2, <1>3, <1>4, CallFacts, GoesOnStands
<1> QED
  BY <1>1, <1>2, <1>5, CallFacts, ProgressStands DEF Steady

\* The steps that leave the row alone or give it another status, and end the call
\* or send it to its error handlers.
LEMMA EndSteady ==
  ASSUME CInv, NEW w \in Workers,
         Report(w) \/ Fail(w) \/ Raise(w) \/ Crash(w)
  PROVE  Steady
<1>1. /\ ~At(w, "idle") /\ UNCHANGED <<chapter, candidate, wrote, overrun>>
  BY DEF Report, Fail, Raise, Crash, At
<1>2. BookStands /\ InCanon' = InCanon
  BY <1>1, BookSame
<1>3. /\ \/ UNCHANGED task
         \/ task' = [task EXCEPT ![worker[w].task].status = "failed"]
      /\ \/ Over(w) \/ Become(w, Raised(worker[w]))
         \/ \E phase \in {"failing", "condemning"} :
               Become(w, [worker[w] EXCEPT !.phase = phase])
  BY DEF Report, Fail, Raise, Crash
<1>4. RowsStand
  BY <1>1, <1>2, <1>3, CallFacts, RowsUnchanged, StatusStands
<1>5. ASSUME NEW phase \in {"failing", "condemning"},
             Become(w, [worker[w] EXCEPT !.phase = phase])
      PROVE  CallsStand
  <2> DEFINE call == [worker[w] EXCEPT !.phase = phase]
  <2>1. /\ call.phase = phase /\ call.done = worker[w].done /\ call.seen = worker[w].seen
    BY <1>1, CallFacts DEF WorkerType
  <2> HIDE DEF call
  <2> QED
    BY <1>1, <1>2, <1>5, <2>1, CallFacts, GoesOnStands DEF call
<1>6. CallsStand
  BY <1>2, <1>3, <1>5, OverStands, RaisedStands
<1> QED
  BY <1>2, <1>4, <1>6 DEF Steady

LEMMA CondemnSteady == ASSUME CInv, NEW w \in Workers, Condemn(w) PROVE Steady
<1> DEFINE t == worker[w].task
           lost == task[t].condemned \/ ~OwnsRow(w)
           r == [task[t] EXCEPT !.status = "failed", !.condemned = lost]
<1>1. ~At(w, "idle") /\ Over(w) /\ task' = [task EXCEPT ![t] = r]
  BY DEF Condemn, At
<1>2. BookStands /\ InCanon' = InCanon
  BY BookSame DEF Condemn
<1>3. task[t] \in TaskType /\ t \in Tasks /\ task[t].completed \subseteq InCanon
  BY <1>1, CallFacts
<1> HIDE DEF lost
<1>4. /\ r.completed = task[t].completed /\ r.owner = task[t].owner
      /\ r.cancel = task[t].cancel /\ r.pause = task[t].pause
  BY <1>3 DEF TaskType
<1> HIDE DEF r
<1>5. RowsStand
  BY <1>1, <1>2, <1>3, <1>4, RowStands DEF Stopping
<1> QED
  BY <1>1, <1>2, <1>5, OverStands DEF Steady

-----------------------------------------------------------------------------
(* Recovery and the commit *)

LEMMA ReadCandidateSteady ==
  ASSUME CInv, NEW w \in Workers, ReadCandidate(w) PROVE Steady
<1> DEFINE c == worker[w].resume
           k == IF c \in Chapters THEN Len(candidate[c]) ELSE 0
           stored == IF k = 0 THEN "reviewed" ELSE candidate[c][k]
<1>1. /\ ~At(w, "idle") /\ worker[w].phase = "recovering"
      /\ UNCHANGED <<task, chapter, candidate, wrote, overrun>>
  BY DEF ReadCandidate, At
<1>2. BookStands /\ InCanon' = InCanon /\ RowsStand
  BY <1>1, BookSame, RowsUnchanged
<1>3. /\ worker[w] \in WorkerType
      /\ worker[w].done \subseteq InCanon /\ worker[w].seen \subseteq InCanon
  BY <1>1, CallFacts
<1>4. \/ Become(w, [worker[w] EXCEPT !.phase = "starting", !.resume = c + 1])
      \/ Become(w, [worker[w] EXCEPT !.phase = "starting"])
      \/ Become(w, Raised(worker[w]))
      \/ /\ c \in Chapters /\ stored \in {"ready", "accepted"}
         /\ Become(w, [worker[w] EXCEPT !.phase = "replaying", !.at = c, !.draft = k])
  BY DEF ReadCandidate
<1>5. CASE Become(w, [worker[w] EXCEPT !.phase = "starting", !.resume = c + 1])
  <2> DEFINE call == [worker[w] EXCEPT !.phase = "starting", !.resume = c + 1]
  <2>1. call.phase = "starting" /\ call.done = worker[w].done /\ call.seen = worker[w].seen
    BY <1>3 DEF WorkerType
  <2> HIDE DEF call
  <2> QED
    BY <1>2, <1>3, <1>5, <2>1, GoesOnStands DEF call, Steady
<1>6. CASE Become(w, [worker[w] EXCEPT !.phase = "starting"])
  <2> DEFINE call == [worker[w] EXCEPT !.phase = "starting"]
  <2>1. call.phase = "starting" /\ call.done = worker[w].done /\ call.seen = worker[w].seen
    BY <1>3 DEF WorkerType
  <2> HIDE DEF call
  <2> QED
    BY <1>2, <1>3, <1>6, <2>1, GoesOnStands DEF call, Steady
<1>7. CASE Become(w, Raised(worker[w]))
  BY <1>2, <1>7, RaisedStands DEF Steady
<1>8. CASE /\ c \in Chapters /\ stored \in {"ready", "accepted"}
           /\ Become(w, [worker[w] EXCEPT !.phase = "replaying", !.at = c, !.draft = k])
  <2> DEFINE call == [worker[w] EXCEPT !.phase = "replaying", !.at = c, !.draft = k]
  <2>1. k \in 1..Len(candidate[c])
    <3>1. k # 0 /\ k = Len(candidate[c])
      BY <1>8
    <3>2. Len(candidate[c]) \in Nat
      BY <1>8, CInvFacts DEF TypeOK
    <3> QED
      BY <3>1, <3>2
  <2>2. /\ call.phase = "replaying" /\ call.at = c /\ call.draft = k
        /\ call.done = worker[w].done /\ call.seen = worker[w].seen
    BY <1>3 DEF WorkerType
  <2> HIDE DEF call, k
  <2>3. DraftOK(call, candidate')
    BY <1>1, <2>1, <2>2 DEF DraftOK
  <2>4. Stands(worker[w], call)
    BY <1>1, <1>2, <1>3, <2>2, <2>3 DEF Stands, Credits, MayAdmit
  <2> QED
    BY <1>2, <1>8, <2>4, CallsBecome DEF call, Steady, k
<1> QED
  BY <1>4, <1>5, <1>6, <1>7, <1>8

\* A commit: replayed, done, refused or failed.
LEMMA CommitPlanSteady ==
  ASSUME TaskAssumption, CInv, NEW w \in Workers,
         worker[w].phase \in {"replaying", "admitting"},
         NEW committed, NEW blocked, CommitPlan(w, committed, blocked),
         committed.phase \in {"crediting", "concluding"}, committed.at = worker[w].at,
         committed.done = worker[w].done, committed.seen = worker[w].seen,
         blocked.phase \in {"raising", "rejecting"},
         blocked.done = worker[w].done, blocked.seen = worker[w].seen
  PROVE  Steady
<1>1. /\ worker[w].phase \in InChapter /\ worker[w].phase \in MayAdmit
      /\ ~At(w, "idle") /\ UNCHANGED task
  BY DEF InChapter, MayAdmit, At, CommitPlan
<1>2. /\ worker[w].at \in Chapters /\ worker[w].task \in Tasks
      /\ worker[w].done \subseteq InCanon /\ worker[w].seen \subseteq InCanon
  BY <1>1, CallFacts, CInvFacts, InCallFacts
<1>3. worker[w].draft \in 1..Len(candidate[worker[w].at]) /\ TypeOK
  BY CInvFacts DEF DraftOK
<1> PICK c \in Chapters : c = worker[w].at
  BY <1>2
<1> PICK k \in 1..Len(candidate[c]) : k = worker[w].draft
  BY <1>3
<1>4. \/ /\ candidate[c][k] = "accepted" /\ Become(w, committed)
         /\ UNCHANGED <<chapter, candidate, wrote, overrun>>
      \/ Holds(w) /\ Admissible(c, k) /\ EnterCanon(w, c, k) /\ Become(w, committed)
      \/ Become(w, blocked) /\ UNCHANGED <<chapter, candidate, wrote, overrun>>
      \/ /\ candidate[c][k] = "ready" /\ candidate' = [candidate EXCEPT ![c][k] = "failed"]
         /\ Become(w, blocked) /\ UNCHANGED <<chapter, wrote, overrun>>
  BY DEF CommitPlan
<1>5. CASE /\ candidate[c][k] = "accepted" /\ Become(w, committed)
           /\ UNCHANGED <<chapter, candidate, wrote, overrun>>
  <2>1. BookStands /\ InCanon' = InCanon
    BY <1>5, BookSame
  <2>2. c \in InCanon
    BY <1>2, <1>3, <1>5, CanonIs DEF InCanon
  <2>3. Stands(worker[w], committed)
    BY <1>2, <2>1, <2>2 DEF Stands, DraftOK, Credits, MayAdmit
  <2> QED
    BY <1>1, <1>5, <2>1, <2>3, CallsBecome, RowsUnchanged DEF Steady
<1>6. CASE Holds(w) /\ Admissible(c, k) /\ EnterCanon(w, c, k) /\ Become(w, committed)
  <2>1. /\ Canon(c) = 0 /\ (c > 1 => Canon(c - 1) # 0)
        /\ candidate' = [candidate EXCEPT ![c][k] = "accepted"]
        /\ chapter' = [chapter EXCEPT ![c] = "accepted"]
        /\ overrun' = [overrun EXCEPT ![worker[w].task] =
                          IF Stopping(worker[w].task) /\ @ < Book THEN @ + 1 ELSE @]
    BY <1>6 DEF Admissible, EnterCanon, Stopping
  <2>2. /\ DraftsStay /\ Canon(c)' = k
        /\ \A d \in Chapters : d # c => Canon(d)' = Canon(d)
    BY <1>2, <1>3, <2>1, SetCandidate
  <2>3. k \in 1..MaxDrafts /\ k # 0
    <3>1. Len(candidate[c]) \in Nat /\ Len(candidate[c]) <= MaxDrafts
      BY <1>2, <1>3 DEF TypeOK
    <3> QED
      BY <1>3, <3>1 DEF TaskAssumption
  <2>4. Entered
    BY <1>2, <2>1, <2>2, <2>3 DEF Entered
  <2>5. AcceptedIsCanon'
    <3>1. \A d \in Chapters : chapter'[d] = "accepted" => d = c \/ chapter[d] = "accepted"
      BY <1>2, <1>3, <2>1 DEF TypeOK
    <3> QED
      BY <2>2, <2>3, <3>1 DEF CInv, AcceptedIsCanon
  <2>6. Admitted(w)
    <3>1. \A v \in Workers : worker'[v] = IF v = w THEN committed ELSE worker[v]
      BY <1>3, <1>6 DEF Become, TypeOK
    <3> QED
      BY <1>1, <1>6, <2>1, <3>1 DEF Admitted, Holds, MayAdmit
  <2>7. BookStands
    BY <2>2, <2>4, <2>5, <2>6 DEF BookStands
  <2>8. c \in InCanon'
    BY <1>2, <2>2, <2>3 DEF InCanon
  <2>9. Stands(worker[w], committed)
    BY <1>2, <2>7, <2>8, CanonGrows DEF Stands, DraftOK, Credits, MayAdmit
  <2> QED
    BY <1>1, <1>6, <2>7, <2>9, CallsBecome, RowsUnchanged DEF Steady
<1>7. CASE Become(w, blocked) /\ UNCHANGED <<chapter, candidate, wrote, overrun>>
  <2>1. BookStands /\ InCanon' = InCanon
    BY <1>7, BookSame
  <2> QED
    BY <1>1, <1>2, <1>7, <2>1, GoesOnStands, RowsUnchanged DEF Steady
<1>8. CASE /\ candidate[c][k] = "ready" /\ candidate' = [candidate EXCEPT ![c][k] = "failed"]
           /\ Become(w, blocked) /\ UNCHANGED <<chapter, wrote, overrun>>
  <2>1. DraftsStay /\ CanonSame
    BY <1>2, <1>3, <1>8, SetCandidate
  <2>2. BookStands /\ InCanon' = InCanon
    BY <1>8, <2>1, BookDrafted
  <2> QED
    BY <1>1, <1>2, <1>8, <2>2, GoesOnStands, RowsUnchanged DEF Steady
<1> QED
  BY <1>4, <1>5, <1>6, <1>7, <1>8

LEMMA ReplaySteady ==
  ASSUME TaskAssumption, CInv, NEW w \in Workers, Replay(w) PROVE Steady
<1> DEFINE committed == [worker[w] EXCEPT !.phase = "crediting"]
           blocked == Raised(worker[w])
<1>1. worker[w].phase = "replaying" /\ CommitPlan(w, committed, blocked)
  BY DEF Replay, At
<1>2. worker[w] \in WorkerType
  BY CInvFacts DEF TypeOK
<1>3. /\ committed.phase = "crediting" /\ committed.at = worker[w].at
      /\ committed.done = worker[w].done /\ committed.seen = worker[w].seen
      /\ blocked.phase = "raising"
      /\ blocked.done = worker[w].done /\ blocked.seen = worker[w].seen
  BY <1>2 DEF Raised, WorkerType
<1> HIDE DEF committed, blocked
<1> QED
  BY <1>1, <1>3, CommitPlanSteady

LEMMA AdmitSteady ==
  ASSUME TaskAssumption, CInv, NEW w \in Workers, Admit(w) PROVE Steady
<1> DEFINE committed == [worker[w] EXCEPT !.phase = "concluding"]
           blocked == [worker[w] EXCEPT !.phase = "rejecting"]
<1>1. worker[w].phase = "admitting" /\ CommitPlan(w, committed, blocked)
  BY DEF Admit, At
<1>2. worker[w] \in WorkerType
  BY CInvFacts DEF TypeOK
<1>3. /\ committed.phase = "concluding" /\ committed.at = worker[w].at
      /\ committed.done = worker[w].done /\ committed.seen = worker[w].seen
      /\ blocked.phase = "rejecting"
      /\ blocked.done = worker[w].done /\ blocked.seen = worker[w].seen
  BY <1>2 DEF WorkerType
<1> HIDE DEF committed, blocked
<1> QED
  BY <1>1, <1>3, CommitPlanSteady

\* The chapter is credited: its commit is known.
LEMMA CreditSteady ==
  ASSUME TaskAssumption, CInv, NEW w \in Workers, Credit(w) PROVE Steady
<1> DEFINE c == worker[w].at
           t == worker[w].task
           seen == worker[w].seen \cup {c}
<1>1. worker[w].phase = "crediting" /\ ~At(w, "idle")
  BY DEF Credit, At
<1>2. BookStands /\ InCanon' = InCanon
  BY BookSame DEF Credit
<1>3. /\ worker[w] \in WorkerType /\ t \in Tasks /\ task[t] \in TaskType
      /\ worker[w].done \subseteq InCanon /\ seen \subseteq InCanon /\ c \in InCanon
  BY <1>1, CallFacts, CInvFacts
<1>4. CASE Holds(w)
  <2> DEFINE r == [task[t] EXCEPT !.completed = seen, !.failed = @ \ {c}, !.paused = @ \ {c}]
             call == [worker[w] EXCEPT !.phase = "starting", !.at = 0, !.draft = 0,
                                       !.seen = @ \cup {c}, !.resume = c + 1]
  <2>1. task' = [task EXCEPT ![t] = r] /\ Become(w, call)
    BY <1>4 DEF Credit
  <2>2. /\ r.completed = seen /\ r.owner = task[t].owner
        /\ r.cancel = task[t].cancel /\ r.pause = task[t].pause
    BY <1>3 DEF TaskType
  <2>3. call.phase = "starting" /\ call.done = worker[w].done /\ call.seen = seen
    BY <1>3 DEF WorkerType
  <2> HIDE DEF r, call, seen
  <2>4. RowsStand
    BY <1>2, <1>3, <2>1, <2>2, RowStands DEF Stopping
  <2>5. CallsStand
    BY <1>2, <1>3, <2>1, <2>3, GoesOnStands
  <2> QED
    BY <1>2, <2>4, <2>5 DEF Steady
<1>5. CASE ~Holds(w)
  <2>1. UNCHANGED task /\ Become(w, Raised(worker[w]))
    BY <1>5 DEF Credit
  <2> QED
    BY <1>2, <2>1, RowsUnchanged, RaisedStands DEF Steady
<1> QED
  BY <1>4, <1>5

LEMMA StartSteady == ASSUME CInv, NEW w \in Workers, Start(w) PROVE Steady
<1> DEFINE t == worker[w].task
           call == [worker[w] EXCEPT !.phase = "planning"]
           fail == [call EXCEPT !.phase = "failing"]
           seen == worker[w].seen
           r == [task[t] EXCEPT !.status = "completed", !.completed = @ \cup seen]
<1>1. ~At(w, "idle")
  BY DEF Start, At
<1>2. BookStands /\ InCanon' = InCanon
  BY BookSame DEF Start
<1>3. /\ worker[w] \in WorkerType /\ t \in Tasks /\ task[t] \in TaskType
      /\ task[t].completed \subseteq InCanon
      /\ worker[w].done \subseteq InCanon /\ seen \subseteq InCanon
  BY <1>1, CallFacts
<1>4. /\ \/ task' = [task EXCEPT ![t] = r]
         \/ UNCHANGED task
         \/ task' = [task EXCEPT ![t].status = "running"]
      /\ \/ Over(w) \/ Become(w, Raised(worker[w])) \/ Become(w, call) \/ Become(w, fail)
  BY DEF Start
<1>5. /\ r.completed = task[t].completed \cup seen /\ r.owner = task[t].owner
      /\ r.cancel = task[t].cancel /\ r.pause = task[t].pause
  BY <1>3 DEF TaskType
<1>6. /\ call.phase = "planning" /\ call.done = worker[w].done /\ call.seen = seen
      /\ fail.phase = "failing" /\ fail.done = worker[w].done /\ fail.seen = seen
  BY <1>3 DEF WorkerType
<1> HIDE DEF r, call, fail, seen
<1>7. RowsStand
  <2>1. CASE task' = [task EXCEPT ![t] = r]
    BY <1>2, <1>3, <1>5, <2>1, RowStands DEF Stopping
  <2> QED
    BY <1>2, <1>3, <1>4, <2>1, RowsUnchanged, StatusStands
<1>8. CallsStand
  BY <1>2, <1>3, <1>4, <1>6, OverStands, RaisedStands, GoesOnStands
<1> QED
  BY <1>2, <1>7, <1>8 DEF Steady

-----------------------------------------------------------------------------
(* The run over the chapters *)

LEMMA PlanSteady == ASSUME TaskAssumption, CInv, NEW w \in Workers, Plan(w) PROVE Steady
<1> DEFINE t == worker[w].task
           todo == Workset(worker[w].resume, Remaining(worker[w].seen))
           call == [worker[w] EXCEPT !.seen = {}, !.resume = 0]
           fail == [call EXCEPT !.phase = "failing"]
           loop == [call EXCEPT !.phase = "looping", !.todo = todo]
<1>1. ~At(w, "idle")
  BY DEF Plan, At
<1>2. BookStands /\ InCanon' = InCanon
  BY BookSame DEF Plan
<1>3. worker[w] \in WorkerType /\ t \in Tasks /\ worker[w].done \subseteq InCanon
  BY <1>1, CallFacts
<1>4. \/ UNCHANGED task /\ Become(w, fail)
      \/ UNCHANGED task /\ Become(w, Returned(call, "completed"))
      \/ ReturnCancelled(w, call)
      \/ /\ UNCHANGED task \/ task' = [task EXCEPT ![t].status = "running"]
         /\ Become(w, loop)
  BY DEF Plan
<1>5. call \in WorkerType /\ call.done = worker[w].done /\ call.seen = {}
  <2>1. 0 \in 0..(Book + 1)
    BY DEF TaskAssumption
  <2> QED
    BY <1>3, <2>1 DEF WorkerType
<1> HIDE DEF call, todo
<1>6. /\ fail.phase = "failing" /\ fail.done = call.done /\ fail.seen = call.seen
      /\ loop.phase = "looping" /\ loop.done = call.done /\ loop.seen = call.seen
  BY <1>5 DEF WorkerType
<1> HIDE DEF fail, loop
<1>7. CASE ReturnCancelled(w, call)
  BY <1>2, <1>3, <1>5, <1>7, ReturnCancelledStands DEF Steady
<1>8. CASE /\ UNCHANGED task \/ task' = [task EXCEPT ![t].status = "running"]
           /\ Become(w, fail) \/ Become(w, loop) \/ Become(w, Returned(call, "completed"))
  <2>1. RowsStand
    BY <1>2, <1>3, <1>8, RowsUnchanged, StatusStands
  <2>2. CallsStand
    BY <1>2, <1>3, <1>5, <1>6, <1>8, GoesOnStands, ReturnedStands
  <2> QED
    BY <1>2, <2>1, <2>2 DEF Steady
<1> QED
  BY <1>4, <1>7, <1>8

LEMMA CheckpointSteady == ASSUME CInv, NEW w \in Workers, Checkpoint(w) PROVE Steady
<1>1. ~At(w, "idle") /\ (ReturnCancelled(w, worker[w]) \/ ReturnPaused(w, worker[w]))
  BY DEF Checkpoint, At
<1>2. BookStands /\ InCanon' = InCanon
  BY BookSame DEF Checkpoint
<1> QED
  BY <1>1, <1>2, CallFacts, ReturnCancelledStands, ReturnPausedStands DEF Steady

\* The lists of a call with one more chapter.
LEMMA ListFacts ==
  ASSUME NEW call \in WorkerType, NEW c \in Chapters
  PROVE  /\ LET new == [call EXCEPT !.paused = @ \cup {c}]
            IN  new \in WorkerType /\ new.done = call.done /\ new.seen = call.seen
         /\ LET new == [call EXCEPT !.failed = @ \cup {c}]
            IN  new \in WorkerType /\ new.done = call.done /\ new.seen = call.seen
         /\ LET new == [call EXCEPT !.done = @ \cup {c}]
            IN  new \in WorkerType /\ new.done = call.done \cup {c} /\ new.seen = call.seen
BY DEF WorkerType

\* The run reports what it stops for and returns.
LEMMA StopsSteady ==
  ASSUME CInv, BookStands, NEW w \in Workers, ~At(w, "idle"), NEW call \in WorkerType,
         call.done \subseteq InCanon', call.seen \subseteq InCanon',
         NEW status, NEW result, Progress(w, call, status), Become(w, Returned(call, result))
  PROVE  Steady
BY CallFacts, ProgressStands, ReturnedStands DEF Steady

\* A chapter is begun when no stop is requested.
LEMMA NextChapterSteady ==
  ASSUME TaskAssumption, CInv, NEW w \in Workers, NextChapter(w) PROVE Steady
<1> DEFINE c == Min(worker[w].todo)
           call == [worker[w] EXCEPT !.todo = @ \ {c}]
           blocked == [worker[w] EXCEPT !.paused = @ \cup {c}]
<1>1. ~At(w, "idle") /\ worker[w].phase = "looping"
  BY DEF NextChapter, At
<1>2. BookStands /\ InCanon' = InCanon
  BY BookSame DEF NextChapter
<1>3. /\ worker[w] \in WorkerType /\ worker[w].task \in Tasks
      /\ worker[w].done \subseteq InCanon /\ worker[w].seen \subseteq InCanon
  BY <1>1, CallFacts
<1>4. CASE worker[w].todo = {}
  <2>1. UNCHANGED task /\ Become(w, Returned(worker[w], ResultStatus(worker[w])))
    BY <1>4 DEF NextChapter
  <2> QED
    BY <1>2, <1>3, <2>1, RowsUnchanged, ReturnedStands DEF Steady
<1>5. CASE worker[w].todo # {}
  <2>1. c \in Chapters
    <3>1. worker[w].todo \in SUBSET (0..Book) /\ Book \in Nat
      BY <1>3 DEF WorkerType, Chapters, TaskAssumption
    <3>2. c \in worker[w].todo
      BY <1>5, <3>1, MinOfBounded
    <3> QED
      BY <1>3, <3>2 DEF WorkerType
  <2>2. /\ ~StopRequested(w)
        /\ \/ /\ Progress(w, blocked, "needs_review")
              /\ Become(w, Returned(blocked, ResultStatus(blocked)))
           \/ ReturnPaused(w, blocked)
           \/ Become(w, [worker[w] EXCEPT !.phase = "failing"]) /\ UNCHANGED task
           \/ Become(w, call) /\ UNCHANGED task
           \/ /\ Progress(w, call, "running")
              /\ Become(w, [call EXCEPT !.phase = "writing", !.at = c])
    BY <1>5 DEF NextChapter
  <2> HIDE DEF c
  <2>3. /\ blocked \in WorkerType
        /\ blocked.done = worker[w].done /\ blocked.seen = worker[w].seen
    BY <1>3, <2>1, ListFacts
  <2>4. /\ call \in WorkerType /\ call.phase = "looping"
        /\ call.done = worker[w].done /\ call.seen = worker[w].seen
    BY <1>1, <1>3 DEF WorkerType
  <2> DEFINE new == [call EXCEPT !.phase = "writing", !.at = c]
  <2> HIDE DEF blocked, call
  <2>5. CASE /\ Progress(w, blocked, "needs_review")
             /\ Become(w, Returned(blocked, ResultStatus(blocked)))
    BY <1>1, <1>2, <1>3, <2>3, <2>5, StopsSteady
  <2>6. CASE ReturnPaused(w, blocked)
    BY <1>2, <1>3, <2>3, <2>6, ReturnPausedStands DEF Steady
  <2>7. CASE Become(w, call) /\ UNCHANGED task
    BY <1>2, <1>3, <2>4, <2>7, RowsUnchanged, GoesOnStands DEF Steady
  <2>8. CASE Progress(w, call, "running") /\ Become(w, new)
    <3>1. new.phase = "writing" /\ new.done = worker[w].done /\ new.seen = worker[w].seen
      BY <2>4 DEF WorkerType
    <3>2. ~Stopping(worker[w].task)
      BY <2>2 DEF StopRequested, AbortRequested, PauseRequested, Stopping
    <3> HIDE DEF new
    <3>3. Stands(worker[w], new)
      BY <1>2, <1>3, <3>1, <3>2 DEF Stands, DraftOK, Credits
    <3> QED
      BY <1>2, <1>3, <2>4, <2>8, <3>3, ProgressStands, CallsBecome DEF Steady
  <2>9. CASE Become(w, [worker[w] EXCEPT !.phase = "failing"]) /\ UNCHANGED task
    <3> DEFINE fail == [worker[w] EXCEPT !.phase = "failing"]
    <3>1. /\ fail.phase = "failing" /\ fail.done = worker[w].done
          /\ fail.seen = worker[w].seen
      BY <1>3 DEF WorkerType
    <3>2. Become(w, fail)
      BY <2>9
    <3> HIDE DEF fail
    <3> QED
      BY <1>2, <1>3, <2>9, <3>1, <3>2, RowsUnchanged, GoesOnStands DEF Steady
  <2> QED
    BY <2>2, <2>5, <2>6, <2>7, <2>8, <2>9 DEF new
<1> QED
  BY <1>4, <1>5

\* A worker on a chapter.
LEMMA InChapterCall ==
  ASSUME TaskAssumption, CInv, NEW w \in Workers, worker[w].phase \in InChapter
  PROVE  /\ ~At(w, "idle") /\ TypeOK
         /\ worker[w] \in WorkerType /\ worker[w].task \in Tasks
         /\ worker[w].at \in Chapters /\ Len(candidate[worker[w].at]) \in Nat
         /\ worker[w].done \subseteq InCanon /\ worker[w].seen \subseteq InCanon
<1>1. ~At(w, "idle") /\ worker[w].at \in Chapters /\ TypeOK
  BY InChapterFacts DEF CInv
<1> QED
  BY <1>1, CallFacts DEF TypeOK

LEMMA WriteSteady == ASSUME TaskAssumption, CInv, NEW w \in Workers, Write(w) PROVE Steady
<1>1. worker[w].phase \in InChapter /\ worker[w].phase = "writing"
  BY DEF Write, At, InChapter
<1>2. /\ ~At(w, "idle") /\ TypeOK /\ worker[w] \in WorkerType /\ worker[w].task \in Tasks
      /\ worker[w].at \in Chapters /\ Len(candidate[worker[w].at]) \in Nat
      /\ worker[w].done \subseteq InCanon /\ worker[w].seen \subseteq InCanon
  BY <1>1, InChapterCall
<1> PICK c \in Chapters : c = worker[w].at
  BY <1>2
<1> DEFINE n == Len(candidate[c]) + 1
           call == [worker[w] EXCEPT !.phase = "preparing", !.draft = n]
<1>3. /\ candidate' = [candidate EXCEPT ![c] = Append(@, "reviewed")]
      /\ UNCHANGED <<chapter, wrote, overrun>>
      /\ \/ ReturnPaused(w, worker[w])
         \/ Progress(w, worker[w], "running") /\ Become(w, call)
  BY DEF Write
<1>4. DraftsStay /\ CanonSame /\ Len(candidate'[c]) = n
  BY <1>2, <1>3, AppendSame
<1>5. BookStands /\ InCanon' = InCanon
  BY <1>3, <1>4, BookDrafted
<1>6. /\ call.phase = "preparing" /\ call.draft = n /\ call.at = c
      /\ call.done = worker[w].done /\ call.seen = worker[w].seen
  BY <1>2 DEF WorkerType
<1>7. n \in 1..Len(candidate'[c])
  BY <1>2, <1>4
<1> HIDE DEF call, n
<1>8. Stands(worker[w], call)
  BY <1>1, <1>2, <1>5, <1>6, <1>7 DEF Stands, DraftOK, Credits, MayAdmit
<1> QED
  BY <1>2, <1>3, <1>5, <1>8, ReturnPausedStands, ProgressStands, CallsBecome DEF Steady

LEMMA RepairSteady == ASSUME TaskAssumption, CInv, NEW w \in Workers, Repair(w) PROVE Steady
<1>1. worker[w].phase \in InChapter /\ worker[w].phase = "repairing"
  BY DEF Repair, At, InChapter
<1>2. /\ TypeOK /\ worker[w] \in WorkerType
      /\ worker[w].at \in Chapters /\ Len(candidate[worker[w].at]) \in Nat
      /\ worker[w].done \subseteq InCanon /\ worker[w].seen \subseteq InCanon
  BY <1>1, InChapterCall
<1> PICK c \in Chapters : c = worker[w].at
  BY <1>2
<1> DEFINE n == Len(candidate[c]) + 1
<1>3. /\ candidate' = [candidate EXCEPT ![c] = Append(@, "reviewed")]
      /\ UNCHANGED <<task, chapter, wrote, overrun>>
  BY DEF Repair
<1>4. PICK phase \in {"preparing", "rejecting"} :
        Become(w, [worker[w] EXCEPT !.phase = phase, !.draft = n])
  BY DEF Repair
<1> DEFINE call == [worker[w] EXCEPT !.phase = phase, !.draft = n]
<1>5. DraftsStay /\ CanonSame /\ Len(candidate'[c]) = n
  BY <1>2, <1>3, AppendSame
<1>6. BookStands /\ InCanon' = InCanon
  BY <1>3, <1>5, BookDrafted
<1>7. /\ call.phase = phase /\ call.draft = n /\ call.at = c
      /\ call.done = worker[w].done /\ call.seen = worker[w].seen
  BY <1>2 DEF WorkerType
<1>8. n \in 1..Len(candidate'[c])
  BY <1>2, <1>5
<1>9. Become(w, call)
  BY <1>4
<1> HIDE DEF call, n
<1>10. Stands(worker[w], call)
  BY <1>1, <1>2, <1>6, <1>7, <1>8 DEF Stands, DraftOK, Credits, MayAdmit
<1> QED
  BY <1>3, <1>6, <1>9, <1>10, RowsUnchanged, CallsBecome DEF Steady

LEMMA PrepareSteady ==
  ASSUME TaskAssumption, CInv, NEW w \in Workers, Prepare(w) PROVE Steady
<1>1. worker[w].phase \in InChapter /\ worker[w].phase = "preparing"
  BY DEF Prepare, At, InChapter
<1>2. /\ TypeOK /\ worker[w] \in WorkerType /\ worker[w].task \in Tasks
      /\ worker[w].at \in Chapters
      /\ worker[w].done \subseteq InCanon /\ worker[w].seen \subseteq InCanon
  BY <1>1, InChapterCall
<1>3. worker[w].draft \in 1..Len(candidate[worker[w].at])
  BY <1>1, CInvFacts DEF DraftOK
<1> PICK c \in Chapters : c = worker[w].at
  BY <1>2
<1> PICK k \in 1..Len(candidate[c]) : k = worker[w].draft
  BY <1>3
<1>4. /\ Progress(w, worker[w], "running") /\ UNCHANGED <<chapter, wrote, overrun>>
      /\ \/ candidate[c][k] = "reviewed" /\ candidate' = [candidate EXCEPT ![c][k] = "ready"]
         \/ UNCHANGED candidate
  BY DEF Prepare
<1>5. PICK phase \in {"admitting", "repairing", "rejecting"} :
        Become(w, [worker[w] EXCEPT !.phase = phase])
  BY DEF Prepare
<1>6. BookStands /\ InCanon' = InCanon
  <2>1. CASE UNCHANGED candidate
    BY <1>4, <2>1, BookSame
  <2>2. CASE candidate[c][k] = "reviewed" /\ candidate' = [candidate EXCEPT ![c][k] = "ready"]
    <3>1. DraftsStay /\ CanonSame
      BY <1>2, <2>2, SetCandidate
    <3> QED
      BY <1>4, <3>1, BookDrafted
  <2> QED
    BY <1>4, <2>1, <2>2
<1> DEFINE call == [worker[w] EXCEPT !.phase = phase]
<1>7. /\ call.phase = phase /\ call.draft = k /\ call.at = c
      /\ call.done = worker[w].done /\ call.seen = worker[w].seen
  BY <1>2 DEF WorkerType
<1>8. Become(w, call)
  BY <1>5
<1> HIDE DEF call
<1>9. k \in 1..Len(candidate'[c])
  BY <1>6 DEF BookStands, DraftsStay
<1>10. Stands(worker[w], call)
  BY <1>1, <1>2, <1>6, <1>7, <1>9 DEF Stands, DraftOK, Credits, MayAdmit
<1> QED
  BY <1>2, <1>4, <1>6, <1>8, <1>10, ProgressStands, CallsBecome DEF Steady

LEMMA GateStopsSteady ==
  ASSUME TaskAssumption, CInv, NEW w \in Workers, GateStops(w) PROVE Steady
<1> DEFINE c == worker[w].at
           floor == [worker[w] EXCEPT !.failed = @ \cup {c}]
           gate == [worker[w] EXCEPT !.paused = @ \cup {c}]
<1>1. worker[w].phase \in InChapter
  BY DEF GateStops, At, InChapter
<1>2. /\ ~At(w, "idle") /\ worker[w] \in WorkerType /\ c \in Chapters
      /\ worker[w].done \subseteq InCanon /\ worker[w].seen \subseteq InCanon
  BY <1>1, InChapterCall
<1>3. /\ floor \in WorkerType /\ floor.done = worker[w].done /\ floor.seen = worker[w].seen
      /\ gate \in WorkerType /\ gate.done = worker[w].done /\ gate.seen = worker[w].seen
  BY <1>2, ListFacts
<1>4. /\ UNCHANGED <<candidate, wrote, overrun>>
      /\ \/ /\ MarkChapter(c, "failed") /\ UNCHANGED task
            /\ Become(w, Returned(floor, ResultStatus(floor)))
         \/ /\ MarkChapter(c, "needs_review") /\ Progress(w, gate, "needs_review")
            /\ Become(w, Returned(gate, ResultStatus(gate)))
  BY DEF GateStops
<1> HIDE DEF floor, gate
<1>5. BookStands /\ InCanon' = InCanon
  BY <1>2, <1>4, BookMarked
<1> QED
  BY <1>2, <1>3, <1>4, <1>5, StopsSteady, RowsUnchanged, ReturnedStands DEF Steady

LEMMA ChapterBlockedSteady ==
  ASSUME TaskAssumption, CInv, NEW w \in Workers, ChapterBlocked(w) PROVE Steady
<1> DEFINE call == [worker[w] EXCEPT !.paused = @ \cup {worker[w].at}]
<1>1. worker[w].phase \in InChapter
  BY DEF ChapterBlocked, At, InChapter
<1>2. /\ ~At(w, "idle") /\ worker[w] \in WorkerType /\ worker[w].at \in Chapters
      /\ worker[w].done \subseteq InCanon /\ worker[w].seen \subseteq InCanon
  BY <1>1, InChapterCall
<1>3. call \in WorkerType /\ call.done = worker[w].done /\ call.seen = worker[w].seen
  BY <1>2, ListFacts
<1>4. /\ Progress(w, call, "needs_review") /\ Become(w, Returned(call, ResultStatus(call)))
  BY DEF ChapterBlocked
<1> HIDE DEF call
<1>5. BookStands /\ InCanon' = InCanon
  BY BookSame DEF ChapterBlocked
<1> QED
  BY <1>2, <1>3, <1>4, <1>5, StopsSteady

LEMMA RejectSteady ==
  ASSUME TaskAssumption, CInv, NEW w \in Workers, Reject(w) PROVE Steady
<1> DEFINE call == [worker[w] EXCEPT !.paused = @ \cup {worker[w].at}]
<1>1. worker[w].phase \in InChapter
  BY DEF Reject, At, InChapter
<1>2. /\ ~At(w, "idle") /\ worker[w] \in WorkerType /\ worker[w].at \in Chapters
      /\ worker[w].done \subseteq InCanon /\ worker[w].seen \subseteq InCanon
  BY <1>1, InChapterCall
<1>3. call \in WorkerType /\ call.done = worker[w].done /\ call.seen = worker[w].seen
  BY <1>2, ListFacts
<1>4. /\ Progress(w, call, "needs_review") /\ Become(w, Returned(call, ResultStatus(call)))
  BY DEF Reject
<1> HIDE DEF call
<1>5. BookStands /\ InCanon' = InCanon
  BY <1>2, BookMarked DEF Reject
<1> QED
  BY <1>2, <1>3, <1>4, <1>5, StopsSteady

\* The chapter that is counted has its commit.
LEMMA ConcludeSteady ==
  ASSUME TaskAssumption, CInv, NEW w \in Workers, Conclude(w) PROVE Steady
<1> DEFINE c == worker[w].at
           call == [worker[w] EXCEPT !.done = @ \cup {c}]
           held == [call EXCEPT !.paused = @ \cup {c}]
           next == [call EXCEPT !.phase = "looping", !.at = 0, !.draft = 0]
<1>1. worker[w].phase \in InChapter /\ worker[w].phase = "concluding"
  BY DEF Conclude, At, InChapter
<1>2. /\ ~At(w, "idle") /\ worker[w] \in WorkerType /\ c \in Chapters
      /\ worker[w].task \in Tasks
      /\ worker[w].done \subseteq InCanon /\ worker[w].seen \subseteq InCanon
  BY <1>1, InChapterCall
<1>3. c \in InCanon
  BY <1>1, CInvFacts
<1>4. /\ call \in WorkerType /\ call.done = worker[w].done \cup {c}
      /\ call.seen = worker[w].seen
  BY <1>2, ListFacts
<1>5. \/ ReturnPaused(w, worker[w])
      \/ ReturnPaused(w, call)
      \/ ReturnPaused(w, held)
      \/ Progress(w, call, "running") /\ Become(w, next)
  BY DEF Conclude
<1>6. BookStands /\ InCanon' = InCanon
  BY BookSame DEF Conclude
<1> HIDE DEF call
<1>7. held \in WorkerType /\ held.done = call.done /\ held.seen = call.seen
  BY <1>2, <1>4, ListFacts
<1>8. next.phase = "looping" /\ next.done = call.done /\ next.seen = call.seen
  BY <1>4 DEF WorkerType
<1> HIDE DEF held, next
<1> QED
  BY <1>2, <1>3, <1>4, <1>5, <1>6, <1>7, <1>8, ReturnPausedStands, ProgressStands,
     GoesOnStands DEF Steady

\* An exception after the commit counts the chapter: its status says accepted.
LEMMA ChapterFailsSteady ==
  ASSUME TaskAssumption, CInv, NEW w \in Workers, ChapterFails(w) PROVE Steady
<1> DEFINE c == worker[w].at
           deferred == [worker[w] EXCEPT !.done = @ \cup {c}, !.paused = @ \cup {c}]
           failed == [worker[w] EXCEPT !.failed = @ \cup {c}]
<1>1. worker[w].phase \in InChapter
  BY DEF ChapterFails, At, InChapter
<1>2. /\ ~At(w, "idle") /\ worker[w] \in WorkerType /\ c \in Chapters
      /\ worker[w].task \in Tasks
      /\ worker[w].done \subseteq InCanon /\ worker[w].seen \subseteq InCanon
  BY <1>1, InChapterCall
<1>3. /\ deferred \in WorkerType /\ deferred.done = worker[w].done \cup {c}
      /\ deferred.seen = worker[w].seen
      /\ failed \in WorkerType /\ failed.done = worker[w].done
      /\ failed.seen = worker[w].seen
  BY <1>2 DEF WorkerType
<1>4. /\ UNCHANGED <<candidate, wrote, overrun>>
      /\ \/ chapter[c] = "accepted" /\ ReturnPaused(w, deferred) /\ UNCHANGED chapter
         \/ /\ MarkChapter(c, "failed") /\ Progress(w, failed, "running")
            /\ Become(w, Returned(failed, ResultStatus(failed)))
  BY DEF ChapterFails
<1> HIDE DEF failed, deferred
<1>5. CASE chapter[c] = "accepted" /\ ReturnPaused(w, deferred) /\ UNCHANGED chapter
  <2>1. c \in InCanon
    BY <1>2, <1>5 DEF CInv, AcceptedIsCanon, InCanon
  <2>2. BookStands /\ InCanon' = InCanon
    BY <1>4, <1>5, BookSame
  <2> QED
    BY <1>2, <1>3, <1>5, <2>1, <2>2, ReturnPausedStands DEF Steady
<1>6. CASE /\ MarkChapter(c, "failed") /\ Progress(w, failed, "running")
           /\ Become(w, Returned(failed, ResultStatus(failed)))
  <2>1. BookStands /\ InCanon' = InCanon
    BY <1>2, <1>4, <1>6, BookMarked
  <2> QED
    BY <1>2, <1>3, <1>6, <2>1, StopsSteady
<1> QED
  BY <1>4, <1>5, <1>6

-----------------------------------------------------------------------------
(* The claim, the invariant and what follows *)

\* A claim starts from what the row has counted, and never in a phase that admits
\* when a stop is requested.
LEMMA ClaimCanon ==
  ASSUME TaskAssumption, CInv, NEW w \in Workers, Claim(w)
  PROVE  CInv' /\ CanonSame
<1>1. PICK t \in Tasks :
        /\ task' = [task EXCEPT ![t] =
              [task[t] EXCEPT !.status = "running", !.owner = Name[w],
                              !.epoch = task[t].epoch + 1, !.live = TRUE]]
        /\ Become(w, [Idle EXCEPT !.phase = FirstPhase(task[t]), !.task = t,
                                  !.epoch = task[t].epoch + 1, !.beating = TRUE,
                                  !.seen = task[t].completed,
                                  !.resume = ResumeFrom(task[t])])
  BY DEF Claim
<1> DEFINE n == task[t].epoch + 1
           f == FirstPhase(task[t])
           m == ResumeFrom(task[t])
           done == task[t].completed
           r == [task[t] EXCEPT !.status = "running", !.owner = Name[w],
                                !.epoch = n, !.live = TRUE]
           call == [Idle EXCEPT !.phase = f, !.task = t, !.epoch = n, !.beating = TRUE,
                                !.seen = done, !.resume = m]
<1>2. UNCHANGED <<chapter, candidate, wrote, overrun>>
  BY DEF Claim
<1>3. BookStands /\ InCanon' = InCanon
  BY <1>2, BookSame
<1>4. CanonSame
  BY <1>2, SameAccepted DEF CanonSame
<1>5. IInv'
  BY ClaimPreserves DEF CInv
<1>6. /\ task[t] \in TaskType /\ done \subseteq InCanon
      /\ task[t].epoch \in Nat
  BY DEF CInv, IInv, TypeOK, RowsCredit, TaskType, TaskAssumption
<1>7. f \in {"cancelling", "pausing", "recovering", "starting"}
      /\ (Stopping(t) => f \in {"cancelling", "pausing"})
  BY DEF FirstPhase, Stopping
<1>8. /\ task' = [task EXCEPT ![t] = r] /\ worker' = [worker EXCEPT ![w] = call]
  BY <1>1 DEF Become
<1>9. /\ r.completed = done /\ r.cancel = task[t].cancel /\ r.pause = task[t].pause
      /\ r.epoch = n
  BY <1>6 DEF TaskType
<1>10. /\ call.phase = f /\ call.task = t /\ call.seen = done /\ call.done = {}
       /\ call.epoch = n
  BY DEF Idle
<1>11. n > task[t].epoch /\ n \in Nat
  BY <1>6
<1> HIDE DEF n, f, m, done, r, call
<1>12. /\ \A s \in Tasks : task'[s] = IF s = t THEN r ELSE task[s]
       /\ \A v \in Workers : worker'[v] = IF v = w THEN call ELSE worker[v]
  BY <1>8 DEF CInv, IInv, TypeOK
<1>13. CallsCredit'
  <2>1. DraftOK(call, candidate') /\ Credits(call, InCanon')
    BY <1>3, <1>6, <1>7, <1>10 DEF DraftOK, Credits
  <2>2. \A v \in Workers : DraftOK(worker[v], candidate') /\ Credits(worker[v], InCanon')
    BY <1>3, CallStands DEF Stands
  <2> QED
    BY <1>12, <2>1, <2>2 DEF CallsCredit
<1>14. RowsCredit'
  BY <1>3, <1>6, <1>9, <1>12 DEF CInv, RowsCredit
<1>15. AcceptedIsCanon' /\ NoGap'
  BY <1>3, <1>4 DEF BookStands, CInv, NoGap, CanonSame
<1>16. Halted'
  <2>1. SUFFICES ASSUME NEW s \in Tasks, overrun[s] # 0
                 PROVE  /\ overrun[s] = 1 /\ Stopping(s)'
                        /\ \A v \in Workers :
                              InCall(v, s)' /\ OwnsRow(v)' => worker'[v].phase \notin MayAdmit
    BY <1>2 DEF Halted
  <2>2. /\ overrun[s] = 1 /\ Stopping(s)
        /\ \A v \in Workers :
              InCall(v, s) /\ OwnsRow(v) => worker[v].phase \notin MayAdmit
    BY <2>1 DEF CInv, Halted
  <2>3. Stopping(s)'
    BY <1>9, <1>12, <2>2 DEF Stopping
  <2>4. ASSUME NEW v \in Workers, InCall(v, s)', OwnsRow(v)'
        PROVE  worker'[v].phase \notin MayAdmit
    <3>1. CASE v = w
      <4>1. worker'[v] = call
        BY <1>12, <3>1
      <4>2. s = t
        BY <1>10, <2>4, <4>1 DEF InCall
      <4>3. f \in {"cancelling", "pausing"}
        BY <1>7, <2>2, <4>2
      <4> QED
        BY <1>10, <4>1, <4>3 DEF MayAdmit
    <3>2. CASE v # w
      <4>1. worker'[v] = worker[v] /\ InCall(v, s)
        BY <1>12, <2>4, <3>2 DEF InCall, At
      <4>2. s # t
        <5>1. SUFFICES ASSUME s = t PROVE FALSE
          OBVIOUS
        <5>2. task'[t].epoch = n /\ worker[v].task = t
          BY <1>9, <1>12, <4>1, <5>1 DEF InCall
        <5>3. worker[v].epoch = n
          BY <2>4, <4>1, <5>2 DEF OwnsRow
        <5>4. worker[v].epoch <= task[t].epoch
          BY <4>1, <5>1 DEF CInv, IInv, ClaimsApart, InCall
        <5> QED
          BY <1>6, <1>11, <5>3, <5>4
      <4>3. task'[s] = task[s]
        BY <1>12, <4>2
      <4>4. OwnsRow(v)
        BY <2>4, <4>1, <4>3 DEF OwnsRow, InCall
      <4> QED
        BY <2>2, <4>1, <4>4
    <3> QED
      BY <3>1, <3>2
  <2> QED
    BY <2>2, <2>3, <2>4
<1> QED
  BY <1>4, <1>5, <1>13, <1>14, <1>15, <1>16 DEF CInv

LEMMA RunSteady ==
  ASSUME TaskAssumption, CInv, NEW w \in Workers, Run(w) PROVE Steady
BY AcknowledgeSteady, ReadCandidateSteady, ReplaySteady, CreditSteady, StartSteady,
   PlanSteady, CheckpointSteady, NextChapterSteady, WriteSteady, GateStopsSteady,
   ChapterBlockedSteady, PrepareSteady, RepairSteady, AdmitSteady, RejectSteady,
   ConcludeSteady, ChapterFailsSteady, FinishSteady, EndSteady, CondemnSteady DEF Run

LEMMA InitCanon == ASSUME Init PROVE \A c \in Chapters : Canon(c) = 0
BY DEF Init, Canon

LEMMA InitCInv == ASSUME TaskAssumption, Init PROVE CInv
<1>1. IInv
  BY InitIInv
<1>2. \A w \in Workers : worker[w] = Idle
  BY DEF Init
<1>3. CallsCredit
  BY <1>2 DEF CallsCredit, DraftOK, Credits, Idle
<1>4. RowsCredit
  BY DEF Init, RowsCredit
<1>5. AcceptedIsCanon /\ NoGap
  BY InitCanon DEF Init, AcceptedIsCanon, NoGap
<1>6. Halted
  BY DEF Init, Halted
<1> QED
  BY <1>1, <1>3, <1>4, <1>5, <1>6 DEF CInv

\* Every step preserves the invariant, and changes canon by an entry or not at all.
LEMMA NextCInv ==
  ASSUME TaskAssumption, CInv, [Next]_vars
  PROVE  CInv' /\ (CanonSame \/ Entered)
<1>1. ASSUME NEW t \in Tasks,
             Enqueue(t) \/ Terminate(t) \/ Pause(t) \/ Delete(t) \/ Expire(t)
      PROVE  Kept /\ Steady
  BY <1>1, EnqueueKeeps, TerminateKeeps, PauseKeeps, DeleteKeeps, ExpireKeeps,
     RequestSteady DEF CInv
<1>2. ASSUME NEW w \in Workers, Claim(w)
      PROVE  CInv' /\ (CanonSame \/ Entered)
  BY <1>2, ClaimCanon
<1>3. ASSUME NEW w \in Workers, Heartbeat(w) \/ Run(w) \/ Crash(w)
      PROVE  Kept /\ Steady
  BY <1>3, HeartbeatKeeps, RunKeeps, CrashKeeps, HeartbeatSteady, RunSteady,
     EndSteady DEF CInv
<1>4. CASE UNCHANGED vars
  <2>1. Kept
    BY <1>4, UnchangedRows, RowStep DEF vars, CInv, IInv
  <2>2. BookStands
    BY <1>4, BookSame DEF vars
  <2>3. Steady
    BY <1>4, <2>2, RowsUnchanged, CallsUnchanged DEF vars, Steady
  <2> QED
    BY <2>1, <2>3, StandsPreserves DEF Steady, BookStands
<1> QED
  BY <1>1, <1>2, <1>3, <1>4, StandsPreserves DEF Next, Steady, BookStands

\* The invariant of canon holds in every reachable state.
THEOREM CanonInvariance == Spec => []CInv
<1>1. Init => CInv
  BY TaskAssumption, InitCInv
<1>2. CInv /\ [Next]_vars => CInv'
  BY TaskAssumption, NextCInv
<1> QED
  BY <1>1, <1>2, PTL DEF Spec

\* No task and no run is ever credited with a chapter that is not in canon: what
\* a call is about to count has its commit behind it, and no commit is undone.
THEOREM ProgressIsCanon == Spec => []CreditedIsCanon
<1>1. CInv => CreditedIsCanon
  BY DEF CInv, RowsCredit, CallsCredit, Credits, InCanon, CreditedIsCanon
<1> QED
  BY <1>1, CanonInvariance, PTL

\* After a stop request at most one more chapter enters canon, whatever number of
\* workers, claims and crashes follow: the chapter that enters leaves no owner of
\* the row with another in progress, and none begins one while the request stands.
THEOREM OneChapterAfterStop == Spec => []StopsSoon
<1>1. CInv => StopsSoon
  <2>1. SUFFICES ASSUME CInv, NEW t \in Tasks PROVE overrun[t] <= 1
    BY DEF StopsSoon
  <2>2. overrun[t] \in 0..Book
    BY <2>1, CInvFacts DEF TypeOK
  <2>3. overrun[t] # 0 => overrun[t] = 1
    BY <2>1 DEF CInv, Halted
  <2> QED
    BY <2>2, <2>3
<1> QED
  BY <1>1, CanonInvariance, PTL

\* The chapters of the book are a CanonLedger: each enters canon once, with one
\* candidate, after every chapter before it, and stays.
LEMMA InitLedger == ASSUME Init PROVE Ledger!Init
BY InitCanon DEF Ledger!Init

LEMMA NextLedger ==
  ASSUME TaskAssumption, CInv, [Next]_vars
  PROVE  [Ledger!Next]_([c \in Chapters |-> Canon(c)])
<1>1. CanonSame \/ Entered
  BY NextCInv
<1>2. CASE CanonSame
  BY <1>2 DEF CanonSame
<1>3. CASE Entered
  <2>1. PICK e \in Chapters, k \in 1..MaxDrafts :
          /\ Canon(e) = 0
          /\ e > 1 => Canon(e - 1) # 0
          /\ \A d \in Chapters : Canon(d)' = IF d = e THEN k ELSE Canon(d)
    BY <1>3 DEF Entered
  <2>2. \A d \in Chapters : d < e => Canon(d) # 0
    <3>1. SUFFICES ASSUME NEW d \in Chapters, d < e PROVE Canon(d) # 0
      OBVIOUS
    <3>2. e > 1 /\ e - 1 \in Chapters /\ (d = e - 1 \/ d < e - 1)
      BY <3>1 DEF Chapters, TaskAssumption
    <3> QED
      BY <2>1, <3>2 DEF CInv, NoGap
  <2>3. [c \in Chapters |-> Canon(c)]' = [[c \in Chapters |-> Canon(c)] EXCEPT ![e] = k]
    BY <2>1
  <2>4. Ledger!Admit(e)
    BY <2>1, <2>2, <2>3 DEF Ledger!Admit
  <2> QED
    BY <2>4 DEF Ledger!Next
<1> QED
  BY <1>1, <1>2, <1>3

\* Chapters enter canon in order and once each: GenerationTask implements
\* CanonLedger.
THEOREM CanonInOrder == Spec => AdmitsOnceInOrder
<1>1. Init => Ledger!Init
  BY InitLedger
<1>2. CInv /\ [Next]_vars => [Ledger!Next]_([c \in Chapters |-> Canon(c)])
  BY TaskAssumption, NextLedger
<1> QED
  BY <1>1, <1>2, CanonInvariance, PTL DEF Spec, AdmitsOnceInOrder, Ledger!Spec

-----------------------------------------------------------------------------
(* The quota: the second inductive invariant *)

\* No row was failed by a call that had lost it.
NoneCondemned == \A t \in Tasks : ~task[t].condemned

\* Committed chapters whose status has been overwritten.
Redo == {c \in InCanon : chapter[c] # "accepted"}

\* The chapters before f are in S.
Before(f, S) == \A d \in Chapters : d < f => d \in S

\* X is at most one chapter ahead of C, and only for a reason.
Lags(X, C, reason) ==
    \/ Cardinality(X) <= Cardinality(C)
    \/ Cardinality(X) <= Cardinality(C) + 1 /\ reason

\* What a task that wrote X was asked for leaves room for all that is missing from
\* the canon S, unless it is the quota.
Asked(row, X, S) ==
    /\ row.requested >= 1
    /\ \/ MaxChapters # 0 /\ row.requested >= MaxChapters
       \/ Cardinality(X) + Cardinality(Chapters \ S) <= row.requested

\* A row that has not ended resumes from a chapter above those it completed; where
\* a commit is not credited yet, it resumes from a chapter in canon.
Resumable(row, X, S) ==
    /\ row.paused = {}
    /\ \A f \in row.failed : Before(f, S) /\ \A d \in row.completed : d < f
    /\ Lags(X, row.completed, /\ row.failed \subseteq S
                              /\ \E u \in S : \A d \in row.completed : d < u)

\* A row that wrote X, with the chapters of S in canon.
RowFits(row, X, S) ==
    /\ row.status \in {"absent", "queued"} => row.epoch = 0 /\ X = {}
    /\ row.status # "absent" => Asked(row, X, S)
    /\ Cardinality(X) <= row.requested
    /\ row.status \notin Terminal => Resumable(row, X, S)

Opening == {"recovering", "replaying", "crediting", "starting", "planning"}
Drafting == {"writing", "preparing", "repairing", "admitting", "rejecting", "concluding"}
Running == {"cancelling", "pausing", "looping"} \cup Opening \cup Drafting

\* The chapters before those a call works on, and before those it has left, are in
\* canon or left.
CallFits(call, S) ==
    /\ call.epoch >= 1
    /\ call.phase \in Running => call.failed = {} /\ call.paused = {}
    /\ call.phase \in Opening => call.done = {} /\ Before(call.resume, S)
    /\ call.phase \in {"recovering", "starting", "planning", "looping"} => call.at = 0
    /\ call.phase = "looping" => \A e \in call.todo : Before(e, S \cup call.todo)
    /\ call.phase \in Drafting =>
          /\ Before(call.at, S)
          /\ \A e \in call.todo : call.at < e /\ Before(e, S \cup call.todo \cup {call.at})

\* What the holder of a row that wrote X knows of it: what is completed, what lies
\* ahead, and that all it has left to write is within the request.
HolderFits(call, row, X, S, R) ==
    /\ call.phase \in Running => ~row.deleted /\ row.status \notin Terminal
    /\ call.phase \in Opening =>
          /\ call.seen = row.completed
          /\ \A d \in row.completed : d < call.resume
    /\ call.phase \in {"recovering", "replaying", "crediting"} =>
          \A f \in row.failed : call.resume <= f
    /\ call.phase \in {"replaying", "crediting"} => call.at = call.resume
    /\ call.phase \in {"recovering", "replaying"} =>
          Lags(X, row.completed, call.resume \in S)
    /\ call.phase = "crediting" => Lags(X, row.completed, TRUE)
    /\ call.phase \in {"starting", "planning"} => Lags(X, row.completed, call.resume \in R)
    /\ call.phase = "planning" => Cardinality(row.completed) < row.requested
    /\ call.phase = "looping" =>
          /\ call.done \subseteq row.completed
          /\ \A d \in row.completed, e \in call.todo : d < e
          /\ Cardinality(X) + Cardinality(call.todo \ S) <= row.requested
          /\ Lags(X, row.completed, \E r \in call.todo \cap R : \A e \in call.todo : r <= e)
    /\ call.phase \in Drafting =>
          /\ call.done \subseteq row.completed
          /\ \A d \in row.completed : d < call.at
          /\ Cardinality(X) + Cardinality((call.todo \cup {call.at}) \ S) <= row.requested
          /\ Lags(X, row.completed, call.at \in S)
          /\ row.failed = {}

Fits(w) ==
    ~At(w, "idle") =>
        /\ CallFits(worker[w], InCanon)
        /\ OwnsRow(w) => HolderFits(worker[w], task[worker[w].task],
                                    wrote[worker[w].task], InCanon, Redo)

\* Somebody writes chapter c.
Writes(w, c) == worker[w].phase \in Drafting /\ worker[w].at = c

\* Chapter c is not in canon, and has a candidate or is being written.
Open(c) == c \notin InCanon /\ (candidate[c] # <<>> \/ \E w \in Workers : Writes(w, c))

RowsFit == \A t \in Tasks : RowFits(task[t], wrote[t], InCanon)
OneActive == \A s, t \in Tasks : Active(s) /\ Active(t) => s = t
CallsFit == \A w \in Workers : Fits(w)
DraftsFit == \A c \in Chapters : candidate[c] # <<>> => Before(c, InCanon)

\* The active task may write the chapter that is open.
Room ==
    \A t \in Tasks, c \in Chapters :
        Active(t) /\ Open(c) => Cardinality(wrote[t]) < task[t].requested

QInv == RowsFit /\ OneActive /\ CallsFit /\ DraftsFit /\ Room

-----------------------------------------------------------------------------
(* Counting chapters *)

LEMMA CardUp ==
  ASSUME TaskAssumption, NEW T \in SUBSET Chapters, NEW S, S \subseteq T
  PROVE  /\ Cardinality(S) \in Nat /\ Cardinality(T) \in Nat
         /\ Cardinality(S) <= Cardinality(T)
<1>1. IsFiniteSet(T)
  BY ChaptersCounted
<1>2. IsFiniteSet(S) /\ Cardinality(S) <= Cardinality(T)
  BY <1>1, FS_Subset
<1> QED
  BY <1>1, <1>2, FS_CardinalityType

LEMMA CardAdd ==
  ASSUME TaskAssumption, NEW S \in SUBSET Chapters, NEW c \in Chapters, c \notin S
  PROVE  Cardinality(S \cup {c}) = Cardinality(S) + 1
<1>1. IsFiniteSet(S)
  BY ChaptersCounted
<1> QED
  BY <1>1, FS_AddElement

LEMMA CardDrop ==
  ASSUME TaskAssumption, NEW S \in SUBSET Chapters, NEW c \in S
  PROVE  Cardinality(S) = Cardinality(S \ {c}) + 1
<1>1. S \ {c} \in SUBSET Chapters /\ c \in Chapters /\ c \notin S \ {c}
      /\ (S \ {c}) \cup {c} = S
  OBVIOUS
<1> QED
  BY <1>1, CardAdd

\* A chapter enters canon and is counted.
LEMMA CardEnters ==
  ASSUME TaskAssumption, NEW X \in SUBSET Chapters, NEW S, NEW T \in SUBSET Chapters,
         NEW c \in T \ S
  PROVE  Cardinality(X \cup {c}) + Cardinality(T \ (S \cup {c}))
            <= Cardinality(X) + Cardinality(T \ S)
<1>1. Cardinality(T \ S) = Cardinality((T \ S) \ {c}) + 1
  BY CardDrop
<1>2. (T \ S) \ {c} = T \ (S \cup {c})
  OBVIOUS
<1>3. Cardinality(X \cup {c}) <= Cardinality(X) + 1
  <2>1. CASE c \in X
    <3>1. X \cup {c} = X /\ Cardinality(X) \in Nat
      BY <2>1, CardUp
    <3> QED
      BY <3>1
  <2>2. CASE c \notin X
    <3>1. Cardinality(X \cup {c}) = Cardinality(X) + 1 /\ Cardinality(X) \in Nat
      BY <2>2, CardAdd, CardUp
    <3> QED
      BY <3>1
  <2> QED
    BY <2>1, <2>2
<1>4. /\ Cardinality(X \cup {c}) \in Nat /\ Cardinality(X) \in Nat
      /\ Cardinality(T \ S) \in Nat /\ Cardinality((T \ S) \ {c}) \in Nat
  BY CardUp
<1> QED
  BY <1>1, <1>2, <1>3, <1>4

-----------------------------------------------------------------------------
(* What fits stays so as canon grows *)

LEMMA AskedGrows ==
  ASSUME TaskAssumption, NEW row, row.requested \in Nat,
         NEW X \in SUBSET Chapters, NEW S, NEW T, S \subseteq T, Asked(row, X, S)
  PROVE  Asked(row, X, T)
<1>1. /\ Cardinality(Chapters \ T) <= Cardinality(Chapters \ S)
      /\ Cardinality(Chapters \ T) \in Nat /\ Cardinality(Chapters \ S) \in Nat
      /\ Cardinality(X) \in Nat
  BY CardUp
<1> QED
  BY <1>1 DEF Asked

LEMMA ResumableGrows ==
  ASSUME NEW row, NEW X, NEW S, NEW T, S \subseteq T, Resumable(row, X, S)
  PROVE  Resumable(row, X, T)
BY DEF Resumable, Before, Lags

LEMMA RowFitsGrows ==
  ASSUME TaskAssumption, NEW row, row.requested \in Nat,
         NEW X \in SUBSET Chapters, NEW S, NEW T, S \subseteq T, RowFits(row, X, S)
  PROVE  RowFits(row, X, T)
BY AskedGrows, ResumableGrows DEF RowFits

LEMMA CallFitsGrows ==
  ASSUME NEW call, NEW S, NEW T, S \subseteq T, CallFits(call, S)
  PROVE  CallFits(call, T)
BY DEF CallFits, Before

\* What a call has left to write does not grow with canon.
LEMMA LeftGrows ==
  ASSUME TaskAssumption, NEW X \in SUBSET Chapters, NEW U \in SUBSET (Chapters \cup {0}),
         NEW S, NEW T, S \subseteq T
  PROVE  \A n \in Nat : Cardinality(X) + Cardinality(U \ S) <= n
                           => Cardinality(X) + Cardinality(U \ T) <= n
<1>1. IsFiniteSet(U \ S)
  <2>1. IsFiniteSet(Chapters) /\ IsFiniteSet({0})
    BY ChaptersCounted, FS_Singleton
  <2>2. IsFiniteSet(Chapters \cup {0})
    BY <2>1, FS_Union
  <2> QED
    BY <2>2, FS_Subset
<1>2. IsFiniteSet(U \ T) /\ Cardinality(U \ T) <= Cardinality(U \ S)
  BY <1>1, FS_Subset
<1>3. Cardinality(X) \in Nat /\ Cardinality(U \ S) \in Nat /\ Cardinality(U \ T) \in Nat
  BY <1>1, <1>2, CardUp, FS_CardinalityType
<1> QED
  BY <1>2, <1>3

LEMMA HolderFitsGrows ==
  ASSUME TaskAssumption, NEW call \in WorkerType, NEW row, row.requested \in Nat,
         NEW X \in SUBSET Chapters, NEW S, NEW T, S \subseteq T, NEW Q, NEW R, Q \subseteq R,
         HolderFits(call, row, X, S, Q)
  PROVE  HolderFits(call, row, X, T, R)
<1>1. call.todo \in SUBSET (Chapters \cup {0})
      /\ call.todo \cup {call.at} \in SUBSET (Chapters \cup {0})
  BY DEF WorkerType, Chapters
<1>3. call.phase = "looping" => Cardinality(X) + Cardinality(call.todo \ T) <= row.requested
  <2>1. call.phase = "looping" => Cardinality(X) + Cardinality(call.todo \ S) <= row.requested
    BY DEF HolderFits
  <2> QED
    BY <1>1, <2>1, LeftGrows
<1>4. call.phase \in Drafting =>
         Cardinality(X) + Cardinality((call.todo \cup {call.at}) \ T) <= row.requested
  <2>1. call.phase \in Drafting =>
           Cardinality(X) + Cardinality((call.todo \cup {call.at}) \ S) <= row.requested
    BY DEF HolderFits
  <2> QED
    BY <1>1, <2>1, LeftGrows
<1>5. call.phase = "looping" =>
         Lags(X, row.completed, \E r \in call.todo \cap R : \A e \in call.todo : r <= e)
  <2>1. call.phase = "looping" =>
           Lags(X, row.completed, \E r \in call.todo \cap Q : \A e \in call.todo : r <= e)
    BY DEF HolderFits
  <2> QED
    BY <2>1 DEF Lags
<1>6. /\ call.phase \in {"recovering", "replaying"} =>
            Lags(X, row.completed, call.resume \in T)
      /\ call.phase \in {"starting", "planning"} => Lags(X, row.completed, call.resume \in R)
      /\ call.phase \in Drafting => Lags(X, row.completed, call.at \in T)
  BY DEF HolderFits, Lags
<1> QED
  BY <1>3, <1>4, <1>5, <1>6 DEF HolderFits

-----------------------------------------------------------------------------
(* What a step leaves alone *)

LEMMA QTypes ==
  ASSUME CInv
  PROVE  /\ TypeOK /\ InCanon \in SUBSET Chapters
         /\ \A t \in Tasks : /\ task[t] \in TaskType /\ wrote[t] \in SUBSET Chapters
                             /\ task[t].requested \in Nat
         /\ \A w \in Workers : worker[w] \in WorkerType
<1>1. TypeOK
  BY CInvFacts
<1>2. \A t \in Tasks : task[t] \in TaskType
  BY <1>1 DEF TypeOK
<1>3. \A t \in Tasks : task[t].requested \in Nat
  BY <1>2 DEF TaskType
<1> QED
  BY <1>1, <1>2, <1>3 DEF TypeOK, InCanon

\* A call that a step leaves alone still fits: its row, if it still has it, is as
\* it was.
LEMMA OtherFits ==
  ASSUME TaskAssumption, CInv, CallsFit, InCanon \subseteq InCanon', Redo \subseteq Redo',
         NEW v \in Workers, worker'[v] = worker[v],
         OwnsRow(v)' => /\ OwnsRow(v)
                        /\ task'[worker[v].task] = task[worker[v].task]
                        /\ wrote'[worker[v].task] = wrote[worker[v].task]
  PROVE  Fits(v)'
<1>1. SUFFICES ASSUME ~At(v, "idle")
               PROVE  /\ CallFits(worker[v], InCanon')
                      /\ OwnsRow(v)' => HolderFits(worker'[v], task'[worker'[v].task],
                                          wrote'[worker'[v].task], InCanon', Redo')
  BY DEF Fits, At
<1>2. /\ CallFits(worker[v], InCanon)
      /\ OwnsRow(v) => HolderFits(worker[v], task[worker[v].task],
                                  wrote[worker[v].task], InCanon, Redo)
  BY <1>1 DEF CallsFit, Fits
<1>3. worker[v].task \in Tasks /\ worker[v] \in WorkerType
  BY <1>1, CallFacts
<1>4. task[worker[v].task].requested \in Nat /\ wrote[worker[v].task] \in SUBSET Chapters
  BY <1>3, QTypes
<1>5. CallFits(worker[v], InCanon')
  BY <1>2, CallFitsGrows
<1>6. OwnsRow(v) => HolderFits(worker[v], task[worker[v].task],
                               wrote[worker[v].task], InCanon', Redo')
  BY <1>2, <1>3, <1>4, HolderFitsGrows
<1> QED
  BY <1>5, <1>6

\* A call that goes on keeps its claim.
LEMMA GoesOnFacts ==
  ASSUME CInv, Kept, Steady, NEW v \in Workers, ~At(v, "idle")'
  PROVE  /\ ~At(v, "idle") /\ worker'[v].task = worker[v].task /\ worker[v].task \in Tasks
         /\ worker'[v].epoch = worker[v].epoch
         /\ OwnsRow(v)' => OwnsRow(v)
<1>1. /\ worker'[v].phase # "idle" /\ worker[v].phase # "idle"
      /\ worker'[v].task = worker[v].task /\ worker'[v].epoch = worker[v].epoch
  BY DEF At, Kept, CallsKept, Keeps
<1>2. worker[v].task \in Tasks
  BY <1>1, CallFacts DEF At
<1>3. /\ task'[worker[v].task].owner = task[worker[v].task].owner
      /\ task'[worker[v].task].epoch = task[worker[v].task].epoch
  BY <1>2 DEF Steady, RowsStand, Kept, RowsKept
<1> QED
  BY <1>1, <1>2, <1>3 DEF OwnsRow, At

\* A row has one owner.
LEMMA OneOwner ==
  ASSUME CInv, NEW v \in Workers, NEW w \in Workers, ~At(v, "idle"), ~At(w, "idle"),
         worker[v].task = worker[w].task, OwnsRow(v), OwnsRow(w)
  PROVE  v = w
BY DEF CInv, IInv, ClaimsApart, OwnsRow

\* The canon and the chapters to redo grow.
LEMMA RedoGrows ==
  ASSUME CInv, Steady, \A c \in InCanon : chapter'[c] = "accepted" => chapter[c] = "accepted"
  PROVE  InCanon \subseteq InCanon' /\ Redo \subseteq Redo'
<1>1. InCanon \subseteq InCanon'
  BY CanonGrows DEF Steady
<1> QED
  BY <1>1 DEF Redo

\* Where a step gives no task a new chapter to write, the active one still may.
LEMMA RoomStays ==
  ASSUME Room, UNCHANGED wrote,
         \A s \in Tasks : Active(s)' => Active(s) /\ task'[s].requested = task[s].requested,
         \A c \in Chapters : Open(c)' => Open(c)
  PROVE  Room'
BY DEF Room

LEMMA OpenStays ==
  ASSUME InCanon \subseteq InCanon', NEW c \in Chapters, Open(c)',
         candidate'[c] # <<>> => candidate[c] # <<>> \/ \E w \in Workers : Writes(w, c),
         \A v \in Workers : Writes(v, c)' => Writes(v, c)
  PROVE  Open(c)
BY DEF Open

\* What worker w does to its row and to its call.
Acts(w, t) ==
    /\ InCall(w, t)
    /\ \A v \in Workers \ {w} : worker'[v] = worker[v]
    /\ \A s \in Tasks \ {t} : task'[s] = task[s] /\ wrote'[s] = wrote[s]
    /\ task'[t].requested = task[t].requested
    /\ OwnsRow(w) \/ (task'[t] = task[t] /\ wrote'[t] = wrote[t])

\* A step of a worker preserves the invariant when what it changes fits.
LEMMA ActFits ==
  ASSUME TaskAssumption, CInv, QInv, Kept, Steady, NEW w \in Workers, NEW t \in Tasks,
         Acts(w, t),
         \A c \in InCanon : chapter'[c] = "accepted" => chapter[c] = "accepted",
         RowFits(task'[t], wrote'[t], InCanon'),
         Active(t)' => Active(t),
         worker'[w].phase # "idle" =>
             /\ CallFits(worker'[w], InCanon')
             /\ OwnsRow(w) => HolderFits(worker'[w], task'[t], wrote'[t], InCanon', Redo'),
         DraftsFit', Room'
  PROVE  QInv'
<1>1. InCanon \subseteq InCanon' /\ Redo \subseteq Redo'
  BY RedoGrows
<1>2. RowsFit'
  <2>1. SUFFICES ASSUME NEW s \in Tasks, s # t PROVE RowFits(task'[s], wrote'[s], InCanon')
    BY DEF RowsFit
  <2>2. task'[s] = task[s] /\ wrote'[s] = wrote[s] /\ RowFits(task[s], wrote[s], InCanon)
    BY <2>1 DEF Acts, QInv, RowsFit
  <2> QED
    BY <1>1, <2>2, QTypes, RowFitsGrows
<1>3. OneActive'
  <2>1. \A s \in Tasks : Active(s)' => Active(s)
    BY DEF Acts, Active
  <2> QED
    BY <2>1 DEF QInv, OneActive
<1>4. ASSUME NEW v \in Workers PROVE Fits(v)'
  <2>1. CASE v = w
    <3>1. SUFFICES ASSUME ~At(v, "idle")'
                   PROVE  /\ CallFits(worker'[v], InCanon')
                          /\ OwnsRow(v)' => HolderFits(worker'[v], task'[worker'[v].task],
                                              wrote'[worker'[v].task], InCanon', Redo')
      BY DEF Fits
    <3>2. worker'[v].task = worker[v].task /\ (OwnsRow(v)' => OwnsRow(v))
      BY <3>1, GoesOnFacts
    <3>3. worker'[v].phase # "idle" /\ worker'[v].task = t
      BY <2>1, <3>1, <3>2 DEF At, Acts, InCall
    <3> QED
      BY <2>1, <3>2, <3>3
  <2>2. CASE v # w
    <3>1. worker'[v] = worker[v]
      BY <2>2 DEF Acts
    <3>2. ASSUME ~At(v, "idle"), OwnsRow(v)'
          PROVE  /\ OwnsRow(v) /\ task'[worker[v].task] = task[worker[v].task]
                 /\ wrote'[worker[v].task] = wrote[worker[v].task]
      <4>1. OwnsRow(v) /\ worker[v].task \in Tasks
        BY <3>1, <3>2, GoesOnFacts DEF At
      <4>2. worker[v].task = t => ~OwnsRow(w)
        BY <2>2, <3>2, <4>1, OneOwner DEF Acts, InCall
      <4> QED
        BY <4>1, <4>2 DEF Acts
    <3>3. CASE At(v, "idle")
      BY <3>1, <3>3 DEF Fits, At
    <3>4. CASE ~At(v, "idle")
      BY <1>1, <3>1, <3>2, <3>4, OtherFits DEF QInv
    <3> QED
      BY <3>3, <3>4
  <2> QED
    BY <2>1, <2>2
<1> QED
  BY <1>2, <1>3, <1>4 DEF QInv, CallsFit

-----------------------------------------------------------------------------
(* What a call does to its row *)

\* The row has been claimed, and its request is set.
LEMMA OwnedRow ==
  ASSUME CInv, QInv, NEW w \in Workers, NEW t \in Tasks, InCall(w, t), OwnsRow(w)
  PROVE  /\ task[t].status \notin {"absent", "queued"}
         /\ Asked(task[t], wrote[t], InCanon)
         /\ Cardinality(wrote[t]) <= task[t].requested
<1>1. CallFits(worker[w], InCanon) /\ RowFits(task[t], wrote[t], InCanon)
  BY DEF QInv, CallsFit, Fits, RowsFit, InCall
<1>2. task[t].epoch = worker[w].epoch /\ worker[w].epoch >= 1
  BY <1>1 DEF CallFits, OwnsRow, InCall
<1>3. task[t].status \notin {"absent", "queued"}
  BY <1>1, <1>2 DEF RowFits
<1> QED
  BY <1>1, <1>3 DEF RowFits

\* The row of a run has not ended.
LEMMA HeldRow ==
  ASSUME CInv, QInv, NEW w \in Workers, NEW t \in Tasks, InCall(w, t), OwnsRow(w),
         worker[w].phase \in Running
  PROVE  /\ Active(t) /\ Resumable(task[t], wrote[t], InCanon)
         /\ HolderFits(worker[w], task[t], wrote[t], InCanon, Redo)
<1>1. /\ HolderFits(worker[w], task[t], wrote[t], InCanon, Redo)
      /\ RowFits(task[t], wrote[t], InCanon)
  BY DEF QInv, CallsFit, Fits, RowsFit, InCall
<1>2. ~task[t].deleted /\ task[t].status \notin Terminal
  BY <1>1 DEF HolderFits
<1> QED
  BY <1>1, <1>2, OwnedRow DEF RowFits, Active

\* The acting worker changes nothing but its own row, and leaves it fit.
Edits(w, t) ==
    /\ \A s \in Tasks \ {t} : task'[s] = task[s]
    /\ task'[t].requested = task[t].requested
    /\ OwnsRow(w) \/ task'[t] = task[t]
    /\ RowFits(task'[t], wrote[t], InCanon)
    /\ Active(t)' => Active(t)

LEMMA EditsNothing ==
  ASSUME QInv, NEW w \in Workers, NEW t \in Tasks, UNCHANGED task
  PROVE  Edits(w, t)
BY DEF Edits, QInv, RowsFit, Active

\* A row is ended by its owner.
LEMMA EndsFit ==
  ASSUME CInv, QInv, NEW w \in Workers, NEW t \in Tasks, InCall(w, t), OwnsRow(w),
         NEW r, r.status \in Terminal, r.requested = task[t].requested,
         task' = [task EXCEPT ![t] = r]
  PROVE  Edits(w, t)
<1>1. \A s \in Tasks : task'[s] = IF s = t THEN r ELSE task[s]
  BY QTypes DEF TypeOK
<1>2. /\ Asked(task[t], wrote[t], InCanon)
      /\ Cardinality(wrote[t]) <= task[t].requested
  BY OwnedRow
<1>3. RowFits(r, wrote[t], InCanon)
  BY <1>2 DEF RowFits, Asked, Terminal
<1>4. ~ Active(t)'
  BY <1>1 DEF Active
<1> QED
  BY <1>1, <1>3, <1>4 DEF Edits

LEMMA StampedFacts ==
  ASSUME NEW row \in TaskType, NEW call, NEW status
  PROVE  LET r == Stamped(row, call, status)
         IN  /\ r.status = status /\ r.requested = row.requested
             /\ r.completed = row.completed \cup call.done
             /\ r.failed = call.failed /\ r.paused = call.paused
             /\ r.deleted = row.deleted /\ r.epoch = row.epoch
BY DEF Stamped, TaskType

LEMMA ProgressEnds ==
  ASSUME CInv, QInv, NEW w \in Workers, NEW t \in Tasks, InCall(w, t),
         NEW call, NEW status \in Terminal, Progress(w, call, status)
  PROVE  Edits(w, t)
<1> DEFINE r == Stamped(task[t], call, status)
<1>1. r.status \in Terminal /\ r.requested = task[t].requested
  BY QTypes, StampedFacts
<1>2. task' = IF Holds(w) /\ IndexAllows(t, status) THEN [task EXCEPT ![t] = r] ELSE task
  BY DEF Progress, InCall
<1> HIDE DEF r
<1>3. Holds(w) => OwnsRow(w)
  BY DEF Holds
<1> QED
  BY <1>1, <1>2, <1>3, EditsNothing, EndsFit

\* The report of a run that goes on: its holder's row takes the lists.
LEMMA ProgressGoesOn ==
  ASSUME CInv, QInv, NEW w \in Workers, NEW t \in Tasks, InCall(w, t),
         worker[w].phase \in Running,
         NEW call, Progress(w, call, "running"),
         OwnsRow(w) => Resumable(Stamped(task[t], call, "running"), wrote[t], InCanon)
  PROVE  /\ Edits(w, t)
         /\ Holds(w) => task'[t] = Stamped(task[t], call, "running")
<1> DEFINE r == Stamped(task[t], call, "running")
<1>1. r.status = "running" /\ r.requested = task[t].requested /\ r.deleted = task[t].deleted
  BY QTypes, StampedFacts
<1>2. task' = IF Holds(w) /\ IndexAllows(t, "running") THEN [task EXCEPT ![t] = r] ELSE task
  BY DEF Progress, InCall
<1> HIDE DEF r
<1>3. CASE OwnsRow(w)
  <2>1. Active(t)
    BY <1>3, HeldRow
  <2>2. IndexAllows(t, "running")
    BY <2>1 DEF IndexAllows, QInv, OneActive
  <2>3. /\ Asked(task[t], wrote[t], InCanon)
        /\ Cardinality(wrote[t]) <= task[t].requested
    BY <1>3, OwnedRow
  <2>4. RowFits(r, wrote[t], InCanon)
    BY <1>1, <1>3, <2>3 DEF RowFits, Asked, r
  <2>5. task' = [task EXCEPT ![t] = r] => /\ \A s \in Tasks \ {t} : task'[s] = task[s]
                                          /\ task'[t] = r
    BY QTypes DEF TypeOK
  <2>6. RowFits(task[t], wrote[t], InCanon)
    BY DEF QInv, RowsFit
  <2> QED
    BY <1>1, <1>2, <1>3, <2>1, <2>2, <2>4, <2>5, <2>6 DEF Edits, r
<1>4. CASE ~OwnsRow(w)
  BY <1>2, <1>4, EditsNothing DEF Holds
<1> QED
  BY <1>3, <1>4

\* Canon stays as it is; the acting worker may reset the status of a chapter and
\* give the one it writes a candidate.
BookQuiet(w) ==
    /\ UNCHANGED wrote /\ InCanon' = InCanon
    /\ \A c \in InCanon : chapter'[c] = "accepted" => chapter[c] = "accepted"
    /\ \A c \in Chapters : candidate'[c] # <<>> => candidate[c] # <<>> \/ Writes(w, c)

LEMMA QuietSame ==
  ASSUME CInv, NEW w \in Workers, UNCHANGED <<chapter, candidate, wrote, overrun>>
  PROVE  BookQuiet(w)
BY BookSame DEF BookQuiet

LEMMA QuietMarked ==
  ASSUME CInv, NEW w \in Workers, NEW c \in Chapters,
         NEW status \in {"failed", "needs_review"}, MarkChapter(c, status),
         UNCHANGED <<candidate, wrote, overrun>>
  PROVE  BookQuiet(w)
<1>1. InCanon' = InCanon
  BY BookMarked
<1>2. \A d \in Chapters : chapter'[d] = "accepted" => chapter[d] = "accepted"
  BY QTypes DEF MarkChapter, TypeOK
<1> QED
  BY <1>1, <1>2 DEF BookQuiet, InCanon

\* A call of the run goes on, or leaves it, with the same chapters in canon.
LEMMA Continues ==
  ASSUME TaskAssumption, CInv, QInv, Kept, Steady, NEW w \in Workers, NEW t \in Tasks,
         InCall(w, t), Edits(w, t), BookQuiet(w),
         NEW call, Become(w, call),
         \A c \in Chapters : call.phase \in Drafting /\ call.at = c => Writes(w, c),
         call.phase # "idle" =>
            /\ CallFits(call, InCanon)
            /\ OwnsRow(w) => HolderFits(call, task'[t], wrote[t], InCanon, Redo)
  PROVE  QInv'
<1>1. \A v \in Workers : worker'[v] = IF v = w THEN call ELSE worker[v]
  BY QTypes DEF Become, TypeOK
<1>2. Acts(w, t)
  BY <1>1 DEF Acts, Edits, BookQuiet
<1>3. InCanon \subseteq InCanon' /\ Redo \subseteq Redo'
  BY RedoGrows DEF BookQuiet
<1>4. DraftsFit'
  <2>1. SUFFICES ASSUME NEW c \in Chapters, candidate'[c] # <<>> PROVE Before(c, InCanon)
    BY DEF DraftsFit, BookQuiet
  <2>2. CASE candidate[c] # <<>>
    BY <2>2 DEF QInv, DraftsFit
  <2>3. CASE Writes(w, c)
    <3>1. CallFits(worker[w], InCanon)
      BY DEF QInv, CallsFit, Fits, InCall
    <3> QED
      BY <2>3, <3>1 DEF CallFits, Writes
  <2> QED
    BY <2>1, <2>2, <2>3 DEF BookQuiet
<1>5. Room'
  <2>1. \A s \in Tasks : Active(s)' => Active(s) /\ task'[s].requested = task[s].requested
    BY DEF Edits, Active
  <2>2. ASSUME NEW c \in Chapters, Open(c)' PROVE Open(c)
    <3>1. \A v \in Workers : Writes(v, c)' => Writes(v, c)
      BY <1>1 DEF Writes
    <3> QED
      BY <1>3, <2>2, <3>1, OpenStays DEF BookQuiet
  <2> QED
    BY <2>1, <2>2, RoomStays DEF QInv, BookQuiet
<1>6. worker'[w].phase # "idle" =>
         /\ CallFits(worker'[w], InCanon')
         /\ OwnsRow(w) => HolderFits(worker'[w], task'[t], wrote'[t], InCanon', Redo')
  <2>1. call \in WorkerType
    <3>1. worker'[w] \in WorkerType
      BY DEF Kept, CallsKept
    <3> QED
      BY <1>1, <3>1
  <2>2. task'[t].requested \in Nat /\ wrote[t] \in SUBSET Chapters
    BY QTypes DEF Edits
  <2>3. HolderFits(call, task'[t], wrote[t], InCanon, Redo)
           => HolderFits(call, task'[t], wrote[t], InCanon, Redo')
    BY <1>3, <2>1, <2>2, HolderFitsGrows
  <2> QED
    BY <1>1, <2>3 DEF BookQuiet
<1> QED
  BY <1>2, <1>4, <1>5, <1>6, ActFits DEF Edits, BookQuiet

\* A call that leaves the run.
LEMMA Leaves ==
  ASSUME TaskAssumption, CInv, QInv, Kept, Steady, NEW w \in Workers, NEW t \in Tasks,
         InCall(w, t), Edits(w, t), BookQuiet(w),
         NEW call, Become(w, call), call.phase \notin Running
  PROVE  QInv'
<1>1. worker'[w] = call
  BY QTypes DEF Become, TypeOK
<1>2. call.phase # "idle" => call.epoch = worker[w].epoch
  BY <1>1, GoesOnFacts DEF At
<1>3. worker[w].epoch >= 1
  BY DEF QInv, CallsFit, Fits, CallFits, InCall
<1>4. call.phase \notin Opening \cup Drafting \cup {"looping", "cancelling", "pausing"}
  BY DEF Running
<1>5. call.phase # "idle" => CallFits(call, InCanon)
  BY <1>2, <1>3, <1>4 DEF CallFits, Opening, Running
<1>6. \A row, X, S, R : HolderFits(call, row, X, S, R)
  BY <1>4 DEF HolderFits, Opening, Running
<1> QED
  BY <1>4, <1>5, <1>6, Continues

LEMMA OverLeaves ==
  ASSUME TaskAssumption, CInv, QInv, Kept, Steady, NEW w \in Workers, NEW t \in Tasks,
         InCall(w, t), Edits(w, t), BookQuiet(w), Over(w)
  PROVE  QInv'
<1>1. Idle.phase \notin Running
  BY DEF Idle, Running, Opening, Drafting
<1> QED
  BY <1>1, Leaves DEF Over

LEMMA RaisedLeaves ==
  ASSUME TaskAssumption, CInv, QInv, Kept, Steady, NEW w \in Workers, NEW t \in Tasks,
         InCall(w, t), UNCHANGED task, BookQuiet(w), Become(w, Raised(worker[w]))
  PROVE  QInv'
<1>1. worker[w] \in WorkerType
  BY QTypes
<1>2. Raised(worker[w]).phase \notin Running
  BY <1>1 DEF Raised, WorkerType, Running, Opening, Drafting
<1> QED
  BY <1>2, EditsNothing, Leaves

LEMMA ReturnedLeaves ==
  ASSUME TaskAssumption, CInv, QInv, Kept, Steady, NEW w \in Workers, NEW t \in Tasks,
         InCall(w, t), Edits(w, t), BookQuiet(w), NEW call \in WorkerType, NEW result,
         Become(w, Returned(call, result))
  PROVE  QInv'
<1>1. Returned(call, result).phase \notin Running
  BY DEF Returned, WorkerType, Running, Opening, Drafting
<1> QED
  BY <1>1, Leaves

\* The call goes over to a phase outside the run.
LEMMA PhaseLeaves ==
  ASSUME TaskAssumption, CInv, QInv, Kept, Steady, NEW w \in Workers, NEW t \in Tasks,
         InCall(w, t), Edits(w, t), BookQuiet(w),
         NEW phase \in {"failing", "reporting", "condemning"},
         Become(w, [worker[w] EXCEPT !.phase = phase])
  PROVE  QInv'
<1> DEFINE call == [worker[w] EXCEPT !.phase = phase]
<1>1. worker[w] \in WorkerType
  BY QTypes
<1>2. call.phase \notin Running
  BY <1>1 DEF WorkerType, Running, Opening, Drafting
<1> HIDE DEF call
<1> QED
  BY <1>2, Leaves DEF call

\* The run reports an end and returns.
LEMMA StopsLeave ==
  ASSUME TaskAssumption, CInv, QInv, Kept, Steady, NEW w \in Workers, NEW t \in Tasks,
         InCall(w, t), BookQuiet(w), NEW call \in WorkerType, NEW status \in Terminal,
         NEW result, Progress(w, call, status), Become(w, Returned(call, result))
  PROVE  QInv'
BY ProgressEnds, ReturnedLeaves

LEMMA PausedLeaves ==
  ASSUME TaskAssumption, CInv, QInv, Kept, Steady, NEW w \in Workers, NEW t \in Tasks,
         InCall(w, t), BookQuiet(w), NEW call \in WorkerType, ReturnPaused(w, call)
  PROVE  QInv'
BY StopsLeave DEF ReturnPaused, Terminal

LEMMA CancelledLeaves ==
  ASSUME TaskAssumption, CInv, QInv, Kept, Steady, NEW w \in Workers, NEW t \in Tasks,
         InCall(w, t), BookQuiet(w), NEW call \in WorkerType, ReturnCancelled(w, call)
  PROVE  QInv'
BY StopsLeave DEF ReturnCancelled, Terminal

LEMMA StatusEnds ==
  ASSUME CInv, QInv, NEW w \in Workers, NEW t \in Tasks, InCall(w, t), OwnsRow(w),
         NEW status \in Terminal, task' = [task EXCEPT ![t].status = status]
  PROVE  Edits(w, t)
<1> DEFINE r == [task[t] EXCEPT !.status = status]
<1>1. task[t] \in TaskType
  BY QTypes
<1>2. r.status \in Terminal /\ r.requested = task[t].requested
  BY <1>1 DEF TaskType
<1>3. task' = [task EXCEPT ![t] = r]
  OBVIOUS
<1> HIDE DEF r
<1> QED
  BY <1>2, <1>3, EndsFit

-----------------------------------------------------------------------------
(* The actions that end a run or a call *)

LEMMA InCallOf ==
  ASSUME CInv, NEW w \in Workers, ~At(w, "idle")
  PROVE  /\ worker[w] \in WorkerType
         /\ \E t \in Tasks : t = worker[w].task /\ InCall(w, t)
BY CallFacts DEF InCall

LEMMA AcknowledgeFits ==
  ASSUME TaskAssumption, CInv, QInv, Kept, Steady, NEW w \in Workers, Acknowledge(w)
  PROVE  QInv'
<1>1. ~At(w, "idle") /\ UNCHANGED <<chapter, candidate, wrote, overrun>>
  BY DEF Acknowledge, At
<1> PICK t \in Tasks : t = worker[w].task /\ InCall(w, t)
  BY <1>1, InCallOf
<1> PICK status \in Terminal : status = IF At(w, "cancelling") THEN "cancelled" ELSE "paused"
  BY DEF Terminal
<1>2. \/ Holds(w) /\ task' = [task EXCEPT ![t].status = status] /\ Over(w)
      \/ Become(w, Raised(worker[w])) /\ UNCHANGED task
  BY DEF Acknowledge
<1>3. Holds(w) => OwnsRow(w)
  BY DEF Holds
<1>4. BookQuiet(w)
  BY <1>1, QuietSame
<1> QED
  BY <1>2, <1>3, <1>4, StatusEnds, OverLeaves, RaisedLeaves

LEMMA CheckpointFits ==
  ASSUME TaskAssumption, CInv, QInv, Kept, Steady, NEW w \in Workers, Checkpoint(w)
  PROVE  QInv'
<1>1. /\ ~At(w, "idle") /\ UNCHANGED <<chapter, candidate, wrote, overrun>>
      /\ ReturnCancelled(w, worker[w]) \/ ReturnPaused(w, worker[w])
  BY DEF Checkpoint, At
<1> PICK t \in Tasks : t = worker[w].task /\ InCall(w, t)
  BY <1>1, InCallOf
<1> QED
  BY <1>1, InCallOf, QuietSame, PausedLeaves, CancelledLeaves

LEMMA GateStopsFits ==
  ASSUME TaskAssumption, CInv, QInv, Kept, Steady, NEW w \in Workers, GateStops(w)
  PROVE  QInv'
<1>1. worker[w].phase \in InChapter /\ UNCHANGED <<candidate, wrote, overrun>>
  BY DEF GateStops, At, InChapter
<1>2. ~At(w, "idle") /\ worker[w] \in WorkerType /\ worker[w].at \in Chapters
  BY <1>1, InChapterCall
<1> PICK t \in Tasks : t = worker[w].task /\ InCall(w, t)
  BY <1>2, InCallOf
<1> PICK c \in Chapters : c = worker[w].at
  BY <1>2
<1> DEFINE floor == [worker[w] EXCEPT !.failed = @ \cup {c}]
           gate == [worker[w] EXCEPT !.paused = @ \cup {c}]
<1>3. \/ /\ MarkChapter(c, "failed") /\ UNCHANGED task
         /\ Become(w, Returned(floor, ResultStatus(floor)))
      \/ /\ MarkChapter(c, "needs_review") /\ Progress(w, gate, "needs_review")
         /\ Become(w, Returned(gate, ResultStatus(gate)))
  BY DEF GateStops
<1>4. floor \in WorkerType /\ gate \in WorkerType
  BY <1>2, ListFacts
<1> HIDE DEF floor, gate
<1>5. BookQuiet(w)
  BY <1>1, <1>3, QuietMarked
<1> QED
  BY <1>3, <1>4, <1>5, EditsNothing, ReturnedLeaves, StopsLeave DEF Terminal

LEMMA ChapterBlockedFits ==
  ASSUME TaskAssumption, CInv, QInv, Kept, Steady, NEW w \in Workers, ChapterBlocked(w)
  PROVE  QInv'
<1> DEFINE call == [worker[w] EXCEPT !.paused = @ \cup {worker[w].at}]
<1>1. /\ worker[w].phase \in InChapter /\ UNCHANGED <<chapter, candidate, wrote, overrun>>
      /\ Progress(w, call, "needs_review") /\ Become(w, Returned(call, ResultStatus(call)))
  BY DEF ChapterBlocked, At, InChapter
<1>2. ~At(w, "idle") /\ worker[w] \in WorkerType /\ worker[w].at \in Chapters
  BY <1>1, InChapterCall
<1> PICK t \in Tasks : t = worker[w].task /\ InCall(w, t)
  BY <1>2, InCallOf
<1>3. call \in WorkerType
  BY <1>2, ListFacts
<1> HIDE DEF call
<1> QED
  BY <1>1, <1>3, QuietSame, StopsLeave DEF Terminal

LEMMA RejectFits ==
  ASSUME TaskAssumption, CInv, QInv, Kept, Steady, NEW w \in Workers, Reject(w)
  PROVE  QInv'
<1> DEFINE call == [worker[w] EXCEPT !.paused = @ \cup {worker[w].at}]
<1>1. /\ worker[w].phase \in InChapter /\ UNCHANGED <<candidate, wrote, overrun>>
      /\ MarkChapter(worker[w].at, "needs_review")
      /\ Progress(w, call, "needs_review") /\ Become(w, Returned(call, ResultStatus(call)))
  BY DEF Reject, At, InChapter
<1>2. ~At(w, "idle") /\ worker[w] \in WorkerType /\ worker[w].at \in Chapters
  BY <1>1, InChapterCall
<1> PICK t \in Tasks : t = worker[w].task /\ InCall(w, t)
  BY <1>2, InCallOf
<1>3. call \in WorkerType
  BY <1>2, ListFacts
<1> HIDE DEF call
<1>4. BookQuiet(w)
  BY <1>1, <1>2, QuietMarked
<1> QED
  BY <1>1, <1>3, <1>4, StopsLeave DEF Terminal

LEMMA FinishFits ==
  ASSUME TaskAssumption, CInv, QInv, Kept, Steady, NEW w \in Workers, Finish(w)
  PROVE  QInv'
<1>1. /\ ~At(w, "idle") /\ worker[w].phase = "finishing"
      /\ UNCHANGED <<chapter, candidate, wrote, overrun>>
      /\ Progress(w, worker[w], worker[w].result)
      /\ \E phase \in {"reporting", "failing"} : Become(w, [worker[w] EXCEPT !.phase = phase])
  BY DEF Finish, At
<1> PICK t \in Tasks : t = worker[w].task /\ InCall(w, t)
  BY <1>1, InCallOf
<1>2. worker[w].result \in Terminal
  BY <1>1, CInvFacts, InCallFacts
<1>3. Edits(w, t)
  BY <1>1, <1>2, ProgressEnds
<1> QED
  BY <1>1, <1>3, QuietSame, PhaseLeaves

LEMMA EndFits ==
  ASSUME TaskAssumption, CInv, QInv, Kept, Steady, NEW w \in Workers,
         Report(w) \/ Fail(w) \/ Raise(w) \/ Crash(w)
  PROVE  QInv'
<1>1. /\ ~At(w, "idle") /\ UNCHANGED <<chapter, candidate, wrote, overrun>>
  BY DEF Report, Fail, Raise, Crash, At
<1> PICK t \in Tasks : t = worker[w].task /\ InCall(w, t)
  BY <1>1, InCallOf
<1>2. \/ Holds(w) /\ task' = [task EXCEPT ![t].status = "failed"] /\ Over(w)
      \/ /\ UNCHANGED task
         /\ \/ Over(w) \/ Become(w, Raised(worker[w]))
            \/ \E phase \in {"failing", "condemning"} :
                  Become(w, [worker[w] EXCEPT !.phase = phase])
  BY DEF Report, Fail, Raise, Crash
<1>3. BookQuiet(w)
  BY <1>1, QuietSame
<1>4. Holds(w) => OwnsRow(w)
  BY DEF Holds
<1>5. CASE Holds(w) /\ task' = [task EXCEPT ![t].status = "failed"] /\ Over(w)
  BY <1>3, <1>4, <1>5, StatusEnds, OverLeaves DEF Terminal
<1> QED
  BY <1>2, <1>3, <1>5, EditsNothing, OverLeaves, RaisedLeaves, PhaseLeaves

\* The handler that writes without the fence still has the row when it condemns none.
LEMMA CondemnFits ==
  ASSUME TaskAssumption, CInv, QInv, Kept, Steady, NEW w \in Workers, Condemn(w),
         NoneCondemned'
  PROVE  QInv'
<1>1. ~At(w, "idle") /\ UNCHANGED <<chapter, candidate, wrote, overrun>> /\ Over(w)
  BY DEF Condemn, At
<1> PICK t \in Tasks : t = worker[w].task /\ InCall(w, t)
  BY <1>1, InCallOf
<1> DEFINE lost == task[t].condemned \/ ~OwnsRow(w)
<1> PICK r : r = [task[t] EXCEPT !.status = "failed", !.condemned = lost]
  OBVIOUS
<1>2. task[t] \in TaskType
  BY QTypes
<1>3. task' = [task EXCEPT ![t] = r]
  BY DEF Condemn
<1>4. task'[t] = r
  BY <1>3, QTypes DEF TypeOK
<1>5. r.status \in Terminal /\ r.requested = task[t].requested
  BY <1>2 DEF TaskType, Terminal
<1>6. OwnsRow(w)
  <2>1. r.condemned = lost
    BY <1>2 DEF TaskType
  <2> QED
    BY <1>4, <2>1 DEF NoneCondemned
<1>7. Edits(w, t)
  BY <1>3, <1>5, <1>6, EndsFit
<1> QED
  BY <1>1, <1>7, QuietSame, OverLeaves

-----------------------------------------------------------------------------
(* The requests and the heartbeat *)

LEMMA HolderSameRow ==
  ASSUME NEW call, NEW row, NEW r, NEW X, NEW S, NEW R, HolderFits(call, row, X, S, R),
         r.completed = row.completed, r.failed = row.failed, r.requested = row.requested,
         call.phase \in Running => ~r.deleted /\ r.status \notin Terminal
  PROVE  HolderFits(call, r, X, S, R)
BY DEF HolderFits

\* Rows change, and no call that is under way.
LEMMA RowsChange ==
  ASSUME TaskAssumption, CInv, QInv, Kept, Steady,
         UNCHANGED <<chapter, candidate, wrote, overrun>>,
         \A v \in Workers : \/ worker'[v] = worker[v]
                            \/ At(v, "idle") /\ At(v, "idle")',
         RowsFit', OneActive',
         \A v \in Workers :
            ~At(v, "idle") /\ OwnsRow(v) =>
               HolderFits(worker[v], task'[worker[v].task], wrote[worker[v].task],
                          InCanon, Redo),
         \A s \in Tasks : Active(s)' =>
            \/ Active(s) /\ task'[s].requested = task[s].requested
            \/ Cardinality(wrote[s]) < task'[s].requested
  PROVE  QInv'
<1>1. InCanon' = InCanon /\ Redo' = Redo
  BY BookSame DEF Redo
<1>2. ASSUME NEW v \in Workers PROVE Fits(v)'
  <2>1. SUFFICES ASSUME ~At(v, "idle")'
                 PROVE  /\ CallFits(worker'[v], InCanon')
                        /\ OwnsRow(v)' => HolderFits(worker'[v], task'[worker'[v].task],
                                            wrote'[worker'[v].task], InCanon', Redo')
    BY DEF Fits
  <2>2. worker'[v] = worker[v] /\ ~At(v, "idle") /\ (OwnsRow(v)' => OwnsRow(v))
    BY <2>1, GoesOnFacts
  <2>3. CallFits(worker[v], InCanon)
    BY <2>2 DEF QInv, CallsFit, Fits
  <2> QED
    BY <1>1, <2>2, <2>3
<1>3. \A c \in Chapters : Open(c)' => Open(c)
  <2>1. \A v \in Workers, c \in Chapters : Writes(v, c)' => Writes(v, c)
    <3>1. "idle" \notin Drafting
      BY DEF Drafting
    <3> QED
      BY <3>1 DEF Writes, At
  <2> QED
    BY <1>1, <2>1 DEF Open
<1>4. Room'
  BY <1>3 DEF QInv, Room
<1>5. DraftsFit'
  BY <1>1 DEF QInv, DraftsFit
<1> QED
  BY <1>2, <1>4, <1>5 DEF QInv, CallsFit

\* A row keeps its work: lists, request and claim.
SameWork(r, row) ==
    /\ r.completed = row.completed /\ r.failed = row.failed /\ r.paused = row.paused
    /\ r.requested = row.requested /\ r.epoch = row.epoch

\* A request changes a row, and ends it only before a claim or after its end.
LEMMA RowChanges ==
  ASSUME TaskAssumption, CInv, QInv, Kept, Steady,
         UNCHANGED <<worker, chapter, candidate, wrote, overrun>>,
         NEW t \in Tasks, NEW r, task' = [task EXCEPT ![t] = r], SameWork(r, task[t]),
         \/ r.status = task[t].status
         \/ r.status \notin {"absent", "queued"} /\ task[t].status # "absent",
         r.status \notin Terminal => task[t].status \notin Terminal,
         r.deleted \/ ~task[t].deleted,
         Active(t) /\ task[t].status # "queued" => ~r.deleted /\ r.status \notin Terminal
  PROVE  QInv'
<1>1. \A s \in Tasks : task'[s] = IF s = t THEN r ELSE task[s]
  BY QTypes DEF TypeOK
<1>2. InCanon' = InCanon
  BY BookSame
<1>3. RowFits(r, wrote[t], InCanon)
  <2>1. RowFits(task[t], wrote[t], InCanon)
    BY DEF QInv, RowsFit
  <2>2. Asked(task[t], wrote[t], InCanon) => Asked(r, wrote[t], InCanon)
    BY DEF Asked, SameWork
  <2>3. Resumable(task[t], wrote[t], InCanon) => Resumable(r, wrote[t], InCanon)
    BY DEF Resumable, SameWork
  <2> QED
    BY <2>1, <2>2, <2>3 DEF RowFits, SameWork
<1>4. RowsFit'
  BY <1>1, <1>2, <1>3 DEF QInv, RowsFit
<1>5. \A s \in Tasks : Active(s)' => Active(s) /\ task'[s].requested = task[s].requested
  <2>1. Active(t)' => Active(t)
    BY <1>1 DEF Active
  <2> QED
    BY <1>1, <2>1 DEF Active, SameWork
<1>6. OneActive'
  BY <1>5 DEF QInv, OneActive
<1>7. ASSUME NEW v \in Workers, ~At(v, "idle"), OwnsRow(v)
      PROVE  HolderFits(worker[v], task'[worker[v].task], wrote[worker[v].task],
                        InCanon, Redo)
  <2> PICK s \in Tasks : s = worker[v].task /\ InCall(v, s)
    BY <1>7, InCallOf
  <2>1. HolderFits(worker[v], task[s], wrote[s], InCanon, Redo)
    BY <1>7 DEF QInv, CallsFit, Fits
  <2>2. CASE s = t
    <3>1. worker[v].phase \in Running => ~r.deleted /\ r.status \notin Terminal
      BY <1>7, <2>2, OwnedRow, HeldRow
    <3> QED
      BY <1>1, <2>1, <2>2, <3>1, HolderSameRow DEF SameWork
  <2>3. CASE s # t
    BY <1>1, <2>1, <2>3
  <2> QED
    BY <2>2, <2>3
<1> QED
  BY <1>4, <1>5, <1>6, <1>7, RowsChange

LEMMA TerminateFits ==
  ASSUME TaskAssumption, CInv, QInv, Kept, Steady, NEW t \in Tasks, Terminate(t)
  PROVE  QInv'
<1>1. task[t] \in TaskType
  BY QTypes
<1> PICK status \in {"cancelled", "terminating"} :
       status = IF task[t].status = "queued" THEN "cancelled" ELSE "terminating"
  OBVIOUS
<1> PICK r : r = [task[t] EXCEPT !.cancel = TRUE, !.status = status]
  OBVIOUS
<1>2. Active(t) /\ UNCHANGED <<worker, chapter, candidate, wrote, overrun>>
  BY DEF Terminate
<1>3. task' = [task EXCEPT ![t] = r]
  BY DEF Terminate
<1>4. SameWork(r, task[t]) /\ r.status = status /\ r.deleted = task[t].deleted
  BY <1>1 DEF TaskType, SameWork
<1> QED
  BY <1>2, <1>3, <1>4, RowChanges DEF Active, Terminal

LEMMA PauseFits ==
  ASSUME TaskAssumption, CInv, QInv, Kept, Steady, NEW t \in Tasks, Pause(t)
  PROVE  QInv'
<1>1. task[t] \in TaskType
  BY QTypes
<1> PICK status \in {"paused", "running"} :
       status = IF task[t].status = "queued" THEN "paused" ELSE task[t].status
  BY DEF Pause
<1> PICK live : live = (task[t].live \/ task[t].status = "running")
  OBVIOUS
<1> PICK r : r = [task[t] EXCEPT !.pause = TRUE, !.status = status, !.live = live]
  OBVIOUS
<1>2. /\ Active(t) /\ task[t].status \in {"queued", "running"}
      /\ UNCHANGED <<worker, chapter, candidate, wrote, overrun>>
  BY DEF Pause
<1>3. task' = [task EXCEPT ![t] = r]
  BY <1>1 DEF Pause, TaskType
<1>4. SameWork(r, task[t]) /\ r.status = status /\ r.deleted = task[t].deleted
  BY <1>1 DEF TaskType, SameWork
<1> QED
  BY <1>2, <1>3, <1>4, RowChanges DEF Active, Terminal

LEMMA DeleteFits ==
  ASSUME TaskAssumption, CInv, QInv, Kept, Steady, NEW t \in Tasks, Delete(t)
  PROVE  QInv'
<1>1. task[t] \in TaskType
  BY QTypes
<1> PICK r : r = [task[t] EXCEPT !.deleted = TRUE]
  OBVIOUS
<1>2. /\ task[t].status \in Terminal /\ task' = [task EXCEPT ![t] = r]
      /\ UNCHANGED <<worker, chapter, candidate, wrote, overrun>>
  BY DEF Delete
<1>3. SameWork(r, task[t]) /\ r.status = task[t].status /\ r.deleted
  BY <1>1 DEF TaskType, SameWork
<1> QED
  BY <1>2, <1>3, RowChanges DEF Active, Terminal

\* Only the lease of a row changes.
LEMMA LeaseFits ==
  ASSUME TaskAssumption, CInv, QInv, Kept, Steady, NEW t \in Tasks,
         UNCHANGED <<worker, chapter, candidate, wrote, overrun>>,
         NEW live, task' = [task EXCEPT ![t].live = live]
  PROVE  QInv'
<1>1. task[t] \in TaskType
  BY QTypes
<1> PICK r : r = [task[t] EXCEPT !.live = live]
  OBVIOUS
<1>2. task' = [task EXCEPT ![t] = r]
  OBVIOUS
<1>3. /\ SameWork(r, task[t]) /\ r.status = task[t].status
      /\ r.deleted = task[t].deleted
  BY <1>1 DEF TaskType, SameWork
<1> QED
  BY <1>2, <1>3, RowChanges DEF Active

LEMMA HeartbeatFits ==
  ASSUME TaskAssumption, CInv, QInv, Kept, Steady, NEW w \in Workers, Heartbeat(w)
  PROVE  QInv'
<1>1. UNCHANGED <<chapter, candidate, wrote, overrun>> /\ worker[w] \in WorkerType
  BY QTypes DEF Heartbeat
<1> PICK u : u = worker[w].task
  OBVIOUS
<1>2. CASE UNCHANGED worker /\ task' = [task EXCEPT ![u].live = TRUE]
  <2>1. CASE u \in Tasks
    BY <1>1, <1>2, <2>1, LeaseFits
  <2>2. CASE u \notin Tasks
    <3>1. UNCHANGED task
      BY <1>2, <2>2, QTypes DEF TypeOK
    <3>2. RowsFit' /\ OneActive'
      BY <1>1, <3>1, BookSame DEF QInv, RowsFit, OneActive, Active
    <3> QED
      BY <1>1, <1>2, <3>1, <3>2, RowsChange DEF QInv, CallsFit, Fits, Active
  <2> QED
    BY <2>1, <2>2
<1>3. CASE UNCHANGED task /\ worker' = [worker EXCEPT ![w].beating = FALSE]
  <2> PICK call : call = [worker[w] EXCEPT !.beating = FALSE]
    OBVIOUS
  <2>1. /\ \A v \in Workers : worker'[v] = IF v = w THEN call ELSE worker[v]
        /\ Become(w, call)
    BY <1>3, QTypes DEF TypeOK, Become
  <2>2. /\ call.phase = worker[w].phase /\ call.epoch = worker[w].epoch
        /\ call.seen = worker[w].seen /\ call.resume = worker[w].resume
        /\ call.todo = worker[w].todo /\ call.at = worker[w].at
        /\ call.done = worker[w].done /\ call.failed = worker[w].failed
        /\ call.paused = worker[w].paused
    BY <1>1 DEF WorkerType
  <2>3. CASE At(w, "idle")
    <3>1. RowsFit' /\ OneActive'
      BY <1>1, <1>3, BookSame DEF QInv, RowsFit, OneActive, Active
    <3>2. At(w, "idle")'
      BY <2>1, <2>2, <2>3 DEF At
    <3> QED
      BY <1>1, <1>3, <2>1, <2>3, <3>1, <3>2, RowsChange
         DEF QInv, CallsFit, Fits, Active
  <2>4. CASE ~At(w, "idle")
    <3> PICK t \in Tasks : t = worker[w].task /\ InCall(w, t)
      BY <2>4, InCallOf
    <3>1. /\ CallFits(worker[w], InCanon)
          /\ OwnsRow(w) => HolderFits(worker[w], task[t], wrote[t], InCanon, Redo)
      BY <2>4 DEF QInv, CallsFit, Fits
    <3>2. CallFits(call, InCanon)
      BY <2>2, <3>1 DEF CallFits
    <3>3. OwnsRow(w) => HolderFits(call, task[t], wrote[t], InCanon, Redo)
      BY <2>2, <3>1 DEF HolderFits
    <3>4. \A c \in Chapters : call.phase \in Drafting /\ call.at = c => Writes(w, c)
      BY <2>2 DEF Writes
    <3> QED
      BY <1>1, <1>3, <2>1, <3>2, <3>3, <3>4, EditsNothing, QuietSame, Continues
  <2> QED
    BY <2>3, <2>4
<1> QED
  BY <1>2, <1>3 DEF Heartbeat

-----------------------------------------------------------------------------
(* The workset *)

\* How many chapters of P come before c.
Earlier(P, c) == Cardinality({d \in P : d < c})

\* The chapters of P with fewer than n before them.
FirstOf(P, n) == {c \in P : Earlier(P, c) < n}

\* They are n many, or all.
LEMMA FirstOnes ==
  ASSUME TaskAssumption, NEW P \in SUBSET Chapters, NEW limit \in Nat \ {0},
         NEW W, W = FirstOf(P, limit)
  PROVE  /\ Cardinality(W) <= limit
         /\ W = P \/ Cardinality(W) >= limit
         /\ \A c \in W, d \in P : d < c => d \in W
         /\ \A c \in P : (\A d \in P : c <= d) => c \in W
<1>0. W = {c \in P : Earlier(P, c) < limit}
  BY DEF FirstOf
<1>1. Book \in Nat /\ P \in SUBSET (0..Book) /\ W \in SUBSET (0..Book)
      /\ W \in SUBSET Chapters
  <2>1. W \subseteq P
    BY <1>0
  <2>2. Book \in Nat /\ P \in SUBSET (0..Book)
    BY DEF TaskAssumption, Chapters
  <2> QED
    BY <2>1, <2>2
<1>2. \A c : Earlier(P, c) \in Nat /\ {d \in P : d < c} \in SUBSET Chapters
  BY CardUp DEF Earlier
<1>3. Cardinality(W) <= limit
  <2>1. CASE W = {}
    BY <2>1, FS_EmptySet
  <2>2. CASE W # {}
    <3>1. Max(W) \in W /\ \A d \in W : d <= Max(W)
      BY <1>1, <2>2, MaxOfBounded
    <3> PICK m \in W : \A d \in W : d <= m
      BY <3>1
    <3>2. Cardinality(W) = Cardinality(W \ {m}) + 1
      BY <1>1, CardDrop
    <3>3. W \ {m} \subseteq {d \in P : d < m}
      <4>1. SUFFICES ASSUME NEW d \in W, d # m PROVE d \in P /\ d < m
        OBVIOUS
      <4>2. d \in Nat /\ m \in Nat /\ d <= m /\ d \in P
        BY <1>0, <1>1
      <4> QED
        BY <4>1, <4>2
    <3>4. Cardinality(W \ {m}) <= Earlier(P, m) /\ Cardinality(W \ {m}) \in Nat
      BY <1>2, <3>3, CardUp DEF Earlier
    <3>5. Earlier(P, m) < limit
      BY <1>0
    <3> QED
      BY <1>2, <3>2, <3>4, <3>5
  <2> QED
    BY <2>1, <2>2
<1>4. ASSUME W # P PROVE Cardinality(W) >= limit
  <2> PICK L : L = P \ W
    OBVIOUS
  <2>1. L \in SUBSET (0..Book) /\ L # {}
    <3>1. W \subseteq P
      BY <1>0
    <3> QED
      BY <1>1, <1>4, <3>1
  <2>2. Min(L) \in L /\ \A d \in L : Min(L) <= d
    BY <1>1, <2>1, MinOfBounded
  <2> PICK m \in L : \A d \in L : m <= d
    BY <2>2
  <2>3. ~(Earlier(P, m) < limit)
    BY <1>0
  <2>4. {d \in P : d < m} \subseteq W
    <3>1. SUFFICES ASSUME NEW d \in P, d < m, d \notin W PROVE FALSE
      OBVIOUS
    <3>2. d \in L /\ d \in Nat /\ m \in Nat
      BY <1>1, <2>1, <3>1
    <3> QED
      BY <3>1, <3>2
  <2>5. Earlier(P, m) <= Cardinality(W) /\ Cardinality(W) \in Nat
    BY <1>1, <2>4, CardUp DEF Earlier
  <2> QED
    BY <1>2, <2>3, <2>5
<1>5. ASSUME NEW c \in W, NEW d \in P, d < c PROVE d \in W
  <2>1. {e \in P : e < d} \subseteq {e \in P : e < c}
    <3>1. c \in Nat /\ d \in Nat
      BY <1>1
    <3>2. \A e \in P : e < d => e < c
      <4>1. \A e \in P : e \in Nat
        BY <1>1
      <4> QED
        BY <1>5, <3>1, <4>1
    <3> QED
      BY <3>2
  <2>2. Earlier(P, d) <= Earlier(P, c)
    BY <1>2, <2>1, CardUp DEF Earlier
  <2>3. Earlier(P, c) < limit
    BY <1>0
  <2> QED
    BY <1>0, <1>2, <2>2, <2>3
<1>6. ASSUME NEW c \in P, \A d \in P : c <= d PROVE c \in W
  <2>1. {d \in P : d < c} = {}
    <3>1. \A d \in P : d \in Nat
      BY <1>1
    <3> QED
      BY <1>6, <3>1
  <2>2. Earlier(P, c) = 0
    BY <2>1, FS_EmptySet DEF Earlier
  <2> QED
    BY <1>0, <2>2
<1> QED
  BY <1>3, <1>4, <1>5, <1>6

\* The chapters from `from` on that are not accepted.
Pending(from) == {c \in Chapters : c >= from /\ chapter[c] # "accepted"}

LEMMA WorksetFacts ==
  ASSUME TaskAssumption, NEW from, NEW limit \in Nat,
         NEW P, P = Pending(from),
         NEW W, W = Workset(from, limit)
  PROVE  /\ P \in SUBSET Chapters /\ W \in SUBSET P
         /\ W = P \/ (limit # 0 /\ Cardinality(W) >= limit)
         /\ limit # 0 => Cardinality(W) <= limit
         /\ \A c \in W, d \in P : d < c => d \in W
         /\ \A c \in P : (\A d \in P : c <= d) => c \in W
<1>1. P \in SUBSET Chapters
  BY DEF Pending
<1>2. W = {c \in P : limit = 0 \/ Earlier(P, c) < limit}
  BY DEF Workset, Earlier, Pending
<1>3. CASE limit = 0
  <2>1. W = P
    BY <1>2, <1>3
  <2> QED
    BY <1>1, <1>3, <2>1
<1>4. CASE limit # 0
  <2>1. W = FirstOf(P, limit)
    BY <1>2, <1>4 DEF FirstOf
  <2>2. W \in SUBSET P /\ limit \in Nat \ {0}
    BY <1>2, <1>4
  <2> QED
    BY <1>1, <1>4, <2>1, <2>2, FirstOnes
<1> QED
  BY <1>3, <1>4

\* A task that is enqueued is asked for all that is missing from canon, or for its
\* quota.
LEMMA EnqueueFits ==
  ASSUME TaskAssumption, CInv, QInv, Kept, Steady, NEW t \in Tasks, Enqueue(t)
  PROVE  QInv'
<1>1. /\ task[t] \in TaskType /\ InCanon \in SUBSET Chapters
      /\ RowFits(task[t], wrote[t], InCanon)
  BY QTypes DEF QInv, RowsFit
<1>2. /\ task[t].status = "absent" /\ \A s \in Tasks : ~Active(s)
      /\ Workset(1, MaxChapters) # {}
      /\ UNCHANGED <<worker, chapter, candidate, wrote, overrun>>
  BY DEF Enqueue
<1>3. MaxChapters \in Nat /\ 1 \in Nat
  BY DEF TaskAssumption
<1> PICK P : P = Pending(1)
  OBVIOUS
<1> PICK W : W = Workset(1, MaxChapters)
  OBVIOUS
<1> PICK n : n = Cardinality(W)
  OBVIOUS
<1>4. /\ P \in SUBSET Chapters /\ W \in SUBSET P
      /\ W = P \/ (MaxChapters # 0 /\ n >= MaxChapters)
  BY <1>3, WorksetFacts
<1>5. n \in Nat /\ n >= 1
  <2>1. IsFiniteSet(W)
    BY <1>4, ChaptersCounted
  <2>2. n \in Nat /\ n # 0
    BY <1>2, <2>1, FS_CardinalityType, FS_EmptySet
  <2> QED
    BY <2>2
<1> PICK r : r = [task[t] EXCEPT !.status = "queued", !.requested = n]
  OBVIOUS
<1>6. task' = [task EXCEPT ![t] = r]
  BY DEF Enqueue
<1>7. \A s \in Tasks : task'[s] = IF s = t THEN r ELSE task[s]
  BY <1>6, QTypes DEF TypeOK
<1>8. /\ r.status = "queued" /\ r.requested = n /\ r.epoch = task[t].epoch
      /\ r.completed = task[t].completed /\ r.failed = task[t].failed
      /\ r.paused = task[t].paused
  BY <1>1 DEF TaskType
<1>9. /\ wrote[t] = {} /\ task[t].epoch = 0 /\ Resumable(task[t], wrote[t], InCanon)
      /\ Cardinality(wrote[t]) = 0
  BY <1>1, <1>2, FS_EmptySet DEF RowFits, Terminal
<1>10. Asked(r, wrote[t], InCanon)
  <2>1. Chapters \ InCanon \subseteq P
    BY DEF Pending, CInv, AcceptedIsCanon, InCanon, Chapters
  <2>2. Cardinality(Chapters \ InCanon) <= Cardinality(P)
        /\ Cardinality(Chapters \ InCanon) \in Nat
    BY <1>4, <2>1, CardUp
  <2> QED
    BY <1>4, <1>5, <1>8, <1>9, <2>2 DEF Asked
<1>11. RowFits(r, wrote[t], InCanon)
  <2>1. Resumable(r, wrote[t], InCanon)
    BY <1>8, <1>9 DEF Resumable
  <2> QED
    BY <1>5, <1>8, <1>9, <1>10, <2>1 DEF RowFits
<1>12. RowsFit'
  BY <1>2, <1>7, <1>11, BookSame DEF QInv, RowsFit
<1>13. \A s \in Tasks : Active(s)' => s = t
  BY <1>2, <1>7 DEF Active
<1>14. OneActive'
  BY <1>13 DEF OneActive
<1>15. ASSUME NEW v \in Workers, ~At(v, "idle"), OwnsRow(v)
       PROVE  HolderFits(worker[v], task'[worker[v].task], wrote[worker[v].task],
                         InCanon, Redo)
  <2> PICK s \in Tasks : s = worker[v].task /\ InCall(v, s)
    BY <1>15, InCallOf
  <2>1. s # t
    BY <1>2, <1>15, OwnedRow
  <2>2. HolderFits(worker[v], task[s], wrote[s], InCanon, Redo)
    BY <1>15 DEF QInv, CallsFit, Fits
  <2> QED
    BY <1>7, <2>1, <2>2
<1>16. \A s \in Tasks : Active(s)' => Cardinality(wrote[s]) < task'[s].requested
  <2>1. task'[t].requested = n
    BY <1>7, <1>8
  <2>2. 0 < n
    BY <1>5
  <2> QED
    BY <1>9, <1>13, <2>1, <2>2
<1> QED
  BY <1>2, <1>12, <1>14, <1>15, <1>16, RowsChange

-----------------------------------------------------------------------------
(* The claim *)

\* A resumed task goes on above what it completed, at a chapter before which nothing
\* is missing; a commit that it was not credited with is found there.
LEMMA ResumeFacts ==
  ASSUME TaskAssumption, NEW row \in TaskType, NEW S \in SUBSET Chapters,
         row.completed \subseteq S, \A c \in S, d \in Chapters : d < c => d \in S,
         NEW X, Resumable(row, X, S), NEW m, m = ResumeFrom(row)
  PROVE  /\ Before(m, S) /\ \A d \in row.completed : d < m
         /\ \A f \in row.failed : m <= f
         /\ Lags(X, row.completed, m \in S)
<1>1. /\ Book \in Nat /\ row.failed \in SUBSET (0..Book) /\ row.paused = {}
      /\ row.completed \cup {0} \in SUBSET (0..Book) /\ row.completed \cup {0} # {}
  BY DEF TaskAssumption, TaskType, Chapters, Resumable
<1>2. CASE row.failed # {}
  <2>1. m = Min(row.failed)
    BY <1>2 DEF ResumeFrom
  <2>2. m \in row.failed /\ \A f \in row.failed : m <= f
    BY <1>1, <1>2, <2>1, MinOfBounded
  <2> QED
    BY <2>2 DEF Resumable, Lags
<1>3. CASE row.failed = {}
  <2>1. m = Max(row.completed \cup {0}) + 1
    BY <1>1, <1>3 DEF ResumeFrom
  <2>2. /\ Max(row.completed \cup {0}) \in row.completed \cup {0}
        /\ \A y \in row.completed \cup {0} : y <= Max(row.completed \cup {0})
    BY <1>1, MaxOfBounded
  <2> PICK x \in row.completed \cup {0} :
        x = Max(row.completed \cup {0}) /\ \A y \in row.completed \cup {0} : y <= x
    BY <2>2
  <2>3. x \in 0..Book /\ m = x + 1 /\ \A y \in row.completed : y \in Nat /\ y <= x
    BY <1>1, <2>1
  <2>4. \A d \in row.completed : d < m
    BY <2>3
  <2>5. ASSUME NEW d \in Chapters, d < m PROVE d \in S
    <3>1. d \in Nat /\ d >= 1 /\ d <= x
      BY <2>3, <2>5 DEF Chapters, TaskAssumption
    <3>2. x \in row.completed
      BY <3>1
    <3>3. d = x \/ d < x
      BY <2>3, <3>1
    <3> QED
      BY <3>2, <3>3
  <2>6. ASSUME NEW u \in S, \A d \in row.completed : d < u PROVE m \in S
    <3>1. u \in 1..Book
      BY DEF Chapters
    <3>2. x < u
      BY <2>6, <3>1
    <3>3. m \in Chapters /\ (m = u \/ m < u)
      BY <2>3, <3>1, <3>2 DEF Chapters, TaskAssumption
    <3> QED
      BY <3>3
  <2> QED
    BY <1>3, <2>4, <2>5, <2>6 DEF Before, Resumable, Lags
<1> QED
  BY <1>2, <1>3

LEMMA ClaimFits ==
  ASSUME TaskAssumption, CInv, QInv, NEW w \in Workers, Claim(w) PROVE QInv'
<1> PICK t \in Tasks :
      /\ Claimable(t)
      /\ task' = [task EXCEPT ![t] =
            [task[t] EXCEPT !.status = "running", !.owner = Name[w],
                            !.epoch = task[t].epoch + 1, !.live = TRUE]]
      /\ Become(w, [Idle EXCEPT !.phase = FirstPhase(task[t]), !.task = t,
                                !.epoch = task[t].epoch + 1, !.beating = TRUE,
                                !.seen = task[t].completed,
                                !.resume = ResumeFrom(task[t])])
  BY DEF Claim
<1> PICK n : n = task[t].epoch + 1
  OBVIOUS
<1> PICK f : f = FirstPhase(task[t])
  OBVIOUS
<1> PICK m : m = ResumeFrom(task[t])
  OBVIOUS
<1> PICK done : done = task[t].completed
  OBVIOUS
<1> PICK r : r = [task[t] EXCEPT !.status = "running", !.owner = Name[w],
                                 !.epoch = n, !.live = TRUE]
  OBVIOUS
<1> PICK call : call = [Idle EXCEPT !.phase = f, !.task = t, !.epoch = n,
                                    !.beating = TRUE, !.seen = done, !.resume = m]
  OBVIOUS
<1>1. UNCHANGED <<chapter, candidate, wrote, overrun>>
  BY DEF Claim
<1>2. InCanon' = InCanon /\ Redo' = Redo
  BY <1>1, BookSame DEF Redo
<1>3. /\ task[t] \in TaskType /\ done \subseteq InCanon /\ InCanon \in SUBSET Chapters
      /\ wrote[t] \in SUBSET Chapters
  BY QTypes DEF CInv, RowsCredit
<1>4. task[t].epoch \in Nat /\ n \in Nat /\ n >= 1 /\ task[t].epoch < n
  BY <1>3 DEF TaskType, TaskAssumption
<1>5. /\ \A s \in Tasks : task'[s] = IF s = t THEN r ELSE task[s]
      /\ \A v \in Workers : worker'[v] = IF v = w THEN call ELSE worker[v]
  BY QTypes DEF Become, TypeOK
<1>6. /\ r.status = "running" /\ r.epoch = n /\ r.deleted = task[t].deleted
      /\ r.requested = task[t].requested /\ r.completed = done
      /\ r.failed = task[t].failed /\ r.paused = task[t].paused
  BY <1>3 DEF TaskType
<1>7. /\ call.phase = f /\ call.task = t /\ call.epoch = n /\ call.seen = done
      /\ call.resume = m /\ call.at = 0 /\ call.todo = {} /\ call.done = {}
      /\ call.failed = {} /\ call.paused = {}
  BY DEF Idle
<1>8. ~task[t].deleted /\ task[t].status \in {"queued", "running"}
  BY DEF Claimable
<1>9. /\ f \in {"cancelling", "pausing", "recovering", "starting"}
      /\ f = "starting" => task[t].status = "queued"
  BY <1>8 DEF FirstPhase
<1>10. RowFits(task[t], wrote[t], InCanon)
  BY DEF QInv, RowsFit
<1>11. Resumable(task[t], wrote[t], InCanon)
  BY <1>8, <1>10 DEF RowFits, Terminal
<1>12. RowFits(r, wrote[t], InCanon)
  BY <1>6, <1>8, <1>10, <1>11 DEF RowFits, Asked, Resumable
<1>13. RowsFit'
  BY <1>1, <1>2, <1>5, <1>12 DEF QInv, RowsFit
<1>14. \A s \in Tasks : Active(s)' => Active(s) /\ task'[s].requested = task[s].requested
  BY <1>5, <1>6, <1>8 DEF Active, Terminal
<1>15. OneActive'
  BY <1>14 DEF QInv, OneActive
<1>16. /\ Before(m, InCanon) /\ \A d \in done : d < m
       /\ \A e \in task[t].failed : m <= e
       /\ Lags(wrote[t], done, m \in InCanon)
  <2>1. \A c \in InCanon, d \in Chapters : d < c => d \in InCanon
    BY DEF CInv, NoGap, InCanon
  <2> QED
    BY <1>3, <1>11, <2>1, ResumeFacts
<1>17. CallFits(call, InCanon)
  BY <1>4, <1>7, <1>9, <1>16 DEF CallFits, Drafting
<1>18. HolderFits(call, r, wrote[t], InCanon, Redo)
  <2>1. "running" \notin Terminal
    BY DEF Terminal
  <2>2. f = "starting" => \A reason : Lags(wrote[t], done, reason)
    <3>1. f = "starting" => wrote[t] = {}
      BY <1>9, <1>10 DEF RowFits
    <3>2. Cardinality({}) = 0
      BY FS_EmptySet
    <3>3. done \subseteq Chapters
      BY <1>3
    <3>4. Cardinality(done) \in Nat
      BY <3>3, CardUp
    <3> QED
      BY <3>1, <3>2, <3>4 DEF Lags
  <2> QED
    BY <1>6, <1>7, <1>8, <1>9, <1>16, <2>1, <2>2 DEF HolderFits, Opening, Drafting
<1>19. ASSUME NEW v \in Workers PROVE Fits(v)'
  <2>1. CASE v = w
    <3>1. worker'[v] = call /\ task'[t] = r
      BY <1>5, <2>1
    <3> QED
      BY <1>1, <1>2, <1>7, <1>17, <1>18, <3>1 DEF Fits
  <2>2. CASE v # w
    <3>1. worker'[v] = worker[v]
      BY <1>5, <2>2
    <3>2. CASE At(v, "idle")
      BY <3>1, <3>2 DEF Fits, At
    <3>3. CASE ~At(v, "idle")
      <4> PICK s \in Tasks : s = worker[v].task
        BY <3>3, InCallOf
      <4>1. ASSUME OwnsRow(v)' PROVE s # t
        <5>1. SUFFICES ASSUME s = t PROVE FALSE
          OBVIOUS
        <5>2. worker[v].epoch = n
          <6>1. task'[worker'[v].task].epoch = worker'[v].epoch
            BY <4>1 DEF OwnsRow
          <6>2. worker'[v].task = t /\ task'[t] = r
            BY <1>5, <3>1, <5>1
          <6> QED
            BY <1>6, <3>1, <6>1, <6>2
        <5>3. worker[v].epoch <= task[t].epoch
          BY <3>3, <5>1 DEF CInv, IInv, ClaimsApart
        <5> QED
          BY <1>4, <5>2, <5>3
      <4>2. OwnsRow(v)' => OwnsRow(v) /\ task'[s] = task[s] /\ wrote'[s] = wrote[s]
        BY <1>1, <1>5, <3>1, <4>1 DEF OwnsRow
      <4> QED
        BY <1>2, <3>1, <4>2, OtherFits DEF QInv
    <3> QED
      BY <3>2, <3>3
  <2> QED
    BY <2>1, <2>2
<1>20. DraftsFit'
  BY <1>1, <1>2 DEF QInv, DraftsFit
<1>21. Room'
  <2>1. \A c \in Chapters, v \in Workers : Writes(v, c)' => Writes(v, c)
    BY <1>5, <1>7, <1>9 DEF Writes, Drafting
  <2>2. \A c \in Chapters : Open(c)' => Open(c)
    BY <1>1, <1>2, <2>1 DEF Open
  <2> QED
    BY <1>1, <1>14, <2>2 DEF QInv, Room
<1> QED
  BY <1>13, <1>15, <1>19, <1>20, <1>21 DEF QInv, CallsFit

-----------------------------------------------------------------------------
(* Recovery *)

LEMMA RunFacts ==
  ASSUME CInv, QInv, NEW w \in Workers, NEW t \in Tasks, InCall(w, t)
  PROVE  /\ worker[w] \in WorkerType /\ task[t] \in TaskType
         /\ CallFits(worker[w], InCanon)
         /\ InCanon \in SUBSET Chapters /\ wrote[t] \in SUBSET Chapters
         /\ task[t].completed \in SUBSET Chapters
         /\ worker[w].seen \subseteq InCanon /\ worker[w].done \subseteq InCanon
BY QTypes, CallFacts DEF QInv, CallsFit, Fits, InCall, CInv, RowsCredit

\* No book is touched, no row either, and the call goes on.
LEMMA CallMoves ==
  ASSUME TaskAssumption, CInv, QInv, Kept, Steady, NEW w \in Workers, NEW t \in Tasks,
         InCall(w, t), UNCHANGED <<task, chapter, candidate, wrote, overrun>>,
         NEW call, Become(w, call),
         \A c \in Chapters : call.phase \in Drafting /\ call.at = c => Writes(w, c),
         CallFits(call, InCanon),
         OwnsRow(w) => HolderFits(call, task[t], wrote[t], InCanon, Redo)
  PROVE  QInv'
BY EditsNothing, QuietSame, Continues

LEMMA ReadCandidateFits ==
  ASSUME TaskAssumption, CInv, QInv, Kept, Steady, NEW w \in Workers, ReadCandidate(w)
  PROVE  QInv'
<1>1. /\ ~At(w, "idle") /\ worker[w].phase = "recovering"
      /\ UNCHANGED <<task, chapter, candidate, wrote, overrun>>
  BY DEF ReadCandidate, At
<1> PICK t \in Tasks : t = worker[w].task /\ InCall(w, t)
  BY <1>1, InCallOf
<1> PICK c : c = worker[w].resume
  OBVIOUS
<1>2. /\ worker[w] \in WorkerType /\ CallFits(worker[w], InCanon)
      /\ InCanon \in SUBSET Chapters /\ worker[w].seen \subseteq InCanon
  BY RunFacts
<1>3. /\ worker[w].failed = {} /\ worker[w].paused = {} /\ worker[w].done = {}
      /\ worker[w].at = 0 /\ worker[w].epoch >= 1 /\ Before(c, InCanon)
  BY <1>1, <1>2 DEF CallFits, Opening, Running
<1>4. OwnsRow(w) =>
        /\ ~task[t].deleted /\ task[t].status \notin Terminal
        /\ worker[w].seen = task[t].completed
        /\ \A d \in task[t].completed : d < c
        /\ \A f \in task[t].failed : c <= f
        /\ Lags(wrote[t], task[t].completed, c \in InCanon)
  <2>1. worker[w].phase \in Running
    BY <1>1 DEF Running, Opening
  <2> QED
    BY <1>1, <2>1, HeldRow DEF HolderFits, Opening
<1>5. /\ c \in worker[w].seen =>
           Become(w, [worker[w] EXCEPT !.phase = "starting", !.resume = c + 1])
      /\ c \notin worker[w].seen =>
           \/ Become(w, Raised(worker[w]))
           \/ /\ c \notin Chapters \/ (c \in Chapters /\ chapter[c] # "accepted")
              /\ Become(w, [worker[w] EXCEPT !.phase = "starting"])
           \/ \E k : Become(w, [worker[w] EXCEPT !.phase = "replaying", !.at = c, !.draft = k])
  BY DEF ReadCandidate
<1>6. CASE c \in worker[w].seen
  <2> PICK call : call = [worker[w] EXCEPT !.phase = "starting", !.resume = c + 1]
    OBVIOUS
  <2>1. /\ call.phase = "starting" /\ call.resume = c + 1 /\ call.epoch = worker[w].epoch
        /\ call.at = 0 /\ call.done = {} /\ call.failed = {} /\ call.paused = {}
    BY <1>2, <1>3 DEF WorkerType
  <2>2. c \in InCanon /\ c \in Nat
    BY <1>2, <1>6 DEF Chapters
  <2>3. Before(c + 1, InCanon)
    <3>1. \A d \in Chapters : d < c + 1 => d = c \/ d < c
      BY <2>2 DEF Chapters
    <3> QED
      BY <1>3, <2>2, <3>1 DEF Before
  <2>4. CallFits(call, InCanon)
    BY <1>3, <2>1, <2>3 DEF CallFits, Drafting
  <2>5. ~OwnsRow(w)
    BY <1>4, <1>6, <2>2
  <2> QED
    BY <1>1, <1>5, <1>6, <2>1, <2>4, <2>5, CallMoves DEF Drafting
<1>7. CASE Become(w, Raised(worker[w]))
  BY <1>1, <1>7, QuietSame, RaisedLeaves
<1>8. CASE /\ c \notin Chapters \/ (c \in Chapters /\ chapter[c] # "accepted")
           /\ Become(w, [worker[w] EXCEPT !.phase = "starting"])
  <2> PICK call : call = [worker[w] EXCEPT !.phase = "starting"]
    OBVIOUS
  <2>1. /\ call.phase = "starting" /\ call.resume = c /\ call.epoch = worker[w].epoch
        /\ call.at = 0 /\ call.done = {} /\ call.failed = {} /\ call.paused = {}
        /\ call.seen = worker[w].seen
    BY <1>2, <1>3 DEF WorkerType
  <2>2. CallFits(call, InCanon)
    BY <1>3, <2>1 DEF CallFits, Drafting
  <2>3. c \in InCanon => c \in Redo
    BY <1>2, <1>8 DEF Redo
  <2>4. OwnsRow(w) => HolderFits(call, task[t], wrote[t], InCanon, Redo)
    BY <1>4, <2>1, <2>3 DEF HolderFits, Drafting, Lags
  <2> QED
    BY <1>1, <1>8, <2>1, <2>2, <2>4, CallMoves DEF Drafting
<1>9. ASSUME NEW k, Become(w, [worker[w] EXCEPT !.phase = "replaying", !.at = c, !.draft = k])
      PROVE  QInv'
  <2> PICK call : call = [worker[w] EXCEPT !.phase = "replaying", !.at = c, !.draft = k]
    OBVIOUS
  <2>1. /\ call.phase = "replaying" /\ call.resume = c /\ call.epoch = worker[w].epoch
        /\ call.at = c /\ call.done = {} /\ call.failed = {} /\ call.paused = {}
        /\ call.seen = worker[w].seen
    BY <1>2, <1>3 DEF WorkerType
  <2>2. CallFits(call, InCanon)
    BY <1>3, <2>1 DEF CallFits, Drafting
  <2>3. OwnsRow(w) => HolderFits(call, task[t], wrote[t], InCanon, Redo)
    BY <1>4, <2>1 DEF HolderFits, Drafting
  <2> QED
    BY <1>1, <1>9, <2>1, <2>2, <2>3, CallMoves DEF Drafting
<1> QED
  BY <1>5, <1>6, <1>7, <1>8, <1>9

-----------------------------------------------------------------------------
(* The commit *)

\* A chapter enters canon: it is the only open one, its task may still write it,
\* and what the task has written runs ahead of what it completed by this one.
LEMMA EntryFits ==
  ASSUME TaskAssumption, CInv, QInv, Kept, Steady, NEW w \in Workers, NEW t \in Tasks,
         InCall(w, t), OwnsRow(w), worker[w].phase \in {"replaying", "admitting"},
         NEW c \in Chapters, c = worker[w].at, NEW k \in 1..Len(candidate[c]),
         Admissible(c, k), EnterCanon(w, c, k), UNCHANGED task,
         NEW call, Become(w, call),
         call.phase = IF worker[w].phase = "replaying" THEN "crediting" ELSE "concluding",
         call.epoch = worker[w].epoch, call.seen = worker[w].seen,
         call.resume = worker[w].resume, call.todo = worker[w].todo, call.at = c,
         call.done = worker[w].done, call.failed = worker[w].failed,
         call.paused = worker[w].paused
  PROVE  QInv'
<1> PICK S : S = InCanon
  OBVIOUS
<1> PICK X : X = wrote[t]
  OBVIOUS
<1> PICK C : C = task[t].completed
  OBVIOUS
<1>1. /\ worker[w] \in WorkerType /\ task[t] \in TaskType /\ CallFits(worker[w], S)
      /\ S \in SUBSET Chapters /\ X \in SUBSET Chapters /\ C \in SUBSET Chapters
      /\ task[t].requested \in Nat
  BY RunFacts, QTypes
<1>2. /\ Canon(c) = 0 /\ c \notin S
      /\ candidate' = [candidate EXCEPT ![c][k] = "accepted"]
      /\ chapter' = [chapter EXCEPT ![c] = "accepted"]
      /\ wrote' = [wrote EXCEPT ![t] = @ \cup {c}]
  BY DEF Admissible, EnterCanon, InCall, InCanon
<1>3. InCanon' = S \cup {c}
  <2>1. Canon(c)' = k /\ \A d \in Chapters : d # c => Canon(d)' = Canon(d)
    BY <1>2, SetCandidate, QTypes
  <2>2. k # 0
    OBVIOUS
  <2> QED
    BY <2>1, <2>2 DEF InCanon
<1>4. /\ \A s \in Tasks : wrote'[s] = IF s = t THEN X \cup {c} ELSE wrote[s]
      /\ \A v \in Workers : worker'[v] = IF v = w THEN call ELSE worker[v]
      /\ \A d \in Chapters : d # c => chapter'[d] = chapter[d] /\ candidate'[d] = candidate[d]
  BY <1>2, QTypes DEF Become, TypeOK
<1>5. worker[w].phase \in Running
  BY DEF Running, Opening, Drafting
<1>6. /\ Active(t) /\ Resumable(task[t], X, S)
      /\ HolderFits(worker[w], task[t], X, S, Redo)
      /\ task[t].status \notin {"absent", "queued"} /\ Asked(task[t], X, S)
  BY <1>5, HeldRow, OwnedRow
<1>7. /\ ~task[t].deleted /\ task[t].status \notin Terminal
      /\ worker[w].failed = {} /\ worker[w].paused = {} /\ worker[w].epoch >= 1
  BY <1>1, <1>5, <1>6 DEF HolderFits, CallFits
<1>8. /\ Before(c, S) /\ \A d \in C : d < c
      /\ \A f \in task[t].failed : c <= f
      /\ Lags(X, C, c \in S)
  <2>1. CASE worker[w].phase = "replaying"
    BY <1>1, <1>6, <2>1 DEF CallFits, HolderFits, Opening
  <2>2. CASE worker[w].phase = "admitting"
    BY <1>1, <1>6, <2>2 DEF CallFits, HolderFits, Drafting
  <2> QED
    BY <2>1, <2>2
<1>9. Cardinality(X) < task[t].requested
  <2>1. candidate[c] # <<>>
    OBVIOUS
  <2>2. Open(c)
    BY <1>2, <2>1 DEF Open
  <2> QED
    BY <1>6, <2>2 DEF QInv, Room
<1>10. /\ Cardinality(X \cup {c}) <= task[t].requested
       /\ Cardinality(X \cup {c}) <= Cardinality(C) + 1
  <2>1. Cardinality(X) <= Cardinality(C)
    BY <1>2, <1>8 DEF Lags
  <2>2. Cardinality(X \cup {c}) <= Cardinality(X) + 1
    <3>1. CASE c \in X
      <4>1. X \cup {c} = X
        BY <3>1
      <4>2. Cardinality(X \cup {c}) = Cardinality(X)
        BY <4>1
      <4>3. Cardinality(X) \in Nat
        BY <1>1, CardUp
      <4> QED
        BY <4>2, <4>3
    <3>2. CASE c \notin X
      <4>1. Cardinality(X \cup {c}) = Cardinality(X) + 1
        BY <1>1, <3>2, CardAdd
      <4>2. Cardinality(X) \in Nat
        BY <1>1, CardUp
      <4> QED
        BY <4>1, <4>2
    <3> QED
      BY <3>1, <3>2
  <2>3. X \cup {c} \in SUBSET Chapters
    BY <1>1
  <2>4. /\ Cardinality(X) \in Nat /\ Cardinality(C) \in Nat
        /\ Cardinality(X \cup {c}) \in Nat
    BY <1>1, <2>3, CardUp
  <2> QED
    BY <1>1, <1>9, <2>1, <2>2, <2>4
<1>11. Asked(task[t], X \cup {c}, S \cup {c})
  <2>1. Cardinality(X \cup {c}) + Cardinality(Chapters \ (S \cup {c}))
           <= Cardinality(X) + Cardinality(Chapters \ S)
    BY <1>1, <1>2, CardEnters
  <2>2. /\ X \cup {c} \in SUBSET Chapters /\ Chapters \ (S \cup {c}) \in SUBSET Chapters
        /\ Chapters \ S \in SUBSET Chapters
    BY <1>1
  <2>3. /\ Cardinality(X \cup {c}) \in Nat /\ Cardinality(Chapters \ (S \cup {c})) \in Nat
        /\ Cardinality(X) \in Nat /\ Cardinality(Chapters \ S) \in Nat
    BY <1>1, <2>2, CardUp
  <2> QED
    BY <1>1, <1>6, <2>1, <2>3 DEF Asked
<1>12. Resumable(task[t], X \cup {c}, S \cup {c})
  <2>1. task[t].failed \subseteq S \cup {c}
    <3>1. SUFFICES ASSUME NEW f \in task[t].failed, f # c PROVE FALSE
      OBVIOUS
    <3>2. f \in Nat /\ c \in Nat
      BY <1>1 DEF TaskType, Chapters
    <3>3. c < f
      BY <1>8, <3>1, <3>2
    <3>4. Before(f, S)
      BY <1>6 DEF Resumable
    <3> QED
      BY <1>2, <3>3, <3>4 DEF Before
  <2>2. \E u \in S \cup {c} : \A d \in C : d < u
    BY <1>8
  <2>3. Lags(X \cup {c}, C, /\ task[t].failed \subseteq S \cup {c}
                            /\ \E u \in S \cup {c} : \A d \in C : d < u)
    BY <1>10, <2>1, <2>2 DEF Lags
  <2>4. /\ task[t].paused = {}
        /\ \A f \in task[t].failed : Before(f, S \cup {c}) /\ \A d \in C : d < f
    BY <1>6 DEF Resumable, Before
  <2> QED
    BY <2>3, <2>4 DEF Resumable
<1>13. RowFits(task'[t], wrote'[t], InCanon')
  BY <1>3, <1>4, <1>6, <1>10, <1>11, <1>12 DEF RowFits
<1>14. CallFits(call, S \cup {c})
  <2>1. CallFits(worker[w], S \cup {c})
    BY <1>1, CallFitsGrows
  <2>2. CASE worker[w].phase = "replaying"
    BY <1>7, <2>1, <2>2 DEF CallFits, Opening, Drafting
  <2>3. CASE worker[w].phase = "admitting"
    BY <1>7, <2>1, <2>3 DEF CallFits, Opening, Drafting
  <2> QED
    BY <2>2, <2>3
<1>15. HolderFits(call, task[t], X \cup {c}, S \cup {c}, Redo')
  <2>1. CASE worker[w].phase = "replaying"
    <3>1. /\ worker[w].seen = C /\ \A d \in C : d < worker[w].resume
          /\ \A f \in task[t].failed : worker[w].resume <= f
          /\ c = worker[w].resume
      BY <1>6, <2>1 DEF HolderFits, Opening
    <3>2. Lags(X \cup {c}, C, TRUE)
      BY <1>10 DEF Lags
    <3> QED
      BY <1>7, <2>1, <3>1, <3>2 DEF HolderFits, Opening, Drafting
  <2>2. CASE worker[w].phase = "admitting"
    <3> PICK T : T = worker[w].todo \cup {c}
      OBVIOUS
    <3>1. /\ worker[w].done \subseteq C /\ task[t].failed = {}
          /\ Cardinality(X) + Cardinality(T \ S) <= task[t].requested
      BY <1>6, <2>2 DEF HolderFits, Drafting
    <3>2. T \in SUBSET Chapters /\ c \in T \ S
      BY <1>1, <1>2 DEF WorkerType
    <3>3. Cardinality(X \cup {c}) + Cardinality(T \ (S \cup {c}))
             <= Cardinality(X) + Cardinality(T \ S)
      BY <1>1, <3>2, CardEnters
    <3>4. /\ X \cup {c} \in SUBSET Chapters /\ T \ (S \cup {c}) \in SUBSET Chapters
          /\ T \ S \in SUBSET Chapters
      BY <1>1, <3>2
    <3>5. /\ Cardinality(X \cup {c}) \in Nat /\ Cardinality(T \ (S \cup {c})) \in Nat
          /\ Cardinality(X) \in Nat /\ Cardinality(T \ S) \in Nat
      BY <1>1, <3>4, CardUp
    <3>6. Cardinality(X \cup {c}) + Cardinality(T \ (S \cup {c})) <= task[t].requested
      BY <1>1, <3>1, <3>3, <3>5
    <3>7. Lags(X \cup {c}, C, c \in S \cup {c})
      BY <1>10 DEF Lags
    <3> QED
      BY <1>7, <1>8, <2>2, <3>1, <3>6, <3>7 DEF HolderFits, Opening, Drafting
  <2> QED
    BY <2>1, <2>2
<1>16. \A d \in Chapters : candidate'[d] # <<>> => candidate[d] # <<>>
  <2>1. candidate[c] # <<>>
    OBVIOUS
  <2> QED
    BY <1>4, <2>1
<1>17. DraftsFit'
  BY <1>3, <1>16 DEF QInv, DraftsFit, Before
<1>18. Room'
  <2>1. SUFFICES ASSUME NEW d \in Chapters, Open(d)' PROVE FALSE
    BY DEF Room
  <2>2. d # c /\ d \notin S
    BY <1>3, <2>1 DEF Open
  <2>3. Before(d, S)
    <3>1. CASE candidate'[d] # <<>>
      BY <1>16, <3>1 DEF QInv, DraftsFit
    <3>2. CASE \E v \in Workers : Writes(v, d)'
      <4> PICK v \in Workers : Writes(v, d)'
        BY <3>2
      <4>1. worker'[v] = worker[v]
        BY <1>4, <2>2 DEF Writes
      <4>2. Writes(v, d) /\ ~At(v, "idle")
        BY <4>1 DEF Writes, At, Drafting
      <4>3. CallFits(worker[v], S)
        BY <4>2 DEF QInv, CallsFit, Fits
      <4> QED
        BY <4>2, <4>3 DEF Writes, CallFits
    <3> QED
      BY <2>1, <3>1, <3>2 DEF Open
  <2>4. d < c \/ c < d
    BY <2>2 DEF Chapters
  <2> QED
    BY <1>2, <1>8, <2>2, <2>3, <2>4 DEF Before
<1>19. Acts(w, t)
  BY <1>4 DEF Acts
<1>20. \A d \in InCanon : chapter'[d] = "accepted" => chapter[d] = "accepted"
  BY <1>1, <1>2, <1>4
<1>21. Active(t)' => Active(t)
  BY <1>6
<1>22. worker'[w] = call /\ task'[t] = task[t] /\ wrote'[t] = X \cup {c}
  BY <1>4
<1> QED
  BY <1>3, <1>13, <1>14, <1>15, <1>17, <1>18, <1>19, <1>20, <1>21, <1>22, ActFits

\* A candidate gets a status other than accepted.
LEMMA QuietDrafted ==
  ASSUME CInv, NEW w \in Workers, NEW c \in Chapters, NEW k \in 1..Len(candidate[c]),
         NEW s \in {"ready", "failed"}, candidate[c][k] # "accepted",
         candidate' = [candidate EXCEPT ![c][k] = s], UNCHANGED <<chapter, wrote, overrun>>
  PROVE  BookQuiet(w)
<1>1. TypeOK /\ s # "accepted" /\ s \in {"reviewed", "ready", "failed", "accepted"}
  BY CInvFacts
<1>2. DraftsStay /\ CanonSame
  BY <1>1, SetCandidate
<1>3. InCanon' = InCanon
  BY <1>2, BookDrafted
<1>4. candidate[c] # <<>>
  OBVIOUS
<1>5. \A d \in Chapters : d # c => candidate'[d] = candidate[d]
  BY <1>1 DEF TypeOK
<1> QED
  BY <1>3, <1>4, <1>5 DEF BookQuiet

\* The chapter the call writes gets a candidate.
LEMMA QuietWritten ==
  ASSUME CInv, NEW w \in Workers, NEW c \in Chapters, Writes(w, c),
         candidate' = [candidate EXCEPT ![c] = Append(@, "reviewed")],
         UNCHANGED <<chapter, wrote, overrun>>
  PROVE  BookQuiet(w)
<1>1. TypeOK
  BY CInvFacts
<1>2. DraftsStay /\ CanonSame
  BY <1>1, AppendSame
<1>3. InCanon' = InCanon
  BY <1>2, BookDrafted
<1>4. \A d \in Chapters : d # c => candidate'[d] = candidate[d]
  BY <1>1 DEF TypeOK
<1> QED
  BY <1>3, <1>4 DEF BookQuiet

LEMMA StampedIs ==
  ASSUME NEW row \in TaskType, NEW call, NEW status, NEW r, r = Stamped(row, call, status)
  PROVE  /\ r.status = status /\ r.requested = row.requested
         /\ r.completed = row.completed \cup call.done
         /\ r.failed = call.failed /\ r.paused = call.paused
         /\ r.deleted = row.deleted
BY StampedFacts

\* The row of a call that works on a chapter takes its lists and stays resumable.
LEMMA DraftingRow ==
  ASSUME CInv, QInv, NEW w \in Workers, NEW t \in Tasks, InCall(w, t), OwnsRow(w),
         worker[w].phase \in Drafting
  PROVE  LET r == Stamped(task[t], worker[w], "running")
         IN  /\ r.completed = task[t].completed /\ r.failed = task[t].failed
             /\ r.requested = task[t].requested /\ r.deleted = task[t].deleted
             /\ r.status = "running" /\ r.failed = {} /\ r.paused = {}
             /\ Resumable(r, wrote[t], InCanon)
<1> PICK r : r = Stamped(task[t], worker[w], "running")
  OBVIOUS
<1>1. worker[w].phase \in Running
  BY DEF Running
<1>2. /\ HolderFits(worker[w], task[t], wrote[t], InCanon, Redo)
      /\ CallFits(worker[w], InCanon) /\ task[t] \in TaskType
  BY <1>1, HeldRow, RunFacts
<1>3. /\ worker[w].done \subseteq task[t].completed /\ task[t].failed = {}
      /\ \A d \in task[t].completed : d < worker[w].at
      /\ Lags(wrote[t], task[t].completed, worker[w].at \in InCanon)
      /\ worker[w].failed = {} /\ worker[w].paused = {}
  BY <1>1, <1>2 DEF HolderFits, CallFits
<1>4. /\ r.status = "running" /\ r.requested = task[t].requested
      /\ r.completed = task[t].completed \cup worker[w].done
      /\ r.failed = worker[w].failed /\ r.paused = worker[w].paused
      /\ r.deleted = task[t].deleted
  BY <1>2, StampedFacts
<1>5. r.completed = task[t].completed
  BY <1>3, <1>4
<1>6. Resumable(r, wrote[t], InCanon)
  BY <1>3, <1>4, <1>5 DEF Resumable, Lags
<1> QED
  BY <1>3, <1>4, <1>5, <1>6

\* The call goes on with its chapter in another phase.
LEMMA KeepsChapter ==
  ASSUME TaskAssumption, CInv, QInv, Kept, Steady, NEW w \in Workers, NEW t \in Tasks,
         InCall(w, t), worker[w].phase \in Drafting, BookQuiet(w),
         UNCHANGED task \/ Progress(w, worker[w], "running"),
         NEW call, Become(w, call), call.phase \in Drafting, call.epoch = worker[w].epoch,
         call.seen = worker[w].seen, call.resume = worker[w].resume,
         call.todo = worker[w].todo, call.at = worker[w].at, call.done = worker[w].done,
         call.failed = worker[w].failed, call.paused = worker[w].paused
  PROVE  QInv'
<1>1. worker[w].phase \in Running /\ call.phase \in Running
  BY DEF Running
<1>2. CallFits(worker[w], InCanon)
  BY RunFacts
<1>3. CallFits(call, InCanon)
  BY <1>1, <1>2 DEF CallFits, Drafting, Opening
<1> PICK r : r = Stamped(task[t], worker[w], "running")
  OBVIOUS
<1>4. OwnsRow(w) => /\ r.completed = task[t].completed /\ r.failed = task[t].failed
                    /\ r.requested = task[t].requested /\ r.deleted = task[t].deleted
                    /\ r.status = "running" /\ Resumable(r, wrote[t], InCanon)
  BY DraftingRow
<1>5. Edits(w, t) /\ (OwnsRow(w) => task'[t] = task[t] \/ task'[t] = r)
  <2>1. CASE UNCHANGED task
    BY <2>1, EditsNothing
  <2>2. CASE Progress(w, worker[w], "running")
    <3>1. Edits(w, t) /\ (Holds(w) => task'[t] = r)
      BY <1>1, <1>4, <2>2, ProgressGoesOn
    <3>2. ~Holds(w) => task' = task
      BY <2>2 DEF Progress
    <3> QED
      BY <3>1, <3>2
  <2> QED
    BY <2>1, <2>2
<1>6. ASSUME OwnsRow(w) PROVE HolderFits(call, task'[t], wrote[t], InCanon, Redo)
  <2>1. HolderFits(worker[w], task[t], wrote[t], InCanon, Redo)
    BY <1>1, <1>6, HeldRow
  <2>2. call.phase \notin Opening /\ call.phase # "looping" /\ call.phase # "planning"
    BY DEF Opening, Drafting
  <2>3. call.phase \notin {"recovering", "replaying", "crediting"}
        /\ call.phase \notin {"replaying", "crediting"}
        /\ call.phase \notin {"recovering", "replaying"} /\ call.phase # "crediting"
        /\ call.phase \notin {"starting", "planning"}
    BY DEF Drafting
  <2>4. ~task[t].deleted /\ task[t].status \notin Terminal
    BY <1>1, <2>1 DEF HolderFits
  <2>5. HolderFits(call, task[t], wrote[t], InCanon, Redo)
    BY <2>1, <2>2, <2>3, <2>4 DEF HolderFits
  <2>6. CASE task'[t] = task[t]
    BY <2>5, <2>6
  <2>7. CASE task'[t] = r
    <3>1. ~r.deleted /\ r.status \notin Terminal
      BY <1>4, <1>6, <2>4 DEF Terminal
    <3> QED
      BY <1>4, <1>6, <2>5, <2>7, <3>1, HolderSameRow
  <2> QED
    BY <1>5, <1>6, <2>6, <2>7
<1>7. \A c \in Chapters : call.phase \in Drafting /\ call.at = c => Writes(w, c)
  BY DEF Writes
<1> QED
  BY <1>3, <1>5, <1>6, <1>7, Continues

LEMMA ReplayFits ==
  ASSUME TaskAssumption, CInv, QInv, Kept, Steady, NEW w \in Workers, Replay(w)
  PROVE  QInv'
<1> PICK committed : committed = [worker[w] EXCEPT !.phase = "crediting"]
  OBVIOUS
<1>1. /\ worker[w].phase = "replaying" /\ worker[w].phase \in InChapter
      /\ CommitPlan(w, committed, Raised(worker[w])) /\ UNCHANGED task
  BY DEF Replay, At, InChapter, CommitPlan
<1>2. ~At(w, "idle") /\ worker[w] \in WorkerType /\ worker[w].at \in Chapters /\ TypeOK
  BY <1>1, InChapterCall
<1>3. worker[w].draft \in 1..Len(candidate[worker[w].at])
  BY <1>1, CInvFacts DEF DraftOK
<1> PICK c \in Chapters : c = worker[w].at
  BY <1>2
<1> PICK k \in 1..Len(candidate[c]) : k = worker[w].draft
  BY <1>3
<1> PICK t \in Tasks : t = worker[w].task /\ InCall(w, t)
  BY <1>2, InCallOf
<1>4. /\ committed.phase = "crediting" /\ committed.epoch = worker[w].epoch
      /\ committed.seen = worker[w].seen /\ committed.resume = worker[w].resume
      /\ committed.todo = worker[w].todo /\ committed.at = c
      /\ committed.done = worker[w].done /\ committed.failed = worker[w].failed
      /\ committed.paused = worker[w].paused
  BY <1>2 DEF WorkerType
<1>5. \/ /\ candidate[c][k] = "accepted" /\ Become(w, committed)
         /\ UNCHANGED <<chapter, candidate, wrote, overrun>>
      \/ Holds(w) /\ Admissible(c, k) /\ EnterCanon(w, c, k) /\ Become(w, committed)
      \/ Become(w, Raised(worker[w])) /\ UNCHANGED <<chapter, candidate, wrote, overrun>>
      \/ /\ candidate[c][k] = "ready" /\ candidate' = [candidate EXCEPT ![c][k] = "failed"]
         /\ Become(w, Raised(worker[w])) /\ UNCHANGED <<chapter, wrote, overrun>>
  BY <1>1 DEF CommitPlan
<1>6. CASE /\ candidate[c][k] = "accepted" /\ Become(w, committed)
           /\ UNCHANGED <<chapter, candidate, wrote, overrun>>
  <2>1. /\ CallFits(worker[w], InCanon)
        /\ OwnsRow(w) => HolderFits(worker[w], task[t], wrote[t], InCanon, Redo)
    <3>1. worker[w].phase \in Running
      BY <1>1 DEF Running, Opening
    <3> QED
      BY <3>1, RunFacts, HeldRow
  <2>2. CallFits(committed, InCanon)
    BY <1>1, <1>4, <2>1 DEF CallFits, Opening, Running, Drafting
  <2>3. ASSUME OwnsRow(w) PROVE HolderFits(committed, task[t], wrote[t], InCanon, Redo)
    <3>1. /\ ~task[t].deleted /\ task[t].status \notin Terminal
          /\ worker[w].seen = task[t].completed
          /\ \A d \in task[t].completed : d < worker[w].resume
          /\ \A f \in task[t].failed : worker[w].resume <= f
          /\ worker[w].at = worker[w].resume
          /\ Lags(wrote[t], task[t].completed, worker[w].resume \in InCanon)
      BY <1>1, <2>1, <2>3 DEF HolderFits, Running, Opening
    <3>2. Lags(wrote[t], task[t].completed, TRUE)
      BY <3>1 DEF Lags
    <3> QED
      BY <1>4, <3>1, <3>2 DEF HolderFits, Drafting
  <2> QED
    BY <1>1, <1>4, <1>6, <2>2, <2>3, CallMoves DEF Drafting
<1>7. CASE Holds(w) /\ Admissible(c, k) /\ EnterCanon(w, c, k) /\ Become(w, committed)
  BY <1>1, <1>4, <1>7, EntryFits DEF Holds
<1>8. CASE Become(w, Raised(worker[w])) /\ UNCHANGED <<chapter, candidate, wrote, overrun>>
  BY <1>1, <1>8, QuietSame, RaisedLeaves
<1>9. CASE /\ candidate[c][k] = "ready" /\ candidate' = [candidate EXCEPT ![c][k] = "failed"]
           /\ Become(w, Raised(worker[w])) /\ UNCHANGED <<chapter, wrote, overrun>>
  BY <1>1, <1>9, QuietDrafted, RaisedLeaves
<1> QED
  BY <1>5, <1>6, <1>7, <1>8, <1>9

LEMMA AdmitFits ==
  ASSUME TaskAssumption, CInv, QInv, Kept, Steady, NEW w \in Workers, Admit(w)
  PROVE  QInv'
<1> PICK committed : committed = [worker[w] EXCEPT !.phase = "concluding"]
  OBVIOUS
<1> PICK blocked : blocked = [worker[w] EXCEPT !.phase = "rejecting"]
  OBVIOUS
<1>1. /\ worker[w].phase = "admitting" /\ worker[w].phase \in InChapter
      /\ CommitPlan(w, committed, blocked) /\ UNCHANGED task
  BY DEF Admit, At, InChapter, CommitPlan
<1>2. ~At(w, "idle") /\ worker[w] \in WorkerType /\ worker[w].at \in Chapters /\ TypeOK
  BY <1>1, InChapterCall
<1>3. worker[w].draft \in 1..Len(candidate[worker[w].at])
  BY <1>1, CInvFacts DEF DraftOK
<1> PICK c \in Chapters : c = worker[w].at
  BY <1>2
<1> PICK k \in 1..Len(candidate[c]) : k = worker[w].draft
  BY <1>3
<1> PICK t \in Tasks : t = worker[w].task /\ InCall(w, t)
  BY <1>2, InCallOf
<1>4. /\ committed.phase = "concluding" /\ committed.epoch = worker[w].epoch
      /\ committed.seen = worker[w].seen /\ committed.resume = worker[w].resume
      /\ committed.todo = worker[w].todo /\ committed.at = c
      /\ committed.done = worker[w].done /\ committed.failed = worker[w].failed
      /\ committed.paused = worker[w].paused
  BY <1>2 DEF WorkerType
<1>5. /\ blocked.phase = "rejecting" /\ blocked.epoch = worker[w].epoch
      /\ blocked.seen = worker[w].seen /\ blocked.resume = worker[w].resume
      /\ blocked.todo = worker[w].todo /\ blocked.at = c
      /\ blocked.done = worker[w].done /\ blocked.failed = worker[w].failed
      /\ blocked.paused = worker[w].paused
  BY <1>2 DEF WorkerType
<1>6. \/ Become(w, committed) /\ UNCHANGED <<chapter, candidate, wrote, overrun>>
      \/ Holds(w) /\ Admissible(c, k) /\ EnterCanon(w, c, k) /\ Become(w, committed)
      \/ Become(w, blocked) /\ UNCHANGED <<chapter, candidate, wrote, overrun>>
      \/ /\ candidate[c][k] = "ready" /\ candidate' = [candidate EXCEPT ![c][k] = "failed"]
         /\ Become(w, blocked) /\ UNCHANGED <<chapter, wrote, overrun>>
  BY <1>1 DEF CommitPlan
<1>7. worker[w].phase \in Drafting /\ "concluding" \in Drafting /\ "rejecting" \in Drafting
  BY <1>1 DEF Drafting
<1>8. CASE Become(w, committed) /\ UNCHANGED <<chapter, candidate, wrote, overrun>>
  BY <1>1, <1>4, <1>7, <1>8, QuietSame, KeepsChapter
<1>9. CASE Holds(w) /\ Admissible(c, k) /\ EnterCanon(w, c, k) /\ Become(w, committed)
  BY <1>1, <1>4, <1>9, EntryFits DEF Holds
<1>10. CASE Become(w, blocked) /\ UNCHANGED <<chapter, candidate, wrote, overrun>>
  BY <1>1, <1>5, <1>7, <1>10, QuietSame, KeepsChapter
<1>11. CASE /\ candidate[c][k] = "ready" /\ candidate' = [candidate EXCEPT ![c][k] = "failed"]
            /\ Become(w, blocked) /\ UNCHANGED <<chapter, wrote, overrun>>
  BY <1>1, <1>5, <1>7, <1>11, QuietDrafted, KeepsChapter
<1> QED
  BY <1>6, <1>8, <1>9, <1>10, <1>11

-----------------------------------------------------------------------------
(* The chapter *)

LEMMA WriteFits ==
  ASSUME TaskAssumption, CInv, QInv, Kept, Steady, NEW w \in Workers, Write(w)
  PROVE  QInv'
<1>1. worker[w].phase = "writing" /\ worker[w].phase \in InChapter
  BY DEF Write, At, InChapter
<1>2. ~At(w, "idle") /\ worker[w] \in WorkerType /\ worker[w].at \in Chapters
  BY <1>1, InChapterCall
<1> PICK c \in Chapters : c = worker[w].at
  BY <1>2
<1> PICK t \in Tasks : t = worker[w].task /\ InCall(w, t)
  BY <1>2, InCallOf
<1> PICK call : call = [worker[w] EXCEPT !.phase = "preparing", !.draft = Len(candidate[c]) + 1]
  OBVIOUS
<1>3. /\ candidate' = [candidate EXCEPT ![c] = Append(@, "reviewed")]
      /\ UNCHANGED <<chapter, wrote, overrun>>
      /\ \/ ReturnPaused(w, worker[w])
         \/ Progress(w, worker[w], "running") /\ Become(w, call)
  BY DEF Write
<1>4. worker[w].phase \in Drafting /\ Writes(w, c)
  BY <1>1 DEF Drafting, Writes
<1>5. BookQuiet(w)
  BY <1>3, <1>4, QuietWritten
<1>6. /\ call.phase = "preparing" /\ call.epoch = worker[w].epoch
      /\ call.seen = worker[w].seen /\ call.resume = worker[w].resume
      /\ call.todo = worker[w].todo /\ call.at = worker[w].at
      /\ call.done = worker[w].done /\ call.failed = worker[w].failed
      /\ call.paused = worker[w].paused
  BY <1>2 DEF WorkerType
<1>7. call.phase \in Drafting
  BY <1>6 DEF Drafting
<1> QED
  BY <1>2, <1>3, <1>4, <1>5, <1>6, <1>7, PausedLeaves, KeepsChapter

LEMMA PrepareFits ==
  ASSUME TaskAssumption, CInv, QInv, Kept, Steady, NEW w \in Workers, Prepare(w)
  PROVE  QInv'
<1>1. worker[w].phase = "preparing" /\ worker[w].phase \in InChapter
  BY DEF Prepare, At, InChapter
<1>2. ~At(w, "idle") /\ worker[w] \in WorkerType /\ worker[w].at \in Chapters
  BY <1>1, InChapterCall
<1>3. worker[w].draft \in 1..Len(candidate[worker[w].at])
  BY <1>1, CInvFacts DEF DraftOK
<1> PICK c \in Chapters : c = worker[w].at
  BY <1>2
<1> PICK k \in 1..Len(candidate[c]) : k = worker[w].draft
  BY <1>3
<1> PICK t \in Tasks : t = worker[w].task /\ InCall(w, t)
  BY <1>2, InCallOf
<1>4. /\ Progress(w, worker[w], "running") /\ UNCHANGED <<chapter, wrote, overrun>>
      /\ \/ candidate[c][k] = "reviewed" /\ candidate' = [candidate EXCEPT ![c][k] = "ready"]
         \/ UNCHANGED candidate
  BY DEF Prepare
<1>5. PICK phase \in {"admitting", "repairing", "rejecting"} :
        Become(w, [worker[w] EXCEPT !.phase = phase])
  BY DEF Prepare
<1> PICK call : call = [worker[w] EXCEPT !.phase = phase]
  OBVIOUS
<1>6. /\ call.phase = phase /\ call.epoch = worker[w].epoch
      /\ call.seen = worker[w].seen /\ call.resume = worker[w].resume
      /\ call.todo = worker[w].todo /\ call.at = worker[w].at
      /\ call.done = worker[w].done /\ call.failed = worker[w].failed
      /\ call.paused = worker[w].paused
  BY <1>2 DEF WorkerType
<1>7. call.phase \in Drafting /\ worker[w].phase \in Drafting
  BY <1>1, <1>6 DEF Drafting
<1>8. BookQuiet(w)
  <2>1. CASE UNCHANGED candidate
    BY <1>4, <2>1, QuietSame
  <2>2. CASE candidate[c][k] = "reviewed" /\ candidate' = [candidate EXCEPT ![c][k] = "ready"]
    <3>1. candidate[c][k] # "accepted"
      BY <2>2
    <3> QED
      BY <1>4, <2>2, <3>1, QuietDrafted
  <2> QED
    BY <1>4, <2>1, <2>2
<1> QED
  BY <1>4, <1>5, <1>6, <1>7, <1>8, KeepsChapter

LEMMA RepairFits ==
  ASSUME TaskAssumption, CInv, QInv, Kept, Steady, NEW w \in Workers, Repair(w)
  PROVE  QInv'
<1>1. worker[w].phase = "repairing" /\ worker[w].phase \in InChapter
  BY DEF Repair, At, InChapter
<1>2. ~At(w, "idle") /\ worker[w] \in WorkerType /\ worker[w].at \in Chapters
  BY <1>1, InChapterCall
<1> PICK c \in Chapters : c = worker[w].at
  BY <1>2
<1> PICK t \in Tasks : t = worker[w].task /\ InCall(w, t)
  BY <1>2, InCallOf
<1>3. /\ candidate' = [candidate EXCEPT ![c] = Append(@, "reviewed")]
      /\ UNCHANGED <<task, chapter, wrote, overrun>>
  BY DEF Repair
<1>4. PICK phase \in {"preparing", "rejecting"} :
        Become(w, [worker[w] EXCEPT !.phase = phase, !.draft = Len(candidate[c]) + 1])
  BY DEF Repair
<1> PICK call : call = [worker[w] EXCEPT !.phase = phase, !.draft = Len(candidate[c]) + 1]
  OBVIOUS
<1>5. /\ call.phase = phase /\ call.epoch = worker[w].epoch
      /\ call.seen = worker[w].seen /\ call.resume = worker[w].resume
      /\ call.todo = worker[w].todo /\ call.at = worker[w].at
      /\ call.done = worker[w].done /\ call.failed = worker[w].failed
      /\ call.paused = worker[w].paused
  BY <1>2 DEF WorkerType
<1>6. call.phase \in Drafting /\ worker[w].phase \in Drafting /\ Writes(w, c)
  BY <1>1, <1>5 DEF Drafting, Writes
<1>7. BookQuiet(w)
  BY <1>3, <1>6, QuietWritten
<1> QED
  BY <1>3, <1>4, <1>5, <1>6, <1>7, KeepsChapter

\* The chapter is counted: what the task wrote is behind what it completed again.
LEMMA ConcludeFits ==
  ASSUME TaskAssumption, CInv, QInv, Kept, Steady, NEW w \in Workers, Conclude(w)
  PROVE  QInv'
<1>1. worker[w].phase = "concluding" /\ worker[w].phase \in InChapter
  BY DEF Conclude, At, InChapter
<1>2. ~At(w, "idle") /\ worker[w] \in WorkerType /\ worker[w].at \in Chapters
  BY <1>1, InChapterCall
<1> PICK c \in Chapters : c = worker[w].at
  BY <1>2
<1> PICK t \in Tasks : t = worker[w].task /\ InCall(w, t)
  BY <1>2, InCallOf
<1>a. PICK call : call = [worker[w] EXCEPT !.done = @ \cup {c}]
  OBVIOUS
<1>b. PICK held : held = [call EXCEPT !.paused = @ \cup {c}]
  OBVIOUS
<1>n. PICK next : next = [call EXCEPT !.phase = "looping", !.at = 0, !.draft = 0]
  OBVIOUS
<1>3. /\ UNCHANGED <<chapter, candidate, wrote, overrun>>
      /\ \/ ReturnPaused(w, worker[w]) \/ ReturnPaused(w, call) \/ ReturnPaused(w, held)
         \/ Holds(w) /\ Progress(w, call, "running") /\ Become(w, next)
  BY <1>a, <1>b, <1>n DEF Conclude, PauseRequested
<1>4. BookQuiet(w)
  BY <1>3, QuietSame
<1>5. call \in WorkerType /\ held \in WorkerType
  BY <1>2, <1>a, <1>b DEF WorkerType
<1>6. CASE ReturnPaused(w, worker[w]) \/ ReturnPaused(w, call) \/ ReturnPaused(w, held)
  BY <1>2, <1>4, <1>5, <1>6, PausedLeaves
<1>7. CASE Holds(w) /\ Progress(w, call, "running") /\ Become(w, next)
  <2>1. worker[w].phase \in Drafting /\ worker[w].phase \in Running
    BY <1>1 DEF Drafting, Running
  <2>2. /\ CallFits(worker[w], InCanon) /\ task[t] \in TaskType
        /\ InCanon \in SUBSET Chapters /\ wrote[t] \in SUBSET Chapters
        /\ task[t].completed \in SUBSET Chapters /\ c \in InCanon
    BY <1>1, RunFacts, CInvFacts
  <2>3. /\ worker[w].epoch >= 1 /\ worker[w].failed = {} /\ worker[w].paused = {}
        /\ Before(c, InCanon)
        /\ \A e \in worker[w].todo : c < e /\ Before(e, InCanon \cup worker[w].todo \cup {c})
    BY <2>1, <2>2 DEF CallFits
  <2>4. /\ call.done = worker[w].done \cup {c}
        /\ call.failed = worker[w].failed /\ call.paused = worker[w].paused
    BY <1>2, <1>a DEF WorkerType
  <2>5. /\ next.phase = "looping" /\ next.at = 0 /\ next.epoch = worker[w].epoch
        /\ next.todo = worker[w].todo /\ next.done = call.done
        /\ next.failed = worker[w].failed /\ next.paused = worker[w].paused
    BY <1>2, <1>a, <1>n DEF WorkerType
  <2>6. InCanon \cup worker[w].todo \cup {c} = InCanon \cup worker[w].todo
    BY <2>2
  <2>7. CallFits(next, InCanon)
    BY <2>3, <2>5, <2>6 DEF CallFits, Opening, Drafting
  <2> PICK r : r = Stamped(task[t], call, "running")
    OBVIOUS
  <2>8. /\ r.status = "running" /\ r.requested = task[t].requested
        /\ r.completed = task[t].completed \cup call.done
        /\ r.failed = {} /\ r.paused = {} /\ r.deleted = task[t].deleted
    <3>1. /\ r.status = "running" /\ r.requested = task[t].requested
          /\ r.completed = task[t].completed \cup call.done
          /\ r.failed = call.failed /\ r.paused = call.paused
          /\ r.deleted = task[t].deleted
      BY <2>2, StampedIs
    <3> QED
      BY <2>3, <2>4, <3>1
  <2>9. ASSUME OwnsRow(w)
        PROVE  /\ Resumable(r, wrote[t], InCanon)
               /\ HolderFits(next, r, wrote[t], InCanon, Redo)
    <3>1. HolderFits(worker[w], task[t], wrote[t], InCanon, Redo) /\ ~task[t].deleted
      BY <2>1, <2>9, HeldRow DEF Active
    <3>2. /\ worker[w].done \subseteq task[t].completed
          /\ \A d \in task[t].completed : d < c
          /\ Cardinality(wrote[t]) + Cardinality((worker[w].todo \cup {c}) \ InCanon)
                <= task[t].requested
          /\ Lags(wrote[t], task[t].completed, c \in InCanon)
      BY <2>1, <3>1 DEF HolderFits
    <3>3. r.completed = task[t].completed \cup {c} /\ call.done \subseteq r.completed
      BY <2>4, <2>8, <3>2
    <3>4. Cardinality(wrote[t]) <= Cardinality(r.completed)
      <4>1. c \notin task[t].completed
        BY <2>2, <3>2 DEF Chapters
      <4>2. Cardinality(task[t].completed \cup {c}) = Cardinality(task[t].completed) + 1
        BY <2>2, <4>1, CardAdd
      <4>3. Cardinality(r.completed) = Cardinality(task[t].completed \cup {c})
        BY <3>3
      <4>4. Cardinality(wrote[t]) \in Nat /\ Cardinality(task[t].completed) \in Nat
        BY <2>2, CardUp
      <4> QED
        BY <3>2, <4>2, <4>3, <4>4 DEF Lags
    <3>5. Resumable(r, wrote[t], InCanon)
      BY <2>8, <3>4 DEF Resumable, Lags
    <3>6. \A d \in r.completed, e \in worker[w].todo : d < e
      <4>1. \A e \in worker[w].todo : e \in Nat /\ c < e
        BY <1>2, <2>3 DEF WorkerType, Chapters
      <4>2. \A d \in task[t].completed : d \in Nat /\ d < c
        BY <2>2, <3>2 DEF Chapters
      <4>3. c \in Nat
        BY DEF Chapters
      <4>4. \A d \in task[t].completed, e \in worker[w].todo : d < e
        BY <4>1, <4>2, <4>3
      <4> QED
        BY <3>3, <4>1, <4>4
    <3>7. Cardinality(wrote[t]) + Cardinality(worker[w].todo \ InCanon) <= r.requested
      <4>1. (worker[w].todo \cup {c}) \ InCanon = worker[w].todo \ InCanon
        BY <2>2
      <4>2. Cardinality((worker[w].todo \cup {c}) \ InCanon)
               = Cardinality(worker[w].todo \ InCanon)
        BY <4>1
      <4> QED
        BY <2>8, <3>2, <4>2
    <3>8. ~r.deleted /\ r.status \notin Terminal
      BY <2>8, <3>1 DEF Terminal
    <3>9. HolderFits(next, r, wrote[t], InCanon, Redo)
      BY <2>3, <2>5, <3>3, <3>4, <3>6, <3>7, <3>8 DEF HolderFits, Opening, Drafting, Lags
    <3> QED
      BY <3>5, <3>9
  <2>10. Edits(w, t) /\ (Holds(w) => task'[t] = r)
    BY <1>7, <2>1, <2>9, ProgressGoesOn
  <2>11. OwnsRow(w) => HolderFits(next, task'[t], wrote[t], InCanon, Redo)
    BY <1>7, <2>9, <2>10
  <2> QED
    BY <1>4, <1>7, <2>5, <2>7, <2>10, <2>11, Continues DEF Drafting
<1> QED
  BY <1>3, <1>6, <1>7

\* A chapter that failed is where the task resumes.
LEMMA ChapterFailsFits ==
  ASSUME TaskAssumption, CInv, QInv, Kept, Steady, NEW w \in Workers, ChapterFails(w)
  PROVE  QInv'
<1>1. /\ worker[w].phase \in {"writing", "preparing", "repairing", "concluding"}
      /\ worker[w].phase \in InChapter
  BY DEF ChapterFails, At, InChapter
<1>2. ~At(w, "idle") /\ worker[w] \in WorkerType /\ worker[w].at \in Chapters
  BY <1>1, InChapterCall
<1> PICK c \in Chapters : c = worker[w].at
  BY <1>2
<1> PICK t \in Tasks : t = worker[w].task /\ InCall(w, t)
  BY <1>2, InCallOf
<1>a. PICK deferred : deferred = [worker[w] EXCEPT !.done = @ \cup {c}, !.paused = @ \cup {c}]
  OBVIOUS
<1>b. PICK failed : failed = [worker[w] EXCEPT !.failed = @ \cup {c}]
  OBVIOUS
<1>3. /\ UNCHANGED <<candidate, wrote, overrun>>
      /\ \/ ReturnPaused(w, deferred) /\ UNCHANGED chapter
         \/ /\ MarkChapter(c, "failed") /\ Progress(w, failed, "running")
            /\ Become(w, Returned(failed, ResultStatus(failed)))
  BY <1>a, <1>b DEF ChapterFails
<1>4. deferred \in WorkerType /\ failed \in WorkerType
  BY <1>2, <1>a, <1>b DEF WorkerType
<1>5. CASE ReturnPaused(w, deferred) /\ UNCHANGED chapter
  BY <1>3, <1>4, <1>5, QuietSame, PausedLeaves
<1>6. CASE /\ MarkChapter(c, "failed") /\ Progress(w, failed, "running")
           /\ Become(w, Returned(failed, ResultStatus(failed)))
  <2>1. BookQuiet(w)
    BY <1>3, <1>6, QuietMarked
  <2>2. worker[w].phase \in Drafting /\ worker[w].phase \in Running
    BY <1>1 DEF Drafting, Running
  <2>3. CallFits(worker[w], InCanon) /\ task[t] \in TaskType
    BY RunFacts
  <2>4. worker[w].failed = {} /\ worker[w].paused = {} /\ Before(c, InCanon)
    BY <2>2, <2>3 DEF CallFits
  <2>5. failed.done = worker[w].done /\ failed.failed = {c} /\ failed.paused = {}
    BY <1>2, <1>b, <2>4 DEF WorkerType
  <2> PICK r : r = Stamped(task[t], failed, "running")
    OBVIOUS
  <2>6. /\ r.completed = task[t].completed \cup worker[w].done
        /\ r.failed = {c} /\ r.paused = {}
    <3>1. /\ r.completed = task[t].completed \cup failed.done
          /\ r.failed = failed.failed /\ r.paused = failed.paused
      BY <2>3, StampedIs
    <3> QED
      BY <2>5, <3>1
  <2>7. ASSUME OwnsRow(w) PROVE Resumable(r, wrote[t], InCanon)
    <3>1. HolderFits(worker[w], task[t], wrote[t], InCanon, Redo)
      BY <2>2, <2>7, HeldRow
    <3>2. /\ worker[w].done \subseteq task[t].completed
          /\ \A d \in task[t].completed : d < c
          /\ Lags(wrote[t], task[t].completed, c \in InCanon)
      BY <2>2, <3>1 DEF HolderFits
    <3>3. r.completed = task[t].completed
      BY <2>6, <3>2
    <3> QED
      BY <2>4, <2>6, <3>2, <3>3 DEF Resumable, Lags
  <2>8. Edits(w, t)
    BY <1>6, <2>2, <2>7, ProgressGoesOn
  <2> QED
    BY <1>4, <1>6, <2>1, <2>8, ReturnedLeaves
<1> QED
  BY <1>3, <1>5, <1>6

-----------------------------------------------------------------------------
(* The credit and the start of the run *)

LEMMA RowIs ==
  ASSUME CInv, NEW t \in Tasks, NEW r, task' = [task EXCEPT ![t] = r]
  PROVE  task'[t] = r
BY QTypes DEF TypeOK

\* The row of a call that goes on is written by it, its request kept.
LEMMA RowEdited ==
  ASSUME CInv, QInv, NEW w \in Workers, NEW t \in Tasks, InCall(w, t), OwnsRow(w),
         worker[w].phase \in Running,
         NEW r, task' = [task EXCEPT ![t] = r],
         r.status = task[t].status \/ r.status = "running", r.requested = task[t].requested,
         Resumable(r, wrote[t], InCanon)
  PROVE  Edits(w, t)
<1>1. \A s \in Tasks : task'[s] = IF s = t THEN r ELSE task[s]
  BY QTypes DEF TypeOK
<1>2. /\ Active(t) /\ task[t].status \notin {"absent", "queued"}
      /\ Asked(task[t], wrote[t], InCanon) /\ Cardinality(wrote[t]) <= task[t].requested
  BY HeldRow, OwnedRow
<1>3. r.status \notin {"absent", "queued"}
  BY <1>2
<1>4. Asked(r, wrote[t], InCanon)
  BY <1>2 DEF Asked
<1>5. RowFits(r, wrote[t], InCanon)
  BY <1>2, <1>3, <1>4 DEF RowFits
<1> QED
  BY <1>1, <1>2, <1>5 DEF Edits

\* The recovered chapter is counted.
LEMMA CreditFits ==
  ASSUME TaskAssumption, CInv, QInv, Kept, Steady, NEW w \in Workers, Credit(w)
  PROVE  QInv'
<1>1. /\ worker[w].phase = "crediting" /\ worker[w].phase \in InChapter
      /\ UNCHANGED <<chapter, candidate, wrote, overrun>>
  BY DEF Credit, At, InChapter
<1>2. ~At(w, "idle") /\ worker[w] \in WorkerType /\ worker[w].at \in Chapters
  BY <1>1, InChapterCall
<1> PICK c \in Chapters : c = worker[w].at
  BY <1>2
<1> PICK t \in Tasks : t = worker[w].task /\ InCall(w, t)
  BY <1>2, InCallOf
<1>3. BookQuiet(w)
  BY <1>1, QuietSame
<1>4. CASE ~Holds(w)
  <2>1. UNCHANGED task /\ Become(w, Raised(worker[w]))
    BY <1>4 DEF Credit
  <2> QED
    BY <1>3, <2>1, RaisedLeaves
<1>5. CASE Holds(w)
  <2>a. PICK r : r = [task[t] EXCEPT !.completed = worker[w].seen \cup {c},
                                     !.failed = @ \ {c}, !.paused = @ \ {c}]
    OBVIOUS
  <2>b. PICK call : call = [worker[w] EXCEPT !.phase = "starting", !.at = 0, !.draft = 0,
                                             !.seen = @ \cup {c}, !.resume = c + 1]
    OBVIOUS
  <2>1. task' = [task EXCEPT ![t] = r] /\ Become(w, call)
    BY <1>5, <2>a, <2>b DEF Credit
  <2>2. /\ worker[w].phase \in Running /\ OwnsRow(w)
    BY <1>1, <1>5 DEF Running, Opening, Holds
  <2>3. /\ CallFits(worker[w], InCanon) /\ task[t] \in TaskType
        /\ InCanon \in SUBSET Chapters /\ wrote[t] \in SUBSET Chapters
        /\ task[t].completed \in SUBSET Chapters /\ c \in InCanon
        /\ HolderFits(worker[w], task[t], wrote[t], InCanon, Redo)
        /\ Resumable(task[t], wrote[t], InCanon)
    BY <1>1, <2>2, RunFacts, CInvFacts, HeldRow
  <2>4. /\ worker[w].done = {} /\ worker[w].failed = {} /\ worker[w].paused = {}
        /\ worker[w].epoch >= 1 /\ Before(worker[w].resume, InCanon)
    BY <1>1, <2>2, <2>3 DEF CallFits, Opening
  <2>5. /\ ~task[t].deleted /\ task[t].status \notin Terminal
        /\ worker[w].seen = task[t].completed /\ worker[w].resume = c
        /\ \A d \in task[t].completed : d < c
        /\ \A f \in task[t].failed : c <= f
        /\ Lags(wrote[t], task[t].completed, TRUE)
    BY <1>1, <2>2, <2>3 DEF HolderFits, Opening
  <2>6. /\ r.completed = worker[w].seen \cup {c} /\ r.failed = task[t].failed \ {c}
        /\ r.paused = task[t].paused \ {c} /\ r.status = task[t].status
        /\ r.requested = task[t].requested /\ r.deleted = task[t].deleted
    BY <2>3, <2>a DEF TaskType
  <2>7. /\ call.phase = "starting" /\ call.at = 0 /\ call.seen = worker[w].seen \cup {c}
        /\ call.resume = c + 1 /\ call.epoch = worker[w].epoch
        /\ call.done = worker[w].done /\ call.failed = worker[w].failed
        /\ call.paused = worker[w].paused
    BY <1>2, <2>b DEF WorkerType
  <2>8. Cardinality(wrote[t]) <= Cardinality(r.completed)
    <3>1. c \notin task[t].completed
      BY <2>3, <2>5 DEF Chapters
    <3>2. Cardinality(task[t].completed \cup {c}) = Cardinality(task[t].completed) + 1
      BY <2>3, <3>1, CardAdd
    <3>3. r.completed = task[t].completed \cup {c}
      BY <2>5, <2>6
    <3>4. Cardinality(r.completed) = Cardinality(task[t].completed \cup {c})
      BY <3>3
    <3>5. Cardinality(wrote[t]) \in Nat /\ Cardinality(task[t].completed) \in Nat
      BY <2>3, CardUp
    <3> QED
      BY <2>5, <3>2, <3>4, <3>5 DEF Lags
  <2>9. Resumable(r, wrote[t], InCanon)
    <3>1. r.paused = {}
      BY <2>3, <2>6 DEF Resumable
    <3>2. ASSUME NEW f \in r.failed
          PROVE  Before(f, InCanon) /\ \A d \in r.completed : d < f
      <4>1. f \in task[t].failed /\ f # c /\ c <= f
        BY <2>5, <2>6
      <4>2. Before(f, InCanon) /\ \A d \in task[t].completed : d < f
        BY <2>3, <4>1 DEF Resumable
      <4>3. f \in Nat /\ c \in Nat
        BY <2>3, <4>1 DEF TaskType, Chapters
      <4>4. c < f
        BY <4>1, <4>3
      <4> QED
        BY <2>5, <2>6, <4>2, <4>4
    <3> QED
      BY <2>8, <3>1, <3>2 DEF Resumable, Lags
  <2>10. Edits(w, t) /\ task'[t] = r
    <3>1. (r.status = task[t].status \/ r.status = "running") /\ r.requested = task[t].requested
      BY <2>6
    <3>2. task' = [task EXCEPT ![t] = r]
      BY <2>1
    <3>3. Edits(w, t)
      BY <2>2, <2>9, <3>1, <3>2, RowEdited
    <3>4. task'[t] = r
      BY <3>2, RowIs
    <3> QED
      BY <3>3, <3>4
  <2>11. CallFits(call, InCanon)
    <3>1. Before(c + 1, InCanon)
      <4>1. \A d \in Chapters : d < c + 1 => d = c \/ d < c
        BY DEF Chapters
      <4> QED
        BY <2>3, <2>4, <2>5, <4>1 DEF Before
    <3> QED
      BY <2>4, <2>7, <3>1 DEF CallFits, Drafting
  <2>12. HolderFits(call, r, wrote[t], InCanon, Redo)
    <3>1. call.seen = r.completed
      BY <2>6, <2>7
    <3>2. \A d \in r.completed : d < c + 1
      <4>1. \A d \in task[t].completed : d \in Nat /\ d < c
        BY <2>3, <2>5 DEF Chapters
      <4>2. c \in Nat
        BY DEF Chapters
      <4> QED
        BY <2>5, <2>6, <4>1, <4>2
    <3> QED
      BY <2>5, <2>6, <2>7, <2>8, <3>1, <3>2 DEF HolderFits, Drafting, Lags
  <2> QED
    BY <1>3, <2>1, <2>7, <2>10, <2>11, <2>12, Continues DEF Drafting
<1> QED
  BY <1>4, <1>5

LEMMA StartFits ==
  ASSUME TaskAssumption, CInv, QInv, Kept, Steady, NEW w \in Workers, Start(w)
  PROVE  QInv'
<1>1. /\ ~At(w, "idle") /\ worker[w].phase = "starting"
      /\ UNCHANGED <<chapter, candidate, wrote, overrun>>
  BY DEF Start, At
<1> PICK t \in Tasks : t = worker[w].task /\ InCall(w, t)
  BY <1>1, InCallOf
<1>2. BookQuiet(w)
  BY <1>1, QuietSame
<1>3. /\ worker[w] \in WorkerType /\ task[t] \in TaskType /\ CallFits(worker[w], InCanon)
      /\ worker[w].phase \in Running
  BY <1>1, RunFacts DEF Running, Opening
<1>a. PICK call : call = [worker[w] EXCEPT !.phase = "planning"]
  OBVIOUS
<1>b. PICK over : over = [task[t] EXCEPT !.status = "completed",
                                         !.completed = @ \cup worker[w].seen]
  OBVIOUS
<1>c. PICK r : r = [task[t] EXCEPT !.status = "running"]
  OBVIOUS
<1>4. \/ Holds(w) /\ task' = [task EXCEPT ![t] = over] /\ Over(w)
      \/ UNCHANGED task /\ Become(w, Raised(worker[w]))
      \/ /\ ~(Cardinality(worker[w].seen) >= task[t].requested) /\ Become(w, call)
         /\ \/ UNCHANGED task
            \/ ~AbortRequested(w) /\ task' = [task EXCEPT ![t] = r]
      \/ UNCHANGED task /\ Become(w, [worker[w] EXCEPT !.phase = "failing"])
  <2>1. [call EXCEPT !.phase = "failing"] = [worker[w] EXCEPT !.phase = "failing"]
    BY <1>3, <1>a DEF WorkerType
  <2> QED
    BY <2>1, <1>a, <1>b, <1>c DEF Start
<1>5. CASE Holds(w) /\ task' = [task EXCEPT ![t] = over] /\ Over(w)
  <2>1. over.status \in Terminal /\ over.requested = task[t].requested
    BY <1>3, <1>b DEF TaskType, Terminal
  <2>2. OwnsRow(w)
    BY <1>5 DEF Holds
  <2> QED
    BY <1>2, <1>5, <2>1, <2>2, EndsFit, OverLeaves
<1>6. CASE UNCHANGED task /\ Become(w, Raised(worker[w]))
  BY <1>2, <1>6, RaisedLeaves
<1>7. CASE UNCHANGED task /\ Become(w, [worker[w] EXCEPT !.phase = "failing"])
  BY <1>2, <1>7, EditsNothing, PhaseLeaves
<1>8. CASE /\ ~(Cardinality(worker[w].seen) >= task[t].requested) /\ Become(w, call)
           /\ \/ UNCHANGED task
              \/ ~AbortRequested(w) /\ task' = [task EXCEPT ![t] = r]
  <2>1. /\ call.phase = "planning" /\ call.at = worker[w].at /\ call.seen = worker[w].seen
        /\ call.resume = worker[w].resume /\ call.epoch = worker[w].epoch
        /\ call.done = worker[w].done /\ call.failed = worker[w].failed
        /\ call.paused = worker[w].paused
    BY <1>3, <1>a DEF WorkerType
  <2>2. CallFits(call, InCanon)
    BY <1>1, <1>3, <2>1 DEF CallFits, Opening, Drafting
  <2>3. ASSUME OwnsRow(w)
        PROVE  HolderFits(call, task[t], wrote[t], InCanon, Redo)
               /\ ~task[t].deleted /\ Resumable(task[t], wrote[t], InCanon)
    <3>1. /\ HolderFits(worker[w], task[t], wrote[t], InCanon, Redo)
          /\ Resumable(task[t], wrote[t], InCanon)
      BY <1>3, <2>3, HeldRow
    <3>2. /\ ~task[t].deleted /\ task[t].status \notin Terminal
          /\ worker[w].seen = task[t].completed
          /\ \A d \in task[t].completed : d < worker[w].resume
          /\ Lags(wrote[t], task[t].completed, worker[w].resume \in Redo)
      BY <1>1, <1>3, <3>1 DEF HolderFits, Opening
    <3>3. Cardinality(worker[w].seen) < task[t].requested
      <4>1. worker[w].seen \in SUBSET Chapters /\ task[t].requested \in Nat
        BY <1>3, QTypes DEF WorkerType
      <4>2. Cardinality(worker[w].seen) \in Nat
        BY <4>1, CardUp
      <4> QED
        BY <1>8, <4>1, <4>2
    <3>4. Cardinality(task[t].completed) = Cardinality(worker[w].seen)
      BY <3>2
    <3>5. Cardinality(task[t].completed) < task[t].requested
      BY <3>3, <3>4
    <3> QED
      BY <2>1, <3>1, <3>2, <3>5 DEF HolderFits, Drafting
  <2>4. CASE UNCHANGED task
    BY <1>2, <1>8, <2>1, <2>2, <2>3, <2>4, EditsNothing, Continues DEF Drafting
  <2>5. CASE ~AbortRequested(w) /\ task' = [task EXCEPT ![t] = r]
    <3>1. OwnsRow(w)
      BY <2>5 DEF AbortRequested, Holds
    <3>2. /\ r.status = "running" /\ r.requested = task[t].requested
          /\ r.completed = task[t].completed /\ r.failed = task[t].failed
          /\ r.paused = task[t].paused /\ r.deleted = task[t].deleted
      BY <1>3, <1>c DEF TaskType
    <3>3. Resumable(r, wrote[t], InCanon)
      BY <2>3, <3>1, <3>2 DEF Resumable
    <3>4. Edits(w, t) /\ task'[t] = r
      <4>1. (r.status = task[t].status \/ r.status = "running") /\ r.requested = task[t].requested
        BY <3>2
      <4>2. task' = [task EXCEPT ![t] = r] /\ worker[w].phase \in Running
        BY <1>3, <2>5
      <4>3. Edits(w, t)
        BY <3>1, <3>3, <4>1, <4>2, RowEdited
      <4>4. task'[t] = r
        BY <4>2, RowIs
      <4> QED
        BY <4>3, <4>4
    <3>5. ~r.deleted /\ r.status \notin Terminal
      BY <2>3, <3>1, <3>2 DEF Terminal
    <3>6. HolderFits(call, r, wrote[t], InCanon, Redo)
      BY <2>3, <3>1, <3>2, <3>5, HolderSameRow
    <3> QED
      BY <1>2, <1>8, <2>1, <2>2, <3>4, <3>6, Continues DEF Drafting
  <2> QED
    BY <1>8, <2>4, <2>5
<1> QED
  BY <1>4, <1>5, <1>6, <1>7, <1>8

-----------------------------------------------------------------------------
(* The run is planned *)

\* What is left of the quota, and at least one chapter.
LEMMA RemainingFacts ==
  ASSUME TaskAssumption, NEW S \in SUBSET Chapters, MaxChapters # 0,
         NEW n, n = Remaining(S)
  PROVE  n \in Nat \ {0} /\ (n = 1 \/ n = MaxChapters - Cardinality(S))
<1>1. Cardinality(S) \in Nat /\ MaxChapters \in Nat
  BY CardUp DEF TaskAssumption
<1> PICK m : m = MaxChapters - Cardinality(S)
  OBVIOUS
<1>2. m \in Int
  BY <1>1
<1>3. n = CHOOSE x \in {1, m} : \A y \in {1, m} : x >= y
  BY DEF Remaining, Max
<1>4. \E x \in {1, m} : \A y \in {1, m} : x >= y
  <2>1. CASE 1 >= m
    BY <1>2, <2>1
  <2>2. CASE m >= 1
    BY <1>2, <2>2
  <2> QED
    BY <1>2, <2>1, <2>2
<1>5. n \in {1, m} /\ \A y \in {1, m} : n >= y
  BY <1>3, <1>4
<1> QED
  BY <1>2, <1>5

\* All that a run sets out to write is within the request.
LEMMA WithinQuota ==
  ASSUME TaskAssumption, NEW X \in SUBSET Chapters, NEW S \in SUBSET Chapters,
         NEW C \in SUBSET Chapters, NEW row, row.requested \in Nat, Asked(row, X, S),
         Cardinality(C) < row.requested,
         NEW P \in SUBSET Chapters, NEW W \in SUBSET P,
         NEW n, n = Remaining(C), n # 0 => Cardinality(W) <= n,
         \/ Cardinality(X) <= Cardinality(C)
         \/ /\ Cardinality(X) <= Cardinality(C) + 1
            /\ \E f \in S : n # 0 => f \in W
  PROVE  Cardinality(X) + Cardinality(W \ S) <= row.requested
<1>1. /\ W \in SUBSET Chapters /\ W \ S \in SUBSET Chapters
      /\ W \ S \subseteq Chapters \ S /\ Chapters \ S \in SUBSET Chapters
  OBVIOUS
<1>2. /\ Cardinality(X) \in Nat /\ Cardinality(W) \in Nat /\ Cardinality(W \ S) \in Nat
      /\ Cardinality(C) \in Nat /\ Cardinality(Chapters \ S) \in Nat
      /\ Cardinality(W \ S) <= Cardinality(W)
      /\ Cardinality(W \ S) <= Cardinality(Chapters \ S)
  <2>1. W \ S \subseteq W
    OBVIOUS
  <2> QED
    BY <1>1, <2>1, CardUp
<1>3. CASE Cardinality(X) + Cardinality(Chapters \ S) <= row.requested
  BY <1>2, <1>3
<1>4. CASE MaxChapters # 0 /\ row.requested >= MaxChapters
  <2>1. n \in Nat \ {0} /\ (n = 1 \/ n = MaxChapters - Cardinality(C))
    BY <1>4, RemainingFacts
  <2>2. Cardinality(C) + n <= row.requested
    BY <1>2, <1>4, <2>1 DEF TaskAssumption
  <2>3. Cardinality(W) <= n
    BY <2>1
  <2>4. CASE Cardinality(X) <= Cardinality(C)
    BY <1>2, <2>1, <2>2, <2>3, <2>4
  <2>5. CASE /\ Cardinality(X) <= Cardinality(C) + 1
             /\ \E f \in S : n # 0 => f \in W
    <3> PICK f \in S : f \in W
      BY <2>1, <2>5
    <3>1. Cardinality(W) = Cardinality(W \ {f}) + 1
      BY <1>1, CardDrop
    <3>2. W \ S \subseteq W \ {f} /\ W \ {f} \in SUBSET Chapters
      BY <1>1
    <3>3. Cardinality(W \ S) <= Cardinality(W \ {f}) /\ Cardinality(W \ {f}) \in Nat
      BY <3>2, CardUp
    <3> QED
      BY <1>2, <2>1, <2>2, <2>3, <2>5, <3>1, <3>3
  <2> QED
    BY <2>4, <2>5
<1> QED
  BY <1>3, <1>4 DEF Asked

LEMMA PlanFits ==
  ASSUME TaskAssumption, CInv, QInv, Kept, Steady, NEW w \in Workers, Plan(w)
  PROVE  QInv'
<1>1. /\ ~At(w, "idle") /\ worker[w].phase = "planning"
      /\ UNCHANGED <<chapter, candidate, wrote, overrun>>
  BY DEF Plan, At
<1> PICK t \in Tasks : t = worker[w].task /\ InCall(w, t)
  BY <1>1, InCallOf
<1>2. BookQuiet(w)
  BY <1>1, QuietSame
<1>3. /\ worker[w] \in WorkerType /\ task[t] \in TaskType /\ CallFits(worker[w], InCanon)
      /\ InCanon \in SUBSET Chapters /\ wrote[t] \in SUBSET Chapters
      /\ task[t].completed \in SUBSET Chapters /\ task[t].requested \in Nat
      /\ worker[w].phase \in Running
  BY <1>1, RunFacts, QTypes DEF Running, Opening
<1> PICK f : f = worker[w].resume
  OBVIOUS
<1> PICK n : n = Remaining(worker[w].seen)
  OBVIOUS
<1> PICK P : P = Pending(f)
  OBVIOUS
<1> PICK W : W = Workset(f, n)
  OBVIOUS
<1>a. PICK call : call = [worker[w] EXCEPT !.seen = {}, !.resume = 0]
  OBVIOUS
<1>b. PICK fail : fail = [worker[w] EXCEPT !.seen = {}, !.resume = 0, !.phase = "failing"]
  OBVIOUS
<1>c. PICK loop : loop = [worker[w] EXCEPT !.seen = {}, !.resume = 0, !.phase = "looping",
                                           !.todo = W]
  OBVIOUS
<1>d. PICK r : r = [task[t] EXCEPT !.status = "running"]
  OBVIOUS
<1>4. \/ UNCHANGED task /\ Become(w, fail)
      \/ UNCHANGED task /\ Become(w, Returned(call, "completed"))
      \/ ReturnCancelled(w, call)
      \/ /\ Holds(w) /\ Become(w, loop)
         /\ UNCHANGED task \/ task' = [task EXCEPT ![t] = r]
  <2>1. fail = [call EXCEPT !.phase = "failing"]
        /\ loop = [call EXCEPT !.phase = "looping", !.todo = W]
    BY <1>3, <1>a, <1>b, <1>c DEF WorkerType
  <2> QED
    BY <2>1, <1>a, <1>d DEF Plan, AbortRequested
<1>5. call \in WorkerType
  <2>1. 0 \in 0..(Book + 1)
    BY DEF TaskAssumption
  <2> QED
    BY <1>3, <1>a, <2>1 DEF WorkerType
<1>6. CASE UNCHANGED task /\ Become(w, fail)
  <2>1. fail.phase \notin Running
    BY <1>3, <1>b DEF WorkerType, Running, Opening, Drafting
  <2> QED
    BY <1>2, <1>6, <2>1, EditsNothing, Leaves
<1>7. CASE UNCHANGED task /\ Become(w, Returned(call, "completed"))
  BY <1>2, <1>5, <1>7, EditsNothing, ReturnedLeaves
<1>8. CASE ReturnCancelled(w, call)
  BY <1>2, <1>5, <1>8, CancelledLeaves
<1>9. CASE /\ Holds(w) /\ Become(w, loop)
           /\ UNCHANGED task \/ task' = [task EXCEPT ![t] = r]
  <2>1. /\ loop.phase = "looping" /\ loop.todo = W /\ loop.at = worker[w].at
        /\ loop.epoch = worker[w].epoch /\ loop.done = worker[w].done
        /\ loop.failed = worker[w].failed /\ loop.paused = worker[w].paused
    BY <1>3, <1>c DEF WorkerType
  <2>2. /\ worker[w].epoch >= 1 /\ worker[w].at = 0 /\ worker[w].done = {}
        /\ worker[w].failed = {} /\ worker[w].paused = {} /\ Before(f, InCanon)
    BY <1>1, <1>3 DEF CallFits, Opening
  <2>3. OwnsRow(w)
    BY <1>9 DEF Holds
  <2>4. /\ HolderFits(worker[w], task[t], wrote[t], InCanon, Redo)
        /\ Resumable(task[t], wrote[t], InCanon) /\ Asked(task[t], wrote[t], InCanon)
    BY <1>3, <2>3, HeldRow, OwnedRow
  <2>5. /\ ~task[t].deleted /\ task[t].status \notin Terminal
        /\ worker[w].seen = task[t].completed
        /\ \A d \in task[t].completed : d < f
        /\ Lags(wrote[t], task[t].completed, f \in Redo)
        /\ Cardinality(task[t].completed) < task[t].requested
    BY <1>1, <1>3, <2>4 DEF HolderFits, Opening
  <2>6. n \in Nat
    <3>1. CASE MaxChapters = 0
      BY <3>1 DEF Remaining
    <3>2. CASE MaxChapters # 0
      BY <1>3, <2>5, <3>2, RemainingFacts
    <3> QED
      BY <3>1, <3>2
  <2>7. /\ P \in SUBSET Chapters /\ W \in SUBSET P
        /\ n # 0 => Cardinality(W) <= n
        /\ \A c \in W, d \in P : d < c => d \in W
        /\ \A c \in P : (\A d \in P : c <= d) => c \in W
    BY <2>6, WorksetFacts
  <2>8. f \in Nat
    BY <1>3 DEF WorkerType, TaskAssumption
  <2>9. ASSUME NEW e \in W, NEW d \in Chapters, d < e PROVE d \in InCanon \cup W
    <3>1. CASE d < f
      BY <2>2, <3>1 DEF Before
    <3>2. CASE ~(d < f) /\ chapter[d] = "accepted"
      BY <3>2 DEF CInv, AcceptedIsCanon, InCanon
    <3>3. CASE ~(d < f) /\ chapter[d] # "accepted"
      <4>1. d >= f
        BY <2>8, <3>3 DEF Chapters
      <4>2. d \in P
        BY <3>3, <4>1 DEF Pending
      <4> QED
        BY <2>7, <2>9, <4>2
    <3> QED
      BY <3>1, <3>2, <3>3
  <2>10. CallFits(loop, InCanon)
    BY <2>1, <2>2, <2>9 DEF CallFits, Opening, Drafting, Before
  <2>11. f \in Redo => f \in InCanon /\ f \in W /\ \A e \in W : f <= e
    <3>1. SUFFICES ASSUME f \in Redo
                   PROVE  f \in InCanon /\ f \in W /\ \A e \in W : f <= e
      OBVIOUS
    <3>2. f \in InCanon /\ f \in Chapters /\ chapter[f] # "accepted"
      BY <1>3, <3>1 DEF Redo
    <3>3. f \in P /\ \A d \in P : f <= d
      <4>1. f >= f
        BY <2>8
      <4>2. f \in P /\ \A d \in P : d \in Nat /\ d >= f
        BY <3>2, <4>1 DEF Pending, Chapters
      <4> QED
        BY <2>8, <4>2
    <3> QED
      BY <2>7, <3>2, <3>3
  <2>12. Cardinality(wrote[t]) + Cardinality(W \ InCanon) <= task[t].requested
    <3>1. n = Remaining(task[t].completed)
      BY <2>5
    <3>2. f \in Redo => \E g \in InCanon : n # 0 => g \in W
      BY <2>11
    <3> PICK X \in SUBSET Chapters : X = wrote[t]
      BY <1>3
    <3> PICK C \in SUBSET Chapters : C = task[t].completed
      BY <1>3
    <3> PICK S \in SUBSET Chapters : S = InCanon
      BY <1>3
    <3> PICK row : row = task[t]
      OBVIOUS
    <3>3. /\ row.requested \in Nat /\ Asked(row, X, S) /\ Cardinality(C) < row.requested
          /\ n = Remaining(C)
          /\ \/ Cardinality(X) <= Cardinality(C)
             \/ /\ Cardinality(X) <= Cardinality(C) + 1
                /\ \E g \in S : n # 0 => g \in W
      BY <1>3, <2>4, <2>5, <3>1, <3>2 DEF Lags
    <3>4. Cardinality(X) + Cardinality(W \ S) <= row.requested
      BY <2>7, <3>3, WithinQuota
    <3> QED
      BY <3>4
  <2>13. HolderFits(loop, task[t], wrote[t], InCanon, Redo)
    <3>1. \A d \in task[t].completed, e \in W : d < e
      <4>1. \A d \in task[t].completed : d \in Nat /\ d < f
        BY <1>3, <2>5 DEF Chapters
      <4>2. \A e \in W : e \in Nat /\ e >= f
        BY <2>7 DEF Pending, Chapters
      <4> QED
        BY <2>8, <4>1, <4>2
    <3>2. Lags(wrote[t], task[t].completed, \E g \in W \cap Redo : \A e \in W : g <= e)
      BY <2>5, <2>11 DEF Lags
    <3> QED
      BY <2>1, <2>2, <2>5, <2>12, <3>1, <3>2 DEF HolderFits, Opening, Drafting
  <2>14. CASE UNCHANGED task
    BY <1>2, <1>9, <2>1, <2>10, <2>13, <2>14, EditsNothing, Continues DEF Drafting
  <2>15. CASE task' = [task EXCEPT ![t] = r]
    <3>1. /\ r.status = "running" /\ r.requested = task[t].requested
          /\ r.completed = task[t].completed /\ r.failed = task[t].failed
          /\ r.paused = task[t].paused /\ r.deleted = task[t].deleted
      BY <1>3, <1>d DEF TaskType
    <3>2. Resumable(r, wrote[t], InCanon)
      BY <2>4, <3>1 DEF Resumable
    <3>3. Edits(w, t)
      BY <1>3, <2>3, <2>15, <3>1, <3>2, RowEdited
    <3>4. task'[t] = r
      BY <2>15, RowIs
    <3>5. ~r.deleted /\ r.status \notin Terminal
      BY <2>5, <3>1 DEF Terminal
    <3>6. HolderFits(loop, r, wrote[t], InCanon, Redo)
      BY <2>13, <3>1, <3>5, HolderSameRow
    <3> QED
      BY <1>2, <1>9, <2>1, <2>10, <3>3, <3>4, <3>6, Continues DEF Drafting
  <2> QED
    BY <1>9, <2>14, <2>15
<1> QED
  BY <1>4, <1>6, <1>7, <1>8, <1>9

-----------------------------------------------------------------------------
(* The next chapter *)

\* The chapter begun is within the request: the room the run set out with.
LEMMA BeginsFits ==
  ASSUME TaskAssumption, CInv, QInv, Kept, Steady, NEW w \in Workers, NEW t \in Tasks,
         InCall(w, t), Holds(w), worker[w].phase = "looping",
         UNCHANGED <<chapter, candidate, wrote, overrun>>,
         NEW c \in worker[w].todo, \A e \in worker[w].todo : c <= e,
         NEW call, Progress(w, call, "running"), call.done = worker[w].done,
         call.failed = worker[w].failed, call.paused = worker[w].paused,
         NEW next, Become(w, next), next.phase = "writing", next.at = c,
         next.todo = worker[w].todo \ {c}, next.epoch = worker[w].epoch,
         next.done = worker[w].done, next.failed = worker[w].failed,
         next.paused = worker[w].paused
  PROVE  QInv'
<1> PICK S : S = InCanon
  OBVIOUS
<1> PICK X : X = wrote[t]
  OBVIOUS
<1> PICK C : C = task[t].completed
  OBVIOUS
<1> PICK T : T = worker[w].todo
  OBVIOUS
<1>1. /\ worker[w] \in WorkerType /\ task[t] \in TaskType /\ CallFits(worker[w], S)
      /\ S \in SUBSET Chapters /\ X \in SUBSET Chapters /\ C \in SUBSET Chapters
      /\ T \in SUBSET Chapters /\ c \in Chapters /\ task[t].requested \in Nat
      /\ worker[w].phase \in Running /\ OwnsRow(w)
  BY RunFacts, QTypes DEF WorkerType, Running, Holds
<1>2. /\ worker[w].epoch >= 1 /\ worker[w].failed = {} /\ worker[w].paused = {}
      /\ \A e \in T : Before(e, S \cup T)
  BY <1>1 DEF CallFits
<1>3. /\ Active(t) /\ Resumable(task[t], X, S)
      /\ HolderFits(worker[w], task[t], X, S, Redo)
  BY <1>1, HeldRow
<1>4. /\ ~task[t].deleted /\ task[t].status \notin Terminal
      /\ worker[w].done \subseteq C
      /\ \A d \in C, e \in T : d < e
      /\ Cardinality(X) + Cardinality(T \ S) <= task[t].requested
      /\ Lags(X, C, \E g \in T \cap Redo : \A e \in T : g <= e)
  BY <1>1, <1>3 DEF HolderFits
<1> PICK r : r = Stamped(task[t], call, "running")
  OBVIOUS
<1>5. /\ r.status = "running" /\ r.requested = task[t].requested
      /\ r.completed = C /\ r.failed = {} /\ r.paused = {} /\ r.deleted = task[t].deleted
  <2>1. /\ r.status = "running" /\ r.requested = task[t].requested
        /\ r.completed = task[t].completed \cup call.done
        /\ r.failed = call.failed /\ r.paused = call.paused
        /\ r.deleted = task[t].deleted
    BY <1>1, StampedIs
  <2> QED
    BY <1>2, <1>4, <2>1
<1>6. Lags(X, C, c \in S)
  <2>1. ASSUME NEW g \in T \cap Redo, \A e \in T : g <= e PROVE c \in S
    <3>1. g <= c /\ c <= g /\ g \in Nat /\ c \in Nat
      BY <1>1, <2>1 DEF Chapters
    <3>2. g = c
      BY <3>1
    <3> QED
      BY <3>2 DEF Redo
  <2> QED
    BY <1>4, <2>1 DEF Lags
<1>7. Resumable(r, X, S)
  <2>1. c \in S => \E u \in S : \A d \in C : d < u
    BY <1>4
  <2> QED
    BY <1>5, <1>6, <2>1 DEF Resumable, Lags
<1>8. Edits(w, t) /\ task'[t] = r
  BY <1>1, <1>7, ProgressGoesOn
<1>9. \A v \in Workers : worker'[v] = IF v = w THEN next ELSE worker[v]
  BY QTypes DEF Become, TypeOK
<1>10. InCanon' = S /\ Redo' = Redo
  BY BookSame DEF Redo
<1>11. CallFits(next, S)
  <2>1. Before(c, S)
    <3>1. SUFFICES ASSUME NEW d \in Chapters, d < c PROVE d \in S
      BY DEF Before
    <3>2. d \in S \cup T
      BY <1>2, <3>1 DEF Before
    <3>3. d \notin T
      BY <1>1, <3>1 DEF Chapters
    <3> QED
      BY <3>2, <3>3
  <2>2. ASSUME NEW e \in T \ {c} PROVE c < e /\ Before(e, S \cup (T \ {c}) \cup {c})
    <3>1. c \in Nat /\ e \in Nat /\ c <= e /\ e # c
      BY <1>1, <2>2 DEF Chapters
    <3>2. S \cup (T \ {c}) \cup {c} = S \cup T
      OBVIOUS
    <3> QED
      BY <1>2, <3>1, <3>2
  <2> QED
    BY <1>2, <2>1, <2>2 DEF CallFits, Opening, Drafting
<1>12. HolderFits(next, r, X, S, Redo)
  <2>1. (T \ {c}) \cup {c} = T
    OBVIOUS
  <2>2. Cardinality(X) + Cardinality((next.todo \cup {next.at}) \ S) <= r.requested
    BY <1>4, <1>5, <2>1
  <2>3. ~r.deleted /\ r.status \notin Terminal
    BY <1>4, <1>5 DEF Terminal
  <2>4. \A d \in C : d < c
    BY <1>4
  <2> QED
    BY <1>4, <1>5, <1>6, <2>2, <2>3, <2>4 DEF HolderFits, Opening, Drafting
<1>13. Room'
  <2>1. SUFFICES ASSUME NEW s \in Tasks, NEW d \in Chapters, Active(s)', Open(d)'
                 PROVE  Cardinality(wrote[s]) < task'[s].requested
    BY DEF Room
  <2>2. s = t
    <3>1. Active(s)
      BY <1>8, <2>1 DEF Edits, Active
    <3> QED
      BY <1>3, <3>1 DEF QInv, OneActive
  <2>3. CASE Open(d)
    BY <1>3, <1>5, <1>8, <2>2, <2>3 DEF QInv, Room
  <2>4. CASE d = c /\ c \notin S
    <3>1. c \in T \ S /\ T \ S \in SUBSET Chapters
      BY <1>1, <2>4
    <3>2. Cardinality(T \ S) = Cardinality((T \ S) \ {c}) + 1
      BY <3>1, CardDrop
    <3>3. (T \ S) \ {c} \in SUBSET Chapters
      BY <3>1
    <3>4. Cardinality(X) \in Nat /\ Cardinality((T \ S) \ {c}) \in Nat
      BY <1>1, <3>3, CardUp
    <3>5. Cardinality(X) < task[t].requested
      BY <1>1, <1>4, <3>2, <3>4
    <3> QED
      BY <1>5, <1>8, <2>2, <3>5
  <2>5. Open(d) \/ (d = c /\ c \notin S)
    <3>1. d \notin S
      BY <1>10, <2>1 DEF Open
    <3>2. \A v \in Workers : Writes(v, d)' => Writes(v, d) \/ d = c
      BY <1>9 DEF Writes
    <3> QED
      BY <2>1, <3>1, <3>2 DEF Open
  <2> QED
    BY <2>3, <2>4, <2>5
<1>14. DraftsFit'
  BY <1>10 DEF QInv, DraftsFit
<1>15. Acts(w, t)
  BY <1>8, <1>9 DEF Acts, Edits
<1>16. RowFits(task'[t], wrote'[t], InCanon') /\ (Active(t)' => Active(t))
  BY <1>8, <1>10 DEF Edits
<1>17. \A d \in InCanon : chapter'[d] = "accepted" => chapter[d] = "accepted"
  OBVIOUS
<1>18. worker'[w] = next /\ wrote'[t] = X /\ task'[t] = r
  BY <1>8, <1>9
<1> QED
  BY <1>10, <1>11, <1>12, <1>13, <1>14, <1>15, <1>16, <1>17, <1>18, ActFits

LEMMA NextChapterFits ==
  ASSUME TaskAssumption, CInv, QInv, Kept, Steady, NEW w \in Workers, NextChapter(w)
  PROVE  QInv'
<1>1. /\ ~At(w, "idle") /\ worker[w].phase = "looping"
      /\ UNCHANGED <<chapter, candidate, wrote, overrun>>
  BY DEF NextChapter, At
<1> PICK t \in Tasks : t = worker[w].task /\ InCall(w, t)
  BY <1>1, InCallOf
<1>2. BookQuiet(w)
  BY <1>1, QuietSame
<1>3. /\ worker[w] \in WorkerType /\ CallFits(worker[w], InCanon)
      /\ worker[w].todo \in SUBSET Chapters /\ InCanon \in SUBSET Chapters
      /\ wrote[t] \in SUBSET Chapters /\ task[t].requested \in Nat
      /\ worker[w].phase \in Running
  BY <1>1, RunFacts, QTypes DEF WorkerType, Running
<1>4. CASE worker[w].todo = {}
  <2>1. UNCHANGED task /\ Become(w, Returned(worker[w], ResultStatus(worker[w])))
    BY <1>4 DEF NextChapter
  <2> QED
    BY <1>2, <1>3, <2>1, EditsNothing, ReturnedLeaves
<1>5. CASE worker[w].todo # {}
  <2>1. Min(worker[w].todo) \in worker[w].todo
        /\ \A e \in worker[w].todo : Min(worker[w].todo) <= e
    <3>1. Book \in Nat /\ worker[w].todo \in SUBSET (0..Book)
      BY <1>3 DEF TaskAssumption, Chapters
    <3> QED
      BY <1>5, <3>1, MinOfBounded
  <2> PICK c \in worker[w].todo :
        c = Min(worker[w].todo) /\ \A e \in worker[w].todo : c <= e
    BY <2>1
  <2>a. PICK call : call = [worker[w] EXCEPT !.todo = @ \ {c}]
    OBVIOUS
  <2>b. PICK blocked : blocked = [worker[w] EXCEPT !.paused = @ \cup {c}]
    OBVIOUS
  <2>c. PICK next : next = [call EXCEPT !.phase = "writing", !.at = c]
    OBVIOUS
  <2>2. /\ Holds(w)
        /\ \/ /\ Progress(w, blocked, "needs_review")
              /\ Become(w, Returned(blocked, ResultStatus(blocked)))
           \/ ReturnPaused(w, blocked)
           \/ Become(w, [worker[w] EXCEPT !.phase = "failing"]) /\ UNCHANGED task
           \/ chapter[c] = "accepted" /\ Become(w, call) /\ UNCHANGED task
           \/ /\ Progress(w, call, "running") /\ Become(w, next)
    BY <1>5, <2>a, <2>b, <2>c DEF NextChapter, StopRequested, AbortRequested
  <2>3. blocked \in WorkerType
    BY <1>3, <2>b DEF WorkerType
  <2>4. /\ call.phase = "looping" /\ call.todo = worker[w].todo \ {c}
        /\ call.at = worker[w].at /\ call.epoch = worker[w].epoch
        /\ call.done = worker[w].done /\ call.failed = worker[w].failed
        /\ call.paused = worker[w].paused
    BY <1>1, <1>3, <2>a DEF WorkerType
  <2>5. CASE /\ Progress(w, blocked, "needs_review")
             /\ Become(w, Returned(blocked, ResultStatus(blocked)))
    <3>1. "needs_review" \in Terminal
      BY DEF Terminal
    <3> QED
      BY <1>2, <2>3, <2>5, <3>1, StopsLeave
  <2>6. CASE ReturnPaused(w, blocked)
    BY <1>2, <2>3, <2>6, PausedLeaves
  <2>7. CASE chapter[c] = "accepted" /\ Become(w, call) /\ UNCHANGED task
    <3>1. c \in InCanon /\ c \notin Redo
      BY <1>3, <2>7 DEF CInv, AcceptedIsCanon, InCanon, Redo
    <3>2. CallFits(call, InCanon)
      <4>1. /\ worker[w].epoch >= 1 /\ worker[w].failed = {} /\ worker[w].paused = {}
            /\ worker[w].at = 0
            /\ \A e \in worker[w].todo : Before(e, InCanon \cup worker[w].todo)
        BY <1>1, <1>3 DEF CallFits
      <4>2. InCanon \cup worker[w].todo = InCanon \cup (worker[w].todo \ {c})
        BY <3>1
      <4> QED
        BY <2>4, <4>1, <4>2 DEF CallFits, Opening, Drafting
    <3>3. ASSUME OwnsRow(w) PROVE HolderFits(call, task[t], wrote[t], InCanon, Redo)
      <4>1. HolderFits(worker[w], task[t], wrote[t], InCanon, Redo)
        BY <1>3, <3>3, HeldRow
      <4>2. /\ ~task[t].deleted /\ task[t].status \notin Terminal
            /\ worker[w].done \subseteq task[t].completed
            /\ \A d \in task[t].completed, e \in worker[w].todo : d < e
            /\ Cardinality(wrote[t]) + Cardinality(worker[w].todo \ InCanon)
                  <= task[t].requested
            /\ Lags(wrote[t], task[t].completed,
                    \E g \in worker[w].todo \cap Redo : \A e \in worker[w].todo : g <= e)
        BY <1>1, <1>3, <4>1 DEF HolderFits
      <4>3. Cardinality(wrote[t]) + Cardinality(call.todo \ InCanon) <= task[t].requested
        <5>1. worker[w].todo \ InCanon = call.todo \ InCanon
          BY <2>4, <3>1
        <5>2. Cardinality(worker[w].todo \ InCanon) = Cardinality(call.todo \ InCanon)
          BY <5>1
        <5> QED
          BY <4>2, <5>2
      <4>4. Lags(wrote[t], task[t].completed,
                 \E g \in call.todo \cap Redo : \A e \in call.todo : g <= e)
        <5>1. (\E g \in worker[w].todo \cap Redo : \A e \in worker[w].todo : g <= e)
                 => \E g \in call.todo \cap Redo : \A e \in call.todo : g <= e
          BY <2>4, <3>1
        <5> QED
          BY <4>2, <5>1 DEF Lags
      <4>5. call.done \subseteq task[t].completed
            /\ \A d \in task[t].completed, e \in call.todo : d < e
        BY <2>4, <4>2
      <4> QED
        BY <2>4, <4>2, <4>3, <4>4, <4>5 DEF HolderFits, Opening, Drafting
    <3> QED
      BY <1>1, <2>4, <2>7, <3>2, <3>3, CallMoves DEF Drafting
  <2>8. CASE Progress(w, call, "running") /\ Become(w, next)
    <3>1. /\ next.phase = "writing" /\ next.at = c /\ next.todo = worker[w].todo \ {c}
          /\ next.epoch = worker[w].epoch /\ next.done = worker[w].done
          /\ next.failed = worker[w].failed /\ next.paused = worker[w].paused
      BY <1>3, <2>a, <2>c DEF WorkerType
    <3> QED
      BY <1>1, <2>2, <2>4, <2>8, <3>1, BeginsFits
  <2>9. CASE Become(w, [worker[w] EXCEPT !.phase = "failing"]) /\ UNCHANGED task
    BY <1>2, <2>9, EditsNothing, PhaseLeaves
  <2> QED
    BY <2>2, <2>5, <2>6, <2>7, <2>8, <2>9
<1> QED
  BY <1>4, <1>5

-----------------------------------------------------------------------------
(* No step absolves a row *)

Condemned(t) == task[t].condemned
Absolves == \E t \in Tasks : Condemned(t) /\ ~Condemned(t)'

LEMMA RowStaysCondemned ==
  ASSUME TypeOK, NEW t, NEW r, task' = [task EXCEPT ![t] = r],
         t \in Tasks /\ Condemned(t) => r.condemned
  PROVE  ~Absolves
<1>1. \A s \in Tasks : task'[s] = IF s = t THEN r ELSE task[s]
  BY DEF TypeOK
<1> QED
  BY <1>1 DEF Absolves, Condemned

LEMMA StatusAbsolvesNone ==
  ASSUME TypeOK, NEW t \in Tasks, NEW status, task' = [task EXCEPT ![t].status = status]
  PROVE  ~Absolves
<1>1. PICK r : r = [task[t] EXCEPT !.status = status]
  OBVIOUS
<1>2. task' = [task EXCEPT ![t] = r]
  BY <1>1
<1>3. task[t] \in TaskType
  BY DEF TypeOK
<1>4. r.condemned = task[t].condemned
  BY <1>1, <1>3 DEF TaskType
<1> QED
  BY <1>2, <1>4, RowStaysCondemned DEF Condemned

LEMMA ProgressAbsolvesNone ==
  ASSUME TypeOK, NEW w \in Workers, worker[w].task \in Tasks, NEW call, NEW status,
         Progress(w, call, status)
  PROVE  ~Absolves
<1>1. PICK t \in Tasks : t = worker[w].task
  OBVIOUS
<1>2. PICK r : r = Stamped(task[t], call, status)
  OBVIOUS
<1>3. UNCHANGED task \/ task' = [task EXCEPT ![t] = r]
  BY <1>1, <1>2 DEF Progress
<1>4. task[t] \in TaskType
  BY DEF TypeOK
<1>5. r.condemned = task[t].condemned
  BY <1>2, <1>4 DEF Stamped, TaskType
<1>6. CASE UNCHANGED task
  BY <1>6 DEF Absolves, Condemned
<1> QED
  BY <1>3, <1>5, <1>6, RowStaysCondemned DEF Condemned

LEMMA RequestAbsolvesNone ==
  ASSUME TypeOK, NEW t \in Tasks,
         Enqueue(t) \/ Terminate(t) \/ Pause(t) \/ Delete(t) \/ Expire(t)
  PROVE  ~Absolves
<1>1. task[t] \in TaskType
  BY DEF TypeOK
<1>2. \E r : task' = [task EXCEPT ![t] = r] /\ r.condemned = task[t].condemned
  <2>1. CASE Enqueue(t)
    <3>1. PICK r : r = [task[t] EXCEPT !.status = "queued",
                                       !.requested = Cardinality(Workset(1, MaxChapters))]
      OBVIOUS
    <3>2. task' = [task EXCEPT ![t] = r]
      BY <2>1, <3>1 DEF Enqueue
    <3>3. r.condemned = task[t].condemned
      BY <1>1, <3>1 DEF TaskType
    <3> QED
      BY <3>2, <3>3
  <2>2. CASE Terminate(t)
    <3>1. PICK r : r = [task[t] EXCEPT !.cancel = TRUE,
                          !.status = IF @ = "queued" THEN "cancelled" ELSE "terminating"]
      OBVIOUS
    <3>2. task' = [task EXCEPT ![t] = r]
      BY <2>2, <3>1 DEF Terminate
    <3>3. r.condemned = task[t].condemned
      BY <1>1, <3>1 DEF TaskType
    <3> QED
      BY <3>2, <3>3
  <2>3. CASE Pause(t)
    <3>1. PICK r : r = [task[t] EXCEPT !.pause = TRUE,
                          !.status = IF @ = "queued" THEN "paused" ELSE @,
                          !.live = @ \/ task[t].status = "running"]
      OBVIOUS
    <3>2. task' = [task EXCEPT ![t] = r]
      <4>1. task' = [task EXCEPT ![t] =
               [task[t] EXCEPT !.pause = TRUE,
                               !.status = IF @ = "queued" THEN "paused" ELSE @,
                               !.live = @ \/ task[t].status = "running"]]
        BY <2>3, <1>1 DEF Pause
      <4> QED
        BY <3>1, <4>1
    <3>3. r.condemned = task[t].condemned
      BY <1>1, <3>1 DEF TaskType
    <3> QED
      BY <3>2, <3>3
  <2>4. CASE Delete(t)
    <3>1. PICK r : r = [task[t] EXCEPT !.deleted = TRUE]
      OBVIOUS
    <3>2. task' = [task EXCEPT ![t] = r]
      BY <2>4, <3>1 DEF Delete
    <3>3. r.condemned = task[t].condemned
      BY <1>1, <3>1 DEF TaskType
    <3> QED
      BY <3>2, <3>3
  <2>5. CASE Expire(t)
    <3>1. PICK r : r = [task[t] EXCEPT !.live = FALSE]
      OBVIOUS
    <3>2. task' = [task EXCEPT ![t] = r]
      BY <2>5, <3>1 DEF Expire
    <3>3. r.condemned = task[t].condemned
      BY <1>1, <3>1 DEF TaskType
    <3> QED
      BY <3>2, <3>3
  <2> QED
    BY <2>1, <2>2, <2>3, <2>4, <2>5
<1> QED
  BY <1>2, RowStaysCondemned DEF Condemned

LEMMA ClaimAbsolvesNone ==
  ASSUME TypeOK, NEW w \in Workers, Claim(w) \/ Heartbeat(w) PROVE ~Absolves
<1>1. UNCHANGED task \/ \E t, r : /\ task' = [task EXCEPT ![t] = r]
                                  /\ t \in Tasks => r.condemned = task[t].condemned
  <2>1. CASE Claim(w)
    <3>1. PICK t \in Tasks : task' = [task EXCEPT ![t] =
              [task[t] EXCEPT !.status = "running", !.owner = Name[w],
                              !.epoch = task[t].epoch + 1, !.live = TRUE]]
      BY <2>1 DEF Claim
    <3>2. PICK r : r = [task[t] EXCEPT !.status = "running", !.owner = Name[w],
                                       !.epoch = task[t].epoch + 1, !.live = TRUE]
      OBVIOUS
    <3>3. task[t] \in TaskType
      BY DEF TypeOK
    <3>4. r.condemned = task[t].condemned
      BY <3>2, <3>3 DEF TaskType
    <3> QED
      BY <3>1, <3>2, <3>4
  <2>2. CASE Heartbeat(w) /\ task' # task
    <3>1. PICK t : t = worker[w].task
      OBVIOUS
    <3>2. PICK r : r = [task[t] EXCEPT !.live = TRUE]
      OBVIOUS
    <3>3. task' = [task EXCEPT ![t] = r]
      BY <2>2, <3>1, <3>2 DEF Heartbeat
    <3>4. ASSUME t \in Tasks PROVE r.condemned = task[t].condemned
      <4>1. task[t] \in TaskType
        BY <3>4 DEF TypeOK
      <4> QED
        BY <3>2, <4>1 DEF TaskType
    <3> QED
      BY <3>3, <3>4
  <2> QED
    BY <2>1, <2>2
<1>2. CASE UNCHANGED task
  BY <1>2 DEF Absolves, Condemned
<1> QED
  BY <1>1, <1>2, RowStaysCondemned DEF Condemned

LEMMA RunAbsolvesNone ==
  ASSUME CInv, NEW w \in Workers, Run(w) \/ Crash(w) PROVE ~Absolves
<1>1. ~At(w, "idle")
  BY DEF Run, Crash, At, Acknowledge, ReadCandidate, Replay, Credit, Start, Plan, Checkpoint,
         NextChapter, Write, GateStops, ChapterBlocked, Prepare, Repair, Admit, Reject,
         Conclude, ChapterFails, Finish, Report, Fail, Raise, Condemn
<1> PICK t \in Tasks : t = worker[w].task /\ InCall(w, t)
  BY <1>1, InCallOf
<1>2. TypeOK /\ task[t] \in TaskType
  BY QTypes
<1>3. CASE UNCHANGED task
  BY <1>3 DEF Absolves, Condemned
<1>4. CASE \E call, status : Progress(w, call, status)
  BY <1>2, <1>4, ProgressAbsolvesNone
<1>5. CASE \E status : task' = [task EXCEPT ![t].status = status]
  BY <1>2, <1>5, StatusAbsolvesNone
<1>6. CASE Credit(w) /\ task' # task
  <2>1. PICK r : r = [task[t] EXCEPT !.completed = worker[w].seen \cup {worker[w].at},
                                     !.failed = @ \ {worker[w].at},
                                     !.paused = @ \ {worker[w].at}]
    OBVIOUS
  <2>2. task' = [task EXCEPT ![t] = r]
    BY <1>6, <2>1 DEF Credit
  <2>3. r.condemned = task[t].condemned
    BY <1>2, <2>1 DEF TaskType
  <2> QED
    BY <1>2, <2>2, <2>3, RowStaysCondemned DEF Condemned
<1>7. CASE Start(w) /\ task' # task
  <2>1. PICK r : r = [task[t] EXCEPT !.status = "completed",
                                     !.completed = @ \cup worker[w].seen]
    OBVIOUS
  <2>2. r.condemned = task[t].condemned
    BY <1>2, <2>1 DEF TaskType
  <2>3. \/ task' = [task EXCEPT ![t] = r]
        \/ task' = [task EXCEPT ![t].status = "running"]
    BY <1>7, <2>1 DEF Start
  <2> QED
    BY <1>2, <1>5, <2>2, <2>3, RowStaysCondemned DEF Condemned
<1>8. CASE Condemn(w)
  <2> DEFINE lost == task[t].condemned \/ ~OwnsRow(w)
  <2>1. PICK r : r = [task[t] EXCEPT !.status = "failed", !.condemned = lost]
    OBVIOUS
  <2>2. task' = [task EXCEPT ![t] = r]
    BY <1>8, <2>1 DEF Condemn
  <2>3. r.condemned = lost
    BY <1>2, <2>1 DEF TaskType
  <2>4. Condemned(t) => r.condemned
    BY <2>3 DEF Condemned
  <2> QED
    BY <1>2, <2>2, <2>4, RowStaysCondemned
<1>9. CASE Acknowledge(w) \/ Fail(w)
  BY <1>3, <1>5, <1>9 DEF Acknowledge, Fail
<1>10. CASE \/ ReadCandidate(w) \/ Replay(w) \/ Admit(w) \/ Repair(w)
            \/ Report(w) \/ Raise(w) \/ Crash(w)
  BY <1>3, <1>10 DEF ReadCandidate, Replay, Admit, CommitPlan, Repair, Report, Raise, Crash
<1>11. CASE Plan(w)
  BY <1>3, <1>4, <1>5, <1>11 DEF Plan, ReturnCancelled
<1>12. CASE Checkpoint(w) \/ NextChapter(w) \/ Write(w) \/ Conclude(w) \/ ChapterFails(w)
  <2>1. UNCHANGED task \/ \E call, status : Progress(w, call, status)
    BY <1>12 DEF Checkpoint, NextChapter, Write, Conclude, ChapterFails, ReturnPaused,
                 ReturnCancelled
  <2> QED
    BY <1>3, <1>4, <2>1
<1>13. CASE GateStops(w) \/ ChapterBlocked(w) \/ Prepare(w) \/ Reject(w) \/ Finish(w)
  <2>1. UNCHANGED task \/ \E call, status : Progress(w, call, status)
    BY <1>13 DEF GateStops, ChapterBlocked, Prepare, Reject, Finish
  <2> QED
    BY <1>3, <1>4, <2>1
<1> QED
  BY <1>3, <1>6, <1>7, <1>8, <1>9, <1>10, <1>11, <1>12, <1>13 DEF Run

LEMMA CondemnedStays ==
  ASSUME CInv, [Next]_vars, NoneCondemned' PROVE NoneCondemned
<1>1. TypeOK
  BY CInvFacts
<1>2. ~Absolves
  <2>1. CASE UNCHANGED vars
    BY <2>1 DEF vars, Absolves, Condemned
  <2>2. CASE Next
    BY <1>1, <2>2, RequestAbsolvesNone, ClaimAbsolvesNone, RunAbsolvesNone DEF Next
  <2> QED
    BY <2>1, <2>2
<1> QED
  BY <1>2 DEF Absolves, Condemned, NoneCondemned

-----------------------------------------------------------------------------
(* The request is kept *)

LEMMA RunFits ==
  ASSUME TaskAssumption, CInv, QInv, Kept, Steady, NEW w \in Workers, Run(w), NoneCondemned'
  PROVE  QInv'
BY AcknowledgeFits, ReadCandidateFits, ReplayFits, CreditFits, StartFits, PlanFits,
   CheckpointFits, NextChapterFits, WriteFits, GateStopsFits, ChapterBlockedFits,
   PrepareFits, RepairFits, AdmitFits, RejectFits, ConcludeFits, ChapterFailsFits,
   FinishFits, EndFits, CondemnFits DEF Run

LEMMA RequestFits ==
  ASSUME TaskAssumption, CInv, QInv, Kept, Steady, NEW t \in Tasks,
         Enqueue(t) \/ Terminate(t) \/ Pause(t) \/ Delete(t) \/ Expire(t)
  PROVE  QInv'
<1>1. CASE Expire(t)
  <2>1. /\ UNCHANGED <<worker, chapter, candidate, wrote, overrun>>
        /\ task' = [task EXCEPT ![t].live = FALSE]
    BY <1>1 DEF Expire
  <2> QED
    BY <2>1, LeaseFits
<1> QED
  BY <1>1, EnqueueFits, TerminateFits, PauseFits, DeleteFits

LEMMA AbsentFits ==
  ASSUME NEW row, NEW X, NEW S, X = {}, row.status = "absent", row.epoch = 0,
         row.requested = 0, row.failed = {}, row.paused = {}, row.completed = {}
  PROVE  RowFits(row, X, S)
<1>1. Cardinality({}) = 0
  BY FS_EmptySet
<1>2. Cardinality(X) = 0 /\ Cardinality(row.completed) = 0
  BY <1>1
<1>3. Lags(X, row.completed, /\ row.failed \subseteq S
                             /\ \E u \in S : \A d \in row.completed : d < u)
  BY <1>2 DEF Lags
<1>4. Resumable(row, X, S)
  BY <1>3 DEF Resumable
<1>5. Cardinality(X) <= row.requested
  BY <1>2
<1> QED
  BY <1>4, <1>5 DEF RowFits

LEMMA InitQInv == ASSUME TaskAssumption, Init PROVE QInv
<1>1. \A w \in Workers : worker[w] = Idle
  BY DEF Init
<1>2. /\ \A c \in Chapters : candidate[c] = <<>>
      /\ \A t \in Tasks : /\ wrote[t] = {} /\ task[t].status = "absent"
                          /\ task[t].epoch = 0 /\ task[t].requested = 0
                          /\ task[t].failed = {} /\ task[t].paused = {}
  BY DEF Init
<1>3. ASSUME NEW t \in Tasks PROVE RowFits(task[t], wrote[t], InCanon)
  <2>1. task[t].completed = {}
    BY DEF Init
  <2> QED
    BY <1>2, <2>1, AbsentFits
<1>4. RowsFit
  BY <1>3 DEF RowsFit
<1>5. \A t \in Tasks : ~Active(t)
  BY <1>2 DEF Active
<1>6. CallsFit
  BY <1>1 DEF CallsFit, Fits, At, Idle
<1>7. DraftsFit
  BY <1>2 DEF DraftsFit
<1> QED
  BY <1>4, <1>5, <1>6, <1>7 DEF QInv, OneActive, Room

LEMMA NextQInv ==
  ASSUME TaskAssumption, CInv, QInv, [Next]_vars, NoneCondemned' PROVE QInv'
<1>1. ASSUME NEW t \in Tasks,
             Enqueue(t) \/ Terminate(t) \/ Pause(t) \/ Delete(t) \/ Expire(t)
      PROVE  QInv'
  <2>1. Kept /\ Steady
    BY <1>1, EnqueueKeeps, TerminateKeeps, PauseKeeps, DeleteKeeps, ExpireKeeps,
       RequestSteady DEF CInv
  <2> QED
    BY <1>1, <2>1, RequestFits
<1>2. ASSUME NEW w \in Workers, Claim(w) PROVE QInv'
  BY <1>2, ClaimFits
<1>3. ASSUME NEW w \in Workers, Heartbeat(w) \/ Run(w) \/ Crash(w) PROVE QInv'
  <2>1. Kept /\ Steady
    BY <1>3, HeartbeatKeeps, RunKeeps, CrashKeeps, HeartbeatSteady, RunSteady,
       EndSteady DEF CInv
  <2> QED
    BY <1>3, <2>1, HeartbeatFits, RunFits, EndFits
<1>4. CASE UNCHANGED vars
  <2>1. UNCHANGED <<task, worker, chapter, candidate, wrote, overrun>>
    BY <1>4 DEF vars
  <2>2. InCanon' = InCanon /\ Redo' = Redo
    BY <2>1, BookSame DEF Redo
  <2>3. /\ \A t \in Tasks : Active(t)' <=> Active(t)
        /\ \A c \in Chapters : Open(c)' <=> Open(c)
    BY <2>1, <2>2 DEF Active, Open, Writes
  <2>4. \A w \in Workers : Fits(w)' <=> Fits(w)
    BY <2>1, <2>2 DEF Fits, At, OwnsRow
  <2> QED
    BY <2>1, <2>2, <2>3, <2>4 DEF QInv, RowsFit, OneActive, CallsFit, DraftsFit, Room
<1> QED
  BY <1>1, <1>2, <1>3, <1>4 DEF Next

\* As long as no row was failed by a call that had lost it, no task writes more
\* chapters into canon than it was asked for: what a run sets out to write fits the
\* request, a commit that was not credited is found by the recovery, and one task
\* at a time writes.
THEOREM QuotaKept == Spec => []WithinRequest
<1>1. Init => CInv /\ (NoneCondemned => QInv)
  BY TaskAssumption, InitCInv, InitQInv
<1>2. CInv /\ (NoneCondemned => QInv) /\ [Next]_vars
         => (CInv /\ (NoneCondemned => QInv))'
  BY TaskAssumption, NextCInv, CondemnedStays, NextQInv
<1>3. CInv /\ (NoneCondemned => QInv) => WithinRequest
  <2>1. QInv => \A t \in Tasks : Cardinality(wrote[t]) <= task[t].requested
    BY DEF QInv, RowsFit, RowFits
  <2> QED
    BY <2>1 DEF NoneCondemned, WithinRequest
<1> QED
  BY <1>1, <1>2, <1>3, PTL DEF Spec
=============================================================================
