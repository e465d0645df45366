-------------------------- MODULE PostCanonProofs --------------------------
(***************************************************************************)
(* Theorems about PostCanon, for every book, division into bands, number   *)
(* of workers of either kind, naming of them and bound.                    *)
(***************************************************************************)
EXTENDS PostCanon, Extrema, SequenceTheorems, TLAPS

(* The inductive invariant *)

\* Step s of chapter c has succeeded in the rows r.
Done(r, c, s) == r[c][s].status = "succeeded"

\* The rows: a lease belongs to a running step, epochs count the claims, a result
\* is the last claim's, and steps succeed in order.
RowsOK ==
    /\ run \in [Chapters -> [Steps -> RunType]]
    /\ \A c \in Chapters, s \in Steps :
          /\ run[c][s].live => run[c][s].status = "running"
          /\ run[c][s].epoch <= reclaims + 1
          /\ Done(run, c, s) => run[c][s].by = run[c][s].epoch
          /\ Done(run, c, s) => \A q \in Steps : q < s => Done(run, c, q)

\* What a call knows of the rows r when n chapters are in canon: the chapter it
\* works on is in canon, the steps before its own succeeded, all three once it is
\* past them, and an event's call never turns to another chapter.
Sound(call, r, n) ==
    call.phase # "idle" =>
        /\ call.chapter \in 1..call.goal /\ call.goal <= n
        /\ call.kind = "event" => ~call.first /\ call.chapter = call.goal
        /\ call.phase = "acking" => call.kind = "event"
        /\ call.phase = "checking" => call.step = 1
        /\ call.phase \in {"claiming", "starting", "working", "failing"} =>
              \A s \in Steps : s < call.step => Done(r, call.chapter, s)
        /\ call.phase \in {"acking", "ordering", "recording", "asserting"} =>
              call.step = 1 /\ \A s \in Steps : Done(r, call.chapter, s)

CallsOK ==
    /\ worker \in [Workers -> WorkerType]
    /\ \A w \in Workers : Sound(worker[w], run, canon)

\* The controls name checkpoints that exist.
PlansOK ==
    /\ controls \in [Chapters -> ControlsType]
    /\ checkpoint \in Seq(CheckpointType)
    /\ \A c \in Chapters : controls[c].auto <= Len(checkpoint)

\* The chapters behind the last one are maintained and controlled, the ones not
\* yet in canon are untouched, and controls and acknowledgements follow the steps.
BookOK ==
    /\ canon \in 0..Book
    /\ acked \subseteq Chapters
    /\ \A c \in acked, s \in Steps : Done(run, c, s)
    /\ \A c \in Chapters :
          /\ controls[c].status = "succeeded" => \A s \in Steps : Done(run, c, s)
          /\ c < canon => controls[c].status = "succeeded"
          /\ c > canon => controls[c].status # "succeeded" /\ \A s \in Steps : ~Done(run, c, s)

CountersOK == reclaims \in 0..MaxReclaims /\ crashes \in 0..MaxCrashes

IInv == RowsOK /\ CallsOK /\ PlansOK /\ BookOK /\ CountersOK

\* Type correctness is a consequence of the inductive invariant.
LEMMA InvariantTypes == ASSUME IInv PROVE TypeOK
BY DEF IInv, RowsOK, CallsOK, PlansOK, BookOK, CountersOK, TypeOK

-----------------------------------------------------------------------------
(* What a step keeps *)

\* Steps that succeeded stay so.
Grows == \A c \in Chapters, s \in Steps : Done(run, c, s) => Done(run', c, s)

\* No step of a chapter succeeds that had not.
RunKept == \A c \in Chapters, s \in Steps : Done(run', c, s) <=> Done(run, c, s)

ControlsKept ==
    \A c \in Chapters : (controls'[c].status = "succeeded") <=> (controls[c].status = "succeeded")

LEMMA StepNumbers == Steps = {1, 2, 3}
BY DEF Steps

\* A call stays sound while steps succeed and chapters enter canon.
LEMMA SoundGrows ==
  ASSUME Grows, NEW n \in Nat, NEW m \in Nat, n <= m,
         NEW call \in WorkerType, Sound(call, run, n)
  PROVE  Sound(call, run', m)
<1> SUFFICES ASSUME call.phase # "idle" PROVE Sound(call, run', m)
  BY DEF Sound
<1>1. /\ call.chapter \in 1..call.goal /\ call.goal <= n
      /\ call.goal \in 0..Book /\ call.chapter \in 0..Book
  BY DEF Sound, WorkerType
<1>2. call.chapter \in Chapters /\ call.goal <= m
  BY <1>1, PostCanonAssumption DEF Chapters, PostCanonAssumption
<1>3. \A s \in Steps : Done(run, call.chapter, s) => Done(run', call.chapter, s)
  BY <1>2 DEF Grows
<1> QED
  BY <1>1, <1>2, <1>3 DEF Sound

\* One call is replaced by one that is sound after the step.
LEMMA CallSet ==
  ASSUME CallsOK, Grows, canon \in Nat, canon' \in Nat, canon <= canon',
         NEW w \in Workers, NEW call \in WorkerType, Sound(call, run', canon'),
         Become(w, call)
  PROVE  CallsOK'
<1>1. worker' = [worker EXCEPT ![w] = call] /\ worker \in [Workers -> WorkerType]
  BY DEF Become, CallsOK
<1>2. worker' \in [Workers -> WorkerType]
  BY <1>1
<1>3. ASSUME NEW v \in Workers PROVE Sound(worker'[v], run', canon')
  <2>1. CASE v = w
    BY <1>1, <2>1
  <2>2. CASE v # w
    <3>1. worker'[v] = worker[v] /\ worker[v] \in WorkerType /\ Sound(worker[v], run, canon)
      BY <1>1, <2>2 DEF CallsOK
    <3> QED
      BY <3>1, SoundGrows
  <2> QED
    BY <2>1, <2>2
<1> QED
  BY <1>2, <1>3 DEF CallsOK

LEMMA CallsSame ==
  ASSUME CallsOK, Grows, canon \in Nat, canon' \in Nat, canon <= canon', UNCHANGED worker
  PROVE  CallsOK'
<1>1. \A v \in Workers : worker[v] \in WorkerType /\ Sound(worker[v], run, canon)
  BY DEF CallsOK
<1>2. \A v \in Workers : Sound(worker[v], run', canon')
  BY <1>1, SoundGrows
<1> QED
  BY <1>2 DEF CallsOK

LEMMA IdleSound ==
  /\ Idle \in WorkerType
  /\ \A r, n : Sound(Idle, r, n)
BY PostCanonAssumption DEF PostCanonAssumption, Idle, WorkerType, Sound, Steps

LEMMA CallOver ==
  ASSUME CallsOK, Grows, canon \in Nat, UNCHANGED canon, NEW w \in Workers, Over(w)
  PROVE  CallsOK'
BY IdleSound, CallSet DEF Over

\* One row is replaced.
LEMMA RowSet ==
  ASSUME NEW r \in [Chapters -> [Steps -> RunType]], NEW c \in Chapters, NEW s \in Steps,
         NEW row \in RunType, NEW q, q = [r EXCEPT ![c][s] = row]
  PROVE  /\ q \in [Chapters -> [Steps -> RunType]]
         /\ q[c][s] = row
         /\ \A d \in Chapters, t \in Steps : (d # c \/ t # s) => q[d][t] = r[d][t]
<1> DEFINE rows == [r[c] EXCEPT ![s] = row]
<1>1. r[c] \in [Steps -> RunType]
  OBVIOUS
<1>2. rows \in [Steps -> RunType] /\ rows[s] = row
      /\ \A t \in Steps : t # s => rows[t] = r[c][t]
  BY <1>1
<1>3. q = [r EXCEPT ![c] = rows]
  OBVIOUS
<1> HIDE DEF rows
<1>4. q \in [Chapters -> [Steps -> RunType]] /\ q[c] = rows
      /\ \A d \in Chapters : d # c => q[d] = r[d]
  BY <1>2, <1>3
<1> QED
  BY <1>2, <1>4

\* Step s of chapter c has the new row.
Replaced(c, s, row) == run' = [run EXCEPT ![c][s] = row]

\* A row that has not succeeded is replaced, by a success only in its turn.
LEMMA RowStep ==
  ASSUME IInv, NEW c \in Chapters, NEW s \in Steps, NEW row \in RunType,
         Replaced(c, s, row),
         reclaims' \in 0..MaxReclaims, reclaims' >= reclaims,
         ~Done(run, c, s),
         row.live => row.status = "running",
         row.epoch <= reclaims' + 1,
         row.status = "succeeded" =>
            row.by = row.epoch /\ \A q \in Steps : q < s => Done(run, c, q)
  PROVE  /\ RowsOK' /\ Grows
         /\ run'[c][s] = row
         /\ \A d \in Chapters, t \in Steps : (d # c \/ t # s) => run'[d][t] = run[d][t]
<1>1. run \in [Chapters -> [Steps -> RunType]]
  BY DEF IInv, RowsOK
<1>2. /\ run' \in [Chapters -> [Steps -> RunType]]
      /\ run'[c][s] = row
      /\ \A d \in Chapters, t \in Steps : (d # c \/ t # s) => run'[d][t] = run[d][t]
  BY <1>1, RowSet DEF Replaced
<1>3. Grows
  BY <1>2 DEF Grows, Done
<1>4. ASSUME NEW d \in Chapters, NEW t \in Steps
      PROVE  /\ run'[d][t].live => run'[d][t].status = "running"
             /\ run'[d][t].epoch <= reclaims' + 1
             /\ Done(run', d, t) => run'[d][t].by = run'[d][t].epoch
             /\ Done(run', d, t) => \A q \in Steps : q < t => Done(run', d, q)
  <2>1. CASE d = c /\ t = s
    <3>1. \A q \in Steps : (q < s /\ Done(run, c, q)) => Done(run', c, q)
      BY <1>3 DEF Grows
    <3> QED
      BY <1>2, <2>1, <3>1 DEF Done
  <2>2. CASE d # c \/ t # s
    <3>1. /\ run[d][t] \in RunType /\ run'[d][t] = run[d][t]
          /\ run[d][t].live => run[d][t].status = "running"
          /\ run[d][t].epoch <= reclaims + 1
          /\ Done(run, d, t) => run[d][t].by = run[d][t].epoch
          /\ Done(run, d, t) => \A q \in Steps : q < t => Done(run, d, q)
      BY <1>1, <1>2, <2>2 DEF IInv, RowsOK
    <3>2. Done(run', d, t) => Done(run, d, t)
      BY <3>1 DEF Done
    <3>3. run'[d][t].epoch <= reclaims' + 1
      BY <3>1, PostCanonAssumption DEF RunType, IInv, CountersOK, PostCanonAssumption
    <3>4. \A q \in Steps : Done(run, d, q) => Done(run', d, q)
      BY <1>3 DEF Grows
    <3> QED
      BY <3>1, <3>2, <3>3, <3>4
  <2> QED
    BY <2>1, <2>2
<1> QED
  BY <1>2, <1>3, <1>4 DEF RowsOK

LEMMA RowsSame == ASSUME IInv, UNCHANGED <<run, reclaims>> PROVE RowsOK' /\ Grows /\ RunKept
BY DEF IInv, RowsOK, Grows, RunKept, Done

LEMMA PlansSame == ASSUME IInv, UNCHANGED <<controls, checkpoint>> PROVE PlansOK' /\ ControlsKept
BY DEF IInv, PlansOK, ControlsKept

LEMMA CountersSame == ASSUME IInv, UNCHANGED <<reclaims, crashes>> PROVE CountersOK'
BY DEF IInv, CountersOK

\* Of the book nothing changes, or a step of a chapter in canon succeeds.
LEMMA BookSame ==
  ASSUME IInv, Grows, UNCHANGED <<canon, acked>>, ControlsKept,
         \A c \in Chapters, s \in Steps : Done(run', c, s) => Done(run, c, s) \/ c <= canon
  PROVE  BookOK'
<1>1. BookOK /\ canon \in Nat /\ \A c \in Chapters : c \in Nat
  BY DEF IInv, BookOK, Chapters
<1> QED
  BY <1>1 DEF BookOK, Grows, ControlsKept

\* A step that the cadence of the book does not see.
Quiet == RunKept /\ ControlsKept /\ canon' = canon

\* A step that leaves rows, plans and book alone moves one call.
LEMMA CallMoves ==
  ASSUME IInv, NEW w \in Workers, NEW call \in WorkerType, Become(w, call),
         Sound(call, run, canon),
         UNCHANGED <<canon, run, controls, checkpoint, acked, reclaims>>, CountersOK'
  PROVE  IInv' /\ Quiet
<1>1. RowsOK' /\ Grows /\ RunKept /\ PlansOK' /\ ControlsKept
  BY RowsSame, PlansSame
<1>2. canon \in Nat /\ run' = run /\ canon' = canon
  BY DEF IInv, BookOK
<1>3. Sound(call, run', canon')
  BY <1>2
<1>4. CallsOK'
  BY <1>1, <1>2, <1>3, CallSet DEF IInv
<1>5. BookOK'
  BY <1>1, BookSame DEF RunKept
<1> QED
  BY <1>1, <1>2, <1>4, <1>5 DEF IInv, Quiet

LEMMA CallEnds ==
  ASSUME IInv, NEW w \in Workers, Over(w),
         UNCHANGED <<canon, run, controls, checkpoint, acked, reclaims>>, CountersOK'
  PROVE  IInv' /\ Quiet
BY IdleSound, CallMoves DEF Over

\* What the invariant says of a call.
LEMMA CallFacts ==
  ASSUME IInv, NEW w \in Workers, ~At(w, "idle")
  PROVE  /\ worker[w] \in WorkerType /\ Sound(worker[w], run, canon)
         /\ worker[w].phase # "idle"
         /\ worker[w].chapter \in Chapters /\ worker[w].chapter <= canon
         /\ worker[w].step \in Steps
         /\ run[worker[w].chapter][worker[w].step] \in RunType
         /\ canon \in Nat /\ canon <= Book
<1>1. worker[w] \in WorkerType /\ Sound(worker[w], run, canon)
  BY DEF IInv, CallsOK
<1>2. worker[w].phase # "idle"
  BY DEF At
<1>3. /\ worker[w].chapter \in 1..worker[w].goal /\ worker[w].goal <= canon
      /\ worker[w].chapter \in 0..Book /\ worker[w].goal \in 0..Book
      /\ worker[w].step \in Steps
  BY <1>1, <1>2 DEF Sound, WorkerType
<1>4. canon \in 0..Book
  BY DEF IInv, BookOK
<1>5. worker[w].chapter \in Chapters /\ worker[w].chapter <= canon
  BY <1>3, <1>4, PostCanonAssumption DEF Chapters, PostCanonAssumption
<1>6. run[worker[w].chapter][worker[w].step] \in RunType
  BY <1>3, <1>5 DEF IInv, RowsOK
<1> QED
  BY <1>1, <1>2, <1>3, <1>4, <1>5, <1>6

-----------------------------------------------------------------------------
(* The book and the operator *)

LEMMA CommitKeeps == ASSUME IInv, Commit PROVE IInv'
<1>1. /\ canon < Book /\ canon' = canon + 1 /\ canon \in 0..Book
      /\ canon > 0 => Ready(canon)
      /\ UNCHANGED <<run, controls, checkpoint, worker, acked, reclaims, crashes>>
  BY DEF Commit, IInv, BookOK
<1>2. RowsOK' /\ Grows /\ PlansOK' /\ CountersOK'
  BY <1>1, RowsSame, PlansSame, CountersSame
<1>3. canon \in Nat /\ canon' \in 0..Book /\ canon' \in Nat /\ canon <= canon'
  BY <1>1, PostCanonAssumption DEF PostCanonAssumption
<1>4. CallsOK'
  BY <1>1, <1>2, <1>3, CallsSame DEF IInv
<1>5. ASSUME NEW c \in Chapters
      PROVE  /\ c < canon' => controls[c].status = "succeeded"
             /\ c > canon' => controls[c].status # "succeeded" /\ \A s \in Steps : ~Done(run, c, s)
  <2>1. c \in Nat /\ c > 0
    BY DEF Chapters
  <2>2. c < canon' => c < canon \/ (c = canon /\ canon > 0)
    BY <1>1, <2>1
  <2>3. c = canon /\ canon > 0 => controls[c].status = "succeeded"
    BY <1>1 DEF Ready
  <2>4. c > canon' => c > canon
    BY <1>1, <2>1
  <2> QED
    BY <2>2, <2>3, <2>4 DEF IInv, BookOK
<1>6. BookOK'
  BY <1>1, <1>3, <1>5 DEF IInv, BookOK
<1> QED
  BY <1>2, <1>4, <1>6 DEF IInv

\* The operator touches checkpoints only.
LEMMA CheckpointsChange ==
  ASSUME IInv, PlansOK', UNCHANGED <<canon, run, controls, worker, acked, reclaims, crashes>>
  PROVE  IInv' /\ Quiet
<1>1. RowsOK' /\ Grows /\ RunKept /\ CountersOK'
  BY RowsSame, CountersSame
<1>2. ControlsKept /\ canon \in Nat /\ canon' = canon
  BY DEF ControlsKept, IInv, BookOK
<1>3. CallsOK'
  BY <1>1, <1>2, CallsSame DEF IInv
<1>4. BookOK'
  BY <1>1, <1>2, BookSame DEF RunKept
<1> QED
  BY <1>1, <1>2, <1>3, <1>4 DEF IInv, Quiet

LEMMA CheckpointAdded ==
  ASSUME PlansOK, NEW x \in CheckpointType, checkpoint' = Append(checkpoint, x)
  PROVE  checkpoint' \in Seq(CheckpointType) /\ Len(checkpoint') = Len(checkpoint) + 1
         /\ Len(checkpoint) \in Nat
BY DEF PlansOK

LEMMA CreateManualKeeps ==
  ASSUME IInv, NEW c \in Chapters, CreateManual(c) PROVE IInv' /\ Quiet
<1> DEFINE x == [chapter |-> c, auto |-> FALSE, status |-> "pending"]
<1>1. x \in CheckpointType
  BY DEF CheckpointType
<1>2. /\ checkpoint' = Append(checkpoint, x)
      /\ UNCHANGED <<canon, run, controls, worker, acked, reclaims, crashes>>
  BY DEF CreateManual
<1> HIDE DEF x
<1>3. PlansOK /\ checkpoint' \in Seq(CheckpointType)
      /\ Len(checkpoint') = Len(checkpoint) + 1 /\ Len(checkpoint) \in Nat
  BY <1>1, <1>2, CheckpointAdded DEF IInv
<1>4. PlansOK'
  BY <1>2, <1>3 DEF PlansOK, ControlsType
<1> QED
  BY <1>2, <1>4, CheckpointsChange

\* A checkpoint gets a new status.
LEMMA CheckpointSet ==
  ASSUME PlansOK, NEW k \in 1..Len(checkpoint), NEW status \in {"pending", "pass", "warn", "fail", "overridden"},
         checkpoint' = [checkpoint EXCEPT ![k].status = status], UNCHANGED controls
  PROVE  PlansOK'
<1> DEFINE x == [checkpoint[k] EXCEPT !.status = status]
<1>1. checkpoint \in Seq(CheckpointType) /\ checkpoint[k] \in CheckpointType
  BY DEF PlansOK
<1>2. x \in CheckpointType
  BY <1>1 DEF CheckpointType
<1>3. checkpoint' = [checkpoint EXCEPT ![k] = x]
  OBVIOUS
<1> HIDE DEF x
<1>4. checkpoint' \in Seq(CheckpointType) /\ Len(checkpoint') = Len(checkpoint)
  BY <1>1, <1>2, <1>3, ExceptSeq
<1> QED
  BY <1>4 DEF PlansOK

LEMMA ApproveKeeps ==
  ASSUME IInv, NEW b \in BandEnds, Approve(b) PROVE IInv' /\ Quiet
<1> DEFINE k == Max(InBand(b))
<1>1. PlansOK /\ Len(checkpoint) \in Nat
  BY DEF IInv, PlansOK
<1>2. InBand(b) \in SUBSET (1..Len(checkpoint))
  BY DEF InBand
<1>3. InBand(b) \in SUBSET (0..Len(checkpoint)) /\ InBand(b) # {}
  BY <1>1, <1>2 DEF Approve
<1>4. k \in 1..Len(checkpoint)
  BY <1>1, <1>2, <1>3, MaxOfBounded
<1>5. /\ checkpoint' = [checkpoint EXCEPT ![k].status = "overridden"]
      /\ UNCHANGED <<canon, run, controls, worker, acked, reclaims, crashes>>
  BY DEF Approve
<1> HIDE DEF k
<1>6. PlansOK'
  BY <1>1, <1>4, <1>5, CheckpointSet
<1> QED
  BY <1>5, <1>6, CheckpointsChange

-----------------------------------------------------------------------------
(* Calls and claims *)

LEMMA BeginKeeps ==
  ASSUME IInv, NEW w \in Workers, NEW c \in Chapters, Begin(w, c) PROVE IInv' /\ Quiet
<1>1. PICK kind \in {"event", "acceptance", "preflight"} :
         Become(w, [Idle EXCEPT !.phase = "checking", !.kind = kind, !.goal = c,
                                !.chapter = c, !.first = (kind = "preflight")])
  BY DEF Begin
<1> DEFINE call == [Idle EXCEPT !.phase = "checking", !.kind = kind, !.goal = c,
                                !.chapter = c, !.first = (kind = "preflight")]
<1>2. c \in 0..Book /\ c \in 1..c /\ c <= canon
  BY PostCanonAssumption DEF Begin, Chapters, PostCanonAssumption
<1>3. call \in WorkerType
  BY <1>2, IdleSound DEF WorkerType, Idle
<1>4. Sound(call, run, canon)
  BY <1>2 DEF Sound, Idle
<1>5. UNCHANGED <<canon, run, controls, checkpoint, acked, reclaims, crashes>>
  BY DEF Begin
<1> HIDE DEF call
<1> QED
  BY <1>1, <1>3, <1>4, <1>5, CountersSame, CallMoves DEF call

\* The rows _ensure_runs adds change nothing that matters.
LEMMA RowsEnsured ==
  ASSUME IInv, NEW c \in Chapters, UNCHANGED reclaims,
         run' = [run EXCEPT ![c] = [s \in Steps |->
                 IF run[c][s].status = "absent"
                 THEN [run[c][s] EXCEPT !.status = "pending"] ELSE run[c][s]]]
  PROVE  RowsOK' /\ Grows /\ RunKept
<1> DEFINE rows == [s \in Steps |->
                 IF run[c][s].status = "absent"
                 THEN [run[c][s] EXCEPT !.status = "pending"] ELSE run[c][s]]
<1>1. run \in [Chapters -> [Steps -> RunType]]
  BY DEF IInv, RowsOK
<1>2. ASSUME NEW s \in Steps
      PROVE  /\ rows[s] \in RunType /\ rows[s].live = run[c][s].live
             /\ rows[s].epoch = run[c][s].epoch /\ rows[s].by = run[c][s].by
             /\ run[c][s].status = "running" => rows[s].status = "running"
             /\ (rows[s].status = "succeeded") <=> Done(run, c, s)
  <2>1. run[c][s] \in RunType
    BY <1>1
  <2> QED
    BY <2>1 DEF RunType, Done
<1>3. rows \in [Steps -> RunType] /\ run' = [run EXCEPT ![c] = rows]
  BY <1>2
<1> HIDE DEF rows
<1>4. /\ run' \in [Chapters -> [Steps -> RunType]] /\ run'[c] = rows
      /\ \A d \in Chapters : d # c => run'[d] = run[d]
  BY <1>1, <1>3
<1>5. RunKept /\ Grows
  BY <1>2, <1>4 DEF RunKept, Grows, Done
<1>6. ASSUME NEW d \in Chapters, NEW s \in Steps
      PROVE  /\ run'[d][s].live => run'[d][s].status = "running"
             /\ run'[d][s].epoch <= reclaims + 1
             /\ Done(run', d, s) => run'[d][s].by = run'[d][s].epoch
  BY <1>2, <1>4 DEF IInv, RowsOK, Done
<1>7. \A d \in Chapters, s \in Steps :
         Done(run', d, s) => \A q \in Steps : q < s => Done(run', d, q)
  BY <1>5 DEF IInv, RowsOK, RunKept
<1> QED
  BY <1>4, <1>5, <1>6, <1>7 DEF RowsOK

LEMMA CheckPreviousKeeps ==
  ASSUME IInv, NEW w \in Workers, CheckPrevious(w) PROVE IInv' /\ Quiet
<1> DEFINE c == worker[w].chapter
<1>1. /\ At(w, "checking")
      /\ UNCHANGED <<canon, controls, checkpoint, acked, reclaims, crashes>>
  BY DEF CheckPrevious
<1>2. ~At(w, "idle")
  BY <1>1 DEF At
<1>3. /\ worker[w] \in WorkerType /\ Sound(worker[w], run, canon) /\ c \in Chapters
      /\ canon \in Nat /\ canon' = canon
  BY <1>1, <1>2, CallFacts
<1>4. RowsOK' /\ Grows /\ RunKept
  BY <1>1, <1>3, RowsEnsured DEF CheckPrevious
<1>5. PlansOK' /\ ControlsKept /\ CountersOK'
  BY <1>1, PlansSame, CountersSame
<1>6. BookOK'
  BY <1>1, <1>4, <1>5, BookSame DEF RunKept
<1>7. CallsOK'
  <2>1. ASSUME NEW call \in WorkerType, Sound(call, run, canon), Become(w, call) PROVE CallsOK'
    <3>1. Sound(call, run', canon')
      BY <1>3, <1>4, <2>1, SoundGrows
    <3> QED
      BY <1>3, <1>4, <2>1, <3>1, CallSet DEF IInv
  <2>2. \/ Become(w, [worker[w] EXCEPT !.phase = "claiming"])
        \/ /\ c # 1 /\ worker[w].first
           /\ Become(w, [worker[w] EXCEPT !.chapter = c - 1])
        \/ Become(w, Idle)
    BY DEF CheckPrevious, Over
  <2>3. /\ worker[w].phase = "checking" /\ worker[w].step = 1
        /\ c \in 1..worker[w].goal /\ worker[w].goal <= canon /\ worker[w].goal \in Nat
        /\ worker[w].kind = "event" => ~worker[w].first /\ c = worker[w].goal
    BY <1>1, <1>3 DEF Sound, At, WorkerType
  <2>4. CASE Become(w, [worker[w] EXCEPT !.phase = "claiming"])
    <3> DEFINE call == [worker[w] EXCEPT !.phase = "claiming"]
    <3>1. call \in WorkerType
      BY <1>3 DEF WorkerType
    <3>2. Sound(call, run, canon)
      BY <1>3, <2>3, StepNumbers DEF Sound, WorkerType
    <3> QED
      BY <3>1, <3>2, <2>1, <2>4
  <2>5. CASE c # 1 /\ worker[w].first /\ Become(w, [worker[w] EXCEPT !.chapter = c - 1])
    <3> DEFINE call == [worker[w] EXCEPT !.chapter = c - 1]
    <3>1. c - 1 \in 1..worker[w].goal /\ c - 1 \in 0..Book
      BY <1>3, <2>3, <2>5, PostCanonAssumption DEF Chapters, PostCanonAssumption
    <3>2. call \in WorkerType
      BY <1>3, <3>1 DEF WorkerType
    <3>3. Sound(call, run, canon)
      BY <1>3, <2>3, <2>5, <3>1 DEF Sound, WorkerType
    <3> QED
      BY <3>2, <3>3, <2>1, <2>5
  <2>6. CASE Become(w, Idle)
    BY <2>1, <2>6, IdleSound
  <2> QED
    BY <2>2, <2>4, <2>5, <2>6
<1> QED
  BY <1>3, <1>4, <1>5, <1>6, <1>7 DEF IInv, Quiet

\* A step on the row and the call of one worker, in a chapter of canon.
LEMMA RowAndCall ==
  ASSUME IInv, RowsOK', Grows, CountersOK', NEW w \in Workers, ~At(w, "idle"),
         \A d \in Chapters, t \in Steps :
            (d # worker[w].chapter \/ t # worker[w].step) => run'[d][t] = run[d][t],
         NEW call \in WorkerType, Become(w, call), Sound(call, run', canon),
         UNCHANGED <<canon, controls, checkpoint, acked>>
  PROVE  IInv'
<1>1. PlansOK' /\ ControlsKept
  BY PlansSame
<1>2. canon \in Nat /\ canon' = canon /\ worker[w].chapter <= canon
  BY CallFacts
<1>3. \A c \in Chapters, s \in Steps : Done(run', c, s) => Done(run, c, s) \/ c <= canon
  BY <1>2 DEF Done
<1>4. BookOK'
  BY <1>1, <1>3, BookSame
<1>5. CallsOK'
  BY <1>2, CallSet DEF IInv
<1> QED
  BY <1>1, <1>4, <1>5 DEF IInv

\* The call after a step that has succeeded.
LEMMA NextStepSound ==
  ASSUME NEW call \in WorkerType, NEW r, NEW n, call.phase \in {"claiming", "working"},
         Sound(call, r, n), Done(r, call.chapter, call.step)
  PROVE  NextStep(call) \in WorkerType /\ Sound(NextStep(call), r, n)
<1>1. /\ call.step \in {1, 2, 3}
      /\ call.chapter \in 1..call.goal /\ call.goal <= n
      /\ call.kind = "event" => ~call.first /\ call.chapter = call.goal
      /\ \A s \in Steps : s < call.step => Done(r, call.chapter, s)
  BY StepNumbers DEF Sound, WorkerType
<1>2. \A s \in Steps : s <= call.step => Done(r, call.chapter, s)
  BY <1>1, StepNumbers
<1>3. CASE call.step < 3
  <2> DEFINE new == [call EXCEPT !.phase = "claiming", !.step = call.step + 1,
                                 !.epoch = 0, !.lost = FALSE]
  <2>1. NextStep(call) = new
    BY <1>3 DEF NextStep
  <2>2. new \in WorkerType
    <3>1. call.step + 1 \in Steps /\ 0 \in 0..(MaxReclaims + 1)
      BY <1>1, <1>3, PostCanonAssumption, StepNumbers DEF PostCanonAssumption
    <3> QED
      BY <3>1 DEF WorkerType
  <2>3. new.phase = "claiming" /\ new.step = call.step + 1 /\ new.chapter = call.chapter
        /\ new.goal = call.goal /\ new.kind = call.kind /\ new.first = call.first
    BY DEF WorkerType
  <2>4. \A s \in Steps : s < new.step => Done(r, call.chapter, s)
    BY <1>1, <1>2, <2>3, StepNumbers
  <2> HIDE DEF new
  <2>5. Sound(new, r, n)
    BY <1>1, <2>3, <2>4 DEF Sound
  <2> QED
    BY <2>1, <2>2, <2>5
<1>4. CASE ~(call.step < 3)
  <2> DEFINE p == IF call.kind = "event" THEN "acking" ELSE "ordering"
             new == [call EXCEPT !.phase = p, !.step = 1, !.epoch = 0, !.lost = FALSE]
  <2>1. NextStep(call) = new
    BY <1>4 DEF NextStep
  <2>2. new \in WorkerType
    <3>1. 1 \in Steps /\ 0 \in 0..(MaxReclaims + 1)
      BY PostCanonAssumption, StepNumbers DEF PostCanonAssumption
    <3> QED
      BY <3>1 DEF WorkerType
  <2>3. new.phase = p /\ new.step = 1 /\ new.chapter = call.chapter
        /\ new.goal = call.goal /\ new.kind = call.kind /\ new.first = call.first
    BY DEF WorkerType
  <2>4. \A s \in Steps : Done(r, call.chapter, s)
    BY <1>1, <1>2, <1>4, StepNumbers
  <2> HIDE DEF new
  <2>5. Sound(new, r, n)
    BY <1>1, <2>3, <2>4 DEF Sound
  <2> QED
    BY <2>1, <2>2, <2>5
<1> QED
  BY <1>3, <1>4

LEMMA ClaimStepKeeps ==
  ASSUME IInv, NEW w \in Workers, ClaimStep(w) PROVE IInv' /\ Quiet
<1> DEFINE c == worker[w].chapter
           s == worker[w].step
           row == run[c][s]
<1>1. /\ At(w, "claiming") /\ ~At(w, "idle")
      /\ UNCHANGED <<canon, controls, checkpoint, acked, crashes>>
  BY DEF ClaimStep, At
<1>2. /\ worker[w] \in WorkerType /\ Sound(worker[w], run, canon)
      /\ c \in Chapters /\ c <= canon /\ s \in Steps /\ row \in RunType /\ canon \in Nat
      /\ worker[w].phase = "claiming"
  BY <1>1, CallFacts DEF At
<1>3. CASE /\ row.status = "succeeded" /\ Become(w, NextStep(worker[w]))
           /\ UNCHANGED <<run, reclaims>>
  <2>1. NextStep(worker[w]) \in WorkerType /\ Sound(NextStep(worker[w]), run, canon)
    BY <1>2, <1>3, NextStepSound DEF Done
  <2>2. CountersOK'
    BY <1>1, <1>3, CountersSame
  <2> QED
    BY <1>1, <1>3, <2>1, <2>2, CallMoves
<1>4. CASE /\ Claimable(row)
           /\ row.epoch > 0 => reclaims < MaxReclaims
           /\ reclaims' = IF row.epoch = 0 THEN reclaims ELSE reclaims + 1
           /\ SetRun(w, [row EXCEPT !.status = "running", !.owner = Name[w],
                                    !.epoch = row.epoch + 1, !.live = TRUE])
           /\ Become(w, [worker[w] EXCEPT !.phase = "starting", !.epoch = row.epoch + 1])
  <2> DEFINE new == [row EXCEPT !.status = "running", !.owner = Name[w],
                                !.epoch = row.epoch + 1, !.live = TRUE]
             call == [worker[w] EXCEPT !.phase = "starting", !.epoch = row.epoch + 1]
  <2>1. /\ reclaims' \in 0..MaxReclaims /\ reclaims' >= reclaims
        /\ row.epoch + 1 <= reclaims' + 1 /\ row.epoch + 1 \in 0..(MaxReclaims + 1)
        /\ row.epoch <= reclaims + 1
    <3>1. row.epoch <= reclaims + 1
      BY <1>2 DEF IInv, RowsOK
    <3>2. reclaims \in 0..MaxReclaims /\ MaxReclaims \in Nat
      BY PostCanonAssumption DEF IInv, CountersOK, PostCanonAssumption
    <3>3. row.epoch \in Nat
      BY <1>2 DEF RunType
    <3> HIDE DEF row
    <3> QED
      BY <3>1, <3>2, <3>3, <1>4
  <2>2. new \in RunType
    BY <1>2, <2>1 DEF RunType, Names
  <2>3. /\ new.status = "running" /\ new.epoch = row.epoch + 1
        /\ Replaced(c, s, new)
    BY <1>2, <1>4 DEF SetRun, RunType, Replaced
  <2>4. ~Done(run, c, s)
    BY <1>4 DEF Claimable, Done
  <2> HIDE DEF new
  <2>5. /\ RowsOK' /\ Grows /\ run'[c][s] = new
        /\ \A d \in Chapters, t \in Steps : (d # c \/ t # s) => run'[d][t] = run[d][t]
    BY <1>2, <2>1, <2>2, <2>3, <2>4, RowStep
  <2>6. call \in WorkerType
    BY <1>2, <2>1 DEF WorkerType
  <2>7. Sound(call, run, canon)
    BY <1>2 DEF Sound, WorkerType
  <2>8. Sound(call, run', canon)
    BY <1>2, <2>5, <2>6, <2>7, SoundGrows
  <2>9. CountersOK'
    BY <1>1, <2>1 DEF IInv, CountersOK
  <2> HIDE DEF call
  <2>10. IInv'
    BY <1>1, <1>2, <1>4, <2>5, <2>6, <2>8, <2>9, RowAndCall DEF call
  <2>11. RunKept
    BY <2>3, <2>4, <2>5 DEF RunKept, Done
  <2> QED
    BY <1>1, <2>10, <2>11, PlansSame DEF Quiet
<1> QED
  BY <1>3, <1>4 DEF ClaimStep

LEMMA BusyKeeps == ASSUME IInv, NEW w \in Workers, Busy(w) PROVE IInv' /\ Quiet
BY CountersSame, CallEnds DEF Busy

-----------------------------------------------------------------------------
(* A claimed step *)

LEMMA StartKeeps == ASSUME IInv, NEW w \in Workers, Start(w) PROVE IInv' /\ Quiet
<1> DEFINE call == [worker[w] EXCEPT !.phase = "working"]
<1>1. /\ worker[w].phase = "starting" /\ ~At(w, "idle")
      /\ Become(w, call) \/ Over(w)
      /\ UNCHANGED <<canon, run, controls, checkpoint, acked, reclaims, crashes>>
  BY DEF Start, At
<1>2. worker[w] \in WorkerType /\ Sound(worker[w], run, canon)
  BY <1>1, CallFacts
<1>3. call \in WorkerType /\ Sound(call, run, canon)
  BY <1>1, <1>2 DEF Sound, WorkerType
<1> HIDE DEF call
<1> QED
  BY <1>1, <1>3, CountersSame, CallMoves, CallEnds

\* A held row is running under its lease.
LEMMA HeldRow ==
  ASSUME IInv, NEW w \in Workers, ~At(w, "idle"), Holds(w)
  PROVE  LET row == run[worker[w].chapter][worker[w].step]
         IN  /\ row \in RunType /\ row.status = "running" /\ row.live
             /\ row.epoch = worker[w].epoch /\ row.epoch <= reclaims + 1
             /\ ~Done(run, worker[w].chapter, worker[w].step)
             /\ reclaims \in 0..MaxReclaims /\ reclaims >= reclaims
BY CallFacts DEF Holds, OwnsRun, Done, IInv, RowsOK, CountersOK

LEMMA HeartbeatKeeps == ASSUME IInv, NEW w \in Workers, Heartbeat(w) PROVE IInv' /\ Quiet
<1> DEFINE c == worker[w].chapter
           s == worker[w].step
           row == run[c][s]
<1>1. /\ worker[w].phase = "working" /\ ~At(w, "idle")
      /\ UNCHANGED <<canon, controls, checkpoint, acked, reclaims, crashes>>
  BY DEF Heartbeat, At
<1>2. /\ worker[w] \in WorkerType /\ Sound(worker[w], run, canon)
      /\ c \in Chapters /\ s \in Steps /\ row \in RunType /\ canon \in Nat
  BY <1>1, CallFacts
<1>3. CASE Holds(w) /\ SetRun(w, [row EXCEPT !.live = TRUE]) /\ UNCHANGED worker
  <2> DEFINE new == [row EXCEPT !.live = TRUE]
  <2>1. /\ new \in RunType /\ new.status = row.status /\ new.epoch = row.epoch
        /\ Replaced(c, s, new)
    BY <1>2, <1>3 DEF RunType, SetRun, Replaced
  <2> HIDE DEF new
  <2>2. /\ RowsOK' /\ Grows /\ run'[c][s] = new
        /\ \A d \in Chapters, t \in Steps : (d # c \/ t # s) => run'[d][t] = run[d][t]
    <3>1. /\ row.status = "running" /\ row.epoch <= reclaims' + 1 /\ ~Done(run, c, s)
          /\ reclaims' \in 0..MaxReclaims /\ reclaims' >= reclaims
      BY <1>1, <1>3, HeldRow
    <3>2. new.status # "succeeded" /\ new.epoch <= reclaims' + 1
      BY <2>1, <3>1
    <3> HIDE DEF row
    <3> QED
      BY <1>2, <2>1, <3>1, <3>2, RowStep
  <2>3. RunKept
    BY <1>1, <1>3, <2>1, <2>2, HeldRow DEF RunKept, Done
  <2>4. PlansOK' /\ ControlsKept /\ CountersOK'
    BY <1>1, PlansSame, CountersSame
  <2>5. BookOK'
    BY <1>1, <2>2, <2>3, <2>4, BookSame DEF RunKept
  <2>6. CallsOK'
    BY <1>1, <1>2, <1>3, <2>2, CallsSame DEF IInv
  <2> QED
    BY <1>1, <2>2, <2>3, <2>4, <2>5, <2>6 DEF IInv, Quiet
<1>4. CASE Become(w, [worker[w] EXCEPT !.lost = TRUE]) /\ UNCHANGED run
  <2> DEFINE call == [worker[w] EXCEPT !.lost = TRUE]
  <2>1. call \in WorkerType /\ Sound(call, run, canon)
    BY <1>2 DEF Sound, WorkerType
  <2> HIDE DEF call
  <2> QED
    BY <1>1, <1>4, <2>1, CountersSame, CallMoves DEF call
<1> QED
  BY <1>3, <1>4 DEF Heartbeat

\* A call of a worker whose step succeeds under its claim.
LEMMA CompleteSucceeds ==
  ASSUME IInv, NEW w \in Workers, Complete(w), ~worker[w].lost /\ Holds(w)
  PROVE  LET c == worker[w].chapter
             s == worker[w].step
         IN  /\ IInv' /\ c \in Chapters /\ c <= canon /\ s \in Steps
             /\ ~Done(run, c, s) /\ Done(run', c, s)
             /\ \A q \in Steps : q < s => Done(run, c, q)
             /\ \A d \in Chapters, t \in Steps : (d # c \/ t # s) => run'[d][t] = run[d][t]
             /\ UNCHANGED <<canon, controls>>
<1> DEFINE c == worker[w].chapter
           s == worker[w].step
           row == run[c][s]
           new == [Settled(row, "succeeded") EXCEPT !.by = worker[w].epoch]
<1>1. /\ worker[w].phase = "working" /\ ~At(w, "idle")
      /\ UNCHANGED <<canon, controls, checkpoint, acked, reclaims, crashes>>
      /\ SetRun(w, new) /\ Become(w, NextStep(worker[w]))
  BY DEF Complete, At
<1>2. /\ worker[w] \in WorkerType /\ Sound(worker[w], run, canon)
      /\ c \in Chapters /\ c <= canon /\ s \in Steps /\ row \in RunType
      /\ canon \in Nat
      /\ \A q \in Steps : q < s => Done(run, c, q)
  BY <1>1, CallFacts DEF Sound
<1>3. row.epoch = worker[w].epoch /\ ~Done(run, c, s)
  BY <1>1, HeldRow
<1>4. /\ new \in RunType /\ new.status = "succeeded" /\ ~new.live
      /\ new.epoch = row.epoch /\ new.by = row.epoch
      /\ Replaced(c, s, new)
  BY <1>1, <1>2, <1>3 DEF RunType, Settled, SetRun, Replaced
<1> HIDE DEF new
<1>5. /\ RowsOK' /\ Grows /\ run'[c][s] = new
      /\ \A d \in Chapters, t \in Steps : (d # c \/ t # s) => run'[d][t] = run[d][t]
  <2>1. /\ row.epoch <= reclaims' + 1 /\ ~Done(run, c, s)
        /\ reclaims' \in 0..MaxReclaims /\ reclaims' >= reclaims
    BY <1>1, HeldRow
  <2>2. ~new.live /\ new.epoch <= reclaims' + 1
    BY <1>4, <2>1
  <2>3. new.status = "succeeded" =>
           new.by = new.epoch /\ \A q \in Steps : q < s => Done(run, c, q)
    BY <1>2, <1>4
  <2> HIDE DEF row
  <2> QED
    BY <1>2, <1>4, <2>1, <2>2, <2>3, RowStep
<1>6. Done(run', c, s)
  BY <1>4, <1>5 DEF Done
<1>7. Sound(worker[w], run', canon)
  BY <1>2, <1>5, SoundGrows
<1>8. NextStep(worker[w]) \in WorkerType /\ Sound(NextStep(worker[w]), run', canon)
  BY <1>1, <1>2, <1>6, <1>7, NextStepSound
<1>9. CountersOK'
  BY <1>1, CountersSame
<1>10. IInv'
  BY <1>1, <1>5, <1>8, <1>9, RowAndCall
<1> QED
  BY <1>1, <1>2, <1>3, <1>5, <1>6, <1>10

LEMMA CompleteFails ==
  ASSUME IInv, NEW w \in Workers, Complete(w), ~(~worker[w].lost /\ Holds(w))
  PROVE  IInv' /\ Quiet
BY CountersSame, CallEnds DEF Complete

LEMMA StepRaisesKeeps == ASSUME IInv, NEW w \in Workers, StepRaises(w) PROVE IInv' /\ Quiet
<1> DEFINE call == [worker[w] EXCEPT !.phase = "failing"]
<1>1. /\ worker[w].phase = "working" /\ ~At(w, "idle") /\ Become(w, call)
      /\ UNCHANGED <<canon, run, controls, checkpoint, acked, reclaims, crashes>>
  BY DEF StepRaises, At
<1>2. worker[w] \in WorkerType /\ Sound(worker[w], run, canon)
  BY <1>1, CallFacts
<1>3. call \in WorkerType /\ Sound(call, run, canon)
  BY <1>1, <1>2 DEF Sound, WorkerType
<1> HIDE DEF call
<1> QED
  BY <1>1, <1>3, CountersSame, CallMoves

LEMMA FailKeeps == ASSUME IInv, NEW w \in Workers, Fail(w) PROVE IInv' /\ Quiet
<1> DEFINE c == worker[w].chapter
           s == worker[w].step
           row == run[c][s]
           new == Settled(row, "failed")
<1>1. /\ ~At(w, "idle") /\ Over(w)
      /\ UNCHANGED <<canon, controls, checkpoint, acked, reclaims, crashes>>
  BY DEF Fail, At
<1>2. CASE Holds(w) /\ SetRun(w, new)
  <2>1. c \in Chapters /\ s \in Steps /\ row \in RunType /\ canon \in Nat
    BY <1>1, CallFacts
  <2>2. /\ new \in RunType /\ new.status = "failed" /\ ~new.live /\ new.epoch = row.epoch
        /\ Replaced(c, s, new)
    BY <1>2, <2>1 DEF RunType, Settled, SetRun, Replaced, Names
  <2> HIDE DEF new
  <2>3. /\ RowsOK' /\ Grows /\ run'[c][s] = new
        /\ \A d \in Chapters, t \in Steps : (d # c \/ t # s) => run'[d][t] = run[d][t]
    <3>1. /\ row.epoch <= reclaims' + 1 /\ ~Done(run, c, s)
          /\ reclaims' \in 0..MaxReclaims /\ reclaims' >= reclaims
      BY <1>1, <1>2, HeldRow
    <3>2. new.status # "succeeded" /\ new.epoch <= reclaims' + 1
      BY <2>2, <3>1
    <3> HIDE DEF row
    <3> QED
      BY <2>1, <2>2, <3>1, <3>2, RowStep
  <2>4. RunKept
    BY <1>1, <1>2, <2>2, <2>3, HeldRow DEF RunKept, Done
  <2>5. CountersOK' /\ ControlsKept
    BY <1>1, CountersSame, PlansSame
  <2>6. IInv'
    BY <1>1, <2>3, <2>5, IdleSound, RowAndCall DEF Over
  <2> QED
    BY <1>1, <2>4, <2>5, <2>6 DEF Quiet
<1>3. CASE UNCHANGED run
  BY <1>1, <1>3, CountersSame, CallEnds
<1> QED
  BY <1>2, <1>3 DEF Fail

LEMMA AckKeeps == ASSUME IInv, NEW w \in Workers, Ack(w) PROVE IInv' /\ Quiet
<1>1. /\ worker[w].phase = "acking" /\ ~At(w, "idle") /\ Over(w)
      /\ acked' = acked \cup {worker[w].goal}
      /\ UNCHANGED <<canon, run, controls, checkpoint, reclaims, crashes>>
  BY DEF Ack, At
<1>2. /\ worker[w].chapter \in Chapters /\ canon \in Nat
      /\ worker[w].goal = worker[w].chapter
      /\ \A s \in Steps : Done(run, worker[w].chapter, s)
  BY <1>1, CallFacts DEF Sound
<1>3. RowsOK' /\ Grows /\ RunKept /\ PlansOK' /\ ControlsKept /\ CountersOK'
  BY <1>1, RowsSame, PlansSame, CountersSame
<1>4. CallsOK'
  BY <1>1, <1>2, <1>3, CallOver DEF IInv
<1>5. BookOK'
  BY <1>1, <1>2 DEF IInv, BookOK
<1> QED
  BY <1>1, <1>3, <1>4, <1>5 DEF IInv, Quiet

-----------------------------------------------------------------------------
(* Order controls *)

\* The controls of a maintained chapter in canon that had not succeeded get a
\* result; a success is the cadence's last stage.
LEMMA ControlsSet ==
  ASSUME IInv, NEW c \in Chapters, c <= canon, \A s \in Steps : Done(run, c, s),
         controls[c].status # "succeeded",
         NEW x \in ControlsType, controls' = [controls EXCEPT ![c] = x],
         checkpoint' \in Seq(CheckpointType), Len(checkpoint) <= Len(checkpoint'),
         x.auto <= Len(checkpoint'),
         CallsOK', UNCHANGED <<canon, run, acked, reclaims, crashes>>
  PROVE  /\ IInv'
         /\ controls'[c] = x /\ \A d \in Chapters : d # c => controls'[d] = controls[d]
         /\ x.status # "succeeded" => Quiet
<1>1. /\ controls \in [Chapters -> ControlsType] /\ checkpoint \in Seq(CheckpointType)
      /\ \A d \in Chapters : controls[d].auto <= Len(checkpoint)
      /\ BookOK /\ canon \in Nat /\ c \in Nat
  BY DEF IInv, PlansOK, BookOK, Chapters
<1>2. /\ controls' \in [Chapters -> ControlsType]
      /\ controls'[c] = x /\ \A d \in Chapters : d # c => controls'[d] = controls[d]
  BY <1>1
<1>3. RowsOK' /\ RunKept /\ CountersOK'
  BY RowsSame, CountersSame
<1>4. PlansOK'
  <2>1. ASSUME NEW d \in Chapters PROVE controls'[d].auto <= Len(checkpoint')
    <3>1. CASE d = c
      BY <1>2, <3>1
    <3>2. CASE d # c
      <4>1. controls'[d].auto = controls[d].auto /\ controls[d].auto \in Nat
            /\ controls[d].auto <= Len(checkpoint)
        BY <1>1, <1>2, <3>2 DEF ControlsType
      <4>2. Len(checkpoint) \in Nat /\ Len(checkpoint') \in Nat
        BY <1>1, LenProperties
      <4> QED
        BY <4>1, <4>2
    <3> QED
      BY <3>1, <3>2
  <2> QED
    BY <1>2, <2>1 DEF PlansOK
<1>5. BookOK'
  <2>1. ASSUME NEW d \in Chapters
        PROVE  /\ controls'[d].status = "succeeded" => \A s \in Steps : Done(run, d, s)
               /\ d < canon => controls'[d].status = "succeeded"
               /\ d > canon => controls'[d].status # "succeeded"
    <3>1. CASE d = c
      BY <1>1, <1>2, <3>1 DEF BookOK
    <3>2. CASE d # c
      BY <1>1, <1>2, <3>2 DEF BookOK
    <3> QED
      BY <3>1, <3>2
  <2> QED
    BY <1>1, <2>1 DEF BookOK
<1>6. x.status # "succeeded" => ControlsKept
  BY <1>2 DEF ControlsKept
<1> QED
  BY <1>2, <1>3, <1>4, <1>5, <1>6 DEF IInv, Quiet

\* A call past the steps goes on to another phase past them, with its chapter.
LEMMA PastSteps ==
  ASSUME IInv, NEW w \in Workers, worker[w].phase \in {"ordering", "asserting"},
         NEW phase \in {"recording", "asserting"}
  PROVE  LET call == [worker[w] EXCEPT !.phase = phase]
         IN  call \in WorkerType /\ Sound(call, run, canon)
<1>1. worker[w] \in WorkerType /\ Sound(worker[w], run, canon)
  BY DEF IInv, CallsOK
<1> QED
  BY <1>1 DEF WorkerType, Sound

\* run_order_controls gives a chapter a result, or changes nothing the cadence sees.
LEMMA RunOrderControlsKeeps ==
  ASSUME IInv, NEW w \in Workers, RunOrderControls(w)
  PROVE  /\ IInv'
         /\ \/ Quiet
            \/ /\ worker[w].chapter \in Chapters /\ worker[w].chapter <= canon
               /\ \A s \in Steps : Done(run, worker[w].chapter, s)
               /\ controls[worker[w].chapter].status # "succeeded"
               /\ controls'[worker[w].chapter].status = "succeeded"
               /\ \A d \in Chapters : d # worker[w].chapter => controls'[d] = controls[d]
               /\ UNCHANGED <<canon, run>>
<1> DEFINE c == worker[w].chapter
           onward == [worker[w] EXCEPT !.phase = "asserting"]
           recording == [worker[w] EXCEPT !.phase = "recording"]
           Concluded(status, k) ==
              controls' = [controls EXCEPT ![c] = [status |-> status, auto |-> k]]
<1>1. /\ worker[w].phase = "ordering" /\ ~At(w, "idle")
      /\ UNCHANGED <<canon, run, acked, reclaims, crashes>>
  BY DEF RunOrderControls, At
<1>2. /\ c \in Chapters /\ c <= canon /\ canon \in Nat /\ canon' = canon
      /\ \A s \in Steps : Done(run, c, s)
  BY <1>1, CallFacts DEF Sound
<1>3. /\ onward \in WorkerType /\ Sound(onward, run, canon)
      /\ recording \in WorkerType /\ Sound(recording, run, canon)
  BY <1>1, PastSteps
<1>4. PlansOK /\ Len(checkpoint) \in Nat /\ checkpoint \in Seq(CheckpointType)
  BY DEF IInv, PlansOK
<1>5. CountersOK' /\ RowsOK' /\ Grows
  BY <1>1, CountersSame, RowsSame
<1>6. \/ \E call \in {onward, recording} : Become(w, call) /\ UNCHANGED <<controls, checkpoint>>
      \/ /\ controls[c].status # "succeeded" /\ Become(w, onward)
         /\ \E status \in {"succeeded", "blocked"} :
              \/ Concluded(status, 0) /\ UNCHANGED checkpoint
              \/ /\ AutoRow(c) # {}
                 /\ Concluded(status, Max(AutoRow(c))) /\ UNCHANGED checkpoint
              \/ /\ Concluded(status, Len(checkpoint) + 1)
                 /\ \E verdict \in {"pass", "warn", "fail"} :
                      checkpoint' = Append(checkpoint,
                          [chapter |-> c, auto |-> TRUE, status |-> verdict])
  BY DEF RunOrderControls, Verdicts
<1> HIDE DEF onward, recording
<1>7. CASE \E call \in {onward, recording} : Become(w, call) /\ UNCHANGED <<controls, checkpoint>>
  BY <1>1, <1>3, <1>5, <1>7, CallMoves
<1>8. CASE /\ controls[c].status # "succeeded" /\ Become(w, onward)
           /\ \E status \in {"succeeded", "blocked"} :
                \/ Concluded(status, 0) /\ UNCHANGED checkpoint
                \/ /\ AutoRow(c) # {}
                   /\ Concluded(status, Max(AutoRow(c))) /\ UNCHANGED checkpoint
                \/ /\ Concluded(status, Len(checkpoint) + 1)
                   /\ \E verdict \in {"pass", "warn", "fail"} :
                        checkpoint' = Append(checkpoint,
                            [chapter |-> c, auto |-> TRUE, status |-> verdict])
  <2>1. Sound(onward, run', canon') /\ CallsOK'
    BY <1>1, <1>2, <1>3, <1>5, <1>8, CallSet DEF IInv
  <2>2. PICK status \in {"succeeded", "blocked"}, k \in Nat :
          /\ Concluded(status, k)
          /\ checkpoint' \in Seq(CheckpointType)
          /\ Len(checkpoint) <= Len(checkpoint') /\ k <= Len(checkpoint')
    <3>1. PICK status \in {"succeeded", "blocked"} :
                \/ Concluded(status, 0) /\ UNCHANGED checkpoint
                \/ /\ AutoRow(c) # {}
                   /\ Concluded(status, Max(AutoRow(c))) /\ UNCHANGED checkpoint
                \/ /\ Concluded(status, Len(checkpoint) + 1)
                   /\ \E verdict \in {"pass", "warn", "fail"} :
                        checkpoint' = Append(checkpoint,
                            [chapter |-> c, auto |-> TRUE, status |-> verdict])
      BY <1>8
    <3> HIDE DEF Concluded
    <3>2. CASE Concluded(status, 0) /\ UNCHANGED checkpoint
      BY <1>4, <3>2
    <3>3. CASE /\ AutoRow(c) # {}
               /\ Concluded(status, Max(AutoRow(c))) /\ UNCHANGED checkpoint
      <4>1. AutoRow(c) \in SUBSET (1..Len(checkpoint))
        BY DEF AutoRow
      <4>2. AutoRow(c) \in SUBSET (0..Len(checkpoint))
        BY <1>4, <4>1
      <4>3. Max(AutoRow(c)) \in 0..Len(checkpoint)
        BY <1>4, <3>3, <4>2, MaxOfBounded
      <4> QED
        BY <1>4, <3>3, <4>3
    <3>4. CASE /\ Concluded(status, Len(checkpoint) + 1)
               /\ \E verdict \in {"pass", "warn", "fail"} :
                    checkpoint' = Append(checkpoint,
                        [chapter |-> c, auto |-> TRUE, status |-> verdict])
      <4>1. PICK verdict \in {"pass", "warn", "fail"} :
              checkpoint' = Append(checkpoint, [chapter |-> c, auto |-> TRUE, status |-> verdict])
        BY <3>4
      <4>2. [chapter |-> c, auto |-> TRUE, status |-> verdict] \in CheckpointType
        BY <1>2 DEF CheckpointType
      <4>3. checkpoint' \in Seq(CheckpointType) /\ Len(checkpoint') = Len(checkpoint) + 1
        BY <1>4, <4>1, <4>2, CheckpointAdded
      <4>4. Len(checkpoint) + 1 \in Nat /\ Len(checkpoint) <= Len(checkpoint')
            /\ Len(checkpoint) + 1 <= Len(checkpoint')
        BY <1>4, <4>3
      <4> QED
        BY <3>4, <4>3, <4>4
    <3> QED
      BY <3>1, <3>2, <3>3, <3>4
  <2> DEFINE x == [status |-> status, auto |-> k]
  <2>3. /\ x \in ControlsType /\ x.status = status /\ x.auto = k
        /\ controls' = [controls EXCEPT ![c] = x]
    BY <2>2 DEF ControlsType
  <2> HIDE DEF x
  <2>4. /\ IInv'
        /\ controls'[c] = x /\ \A d \in Chapters : d # c => controls'[d] = controls[d]
        /\ x.status # "succeeded" => Quiet
    BY <1>1, <1>2, <1>8, <2>1, <2>2, <2>3, ControlsSet
  <2> QED
    BY <1>1, <1>2, <1>8, <2>3, <2>4
<1> QED
  BY <1>6, <1>7, <1>8

LEMMA RecordFailureKeeps ==
  ASSUME IInv, NEW w \in Workers, RecordFailure(w) PROVE IInv' /\ Quiet
<1> DEFINE c == worker[w].chapter
           x == [status |-> "failed", auto |-> 0]
<1>1. /\ worker[w].phase = "recording" /\ ~At(w, "idle") /\ Over(w)
      /\ controls' = IF controls[c].status = "succeeded" THEN controls
                     ELSE [controls EXCEPT ![c] = x]
      /\ UNCHANGED <<canon, run, checkpoint, acked, reclaims, crashes>>
  BY DEF RecordFailure, At
<1>2. /\ c \in Chapters /\ c <= canon /\ canon \in Nat
      /\ \A s \in Steps : Done(run, c, s)
  BY <1>1, CallFacts DEF Sound
<1>3. CASE controls[c].status = "succeeded"
  BY <1>1, <1>3, CountersSame, CallEnds
<1>4. CASE controls[c].status # "succeeded"
  <2>1. x \in ControlsType /\ x.status # "succeeded" /\ x.auto = 0
    BY DEF ControlsType
  <2>2. CallsOK' /\ controls' = [controls EXCEPT ![c] = x]
    BY <1>1, <1>2, <1>4, RowsSame, CallOver DEF IInv
  <2>3. /\ checkpoint' \in Seq(CheckpointType) /\ Len(checkpoint) <= Len(checkpoint')
        /\ 0 <= Len(checkpoint')
    BY <1>1, LenProperties DEF IInv, PlansOK
  <2> HIDE DEF x
  <2> QED
    BY <1>1, <1>2, <1>4, <2>1, <2>2, <2>3, ControlsSet
<1> QED
  BY <1>3, <1>4

LEMMA DelegateKeeps == ASSUME IInv, NEW w \in Workers, Delegate(w) PROVE IInv' /\ Quiet
<1> DEFINE k == controls[worker[w].chapter].auto
<1>1. /\ ~At(w, "idle") /\ k # 0
      /\ checkpoint' = [checkpoint EXCEPT ![k].status = "overridden"]
      /\ UNCHANGED <<canon, run, controls, worker, acked, reclaims, crashes>>
  BY DEF Delegate, At
<1>2. PlansOK /\ Len(checkpoint) \in Nat /\ k \in Nat /\ k <= Len(checkpoint)
  BY <1>1, CallFacts DEF IInv, PlansOK, ControlsType
<1>3. k \in 1..Len(checkpoint)
  BY <1>1, <1>2
<1> HIDE DEF k
<1>4. PlansOK'
  BY <1>1, <1>2, <1>3, CheckpointSet
<1> QED
  BY <1>1, <1>4, CheckpointsChange

LEMMA AssertReadyKeeps == ASSUME IInv, NEW w \in Workers, AssertReady(w) PROVE IInv' /\ Quiet
<1> DEFINE c == worker[w].chapter
           call == [worker[w] EXCEPT !.phase = "checking", !.chapter = c + 1, !.first = FALSE]
<1>1. /\ worker[w].phase = "asserting" /\ ~At(w, "idle")
      /\ (c < worker[w].goal /\ Become(w, call)) \/ Over(w)
      /\ UNCHANGED <<canon, run, controls, checkpoint, acked, reclaims, crashes>>
  BY DEF AssertReady, At
<1>2. /\ worker[w] \in WorkerType
      /\ c \in 1..worker[w].goal /\ worker[w].goal <= canon /\ worker[w].goal \in 0..Book
      /\ worker[w].kind = "event" => c = worker[w].goal
      /\ worker[w].step = 1
  BY <1>1, CallFacts DEF Sound, WorkerType
<1>3. CASE c < worker[w].goal /\ Become(w, call)
  <2>1. c + 1 \in 1..worker[w].goal /\ c + 1 \in 0..Book /\ worker[w].kind # "event"
    BY <1>2, <1>3, PostCanonAssumption DEF PostCanonAssumption
  <2>2. call \in WorkerType
    BY <1>2, <2>1 DEF WorkerType
  <2>3. Sound(call, run, canon)
    BY <1>2, <2>1 DEF Sound, WorkerType
  <2> HIDE DEF call
  <2> QED
    BY <1>1, <1>3, <2>2, <2>3, CountersSame, CallMoves
<1>4. CASE Over(w)
  BY <1>1, <1>4, CountersSame, CallEnds
<1> QED
  BY <1>1, <1>3, <1>4

-----------------------------------------------------------------------------
LEMMA ExpireKeeps ==
  ASSUME IInv, NEW c \in Chapters, NEW s \in Steps, Expire(c, s) PROVE IInv' /\ Quiet
<1> DEFINE row == [run[c][s] EXCEPT !.live = FALSE]
<1>1. /\ run[c][s].live
      /\ UNCHANGED <<canon, controls, checkpoint, worker, acked, reclaims, crashes>>
  BY DEF Expire
<1>2. /\ run[c][s] \in RunType /\ run[c][s].status = "running"
      /\ run[c][s].epoch <= reclaims + 1 /\ reclaims \in 0..MaxReclaims /\ canon \in Nat
      /\ reclaims >= reclaims
  BY <1>1 DEF IInv, RowsOK, CountersOK, BookOK
<1>3. /\ row \in RunType /\ row.status = "running" /\ row.epoch = run[c][s].epoch
      /\ Replaced(c, s, row)
  BY <1>2 DEF RunType, Replaced, Expire
<1> HIDE DEF row
<1>4. /\ RowsOK' /\ Grows /\ run'[c][s] = row
      /\ \A d \in Chapters, t \in Steps : (d # c \/ t # s) => run'[d][t] = run[d][t]
  BY <1>1, <1>2, <1>3, RowStep DEF Done
<1>5. RunKept
  BY <1>2, <1>3, <1>4 DEF RunKept, Done
<1>6. PlansOK' /\ ControlsKept /\ CountersOK'
  BY <1>1, PlansSame, CountersSame
<1>7. BookOK'
  BY <1>1, <1>4, <1>5, <1>6, BookSame DEF RunKept
<1>8. CallsOK'
  BY <1>1, <1>2, <1>4, CallsSame DEF IInv
<1> QED
  BY <1>1, <1>4, <1>5, <1>6, <1>7, <1>8 DEF IInv, Quiet

LEMMA CrashKeeps == ASSUME IInv, NEW w \in Workers, Crash(w) PROVE IInv' /\ Quiet
<1>1. CountersOK'
  BY PostCanonAssumption DEF Crash, IInv, CountersOK, PostCanonAssumption
<1> QED
  BY <1>1, CallEnds DEF Crash

-----------------------------------------------------------------------------
(* Theorems *)

LEMMA InitHolds == Init => IInv
<1> SUFFICES ASSUME Init PROVE IInv
  OBVIOUS
<1>1. /\ canon = 0 /\ acked = {} /\ reclaims = 0 /\ crashes = 0 /\ checkpoint = <<>>
      /\ worker = [w \in Workers |-> Idle]
      /\ controls = [c \in Chapters |-> [status |-> "none", auto |-> 0]]
      /\ run = [c \in Chapters |-> [s \in Steps |->
                  [status |-> "absent", owner |-> None, epoch |-> 0,
                   live |-> FALSE, by |-> 0]]]
  BY DEF Init
<1>2. [status |-> "absent", owner |-> None, epoch |-> 0, live |-> FALSE, by |-> 0] \in RunType
  BY PostCanonAssumption DEF RunType, PostCanonAssumption
<1>3. RowsOK
  BY <1>1, <1>2 DEF RowsOK, Done
<1>4. CallsOK
  BY <1>1, IdleSound DEF CallsOK
<1>5. PlansOK
  <2>1. checkpoint \in Seq(CheckpointType) /\ Len(checkpoint) = 0
    BY <1>1
  <2>2. controls \in [Chapters -> ControlsType] /\ \A c \in Chapters : controls[c].auto = 0
    BY <1>1 DEF ControlsType
  <2> QED
    BY <2>1, <2>2 DEF PlansOK
<1>6. BookOK
  BY <1>1, PostCanonAssumption DEF BookOK, Done, Chapters, PostCanonAssumption
<1>7. CountersOK
  BY <1>1, PostCanonAssumption DEF CountersOK, PostCanonAssumption
<1> QED
  BY <1>3, <1>4, <1>5, <1>6, <1>7 DEF IInv

\* A stage of the cadence is reached: the claimed step of a call succeeds.
StepSucceeds(w) == Complete(w) /\ ~worker[w].lost /\ Holds(w)

\* Every step preserves the invariant, and is a commit, the success of a step or
\* of order controls, or quiet.
LEMMA StepHolds ==
  ASSUME IInv, [Next]_vars
  PROVE  /\ IInv'
         /\ \/ Quiet
            \/ Commit
            \/ \E w \in Workers : StepSucceeds(w) \/ (RunOrderControls(w) /\ ~Quiet)
<1>1. CASE UNCHANGED vars
  <2>1. UNCHANGED <<canon, run, controls, checkpoint, worker, acked, reclaims, crashes>>
    BY <1>1 DEF vars
  <2>2. RowsOK' /\ Grows /\ RunKept /\ PlansOK' /\ ControlsKept /\ CountersOK' /\ canon \in Nat
    BY <2>1, RowsSame, PlansSame, CountersSame DEF IInv, BookOK
  <2>3. CallsOK' /\ BookOK'
    BY <2>1, <2>2, CallsSame, BookSame DEF IInv, RunKept
  <2> QED
    BY <2>1, <2>2, <2>3 DEF IInv, Quiet
<1>2. CASE Commit
  BY <1>2, CommitKeeps
<1>3. CASE \E c \in Chapters : CreateManual(c)
  BY <1>3, CreateManualKeeps
<1>4. CASE \E b \in BandEnds : Approve(b)
  BY <1>4, ApproveKeeps
<1>5. CASE \E c \in Chapters, s \in Steps : Expire(c, s)
  BY <1>5, ExpireKeeps
<1>6. ASSUME NEW w \in Workers,
             \/ \E c \in Chapters : Begin(w, c)
             \/ ClaimStep(w) \/ Heartbeat(w) \/ Proceed(w) \/ Delegate(w) \/ Crash(w)
      PROVE  IInv' /\ (Quiet \/ StepSucceeds(w) \/ (RunOrderControls(w) /\ ~Quiet))
  <2>1. CASE \E c \in Chapters : Begin(w, c)
    BY <2>1, BeginKeeps
  <2>2. CASE ClaimStep(w) \/ Heartbeat(w) \/ Delegate(w) \/ Crash(w)
    BY <2>2, ClaimStepKeeps, HeartbeatKeeps, DelegateKeeps, CrashKeeps
  <2>3. CASE CheckPrevious(w) \/ Busy(w) \/ Start(w) \/ StepRaises(w) \/ Fail(w)
    BY <2>3, CheckPreviousKeeps, BusyKeeps, StartKeeps, StepRaisesKeeps, FailKeeps
  <2>4. CASE Ack(w) \/ RecordFailure(w) \/ AssertReady(w)
    BY <2>4, AckKeeps, RecordFailureKeeps, AssertReadyKeeps
  <2>5. CASE Complete(w)
    BY <2>5, CompleteSucceeds, CompleteFails DEF StepSucceeds
  <2>6. CASE RunOrderControls(w)
    BY <2>6, RunOrderControlsKeeps
  <2> QED
    BY <1>6, <2>1, <2>2, <2>3, <2>4, <2>5, <2>6 DEF Proceed
<1> QED
  BY <1>1, <1>2, <1>3, <1>4, <1>5, <1>6 DEF Next

\* The inductive invariant holds in every reachable state.
THEOREM Invariance == Spec => []IInv
<1>1. IInv /\ [Next]_vars => IInv'
  BY StepHolds
<1> QED
  BY InitHolds, <1>1, PTL DEF Spec

\* Rows, controls, checkpoints and calls are well typed; only a running row is
\* under a lease, and controls name checkpoints that exist.
THEOREM TypeCorrect == Spec => []TypeOK
<1>1. IInv => TypeOK
  BY InvariantTypes
<1> QED
  BY Invariance, <1>1, PTL

\* The result of a maintenance step is that of the row's last claim, for any
\* number of workers and whatever ids they share (_claim_predicates).
THEOREM LastClaimRecords == Spec => []RecordedByHolder
<1>1. IInv => RecordedByHolder
  BY DEF IInv, RowsOK, RecordedByHolder, Done
<1> QED
  BY Invariance, <1>1, PTL

\* An acknowledged event is one whose three steps succeeded.
THEOREM AckFollowsSteps == Spec => []AckedIsMaintained
<1>1. IInv => AckedIsMaintained
  BY DEF IInv, BookOK, AckedIsMaintained, Maintained, Done
<1> QED
  BY Invariance, <1>1, PTL

-----------------------------------------------------------------------------
(* A lapsed claim *)

\* No row that lapsed changes but for a new claim.
LapsedKept ==
    \A c \in Chapters, s \in Steps :
        /\ run[c][s].status = "running" /\ ~run[c][s].live
        /\ run'[c][s].epoch = run[c][s].epoch
        => run'[c][s] = run[c][s]

\* One row is written, which has not lapsed or is claimed.
LEMMA WritesOne ==
  ASSUME IInv, NEW c \in Chapters, NEW s \in Steps, NEW row \in RunType, Replaced(c, s, row),
         run[c][s].live \/ row.epoch # run[c][s].epoch
  PROVE  LapsedKept
<1>1. run \in [Chapters -> [Steps -> RunType]]
  BY DEF IInv, RowsOK
<1>2. /\ run'[c][s] = row
      /\ \A d \in Chapters, t \in Steps : (d # c \/ t # s) => run'[d][t] = run[d][t]
  BY <1>1, RowSet DEF Replaced
<1> QED
  BY <1>2 DEF LapsedKept

\* A holder writes its own row.
LEMMA HolderWrites ==
  ASSUME IInv, NEW w \in Workers, ~At(w, "idle"), Holds(w), NEW row \in RunType, SetRun(w, row)
  PROVE  LapsedKept
BY CallFacts, HeldRow, WritesOne DEF SetRun, Replaced

LEMMA ClaimWrites == ASSUME IInv, NEW w \in Workers, ClaimStep(w) PROVE LapsedKept
<1> DEFINE row == run[worker[w].chapter][worker[w].step]
           new == [row EXCEPT !.status = "running", !.owner = Name[w],
                              !.epoch = row.epoch + 1, !.live = TRUE]
<1>1. ~At(w, "idle")
  BY DEF ClaimStep, At
<1>2. /\ worker[w].chapter \in Chapters /\ worker[w].step \in Steps /\ row \in RunType
      /\ row.epoch \in Nat
  BY <1>1, CallFacts DEF RunType
<1>3. CASE UNCHANGED run
  BY <1>3 DEF LapsedKept
<1>4. CASE /\ row.epoch > 0 => reclaims < MaxReclaims
           /\ SetRun(w, new)
  <2>1. row.epoch + 1 \in 0..(MaxReclaims + 1)
    <3>1. reclaims \in 0..MaxReclaims /\ MaxReclaims \in Nat /\ row.epoch <= reclaims + 1
      BY <1>2, PostCanonAssumption DEF IInv, RowsOK, CountersOK, PostCanonAssumption
    <3> HIDE DEF row
    <3> QED
      BY <1>2, <1>4, <3>1
  <2>2. new \in RunType /\ new.epoch = row.epoch + 1
    BY <1>2, <2>1 DEF RunType, Names
  <2>3. Replaced(worker[w].chapter, worker[w].step, new)
    BY <1>4 DEF SetRun, Replaced
  <2>4. new.epoch # row.epoch
    BY <1>2, <2>2
  <2> HIDE DEF new
  <2> QED
    BY <1>2, <2>2, <2>3, <2>4, WritesOne
<1> QED
  BY <1>3, <1>4 DEF ClaimStep

LEMMA SettledType ==
  ASSUME NEW row \in RunType, NEW status \in {"failed", "succeeded"}, NEW n \in 0..(MaxReclaims + 1)
  PROVE  /\ Settled(row, status) \in RunType
         /\ [Settled(row, status) EXCEPT !.by = n] \in RunType
BY DEF Settled, RunType

LEMMA HolderActs ==
  ASSUME IInv, NEW w \in Workers, Heartbeat(w) \/ Complete(w) \/ Fail(w) PROVE LapsedKept
<1> DEFINE row == run[worker[w].chapter][worker[w].step]
<1>1. ~At(w, "idle")
  BY DEF Heartbeat, Complete, Fail, At
<1>2. row \in RunType /\ worker[w].epoch \in 0..(MaxReclaims + 1)
  BY <1>1, CallFacts DEF WorkerType
<1>3. CASE UNCHANGED run
  BY <1>3 DEF LapsedKept
<1>4. CASE Holds(w) /\ SetRun(w, [row EXCEPT !.live = TRUE])
  <2>1. [row EXCEPT !.live = TRUE] \in RunType
    BY <1>2 DEF RunType
  <2> QED
    BY <1>1, <1>4, <2>1, HolderWrites
<1>5. CASE Holds(w) /\ SetRun(w, [Settled(row, "succeeded") EXCEPT !.by = worker[w].epoch])
  BY <1>1, <1>2, <1>5, SettledType, HolderWrites
<1>6. CASE Holds(w) /\ SetRun(w, Settled(row, "failed"))
  BY <1>1, <1>2, <1>6, SettledType, HolderWrites
<1> QED
  BY <1>3, <1>4, <1>5, <1>6 DEF Heartbeat, Complete, Fail

LEMMA CheckWrites == ASSUME IInv, NEW w \in Workers, CheckPrevious(w) PROVE LapsedKept
<1> DEFINE c == worker[w].chapter
           rows == [s \in Steps |->
                 IF run[c][s].status = "absent"
                 THEN [run[c][s] EXCEPT !.status = "pending"] ELSE run[c][s]]
<1>1. run' = [run EXCEPT ![c] = rows] /\ ~At(w, "idle")
  BY DEF CheckPrevious, At
<1>2. run \in [Chapters -> [Steps -> RunType]] /\ c \in Chapters
  BY <1>1, CallFacts DEF IInv, RowsOK
<1>3. \A s \in Steps : run[c][s].status = "running" => rows[s] = run[c][s]
  OBVIOUS
<1> HIDE DEF rows
<1>4. run'[c] = rows /\ \A d \in Chapters : d # c => run'[d] = run[d]
  BY <1>1, <1>2
<1> QED
  BY <1>3, <1>4 DEF LapsedKept

LEMMA ExpireWrites ==
  ASSUME IInv, NEW c \in Chapters, NEW s \in Steps, Expire(c, s) PROVE LapsedKept
<1> DEFINE row == [run[c][s] EXCEPT !.live = FALSE]
<1>1. run[c][s] \in RunType
  BY DEF IInv, RowsOK
<1>2. row \in RunType /\ Replaced(c, s, row) /\ run[c][s].live
  BY <1>1 DEF RunType, Expire, Replaced
<1> HIDE DEF row
<1> QED
  BY <1>2, WritesOne

\* A lease that ran out is never revived, and the claim it belonged to writes
\* nothing more, whatever calls and workers are under way (the lease conditions of
\* _heartbeat_claim, _lock_owned_claim and _fail_claim).
THEOREM LapsedWritesNothing == Spec => LapsedClaimIsDead
<1>1. ASSUME IInv, [Next]_vars PROVE LapsedKept
  <2>1. CASE UNCHANGED run
    BY <2>1 DEF LapsedKept
  <2>2. CASE \E c \in Chapters, s \in Steps : Expire(c, s)
    BY <1>1, <2>2, ExpireWrites
  <2>3. CASE \E w \in Workers : \/ ClaimStep(w) \/ Heartbeat(w) \/ Complete(w)
                                \/ Fail(w) \/ CheckPrevious(w)
    BY <1>1, <2>3, ClaimWrites, HolderActs, CheckWrites
  <2>4. UNCHANGED run \/ (\E c \in Chapters, s \in Steps : Expire(c, s))
        \/ \E w \in Workers : \/ ClaimStep(w) \/ Heartbeat(w) \/ Complete(w)
                               \/ Fail(w) \/ CheckPrevious(w)
    <3>1. CASE Commit \/ (\E c \in Chapters : CreateManual(c)) \/ (\E b \in BandEnds : Approve(b))
               \/ UNCHANGED vars
      BY <3>1 DEF Commit, CreateManual, Approve, vars
    <3>2. ASSUME NEW w \in Workers,
                 \/ \E c \in Chapters : Begin(w, c)
                 \/ Delegate(w) \/ Crash(w) \/ Busy(w) \/ Start(w) \/ StepRaises(w) \/ Ack(w)
                 \/ RunOrderControls(w) \/ RecordFailure(w) \/ AssertReady(w)
          PROVE  UNCHANGED run
      BY <3>2 DEF Begin, Delegate, Crash, Busy, Start, StepRaises, Ack,
                  RunOrderControls, RecordFailure, AssertReady
    <3> QED
      BY <1>1, <3>1, <3>2 DEF Next, Proceed
  <2> QED
    BY <2>1, <2>2, <2>3, <2>4
<1>2. IInv /\ [Next]_vars =>
        [\A c \in Chapters, s \in Steps :
            /\ run[c][s].status = "running" /\ ~run[c][s].live
            /\ run'[c][s].epoch = run[c][s].epoch
            => run'[c][s] = run[c][s]]_vars
  BY <1>1 DEF LapsedKept
<1> QED
  BY Invariance, <1>2, PTL DEF Spec, LapsedClaimIsDead

-----------------------------------------------------------------------------
(* The cadence of the book *)

\* The stages of a chapter with n chapters in canon, the rows r and the controls k.
StagesIn(n, r, k, c) ==
    {s \in {1} : n >= c} \cup {s + 1 : s \in {q \in Steps : r[c][q].status = "succeeded"}}
        \cup {s \in {5} : k[c].status = "succeeded"}

LEMMA StagesAre ==
  ASSUME NEW c \in Chapters
  PROVE  Stages(c) = StagesIn(canon, run, controls, c)
         /\ Stages(c)' = StagesIn(canon', run', controls', c)
BY DEF Stages, StagesIn

LEMMA StageOf ==
  ASSUME NEW n, NEW r, NEW k, NEW c
  PROVE  \A x : x \in StagesIn(n, r, k, c) <=>
           \/ x = 1 /\ n >= c
           \/ x = 2 /\ Done(r, c, 1)
           \/ x = 3 /\ Done(r, c, 2)
           \/ x = 4 /\ Done(r, c, 3)
           \/ x = 5 /\ k[c].status = "succeeded"
BY StepNumbers DEF StagesIn, Done

\* A chapter behind the last one in canon, or a last one that is ready, is through.
LEMMA ThroughBehind ==
  ASSUME IInv, NEW d \in Chapters, d <= canon, controls[d].status = "succeeded"
  PROVE  Stages(d) = 1..5
<1>1. \A s \in Steps : Done(run, d, s)
  BY DEF IInv, BookOK
<1>2. Done(run, d, 1) /\ Done(run, d, 2) /\ Done(run, d, 3)
  BY <1>1, StepNumbers
<1>3. canon >= d
  BY DEF IInv, BookOK, Chapters
<1>4. \A x : x \in StagesIn(canon, run, controls, d) <=> x \in 1..5
  BY <1>2, <1>3, StageOf
<1> QED
  BY <1>4, StagesAre

\* Nothing the cadence sees has changed.
LEMMA QuietStutters == ASSUME IInv, Quiet, NEW c \in Chapters PROVE Stages(c)' = Stages(c)
<1>1. canon' = canon /\ (controls'[c].status = "succeeded" <=> controls[c].status = "succeeded")
  BY DEF Quiet, ControlsKept
<1>2. /\ Done(run', c, 1) <=> Done(run, c, 1)
      /\ Done(run', c, 2) <=> Done(run, c, 2)
      /\ Done(run', c, 3) <=> Done(run, c, 3)
  BY StepNumbers DEF Quiet, RunKept
<1>3. \A x : x \in StagesIn(canon', run', controls', c) <=> x \in StagesIn(canon, run, controls, c)
  BY <1>1, <1>2, StageOf
<1> QED
  BY <1>3, StagesAre

\* A stage of one chapter is reached in its turn.
LEMMA StageReached ==
  ASSUME NEW c \in Chapters, NEW x \in 1..5, x \notin Stages(c),
         \A r \in 1..5 : r < x => r \in Stages(c),
         \A d \in Chapters : d < c => Stages(d) = 1..5,
         Stages(c)' = Stages(c) \cup {x},
         \A d \in Chapters : d # c => Stages(d)' = Stages(d)
  PROVE  Cadence!Next
<1>1. Cadence!Do(c, x)
  BY DEF Cadence!Do
<1> QED
  BY <1>1 DEF Cadence!Next

LEMMA CommitFollows == ASSUME IInv, Commit PROVE Cadence!Next
<1>1. /\ canon \in 0..Book /\ canon < Book /\ canon' = canon + 1 /\ UNCHANGED <<run, controls>>
      /\ canon > 0 => Ready(canon)
  BY DEF Commit, IInv, BookOK
<1>2. PICK c \in Chapters : c = canon + 1 /\ canon \in Nat
  BY <1>1, PostCanonAssumption DEF Chapters, PostCanonAssumption
<1>3. /\ ~(canon >= c) /\ c > canon /\ controls[c].status # "succeeded"
      /\ \A s \in Steps : ~Done(run, c, s)
  BY <1>2 DEF IInv, BookOK
<1>4. \A x : x \notin Stages(c)
  BY <1>2, <1>3, StagesAre, StageOf, StepNumbers
<1>5. \A x : x \in Stages(c)' <=> x = 1
  <2>1. canon' >= c
    BY <1>1, <1>2
  <2> QED
    BY <1>1, <1>2, <1>3, <2>1, StagesAre, StageOf, StepNumbers
<1>6. ASSUME NEW d \in Chapters, d # c PROVE Stages(d)' = Stages(d)
  <2>1. (canon' >= d) <=> (canon >= d)
    BY <1>1, <1>2, <1>6 DEF Chapters
  <2>2. \A x : x \in StagesIn(canon', run', controls', d)
               <=> x \in StagesIn(canon, run, controls, d)
    BY <1>1, <2>1, StageOf
  <2>3. StagesIn(canon', run', controls', d) = StagesIn(canon, run, controls, d)
    BY <2>2
  <2> QED
    BY <2>3, StagesAre
<1>7. ASSUME NEW d \in Chapters, d < c PROVE Stages(d) = 1..5
  <2>1. d \in Nat /\ d > 0 /\ d <= canon
    BY <1>2, <1>7 DEF Chapters
  <2>2. d < canon \/ (d = canon /\ canon > 0)
    BY <1>2, <2>1
  <2>3. controls[d].status = "succeeded"
    BY <1>1, <2>2 DEF IInv, BookOK, Ready
  <2> QED
    BY <2>1, <2>3, ThroughBehind
<1> QED
  BY <1>2, <1>4, <1>5, <1>6, <1>7, StageReached

\* The chapters before one in canon are through.
LEMMA ThroughBefore ==
  ASSUME IInv, NEW c \in Chapters, c <= canon, NEW d \in Chapters, d < c
  PROVE  Stages(d) = 1..5
<1>1. d < canon /\ d <= canon
  BY DEF IInv, BookOK, Chapters
<1>2. controls[d].status = "succeeded"
  BY <1>1 DEF IInv, BookOK
<1> QED
  BY <1>1, <1>2, ThroughBehind

LEMMA StepFollows == ASSUME IInv, NEW w \in Workers, StepSucceeds(w) PROVE Cadence!Next
<1>1. PICK c \in Chapters, s \in Steps :
      /\ c <= canon
      /\ ~Done(run, c, s) /\ Done(run', c, s)
      /\ \A q \in Steps : q < s => Done(run, c, q)
      /\ \A d \in Chapters, t \in Steps : (d # c \/ t # s) => run'[d][t] = run[d][t]
      /\ UNCHANGED <<canon, controls>>
  BY CompleteSucceeds DEF StepSucceeds
<1>2. canon >= c
  BY <1>1 DEF IInv, BookOK, Chapters
<1>3. \A t \in Steps : Done(run', c, t) <=> Done(run, c, t) \/ t = s
  BY <1>1 DEF Done
<1>4. s + 1 \notin Stages(c) /\ (\A r \in 1..5 : r < s + 1 => r \in Stages(c))
  BY <1>1, <1>2, StagesAre, StageOf, StepNumbers
<1>5. Stages(c)' = Stages(c) \cup {s + 1}
  <2>1. \A x : x \in StagesIn(canon', run', controls', c)
               <=> x \in StagesIn(canon, run, controls, c) \/ x = s + 1
    BY <1>1, <1>3, StageOf, StepNumbers
  <2> QED
    BY <1>1, <2>1, StagesAre
<1>6. ASSUME NEW d \in Chapters, d # c PROVE Stages(d)' = Stages(d)
  <2>1. \A t \in Steps : Done(run', d, t) <=> Done(run, d, t)
    BY <1>1, <1>6 DEF Done
  <2>2. \A x : x \in StagesIn(canon', run', controls', d)
               <=> x \in StagesIn(canon, run, controls, d)
    BY <1>1, <2>1, StageOf, StepNumbers
  <2>3. StagesIn(canon', run', controls', d) = StagesIn(canon, run, controls, d)
    BY <2>2
  <2> QED
    BY <2>3, StagesAre
<1>7. s + 1 \in 1..5
  BY <1>1, StepNumbers
<1>8. \A d \in Chapters : d < c => Stages(d) = 1..5
  BY <1>1, ThroughBefore
<1> QED
  BY <1>1, <1>4, <1>5, <1>6, <1>7, <1>8, StageReached

LEMMA ControlsFollow ==
  ASSUME IInv, NEW w \in Workers, RunOrderControls(w), ~Quiet PROVE Cadence!Next
<1>1. PICK c \in Chapters :
      /\ c <= canon
      /\ \A s \in Steps : Done(run, c, s)
      /\ controls[c].status # "succeeded" /\ controls'[c].status = "succeeded"
      /\ \A d \in Chapters : d # c => controls'[d] = controls[d]
      /\ UNCHANGED <<canon, run>>
  BY RunOrderControlsKeeps
<1>2. canon >= c
  BY <1>1 DEF IInv, BookOK, Chapters
<1>3. 5 \notin Stages(c) /\ (\A r \in 1..5 : r < 5 => r \in Stages(c))
  BY <1>1, <1>2, StagesAre, StageOf, StepNumbers
<1>4. Stages(c)' = Stages(c) \cup {5}
  <2>1. \A x : x \in StagesIn(canon', run', controls', c)
               <=> x \in StagesIn(canon, run, controls, c) \/ x = 5
    BY <1>1, StageOf
  <2> QED
    BY <1>1, <2>1, StagesAre
<1>5. ASSUME NEW d \in Chapters, d # c PROVE Stages(d)' = Stages(d)
  <2>1. \A x : x \in StagesIn(canon', run', controls', d)
               <=> x \in StagesIn(canon, run, controls, d)
    BY <1>1, <1>5, StageOf
  <2>2. StagesIn(canon', run', controls', d) = StagesIn(canon, run, controls, d)
    BY <2>1
  <2> QED
    BY <2>2, StagesAre
<1>6. \A d \in Chapters : d < c => Stages(d) = 1..5
  BY <1>1, ThroughBefore
<1> QED
  BY <1>1, <1>3, <1>4, <1>5, <1>6, StageReached

\* Maintenance keeps the cadence of the book: a chapter enters canon, has its
\* steps and its controls done in order, once, and only then does the next enter
\* (_assert_previous_canon_ready, run, run_order_controls and the barrier of
\* admit_canon), for every book and any number of callers.
THEOREM KeepsCadence == Spec => FollowsCadence
<1>1. Init => Cadence!Init
  <2> SUFFICES ASSUME Init PROVE \A c \in Chapters : Stages(c) = {}
    BY DEF Cadence!Init
  <2>1. TAKE c \in Chapters
  <2>2. ~(canon >= c) /\ controls[c].status # "succeeded" /\ \A s \in Steps : ~Done(run, c, s)
    BY DEF Init, Done, Chapters
  <2>3. \A x : x \notin StagesIn(canon, run, controls, c)
    BY <2>2, StageOf, StepNumbers
  <2> QED
    BY <2>3, StagesAre
<1>2. IInv /\ [Next]_vars => [Cadence!Next]_([c \in Chapters |-> Stages(c)])
  <2> SUFFICES ASSUME IInv, [Next]_vars, ~Cadence!Next
               PROVE  [c \in Chapters |-> Stages(c)]' = [c \in Chapters |-> Stages(c)]
    OBVIOUS
  <2>1. Quiet
    BY StepHolds, CommitFollows, StepFollows, ControlsFollow
  <2>2. \A c \in Chapters : Stages(c)' = Stages(c)
    BY <2>1, QuietStutters
  <2> QED
    BY <2>2
<1> QED
  BY Invariance, <1>1, <1>2, PTL DEF Spec, FollowsCadence, Cadence!Spec
=============================================================================
