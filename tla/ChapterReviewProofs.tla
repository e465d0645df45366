------------------------ MODULE ChapterReviewProofs ------------------------
(***************************************************************************)
(* Theorems about ChapterReview, for every length of the book, bound on    *)
(* versions, number of generation workers and number of approve requests.  *)
(***************************************************************************)
EXTENDS ChapterReview, Extrema, FiniteSetTheorems, SequenceTheorems, TLAPS

USE DEF Chapters

(* The inductive invariant *)

RunType == [at : {"idle", "next", "writing", "judging", "preparing", "repairing", "committing",
                  "committed", "refused", "ending", "deciding", "retrying", "enqueueing"},
            todo : SUBSET Chapters, chapter : {0} \cup Chapters,
            plan : CommitPlan \cup {NoPlan},
            result : {"none", "clean", "stopped", "paused"}]

ApprovalType == [at : {"free", "preparing", "committing", "refused", "blocked", "retrying",
                       "accepted", "enqueueing", "answered"},
                 chapter : {0} \cup Chapters, version : Nat, plan : CommitPlan \cup {NoPlan},
                 seen : PlanStatus \cup {"none"}, kept : CandidateStatus \cup {"none"},
                 continue : BOOLEAN]

RowsOK ==
    /\ plan \in [Chapters -> PlanStatus]
    /\ version \in [Chapters -> Seq(Candidate)]
    /\ \A c \in Chapters : Latest(c) <= MaxVersions[c]
    /\ asked \in [Chapters -> SUBSET Marker]
    /\ retried \in [Chapters -> Nat]
    /\ task \in {"none", "queued", "running"}

\* A run that is at a chapter has one, and the version it works on is there.
RunOK(run, drafts) ==
    /\ run.at \in {"writing", "judging", "preparing", "repairing", "committing", "committed",
                   "refused", "retrying"} => run.chapter \in Chapters
    /\ run.at \in {"judging", "preparing", "repairing", "committing"} => drafts[run.chapter] # << >>
    /\ run.at \in {"ending", "deciding"} /\ run.result = "paused" => run.chapter \in Chapters

\* So has an approve request.
ApprovalOK(request, drafts) ==
    /\ request.at \in {"preparing", "committing", "refused", "blocked", "retrying"} =>
          request.chapter \in Chapters
    /\ request.at \in {"preparing", "committing"} =>
          request.version \in DOMAIN drafts[request.chapter]

CallsOK ==
    /\ worker \in [Workers -> RunType]
    /\ approver \in [Approvers -> ApprovalType]
    /\ \A w \in Workers : RunOK(worker[w], version)
    /\ \A a \in Approvers : ApprovalOK(approver[a], version)

\* A rewrite is pending only where there is a text to replace.
TextOK ==
    /\ AcceptedIsCanon
    /\ \A c \in Chapters : asked[c] # {} => InCanon(c) # {}

\* The actors that have read chapter c as never retried, and will reset it.
Retrying(c) == {w \in Workers : worker[w].at = "retrying" /\ worker[w].chapter = c}
               \cup {a \in Approvers : approver[a].at = "retrying" /\ approver[a].chapter = c}

Actors == Workers \cup Approvers

RetriesOK ==
    \A c \in Chapters : retried[c] + Cardinality(Retrying(c)) <= Cardinality(Actors)

IInv == RowsOK /\ CallsOK /\ TextOK /\ RetriesOK

-----------------------------------------------------------------------------
(* What a step does to the text of the chapters *)

Past(c) == {v \in DOMAIN version[c] : version[c][v].record = "superseded"}

\* The versions stay and at most one more is written.
Grows ==
    /\ version' \in [Chapters -> Seq(Candidate)]
    /\ \A c \in Chapters : Len(version[c]) <= Len(version'[c]) /\ Len(version'[c]) <= MaxVersions[c]

SameText(c) == InCanon(c)' = InCanon(c) /\ Past(c)' = Past(c)

\* A step that neither changes the text nor shows more of it as accepted.
Quiet ==
    /\ \A c \in Chapters : SameText(c)
    /\ asked' = asked
    /\ plan' \in [Chapters -> PlanStatus]
    /\ \A c \in Chapters : plan'[c] = "accepted" => plan[c] = "accepted"

\* A rewrite is asked for.
Asks(c) ==
    /\ \A d \in Chapters : SameText(d)
    /\ plan[c] = "accepted" /\ InCanon(c) # {}
    /\ \E m \in Marker : asked' = [asked EXCEPT ![c] = @ \cup {m}]
    /\ plan' = [plan EXCEPT ![c] = "planned"]

\* Version v of c enters canon in the place of what was there.
Enters(c, v) ==
    /\ v \in DOMAIN version[c] /\ version[c][v].record = "none"
    /\ \E p \in CommitPlan \cup {NoPlan} : Revalidates(c, v, p)
    /\ InCanon(c)' = {v} /\ Past(c)' = Past(c) \cup InCanon(c)
    /\ \A d \in Chapters \ {c} : SameText(d)
    /\ asked' = [asked EXCEPT ![c] = {}]
    /\ plan' = [plan EXCEPT ![c] = "accepted"]

Text == Quiet \/ \E c \in Chapters : Asks(c) \/ \E v \in DOMAIN version[c] : Enters(c, v)

\* A candidate is written in place, its commit record kept.
LEMMA RowWritten ==
  ASSUME RowsOK, NEW c \in Chapters, NEW v \in DOMAIN version[c], NEW row \in Candidate,
         row.record = version[c][v].record,
         version' = [version EXCEPT ![c] = [version[c] EXCEPT ![v] = row]]
  PROVE  Grows /\ \A d \in Chapters : SameText(d)
<1>1. version[c] \in Seq(Candidate) /\ v \in 1..Len(version[c])
  BY DEF RowsOK
<1>2. [version[c] EXCEPT ![v] = row] \in Seq(Candidate)
      /\ Len([version[c] EXCEPT ![v] = row]) = Len(version[c])
  BY <1>1
<1>3. Grows
  BY <1>2 DEF RowsOK, Grows, Latest
<1>4. \A d \in Chapters : DOMAIN version'[d] = DOMAIN version[d]
  BY <1>1 DEF RowsOK
<1>5. \A d \in Chapters : \A u \in DOMAIN version[d] : version'[d][u].record = version[d][u].record
  BY <1>1 DEF RowsOK
<1>6. \A d \in Chapters : SameText(d)
  BY <1>4, <1>5 DEF SameText, InCanon, Past
<1> QED
  BY <1>3, <1>6

\* A new version is in canon nowhere yet.
LEMMA VersionWritten ==
  ASSUME RowsOK, NEW c \in Chapters, NewVersion(c)
  PROVE  Grows /\ (\A d \in Chapters : SameText(d)) /\ version'[c] # << >>
<1> DEFINE new == [status |-> "reviewed", plan |-> NoPlan, record |-> "none"]
<1>1. version[c] \in Seq(Candidate) /\ new \in Candidate /\ Len(version[c]) < MaxVersions[c]
  BY DEF RowsOK, NewVersion, Candidate, CandidateStatus, Latest
<1>2. /\ Append(version[c], new) \in Seq(Candidate)
      /\ Len(Append(version[c], new)) = Len(version[c]) + 1
  BY <1>1
<1>3. version' = [version EXCEPT ![c] = Append(version[c], new)]
  BY DEF NewVersion
<1> HIDE DEF new
<1>4. MaxVersions[c] \in Nat /\ Len(version[c]) \in Nat
  BY <1>1, BoundAssumption
<1>5. Grows /\ version'[c] # << >>
  BY <1>1, <1>2, <1>3, <1>4 DEF RowsOK, Grows, Latest
<1>6. \A u \in 1..Len(version[c]) : version'[c][u] = version[c][u]
  BY <1>1, <1>2, <1>3 DEF RowsOK
<1>7. version'[c][Len(version[c]) + 1].record = "none"
  BY <1>1, <1>2, <1>3 DEF RowsOK, new
<1>8. DOMAIN version'[c] = DOMAIN version[c] \cup {Len(version[c]) + 1}
  BY <1>1, <1>2, <1>3, <1>4 DEF RowsOK
<1>9. SameText(c)
  BY <1>1, <1>6, <1>7, <1>8 DEF SameText, InCanon, Past
<1>10. \A d \in Chapters \ {c} : SameText(d)
  BY <1>3 DEF RowsOK, SameText, InCanon, Past
<1> QED
  BY <1>5, <1>9, <1>10

LEMMA NothingWritten ==
  ASSUME RowsOK, UNCHANGED version
  PROVE  Grows /\ \A d \in Chapters : SameText(d)
BY DEF RowsOK, Grows, SameText, InCanon, Past, Latest

-----------------------------------------------------------------------------
(* What a step does to the calls and to the retries                        *)

\* Each chapter's retry is read, carried out or let alone.
Counts ==
    /\ retried' \in [Chapters -> Nat]
    /\ \A c \in Chapters :
          \/ retried'[c] = retried[c] /\ Retrying(c)' \subseteq Retrying(c)
          \/ retried'[c] = 0
          \/ /\ retried'[c] = retried[c] + 1
             /\ \E x \in Retrying(c) : Retrying(c)' \subseteq Retrying(c) \ {x}

GoodStep == /\ Grows /\ Text
            /\ CallsOK' /\ Counts
            /\ task' \in {"none", "queued", "running"}

\* One worker moves.
LEMMA RunMoves ==
  ASSUME RowsOK, CallsOK, Grows, NEW w \in Workers, worker' = [worker EXCEPT ![w] = worker'[w]],
         worker'[w] \in RunType, RunOK(worker'[w], version'), UNCHANGED approver
  PROVE  /\ CallsOK'
         /\ worker'[w].at # "retrying" /\ UNCHANGED retried => Counts
<1>1. worker' \in [Workers -> RunType] /\ approver' \in [Approvers -> ApprovalType]
  BY DEF CallsOK
<1>2. \A x \in Workers : RunOK(worker'[x], version')
  <2>1. SUFFICES ASSUME NEW x \in Workers, x # w PROVE RunOK(worker'[x], version')
    OBVIOUS
  <2>2. worker'[x] = worker[x] /\ worker[x] \in RunType /\ RunOK(worker[x], version)
    BY <2>1 DEF CallsOK
  <2>3. \A c \in Chapters : version[c] # << >> => version'[c] # << >>
    BY DEF RowsOK, Grows
  <2> QED
    BY <2>2, <2>3 DEF RunOK
<1>3. \A a \in Approvers : ApprovalOK(approver'[a], version')
  <2>1. SUFFICES ASSUME NEW a \in Approvers PROVE ApprovalOK(approver[a], version')
    OBVIOUS
  <2>2. \A c \in Chapters : DOMAIN version[c] \subseteq DOMAIN version'[c]
    BY DEF RowsOK, Grows
  <2> QED
    BY <2>2 DEF ApprovalOK, CallsOK
<1>4. ASSUME worker'[w].at # "retrying", UNCHANGED retried PROVE Counts
  <2>1. \A x \in Workers : worker'[x].at = "retrying" => worker'[x] = worker[x]
    BY <1>4 DEF CallsOK
  <2>2. \A c \in Chapters : Retrying(c)' \subseteq Retrying(c)
    BY <2>1 DEF Retrying
  <2> QED
    BY <1>4, <2>2 DEF Counts, RowsOK
<1> QED
  BY <1>1, <1>2, <1>3, <1>4 DEF CallsOK

\* One approve request moves.
LEMMA ApprovalMoves ==
  ASSUME RowsOK, CallsOK, Grows, NEW a \in Approvers,
         approver' = [approver EXCEPT ![a] = approver'[a]], approver'[a] \in ApprovalType,
         ApprovalOK(approver'[a], version'), UNCHANGED worker
  PROVE  /\ CallsOK'
         /\ approver'[a].at # "retrying" /\ UNCHANGED retried => Counts
<1>1. worker' \in [Workers -> RunType] /\ approver' \in [Approvers -> ApprovalType]
  BY DEF CallsOK
<1>2. \A x \in Workers : RunOK(worker'[x], version')
  <2>1. SUFFICES ASSUME NEW x \in Workers PROVE RunOK(worker[x], version')
    OBVIOUS
  <2>2. worker[x] \in RunType /\ RunOK(worker[x], version)
    BY <2>1 DEF CallsOK
  <2>3. \A c \in Chapters : version[c] # << >> => version'[c] # << >>
    BY DEF RowsOK, Grows
  <2> QED
    BY <2>2, <2>3 DEF RunOK
<1>3. \A x \in Approvers : ApprovalOK(approver'[x], version')
  <2>1. SUFFICES ASSUME NEW x \in Approvers, x # a PROVE ApprovalOK(approver[x], version')
    BY DEF CallsOK
  <2>2. \A c \in Chapters : DOMAIN version[c] \subseteq DOMAIN version'[c]
    BY DEF RowsOK, Grows
  <2> QED
    BY <2>2 DEF ApprovalOK, CallsOK
<1>4. ASSUME approver'[a].at # "retrying", UNCHANGED retried PROVE Counts
  <2>1. \A x \in Approvers : approver'[x].at = "retrying" => approver'[x] = approver[x]
    BY <1>4 DEF CallsOK
  <2>2. \A c \in Chapters : Retrying(c)' \subseteq Retrying(c)
    BY <2>1 DEF Retrying
  <2> QED
    BY <1>4, <2>2 DEF Counts, RowsOK
<1> QED
  BY <1>1, <1>2, <1>3, <1>4 DEF CallsOK

\* No one moves: a request, or a task that fails at once.
LEMMA NobodyMoves ==
  ASSUME RowsOK, CallsOK, Grows, UNCHANGED <<worker, approver, retried>>
  PROVE  CallsOK' /\ Counts
<1>1. \A x \in Workers : RunOK(worker[x], version')
  <2>1. SUFFICES ASSUME NEW x \in Workers PROVE RunOK(worker[x], version')
    OBVIOUS
  <2>2. worker[x] \in RunType /\ RunOK(worker[x], version)
    BY <2>1 DEF CallsOK
  <2>3. \A c \in Chapters : version[c] # << >> => version'[c] # << >>
    BY DEF RowsOK, Grows
  <2> QED
    BY <2>2, <2>3 DEF RunOK
<1>2. \A x \in Approvers : ApprovalOK(approver[x], version')
  <2>1. \A c \in Chapters : DOMAIN version[c] \subseteq DOMAIN version'[c]
    BY DEF RowsOK, Grows
  <2> QED
    BY <2>1 DEF ApprovalOK, CallsOK
<1>3. Counts
  BY DEF Counts, RowsOK, Retrying
<1> QED
  BY <1>1, <1>2, <1>3 DEF CallsOK

-----------------------------------------------------------------------------
(* Chapters, bases and plans *)

\* The highest accepted chapter below c is one below c, or none.
LEMMA BaseType ==
  ASSUME NEW c \in Chapters
  PROVE  Base(c) \in 0..Book
<1> DEFINE accepted == {d \in 1..(c - 1) : plan[d] = "accepted"}
<1>1. Book \in Nat /\ c \in 1..Book
  BY BoundAssumption
<1>2. CASE accepted = {}
  BY <1>1, <1>2 DEF Base
<1>3. CASE accepted # {}
  <2>1. accepted \in SUBSET (0..Book)
    BY <1>1
  <2> HIDE DEF accepted
  <2>2. \E d \in accepted : \A e \in accepted : e <= d
    BY <1>1, <1>3, <2>1, MaxOfBounded
  <2>3. (CHOOSE d \in accepted : \A e \in accepted : e <= d) \in accepted
    BY <2>2
  <2>4. Base(c) = CHOOSE d \in accepted : \A e \in accepted : e <= d
    BY <1>3 DEF Base, accepted
  <2> QED
    BY <2>1, <2>3, <2>4
<1> QED
  BY <1>2, <1>3

\* The first chapter left of a run is one of those left.
LEMMA FirstLeft ==
  ASSUME NEW todo \in SUBSET Chapters, todo # {}
  PROVE  (CHOOSE d \in todo : \A e \in todo : d <= e) \in todo
<1>1. Book \in Nat /\ todo \in SUBSET (0..Book)
  BY BoundAssumption
<1>2. \E d \in todo : \A e \in todo : d <= e
  BY <1>1, MinOfBounded
<1> QED
  BY <1>2

\* commit_plan that succeeds repeats its answer or puts one version in canon.
LEMMA Admitted ==
  ASSUME RowsOK, NEW c \in Chapters, NEW v \in DOMAIN version[c],
         NEW p \in CommitPlan \cup {NoPlan}, Admit(c, v, p)
  PROVE  Grows /\ Text
<1>1. CASE UNCHANGED rows
  BY <1>1, NothingWritten DEF rows, Text, Quiet, RowsOK
<1>2. CASE /\ version[c][v].record = "none" /\ Revalidates(c, v, p)
           /\ SetPlan(c, "accepted")
           /\ version' = [version EXCEPT ![c] = Committed(c, v)]
           /\ asked' = [asked EXCEPT ![c] = {}]
  <2>1. version[c] \in Seq(Candidate) /\ DOMAIN version[c] = 1..Len(version[c])
    BY DEF RowsOK
  <2>2. \A u \in DOMAIN version[c] : Committed(c, v)[u] \in Candidate
    <3>1. \A u \in DOMAIN version[c] : version[c][u] \in Candidate
      BY <2>1
    <3> QED
      BY <3>1 DEF Committed, Candidate, CandidateStatus
  <2>3. Committed(c, v) \in Seq(Candidate) /\ Len(Committed(c, v)) = Len(version[c])
    <3>1. Committed(c, v) \in [1..Len(version[c]) -> Candidate]
      BY <2>1, <2>2 DEF Committed
    <3> QED
      BY <3>1, <2>1, SeqDef
  <2>4. Grows
    BY <1>2, <2>1, <2>3 DEF RowsOK, Grows, Latest
  <2>5. version'[c] = Committed(c, v) /\ DOMAIN Committed(c, v) = DOMAIN version[c]
    BY <1>2 DEF RowsOK, Committed
  <2>6. \A u \in DOMAIN version[c] :
           /\ u = v => Committed(c, v)[u].record = "committed"
           /\ u # v /\ u \in InCanon(c) => Committed(c, v)[u].record = "superseded"
           /\ u # v /\ u \notin InCanon(c) => Committed(c, v)[u] = version[c][u]
    <3>1. \A u \in DOMAIN version[c] : version[c][u] \in Candidate
      BY <2>1
    <3> QED
      BY <3>1 DEF Committed, Candidate
  <2>7. v \notin InCanon(c) \cup Past(c)
    BY <1>2 DEF InCanon, Past
  <2>8. InCanon(c)' = {v}
    BY <2>5, <2>6 DEF InCanon
  <2>9. Past(c)' = Past(c) \cup InCanon(c)
    BY <2>5, <2>6, <2>7 DEF InCanon, Past
  <2>10. \A d \in Chapters \ {c} : SameText(d)
    BY <1>2 DEF RowsOK, SameText, InCanon, Past
  <2>11. Enters(c, v)
    BY <1>2, <2>8, <2>9, <2>10 DEF Enters, SetPlan
  <2> QED
    BY <2>4, <2>11 DEF Text
<1> QED
  BY <1>1, <1>2 DEF Admit

\* commit_plan that refuses changes no text.
LEMMA Refused ==
  ASSUME RowsOK, NEW c \in Chapters, NEW v \in DOMAIN version[c], NEW p, Refuse(c, v, p)
  PROVE  Grows /\ Text
<1>1. Grows /\ \A d \in Chapters : SameText(d)
  <2>1. CASE UNCHANGED version
    BY <2>1, NothingWritten
  <2>2. CASE SetCandidate(c, v, "failed")
    <3> DEFINE row == [version[c][v] EXCEPT !.status = "failed"]
    <3>1. version[c][v] \in Candidate
      BY DEF RowsOK
    <3>2. row \in Candidate /\ row.record = version[c][v].record
      BY <3>1 DEF Candidate, CandidateStatus
    <3>3. version' = [version EXCEPT ![c] = [version[c] EXCEPT ![v] = row]]
      BY <2>2 DEF SetCandidate
    <3> HIDE DEF row
    <3> QED
      BY <3>2, <3>3, RowWritten
  <2> QED
    BY <2>1, <2>2 DEF Refuse
<1> QED
  BY <1>1 DEF Refuse, Text, Quiet, RowsOK

\* A write of one candidate's status.
LEMMA StatusWritten ==
  ASSUME RowsOK, NEW c \in Chapters, NEW v \in DOMAIN version[c], NEW s \in CandidateStatus,
         SetCandidate(c, v, s)
  PROVE  Grows /\ \A d \in Chapters : SameText(d)
<1> DEFINE row == [version[c][v] EXCEPT !.status = s]
<1>1. version[c][v] \in Candidate
  BY DEF RowsOK
<1>2. row \in Candidate /\ row.record = version[c][v].record
  BY <1>1 DEF Candidate
<1>3. version' = [version EXCEPT ![c] = [version[c] EXCEPT ![v] = row]]
  BY DEF SetCandidate
<1> HIDE DEF row
<1> QED
  BY <1>2, <1>3, RowWritten

\* A commit plan is stored with its candidate.
LEMMA PlanWritten ==
  ASSUME RowsOK, NEW c \in Chapters, NEW v \in DOMAIN version[c], NEW p \in CommitPlan,
         NEW s \in CandidateStatus,
         version' = [version EXCEPT ![c][v].plan = p, ![c][v].status = s]
  PROVE  Grows /\ \A d \in Chapters : SameText(d)
<1> DEFINE row == [version[c][v] EXCEPT !.plan = p, !.status = s]
<1>1. version[c][v] \in Candidate /\ version \in [Chapters -> Seq(Candidate)]
      /\ v \in 1..Len(version[c])
  BY DEF RowsOK
<1>2. row \in Candidate /\ row.record = version[c][v].record
  BY <1>1 DEF Candidate
<1>3. version' = [version EXCEPT ![c] = [version[c] EXCEPT ![v] = row]]
  BY <1>1
<1> HIDE DEF row
<1> QED
  BY <1>2, <1>3, RowWritten

\* Where the text stays, a step that accepts no chapter is quiet.
LEMMA NothingAccepted ==
  ASSUME RowsOK, \A d \in Chapters : SameText(d), UNCHANGED asked,
         \/ UNCHANGED plan
         \/ \E c \in Chapters, s \in PlanStatus \ {"accepted"} : SetPlan(c, s)
  PROVE  Text
BY DEF Text, Quiet, RowsOK, SetPlan

\* The chapter an active run is at, and its version.
LEMMA RunKnows ==
  ASSUME RowsOK, CallsOK, NEW w \in Workers,
         worker[w].at \in {"judging", "preparing", "repairing", "committing"}
  PROVE  At(w) \in Chapters /\ Own(w) \in DOMAIN version[At(w)]
<1>1. At(w) \in Chapters /\ version[At(w)] # << >>
  BY DEF CallsOK, RunOK, At
<1>2. version[At(w)] \in Seq(Candidate)
  BY <1>1 DEF RowsOK
<1>3. Len(version[At(w)]) \in 1..Len(version[At(w)])
  BY <1>1, <1>2, EmptySeq, LenProperties
<1> QED
  BY <1>1, <1>2, <1>3 DEF Own, Latest

-----------------------------------------------------------------------------
(* The steps of a generation run *)

LEMMA OverMoves ==
  ASSUME RowsOK, CallsOK, Grows, NEW w \in Workers, NEW c \in {0} \cup Chapters,
         NEW result \in {"clean", "stopped", "paused"}, Over(w, c, result),
         result = "paused" => c \in Chapters,
         UNCHANGED <<approver, retried>>
  PROVE  CallsOK' /\ Counts
<1> DEFINE run == [Idle EXCEPT !.at = "ending", !.result = result,
                               !.chapter = IF result = "paused" THEN c ELSE 0]
<1>1. worker' = [worker EXCEPT ![w] = run] /\ worker'[w] = run
  BY DEF Over, CallsOK
<1>2. run \in RunType /\ RunOK(run, version') /\ run.at = "ending"
  BY DEF RunType, RunOK, Idle
<1> HIDE DEF run
<1> QED
  BY <1>1, <1>2, RunMoves

LEMMA MoveMoves ==
  ASSUME RowsOK, CallsOK, Grows, NEW w \in Workers,
         NEW place \in {"judging", "preparing", "repairing", "deciding"}, Move(w, place),
         place = "deciding" => worker[w].at = "ending",
         place # "deciding" =>
            worker[w].chapter \in Chapters /\ version'[worker[w].chapter] # << >>,
         UNCHANGED <<approver, retried>>
  PROVE  CallsOK' /\ Counts
<1>1. worker' = [worker EXCEPT ![w] = [worker[w] EXCEPT !.at = place]]
      /\ worker'[w] = [worker[w] EXCEPT !.at = place] /\ worker[w] \in RunType
  BY DEF Move, CallsOK
<1>2. worker'[w] \in RunType /\ worker'[w].at = place /\ worker'[w].chapter = worker[w].chapter
      /\ worker'[w].result = worker[w].result
  BY <1>1 DEF RunType
<1>3. RunOK(worker[w], version)
  BY DEF CallsOK
<1>4. RunOK(worker'[w], version')
  BY <1>2, <1>3 DEF RunOK
<1> QED
  BY <1>1, <1>2, <1>4, RunMoves

LEMMA RestMoves ==
  ASSUME RowsOK, CallsOK, Grows, NEW w \in Workers, Rest(w), UNCHANGED <<approver, retried>>
  PROVE  CallsOK' /\ Counts
<1>1. worker' = [worker EXCEPT ![w] = Idle] /\ worker'[w] = Idle
  BY DEF Rest, CallsOK
<1>2. Idle \in RunType /\ RunOK(Idle, version') /\ Idle.at = "idle"
  BY DEF RunType, RunOK, Idle
<1> QED
  BY <1>1, <1>2, RunMoves

LEMMA BeginStep ==
  ASSUME RowsOK, CallsOK, NEW w \in Workers, Begin(w)
  PROVE  GoodStep
<1>1. UNCHANGED <<rows, retried, approver>>
  BY DEF Begin
<1>2. Grows /\ Text
  BY <1>1, NothingWritten, NothingAccepted DEF rows
<1>3. task' \in {"none", "queued", "running"}
  BY DEF Begin
<1>4. CASE UNCHANGED worker
  BY <1>1, <1>2, <1>3, <1>4, NobodyMoves DEF GoodStep, rows
<1>5. ASSUME NEW last \in Workset \cup {Book}, worker[w].at = "idle",
             worker' = [worker EXCEPT ![w].at = "next", ![w].todo = {c \in Workset : c <= last}]
      PROVE  GoodStep
  <2>1. worker[w] \in RunType /\ RunOK(worker[w], version)
    BY DEF CallsOK
  <2>2. {c \in Workset : c <= last} \in SUBSET Chapters
    BY DEF Workset
  <2> DEFINE left == {c \in Workset : c <= last}
             run == [worker[w] EXCEPT !.at = "next", !.todo = left]
  <2>3. worker' = [worker EXCEPT ![w] = run] /\ worker'[w] = run
    BY <1>5 DEF CallsOK
  <2> HIDE DEF left
  <2>4. run \in RunType /\ RunOK(run, version') /\ run.at = "next"
    BY <2>1, <2>2 DEF RunType, RunOK, left
  <2> HIDE DEF run
  <2> QED
    BY <1>1, <1>2, <1>3, <2>3, <2>4, RunMoves DEF GoodStep
<1> QED
  BY <1>4, <1>5 DEF Begin

LEMMA NextChapterStep ==
  ASSUME RowsOK, CallsOK, NEW w \in Workers, NextChapter(w)
  PROVE  GoodStep
<1>1. UNCHANGED <<rows, retried, task, approver>> /\ worker[w].at = "next"
  BY DEF NextChapter
<1>2. Grows /\ Text /\ task' \in {"none", "queued", "running"}
  BY <1>1, NothingWritten, NothingAccepted DEF rows, RowsOK
<1>3. CASE worker[w].todo = {}
  BY <1>1, <1>2, <1>3, OverMoves DEF NextChapter, GoodStep
<1>4. CASE worker[w].todo # {}
  <2> DEFINE c == CHOOSE d \in worker[w].todo : \A e \in worker[w].todo : d <= e
  <2>1. worker[w] \in RunType /\ RunOK(worker[w], version)
    BY DEF CallsOK
  <2>2. worker[w].todo \in SUBSET Chapters
    BY <2>1 DEF RunType
  <2>3. c \in worker[w].todo
    BY <1>4, <2>2, FirstLeft
  <2>4. \/ Over(w, c, "paused")
        \/ worker' = [worker EXCEPT ![w].todo = @ \ {c}]
        \/ worker' = [worker EXCEPT ![w].at = "writing", ![w].chapter = c, ![w].todo = @ \ {c}]
    BY <1>4 DEF NextChapter
  <2> HIDE DEF c
  <2>5. CASE Over(w, c, "paused")
    BY <1>1, <1>2, <2>2, <2>3, <2>5, OverMoves DEF GoodStep
  <2>6. CASE worker' = [worker EXCEPT ![w].todo = @ \ {c}]
    <3>1. /\ worker' = [worker EXCEPT ![w] = worker'[w]]
          /\ worker'[w] = [worker[w] EXCEPT !.todo = @ \ {c}]
      BY <2>6 DEF CallsOK
    <3>2. worker'[w] \in RunType /\ RunOK(worker'[w], version') /\ worker'[w].at = "next"
      BY <1>1, <2>1, <3>1 DEF RunType, RunOK
    <3> QED
      BY <1>1, <1>2, <3>1, <3>2, RunMoves DEF GoodStep
  <2>7. CASE worker' = [worker EXCEPT ![w].at = "writing", ![w].chapter = c, ![w].todo = @ \ {c}]
    <3>1. /\ worker' = [worker EXCEPT ![w] = worker'[w]]
          /\ worker'[w] = [worker[w] EXCEPT !.at = "writing", !.chapter = c, !.todo = @ \ {c}]
      BY <2>7 DEF CallsOK
    <3>2. worker'[w] \in RunType /\ RunOK(worker'[w], version') /\ worker'[w].at = "writing"
      BY <1>1, <2>1, <2>2, <2>3, <3>1 DEF RunType, RunOK
    <3> QED
      BY <1>1, <1>2, <3>1, <3>2, RunMoves DEF GoodStep
  <2> QED
    BY <2>4, <2>5, <2>6, <2>7
<1> QED
  BY <1>3, <1>4

LEMMA WriteStep ==
  ASSUME RowsOK, CallsOK, NEW w \in Workers, Write(w)
  PROVE  GoodStep
<1>1. UNCHANGED <<asked, retried, task, approver>> /\ NewVersion(At(w)) /\ SetPlan(At(w), "drafted")
      /\ Move(w, "judging") /\ worker[w].at = "writing"
  BY DEF Write
<1>2. At(w) \in Chapters
  BY <1>1 DEF CallsOK, RunOK, At
<1>3. Grows /\ (\A d \in Chapters : SameText(d)) /\ version'[At(w)] # << >>
  BY <1>1, <1>2, VersionWritten
<1>4. Text
  BY <1>1, <1>2, <1>3, NothingAccepted DEF PlanStatus
<1>5. CallsOK' /\ Counts
  BY <1>1, <1>2, <1>3, MoveMoves DEF At
<1> QED
  BY <1>1, <1>3, <1>4, <1>5 DEF GoodStep, RowsOK

LEMMA RepairStep ==
  ASSUME RowsOK, CallsOK, NEW w \in Workers, Repair(w)
  PROVE  GoodStep
<1>1. UNCHANGED <<plan, asked, retried, task, approver>> /\ NewVersion(At(w))
      /\ worker[w].at \in {"judging", "repairing"}
  BY DEF Repair
<1>2. At(w) \in Chapters
  BY <1>1 DEF CallsOK, RunOK, At
<1>3. Grows /\ (\A d \in Chapters : SameText(d)) /\ version'[At(w)] # << >>
  BY <1>1, <1>2, VersionWritten
<1>4. Text
  BY <1>1, <1>3, NothingAccepted
<1>5. PICK place \in {"judging", "preparing"} : Move(w, place)
  BY DEF Repair
<1>6. CallsOK' /\ Counts
  BY <1>1, <1>2, <1>3, <1>5, MoveMoves DEF At
<1> QED
  BY <1>1, <1>3, <1>4, <1>6 DEF GoodStep, RowsOK

LEMMA JudgeStep ==
  ASSUME RowsOK, CallsOK, NEW w \in Workers, Judge(w)
  PROVE  GoodStep
<1>1. UNCHANGED <<version, asked, retried, task, approver>> /\ worker[w].at = "judging"
  BY DEF Judge
<1>2. At(w) \in Chapters /\ version[At(w)] # << >>
  BY <1>1 DEF CallsOK, RunOK, At
<1>3. Grows /\ (\A d \in Chapters : SameText(d))
  BY <1>1, NothingWritten
<1>4. Text
  BY <1>1, <1>2, <1>3, NothingAccepted DEF Judge, PlanStatus
<1>5. CallsOK' /\ Counts
  BY <1>1, <1>2, <1>3, OverMoves, MoveMoves DEF Judge, At
<1> QED
  BY <1>1, <1>3, <1>4, <1>5 DEF GoodStep, RowsOK

LEMMA PrepareRunStep ==
  ASSUME RowsOK, CallsOK, NEW w \in Workers, PrepareRun(w)
  PROVE  GoodStep
<1> DEFINE p == [by |-> "run", base |-> Base(At(w))]
<1>1. UNCHANGED <<asked, retried, task, approver>> /\ worker[w].at = "preparing"
  BY DEF PrepareRun
<1>2. At(w) \in Chapters /\ Own(w) \in DOMAIN version[At(w)] /\ version[At(w)] # << >>
  BY <1>1, RunKnows DEF CallsOK, RunOK, At
<1>3. CASE /\ version' = [version EXCEPT ![At(w)][Own(w)].plan = p,
                                        ![At(w)][Own(w)].status = "ready_for_canon"]
           /\ worker' = [worker EXCEPT ![w].at = "committing", ![w].plan = p]
           /\ UNCHANGED plan
  <2>1. p \in CommitPlan
    BY <1>2, BaseType DEF CommitPlan
  <2> HIDE DEF p
  <2>2. Grows /\ (\A d \in Chapters : SameText(d))
    BY <1>2, <1>3, <2>1, PlanWritten DEF CandidateStatus
  <2>3. Text
    BY <1>1, <1>3, <2>2, NothingAccepted
  <2>4. worker[w] \in RunType
    BY DEF CallsOK
  <2>5. /\ worker' = [worker EXCEPT ![w] = worker'[w]]
        /\ worker'[w] = [worker[w] EXCEPT !.at = "committing", !.plan = p]
    BY <1>3 DEF CallsOK
  <2>6. worker'[w] \in RunType /\ worker'[w].at = "committing" /\ worker'[w].chapter = At(w)
    BY <2>1, <2>4, <2>5 DEF RunType, At
  <2>7. version'[At(w)] # << >>
    BY <1>2, <2>2 DEF Grows, RowsOK
  <2>8. RunOK(worker'[w], version')
    BY <1>2, <2>6, <2>7 DEF RunOK
  <2> QED
    BY <1>1, <2>2, <2>3, <2>5, <2>6, <2>8, RunMoves DEF GoodStep, RowsOK
<1>4. ASSUME NEW s \in {"needs_review", "failed"}, SetCandidate(At(w), Own(w), s),
             \/ Move(w, "repairing") /\ UNCHANGED plan
             \/ SetPlan(At(w), "needs_review") /\ Over(w, At(w), "paused")
      PROVE  GoodStep
  <2>1. Grows /\ (\A d \in Chapters : SameText(d))
    BY <1>2, <1>4, StatusWritten DEF CandidateStatus
  <2>2. Text
    BY <1>1, <1>2, <1>4, <2>1, NothingAccepted DEF PlanStatus
  <2>3. version'[At(w)] # << >>
    BY <1>2, <2>1 DEF Grows, RowsOK
  <2>4. CallsOK' /\ Counts
    BY <1>1, <1>2, <1>4, <2>1, <2>3, OverMoves, MoveMoves DEF At
  <2> QED
    BY <1>1, <2>1, <2>2, <2>4 DEF GoodStep, RowsOK
<1> QED
  BY <1>3, <1>4 DEF PrepareRun

LEMMA RepairFailsStep ==
  ASSUME RowsOK, CallsOK, NEW w \in Workers, RepairFails(w)
  PROVE  GoodStep
<1>1. At(w) \in Chapters
  BY DEF RepairFails, CallsOK, RunOK, At
<1>2. Grows /\ (\A d \in Chapters : SameText(d))
  BY NothingWritten DEF RepairFails
<1>3. Text
  BY <1>1, <1>2, NothingAccepted DEF RepairFails, PlanStatus
<1>4. CallsOK' /\ Counts
  BY <1>1, <1>2, OverMoves DEF RepairFails
<1> QED
  BY <1>2, <1>3, <1>4 DEF GoodStep, RowsOK, RepairFails

LEMMA CommitRunStep ==
  ASSUME RowsOK, CallsOK, NEW w \in Workers, CommitRun(w)
  PROVE  GoodStep
<1> DEFINE p == worker[w].plan
<1>1. UNCHANGED <<retried, task, approver>> /\ worker[w].at = "committing"
  BY DEF CommitRun
<1>2. worker[w] \in RunType /\ p \in CommitPlan \cup {NoPlan}
  BY DEF CallsOK, RunType
<1>3. At(w) \in Chapters /\ Own(w) \in DOMAIN version[At(w)]
  BY <1>1, RunKnows
<1>4. Grows /\ Text
  BY <1>2, <1>3, Admitted, Refused DEF CommitRun
<1>5. PICK place \in {"committed", "refused"} :
         worker' = [worker EXCEPT ![w].at = place, ![w].plan = NoPlan]
  BY DEF CommitRun
<1>6. /\ worker' = [worker EXCEPT ![w] = worker'[w]]
      /\ worker'[w] = [worker[w] EXCEPT !.at = place, !.plan = NoPlan]
  BY <1>5 DEF CallsOK
<1>7. worker'[w] \in RunType /\ worker'[w].at = place /\ worker'[w].chapter = At(w)
  BY <1>2, <1>6 DEF RunType, At
<1>8. RunOK(worker'[w], version')
  BY <1>3, <1>7 DEF RunOK
<1> QED
  BY <1>1, <1>4, <1>6, <1>7, <1>8, RunMoves DEF GoodStep, RowsOK

LEMMA FinishChapterStep ==
  ASSUME RowsOK, CallsOK, NEW w \in Workers, FinishChapter(w)
  PROVE  GoodStep
<1>1. UNCHANGED <<rows, retried, task, approver>> /\ worker[w].at = "committed"
  BY DEF FinishChapter
<1>2. Grows /\ Text /\ task' \in {"none", "queued", "running"}
  BY <1>1, NothingWritten, NothingAccepted DEF rows, RowsOK
<1>3. At(w) \in Chapters
  BY <1>1 DEF CallsOK, RunOK, At
<1>4. CASE Over(w, At(w), "clean")
  BY <1>1, <1>2, <1>3, <1>4, OverMoves DEF GoodStep
<1>5. CASE worker' = [worker EXCEPT ![w].at = "next", ![w].chapter = 0]
  <2>1. /\ worker' = [worker EXCEPT ![w] = worker'[w]] /\ worker[w] \in RunType
        /\ worker'[w] = [worker[w] EXCEPT !.at = "next", !.chapter = 0]
    BY <1>5 DEF CallsOK
  <2>2. worker'[w] \in RunType /\ worker'[w].at = "next" /\ RunOK(worker'[w], version')
    BY <2>1 DEF RunType, RunOK
  <2> QED
    BY <1>1, <1>2, <2>1, <2>2, RunMoves DEF GoodStep
<1> QED
  BY <1>4, <1>5 DEF FinishChapter

LEMMA DemoteRunStep ==
  ASSUME RowsOK, CallsOK, NEW w \in Workers, DemoteRun(w)
  PROVE  GoodStep
<1>1. At(w) \in Chapters
  BY DEF DemoteRun, CallsOK, RunOK, At
<1>2. Grows /\ (\A d \in Chapters : SameText(d))
  BY NothingWritten DEF DemoteRun
<1>3. Text
  BY <1>1, <1>2, NothingAccepted DEF DemoteRun, PlanStatus
<1>4. CallsOK' /\ Counts
  BY <1>1, <1>2, OverMoves DEF DemoteRun
<1> QED
  BY <1>2, <1>3, <1>4 DEF GoodStep, RowsOK, DemoteRun

LEMMA RunRaisesStep ==
  ASSUME RowsOK, CallsOK, NEW w \in Workers, RunRaises(w)
  PROVE  GoodStep
<1>1. At(w) \in Chapters
  BY DEF RunRaises, CallsOK, RunOK, At
<1>2. Grows /\ (\A d \in Chapters : SameText(d))
  BY NothingWritten DEF RunRaises
<1>3. Text
  BY <1>1, <1>2, NothingAccepted DEF RunRaises, PlanStatus
<1>4. CallsOK' /\ Counts
  BY <1>1, <1>2, OverMoves DEF RunRaises
<1> QED
  BY <1>2, <1>3, <1>4 DEF GoodStep, RowsOK, RunRaises

LEMMA RunStopsStep ==
  ASSUME RowsOK, CallsOK, NEW w \in Workers, RunStops(w)
  PROVE  GoodStep
<1>1. At(w) \in Chapters
  BY DEF RunStops, CallsOK, RunOK, At
<1>2. Grows /\ Text
  BY NothingWritten, NothingAccepted DEF RunStops, rows
<1>3. CallsOK' /\ Counts
  BY <1>1, <1>2, OverMoves DEF RunStops
<1> QED
  BY <1>2, <1>3 DEF GoodStep, RowsOK, RunStops

LEMMA EndTaskStep ==
  ASSUME RowsOK, CallsOK, NEW w \in Workers, EndTask(w)
  PROVE  GoodStep
<1>1. Grows /\ Text
  BY NothingWritten, NothingAccepted DEF EndTask, rows
<1>2. CallsOK' /\ Counts
  BY <1>1, MoveMoves DEF EndTask
<1> QED
  BY <1>1, <1>2 DEF GoodStep, EndTask

\* A retry that is read as the first one.
LEMMA DecideStep ==
  ASSUME RowsOK, CallsOK, NEW w \in Workers, Decide(w)
  PROVE  GoodStep
<1>1. UNCHANGED <<rows, retried, task, approver>> /\ worker[w].at = "deciding"
  BY DEF Decide
<1>2. Grows /\ Text /\ task' \in {"none", "queued", "running"}
  BY <1>1, NothingWritten, NothingAccepted DEF rows, RowsOK
<1>3. worker[w] \in RunType /\ RunOK(worker[w], version)
  BY DEF CallsOK
<1>4. CASE Rest(w)
  BY <1>1, <1>2, <1>4, RestMoves DEF GoodStep
<1>5. CASE worker[w].result = "paused" /\ MayAutoRetry(At(w)) /\ Move(w, "retrying")
  <2>1. At(w) \in Chapters /\ retried[At(w)] = 0
    BY <1>1, <1>3, <1>5 DEF RunOK, At, MayAutoRetry
  <2>2. /\ worker' = [worker EXCEPT ![w] = worker'[w]]
        /\ worker'[w] = [worker[w] EXCEPT !.at = "retrying"]
    BY <1>5 DEF CallsOK, Move
  <2>3. worker'[w] \in RunType /\ RunOK(worker'[w], version') /\ worker'[w].chapter = At(w)
    BY <1>3, <2>1, <2>2 DEF RunType, RunOK, At
  <2>4. CallsOK'
    BY <1>1, <1>2, <2>2, <2>3, RunMoves
  <2>5. \A x \in Workers \ {w} : worker'[x] = worker[x]
    BY <2>2 DEF CallsOK
  <2>6. \A c \in Chapters \ {At(w)} : Retrying(c)' \subseteq Retrying(c)
    BY <1>1, <2>3, <2>5 DEF Retrying
  <2>7. Counts
    BY <1>1, <2>1, <2>6 DEF Counts, RowsOK
  <2> QED
    BY <1>2, <2>4, <2>7 DEF GoodStep
<1>6. CASE worker' = [worker EXCEPT ![w].at = "enqueueing", ![w].chapter = 0]
  <2>1. /\ worker' = [worker EXCEPT ![w] = worker'[w]]
        /\ worker'[w] = [worker[w] EXCEPT !.at = "enqueueing", !.chapter = 0]
    BY <1>6 DEF CallsOK
  <2>2. worker'[w] \in RunType /\ RunOK(worker'[w], version') /\ worker'[w].at = "enqueueing"
    BY <1>3, <2>1 DEF RunType, RunOK
  <2> QED
    BY <1>1, <1>2, <2>1, <2>2, RunMoves DEF GoodStep
<1> QED
  BY <1>4, <1>5, <1>6 DEF Decide

LEMMA RetryRunStep ==
  ASSUME RowsOK, CallsOK, NEW w \in Workers, w \notin Approvers, RetryRun(w)
  PROVE  GoodStep
<1>1. UNCHANGED <<version, asked, task, approver>> /\ worker[w].at = "retrying"
      /\ SetPlan(At(w), "planned") /\ retried' = [retried EXCEPT ![At(w)] = @ + 1]
  BY DEF RetryRun, AutoRetry
<1>2. At(w) \in Chapters
  BY <1>1 DEF CallsOK, RunOK, At
<1>3. Grows /\ Text /\ task' \in {"none", "queued", "running"}
  BY <1>1, <1>2, NothingWritten, NothingAccepted DEF RowsOK, PlanStatus
<1>4. PICK run \in {Idle, [worker[w] EXCEPT !.at = "enqueueing", !.chapter = 0]} :
         worker' = [worker EXCEPT ![w] = run] /\ worker'[w] = run
  <2>1. CASE Rest(w)
    BY <2>1 DEF Rest, CallsOK
  <2>2. CASE worker' = [worker EXCEPT ![w].at = "enqueueing", ![w].chapter = 0]
    BY <2>2 DEF CallsOK
  <2> QED
    BY <2>1, <2>2 DEF RetryRun
<1>5. worker[w] \in RunType
  BY DEF CallsOK
<1>6. run \in RunType /\ RunOK(run, version') /\ run.at # "retrying"
  <2>1. CASE run = Idle
    BY <2>1 DEF RunType, RunOK, Idle
  <2>2. CASE run = [worker[w] EXCEPT !.at = "enqueueing", !.chapter = 0]
    BY <1>5, <2>2 DEF RunType, RunOK
  <2> QED
    BY <1>4, <2>1, <2>2
<1>7. CallsOK'
  BY <1>1, <1>3, <1>4, <1>6, RunMoves
<1>8. \A x \in Workers \ {w} : worker'[x] = worker[x]
  BY <1>4 DEF CallsOK
<1>9. \A c \in Chapters : Retrying(c)' \subseteq Retrying(c) \ {w}
  BY <1>1, <1>4, <1>6, <1>8 DEF Retrying
<1>10. w \in Retrying(At(w))
  BY <1>1 DEF Retrying, At
<1>11. Counts
  BY <1>1, <1>2, <1>9, <1>10 DEF Counts, RowsOK
<1> QED
  BY <1>3, <1>7, <1>11 DEF GoodStep

LEMMA EnqueueRunStep ==
  ASSUME RowsOK, CallsOK, NEW w \in Workers, EnqueueRun(w)
  PROVE  GoodStep
<1>1. Grows /\ Text
  BY NothingWritten, NothingAccepted DEF EnqueueRun, rows
<1>2. CallsOK' /\ Counts
  BY <1>1, RestMoves DEF EnqueueRun
<1> QED
  BY <1>1, <1>2 DEF GoodStep, EnqueueRun, Enqueue, RowsOK

LEMMA WorkerSteps ==
  ASSUME RowsOK, CallsOK, NEW w \in Workers, WorkerStep(w)
  PROVE  GoodStep
<1>1. w \notin Approvers
  BY ActorAssumption
<1> QED
  BY <1>1, BeginStep, NextChapterStep, WriteStep, RepairStep, JudgeStep, PrepareRunStep,
     RepairFailsStep, CommitRunStep, FinishChapterStep, DemoteRunStep, RunRaisesStep,
     RunStopsStep, EndTaskStep, DecideStep, RetryRunStep, EnqueueRunStep
  DEF WorkerStep

-----------------------------------------------------------------------------
(* The steps of an approve request *)

LEMMA LeaveMoves ==
  ASSUME RowsOK, CallsOK, Grows, NEW a \in Approvers, Leave(a), UNCHANGED <<worker, retried>>
  PROVE  CallsOK' /\ Counts
<1>1. approver' = [approver EXCEPT ![a] = Answered] /\ approver'[a] = Answered
  BY DEF Leave, CallsOK
<1>2. Answered \in ApprovalType /\ ApprovalOK(Answered, version') /\ Answered.at = "answered"
  BY DEF ApprovalType, ApprovalOK, Answered, Free
<1> QED
  BY <1>1, <1>2, ApprovalMoves

LEMMA AnsweredMoves ==
  ASSUME RowsOK, CallsOK, Grows, NEW a \in Approvers, Opened(a) \in Chapters,
         NEW next \in {"blocked", "accepted"},
         AnsweredAs(a, approver[a].continue, next), UNCHANGED <<worker, retried>>
  PROVE  CallsOK' /\ Counts
<1>1. CASE Leave(a)
  BY <1>1, LeaveMoves
<1>2. CASE approver' = [approver EXCEPT ![a] =
               [Free EXCEPT !.at = next, !.chapter = Opened(a), !.continue = TRUE]]
  <2> DEFINE request == [Free EXCEPT !.at = next, !.chapter = Opened(a), !.continue = TRUE]
  <2>1. approver' = [approver EXCEPT ![a] = request] /\ approver'[a] = request
    BY <1>2 DEF CallsOK
  <2>2. request \in ApprovalType /\ ApprovalOK(request, version') /\ request.at # "retrying"
    BY DEF ApprovalType, ApprovalOK, Free
  <2> HIDE DEF request
  <2> QED
    BY <2>1, <2>2, ApprovalMoves
<1> QED
  BY <1>1, <1>2 DEF AnsweredAs

LEMMA EnqueueingMoves ==
  ASSUME RowsOK, CallsOK, Grows, NEW a \in Approvers,
         approver' = [approver EXCEPT ![a].at = "enqueueing", ![a].chapter = 0],
         UNCHANGED worker
  PROVE  CallsOK' /\ approver'[a].at = "enqueueing" /\ (UNCHANGED retried => Counts)
<1>1. /\ approver' = [approver EXCEPT ![a] = approver'[a]] /\ approver[a] \in ApprovalType
      /\ approver'[a] = [approver[a] EXCEPT !.at = "enqueueing", !.chapter = 0]
  BY DEF CallsOK
<1>2. approver'[a] \in ApprovalType /\ approver'[a].at = "enqueueing"
  <2>1. 0 \in {0} \cup Chapters
    OBVIOUS
  <2> HIDE DEF Chapters
  <2>2. [approver[a] EXCEPT !.at = "enqueueing", !.chapter = 0] \in ApprovalType
    BY <1>1, <2>1 DEF ApprovalType
  <2> QED
    BY <1>1, <2>2 DEF ApprovalType
<1>3. ApprovalOK(approver'[a], version')
  BY <1>2 DEF ApprovalOK
<1> QED
  BY <1>1, <1>2, <1>3, ApprovalMoves

LEMMA OpenStep ==
  ASSUME RowsOK, CallsOK, NEW a \in Approvers, NEW c \in Chapters, Open(a, c)
  PROVE  GoodStep
<1>1. UNCHANGED <<rows, retried, task, worker>> /\ version[c] # << >>
  BY DEF Open
<1>2. Grows /\ Text /\ task' \in {"none", "queued", "running"}
  BY <1>1, NothingWritten, NothingAccepted DEF rows, RowsOK
<1>3. version[c] \in Seq(Candidate)
  BY DEF RowsOK
<1>4. Latest(c) \in 1..Len(version[c])
  BY <1>1, <1>3, EmptySeq, LenProperties DEF Latest
<1>5. Latest(c) \in DOMAIN version[c] /\ Latest(c) \in Nat
  BY <1>3, <1>4, LenProperties
<1>6. plan[c] \in PlanStatus /\ version[c][Latest(c)].status \in CandidateStatus
  <2>1. version[c][Latest(c)] \in Candidate
    BY <1>3, <1>5
  <2> QED
    BY <2>1 DEF RowsOK, Candidate
<1>7. PICK continue \in BOOLEAN :
         approver' = [approver EXCEPT ![a] =
            [at |-> "preparing", chapter |-> c, version |-> Latest(c), plan |-> NoPlan,
             seen |-> plan[c], kept |-> version[c][Latest(c)].status, continue |-> continue]]
  BY DEF Open
<1> DEFINE request == [at |-> "preparing", chapter |-> c, version |-> Latest(c), plan |-> NoPlan,
                       seen |-> plan[c], kept |-> version[c][Latest(c)].status,
                       continue |-> continue]
<1>8. approver' = [approver EXCEPT ![a] = request] /\ approver'[a] = request
  BY <1>7 DEF CallsOK
<1>9. request \in ApprovalType /\ request.at = "preparing"
  BY <1>5, <1>6 DEF ApprovalType
<1>10. ApprovalOK(request, version')
  BY <1>1, <1>5 DEF ApprovalOK, rows
<1> HIDE DEF request
<1> QED
  BY <1>1, <1>2, <1>8, <1>9, <1>10, ApprovalMoves DEF GoodStep

LEMMA PrepareApprovalStep ==
  ASSUME RowsOK, CallsOK, NEW a \in Approvers, PrepareApproval(a)
  PROVE  GoodStep
<1> DEFINE c == Opened(a)
           v == approver[a].version
           p == [by |-> "human", base |-> Base(c)]
           kept == approver[a].kept
<1>1. UNCHANGED <<asked, retried, task, worker>> /\ approver[a].at = "preparing"
  BY DEF PrepareApproval
<1>2. c \in Chapters /\ v \in DOMAIN version[c] /\ approver[a] \in ApprovalType
  BY <1>1 DEF CallsOK, ApprovalOK, Opened
<1>3. p \in CommitPlan
  BY <1>2, BaseType DEF CommitPlan
<1>4. version[c][v] \in Candidate /\ version[c][v].status \in CandidateStatus
  <2>1. version[c][v] \in Candidate
    BY <1>2 DEF RowsOK
  <2> QED
    BY <2>1 DEF Candidate
<1>5. ASSUME version' = [version EXCEPT ![c][v].plan = p, ![c][v].status =
                            IF kept = "ready_for_canon" THEN @ ELSE "ready_for_canon"],
             approver' = [approver EXCEPT ![a].at = "committing", ![a].plan = p],
             UNCHANGED plan
      PROVE  GoodStep
  <2> DEFINE s == IF kept = "ready_for_canon" THEN version[c][v].status ELSE "ready_for_canon"
  <2>1. s \in CandidateStatus
    BY <1>4 DEF CandidateStatus
  <2>2. version \in [Chapters -> Seq(Candidate)] /\ version[c] \in Seq(Candidate)
    BY <1>2 DEF RowsOK
  <2> HIDE DEF p
  <2>3. version' = [version EXCEPT ![c][v].plan = p, ![c][v].status = s]
    BY <1>2, <1>4, <1>5, <2>2 DEF Candidate
  <2> HIDE DEF s
  <2>4. Grows /\ (\A d \in Chapters : SameText(d))
    BY <1>2, <1>3, <2>1, <2>3, PlanWritten
  <2>5. Text
    BY <1>1, <1>5, <2>4, NothingAccepted
  <2>6. /\ approver' = [approver EXCEPT ![a] = approver'[a]]
        /\ approver'[a] = [approver[a] EXCEPT !.at = "committing", !.plan = p]
    BY <1>5 DEF CallsOK
  <2>7. approver'[a] \in ApprovalType /\ approver'[a].at = "committing"
        /\ approver'[a].chapter = c /\ approver'[a].version = v
    BY <1>2, <1>3, <2>6 DEF ApprovalType, Opened
  <2>8. ApprovalOK(approver'[a], version')
    <3>1. v \in DOMAIN version'[c]
      BY <1>2, <2>2, <2>4 DEF Grows
    <3> QED
      BY <1>2, <2>7, <3>1 DEF ApprovalOK
  <2> QED
    BY <1>1, <2>4, <2>5, <2>6, <2>7, <2>8, ApprovalMoves DEF GoodStep, RowsOK
<1>6. ASSUME NEW s \in {"needs_review", "failed"},
             version' = [version EXCEPT ![c][v].status =
                            IF kept \in {"accepted", "failed", s} THEN @ ELSE s],
             plan' = [plan EXCEPT ![c] =
                         IF approver[a].seen = "needs_review" THEN @ ELSE "needs_review"],
             AnsweredAs(a, approver[a].continue, "blocked")
      PROVE  GoodStep
  <2> DEFINE t == IF kept \in {"accepted", "failed", s} THEN version[c][v].status ELSE s
  <2>1. t \in CandidateStatus
    BY <1>4 DEF CandidateStatus
  <2>2. SetCandidate(c, v, t)
    BY <1>6 DEF SetCandidate
  <2> HIDE DEF t
  <2>3. Grows /\ (\A d \in Chapters : SameText(d))
    BY <1>2, <2>1, <2>2, StatusWritten
  <2>4. Text
    <3>1. UNCHANGED plan \/ SetPlan(c, "needs_review")
      BY <1>2, <1>6 DEF RowsOK, SetPlan
    <3> QED
      BY <1>1, <1>2, <2>3, <3>1, NothingAccepted DEF PlanStatus
  <2> QED
    BY <1>1, <1>2, <1>6, <2>3, <2>4, AnsweredMoves DEF GoodStep, RowsOK
<1>7. CASE Leave(a) /\ UNCHANGED <<plan, version>>
  <2>1. Grows /\ Text
    BY <1>1, <1>7, NothingWritten, NothingAccepted
  <2> QED
    BY <1>1, <1>7, <2>1, LeaveMoves DEF GoodStep, RowsOK
<1> QED
  BY <1>5, <1>6, <1>7 DEF PrepareApproval

LEMMA ReopenStep ==
  ASSUME RowsOK, CallsOK, NEW a \in Approvers, NEW c \in Chapters, Reopen(a, c)
  PROVE  GoodStep
<1> DEFINE v == Latest(c)
           p == [by |-> "human", base |-> Base(c)]
<1>1. UNCHANGED <<plan, asked, retried, task, worker>> /\ version[c] # << >>
  BY DEF Reopen
<1>2. version[c] \in Seq(Candidate)
  BY DEF RowsOK
<1>3. v \in 1..Len(version[c])
  BY <1>1, <1>2, EmptySeq, LenProperties DEF Latest
<1>4. v \in DOMAIN version[c] /\ v \in Nat
  BY <1>2, <1>3, LenProperties
<1>5. p \in CommitPlan
  BY BaseType DEF CommitPlan
<1>6. ASSUME NEW continue \in BOOLEAN,
             version' = [version EXCEPT ![c][v].plan = p, ![c][v].status = "ready_for_canon"],
             approver' = [approver EXCEPT ![a] =
                [at |-> "committing", chapter |-> c, version |-> v, plan |-> p,
                 seen |-> "needs_review", kept |-> "needs_review", continue |-> continue]]
      PROVE  GoodStep
  <2> DEFINE request == [at |-> "committing", chapter |-> c, version |-> v, plan |-> p,
                         seen |-> "needs_review", kept |-> "needs_review",
                         continue |-> continue]
  <2>1. approver' = [approver EXCEPT ![a] = request] /\ approver'[a] = request
    BY <1>6 DEF CallsOK
  <2> HIDE DEF p, v
  <2>2. Grows /\ (\A d \in Chapters : SameText(d))
    BY <1>4, <1>5, <1>6, PlanWritten DEF CandidateStatus
  <2>3. Text
    BY <1>1, <2>2, NothingAccepted
  <2>4. request \in ApprovalType /\ request.at = "committing"
    BY <1>4, <1>5 DEF ApprovalType, PlanStatus, CandidateStatus
  <2>5. v \in DOMAIN version'[c]
    BY <1>2, <1>4, <2>2 DEF Grows
  <2>6. ApprovalOK(request, version')
    BY <2>5 DEF ApprovalOK
  <2> HIDE DEF request
  <2> QED
    BY <1>1, <2>1, <2>2, <2>3, <2>4, <2>6, ApprovalMoves DEF GoodStep, RowsOK
<1>7. ASSUME NEW continue \in BOOLEAN, NEW s \in {"needs_review", "failed"},
             SetCandidate(c, v, s),
             approver' = [approver EXCEPT ![a] =
                IF continue THEN [Free EXCEPT !.at = "blocked", !.chapter = c, !.continue = TRUE]
                ELSE Answered]
      PROVE  GoodStep
  <2> HIDE DEF v
  <2>1. Grows /\ (\A d \in Chapters : SameText(d))
    BY <1>4, <1>7, StatusWritten DEF CandidateStatus
  <2>2. Text
    BY <1>1, <2>1, NothingAccepted
  <2>3. CASE ~continue
    <3>1. Leave(a)
      BY <1>7, <2>3 DEF Leave
    <3> QED
      BY <1>1, <2>1, <2>2, <3>1, LeaveMoves DEF GoodStep, RowsOK
  <2>4. CASE continue
    <3> DEFINE request == [Free EXCEPT !.at = "blocked", !.chapter = c, !.continue = TRUE]
    <3>1. approver' = [approver EXCEPT ![a] = request] /\ approver'[a] = request
      BY <1>7, <2>4 DEF CallsOK
    <3>2. request \in ApprovalType /\ ApprovalOK(request, version') /\ request.at = "blocked"
      BY DEF ApprovalType, ApprovalOK, Free
    <3> HIDE DEF request
    <3> QED
      BY <1>1, <2>1, <2>2, <3>1, <3>2, ApprovalMoves DEF GoodStep, RowsOK
  <2> QED
    BY <2>3, <2>4
<1> QED
  BY <1>6, <1>7 DEF Reopen

LEMMA CommitApprovalStep ==
  ASSUME RowsOK, CallsOK, NEW a \in Approvers, CommitApproval(a)
  PROVE  GoodStep
<1> DEFINE c == Opened(a)
           v == approver[a].version
           p == approver[a].plan
<1>1. UNCHANGED <<retried, task, worker>> /\ approver[a].at = "committing"
  BY DEF CommitApproval
<1>2. c \in Chapters /\ v \in DOMAIN version[c] /\ approver[a] \in ApprovalType
  BY <1>1 DEF CallsOK, ApprovalOK, Opened
<1>3. p \in CommitPlan \cup {NoPlan}
  BY <1>2 DEF ApprovalType
<1>4. Grows /\ Text
  BY <1>2, <1>3, Admitted, Refused DEF CommitApproval
<1>5. CASE AnsweredAs(a, approver[a].continue, "accepted")
  BY <1>1, <1>2, <1>4, <1>5, AnsweredMoves DEF GoodStep, RowsOK
<1>6. CASE Turn(a, "refused")
  <2>1. /\ approver' = [approver EXCEPT ![a] = approver'[a]]
        /\ approver'[a] = [approver[a] EXCEPT !.at = "refused"]
    BY <1>6 DEF CallsOK, Turn
  <2>2. approver'[a] \in ApprovalType /\ approver'[a].at = "refused" /\ approver'[a].chapter = c
    BY <1>2, <2>1 DEF ApprovalType, Opened
  <2>3. ApprovalOK(approver'[a], version')
    BY <1>2, <2>2 DEF ApprovalOK
  <2> QED
    BY <1>1, <1>4, <2>1, <2>2, <2>3, ApprovalMoves DEF GoodStep, RowsOK
<1> QED
  BY <1>5, <1>6 DEF CommitApproval

LEMMA DemoteApprovalStep ==
  ASSUME RowsOK, CallsOK, NEW a \in Approvers, DemoteApproval(a)
  PROVE  GoodStep
<1>1. Opened(a) \in Chapters
  BY DEF DemoteApproval, CallsOK, ApprovalOK, Opened
<1>2. Grows /\ (\A d \in Chapters : SameText(d))
  BY NothingWritten DEF DemoteApproval
<1>3. Text
  BY <1>1, <1>2, NothingAccepted DEF DemoteApproval, PlanStatus
<1>4. CallsOK' /\ Counts
  BY <1>1, <1>2, AnsweredMoves DEF DemoteApproval
<1> QED
  BY <1>2, <1>3, <1>4 DEF GoodStep, RowsOK, DemoteApproval

LEMMA FollowBlockedStep ==
  ASSUME RowsOK, CallsOK, NEW a \in Approvers, FollowBlocked(a)
  PROVE  GoodStep
<1>1. UNCHANGED <<rows, retried, task, worker>> /\ approver[a].at = "blocked"
  BY DEF FollowBlocked
<1>2. Grows /\ Text /\ task' \in {"none", "queued", "running"}
  BY <1>1, NothingWritten, NothingAccepted DEF rows, RowsOK
<1>3. Opened(a) \in Chapters /\ approver[a] \in ApprovalType
  BY <1>1 DEF CallsOK, ApprovalOK, Opened
<1>4. CASE Leave(a)
  BY <1>1, <1>2, <1>4, LeaveMoves DEF GoodStep
<1>5. CASE MayAutoRetry(Opened(a)) /\ Turn(a, "retrying")
  <2>1. retried[Opened(a)] = 0
    BY <1>5 DEF MayAutoRetry
  <2>2. /\ approver' = [approver EXCEPT ![a] = approver'[a]]
        /\ approver'[a] = [approver[a] EXCEPT !.at = "retrying"]
    BY <1>5 DEF CallsOK, Turn
  <2>3. approver'[a] \in ApprovalType /\ approver'[a].at = "retrying"
        /\ approver'[a].chapter = Opened(a)
    BY <1>3, <2>2 DEF ApprovalType, Opened
  <2>4. ApprovalOK(approver'[a], version')
    BY <1>3, <2>3 DEF ApprovalOK
  <2>5. CallsOK'
    BY <1>1, <1>2, <2>2, <2>3, <2>4, ApprovalMoves
  <2>6. \A x \in Approvers \ {a} : approver'[x] = approver[x]
    BY <2>2 DEF CallsOK
  <2>7. \A c \in Chapters \ {Opened(a)} : Retrying(c)' \subseteq Retrying(c)
    BY <1>1, <2>3, <2>6 DEF Retrying
  <2>8. Counts
    BY <1>1, <2>1, <2>7 DEF Counts, RowsOK
  <2> QED
    BY <1>2, <2>5, <2>8 DEF GoodStep
<1> QED
  BY <1>4, <1>5 DEF FollowBlocked

LEMMA RetryApprovalStep ==
  ASSUME RowsOK, CallsOK, NEW a \in Approvers, a \notin Workers, RetryApproval(a)
  PROVE  GoodStep
<1>1. UNCHANGED <<version, asked, task, worker>> /\ approver[a].at = "retrying"
      /\ SetPlan(Opened(a), "planned") /\ retried' = [retried EXCEPT ![Opened(a)] = @ + 1]
  BY DEF RetryApproval, AutoRetry
<1>2. Opened(a) \in Chapters
  BY <1>1 DEF CallsOK, ApprovalOK, Opened
<1>3. Grows /\ Text /\ task' \in {"none", "queued", "running"}
  BY <1>1, <1>2, NothingWritten, NothingAccepted DEF RowsOK, PlanStatus
<1>4. /\ CallsOK' /\ approver'[a].at # "retrying"
      /\ approver' = [approver EXCEPT ![a] = approver'[a]]
  <2>1. CASE Leave(a)
    <3>1. approver' = [approver EXCEPT ![a] = Answered] /\ approver'[a] = Answered
      BY <2>1 DEF Leave, CallsOK
    <3>2. Answered \in ApprovalType /\ ApprovalOK(Answered, version') /\ Answered.at = "answered"
      BY DEF ApprovalType, ApprovalOK, Answered, Free
    <3> QED
      BY <1>1, <1>3, <3>1, <3>2, ApprovalMoves
  <2>2. CASE approver' = [approver EXCEPT ![a].at = "enqueueing", ![a].chapter = 0]
    <3>1. approver' = [approver EXCEPT ![a] = approver'[a]]
      BY <2>2 DEF CallsOK
    <3> QED
      BY <1>1, <1>3, <2>2, <3>1, EnqueueingMoves
  <2> QED
    BY <2>1, <2>2 DEF RetryApproval
<1>5. \A x \in Approvers \ {a} : approver'[x] = approver[x]
  BY <1>4 DEF CallsOK
<1>6. \A c \in Chapters : Retrying(c)' \subseteq Retrying(c) \ {a}
  BY <1>1, <1>4, <1>5 DEF Retrying
<1>7. a \in Retrying(Opened(a))
  BY <1>1 DEF Retrying, Opened
<1>8. Counts
  BY <1>1, <1>2, <1>6, <1>7 DEF Counts, RowsOK
<1> QED
  BY <1>3, <1>4, <1>8 DEF GoodStep

LEMMA FollowAcceptedStep ==
  ASSUME RowsOK, CallsOK, NEW a \in Approvers, FollowAccepted(a)
  PROVE  GoodStep
<1>1. Grows /\ Text
  BY NothingWritten, NothingAccepted DEF FollowAccepted, rows
<1>2. CallsOK' /\ Counts
  BY <1>1, LeaveMoves, EnqueueingMoves DEF FollowAccepted
<1> QED
  BY <1>1, <1>2 DEF GoodStep, FollowAccepted, RowsOK

LEMMA EnqueueApprovalStep ==
  ASSUME RowsOK, CallsOK, NEW a \in Approvers, EnqueueApproval(a)
  PROVE  GoodStep
<1>1. Grows /\ Text
  BY NothingWritten, NothingAccepted DEF EnqueueApproval, rows
<1>2. CallsOK' /\ Counts
  BY <1>1, LeaveMoves DEF EnqueueApproval
<1> QED
  BY <1>1, <1>2 DEF GoodStep, EnqueueApproval, Enqueue, RowsOK

LEMMA ApproverSteps ==
  ASSUME RowsOK, CallsOK, NEW a \in Approvers, ApproverStep(a)
  PROVE  GoodStep
<1>1. a \notin Workers
  BY ActorAssumption
<1> QED
  BY <1>1, OpenStep, ReopenStep, PrepareApprovalStep, CommitApprovalStep, DemoteApprovalStep,
     FollowBlockedStep, RetryApprovalStep, FollowAcceptedStep, EnqueueApprovalStep
  DEF ApproverStep

-----------------------------------------------------------------------------
(* Requests *)

\* Only a request to rewrite an accepted chapter asks for another text.
LEMMA RetryStep ==
  ASSUME RowsOK, CallsOK, NEW c \in Chapters, Retry(c)
  PROVE  GoodStep
<1>1. UNCHANGED <<version, retried, task, worker, approver>> /\ SetPlan(c, "planned")
  BY DEF Retry
<1>2. Grows /\ (\A d \in Chapters : SameText(d))
  BY <1>1, NothingWritten
<1>3. CallsOK' /\ Counts
  BY <1>1, <1>2, NobodyMoves
<1>4. CASE UNCHANGED asked
  BY <1>1, <1>2, <1>3, <1>4, NothingAccepted DEF PlanStatus, GoodStep, RowsOK
<1>5. ASSUME plan[c] = "accepted", NEW v \in InCanon(c),
             asked' = [asked EXCEPT ![c] = @ \cup {[previous |-> v, after |-> Latest(c)]}]
      PROVE  GoodStep
  <2>1. version[c] \in Seq(Candidate) /\ v \in DOMAIN version[c]
    BY DEF RowsOK, InCanon
  <2>2. v \in Nat /\ Latest(c) \in Nat
    BY <2>1, LenProperties DEF Latest
  <2>3. [previous |-> v, after |-> Latest(c)] \in Marker
    BY <2>2 DEF Marker
  <2>4. Asks(c)
    BY <1>1, <1>2, <1>5, <2>3 DEF Asks, SetPlan
  <2> QED
    BY <1>1, <1>2, <1>3, <2>4 DEF GoodStep, Text, RowsOK
<1> QED
  BY <1>4, <1>5 DEF Retry

LEMMA UserContinuesStep ==
  ASSUME RowsOK, CallsOK, UserContinues
  PROVE  GoodStep
<1>1. Grows /\ Text
  BY NothingWritten, NothingAccepted DEF UserContinues, rows
<1>2. CallsOK' /\ Counts
  BY <1>1, NobodyMoves DEF UserContinues
<1> QED
  BY <1>1, <1>2 DEF GoodStep, UserContinues

LEMMA AllSteps ==
  ASSUME RowsOK, CallsOK, [Next]_vars
  PROVE  GoodStep
<1>1. CASE UNCHANGED vars
  <2>1. Grows /\ Text
    BY <1>1, NothingWritten, NothingAccepted DEF vars
  <2>2. CallsOK' /\ Counts
    BY <1>1, <2>1, NobodyMoves DEF vars
  <2> QED
    BY <1>1, <2>1, <2>2 DEF GoodStep, vars, RowsOK
<1> QED
  BY <1>1, WorkerSteps, ApproverSteps, RetryStep, UserContinuesStep DEF Next

-----------------------------------------------------------------------------
(* The invariant *)

LEMMA InitHolds == Init => IInv
<1> SUFFICES ASSUME Init PROVE IInv
  OBVIOUS
<1>1. RowsOK
  <2>1. << >> \in Seq(Candidate)
    BY EmptySeq
  <2>2. version \in [Chapters -> Seq(Candidate)] /\ \A c \in Chapters : version[c] = << >>
    BY <2>1 DEF Init
  <2>3. \A c \in Chapters : Latest(c) = 0 /\ MaxVersions[c] \in Nat
    BY <2>2, BoundAssumption DEF Latest
  <2> QED
    BY <2>2, <2>3 DEF Init, RowsOK, PlanStatus
<1>2. CallsOK
  BY DEF Init, CallsOK, Idle, Free, RunType, ApprovalType, RunOK, ApprovalOK
<1>3. \A c \in Chapters : InCanon(c) = {} /\ asked[c] = {} /\ plan[c] = "planned"
  BY DEF Init, InCanon
<1>4. TextOK
  BY <1>3 DEF TextOK, AcceptedIsCanon
<1>5. RetriesOK
  <2>1. \A c \in Chapters : Retrying(c) = {} /\ retried[c] = 0
    BY DEF Init, Retrying, Idle, Free
  <2>2. Cardinality(Actors) \in Nat /\ Cardinality({}) = 0
    BY ActorAssumption, FS_Union, FS_CardinalityType, FS_EmptySet DEF Actors
  <2> QED
    BY <2>1, <2>2 DEF RetriesOK
<1> QED
  BY <1>1, <1>2, <1>4, <1>5 DEF IInv

LEMMA RowsStay ==
  ASSUME RowsOK, GoodStep
  PROVE  RowsOK'
<1> DEFINE Typed == plan' \in [Chapters -> PlanStatus] /\ asked' \in [Chapters -> SUBSET Marker]
<1>1. Typed
  <2>1. CASE Quiet
    BY <2>1 DEF Quiet, RowsOK
  <2>2. ASSUME NEW c \in Chapters, Asks(c) PROVE Typed
    BY <2>2 DEF Asks, RowsOK, PlanStatus
  <2>3. ASSUME NEW c \in Chapters, NEW v \in DOMAIN version[c], Enters(c, v) PROVE Typed
    BY <2>3 DEF Enters, RowsOK, PlanStatus
  <2> QED
    BY <2>1, <2>2, <2>3 DEF GoodStep, Text
<1> QED
  BY <1>1 DEF RowsOK, GoodStep, Grows, Counts, Latest

LEMMA TextStays ==
  ASSUME RowsOK, TextOK, GoodStep
  PROVE  TextOK'
<1> USE DEF TextOK, AcceptedIsCanon, SameText
<1>1. CASE Quiet
  BY <1>1 DEF Quiet
<1>2. ASSUME NEW c \in Chapters, Asks(c) PROVE TextOK'
  <2>1. plan'[c] = "planned" /\ InCanon(c)' # {}
    BY <1>2 DEF Asks, RowsOK
  <2>2. \A d \in Chapters \ {c} :
           plan'[d] = plan[d] /\ asked'[d] = asked[d] /\ InCanon(d)' = InCanon(d)
    BY <1>2 DEF Asks, RowsOK
  <2> QED
    BY <2>1, <2>2
<1>3. ASSUME NEW c \in Chapters, NEW v \in DOMAIN version[c], Enters(c, v) PROVE TextOK'
  <2>1. asked'[c] = {} /\ Cardinality(InCanon(c)') = 1
    BY <1>3, FS_Singleton DEF Enters, RowsOK
  <2>2. \A d \in Chapters \ {c} :
           plan'[d] = plan[d] /\ asked'[d] = asked[d] /\ InCanon(d)' = InCanon(d)
    BY <1>3 DEF Enters, RowsOK
  <2> QED
    BY <2>1, <2>2
<1> QED
  BY <1>1, <1>2, <1>3 DEF GoodStep, Text

\* A chapter is read as never retried before any reset; after that each reset
\* takes one of the actors that had read it so.
LEMMA RetriesStay ==
  ASSUME RowsOK, RetriesOK, GoodStep
  PROVE  RetriesOK'
<1>1. IsFiniteSet(Actors) /\ Cardinality(Actors) \in Nat
  BY ActorAssumption, FS_Union, FS_CardinalityType DEF Actors
<1>2. SUFFICES ASSUME NEW c \in Chapters
               PROVE  retried'[c] + Cardinality(Retrying(c)') <= Cardinality(Actors)
  BY DEF RetriesOK, Actors
<1>3. /\ Retrying(c) \subseteq Actors /\ Retrying(c)' \subseteq Actors
      /\ retried[c] \in Nat /\ retried'[c] \in Nat
  BY DEF Retrying, Actors, RowsOK, GoodStep, Counts
<1>4. /\ IsFiniteSet(Retrying(c)) /\ Cardinality(Retrying(c)) \in Nat
      /\ Cardinality(Retrying(c)') \in Nat /\ Cardinality(Retrying(c)') <= Cardinality(Actors)
  BY <1>1, <1>3, FS_Subset, FS_CardinalityType
<1>5. retried[c] + Cardinality(Retrying(c)) <= Cardinality(Actors)
  BY DEF RetriesOK
<1>6. CASE retried'[c] = retried[c] /\ Retrying(c)' \subseteq Retrying(c)
  <2>1. Cardinality(Retrying(c)') <= Cardinality(Retrying(c))
    BY <1>4, <1>6, FS_Subset
  <2> QED
    BY <1>1, <1>3, <1>4, <1>5, <1>6, <2>1
<1>7. CASE retried'[c] = 0
  BY <1>1, <1>4, <1>7
<1>8. ASSUME retried'[c] = retried[c] + 1, NEW x \in Retrying(c),
             Retrying(c)' \subseteq Retrying(c) \ {x}
      PROVE  retried'[c] + Cardinality(Retrying(c)') <= Cardinality(Actors)
  <2>1. /\ IsFiniteSet(Retrying(c) \ {x})
        /\ Cardinality(Retrying(c) \ {x}) = Cardinality(Retrying(c)) - 1
    BY <1>4, FS_RemoveElement
  <2>2. Cardinality(Retrying(c)') <= Cardinality(Retrying(c) \ {x})
    BY <1>8, <2>1, FS_Subset
  <2> QED
    BY <1>1, <1>3, <1>4, <1>5, <1>8, <2>1, <2>2
<1> QED
  BY <1>6, <1>7, <1>8 DEF GoodStep, Counts

LEMMA NextHolds == IInv /\ [Next]_vars => IInv'
<1> SUFFICES ASSUME IInv, [Next]_vars PROVE IInv'
  OBVIOUS
<1>1. GoodStep
  BY AllSteps DEF IInv
<1>2. RowsOK'
  BY <1>1, RowsStay DEF IInv
<1>3. CallsOK'
  BY <1>1 DEF GoodStep
<1>4. TextOK'
  BY <1>1, TextStays DEF IInv
<1>5. RetriesOK'
  BY <1>1, RetriesStay DEF IInv
<1> QED
  BY <1>2, <1>3, <1>4, <1>5 DEF IInv

\* The inductive invariant: rows and calls are well-formed, a pending rewrite
\* has a text to replace, and resets are bounded by the actors.
THEOREM Invariant == Spec => []IInv
BY InitHolds, NextHolds, PTL DEF Spec

\* Every row has its type, and a chapter is retried automatically at most once
\* for each worker and request, in every interleaving of reads and resets.
THEOREM TypeCorrect == Spec => []TypeOK
<1>1. IInv => TypeOK
  <2> SUFFICES ASSUME IInv PROVE TypeOK
    OBVIOUS
  <2> USE DEF IInv
  <2>1. \A c \in Chapters : \A v \in DOMAIN version[c] : version[c][v] \in Candidate
    <3>1. \A c \in Chapters : version[c] \in Seq(Candidate)
      BY DEF RowsOK
    <3> QED
      BY <3>1
  <2>2. retried \in [Chapters -> 0..Cardinality(Workers \cup Approvers)]
    <3>1. IsFiniteSet(Actors) /\ Cardinality(Actors) \in Nat
      BY ActorAssumption, FS_Union, FS_CardinalityType DEF Actors
    <3>2. \A c \in Chapters : Cardinality(Retrying(c)) \in Nat
      <4>1. \A c \in Chapters : Retrying(c) \subseteq Actors
        BY DEF Retrying, Actors
      <4> QED
        BY <3>1, <4>1, FS_Subset, FS_CardinalityType
    <3>3. \A c \in Chapters : retried[c] \in 0..Cardinality(Actors)
      BY <3>1, <3>2 DEF RetriesOK, RowsOK
    <3> QED
      BY <3>3 DEF RowsOK, Actors
  <2>3. \A w \in Workers : worker[w].chapter \in {0} \cup Chapters
    BY DEF CallsOK, RunType
  <2>4. \A a \in Approvers : approver[a].version \in Nat
    BY DEF CallsOK, ApprovalType
  <2> QED
    BY <2>1, <2>2, <2>3, <2>4 DEF RowsOK, TypeOK
<1> QED
  BY <1>1, Invariant, PTL

\* A chapter shown as accepted has one text in canon and no rewrite of it
\* pending, whoever accepted it, beside whatever runs and stale statuses.
THEOREM AcceptedText == Spec => []AcceptedIsCanon
<1>1. IInv => AcceptedIsCanon
  BY DEF IInv, TextOK
<1> QED
  BY <1>1, Invariant, PTL

-----------------------------------------------------------------------------
(* The refinement of CanonText *)

LEMMA QuietStutters ==
  ASSUME Quiet
  PROVE  UNCHANGED Canon!vars
BY DEF Quiet, SameText, Past, Canon!vars

LEMMA AsksIsAsk ==
  ASSUME RowsOK, TextOK, NEW c \in Chapters, Asks(c)
  PROVE  Canon!Ask(c)
<1>1. asked[c] = {} /\ InCanon(c) # {}
  BY DEF Asks, TextOK, AcceptedIsCanon
<1>2. asked'[c] # {} /\ \A d \in Chapters \ {c} : asked'[d] = asked[d]
  BY DEF Asks, RowsOK
<1>3. [d \in Chapters |-> asked'[d] # {}] =
         [[d \in Chapters |-> asked[d] # {}] EXCEPT ![c] = TRUE]
  BY <1>2
<1>4. \A d \in Chapters : InCanon(d)' = InCanon(d) /\ Past(d)' = Past(d)
  BY DEF Asks, SameText
<1> QED
  BY <1>1, <1>3, <1>4 DEF Canon!Ask, Past

LEMMA EntersIsEnter ==
  ASSUME RowsOK, TextOK, NEW c \in Chapters, NEW v \in DOMAIN version[c], Enters(c, v)
  PROVE  Canon!Enter(c, v)
<1>1. v \notin InCanon(c) \cup Past(c)
  BY DEF Enters, InCanon, Past
<1>2. c - 1 \in Chapters => InCanon(c - 1) # {}
  BY BoundAssumption DEF Enters, Revalidates
<1>3. ASSUME InCanon(c) # {}
      PROVE  asked[c] # {} /\ \A d \in Chapters : d > c => asked[d] = {}
  <2>1. /\ \E m \in asked[c] : asked[c] = {m}
        /\ \A d \in Chapters : d > c /\ InCanon(d) # {} => plan[d] = "accepted"
    BY <1>3 DEF Enters, Revalidates, MayReplace
  <2> QED
    BY <2>1 DEF TextOK, AcceptedIsCanon
<1>4. /\ InCanon(c)' = {v} /\ Past(c)' = Past(c) \cup InCanon(c)
      /\ \A d \in Chapters \ {c} : InCanon(d)' = InCanon(d) /\ Past(d)' = Past(d)
  BY DEF Enters, SameText
<1>5. asked'[c] = {} /\ \A d \in Chapters \ {c} : asked'[d] = asked[d]
  BY DEF Enters, RowsOK
<1>6. [d \in Chapters |-> InCanon(d)'] = [[d \in Chapters |-> InCanon(d)] EXCEPT ![c] = {v}]
  BY <1>4
<1>7. [d \in Chapters |-> Past(d)'] =
         [[d \in Chapters |-> Past(d)] EXCEPT ![c] = @ \cup InCanon(c)]
  BY <1>4
<1>8. [d \in Chapters |-> asked'[d] # {}] =
         [[d \in Chapters |-> asked[d] # {}] EXCEPT ![c] = FALSE]
  BY <1>5
<1> QED
  BY <1>1, <1>2, <1>3, <1>6, <1>7, <1>8 DEF Canon!Enter, Past

\* Canon text changes as CanonText says, whatever the lengths of the book and
\* of the drafts and the number of runs and approvals: in order, and replaced
\* once for each request.
THEOREM RewritesAsAsked == Spec => RewritesAreAsked
<1>1. Init => Canon!Init
  <2> SUFFICES ASSUME Init PROVE Canon!Init
    OBVIOUS
  <2>1. \A c \in Chapters : InCanon(c) = {} /\ Past(c) = {} /\ asked[c] = {}
    BY DEF Init, InCanon, Past
  <2> QED
    BY <2>1 DEF Canon!Init, Past
<1>2. IInv /\ [Next]_vars => [Canon!Next]_Canon!vars
  <2> SUFFICES ASSUME IInv, [Next]_vars PROVE [Canon!Next]_Canon!vars
    OBVIOUS
  <2>1. Text /\ RowsOK /\ TextOK
    BY AllSteps DEF IInv, GoodStep
  <2>2. ASSUME NEW c \in Chapters, NEW v \in DOMAIN version[c]
        PROVE  v \in UNION {1..MaxVersions[d] : d \in Chapters}
    <3>1. version[c] \in Seq(Candidate) /\ Len(version[c]) <= MaxVersions[c]
          /\ MaxVersions[c] \in Nat
      BY <2>1, BoundAssumption DEF RowsOK, Latest
    <3>2. v \in 1..MaxVersions[c]
      BY <3>1, LenProperties
    <3> QED
      BY <3>2
  <2> QED
    BY <2>1, <2>2, QuietStutters, AsksIsAsk, EntersIsEnter DEF Text, Canon!Next
<1> QED
  BY <1>1, <1>2, Invariant, PTL DEF Spec, RewritesAreAsked, Canon!Spec
=============================================================================
