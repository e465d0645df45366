------------------------- MODULE HeldIntentsProofs -------------------------
(***************************************************************************)
(* Theorems about HeldIntents, for any intents, length of the book and     *)
(* bounds.  The ledger of a chapter and the chapters of a book are folded  *)
(* from left to right; what the folds compute is proved by induction along *)
(* the states they pass through (Extrema).                                 *)
(***************************************************************************)
EXTENDS HeldIntents, Extrema, SequenceTheorems

(* The inductive invariant *)

StatusType == [Intents -> Statuses]

Changes == UNION {[S -> [from : Statuses, to : Statuses]] : S \in SUBSET Intents}

DeltaType == [kind : {"tick"}, id : Commits, change : Changes]
             \cup [kind : {"conflict"}, id : Nat, change : Changes]

ChapterType == [commit : Commits, settles : SUBSET Intents, deltas : Seq(DeltaType),
                retired : SUBSET Commits]

PlanType == [status : {"none", "planned", "drafted", "accepted"}, bound : SUBSET Intents]

ConflictType ==
    [intent : Intents \cup {NoIntent}, violated : Kinds \cup {"replay_cas"},
     origin : Nat, blocks : Nat, offers : BOOLEAN,
     status : {"open", "resolved", "expired"}, option : Options \cup {"none"},
     delta : {"none", "tick", "conflict"} \X Nat,
     response : {"none", "active", "retired"}, carrier : 0..Total]

TickType == [at : {"idle", "thinking", "closing"}, view : Seq(ChapterType),
             world : StatusType, open : SUBSET Nat, retired : SUBSET Commits,
             raised : Seq(ConflictType)]

Types == /\ canon \in Seq(ChapterType) /\ Len(canon) <= Total
         /\ world \in StatusType
         /\ plans \in [Chapters -> PlanType]
         /\ conflicts \in Seq(ConflictType)
         /\ owing \subseteq Commits
         /\ tick \in [Commits -> TickType]
         /\ late \in BOOLEAN

\* What a step read of the statuses is what the chapters it read say.
ViewsOK == \A n \in Commits : tick[n].at = "thinking" => tick[n].world = StatusIn(tick[n].view)

\* A response is owed, and carried by a plan, for a decision about an intent.
RowOK(row) ==
    /\ row.response = "active" => row.status = "resolved" /\ row.intent \in Intents
    /\ row.carrier # 0 => row.intent \in Intents

\* What a quiet step raises waits for a person.
RaisedOK == \A n \in Commits : \A k \in DOMAIN tick[n].raised :
    /\ tick[n].raised[k].status = "open" /\ tick[n].raised[k].response = "none"
    /\ RowOK(tick[n].raised[k])

\* Conflicts come from steps of chapters.
Grounded == Latest = 0 => conflicts = << >> /\ \A n \in Commits : tick[n].raised = << >>

Responds(row) == row.status = "resolved" /\ row.option = "plot_responds"

\* A response is decided once for an intent.
Once(rows) ==
    \A k, l \in DOMAIN rows :
        Responds(rows[k]) /\ Responds(rows[l]) /\ rows[k].intent = rows[l].intent => k = l

ResponsesOK == (\A k \in DOMAIN conflicts : RowOK(conflicts[k])) /\ Once(conflicts)

\* Each commit beyond the first of a chapter is one of the rewrites there may be.
Counted == Latest < NextCommit /\ Rewrites <= MaxRewrites

IInv == /\ Types /\ SnapshotIsReplay /\ ViewsOK /\ RaisedOK /\ Grounded /\ ResponsesOK
        /\ Counted /\ HeldIsAnswered

-----------------------------------------------------------------------------
(* What the folds compute: the last of the states they pass through. *)

\* The deltas of a chapter, applied one after the other.
AppliedAll(status, deltas) == FoldLeft(Applied, status, deltas)

AppliedRun(st, n, base, seq, St) ==
    /\ st \in [0..n -> St] /\ st[0] = base
    /\ \A i \in 1..n : st[i] = Applied(st[i - 1], seq[i])

LEMMA AppliedFold ==
  ASSUME NEW St, NEW base \in St, NEW n \in Nat, NEW seq, DOMAIN seq = 1..n,
         \A v \in St : \A i \in 1..n : Applied(v, seq[i]) \in St
  PROVE  /\ \E st : AppliedRun(st, n, base, seq, St)
         /\ \A st : AppliedRun(st, n, base, seq, St) =>
               AppliedAll(base, seq) = st[n]
<1>1. PICK step : step = [i \in 1..n |-> [v \in St |-> Applied(v, seq[i])]]
  OBVIOUS
<1>2. /\ step \in [1..n -> [St -> St]]
      /\ \A i \in 1..n : \A v \in St : step[i][v] = Applied(v, seq[i])
  BY <1>1
<1>3. PICK f \in [SUBSET (1..n) -> St] : IsFold(f, n, base, step)
  BY <1>2, FoldExists
<1>4. \A s \in SUBSET (1..n) : s # {} => Max(s) \in 1..n /\ s \ {Max(s)} \in SUBSET (1..n)
  BY MaxFacts
<1>5. f = [s \in SUBSET (1..n) |->
              IF s = {} THEN base
              ELSE Applied(f[s \ {Max(s)}], seq[Max(s)])]
  <2>1. ASSUME NEW s \in SUBSET (1..n), s # {}
        PROVE  step[Max(s)][f[s \ {Max(s)}]]
               = Applied(f[s \ {Max(s)}], seq[Max(s)])
    <3>1. PICK m \in 1..n : m = Max(s) /\ s \ {m} \in SUBSET (1..n)
      BY <1>4, <2>1
    <3>2. PICK v \in St : v = f[s \ {m}]
      BY <3>1
    <3>3. step[m][v] = Applied(v, seq[m])
      BY <1>2
    <3> QED
      BY <3>1, <3>2, <3>3
  <2>2. [s \in SUBSET (1..n) |-> IF s = {} THEN base ELSE step[Max(s)][f[s \ {Max(s)}]]]
        = [s \in SUBSET (1..n) |->
              IF s = {} THEN base
              ELSE Applied(f[s \ {Max(s)}], seq[Max(s)])]
    BY <2>1
  <2> QED
    BY <1>3, <2>2 DEF IsFold
<1>6. PICK g : /\ g = [s \in SUBSET (1..n) |->
                          IF s = {} THEN base
                          ELSE Applied(g[s \ {Max(s)}], seq[Max(s)])]
               /\ AppliedAll(base, seq) = g[1..n]
  BY <1>5 DEF AppliedAll, FoldLeft, MapThenFoldSet
<1>7. IsFold(g, n, base, step)
  <2>1. g = [s \in SUBSET (1..n) |-> g[s]] /\ g[{}] = base
    BY <1>6
  <2>2. ASSUME NEW s \in SUBSET (1..n), s # {}, g[s \ {Max(s)}] \in St
        PROVE  g[s] = step[Max(s)][g[s \ {Max(s)}]]
    <3>1. PICK m \in 1..n : m = Max(s)
      BY <1>4, <2>2
    <3>2. PICK v \in St : v = g[s \ {m}]
      BY <2>2, <3>1
    <3>3. g[s] = Applied(v, seq[m])
      BY <1>6, <2>2, <3>1, <3>2
    <3> QED
      BY <1>2, <3>1, <3>2, <3>3
  <2> QED
    BY <1>2, <2>1, <2>2, FoldStays
<1>8. ASSUME NEW st \in [0..n -> St]
      PROVE  AppliedRun(st, n, base, seq, St) <=> IsTrace(st, n, base, step)
  <2>1. ASSUME NEW i \in 1..n PROVE step[i][st[i - 1]] = Applied(st[i - 1], seq[i])
    <3>1. PICK v \in St : v = st[i - 1]
      OBVIOUS
    <3> QED
      BY <1>2, <3>1
  <2> QED
    BY <2>1 DEF IsTrace, AppliedRun
<1>9. PICK st \in [0..n -> St] : IsTrace(st, n, base, step)
  BY <1>2, TraceExists
<1>10. ASSUME NEW s, AppliedRun(s, n, base, seq, St)
       PROVE  AppliedAll(base, seq) = s[n]
  <2>1. s \in [0..n -> St]
    BY <1>10 DEF AppliedRun
  <2>2. IsTrace(s, n, base, step)
    BY <1>8, <1>10, <2>1
  <2>3. g[1..n] = s[n]
    BY <1>7, <2>2, FoldIsTrace
  <2> QED
    BY <1>6, <2>3
<1> QED
  BY <1>8, <1>9, <1>10

\* The statuses after a chapter.
AfterChapter(status, chapter) ==
    AppliedAll(Told(status, chapter.settles), chapter.deltas)

\* The statuses after chapters.
AfterAll(status, chapters) == FoldLeft(AfterChapter, status, chapters)

ChapterRun(st, n, base, seq, St) ==
    /\ st \in [0..n -> St] /\ st[0] = base
    /\ \A i \in 1..n : st[i] = AfterChapter(st[i - 1], seq[i])

LEMMA ChapterFold ==
  ASSUME NEW St, NEW base \in St, NEW n \in Nat, NEW seq, DOMAIN seq = 1..n,
         \A v \in St : \A i \in 1..n : AfterChapter(v, seq[i]) \in St
  PROVE  /\ \E st : ChapterRun(st, n, base, seq, St)
         /\ \A st : ChapterRun(st, n, base, seq, St) =>
               AfterAll(base, seq) = st[n]
<1>1. PICK step : step = [i \in 1..n |-> [v \in St |-> AfterChapter(v, seq[i])]]
  OBVIOUS
<1>2. /\ step \in [1..n -> [St -> St]]
      /\ \A i \in 1..n : \A v \in St : step[i][v] = AfterChapter(v, seq[i])
  BY <1>1
<1>3. PICK f \in [SUBSET (1..n) -> St] : IsFold(f, n, base, step)
  BY <1>2, FoldExists
<1>4. \A s \in SUBSET (1..n) : s # {} => Max(s) \in 1..n /\ s \ {Max(s)} \in SUBSET (1..n)
  BY MaxFacts
<1>5. f = [s \in SUBSET (1..n) |->
              IF s = {} THEN base
              ELSE AfterChapter(f[s \ {Max(s)}], seq[Max(s)])]
  <2>1. ASSUME NEW s \in SUBSET (1..n), s # {}
        PROVE  step[Max(s)][f[s \ {Max(s)}]]
               = AfterChapter(f[s \ {Max(s)}], seq[Max(s)])
    <3>1. PICK m \in 1..n : m = Max(s) /\ s \ {m} \in SUBSET (1..n)
      BY <1>4, <2>1
    <3>2. PICK v \in St : v = f[s \ {m}]
      BY <3>1
    <3>3. step[m][v] = AfterChapter(v, seq[m])
      BY <1>2
    <3> QED
      BY <3>1, <3>2, <3>3
  <2>2. [s \in SUBSET (1..n) |-> IF s = {} THEN base ELSE step[Max(s)][f[s \ {Max(s)}]]]
        = [s \in SUBSET (1..n) |->
              IF s = {} THEN base
              ELSE AfterChapter(f[s \ {Max(s)}], seq[Max(s)])]
    BY <2>1
  <2> QED
    BY <1>3, <2>2 DEF IsFold
<1>6. PICK g : /\ g = [s \in SUBSET (1..n) |->
                          IF s = {} THEN base
                          ELSE AfterChapter(g[s \ {Max(s)}], seq[Max(s)])]
               /\ AfterAll(base, seq) = g[1..n]
  BY <1>5 DEF AfterAll, FoldLeft, MapThenFoldSet
<1>7. IsFold(g, n, base, step)
  <2>1. g = [s \in SUBSET (1..n) |-> g[s]] /\ g[{}] = base
    BY <1>6
  <2>2. ASSUME NEW s \in SUBSET (1..n), s # {}, g[s \ {Max(s)}] \in St
        PROVE  g[s] = step[Max(s)][g[s \ {Max(s)}]]
    <3>1. PICK m \in 1..n : m = Max(s)
      BY <1>4, <2>2
    <3>2. PICK v \in St : v = g[s \ {m}]
      BY <2>2, <3>1
    <3>3. g[s] = AfterChapter(v, seq[m])
      BY <1>6, <2>2, <3>1, <3>2
    <3> QED
      BY <1>2, <3>1, <3>2, <3>3
  <2> QED
    BY <1>2, <2>1, <2>2, FoldStays
<1>8. ASSUME NEW st \in [0..n -> St]
      PROVE  ChapterRun(st, n, base, seq, St) <=> IsTrace(st, n, base, step)
  <2>1. ASSUME NEW i \in 1..n PROVE step[i][st[i - 1]] = AfterChapter(st[i - 1], seq[i])
    <3>1. PICK v \in St : v = st[i - 1]
      OBVIOUS
    <3> QED
      BY <1>2, <3>1
  <2> QED
    BY <2>1 DEF IsTrace, ChapterRun
<1>9. PICK st \in [0..n -> St] : IsTrace(st, n, base, step)
  BY <1>2, TraceExists
<1>10. ASSUME NEW s, ChapterRun(s, n, base, seq, St)
       PROVE  AfterAll(base, seq) = s[n]
  <2>1. s \in [0..n -> St]
    BY <1>10 DEF ChapterRun
  <2>2. IsTrace(s, n, base, step)
    BY <1>8, <1>10, <2>1
  <2>3. g[1..n] = s[n]
    BY <1>7, <2>2, FoldIsTrace
  <2> QED
    BY <1>6, <2>3
<1> QED
  BY <1>8, <1>9, <1>10

LEMMA StatusInIs ==
  ASSUME NEW chapters PROVE StatusIn(chapters) = AfterAll(Unchanged, chapters)
BY DEF StatusIn, AfterAll, AfterChapter, AppliedAll, FoldLeft, MapThenFoldSet

\* The steps of Replay: over a delta, over a chapter.
Redo(vanished, done, delta) ==
    IF Ref(delta) \notin vanished /\ Holds(done.status, delta)
    THEN [done EXCEPT !.status = Applied(@, delta), !.kept = Append(@, delta)]
    ELSE Lost(done, delta)

RedoAll(vanished, done, deltas) ==
    FoldLeft(LAMBDA d, delta : Redo(vanished, d, delta), done, deltas)

RedoRun(vanished, st, n, base, seq, St) ==
    /\ st \in [0..n -> St] /\ st[0] = base
    /\ \A i \in 1..n : st[i] = Redo(vanished, st[i - 1], seq[i])

LEMMA RedoFold ==
  ASSUME NEW vanished, NEW St, NEW base \in St, NEW n \in Nat, NEW seq, DOMAIN seq = 1..n,
         \A v \in St : \A i \in 1..n : Redo(vanished, v, seq[i]) \in St
  PROVE  /\ \E st : RedoRun(vanished, st, n, base, seq, St)
         /\ \A st : RedoRun(vanished, st, n, base, seq, St) =>
               RedoAll(vanished, base, seq) = st[n]
<1>1. PICK step : step = [i \in 1..n |-> [v \in St |-> Redo(vanished, v, seq[i])]]
  OBVIOUS
<1>2. /\ step \in [1..n -> [St -> St]]
      /\ \A i \in 1..n : \A v \in St : step[i][v] = Redo(vanished, v, seq[i])
  BY <1>1
<1>3. PICK f \in [SUBSET (1..n) -> St] : IsFold(f, n, base, step)
  BY <1>2, FoldExists
<1>4. \A s \in SUBSET (1..n) : s # {} => Max(s) \in 1..n /\ s \ {Max(s)} \in SUBSET (1..n)
  BY MaxFacts
<1>5. f = [s \in SUBSET (1..n) |->
              IF s = {} THEN base
              ELSE Redo(vanished, f[s \ {Max(s)}], seq[Max(s)])]
  <2>1. ASSUME NEW s \in SUBSET (1..n), s # {}
        PROVE  step[Max(s)][f[s \ {Max(s)}]]
               = Redo(vanished, f[s \ {Max(s)}], seq[Max(s)])
    <3>1. PICK m \in 1..n : m = Max(s) /\ s \ {m} \in SUBSET (1..n)
      BY <1>4, <2>1
    <3>2. PICK v \in St : v = f[s \ {m}]
      BY <3>1
    <3>3. step[m][v] = Redo(vanished, v, seq[m])
      BY <1>2
    <3> QED
      BY <3>1, <3>2, <3>3
  <2>2. [s \in SUBSET (1..n) |-> IF s = {} THEN base ELSE step[Max(s)][f[s \ {Max(s)}]]]
        = [s \in SUBSET (1..n) |->
              IF s = {} THEN base
              ELSE Redo(vanished, f[s \ {Max(s)}], seq[Max(s)])]
    BY <2>1
  <2> QED
    BY <1>3, <2>2 DEF IsFold
<1>6. PICK g : /\ g = [s \in SUBSET (1..n) |->
                          IF s = {} THEN base
                          ELSE Redo(vanished, g[s \ {Max(s)}], seq[Max(s)])]
               /\ RedoAll(vanished, base, seq) = g[1..n]
  BY <1>5 DEF RedoAll, FoldLeft, MapThenFoldSet
<1>7. IsFold(g, n, base, step)
  <2>1. g = [s \in SUBSET (1..n) |-> g[s]] /\ g[{}] = base
    BY <1>6
  <2>2. ASSUME NEW s \in SUBSET (1..n), s # {}, g[s \ {Max(s)}] \in St
        PROVE  g[s] = step[Max(s)][g[s \ {Max(s)}]]
    <3>1. PICK m \in 1..n : m = Max(s)
      BY <1>4, <2>2
    <3>2. PICK v \in St : v = g[s \ {m}]
      BY <2>2, <3>1
    <3>3. g[s] = Redo(vanished, v, seq[m])
      BY <1>6, <2>2, <3>1, <3>2
    <3> QED
      BY <1>2, <3>1, <3>2, <3>3
  <2> QED
    BY <1>2, <2>1, <2>2, FoldStays
<1>8. ASSUME NEW st \in [0..n -> St]
      PROVE  RedoRun(vanished, st, n, base, seq, St) <=> IsTrace(st, n, base, step)
  <2>1. ASSUME NEW i \in 1..n PROVE step[i][st[i - 1]] = Redo(vanished, st[i - 1], seq[i])
    <3>1. PICK v \in St : v = st[i - 1]
      OBVIOUS
    <3> QED
      BY <1>2, <3>1
  <2> QED
    BY <2>1 DEF IsTrace, RedoRun
<1>9. PICK st \in [0..n -> St] : IsTrace(st, n, base, step)
  BY <1>2, TraceExists
<1>10. ASSUME NEW s, RedoRun(vanished, s, n, base, seq, St)
       PROVE  RedoAll(vanished, base, seq) = s[n]
  <2>1. s \in [0..n -> St]
    BY <1>10 DEF RedoRun
  <2>2. IsTrace(s, n, base, step)
    BY <1>8, <1>10, <2>1
  <2>3. g[1..n] = s[n]
    BY <1>7, <2>2, FoldIsTrace
  <2> QED
    BY <1>6, <2>3
<1> QED
  BY <1>8, <1>9, <1>10

RedoChapter(vanished, done, chapter) ==
    LET result == RedoAll(vanished,
                          [done EXCEPT !.status = Told(@, chapter.settles), !.kept = << >>],
                          chapter.deltas)
    IN [result EXCEPT !.canon = Append(@, [chapter EXCEPT !.deltas = result.kept])]

ReplayAll(vanished, done, chapters) ==
    FoldLeft(LAMBDA d, chapter : RedoChapter(vanished, d, chapter), done, chapters)

ReplayRun(vanished, st, n, base, seq, St) ==
    /\ st \in [0..n -> St] /\ st[0] = base
    /\ \A i \in 1..n : st[i] = RedoChapter(vanished, st[i - 1], seq[i])

LEMMA ReplayFold ==
  ASSUME NEW vanished, NEW St, NEW base \in St, NEW n \in Nat, NEW seq, DOMAIN seq = 1..n,
         \A v \in St : \A i \in 1..n : RedoChapter(vanished, v, seq[i]) \in St
  PROVE  /\ \E st : ReplayRun(vanished, st, n, base, seq, St)
         /\ \A st : ReplayRun(vanished, st, n, base, seq, St) =>
               ReplayAll(vanished, base, seq) = st[n]
<1>1. PICK step : step = [i \in 1..n |-> [v \in St |-> RedoChapter(vanished, v, seq[i])]]
  OBVIOUS
<1>2. /\ step \in [1..n -> [St -> St]]
      /\ \A i \in 1..n : \A v \in St : step[i][v] = RedoChapter(vanished, v, seq[i])
  BY <1>1
<1>3. PICK f \in [SUBSET (1..n) -> St] : IsFold(f, n, base, step)
  BY <1>2, FoldExists
<1>4. \A s \in SUBSET (1..n) : s # {} => Max(s) \in 1..n /\ s \ {Max(s)} \in SUBSET (1..n)
  BY MaxFacts
<1>5. f = [s \in SUBSET (1..n) |->
              IF s = {} THEN base
              ELSE RedoChapter(vanished, f[s \ {Max(s)}], seq[Max(s)])]
  <2>1. ASSUME NEW s \in SUBSET (1..n), s # {}
        PROVE  step[Max(s)][f[s \ {Max(s)}]]
               = RedoChapter(vanished, f[s \ {Max(s)}], seq[Max(s)])
    <3>1. PICK m \in 1..n : m = Max(s) /\ s \ {m} \in SUBSET (1..n)
      BY <1>4, <2>1
    <3>2. PICK v \in St : v = f[s \ {m}]
      BY <3>1
    <3>3. step[m][v] = RedoChapter(vanished, v, seq[m])
      BY <1>2
    <3> QED
      BY <3>1, <3>2, <3>3
  <2>2. [s \in SUBSET (1..n) |-> IF s = {} THEN base ELSE step[Max(s)][f[s \ {Max(s)}]]]
        = [s \in SUBSET (1..n) |->
              IF s = {} THEN base
              ELSE RedoChapter(vanished, f[s \ {Max(s)}], seq[Max(s)])]
    BY <2>1
  <2> QED
    BY <1>3, <2>2 DEF IsFold
<1>6. PICK g : /\ g = [s \in SUBSET (1..n) |->
                          IF s = {} THEN base
                          ELSE RedoChapter(vanished, g[s \ {Max(s)}], seq[Max(s)])]
               /\ ReplayAll(vanished, base, seq) = g[1..n]
  BY <1>5 DEF ReplayAll, FoldLeft, MapThenFoldSet
<1>7. IsFold(g, n, base, step)
  <2>1. g = [s \in SUBSET (1..n) |-> g[s]] /\ g[{}] = base
    BY <1>6
  <2>2. ASSUME NEW s \in SUBSET (1..n), s # {}, g[s \ {Max(s)}] \in St
        PROVE  g[s] = step[Max(s)][g[s \ {Max(s)}]]
    <3>1. PICK m \in 1..n : m = Max(s)
      BY <1>4, <2>2
    <3>2. PICK v \in St : v = g[s \ {m}]
      BY <2>2, <3>1
    <3>3. g[s] = RedoChapter(vanished, v, seq[m])
      BY <1>6, <2>2, <3>1, <3>2
    <3> QED
      BY <1>2, <3>1, <3>2, <3>3
  <2> QED
    BY <1>2, <2>1, <2>2, FoldStays
<1>8. ASSUME NEW st \in [0..n -> St]
      PROVE  ReplayRun(vanished, st, n, base, seq, St) <=> IsTrace(st, n, base, step)
  <2>1. ASSUME NEW i \in 1..n PROVE step[i][st[i - 1]] = RedoChapter(vanished, st[i - 1], seq[i])
    <3>1. PICK v \in St : v = st[i - 1]
      OBVIOUS
    <3> QED
      BY <1>2, <3>1
  <2> QED
    BY <2>1 DEF IsTrace, ReplayRun
<1>9. PICK st \in [0..n -> St] : IsTrace(st, n, base, step)
  BY <1>2, TraceExists
<1>10. ASSUME NEW s, ReplayRun(vanished, s, n, base, seq, St)
       PROVE  ReplayAll(vanished, base, seq) = s[n]
  <2>1. s \in [0..n -> St]
    BY <1>10 DEF ReplayRun
  <2>2. IsTrace(s, n, base, step)
    BY <1>8, <1>10, <2>1
  <2>3. g[1..n] = s[n]
    BY <1>7, <2>2, FoldIsTrace
  <2> QED
    BY <1>6, <2>3
<1> QED
  BY <1>8, <1>9, <1>10

NothingDone == [status |-> Unchanged, kept |-> << >>, lost |-> << >>, canon |-> << >>]

LEMMA ReplayIs ==
  ASSUME NEW chapters, NEW vanished
  PROVE  Replay(chapters, vanished) = ReplayAll(vanished, NothingDone, chapters)
BY DEF Replay, ReplayAll, RedoChapter, RedoAll, Redo, NothingDone, FoldLeft, MapThenFoldSet

\* What a chapter's ledger keeps of a delta.
Kept(kept, delta, c) == IF Keeps(delta, c) THEN Append(kept, delta) ELSE kept

KeptAll(c, kept, deltas) == FoldLeft(LAMBDA k, delta : Kept(k, delta, c), kept, deltas)

LedgerRun(c, st, n, base, seq, St) ==
    /\ st \in [0..n -> St] /\ st[0] = base
    /\ \A i \in 1..n : st[i] = Kept(st[i - 1], seq[i], c)

LEMMA LedgerFold ==
  ASSUME NEW c, NEW St, NEW base \in St, NEW n \in Nat, NEW seq, DOMAIN seq = 1..n,
         \A v \in St : \A i \in 1..n : Kept(v, seq[i], c) \in St
  PROVE  /\ \E st : LedgerRun(c, st, n, base, seq, St)
         /\ \A st : LedgerRun(c, st, n, base, seq, St) =>
               KeptAll(c, base, seq) = st[n]
<1>1. PICK step : step = [i \in 1..n |-> [v \in St |-> Kept(v, seq[i], c)]]
  OBVIOUS
<1>2. /\ step \in [1..n -> [St -> St]]
      /\ \A i \in 1..n : \A v \in St : step[i][v] = Kept(v, seq[i], c)
  BY <1>1
<1>3. PICK f \in [SUBSET (1..n) -> St] : IsFold(f, n, base, step)
  BY <1>2, FoldExists
<1>4. \A s \in SUBSET (1..n) : s # {} => Max(s) \in 1..n /\ s \ {Max(s)} \in SUBSET (1..n)
  BY MaxFacts
<1>5. f = [s \in SUBSET (1..n) |->
              IF s = {} THEN base
              ELSE Kept(f[s \ {Max(s)}], seq[Max(s)], c)]
  <2>1. ASSUME NEW s \in SUBSET (1..n), s # {}
        PROVE  step[Max(s)][f[s \ {Max(s)}]]
               = Kept(f[s \ {Max(s)}], seq[Max(s)], c)
    <3>1. PICK m \in 1..n : m = Max(s) /\ s \ {m} \in SUBSET (1..n)
      BY <1>4, <2>1
    <3>2. PICK v \in St : v = f[s \ {m}]
      BY <3>1
    <3>3. step[m][v] = Kept(v, seq[m], c)
      BY <1>2
    <3> QED
      BY <3>1, <3>2, <3>3
  <2>2. [s \in SUBSET (1..n) |-> IF s = {} THEN base ELSE step[Max(s)][f[s \ {Max(s)}]]]
        = [s \in SUBSET (1..n) |->
              IF s = {} THEN base
              ELSE Kept(f[s \ {Max(s)}], seq[Max(s)], c)]
    BY <2>1
  <2> QED
    BY <1>3, <2>2 DEF IsFold
<1>6. PICK g : /\ g = [s \in SUBSET (1..n) |->
                          IF s = {} THEN base
                          ELSE Kept(g[s \ {Max(s)}], seq[Max(s)], c)]
               /\ KeptAll(c, base, seq) = g[1..n]
  BY <1>5 DEF KeptAll, FoldLeft, MapThenFoldSet
<1>7. IsFold(g, n, base, step)
  <2>1. g = [s \in SUBSET (1..n) |-> g[s]] /\ g[{}] = base
    BY <1>6
  <2>2. ASSUME NEW s \in SUBSET (1..n), s # {}, g[s \ {Max(s)}] \in St
        PROVE  g[s] = step[Max(s)][g[s \ {Max(s)}]]
    <3>1. PICK m \in 1..n : m = Max(s)
      BY <1>4, <2>2
    <3>2. PICK v \in St : v = g[s \ {m}]
      BY <2>2, <3>1
    <3>3. g[s] = Kept(v, seq[m], c)
      BY <1>6, <2>2, <3>1, <3>2
    <3> QED
      BY <1>2, <3>1, <3>2, <3>3
  <2> QED
    BY <1>2, <2>1, <2>2, FoldStays
<1>8. ASSUME NEW st \in [0..n -> St]
      PROVE  LedgerRun(c, st, n, base, seq, St) <=> IsTrace(st, n, base, step)
  <2>1. ASSUME NEW i \in 1..n PROVE step[i][st[i - 1]] = Kept(st[i - 1], seq[i], c)
    <3>1. PICK v \in St : v = st[i - 1]
      OBVIOUS
    <3> QED
      BY <1>2, <3>1
  <2> QED
    BY <2>1 DEF IsTrace, LedgerRun
<1>9. PICK st \in [0..n -> St] : IsTrace(st, n, base, step)
  BY <1>2, TraceExists
<1>10. ASSUME NEW s, LedgerRun(c, s, n, base, seq, St)
       PROVE  KeptAll(c, base, seq) = s[n]
  <2>1. s \in [0..n -> St]
    BY <1>10 DEF LedgerRun
  <2>2. IsTrace(s, n, base, step)
    BY <1>8, <1>10, <2>1
  <2>3. g[1..n] = s[n]
    BY <1>7, <2>2, FoldIsTrace
  <2> QED
    BY <1>6, <2>3
<1> QED
  BY <1>8, <1>9, <1>10

LEMMA LedgerIs ==
  ASSUME NEW c
  PROVE  Ledger(c) = KeptAll(c, << >>, canon[c].deltas)
BY DEF Ledger, KeptAll, Kept, FoldLeft, MapThenFoldSet

-----------------------------------------------------------------------------
(* The statuses that a ledger says *)

LEMMA StatusTypes ==
  ASSUME NEW status \in StatusType
  PROVE  /\ \A delta \in DeltaType : Applied(status, delta) \in StatusType
         /\ \A settles : Told(status, settles) \in StatusType
         /\ Unchanged \in StatusType
<1>1. ASSUME NEW delta \in DeltaType PROVE Applied(status, delta) \in StatusType
  <2>1. PICK S \in SUBSET Intents : delta.change \in [S -> [from : Statuses, to : Statuses]]
    BY DEF DeltaType, Changes
  <2>2. ASSUME NEW i \in Intents
        PROVE  (IF i \in DOMAIN delta.change THEN delta.change[i].to ELSE status[i]) \in Statuses
    BY <2>1 DEF StatusType
  <2> QED
    BY <2>2 DEF Applied, StatusType
<1> QED
  BY <1>1 DEF Told, Unchanged, StatusType, Statuses

LEMMA LedgerSays ==
  ASSUME NEW status \in StatusType, NEW deltas \in Seq(DeltaType)
  PROVE  /\ AppliedAll(status, deltas) \in StatusType
         /\ deltas = << >> => AppliedAll(status, deltas) = status
         /\ \A delta \in DeltaType : AppliedAll(status, Append(deltas, delta))
                                     = Applied(AppliedAll(status, deltas), delta)
<1>1. PICK n \in Nat : n = Len(deltas) /\ DOMAIN deltas = 1..n
  OBVIOUS
<1>2. \A v \in StatusType : \A i \in 1..n : Applied(v, deltas[i]) \in StatusType
  <2>1. \A i \in 1..n : deltas[i] \in DeltaType
    BY <1>1
  <2> QED
    BY <2>1, StatusTypes
<1>3. PICK st : AppliedRun(st, n, status, deltas, StatusType)
  BY <1>1, <1>2, AppliedFold
<1>4. AppliedAll(status, deltas) = st[n]
  BY <1>1, <1>2, <1>3, AppliedFold
<1>7. /\ st \in [0..n -> StatusType] /\ st[0] = status
      /\ \A i \in 1..n : st[i] = Applied(st[i - 1], deltas[i])
  BY <1>3 DEF AppliedRun
<1>5. deltas = << >> => AppliedAll(status, deltas) = status
  BY <1>1, <1>4, <1>7
<1>6. ASSUME NEW delta \in DeltaType
      PROVE  AppliedAll(status, Append(deltas, delta)) = Applied(AppliedAll(status, deltas), delta)
  <2>1. PICK more : more = Append(deltas, delta)
    OBVIOUS
  <2>2. /\ n + 1 \in Nat /\ DOMAIN more = 1..(n + 1) /\ more[n + 1] = delta
        /\ \A i \in 1..n : more[i] = deltas[i]
    BY <1>1, <2>1
  <2>3. PICK st2 : st2 = [i \in 0..(n + 1) |-> IF i = n + 1 THEN Applied(st[n], delta) ELSE st[i]]
    OBVIOUS
  <2>4. Applied(st[n], delta) \in StatusType
    BY <1>7, StatusTypes
  <2>5. st2 \in [0..(n + 1) -> StatusType]
    BY <1>7, <2>3, <2>4
  <2>6. st2[0] = status /\ st2[n + 1] = Applied(st[n], delta)
    BY <1>7, <2>3
  <2>7. ASSUME NEW i \in 1..(n + 1) PROVE st2[i] = Applied(st2[i - 1], more[i])
    <3>1. CASE i = n + 1
      <4>1. st2[i - 1] = st[n]
        BY <2>3, <3>1
      <4> QED
        BY <2>2, <2>6, <3>1, <4>1
    <3>2. CASE i # n + 1
      <4>1. i \in 1..n /\ i - 1 \in 0..n
        BY <3>2
      <4>2. st2[i] = st[i] /\ st2[i - 1] = st[i - 1] /\ more[i] = deltas[i]
        BY <2>2, <2>3, <4>1
      <4> QED
        BY <1>7, <4>1, <4>2
    <3> QED
      BY <3>1, <3>2
  <2>8. \A v \in StatusType : \A i \in 1..(n + 1) : Applied(v, more[i]) \in StatusType
    <3>1. \A i \in 1..(n + 1) : more[i] \in DeltaType
      BY <1>1, <2>1
    <3> QED
      BY <3>1, StatusTypes
  <2>9. AppliedRun(st2, n + 1, status, more, StatusType)
    BY <2>5, <2>6, <2>7 DEF AppliedRun
  <2>10. AppliedAll(status, more) = st2[n + 1]
    BY <2>2, <2>8, <2>9, AppliedFold
  <2> QED
    BY <1>4, <2>1, <2>6, <2>10
<1> QED
  BY <1>4, <1>5, <1>6, <1>7

LEMMA ChapterSays ==
  ASSUME NEW status \in StatusType, NEW chapter \in ChapterType
  PROVE  /\ AfterChapter(status, chapter) = AppliedAll(Told(status, chapter.settles), chapter.deltas)
         /\ AfterChapter(status, chapter) \in StatusType
<1>1. Told(status, chapter.settles) \in StatusType /\ chapter.deltas \in Seq(DeltaType)
  BY StatusTypes DEF ChapterType
<1>2. AfterChapter(status, chapter) = AppliedAll(Told(status, chapter.settles), chapter.deltas)
  BY DEF AfterChapter
<1> QED
  BY <1>1, <1>2, LedgerSays

\* The statuses after each chapter of a book.
Story(st, chapters) ==
    /\ st \in [0..Len(chapters) -> StatusType] /\ st[0] = Unchanged
    /\ \A c \in 1..Len(chapters) : st[c] = AfterChapter(st[c - 1], chapters[c])

LEMMA StoryIs ==
  ASSUME NEW chapters \in Seq(ChapterType)
  PROVE  /\ \E st : Story(st, chapters)
         /\ \A st : Story(st, chapters) => StatusIn(chapters) = st[Len(chapters)]
<1>1. PICK n \in Nat : n = Len(chapters) /\ DOMAIN chapters = 1..n
  OBVIOUS
<1>2. \A v \in StatusType : \A i \in 1..n : AfterChapter(v, chapters[i]) \in StatusType
  <2>1. \A i \in 1..n : chapters[i] \in ChapterType
    BY <1>1
  <2> QED
    BY <2>1, ChapterSays
<1>3. Unchanged \in StatusType
  BY DEF Unchanged, StatusType, Statuses
<1>4. PICK st : ChapterRun(st, n, Unchanged, chapters, StatusType)
  BY <1>1, <1>2, <1>3, ChapterFold
<1>5. ASSUME NEW s, ChapterRun(s, n, Unchanged, chapters, StatusType)
      PROVE  StatusIn(chapters) = s[n]
  <2>1. PICK base \in StatusType : base = Unchanged
    BY <1>3
  <2>2. ChapterRun(s, n, base, chapters, StatusType)
    BY <1>5, <2>1
  <2>3. AfterAll(base, chapters) = s[n]
    <3>1. DOMAIN chapters = 1..n
      BY <1>1
    <3> QED
      BY ONLY n \in Nat, base \in StatusType, <3>1, <1>2, <2>2, ChapterFold
  <2> QED
    BY <2>1, <2>3, StatusInIs
<1>6. \A s : Story(s, chapters) <=> ChapterRun(s, n, Unchanged, chapters, StatusType)
  BY <1>1 DEF Story, ChapterRun
<1> QED
  BY <1>1, <1>4, <1>5, <1>6

LEMMA StatusSays ==
  ASSUME NEW chapters \in Seq(ChapterType)
  PROVE  /\ StatusIn(chapters) \in StatusType
         /\ chapters = << >> => StatusIn(chapters) = Unchanged
<1>1. PICK st : Story(st, chapters)
  BY StoryIs
<1>2. StatusIn(chapters) = st[Len(chapters)] /\ Len(chapters) \in Nat
  BY <1>1, StoryIs
<1> QED
  BY <1>1, <1>2 DEF Story

LEMMA StatusAppended ==
  ASSUME NEW chapters \in Seq(ChapterType), NEW chapter \in ChapterType
  PROVE  StatusIn(Append(chapters, chapter)) = AfterChapter(StatusIn(chapters), chapter)
<1>1. PICK st : Story(st, chapters)
  BY StoryIs
<1>2. PICK n \in Nat : n = Len(chapters)
  OBVIOUS
<1>3. PICK more : more = Append(chapters, chapter)
  OBVIOUS
<1>4. /\ more \in Seq(ChapterType) /\ Len(more) = n + 1 /\ more[n + 1] = chapter
      /\ \A i \in 1..n : more[i] = chapters[i]
  BY <1>2, <1>3
<1>5. PICK st2 : st2 = [i \in 0..(n + 1) |-> IF i = n + 1 THEN AfterChapter(st[n], chapter) ELSE st[i]]
  OBVIOUS
<1>6. st \in [0..n -> StatusType] /\ AfterChapter(st[n], chapter) \in StatusType
  BY <1>1, <1>2, ChapterSays DEF Story
<1>7. st2 \in [0..(n + 1) -> StatusType] /\ st2[0] = Unchanged
      /\ st2[n + 1] = AfterChapter(st[n], chapter)
  BY <1>1, <1>5, <1>6 DEF Story
<1>8. ASSUME NEW i \in 1..(n + 1) PROVE st2[i] = AfterChapter(st2[i - 1], more[i])
  <2>1. CASE i = n + 1
    <3>1. st2[i - 1] = st[n]
      BY <1>5, <2>1
    <3> QED
      BY <1>4, <1>7, <2>1, <3>1
  <2>2. CASE i # n + 1
    <3>1. i \in 1..n /\ i - 1 \in 0..n
      BY <2>2
    <3>2. st2[i] = st[i] /\ st2[i - 1] = st[i - 1] /\ more[i] = chapters[i]
      BY <1>4, <1>5, <3>1
    <3> QED
      BY <1>1, <1>2, <3>1, <3>2 DEF Story
  <2> QED
    BY <2>1, <2>2
<1>9. Story(st2, more)
  BY <1>4, <1>7, <1>8 DEF Story
<1>10. StatusIn(more) = st2[n + 1] /\ StatusIn(chapters) = st[n]
  BY <1>1, <1>2, <1>4, <1>9, StoryIs
<1> QED
  BY <1>3, <1>7, <1>10

\* A delta on the latest chapter.
WithDelta(chapters, n, delta) == [chapters EXCEPT ![n].deltas = Append(@, delta)]

LEMMA StatusChanged ==
  ASSUME NEW chapters \in Seq(ChapterType), chapters # << >>, NEW delta \in DeltaType,
         NEW n, n = Len(chapters), NEW more, more = WithDelta(chapters, n, delta)
  PROVE  /\ more \in Seq(ChapterType) /\ Len(more) = n
         /\ StatusIn(more) = Applied(StatusIn(chapters), delta)
         /\ \A c \in 1..n : /\ more[c].commit = chapters[c].commit
                            /\ more[c].settles = chapters[c].settles
                            /\ more[c].retired = chapters[c].retired
<1>1. n \in Nat /\ n > 0 /\ DOMAIN chapters = 1..n /\ \A c \in 1..n : chapters[c] \in ChapterType
  OBVIOUS
<1>2. PICK last : last = [chapters[n] EXCEPT !.deltas = Append(chapters[n].deltas, delta)]
  OBVIOUS
<1>3. /\ last \in ChapterType /\ last.commit = chapters[n].commit
      /\ last.settles = chapters[n].settles /\ last.retired = chapters[n].retired
      /\ last.deltas = Append(chapters[n].deltas, delta)
  <2>1. chapters[n] \in ChapterType
    BY <1>1
  <2>2. Append(chapters[n].deltas, delta) \in Seq(DeltaType)
    BY <2>1 DEF ChapterType
  <2> QED
    BY <1>2, <2>1, <2>2 DEF ChapterType
<1>4. more = [chapters EXCEPT ![n] = last]
  BY <1>2 DEF WithDelta
<1>5. /\ more \in Seq(ChapterType) /\ Len(more) = n /\ more[n] = last
      /\ \A c \in 1..n : c # n => more[c] = chapters[c]
  <2>1. n \in 1..Len(chapters) /\ last \in ChapterType
    BY <1>1, <1>3
  <2>2. /\ [chapters EXCEPT ![n] = last] \in Seq(ChapterType)
        /\ Len([chapters EXCEPT ![n] = last]) = Len(chapters)
        /\ \A j \in 1..Len(chapters) :
              [chapters EXCEPT ![n] = last][j] = IF j = n THEN last ELSE chapters[j]
    BY ONLY <2>1, chapters \in Seq(ChapterType), ExceptSeq
  <2> QED
    BY <1>1, <1>4, <2>1, <2>2
<1>6. PICK st : Story(st, chapters)
  BY StoryIs
<1>7. st \in [0..n -> StatusType] /\ n \in 0..n /\ n - 1 \in 0..n /\ n \in 1..n
  BY <1>1, <1>6 DEF Story
<1>8. AfterChapter(st[n - 1], last) = Applied(st[n], delta)
  <2>1. st[n] = AfterChapter(st[n - 1], chapters[n])
    BY <1>6, <1>7 DEF Story
  <2>2. PICK told \in StatusType : told = Told(st[n - 1], chapters[n].settles)
    BY <1>7, StatusTypes
  <2>3. st[n] = AppliedAll(told, chapters[n].deltas)
    BY <1>1, <1>7, <2>1, <2>2, ChapterSays
  <2>4. AfterChapter(st[n - 1], last) = AppliedAll(told, Append(chapters[n].deltas, delta))
    <3>1. last \in ChapterType /\ st[n - 1] \in StatusType
      BY <1>3, <1>7
    <3>2. AfterChapter(st[n - 1], last) = AppliedAll(Told(st[n - 1], last.settles), last.deltas)
      BY ONLY <3>1, ChapterSays
    <3> QED
      BY <1>3, <2>2, <3>2
  <2>5. chapters[n].deltas \in Seq(DeltaType)
    BY <1>1 DEF ChapterType
  <2> QED
    BY <2>2, <2>3, <2>4, <2>5, LedgerSays
<1>9. PICK st2 : st2 = [i \in 0..n |-> IF i = n THEN Applied(st[n], delta) ELSE st[i]]
  OBVIOUS
<1>10. Applied(st[n], delta) \in StatusType
  BY <1>7, StatusTypes
<1>11. st2 \in [0..n -> StatusType] /\ st2[0] = Unchanged /\ st2[n] = Applied(st[n], delta)
  <2>1. st[0] = Unchanged
    BY <1>6 DEF Story
  <2> QED
    BY <1>1, <1>7, <1>9, <1>10, <2>1
<1>12. ASSUME NEW i \in 1..n PROVE st2[i] = AfterChapter(st2[i - 1], more[i])
  <2>1. st2[i - 1] = st[i - 1]
    BY <1>1, <1>9
  <2>2. CASE i = n
    BY <1>5, <1>8, <1>11, <2>1, <2>2
  <2>3. CASE i # n
    <3>1. st2[i] = st[i] /\ more[i] = chapters[i]
      BY <1>5, <1>9, <2>3
    <3> QED
      BY <1>6, <2>1, <3>1 DEF Story
  <2> QED
    BY <2>2, <2>3
<1>13. Story(st2, more)
  BY <1>5, <1>11, <1>12 DEF Story
<1>14. StatusIn(more) = st2[n] /\ StatusIn(chapters) = st[n]
  BY <1>5, <1>6, <1>13, StoryIs
<1> QED
  BY <1>1, <1>3, <1>5, <1>11, <1>14

-----------------------------------------------------------------------------
(* What a replay makes of a book: the same chapters, with some of their      *)
(* deltas, and the statuses that these say.                                  *)

DoneType == [status : StatusType, kept : Seq(DeltaType), lost : Seq(DeltaType),
             canon : Seq(ChapterType)]

LEMMA RedoSays ==
  ASSUME NEW vanished, NEW done \in DoneType, NEW delta \in DeltaType,
         NEW next, next = Redo(vanished, done, delta)
  PROVE  /\ next \in DoneType /\ next.canon = done.canon
         /\ \/ next.kept = done.kept /\ next.status = done.status
            \/ next.kept = Append(done.kept, delta) /\ next.status = Applied(done.status, delta)
<1>1. /\ done.status \in StatusType /\ done.kept \in Seq(DeltaType)
      /\ done.lost \in Seq(DeltaType) /\ done.canon \in Seq(ChapterType)
  BY DEF DoneType
<1>2. CASE Ref(delta) \notin vanished /\ Holds(done.status, delta)
  <2>1. next = [done EXCEPT !.status = Applied(done.status, delta), !.kept = Append(done.kept, delta)]
    BY <1>2 DEF Redo
  <2>2. PICK s : s = Applied(done.status, delta)
    OBVIOUS
  <2>3. PICK k : k = Append(done.kept, delta)
    OBVIOUS
  <2>4. s \in StatusType /\ k \in Seq(DeltaType)
    BY <1>1, <2>2, <2>3, StatusTypes
  <2>5. next = [done EXCEPT !.status = s, !.kept = k]
    BY <2>1, <2>2, <2>3
  <2>6. next \in DoneType /\ next.canon = done.canon /\ next.kept = k /\ next.status = s
    BY <2>4, <2>5 DEF DoneType
  <2> QED
    BY <2>2, <2>3, <2>6
<1>3. CASE ~(Ref(delta) \notin vanished /\ Holds(done.status, delta))
  <2>1. next = [done EXCEPT !.lost = Append(done.lost, delta)]
    BY <1>3 DEF Redo, Lost
  <2>2. PICK k : k = Append(done.lost, delta)
    OBVIOUS
  <2>3. next = [done EXCEPT !.lost = k]
    BY <2>1, <2>2
  <2>4. k \in Seq(DeltaType)
    BY <1>1, <2>2
  <2> QED
    BY <2>3, <2>4 DEF DoneType
<1> QED
  BY <1>2, <1>3

LEMMA RedoStep ==
  ASSUME NEW vanished, NEW before \in DoneType, NEW delta \in DeltaType, NEW status \in StatusType,
         before.status = AppliedAll(status, before.kept),
         NEW after, after = Redo(vanished, before, delta)
  PROVE  after.canon = before.canon /\ after.status = AppliedAll(status, after.kept)
<1>1. /\ after.canon = before.canon
      /\ \/ after.kept = before.kept /\ after.status = before.status
         \/ after.kept = Append(before.kept, delta) /\ after.status = Applied(before.status, delta)
  BY RedoSays
<1>2. PICK kept \in Seq(DeltaType) : kept = before.kept
  BY DEF DoneType
<1>3. AppliedAll(status, Append(kept, delta)) = Applied(AppliedAll(status, kept), delta)
  BY LedgerSays
<1> QED
  BY <1>1, <1>2, <1>3

LEMMA RedoAllSays ==
  ASSUME NEW vanished, NEW done \in DoneType, done.kept = << >>, NEW deltas \in Seq(DeltaType),
         NEW result, result = RedoAll(vanished, done, deltas)
  PROVE  /\ result \in DoneType /\ result.canon = done.canon
         /\ result.status = AppliedAll(done.status, result.kept)
<1>1. PICK n \in Nat : n = Len(deltas) /\ DOMAIN deltas = 1..n
  OBVIOUS
<1>2. /\ DOMAIN deltas = 1..n /\ \A i \in 1..n : deltas[i] \in DeltaType
  BY <1>1
<1>3. \A v \in DoneType : \A i \in 1..n : Redo(vanished, v, deltas[i]) \in DoneType
  BY <1>2, RedoSays
<1>4. PICK st : RedoRun(vanished, st, n, done, deltas, DoneType)
  BY <1>2, <1>3, RedoFold
<1>5. RedoAll(vanished, done, deltas) = st[n]
  BY ONLY n \in Nat, done \in DoneType, <1>2, <1>3, <1>4, RedoFold
<1>6. /\ st \in [0..n -> DoneType] /\ st[0] = done
      /\ \A i \in 1..n : st[i] = Redo(vanished, st[i - 1], deltas[i])
  BY <1>4 DEF RedoRun
<1> DEFINE K == {m \in 0..n : /\ st[m].canon = done.canon
                              /\ st[m].status = AppliedAll(done.status, st[m].kept)}
<1>7. 0 \in K
  <2>1. done.status \in StatusType /\ << >> \in Seq(DeltaType)
    BY DEF DoneType
  <2>2. AppliedAll(done.status, << >>) = done.status
    BY <2>1, LedgerSays
  <2> QED
    BY <1>6, <2>2
<1>8. ASSUME NEW m \in 0..n, m \in K, m < n PROVE m + 1 \in K
  <2>1. m + 1 \in 1..n /\ (m + 1) - 1 = m /\ m + 1 \in 0..n
    BY <1>8
  <2>2. PICK before \in DoneType : before = st[m]
    BY <1>6
  <2>3. PICK after : after = st[m + 1]
    OBVIOUS
  <2>4. PICK delta \in DeltaType : delta = deltas[m + 1]
    BY <1>2, <2>1
  <2>5. after = Redo(vanished, before, delta)
    BY <1>6, <2>1, <2>2, <2>3, <2>4
  <2>6. before.canon = done.canon /\ before.status = AppliedAll(done.status, before.kept)
    BY <1>8, <2>2
  <2>7. PICK status \in StatusType : status = done.status
    BY DEF DoneType
  <2>8. before.status = AppliedAll(status, before.kept)
    BY <2>6, <2>7
  <2>9. after.canon = before.canon /\ after.status = AppliedAll(status, after.kept)
    BY ONLY before \in DoneType, delta \in DeltaType, status \in StatusType, <2>5, <2>8, RedoStep
  <2>10. after.canon = done.canon /\ after.status = AppliedAll(done.status, after.kept)
    BY <2>6, <2>7, <2>9
  <2> QED
    BY <2>1, <2>3, <2>10
<1>9. K \in SUBSET (0..n)
  OBVIOUS
<1>10. n \in K
  <2> HIDE DEF K
  <2>1. K = 0..n
    BY <1>7, <1>8, <1>9, UpTo
  <2> QED
    BY <2>1
<1> QED
  BY <1>5, <1>6, <1>10

\* Chapters with the same texts.
SameText(new, old) ==
    new.commit = old.commit /\ new.settles = old.settles /\ new.retired = old.retired

LEMMA RedoChapterSays ==
  ASSUME NEW vanished, NEW done \in DoneType, NEW chapter \in ChapterType,
         NEW next, next = RedoChapter(vanished, done, chapter)
  PROVE  /\ next \in DoneType
         /\ \E redone \in ChapterType :
               /\ SameText(redone, chapter) /\ next.canon = Append(done.canon, redone)
               /\ next.status = AfterChapter(done.status, redone)
<1>1. PICK told \in StatusType : told = Told(done.status, chapter.settles)
  BY StatusTypes DEF DoneType
<1>2. PICK begun : begun = [done EXCEPT !.status = told, !.kept = << >>]
  OBVIOUS
<1>3. begun \in DoneType /\ begun.kept = << >> /\ begun.canon = done.canon /\ begun.status = told
  <2>1. << >> \in Seq(DeltaType)
    OBVIOUS
  <2> QED
    BY <1>2, <2>1 DEF DoneType
<1>4. chapter.deltas \in Seq(DeltaType)
  BY DEF ChapterType
<1>5. PICK result : result = RedoAll(vanished, begun, chapter.deltas)
  OBVIOUS
<1>6. /\ result \in DoneType /\ result.canon = done.canon
      /\ result.status = AppliedAll(told, result.kept)
  BY <1>3, <1>4, <1>5, RedoAllSays
<1>7. PICK redone : redone = [chapter EXCEPT !.deltas = result.kept]
  OBVIOUS
<1>8. redone \in ChapterType /\ SameText(redone, chapter) /\ redone.deltas = result.kept
  <2>1. PICK k \in Seq(DeltaType) : k = result.kept
    BY <1>6 DEF DoneType
  <2>2. redone = [chapter EXCEPT !.deltas = k]
    BY <1>7, <2>1
  <2> QED
    BY <2>1, <2>2 DEF ChapterType, SameText
<1>9. PICK book : book = Append(done.canon, redone)
  OBVIOUS
<1>10. book \in Seq(ChapterType)
  BY <1>8, <1>9 DEF DoneType
<1>11. next = [result EXCEPT !.canon = book]
  <2>1. begun = [done EXCEPT !.status = Told(done.status, chapter.settles), !.kept = << >>]
    BY <1>1, <1>2
  <2>2. result = RedoAll(vanished, [done EXCEPT !.status = Told(done.status, chapter.settles),
                                                !.kept = << >>], chapter.deltas)
    BY <1>5, <2>1
  <2>3. next = [result EXCEPT !.canon = Append(result.canon, [chapter EXCEPT !.deltas = result.kept])]
    BY <2>2 DEF RedoChapter
  <2> QED
    BY <1>6, <1>7, <1>9, <2>3
<1>12. next \in DoneType /\ next.canon = book /\ next.status = result.status
  BY <1>6, <1>10, <1>11 DEF DoneType
<1>13. AfterChapter(done.status, redone) = result.status
  <2>1. Told(done.status, redone.settles) = told
    BY <1>1, <1>8 DEF SameText
  <2> QED
    BY <1>6, <1>8, <2>1 DEF AfterChapter
<1> QED
  BY <1>8, <1>9, <1>12, <1>13

LEMMA ReplaySays ==
  ASSUME NEW chapters \in Seq(ChapterType), NEW vanished,
         NEW replay, replay = Replay(chapters, vanished)
  PROVE  /\ replay.status \in StatusType /\ replay.lost \in Seq(DeltaType)
         /\ replay.canon \in Seq(ChapterType) /\ Len(replay.canon) = Len(chapters)
         /\ replay.status = StatusIn(replay.canon)
         /\ \A c \in 1..Len(chapters) : SameText(replay.canon[c], chapters[c])
<1>1. PICK n \in Nat : n = Len(chapters) /\ DOMAIN chapters = 1..n
  OBVIOUS
<1>2. /\ DOMAIN chapters = 1..n /\ \A i \in 1..n : chapters[i] \in ChapterType
  BY <1>1
<1>3. \A v \in DoneType : \A i \in 1..n : RedoChapter(vanished, v, chapters[i]) \in DoneType
  BY <1>2, RedoChapterSays
<1>4. NothingDone \in DoneType /\ NothingDone.canon = << >> /\ NothingDone.status = Unchanged
  <2>1. << >> \in Seq(DeltaType) /\ << >> \in Seq(ChapterType)
    OBVIOUS
  <2>2. Unchanged \in StatusType
    BY DEF Unchanged, StatusType, Statuses
  <2> QED
    BY <2>1, <2>2 DEF NothingDone, DoneType
<1>5. PICK base \in DoneType : base = NothingDone
  BY <1>4
<1>6. PICK st : ReplayRun(vanished, st, n, base, chapters, DoneType)
  BY ONLY n \in Nat, base \in DoneType, <1>2, <1>3, ReplayFold
<1>7. ReplayAll(vanished, base, chapters) = st[n]
  BY ONLY n \in Nat, base \in DoneType, <1>2, <1>3, <1>6, ReplayFold
<1>8. replay = st[n]
  BY <1>5, <1>7, ReplayIs
<1>9. /\ st \in [0..n -> DoneType] /\ st[0] = base
      /\ \A i \in 1..n : st[i] = RedoChapter(vanished, st[i - 1], chapters[i])
  BY <1>6 DEF ReplayRun
<1> DEFINE Redone(m, done) == /\ Len(done.canon) = m /\ done.status = StatusIn(done.canon)
                              /\ \A c \in 1..m : SameText(done.canon[c], chapters[c])
           K == {m \in 0..n : Redone(m, st[m])}
<1>10. 0 \in K
  <2>1. << >> \in Seq(ChapterType)
    OBVIOUS
  <2>2. StatusIn(<< >>) = Unchanged
    BY <2>1, StatusSays
  <2>3. Len(base.canon) = 0 /\ base.status = StatusIn(base.canon)
    BY <1>4, <1>5, <2>2
  <2> QED
    BY <1>9, <2>3
<1>11. ASSUME NEW m \in 0..n, m \in K, m < n PROVE m + 1 \in K
  <2>1. m + 1 \in 1..n /\ (m + 1) - 1 = m /\ m + 1 \in 0..n
    BY <1>11
  <2>2. PICK before \in DoneType : before = st[m]
    BY <1>9
  <2>3. PICK after : after = st[m + 1]
    OBVIOUS
  <2>4. PICK chapter \in ChapterType : chapter = chapters[m + 1]
    BY <1>2, <2>1
  <2>5. after = RedoChapter(vanished, before, chapter)
    BY <1>9, <2>1, <2>2, <2>3, <2>4
  <2>6. PICK redone \in ChapterType :
           /\ SameText(redone, chapter) /\ after.canon = Append(before.canon, redone)
           /\ after.status = AfterChapter(before.status, redone)
    BY <2>5, RedoChapterSays
  <2>7. Redone(m, before)
    BY <1>11, <2>2
  <2>8. before.canon \in Seq(ChapterType)
    BY DEF DoneType
  <2>9. PICK book \in Seq(ChapterType) : book = before.canon
    BY <2>8
  <2>10. Len(book) = m /\ before.status = StatusIn(book)
        /\ \A c \in 1..m : SameText(book[c], chapters[c])
    BY <2>7, <2>9
  <2>11. after.status = StatusIn(Append(book, redone))
    BY <2>6, <2>10, StatusAppended
  <2>12. after.canon = Append(book, redone)
    BY <2>6, <2>9
  <2>13. Len(after.canon) = m + 1 /\ after.status = StatusIn(after.canon)
    BY <2>10, <2>11, <2>12
  <2>14. ASSUME NEW c \in 1..(m + 1) PROVE SameText(after.canon[c], chapters[c])
    <3>1. CASE c = m + 1
      BY <2>4, <2>6, <2>10, <2>12, <3>1
    <3>2. CASE c # m + 1
      <4>1. c \in 1..m /\ after.canon[c] = book[c]
        BY <2>10, <2>12, <3>2
      <4> QED
        BY <2>10, <4>1
    <3> QED
      BY <3>1, <3>2
  <2>15. Redone(m + 1, after)
    BY <2>13, <2>14
  <2> QED
    BY <2>1, <2>3, <2>15
<1>12. K \in SUBSET (0..n)
  OBVIOUS
<1>13. n \in K
  <2> HIDE DEF K
  <2>1. K = 0..n
    BY <1>10, <1>11, <1>12, UpTo
  <2> QED
    BY <2>1
<1>14. Redone(n, replay) /\ replay \in DoneType
  BY <1>8, <1>9, <1>13
<1> QED
  BY <1>1, <1>14 DEF DoneType

LEMMA LedgerType ==
  ASSUME NEW c, canon[c].deltas \in Seq(DeltaType)
  PROVE  Ledger(c) \in Seq(DeltaType)
<1>1. PICK deltas : deltas = canon[c].deltas
  OBVIOUS
<1>2. PICK n \in Nat : n = Len(deltas) /\ DOMAIN deltas = 1..n
  BY <1>1
<1>3. DOMAIN deltas = 1..n /\ \A i \in 1..n : deltas[i] \in DeltaType
  BY <1>1, <1>2
<1>4. PICK St : St = Seq(DeltaType)
  OBVIOUS
<1>5. \A v \in St : \A i \in 1..n : Kept(v, deltas[i], c) \in St
  BY <1>3, <1>4 DEF Kept
<1>6. PICK base : base = << >> /\ base \in St
  <2>1. << >> \in Seq(DeltaType)
    OBVIOUS
  <2> QED
    BY <1>4, <2>1
<1>7. PICK st : LedgerRun(c, st, n, base, deltas, St)
  BY ONLY n \in Nat, <1>3, <1>5, <1>6, LedgerFold
<1>8. KeptAll(c, base, deltas) = st[n]
  BY ONLY n \in Nat, <1>3, <1>5, <1>6, <1>7, LedgerFold
<1>9. st[n] \in St
  BY <1>7 DEF LedgerRun
<1> QED
  BY <1>1, <1>4, <1>6, <1>8, <1>9, LedgerIs

-----------------------------------------------------------------------------
(* Commits are numbered upwards *)

Bound == Total + MaxRewrites

LEMMA Numbers == Total \in Nat \ {0} /\ MaxRewrites \in Nat /\ Bound \in Nat /\ Commits = 1..Bound
BY HeldIntentsAssumption DEF Bound, Commits

\* The next number after these chapters.
NextAfter(chapters) == 1 + Max({0} \cup {chapters[c].commit : c \in DOMAIN chapters})

LEMMA NextAfterSays ==
  ASSUME NEW chapters \in Seq(ChapterType), NEW len, len = Len(chapters), NEW next,
         next = NextAfter(chapters)
  PROVE  /\ next \in Nat /\ next > 0
         /\ \A c \in 1..len : chapters[c].commit \in Nat /\ chapters[c].commit < next
         /\ \A m \in Nat : m > 0 /\ (\A c \in 1..len : chapters[c].commit < m) => next <= m
<1>1. PICK S : S = {0} \cup {chapters[c].commit : c \in DOMAIN chapters}
  OBVIOUS
<1>2. DOMAIN chapters = 1..len /\ len \in Nat /\ \A c \in 1..len : chapters[c] \in ChapterType
  OBVIOUS
<1>3. \A c \in 1..len : chapters[c].commit \in 1..Bound
  BY <1>2, Numbers DEF ChapterType
<1>4. S \in SUBSET (0..Bound) /\ 0 \in S
  BY <1>1, <1>2, <1>3, Numbers
<1>5. PICK x : x = Max(S)
  OBVIOUS
<1>6. x \in S /\ \A y \in S : y <= x
  BY <1>4, <1>5, Numbers, MaxOfBounded
<1>7. next = 1 + x /\ x \in Nat
  BY <1>1, <1>4, <1>5, <1>6 DEF NextAfter
<1>8. \A c \in 1..len : chapters[c].commit \in S
  BY <1>1, <1>2
<1>9. x = 0 \/ \E c \in 1..len : chapters[c].commit = x
  BY <1>1, <1>2, <1>6
<1>10. \A c \in 1..len : chapters[c].commit \in Nat /\ chapters[c].commit < next
  BY <1>3, <1>4, <1>6, <1>7, <1>8
<1>11. \A m \in Nat : m > 0 /\ (\A c \in 1..len : chapters[c].commit < m) => next <= m
  BY <1>7, <1>9
<1> QED
  BY <1>7, <1>10, <1>11

LEMMA CommitsCount ==
  ASSUME canon \in Seq(ChapterType)
  PROVE  /\ Latest \in Nat /\ DOMAIN canon = 1..Latest
         /\ NextCommit \in Nat /\ NextCommit > 0
         /\ \A c \in 1..Latest : canon[c].commit \in Nat /\ canon[c].commit < NextCommit
<1>1. NextCommit = NextAfter(canon)
  BY DEF NextCommit, NextAfter, InCanon
<1>2. Latest = Len(canon)
  BY DEF Latest
<1> QED
  BY <1>1, <1>2, NextAfterSays

\* The texts of canon stay.
LEMMA CommitsStay ==
  ASSUME canon \in Seq(ChapterType), canon' \in Seq(ChapterType), Latest' = Latest,
         \A c \in 1..Latest : canon'[c].commit = canon[c].commit
  PROVE  NextCommit' = NextCommit
<1>1. DOMAIN canon = 1..Latest /\ DOMAIN canon' = 1..Latest
  BY DEF Latest
<1>2. InCanon' = InCanon
  BY <1>1 DEF InCanon
<1> QED
  BY <1>2 DEF NextCommit

\* A chapter gets a new text.
LEMMA CommitsGrow ==
  ASSUME canon \in Seq(ChapterType), canon' \in Seq(ChapterType), Latest' \in {Latest, Latest + 1},
         NEW r \in 1..Latest', canon'[r].commit = NextCommit,
         \A c \in 1..Latest' : c # r => c \in 1..Latest /\ canon'[c].commit = canon[c].commit
  PROVE  NextCommit' = NextCommit + 1
<1>1. /\ NextCommit \in Nat /\ NextCommit > 0 /\ Latest \in Nat
      /\ \A c \in 1..Latest : canon[c].commit \in Nat /\ canon[c].commit < NextCommit
  BY CommitsCount
<1>2. /\ NextCommit' \in Nat
      /\ \A c \in 1..Latest' : canon'[c].commit < NextCommit'
      /\ \A m \in Nat : m > 0 /\ (\A c \in 1..Latest' : canon'[c].commit < m) => NextCommit' <= m
  <2>1. NextCommit' = NextAfter(canon')
    BY DEF NextCommit, NextAfter, InCanon
  <2>2. Latest' = Len(canon')
    BY DEF Latest
  <2> QED
    BY <2>1, <2>2, NextAfterSays
<1>3. \A c \in 1..Latest' : canon'[c].commit < NextCommit + 1
  <2>1. ASSUME NEW c \in 1..Latest' PROVE canon'[c].commit < NextCommit + 1
    <3>1. CASE c = r
      BY <1>1, <3>1
    <3>2. CASE c # r
      <4>1. c \in 1..Latest /\ canon'[c].commit = canon[c].commit
        BY <3>2
      <4> QED
        BY <1>1, <4>1
    <3> QED
      BY <3>1, <3>2
  <2> QED
    BY <2>1
<1>4. NextCommit' <= NextCommit + 1
  <2>1. NextCommit + 1 \in Nat /\ NextCommit + 1 > 0
    BY <1>1
  <2> QED
    BY <1>2, <1>3, <2>1
<1>5. NextCommit < NextCommit'
  BY <1>2
<1> QED
  BY <1>1, <1>2, <1>4, <1>5

\* The rewrites under way.
Returned == {c \in DOMAIN canon : plans[c].status # "accepted"}

LEMMA ReturnedFinite ==
  ASSUME canon \in Seq(ChapterType)
  PROVE  /\ IsFiniteSet(Returned) /\ Cardinality(Returned) \in Nat
         /\ Rewrites = NextCommit - 1 - Latest + Cardinality(Returned)
<1>1. IsFiniteSet(1..Len(canon)) /\ DOMAIN canon = 1..Len(canon)
  BY FS_Interval
<1>2. Returned \in SUBSET (1..Len(canon))
  BY <1>1 DEF Returned
<1> QED
  BY <1>1, <1>2, FS_Subset, FS_CardinalityType DEF Rewrites, Returned

LEMMA ReachablePlan == FirstReachable \in 0..Total
<1> DEFINE reachable == {c \in Chapters : c > Latest /\ plans[c].status = "planned"}
<1>1. reachable \in SUBSET (0..Total) /\ Total \in Nat
  BY Numbers DEF Chapters
<1>2. FirstReachable = IF reachable = {} THEN 0 ELSE Min(reachable)
  BY DEF FirstReachable
<1> HIDE DEF reachable
<1>3. CASE reachable = {}
  BY <1>1, <1>2, <1>3
<1>4. CASE reachable # {}
  <2>1. Min(reachable) \in reachable
    BY <1>1, <1>4, MinOfBounded
  <2> QED
    BY <1>1, <1>2, <1>4, <2>1
<1> QED
  BY <1>3, <1>4

-----------------------------------------------------------------------------
(* A delta says what it changed *)

LEMMA ChangeSays ==
  ASSUME NEW before \in StatusType, NEW after \in StatusType, NEW delta,
         delta.change = Change(before, after)
  PROVE  /\ Applied(before, delta) = after
         /\ DOMAIN delta.change = {} => after = before
         /\ delta.change \in Changes
<1> DEFINE S == {j \in Intents : before[j] # after[j]}
           change == [i \in S |-> [from |-> before[i], to |-> after[i]]]
<1>1. delta.change = change
  BY DEF Change
<1>2. \A i \in Intents : before[i] \in Statuses /\ after[i] \in Statuses
  BY DEF StatusType
<1>3. change \in Changes
  <2>1. S \in SUBSET Intents
    OBVIOUS
  <2>2. change \in [S -> [from : Statuses, to : Statuses]]
    BY <1>2
  <2> HIDE DEF S, change
  <2> QED
    BY <2>1, <2>2 DEF Changes
<1>4. DOMAIN delta.change = S /\ \A i \in S : delta.change[i].to = after[i]
  BY <1>1
<1>5. \A i \in Intents : (IF i \in S THEN delta.change[i].to ELSE before[i]) = after[i]
  BY <1>4
<1>6. Applied(before, delta) = [i \in Intents |-> after[i]]
  <2>1. Applied(before, delta) = [i \in Intents |-> IF i \in S THEN delta.change[i].to ELSE before[i]]
    BY <1>4 DEF Applied
  <2> QED
    BY <1>5, <2>1
<1>7. S = {} => after = before
  BY DEF StatusType
<1> QED
  BY <1>1, <1>3, <1>4, <1>6, <1>7 DEF StatusType

LEMMA TickDelta ==
  ASSUME NEW n \in Commits, NEW before \in StatusType, NEW after \in StatusType, NEW delta,
         delta = Delta("tick", n, Change(before, after))
  PROVE  /\ delta \in DeltaType /\ Applied(before, delta) = after
         /\ DOMAIN delta.change = {} => after = before
<1>1. delta = [kind |-> "tick", id |-> n, change |-> Change(before, after)]
  BY DEF Delta
<1>2. delta.change = Change(before, after)
  BY <1>1
<1> QED
  BY <1>1, <1>2, ChangeSays DEF DeltaType

LEMMA ConflictDelta ==
  ASSUME NEW k \in Nat, NEW before \in StatusType, NEW after \in StatusType, NEW delta,
         delta = Delta("conflict", k, Change(before, after))
  PROVE  /\ delta \in DeltaType /\ Applied(before, delta) = after
         /\ DOMAIN delta.change = {} => after = before
<1>1. delta = [kind |-> "conflict", id |-> k, change |-> Change(before, after)]
  BY DEF Delta
<1>2. delta.change = Change(before, after)
  BY <1>1
<1> QED
  BY <1>1, <1>2, ChangeSays DEF DeltaType

-----------------------------------------------------------------------------
(* The rows of a set in some order *)

LEMMA InSomeOrder ==
  ASSUME NEW S, IsFiniteSet(S), NEW seq, seq = SetToSeq(S)
  PROVE  /\ seq \in Seq(S)
         /\ \A x \in S : \E k \in DOMAIN seq : seq[k] = x
         /\ \A k, l \in DOMAIN seq : seq[k] = seq[l] => k = l
<1>1. PICK n \in Nat : n = Cardinality(S) /\ ExistsBijection(1..n, S)
  BY FS_CardinalityType
<1>2. \E f \in [1..n -> S] : IsInjective(f)
  BY <1>1 DEF ExistsBijection, Bijection, Injection
<1>3. seq \in [1..n -> S] /\ IsInjective(seq)
  BY <1>1, <1>2 DEF SetToSeq
<1>4. seq \in Injection(1..n, S)
  BY <1>3 DEF Injection
<1>5. IsFiniteSet(1..n) /\ Cardinality(1..n) = n
  BY FS_Interval
<1>6. seq \in Surjection(1..n, S)
  BY <1>1, <1>4, <1>5, FS_Injection
<1>7. \A x \in S : \E k \in 1..n : seq[k] = x
  BY <1>6 DEF Surjection
<1>8. seq \in Seq(S) /\ DOMAIN seq = 1..n
  BY <1>3
<1> QED
  BY <1>3, <1>7, <1>8 DEF IsInjective

-----------------------------------------------------------------------------
(* What happens to the rows of conflicts *)

\* A row whose decision is the one it was.
Follows(new, old) ==
    new.intent = old.intent /\ new.status = old.status /\ new.option = old.option

LEMMA RetiredSays ==
  ASSUME NEW row \in ConflictType, RowOK(row), NEW new, new = Retired(row)
  PROVE  new \in ConflictType /\ RowOK(new) /\ Follows(new, row)
<1>1. CASE row.option = "plot_responds"
  <2>1. new = [row EXCEPT !.response = "retired", !.carrier = 0]
    BY <1>1 DEF Retired
  <2>2. 0 \in 0..Total
    BY Numbers
  <2>3. new \in ConflictType /\ Follows(new, row) /\ new.response = "retired" /\ new.carrier = 0
    BY <2>1, <2>2 DEF ConflictType, Follows
  <2> QED
    BY <2>3 DEF RowOK
<1>2. CASE row.option # "plot_responds"
  BY <1>2 DEF Retired, Follows
<1> QED
  BY <1>1, <1>2

LEMMA ExpiredSays ==
  ASSUME NEW rows \in Seq(ConflictType), NEW ids, NEW new, new = ExpiredAll(rows, ids),
         \A k \in DOMAIN rows : RowOK(rows[k]),
         \A k \in ids : k \in DOMAIN rows => rows[k].status = "open"
  PROVE  /\ new \in Seq(ConflictType) /\ Len(new) = Len(rows) /\ DOMAIN new = DOMAIN rows
         /\ \A k \in DOMAIN rows :
               /\ new[k].intent = rows[k].intent /\ new[k].response = rows[k].response
               /\ RowOK(new[k])
               /\ Responds(new[k]) => Responds(rows[k])
<1>1. PICK n \in Nat : n = Len(rows)
  OBVIOUS
<1>2. DOMAIN rows = 1..n /\ \A k \in 1..n : rows[k] \in ConflictType
  BY <1>1
<1>3. new = [k \in 1..n |-> IF k \in ids THEN [rows[k] EXCEPT !.status = "expired"] ELSE rows[k]]
  BY <1>2 DEF ExpiredAll
<1>4. ASSUME NEW k \in 1..n
      PROVE  /\ new[k] \in ConflictType /\ RowOK(new[k])
             /\ new[k].intent = rows[k].intent /\ new[k].response = rows[k].response
             /\ Responds(new[k]) => Responds(rows[k])
  <2>1. CASE k \in ids
    <3>1. PICK row \in ConflictType : row = rows[k]
      BY <1>2
    <3>2. new[k] = [row EXCEPT !.status = "expired"]
      BY <1>3, <2>1, <3>1
    <3>3. row.status = "open" /\ RowOK(row)
      BY <1>2, <2>1, <3>1
    <3>4. /\ new[k] \in ConflictType /\ new[k].status = "expired"
          /\ new[k].intent = row.intent /\ new[k].response = row.response
          /\ new[k].carrier = row.carrier
      BY <3>2 DEF ConflictType
    <3>5. RowOK(new[k]) /\ ~Responds(new[k])
      BY <3>3, <3>4 DEF RowOK, Responds
    <3> QED
      BY <3>1, <3>4, <3>5
  <2>2. CASE k \notin ids
    BY <1>2, <1>3, <2>2
  <2> QED
    BY <2>1, <2>2
<1>5. new \in Seq(ConflictType) /\ Len(new) = n /\ DOMAIN new = 1..n
  <2>1. new = [k \in 1..n |-> new[k]]
    BY <1>3
  <2>2. \A k \in 1..n : new[k] \in ConflictType
    BY <1>4
  <2>3. new \in [1..n -> ConflictType]
    BY <2>1, <2>2
  <2> QED
    BY <2>3
<1> QED
  BY <1>1, <1>2, <1>4, <1>5

\* No row has become a response.
LEMMA OnceStays ==
  ASSUME NEW rows, NEW new, DOMAIN new = DOMAIN rows, Once(rows),
         \A k \in DOMAIN rows : /\ new[k].intent = rows[k].intent
                                /\ Responds(new[k]) => Responds(rows[k])
  PROVE  Once(new)
BY DEF Once

\* Rows that follow are no responses to an intent that has one.
LEMMA OnceAppended ==
  ASSUME NEW rows \in Seq(ConflictType), NEW more \in Seq(ConflictType), Once(rows), Once(more),
         \A k \in DOMAIN rows, l \in DOMAIN more :
            ~(Responds(rows[k]) /\ Responds(more[l]) /\ rows[k].intent = more[l].intent)
  PROVE  Once(rows \o more)
<1>1. PICK n \in Nat : n = Len(rows) /\ DOMAIN rows = 1..n
  OBVIOUS
<1>2. PICK m \in Nat : m = Len(more) /\ DOMAIN more = 1..m
  OBVIOUS
<1>3. PICK all : all = rows \o more
  OBVIOUS
<1>4. /\ DOMAIN all = 1..(n + m)
      /\ \A k \in 1..(n + m) : all[k] = IF k <= n THEN rows[k] ELSE more[k - n]
  BY <1>1, <1>2, <1>3
<1>5. SUFFICES ASSUME NEW k \in 1..(n + m), NEW l \in 1..(n + m),
                      Responds(all[k]), Responds(all[l]), all[k].intent = all[l].intent
               PROVE  k = l
  BY <1>3, <1>4 DEF Once
<1>6. CASE k <= n /\ l <= n
  <2>1. k \in 1..n /\ l \in 1..n /\ all[k] = rows[k] /\ all[l] = rows[l]
    BY <1>4, <1>6
  <2> QED
    BY <1>1, <1>5, <2>1 DEF Once
<1>7. CASE k > n /\ l > n
  <2>1. k - n \in 1..m /\ l - n \in 1..m /\ all[k] = more[k - n] /\ all[l] = more[l - n]
    BY <1>4, <1>7
  <2>2. k - n = l - n
    BY <1>2, <1>5, <2>1 DEF Once
  <2> QED
    BY <2>2
<1>8. CASE k <= n /\ l > n
  <2>1. k \in 1..n /\ l - n \in 1..m /\ all[k] = rows[k] /\ all[l] = more[l - n]
    BY <1>4, <1>8
  <2> QED
    BY <1>1, <1>2, <1>5, <2>1
<1>9. CASE k > n /\ l <= n
  <2>1. l \in 1..n /\ k - n \in 1..m /\ all[l] = rows[l] /\ all[k] = more[k - n]
    BY <1>4, <1>9
  <2> QED
    BY <1>1, <1>2, <1>5, <2>1
<1> QED
  BY <1>6, <1>7, <1>8, <1>9

LEMMA Appended ==
  ASSUME NEW rows \in Seq(ConflictType), NEW more \in Seq(ConflictType), NEW all, all = rows \o more
  PROVE  /\ all \in Seq(ConflictType)
         /\ \A k \in DOMAIN rows : k \in DOMAIN all /\ all[k] = rows[k]
         /\ \A l \in DOMAIN more : Len(rows) + l \in DOMAIN all /\ all[Len(rows) + l] = more[l]
         /\ \A k \in DOMAIN all : \/ k \in DOMAIN rows /\ all[k] = rows[k]
                                  \/ \E l \in DOMAIN more : all[k] = more[l]
<1>1. PICK n \in Nat : n = Len(rows) /\ DOMAIN rows = 1..n
  OBVIOUS
<1>2. PICK m \in Nat : m = Len(more) /\ DOMAIN more = 1..m
  OBVIOUS
<1>3. /\ all \in Seq(ConflictType) /\ DOMAIN all = 1..(n + m)
      /\ \A k \in 1..(n + m) : all[k] = IF k <= n THEN rows[k] ELSE more[k - n]
  BY <1>1, <1>2
<1>4. ASSUME NEW l \in 1..m PROVE n + l \in 1..(n + m) /\ all[n + l] = more[l]
  BY <1>3
<1>5. ASSUME NEW k \in 1..(n + m)
      PROVE  \/ k \in 1..n /\ all[k] = rows[k]
             \/ \E l \in 1..m : all[k] = more[l]
  <2>1. CASE k <= n
    <3>1. k \in 1..n
      BY <2>1
    <3>2. all[k] = rows[k]
      BY <1>3, <2>1
    <3> QED
      BY <3>1, <3>2
  <2>2. CASE k > n
    <3>1. k - n \in 1..m /\ all[k] = more[k - n]
      BY <1>3, <2>2
    <3> QED
      BY <3>1
  <2>3. k <= n \/ k > n
    OBVIOUS
  <2> QED
    BY <2>1, <2>2, <2>3
<1>6. \A k \in 1..n : k \in 1..(n + m) /\ all[k] = rows[k]
  BY <1>3
<1>7. DOMAIN rows = 1..n /\ DOMAIN more = 1..m /\ DOMAIN all = 1..(n + m)
  BY <1>1, <1>2, <1>3
<1>8. \A l \in DOMAIN more : Len(rows) + l \in DOMAIN all /\ all[Len(rows) + l] = more[l]
  BY <1>1, <1>4, <1>7
<1>9. \A k \in DOMAIN rows : k \in DOMAIN all /\ all[k] = rows[k]
  BY <1>6, <1>7
<1>10. \A k \in DOMAIN all : \/ k \in DOMAIN rows /\ all[k] = rows[k]
                             \/ \E l \in DOMAIN more : all[k] = more[l]
  BY <1>5, <1>7
<1> QED
  BY <1>3, <1>8, <1>9, <1>10

LEMMA ReconciledSays ==
  ASSUME NEW rows \in Seq(ConflictType), NEW status, NEW complete \in BOOLEAN,
         NEW new, new = Reconciled(rows, status, complete),
         \A k \in DOMAIN rows : RowOK(rows[k]),
         \A k \in Active : k \in DOMAIN rows => rows[k].response = "active"
  PROVE  /\ new \in Seq(ConflictType) /\ DOMAIN new = DOMAIN rows
         /\ \A k \in DOMAIN rows :
               /\ RowOK(new[k]) /\ Follows(new[k], rows[k])
               /\ rows[k].response = "active" /\ ~complete /\ status[rows[k].intent] = "held" =>
                     new[k].response = "active"
<1>1. PICK n \in Nat : n = Len(rows) /\ DOMAIN rows = 1..n
  OBVIOUS
<1>2. DOMAIN rows = 1..n /\ \A k \in 1..n : rows[k] \in ConflictType
  BY <1>1
<1>3. new = [k \in 1..n |->
        CASE k \notin Active -> rows[k]
          [] k \in Active /\ (complete \/ status[rows[k].intent] # "held") -> Retired(rows[k])
          [] k \in Pending /\ ~complete /\ status[rows[k].intent] = "held" ->
                [rows[k] EXCEPT !.carrier = FirstReachable]
          [] OTHER -> rows[k]]
  BY <1>2 DEF Reconciled
<1>4. ASSUME NEW k \in 1..n
      PROVE  \/ new[k] = rows[k]
             \/ /\ k \in Active /\ (complete \/ status[rows[k].intent] # "held")
                /\ new[k] = Retired(rows[k])
             \/ k \in Active /\ new[k] = [rows[k] EXCEPT !.carrier = FirstReachable]
  <2>1. new[k] = CASE k \notin Active -> rows[k]
          [] k \in Active /\ (complete \/ status[rows[k].intent] # "held") -> Retired(rows[k])
          [] k \in Pending /\ ~complete /\ status[rows[k].intent] = "held" ->
                [rows[k] EXCEPT !.carrier = FirstReachable]
          [] OTHER -> rows[k]
    BY <1>3
  <2>2. k \in Pending => k \in Active
    BY DEF Pending
  <2> QED
    BY <2>1, <2>2
<1>5. ASSUME NEW k \in 1..n
      PROVE  /\ new[k] \in ConflictType /\ RowOK(new[k]) /\ Follows(new[k], rows[k])
             /\ rows[k].response = "active" /\ ~complete /\ status[rows[k].intent] = "held" =>
                   new[k].response = "active"
  <2>1. rows[k] \in ConflictType /\ RowOK(rows[k])
    BY <1>2
  <2>2. PICK row \in ConflictType : row = rows[k] /\ RowOK(row)
    BY <2>1
  <2>3. CASE new[k] = row
    BY <2>2, <2>3 DEF Follows
  <2>4. CASE (complete \/ status[row.intent] # "held") /\ new[k] = Retired(row)
    BY <2>2, <2>4, RetiredSays
  <2>5. CASE k \in Active /\ new[k] = [row EXCEPT !.carrier = FirstReachable]
    <3>1. row.response = "active"
      BY <1>2, <2>2, <2>5
    <3>2. row.intent \in Intents /\ row.status = "resolved"
      BY <2>2, <3>1 DEF RowOK
    <3>3. PICK carrier \in 0..Total : carrier = FirstReachable
      BY ReachablePlan
    <3>4. new[k] = [row EXCEPT !.carrier = carrier]
      BY <2>5, <3>3
    <3>5. /\ new[k] \in ConflictType /\ new[k].response = row.response /\ new[k].intent = row.intent
          /\ new[k].status = row.status /\ new[k].option = row.option
      BY <3>4 DEF ConflictType
    <3>6. RowOK(new[k])
      BY <3>2, <3>5 DEF RowOK
    <3> QED
      BY <2>2, <3>1, <3>5, <3>6 DEF Follows
  <2> QED
    BY <1>4, <2>2, <2>3, <2>4, <2>5
<1>6. new \in Seq(ConflictType) /\ DOMAIN new = 1..n
  <2>1. new = [k \in 1..n |-> new[k]]
    BY <1>3
  <2>2. \A k \in 1..n : new[k] \in ConflictType
    BY <1>5
  <2>3. new \in [1..n -> ConflictType]
    BY <2>1, <2>2
  <2> QED
    BY <2>3
<1> QED
  BY <1>2, <1>5, <1>6

LEMMA ReboundSays ==
  ASSUME plans \in [Chapters -> PlanType],
         NEW rows, \A k \in DOMAIN rows : RowOK(rows[k]), NEW new, new = Rebound(rows)
  PROVE  new \in [Chapters -> PlanType] /\ \A c \in Chapters : new[c].status = plans[c].status
<1>1. ASSUME NEW c \in Chapters PROVE CarriedBy(rows, c) \subseteq Intents
  <2>1. c # 0
    BY DEF Chapters
  <2> QED
    BY <2>1 DEF CarriedBy, RowOK
<1>2. ASSUME NEW c \in Chapters
      PROVE  new[c] \in PlanType /\ new[c].status = plans[c].status
  <2>1. PICK obsolete : obsolete = IF plans[c].status = "planned"
                                   THEN CarriedBy(conflicts, c) \ CarriedBy(rows, c) ELSE {}
    OBVIOUS
  <2>2. PICK bound : bound = (plans[c].bound \ obsolete) \cup CarriedBy(rows, c)
    OBVIOUS
  <2>3. new[c] = [plans[c] EXCEPT !.bound = bound]
    BY <2>1, <2>2 DEF Rebound
  <2>4. PICK plan \in PlanType : plan = plans[c]
    OBVIOUS
  <2>5. bound \in SUBSET Intents
    BY <1>1, <2>2, <2>4 DEF PlanType
  <2> QED
    BY <2>3, <2>4, <2>5 DEF PlanType
<1>3. new = [c \in Chapters |-> new[c]]
  BY DEF Rebound
<1> QED
  BY <1>2, <1>3

-----------------------------------------------------------------------------
(* What a tick makes of the intents *)

\* The row of an intent whose change is held.
RaisedRow(n, turns, i) ==
    LET row == Conflict(i, turns[i].kind, n, Latest + 1, Offers(i))
    IN IF turns[i].by = "none" THEN row
       ELSE [row EXCEPT !.status = "resolved", !.option = turns[i].by,
                        !.delta = <<"tick", n>>,
                        !.response = IF turns[i].by = "plot_responds" THEN "active" ELSE "none",
                        !.carrier = IF turns[i].by = "plot_responds" THEN FirstReachable ELSE 0]

LEMMA TurnSays ==
  ASSUME NEW turn \in Turns
  PROVE  /\ turn.by \in {"none", "veto_world", "plot_responds", "accept_with_obligation"}
         /\ turn.does = "hold" => turn.kind \in Kinds
         /\ turn.does # "hold" => turn.by = "none"
BY DEF Turns, Rest, Settle

LEMMA RaisedRowSays ==
  ASSUME NEW n \in Commits, NEW turns \in [Intents -> Turns], NEW i \in Intents,
         turns[i].does = "hold", Latest \in Nat, NEW new, new = RaisedRow(n, turns, i)
  PROVE  /\ new \in ConflictType /\ RowOK(new) /\ new.intent = i
         /\ turns[i].by = "none" => new.status = "open" /\ new.response = "none"
         /\ Responds(new) <=> turns[i].by = "plot_responds"
         /\ Responds(new) => new.response = "active"
<1>1. PICK kind \in Kinds : kind = turns[i].kind
  BY TurnSays
<1>2. PICK by : by = turns[i].by
  OBVIOUS
<1>3. by \in {"none", "veto_world", "plot_responds", "accept_with_obligation"}
  BY <1>2, TurnSays
<1>4. PICK offers \in BOOLEAN : offers = Offers(i)
  BY DEF Offers
<1>5. PICK blocks \in Nat : blocks = Latest + 1
  OBVIOUS
<1>6. PICK row : row = [intent |-> i, violated |-> kind, origin |-> n, blocks |-> blocks,
                        offers |-> offers, status |-> "open", option |-> "none",
                        delta |-> NoDelta, response |-> "none", carrier |-> 0]
  OBVIOUS
<1>7. row = Conflict(i, turns[i].kind, n, Latest + 1, Offers(i))
  BY <1>1, <1>4, <1>5, <1>6 DEF Conflict
<1>8. n \in Nat /\ 0 \in 0..Total
  BY Numbers
<1>9. NoDelta \in {"none", "tick", "conflict"} \X Nat /\ <<"tick", n>> \in {"none", "tick", "conflict"} \X Nat
  BY <1>8 DEF NoDelta
<1>10. row \in ConflictType
  BY <1>6, <1>8, <1>9 DEF ConflictType
<1>11. CASE by = "none"
  <2>1. new = row
    BY <1>2, <1>7, <1>11 DEF RaisedRow
  <2>2. new.intent = i /\ new.status = "open" /\ new.response = "none" /\ new.carrier = 0
    BY <1>6, <2>1
  <2> QED
    BY <1>2, <1>10, <1>11, <2>1, <2>2 DEF RowOK, Responds
<1>12. CASE by # "none"
  <2>1. PICK response : response = IF by = "plot_responds" THEN "active" ELSE "none"
    OBVIOUS
  <2>2. PICK carrier : carrier = IF by = "plot_responds" THEN FirstReachable ELSE 0
    OBVIOUS
  <2>3. PICK delta : delta = <<"tick", n>>
    OBVIOUS
  <2>4. new = [row EXCEPT !.status = "resolved", !.option = by, !.delta = delta,
                          !.response = response, !.carrier = carrier]
    BY <1>2, <1>7, <1>12, <2>1, <2>2, <2>3 DEF RaisedRow
  <2>5. /\ response \in {"none", "active", "retired"} /\ carrier \in 0..Total
        /\ delta \in {"none", "tick", "conflict"} \X Nat /\ by \in Options \cup {"none"}
    BY <1>3, <1>8, <1>9, <2>1, <2>2, <2>3, ReachablePlan DEF Options
  <2>6. /\ new \in ConflictType /\ new.status = "resolved" /\ new.option = by
        /\ new.response = response /\ new.carrier = carrier /\ new.intent = row.intent
    BY <1>10, <2>4, <2>5 DEF ConflictType
  <2>7. new.intent = i
    BY <1>6, <2>6
  <2> QED
    BY <1>2, <1>12, <2>1, <2>6, <2>7 DEF RowOK, Responds
<1> QED
  BY <1>11, <1>12

LEMMA RaisedSays ==
  ASSUME NEW n \in Commits, NEW turns \in [Intents -> Turns], Latest \in Nat,
         NEW raised, raised = Raised(n, turns)
  PROVE  /\ raised \in Seq(ConflictType)
         /\ \A k \in DOMAIN raised :
               /\ RowOK(raised[k]) /\ raised[k].intent \in Intents
               /\ turns[raised[k].intent].does = "hold"
               /\ turns[raised[k].intent].by = "none" =>
                     raised[k].status = "open" /\ raised[k].response = "none"
               /\ Responds(raised[k]) => turns[raised[k].intent].by = "plot_responds"
         /\ \A i \in Intents : turns[i].does = "hold" /\ turns[i].by = "plot_responds" =>
               \E k \in DOMAIN raised : raised[k].intent = i /\ raised[k].response = "active"
         /\ Once(raised)
<1>1. PICK H : H = {j \in Intents : turns[j].does = "hold"}
  OBVIOUS
<1>2. PICK f : f = [i \in H |-> RaisedRow(n, turns, i)]
  OBVIOUS
<1>3. PICK S : S = {f[i] : i \in H}
  OBVIOUS
<1>4. \A i \in H : f[i] = RaisedRow(n, turns, i) /\ i \in Intents /\ turns[i].does = "hold"
  BY <1>1, <1>2
<1>5. {RaisedRow(n, turns, i) : i \in H} = S
  BY <1>2, <1>3
<1>6. Raised(n, turns) = SetToSeq({RaisedRow(n, turns, i) : i \in H})
  BY <1>1 DEF Raised, RaisedRow
<1>7. IsFiniteSet(S)
  <2>1. IsFiniteSet(H)
    BY <1>1, FS_Subset, HeldIntentsAssumption
  <2>2. f \in Surjection(H, S)
    BY <1>2, <1>3 DEF Surjection
  <2> QED
    BY <2>1, <2>2, FS_Surjection
<1>8. raised = SetToSeq(S)
  BY <1>5, <1>6
<1>9. /\ raised \in Seq(S)
      /\ \A x \in S : \E k \in DOMAIN raised : raised[k] = x
      /\ \A k, l \in DOMAIN raised : raised[k] = raised[l] => k = l
  BY <1>7, <1>8, InSomeOrder
<1>10. ASSUME NEW i \in H
       PROVE  /\ f[i] \in ConflictType /\ RowOK(f[i]) /\ f[i].intent = i
              /\ turns[i].by = "none" => f[i].status = "open" /\ f[i].response = "none"
              /\ Responds(f[i]) <=> turns[i].by = "plot_responds"
              /\ Responds(f[i]) => f[i].response = "active"
  BY <1>4, RaisedRowSays
<1>11. \A x \in S : x \in ConflictType
  BY <1>3, <1>10
<1>12. raised \in Seq(ConflictType)
  BY <1>9, <1>11, SeqMonotonic
<1>13. ASSUME NEW k \in DOMAIN raised
       PROVE  \E i \in H : raised[k] = f[i]
  <2>1. raised[k] \in S
    BY <1>9
  <2> QED
    BY <1>3, <2>1
<1>14. ASSUME NEW k \in DOMAIN raised
       PROVE  /\ RowOK(raised[k]) /\ raised[k].intent \in Intents
              /\ turns[raised[k].intent].does = "hold"
              /\ turns[raised[k].intent].by = "none" =>
                    raised[k].status = "open" /\ raised[k].response = "none"
              /\ Responds(raised[k]) => turns[raised[k].intent].by = "plot_responds"
  <2>1. PICK i \in H : raised[k] = f[i]
    BY <1>13
  <2> QED
    BY <1>4, <1>10, <2>1
<1>15. ASSUME NEW i \in Intents, turns[i].does = "hold", turns[i].by = "plot_responds"
       PROVE  \E k \in DOMAIN raised : raised[k].intent = i /\ raised[k].response = "active"
  <2>1. i \in H
    BY <1>1, <1>15
  <2>2. f[i] \in S
    BY <1>3, <2>1
  <2>3. PICK k \in DOMAIN raised : raised[k] = f[i]
    BY <1>9, <2>2
  <2> QED
    BY <1>10, <1>15, <2>1, <2>3
<1>16. Once(raised)
  <2>1. ASSUME NEW k \in DOMAIN raised, NEW l \in DOMAIN raised, raised[k].intent = raised[l].intent
        PROVE  k = l
    <3>1. PICK i \in H : raised[k] = f[i]
      BY <1>13
    <3>2. PICK j \in H : raised[l] = f[j]
      BY <1>13
    <3>3. i = j
      BY <1>10, <2>1, <3>1, <3>2
    <3> QED
      BY <1>9, <3>1, <3>2, <3>3
  <2> QED
    BY <2>1 DEF Once
<1> QED
  BY <1>12, <1>14, <1>15, <1>16

LEMMA AfterSays ==
  ASSUME NEW n, NEW turns \in [Intents -> Turns], NEW before \in StatusType,
         \A i \in Intents : CanTurn(n, i, turns[i], before),
         NEW after, after = After(n, turns, before)
  PROVE  /\ after \in StatusType
         /\ \A i \in Intents :
               /\ before[i] = "settled" => after[i] = "settled"
               /\ after[i] = "held" => \/ before[i] = "held"
                                       \/ turns[i].does = "hold" /\ turns[i].by = "plot_responds"
<1>1. ASSUME NEW i \in Intents
      PROVE  /\ after[i] \in Statuses
             /\ before[i] = "settled" => after[i] = "settled"
             /\ after[i] = "held" => \/ before[i] = "held"
                                     \/ turns[i].does = "hold" /\ turns[i].by = "plot_responds"
  <2>1. after[i] = CASE turns[i] = Settle -> "settled"
                     [] turns[i].does = "hold" -> Becomes(turns[i].by, turns[i].kind)
                     [] before[i] = "held" /\ i \in Answered(ChapterOf(n)) -> "live"
                     [] OTHER -> before[i]
    BY DEF After
  <2>2. /\ before[i] \in Statuses
        /\ turns[i] = Settle \/ turns[i].does = "hold" => before[i] = "live"
    BY DEF CanTurn, StatusType, Rest, Settle
  <2>3. PICK by : by = turns[i].by
    OBVIOUS
  <2>4. /\ Becomes(turns[i].by, turns[i].kind) \in Statuses
        /\ Becomes(turns[i].by, turns[i].kind) = "held" => by = "plot_responds"
    BY <2>3 DEF Becomes, Statuses
  <2> QED
    BY <2>1, <2>2, <2>3, <2>4 DEF Statuses
<1>2. after = [i \in Intents |-> after[i]]
  BY DEF After
<1> QED
  BY <1>1, <1>2 DEF StatusType

-----------------------------------------------------------------------------
(* The invariant is inductive.  First what its parts read. *)

LEMMA BookStays ==
  ASSUME UNCHANGED <<canon, plans>>
  PROVE  /\ Latest' = Latest /\ NextCommit' = NextCommit
         /\ Counted => Counted'
<1>1. Latest' = Latest /\ NextCommit' = NextCommit /\ Rewrites' = Rewrites
  BY DEF Latest, NextCommit, InCanon, Rewrites
<1> QED
  BY <1>1 DEF Counted

LEMMA HeldStays ==
  ASSUME HeldIsAnswered, NextCommit' - 1 = Latest' => NextCommit - 1 = Latest,
         \A i \in Intents : world'[i] = "held" => world[i] = "held",
         \A k \in Active : k \in DOMAIN conflicts' /\ conflicts'[k].intent = conflicts[k].intent
                           /\ conflicts'[k].response = "active"
  PROVE  HeldIsAnswered'
<1> SUFFICES ASSUME NextCommit' - 1 = Latest', NEW i \in Intents, world'[i] = "held"
             PROVE  \E k \in Active' : conflicts'[k].intent = i
  BY DEF HeldIsAnswered
<1>1. PICK k \in Active : conflicts[k].intent = i
  BY DEF HeldIsAnswered
<1>2. k \in Active' /\ conflicts'[k].intent = i
  BY <1>1 DEF Active
<1> QED
  BY <1>2

LEMMA CoreStays ==
  ASSUME IInv, UNCHANGED <<canon, world, plans, conflicts>>
  PROVE  /\ SnapshotIsReplay' /\ ResponsesOK' /\ Counted' /\ HeldIsAnswered'
         /\ Latest' = Latest
<1>1. SnapshotIsReplay'
  BY DEF IInv, SnapshotIsReplay
<1>2. ResponsesOK'
  BY DEF IInv, ResponsesOK
<1>3. Counted' /\ Latest' = Latest /\ NextCommit' = NextCommit
  BY BookStays DEF IInv
<1>4. \A k \in Active : k \in DOMAIN conflicts' /\ conflicts'[k].intent = conflicts[k].intent
                        /\ conflicts'[k].response = "active"
  BY DEF Active
<1>5. HeldIsAnswered'
  BY <1>3, <1>4, HeldStays DEF IInv
<1> QED
  BY <1>1, <1>2, <1>3, <1>5

LEMMA NotRunningType ==
  NotRunning \in TickType /\ NotRunning.at = "idle" /\ NotRunning.raised = << >>
<1>1. Unchanged \in StatusType
  BY DEF Unchanged, StatusType, Statuses
<1>2. << >> \in Seq(ChapterType) /\ << >> \in Seq(ConflictType)
  OBVIOUS
<1> QED
  BY <1>1, <1>2 DEF NotRunning, TickType

LEMMA TickStops ==
  ASSUME tick \in [Commits -> TickType], ViewsOK, RaisedOK, NEW n \in Commits,
         tick' = [tick EXCEPT ![n] = NotRunning]
  PROVE  /\ tick' \in [Commits -> TickType] /\ ViewsOK' /\ RaisedOK'
         /\ \A m \in Commits : tick'[m].raised = tick[m].raised \/ tick'[m].raised = << >>
<1>1. PICK idle \in TickType : idle = NotRunning /\ idle.at = "idle" /\ idle.raised = << >>
  BY NotRunningType
<1>2. tick' = [tick EXCEPT ![n] = idle]
  BY <1>1
<1>3. tick' \in [Commits -> TickType]
  BY <1>2
<1>4. \A m \in Commits : tick'[m] = tick[m] \/ tick'[m] = idle
  BY <1>2
<1>5. ViewsOK'
  BY <1>1, <1>4 DEF ViewsOK
<1>6. RaisedOK'
  BY <1>1, <1>4 DEF RaisedOK
<1> QED
  BY <1>1, <1>3, <1>4, <1>5, <1>6

LEMMA GroundedStays ==
  ASSUME Grounded, Latest' = Latest, UNCHANGED conflicts,
         \A m \in Commits : tick'[m].raised = tick[m].raised \/ tick'[m].raised = << >>
  PROVE  Grounded'
BY DEF Grounded

\* A step of canon.
LEMMA OnCanon ==
  ASSUME Types, NEW n, n \in InCanon
  PROVE  /\ n \in Commits /\ Latest > 0 /\ Latest \in Nat /\ canon # << >>
         /\ ChapterOf(n) \in 1..Latest
<1>1. canon \in Seq(ChapterType) /\ Latest = Len(canon)
  BY DEF Types, Latest
<1>2. PICK c \in DOMAIN canon : canon[c].commit = n
  BY DEF InCanon
<1>3. ChapterOf(n) \in DOMAIN canon
  BY <1>2 DEF ChapterOf
<1>4. c \in 1..Len(canon) /\ canon[c] \in ChapterType
  BY <1>1, <1>2
<1>5. n \in Commits
  BY <1>2, <1>4 DEF ChapterType
<1> QED
  BY <1>1, <1>3, <1>4, <1>5

LEMMA StartTickKeeps ==
  ASSUME IInv, NEW n, StartTick(n) PROVE IInv'
<1>1. Types /\ n \in InCanon
  BY DEF IInv, StartTick
<1>2. n \in Commits /\ Latest > 0 /\ Latest \in Nat
  BY <1>1, OnCanon
<1>3. PICK started : started = [at |-> "thinking", view |-> canon, world |-> world, open |-> Open,
                                retired |-> canon[Latest].retired, raised |-> << >>]
  OBVIOUS
<1>4. started \in TickType
  <2>1. canon[Latest] \in ChapterType
    BY <1>1, <1>2 DEF Types, Latest
  <2>2. Open \in SUBSET Nat
    BY <1>1 DEF Open, Types
  <2>3. << >> \in Seq(ConflictType)
    OBVIOUS
  <2>4. canon[Latest].retired \in SUBSET Commits
    BY <2>1 DEF ChapterType
  <2> QED
    BY <1>1, <1>3, <2>2, <2>3, <2>4 DEF Types, TickType
<1>5. tick' = [tick EXCEPT ![n] = started]
  BY <1>3 DEF StartTick
<1>6. tick \in [Commits -> TickType]
  BY <1>1 DEF Types
<1>7. tick' \in [Commits -> TickType]
  BY <1>4, <1>5, <1>6
<1>8. \A m \in Commits : tick'[m] = tick[m] \/ tick'[m] = started
  BY <1>5, <1>6
<1>9. started.at = "thinking" /\ started.world = world /\ started.view = canon /\ started.raised = << >>
  BY <1>3
<1>10. ViewsOK'
  <2>1. started.world = StatusIn(started.view)
    BY <1>9 DEF IInv, SnapshotIsReplay
  <2> QED
    BY <1>8, <2>1 DEF IInv, ViewsOK
<1>11. RaisedOK'
  BY <1>8, <1>9 DEF IInv, RaisedOK
<1>12. UNCHANGED <<canon, world, plans, conflicts, owing, late>>
  BY DEF StartTick
<1>13. SnapshotIsReplay' /\ ResponsesOK' /\ Counted' /\ HeldIsAnswered' /\ Latest' = Latest
  BY <1>12, CoreStays
<1>14. Grounded'
  BY <1>8, <1>9, <1>12, <1>13, GroundedStays DEF IInv
<1>15. Types'
  BY <1>1, <1>7, <1>12 DEF Types
<1> QED
  BY <1>10, <1>11, <1>13, <1>14, <1>15 DEF IInv

LEMMA FailTickKeeps ==
  ASSUME IInv, NEW n \in Commits, FailTick(n) PROVE IInv'
<1>1. UNCHANGED <<canon, world, plans, conflicts, owing, late>>
  BY DEF FailTick
<1>2. /\ tick' \in [Commits -> TickType] /\ ViewsOK' /\ RaisedOK'
      /\ \A m \in Commits : tick'[m].raised = tick[m].raised \/ tick'[m].raised = << >>
  BY TickStops DEF IInv, Types, FailTick
<1>3. SnapshotIsReplay' /\ ResponsesOK' /\ Counted' /\ HeldIsAnswered' /\ Latest' = Latest
  BY <1>1, CoreStays
<1>4. Grounded'
  BY <1>1, <1>2, <1>3, GroundedStays DEF IInv
<1>5. Types'
  BY <1>1, <1>2 DEF IInv, Types
<1> QED
  BY <1>2, <1>3, <1>4, <1>5 DEF IInv

\* Open conflicts expire.
LEMMA ExpiredKeeps ==
  ASSUME IInv, NEW ids, ids \subseteq Open, NEW rows, rows = ExpiredAll(conflicts, ids)
  PROVE  /\ rows \in Seq(ConflictType) /\ DOMAIN rows = DOMAIN conflicts
         /\ \A k \in DOMAIN conflicts :
               /\ rows[k].intent = conflicts[k].intent /\ rows[k].response = conflicts[k].response
               /\ RowOK(rows[k]) /\ (Responds(rows[k]) => Responds(conflicts[k]))
         /\ Once(rows)
         /\ conflicts = << >> => rows = << >>
<1>1. conflicts \in Seq(ConflictType) /\ \A k \in DOMAIN conflicts : RowOK(conflicts[k])
  BY DEF IInv, Types, ResponsesOK
<1>2. \A k \in ids : k \in DOMAIN conflicts => conflicts[k].status = "open"
  BY DEF Open
<1>3. /\ rows \in Seq(ConflictType) /\ Len(rows) = Len(conflicts) /\ DOMAIN rows = DOMAIN conflicts
      /\ \A k \in DOMAIN conflicts :
            /\ rows[k].intent = conflicts[k].intent /\ rows[k].response = conflicts[k].response
            /\ RowOK(rows[k]) /\ (Responds(rows[k]) => Responds(conflicts[k]))
  BY <1>1, <1>2, ExpiredSays
<1>4. Once(rows)
  BY <1>3, OnceStays DEF IInv, ResponsesOK
<1>5. conflicts = << >> => rows = << >>
  BY <1>3
<1> QED
  BY <1>3, <1>4, <1>5

LEMMA SkipTickKeeps ==
  ASSUME IInv, NEW n, NEW lost, SkipTick(n, lost) PROVE IInv'
<1>1. UNCHANGED <<canon, world, plans, tick, late>> /\ owing' = owing \ {n}
  BY DEF SkipTick
<1>2. lost \subseteq Open /\ conflicts' = ExpiredAll(conflicts, lost)
  BY DEF SkipTick, StaleRows
<1>3. PICK rows : rows = conflicts' /\ rows = ExpiredAll(conflicts, lost)
  BY <1>2
<1>4. /\ rows \in Seq(ConflictType) /\ DOMAIN rows = DOMAIN conflicts
      /\ \A k \in DOMAIN conflicts :
            /\ rows[k].intent = conflicts[k].intent /\ rows[k].response = conflicts[k].response
            /\ RowOK(rows[k]) /\ (Responds(rows[k]) => Responds(conflicts[k]))
      /\ Once(rows)
      /\ conflicts = << >> => rows = << >>
  BY <1>2, <1>3, ExpiredKeeps
<1>5. Latest' = Latest /\ NextCommit' = NextCommit /\ Counted'
  BY <1>1, BookStays DEF IInv
<1>6. SnapshotIsReplay' /\ ViewsOK' /\ RaisedOK'
  BY <1>1 DEF IInv, SnapshotIsReplay, ViewsOK, RaisedOK
<1>7. Grounded'
  BY <1>1, <1>3, <1>4, <1>5 DEF IInv, Grounded
<1>8. ResponsesOK'
  BY <1>3, <1>4 DEF ResponsesOK
<1>9. HeldIsAnswered'
  <2>1. \A k \in Active : k \in DOMAIN conflicts' /\ conflicts'[k].intent = conflicts[k].intent
                           /\ conflicts'[k].response = "active"
    BY <1>3, <1>4 DEF Active
  <2> QED
    BY <1>1, <1>5, <2>1, HeldStays DEF IInv
<1>10. Types'
  BY <1>1, <1>3, <1>4 DEF IInv, Types
<1> QED
  BY <1>5, <1>6, <1>7, <1>8, <1>9, <1>10 DEF IInv

LEMMA CheckQuietTickKeeps ==
  ASSUME IInv, NEW n \in Commits, NEW turns \in [Intents -> Turns], CheckQuietTick(n, turns)
  PROVE  IInv'
<1>1. UNCHANGED <<canon, world, plans, conflicts, owing, late>>
  BY DEF CheckQuietTick
<1>2. Latest \in Nat /\ Latest > 0
  BY OnCanon DEF IInv, CheckQuietTick
<1>3. PICK raised : raised = Raised(n, turns)
  OBVIOUS
<1>4. /\ raised \in Seq(ConflictType)
      /\ \A k \in DOMAIN raised :
            /\ RowOK(raised[k]) /\ raised[k].intent \in Intents
            /\ turns[raised[k].intent].by = "none" =>
                  raised[k].status = "open" /\ raised[k].response = "none"
  BY <1>2, <1>3, RaisedSays
<1>5. \A i \in Intents : turns[i].by = "none"
  BY DEF CheckQuietTick
<1>6. \A k \in DOMAIN raised :
         RowOK(raised[k]) /\ raised[k].status = "open" /\ raised[k].response = "none"
  BY <1>4, <1>5
<1>7. tick \in [Commits -> TickType]
  BY DEF IInv, Types
<1>8. PICK old \in TickType : old = tick[n]
  BY <1>7
<1>9. PICK closing : closing = [old EXCEPT !.at = "closing", !.raised = raised]
  OBVIOUS
<1>10. closing \in TickType /\ closing.at = "closing" /\ closing.raised = raised
  BY <1>4, <1>9 DEF TickType
<1>11. tick' = [tick EXCEPT ![n] = closing]
  BY <1>3, <1>7, <1>8, <1>9 DEF CheckQuietTick
<1>12. tick' \in [Commits -> TickType] /\ \A m \in Commits : tick'[m] = tick[m] \/ tick'[m] = closing
  BY <1>7, <1>10, <1>11
<1>13. ViewsOK'
  BY <1>10, <1>12 DEF IInv, ViewsOK
<1>14. RaisedOK'
  BY <1>6, <1>10, <1>12 DEF IInv, RaisedOK
<1>15. SnapshotIsReplay' /\ ResponsesOK' /\ Counted' /\ HeldIsAnswered' /\ Latest' = Latest
  BY <1>1, CoreStays
<1>16. Grounded'
  BY <1>2, <1>15 DEF Grounded
<1>17. Types'
  BY <1>1, <1>12 DEF IInv, Types
<1> QED
  BY <1>13, <1>14, <1>15, <1>16, <1>17 DEF IInv

LEMMA CloseQuietTickKeeps ==
  ASSUME IInv, NEW n \in Commits, CloseQuietTick(n) PROVE IInv'
<1>1. UNCHANGED <<canon, world, plans, late>> /\ owing' = owing \ {n}
  BY DEF CloseQuietTick
<1>2. PICK rows : rows = ExpiredAll(conflicts, Replaced(n))
  OBVIOUS
<1>3. /\ rows \in Seq(ConflictType) /\ DOMAIN rows = DOMAIN conflicts
      /\ \A k \in DOMAIN conflicts :
            /\ rows[k].intent = conflicts[k].intent /\ rows[k].response = conflicts[k].response
            /\ RowOK(rows[k]) /\ (Responds(rows[k]) => Responds(conflicts[k]))
      /\ Once(rows)
      /\ conflicts = << >> => rows = << >>
  BY <1>2, ExpiredKeeps DEF Replaced
<1>4. PICK raised : raised = tick[n].raised
  OBVIOUS
<1>5. /\ raised \in Seq(ConflictType)
      /\ \A k \in DOMAIN raised : RowOK(raised[k]) /\ raised[k].status = "open"
  <2>1. tick[n] \in TickType
    BY DEF IInv, Types
  <2>2. raised \in Seq(ConflictType)
    BY <1>4, <2>1 DEF TickType
  <2> QED
    BY <1>4, <2>2 DEF IInv, RaisedOK
<1>6. PICK all : all = conflicts' /\ all = rows \o raised
  BY <1>2, <1>4 DEF CloseQuietTick
<1>7. /\ all \in Seq(ConflictType)
      /\ \A k \in DOMAIN rows : k \in DOMAIN all /\ all[k] = rows[k]
      /\ \A k \in DOMAIN all : \/ k \in DOMAIN rows /\ all[k] = rows[k]
                               \/ \E l \in DOMAIN raised : all[k] = raised[l]
  BY <1>3, <1>5, <1>6, Appended
<1>8. Once(all)
  <2>1. \A l \in DOMAIN raised : ~Responds(raised[l])
    BY <1>5 DEF Responds
  <2>2. Once(raised)
    BY <2>1 DEF Once
  <2> QED
    BY <1>3, <1>5, <1>6, <2>1, <2>2, OnceAppended
<1>9. \A k \in DOMAIN all : RowOK(all[k])
  BY <1>3, <1>5, <1>7
<1>10. ResponsesOK'
  BY <1>6, <1>8, <1>9 DEF ResponsesOK
<1>11. /\ tick' \in [Commits -> TickType] /\ ViewsOK' /\ RaisedOK'
       /\ \A m \in Commits : tick'[m].raised = tick[m].raised \/ tick'[m].raised = << >>
  BY TickStops DEF IInv, Types, CloseQuietTick
<1>12. Latest' = Latest /\ NextCommit' = NextCommit /\ Counted'
  BY <1>1, BookStays DEF IInv
<1>13. SnapshotIsReplay'
  BY <1>1 DEF IInv, SnapshotIsReplay
<1>14. Grounded'
  <2>1. SUFFICES ASSUME Latest = 0
                 PROVE  conflicts' = << >> /\ \A m \in Commits : tick'[m].raised = << >>
    BY <1>12 DEF Grounded
  <2>2. rows = << >> /\ raised = << >>
    BY <1>3, <1>4, <2>1 DEF IInv, Grounded
  <2>3. all = << >>
    BY <1>6, <2>2
  <2> QED
    BY <1>6, <1>11, <2>1, <2>3 DEF IInv, Grounded
<1>15. HeldIsAnswered'
  <2>1. \A k \in Active : k \in DOMAIN conflicts' /\ conflicts'[k].intent = conflicts[k].intent
                           /\ conflicts'[k].response = "active"
    BY <1>3, <1>6, <1>7 DEF Active
  <2> QED
    BY <1>1, <1>12, <2>1, HeldStays DEF IInv
<1>16. Types'
  BY <1>1, <1>6, <1>7, <1>11 DEF IInv, Types
<1> QED
  BY <1>10, <1>11, <1>12, <1>13, <1>14, <1>15, <1>16 DEF IInv

LEMMA CountedStays ==
  ASSUME IInv, canon' \in Seq(ChapterType), Latest' = Latest,
         \A c \in 1..Latest : canon'[c].commit = canon[c].commit,
         \A c \in 1..Latest : plans'[c].status = "accepted" <=> plans[c].status = "accepted"
  PROVE  NextCommit' = NextCommit /\ Counted'
<1>1. canon \in Seq(ChapterType)
  BY DEF IInv, Types
<1>2. NextCommit' = NextCommit
  BY <1>1, CommitsStay
<1>3. DOMAIN canon = 1..Latest /\ DOMAIN canon' = 1..Latest
  BY <1>1 DEF Latest
<1>4. {c \in DOMAIN canon : plans[c].status # "accepted"}' = {c \in DOMAIN canon : plans[c].status # "accepted"}
  BY <1>3
<1>5. Rewrites' = Rewrites
  BY <1>2, <1>4 DEF Rewrites
<1> QED
  BY <1>2, <1>5 DEF IInv, Counted

\* A delta lands on the latest chapter, with the statuses it says.
LEMMA LedgerGrows ==
  ASSUME IInv, Latest > 0, NEW delta \in DeltaType, NEW lands \in BOOLEAN,
         world' = Applied(world, delta), ~lands => world' = world,
         canon' = IF lands THEN [canon EXCEPT ![Latest].deltas = Append(@, delta)] ELSE canon,
         \A c \in Chapters : plans'[c].status = plans[c].status
  PROVE  /\ canon' \in Seq(ChapterType) /\ Latest' = Latest /\ NextCommit' = NextCommit
         /\ \A c \in 1..Latest : canon'[c].commit = canon[c].commit
         /\ SnapshotIsReplay' /\ Counted'
<1>1. canon \in Seq(ChapterType) /\ Len(canon) <= Total /\ Latest = Len(canon) /\ Latest \in Nat
  BY DEF IInv, Types, Latest
<1>2. canon # << >>
  BY <1>1
<1>3. /\ canon' \in Seq(ChapterType) /\ Len(canon') = Len(canon)
      /\ \A c \in 1..Latest : canon'[c].commit = canon[c].commit
      /\ SnapshotIsReplay'
  <2>1. CASE lands
    <3>1. PICK more : more = [canon EXCEPT ![Latest].deltas = Append(@, delta)]
      OBVIOUS
    <3>2. /\ more \in Seq(ChapterType) /\ Len(more) = Latest
          /\ StatusIn(more) = Applied(StatusIn(canon), delta)
          /\ \A c \in 1..Latest : more[c].commit = canon[c].commit
      <4>1. PICK n : n = Len(canon) /\ n = Latest
        BY <1>1
      <4>2. more = WithDelta(canon, n, delta)
        BY <3>1, <4>1 DEF WithDelta
      <4>3. /\ more \in Seq(ChapterType) /\ Len(more) = n
            /\ StatusIn(more) = Applied(StatusIn(canon), delta)
            /\ \A c \in 1..n : more[c].commit = canon[c].commit
        <5>1. canon \in Seq(ChapterType) /\ n = Len(canon)
          BY <1>1, <4>1
        <5> QED
          BY <1>2, <4>2, <5>1, StatusChanged
      <4> QED
        BY <4>1, <4>3
    <3>3. canon' = more
      BY <2>1, <3>1
    <3> QED
      BY <1>1, <3>2, <3>3 DEF IInv, SnapshotIsReplay
  <2>2. CASE ~lands
    BY <1>1, <2>2 DEF IInv, SnapshotIsReplay
  <2> QED
    BY <2>1, <2>2
<1>4. Latest' = Latest
  BY <1>1, <1>3 DEF Latest
<1>5. \A c \in 1..Latest : c \in Chapters
  BY <1>1, Numbers DEF Chapters
<1>6. NextCommit' = NextCommit /\ Counted'
  BY <1>3, <1>4, <1>5, CountedStays
<1> QED
  BY <1>3, <1>4, <1>6

\* A fresh tick has read the statuses of now.
LEMMA FreshWorld ==
  ASSUME IInv, NEW n \in Commits, tick[n].at = "thinking", Fresh(n)
  PROVE  tick[n].world = world
BY DEF IInv, ViewsOK, Fresh, SnapshotIsReplay

LEMMA CommitTickKeeps ==
  ASSUME IInv, NEW n \in Commits, NEW turns \in [Intents -> Turns], NEW moves \in BOOLEAN,
         CommitTick(n, turns, moves)
  PROVE  IInv' /\ \A i \in Intents : world[i] = "settled" => world'[i] = "settled"
<1>1. tick[n].at = "thinking" /\ n \in InCanon /\ Fresh(n)
  BY DEF CommitTick
<1>2. Latest \in Nat /\ Latest > 0
  BY <1>1, OnCanon DEF IInv
<1>3. PICK before : before = tick[n].world
  OBVIOUS
<1>4. before = world /\ before \in StatusType
  BY <1>1, <1>3, FreshWorld DEF IInv, Types
<1>5. PICK after : after = After(n, turns, before)
  OBVIOUS
<1>6. PICK raised : raised = Raised(n, turns)
  OBVIOUS
<1>7. PICK delta : delta = Delta("tick", n, Change(before, after))
  OBVIOUS
<1>8. PICK rows : rows = ExpiredAll(conflicts, Replaced(n))
  OBVIOUS
<1>9. PICK all : all = rows \o raised
  OBVIOUS
<1>10. PICK lands \in BOOLEAN : lands = (moves \/ DOMAIN delta.change # {})
  OBVIOUS
<1>11. /\ \A i \in Intents : CanTurn(n, i, turns[i], before)
       /\ canon' = IF lands THEN [canon EXCEPT ![Latest].deltas = Append(@, delta)] ELSE canon
       /\ world' = after
       /\ conflicts' = Reconciled(all, after, FALSE)
       /\ plans' = Rebound(conflicts') /\ owing' = owing \ {n}
       /\ tick' = [tick EXCEPT ![n] = NotRunning] /\ UNCHANGED late
  BY <1>3, <1>5, <1>6, <1>7, <1>8, <1>9, <1>10 DEF CommitTick
<1>12. /\ after \in StatusType
       /\ \A i \in Intents :
             /\ before[i] = "settled" => after[i] = "settled"
             /\ after[i] = "held" => \/ before[i] = "held"
                                     \/ turns[i].does = "hold" /\ turns[i].by = "plot_responds"
  BY <1>4, <1>5, <1>11, AfterSays
<1>13. /\ delta \in DeltaType /\ Applied(before, delta) = after
       /\ DOMAIN delta.change = {} => after = before
  BY <1>4, <1>7, <1>12, TickDelta
<1>14. /\ rows \in Seq(ConflictType) /\ DOMAIN rows = DOMAIN conflicts
       /\ \A k \in DOMAIN conflicts :
             /\ rows[k].intent = conflicts[k].intent /\ rows[k].response = conflicts[k].response
             /\ RowOK(rows[k]) /\ (Responds(rows[k]) => Responds(conflicts[k]))
       /\ Once(rows)
  BY <1>8, ExpiredKeeps DEF Replaced
<1>15. /\ raised \in Seq(ConflictType)
       /\ \A k \in DOMAIN raised :
             /\ RowOK(raised[k]) /\ raised[k].intent \in Intents
             /\ turns[raised[k].intent].does = "hold"
             /\ Responds(raised[k]) => turns[raised[k].intent].by = "plot_responds"
       /\ \A i \in Intents : turns[i].does = "hold" /\ turns[i].by = "plot_responds" =>
             \E k \in DOMAIN raised : raised[k].intent = i /\ raised[k].response = "active"
       /\ Once(raised)
  BY <1>2, <1>6, RaisedSays
<1>16. /\ all \in Seq(ConflictType)
       /\ \A k \in DOMAIN rows : k \in DOMAIN all /\ all[k] = rows[k]
       /\ \A l \in DOMAIN raised : \E k \in DOMAIN all : all[k] = raised[l]
       /\ \A k \in DOMAIN all : \/ k \in DOMAIN rows /\ all[k] = rows[k]
                                \/ \E l \in DOMAIN raised : all[k] = raised[l]
  <2>1. rows \in Seq(ConflictType) /\ raised \in Seq(ConflictType)
    BY <1>14, <1>15
  <2>2. /\ all \in Seq(ConflictType)
        /\ \A k \in DOMAIN rows : k \in DOMAIN all /\ all[k] = rows[k]
    BY ONLY <1>9, <2>1, Appended
  <2>3. ASSUME NEW l \in DOMAIN raised PROVE \E k \in DOMAIN all : all[k] = raised[l]
    <3>1. Len(rows) + l \in DOMAIN all /\ all[Len(rows) + l] = raised[l]
      BY ONLY <1>9, <2>1, Appended, l \in DOMAIN raised
    <3> QED
      BY <3>1
  <2>4. \A k \in DOMAIN all : \/ k \in DOMAIN rows /\ all[k] = rows[k]
                              \/ \E l \in DOMAIN raised : all[k] = raised[l]
    BY ONLY <1>9, <2>1, Appended
  <2> QED
    BY ONLY <2>2, <2>3, <2>4
<1>17. Once(all)
  <2>1. ASSUME NEW k \in DOMAIN rows, NEW l \in DOMAIN raised, Responds(rows[k]), Responds(raised[l]),
               rows[k].intent = raised[l].intent
        PROVE  FALSE
    <3>1. PICK i \in Intents : i = raised[l].intent
      BY <1>15
    <3>2. turns[i].does = "hold" /\ turns[i].by = "plot_responds"
      BY <1>15, <2>1, <3>1
    <3>3. ~PlotResponded(i)
      BY <1>11, <3>2 DEF CanTurn, Offers, Rest, Settle
    <3>4. k \in DOMAIN conflicts /\ Responds(conflicts[k]) /\ conflicts[k].intent = i
      BY <1>14, <2>1, <3>1
    <3> QED
      BY <3>3, <3>4 DEF PlotResponded, Responds
  <2> QED
    BY <1>9, <1>14, <1>15, <2>1, OnceAppended
<1>18. \A k \in DOMAIN all : RowOK(all[k])
  BY <1>14, <1>15, <1>16
<1>19. \A k \in Active : k \in DOMAIN all /\ all[k].response = "active" /\ all[k].intent = conflicts[k].intent
  BY <1>14, <1>16 DEF Active
<1>20. PICK new : new = conflicts'
  OBVIOUS
<1>21. /\ new \in Seq(ConflictType) /\ DOMAIN new = DOMAIN all
       /\ \A k \in DOMAIN all :
             /\ RowOK(new[k]) /\ Follows(new[k], all[k])
             /\ all[k].response = "active" /\ after[all[k].intent] = "held" => new[k].response = "active"
  <2>1. FALSE \in BOOLEAN /\ new = Reconciled(all, after, FALSE)
    BY <1>11, <1>20
  <2>2. \A k \in Active : k \in DOMAIN all => all[k].response = "active"
    BY <1>19
  <2>3. all \in Seq(ConflictType) /\ \A k \in DOMAIN all : RowOK(all[k])
    BY <1>16, <1>18
  <2>4. /\ new \in Seq(ConflictType) /\ DOMAIN new = DOMAIN all
        /\ \A k \in DOMAIN all :
              /\ RowOK(new[k]) /\ Follows(new[k], all[k])
              /\ all[k].response = "active" /\ ~FALSE /\ after[all[k].intent] = "held" =>
                    new[k].response = "active"
    BY ONLY <2>1, <2>2, <2>3, ReconciledSays
  <2> QED
    BY <2>4
<1>22. ResponsesOK'
  <2>1. Once(new)
    BY <1>17, <1>21, OnceStays DEF Follows, Responds
  <2> QED
    BY <1>20, <1>21, <2>1 DEF ResponsesOK
<1>23. plans' \in [Chapters -> PlanType] /\ \A c \in Chapters : plans'[c].status = plans[c].status
  <2>1. plans' = Rebound(new) /\ plans \in [Chapters -> PlanType]
    BY <1>11, <1>20 DEF IInv, Types
  <2> QED
    BY <1>21, <2>1, ReboundSays
<1>24. /\ canon' \in Seq(ChapterType) /\ Latest' = Latest /\ NextCommit' = NextCommit
       /\ SnapshotIsReplay' /\ Counted'
  <2>1. world' = Applied(world, delta) /\ (~lands => world' = world)
    BY <1>4, <1>10, <1>11, <1>13
  <2> QED
    BY <1>2, <1>11, <1>13, <1>23, <2>1, LedgerGrows
<1>25. HeldIsAnswered'
  <2>1. SUFFICES ASSUME NextCommit - 1 = Latest, NEW i \in Intents, after[i] = "held"
                 PROVE  \E k \in DOMAIN new : new[k].response = "active" /\ new[k].intent = i
    <3>1. ASSUME NEW i \in Intents, NEW k \in DOMAIN new, new[k].response = "active", new[k].intent = i
          PROVE  \E j \in Active' : conflicts'[j].intent = i
      <4>1. k \in Active' /\ conflicts'[k].intent = i
        BY <1>20, <3>1 DEF Active
      <4> QED
        BY <4>1
    <3>2. world' = after /\ NextCommit' = NextCommit /\ Latest' = Latest
      BY <1>11, <1>24
    <3> QED
      BY <3>1, <3>2 DEF HeldIsAnswered
  <2>2. \E k \in DOMAIN all : all[k].response = "active" /\ all[k].intent = i
    <3>1. CASE before[i] = "held"
      <4>1. PICK k \in Active : conflicts[k].intent = i
        BY <1>4, <2>1, <3>1 DEF IInv, HeldIsAnswered
      <4> QED
        BY <1>19, <4>1
    <3>2. CASE turns[i].does = "hold" /\ turns[i].by = "plot_responds"
      <4>1. PICK l \in DOMAIN raised : raised[l].intent = i /\ raised[l].response = "active"
        BY <1>15, <3>2
      <4> QED
        BY <1>16, <4>1
    <3> QED
      BY <1>12, <2>1, <3>1, <3>2
  <2> QED
    BY <1>21, <2>1, <2>2 DEF Follows
<1>26. /\ tick' \in [Commits -> TickType] /\ ViewsOK' /\ RaisedOK'
  BY <1>11, TickStops DEF IInv, Types
<1>27. Grounded'
  BY <1>2, <1>24 DEF Grounded
<1>28. Types'
  <2>1. Len(canon') <= Total
    BY <1>24 DEF IInv, Types, Latest
  <2> QED
    BY <1>11, <1>12, <1>20, <1>21, <1>23, <1>24, <1>26, <2>1 DEF IInv, Types
<1> QED
  BY <1>4, <1>11, <1>12, <1>22, <1>24, <1>25, <1>26, <1>27, <1>28 DEF IInv

LEMMA FinishHoldsKeeps ==
  ASSUME IInv, NEW n \in Commits, FinishHolds(n)
  PROVE  IInv' /\ \A i \in Intents : world[i] = "settled" => world'[i] = "settled"
<1>1. tick[n].at = "thinking" /\ n \in InCanon /\ Fresh(n)
  BY DEF FinishHolds
<1>2. Latest \in Nat /\ Latest > 0
  BY <1>1, OnCanon DEF IInv
<1>3. PICK before : before = tick[n].world
  OBVIOUS
<1>4. before = world /\ before \in StatusType
  BY <1>1, <1>3, FreshWorld DEF IInv, Types
<1>5. PICK after : after = Released(before)
  OBVIOUS
<1>6. PICK delta : delta = Delta("tick", n, Change(before, after))
  OBVIOUS
<1>7. PICK rows : rows = ExpiredAll(conflicts, Replaced(n))
  OBVIOUS
<1>8. /\ after \in StatusType
      /\ \A i \in Intents : after[i] # "held" /\ (before[i] = "settled" => after[i] = "settled")
  BY <1>4, <1>5 DEF Released, StatusType, Statuses
<1>9. CASE after = before /\ Active = {}
  <2>1. UNCHANGED <<canon, world, plans, conflicts, owing, late>>
        /\ tick' = [tick EXCEPT ![n].at = "closing"]
    BY <1>3, <1>5, <1>9 DEF FinishHolds
  <2>2. tick \in [Commits -> TickType]
    BY DEF IInv, Types
  <2>3. PICK old \in TickType : old = tick[n]
    BY <2>2
  <2>4. PICK closing : closing = [old EXCEPT !.at = "closing"]
    OBVIOUS
  <2>5. closing \in TickType /\ closing.at = "closing" /\ closing.raised = old.raised
    BY <2>4 DEF TickType
  <2>6. tick' = [tick EXCEPT ![n] = closing]
    BY <2>1, <2>2, <2>3, <2>4
  <2>7. /\ tick' \in [Commits -> TickType]
        /\ \A m \in Commits : /\ tick'[m].raised = tick[m].raised
                              /\ tick'[m] = tick[m] \/ tick'[m].at = "closing"
    BY <2>2, <2>3, <2>5, <2>6
  <2>8. ViewsOK' /\ RaisedOK'
    BY <2>7 DEF IInv, ViewsOK, RaisedOK
  <2>9. SnapshotIsReplay' /\ ResponsesOK' /\ Counted' /\ HeldIsAnswered' /\ Latest' = Latest
    BY <2>1, CoreStays
  <2>10. Grounded'
    BY <1>2, <2>9 DEF Grounded
  <2>11. Types'
    BY <2>1, <2>7 DEF IInv, Types
  <2> QED
    BY <2>1, <2>8, <2>9, <2>10, <2>11 DEF IInv
<1>10. CASE ~(after = before /\ Active = {})
  <2>1. PICK lands \in BOOLEAN : lands = (after # before)
    OBVIOUS
  <2>2. /\ canon' = IF lands THEN [canon EXCEPT ![Latest].deltas = Append(@, delta)] ELSE canon
        /\ world' = after
        /\ conflicts' = Reconciled(rows, after, TRUE)
        /\ plans' = Rebound(conflicts') /\ owing' = owing \ {n}
        /\ tick' = [tick EXCEPT ![n] = NotRunning] /\ UNCHANGED late
    BY <1>3, <1>5, <1>6, <1>7, <1>10, <2>1 DEF FinishHolds
  <2>3. delta \in DeltaType /\ Applied(before, delta) = after
    BY <1>4, <1>6, <1>8, TickDelta
  <2>4. /\ rows \in Seq(ConflictType) /\ DOMAIN rows = DOMAIN conflicts
        /\ \A k \in DOMAIN conflicts :
              /\ rows[k].intent = conflicts[k].intent /\ rows[k].response = conflicts[k].response
              /\ RowOK(rows[k]) /\ (Responds(rows[k]) => Responds(conflicts[k]))
        /\ Once(rows)
    BY <1>7, ExpiredKeeps DEF Replaced
  <2>5. PICK new : new = conflicts'
    OBVIOUS
  <2>6. /\ new \in Seq(ConflictType) /\ DOMAIN new = DOMAIN rows
        /\ \A k \in DOMAIN rows : RowOK(new[k]) /\ Follows(new[k], rows[k])
    <3>1. TRUE \in BOOLEAN /\ new = Reconciled(rows, after, TRUE)
      BY <2>2, <2>5
    <3>2. \A k \in Active : k \in DOMAIN rows => rows[k].response = "active"
      BY <2>4 DEF Active
    <3>3. \A k \in DOMAIN rows : RowOK(rows[k])
      BY <2>4
    <3> QED
      BY <2>4, <3>1, <3>2, <3>3, ReconciledSays
  <2>7. ResponsesOK'
    <3>1. Once(new)
      BY <2>4, <2>6, OnceStays DEF Follows, Responds
    <3> QED
      BY <2>5, <2>6, <3>1 DEF ResponsesOK
  <2>8. plans' \in [Chapters -> PlanType] /\ \A c \in Chapters : plans'[c].status = plans[c].status
    <3>1. plans' = Rebound(new) /\ plans \in [Chapters -> PlanType]
      BY <2>2, <2>5 DEF IInv, Types
    <3> QED
      BY <2>6, <3>1, ReboundSays
  <2>9. /\ canon' \in Seq(ChapterType) /\ Latest' = Latest /\ NextCommit' = NextCommit
        /\ SnapshotIsReplay' /\ Counted'
    <3>1. world' = Applied(world, delta) /\ (~lands => world' = world)
      BY <1>4, <2>1, <2>2, <2>3
    <3> QED
      BY <1>2, <2>2, <2>3, <2>8, <3>1, LedgerGrows
  <2>10. HeldIsAnswered'
    BY <1>8, <2>2 DEF HeldIsAnswered
  <2>11. /\ tick' \in [Commits -> TickType] /\ ViewsOK' /\ RaisedOK'
    BY <2>2, TickStops DEF IInv, Types
  <2>12. Grounded'
    BY <1>2, <2>9 DEF Grounded
  <2>13. Types'
    <3>1. Len(canon') <= Total
      BY <2>9 DEF IInv, Types, Latest
    <3> QED
      BY <1>8, <2>2, <2>5, <2>6, <2>8, <2>9, <2>11, <3>1 DEF IInv, Types
  <2> QED
    BY <1>4, <1>8, <2>2, <2>7, <2>9, <2>10, <2>11, <2>12, <2>13 DEF IInv
<1> QED
  BY <1>9, <1>10

LEMMA BecomesSays ==
  ASSUME NEW option, NEW violated
  PROVE  /\ Becomes(option, violated) \in Statuses
         /\ Becomes(option, violated) = "held" => option = "plot_responds"
BY DEF Becomes, Statuses

\* The rows with one of them decided.
Decided(rows, k, row) == [rows EXCEPT ![k] = row]

LEMMA DecidedSays ==
  ASSUME NEW rows \in Seq(ConflictType), NEW k \in DOMAIN rows, NEW row \in ConflictType,
         NEW new, new = Decided(rows, k, row)
  PROVE  /\ new \in Seq(ConflictType) /\ DOMAIN new = DOMAIN rows
         /\ new[k] = row /\ \A l \in DOMAIN rows : l # k => new[l] = rows[l]
<1>1. PICK n \in Nat : n = Len(rows) /\ DOMAIN rows = 1..n
  OBVIOUS
<1>2. rows \in [1..n -> ConflictType] /\ k \in 1..n
  BY <1>1
<1>3. /\ new \in [1..n -> ConflictType] /\ new[k] = row
      /\ \A l \in 1..n : l # k => new[l] = rows[l]
  BY <1>2 DEF Decided
<1>4. new \in Seq(ConflictType) /\ DOMAIN new = 1..n
  BY <1>3
<1> QED
  BY <1>1, <1>3, <1>4

LEMMA ResolveKeeps ==
  ASSUME IInv, NEW k \in Open, NEW option \in Options, NEW more \in BOOLEAN,
         Resolve(k, option, more)
  PROVE  IInv' /\ \A i \in Intents : world[i] = "settled" => world'[i] = "settled"
<1>1. /\ conflicts \in Seq(ConflictType) /\ k \in DOMAIN conflicts /\ conflicts[k].status = "open"
      /\ world \in StatusType
  BY DEF IInv, Types, Open
<1>2. k \in Nat
  BY <1>1
<1>3. PICK old \in ConflictType : old = conflicts[k]
  BY <1>1
<1>4. PICK i : i = old.intent
  OBVIOUS
<1>5. PICK slip \in BOOLEAN : slip = (option \in {"amend_plan", "accept_with_obligation"}
                                      /\ old.violated = "onstage_slip" /\ ~more)
  OBVIOUS
<1>6. PICK after : after = [j \in Intents |->
                              IF j # i \/ ~Unsettled(i) \/ slip THEN world[j]
                              ELSE Becomes(option, old.violated)]
  OBVIOUS
<1>7. PICK delta : delta = Delta("conflict", k, Change(world, after))
  OBVIOUS
<1>8. PICK lands \in BOOLEAN :
         lands = (DOMAIN delta.change # {} \/ more \/ option # "veto_world")
  OBVIOUS
<1>9. PICK answers \in BOOLEAN : answers = (option = "plot_responds")
  OBVIOUS
<1>10. PICK ref : ref = IF lands THEN Ref(delta) ELSE NoDelta
  OBVIOUS
<1>11. PICK carrier : carrier = IF answers THEN FirstReachable ELSE 0
  OBVIOUS
<1>12. PICK row : row = [old EXCEPT !.status = "resolved", !.option = option, !.delta = ref,
                                    !.response = IF answers THEN "active" ELSE "none",
                                    !.carrier = carrier]
  OBVIOUS
<1>13. /\ canon' = IF lands THEN [canon EXCEPT ![Latest].deltas = Append(@, delta)] ELSE canon
       /\ world' = after
       /\ conflicts' = Decided(conflicts, k, row)
       /\ plans' = Rebound(conflicts') /\ UNCHANGED <<owing, tick, late>>
  <2>1. after = [j \in Intents |->
                   CASE j # i \/ ~Unsettled(i) -> world[j]
                     [] /\ option \in {"amend_plan", "accept_with_obligation"}
                        /\ old.violated = "onstage_slip" /\ ~more -> world[j]
                     [] OTHER -> Becomes(option, old.violated)]
    BY <1>5, <1>6
  <2>2. /\ canon' = IF lands THEN [canon EXCEPT ![Latest].deltas = Append(@, delta)] ELSE canon
        /\ world' = after
    BY <1>3, <1>4, <1>7, <1>8, <2>1 DEF Resolve
  <2>3. conflicts' = [conflicts EXCEPT
                ![k].status = "resolved", ![k].option = option,
                ![k].delta = ref,
                ![k].response = IF answers THEN "active" ELSE "none",
                ![k].carrier = carrier]
    <3>1. conflicts' = [conflicts EXCEPT
                ![k].status = "resolved", ![k].option = option,
                ![k].delta = IF DOMAIN delta.change # {} \/ more \/ option # "veto_world"
                             THEN Ref(delta) ELSE NoDelta,
                ![k].response = IF option = "plot_responds" THEN "active" ELSE "none",
                ![k].carrier = IF option = "plot_responds" THEN FirstReachable ELSE 0]
      BY <1>3, <1>4, <1>7, <2>1 DEF Resolve
    <3>2. ref = IF DOMAIN delta.change # {} \/ more \/ option # "veto_world"
                THEN Ref(delta) ELSE NoDelta
      BY <1>8, <1>10
    <3>3. carrier = IF option = "plot_responds" THEN FirstReachable ELSE 0
      BY <1>9, <1>11
    <3>4. (IF answers THEN "active" ELSE "none") = IF option = "plot_responds" THEN "active" ELSE "none"
      BY <1>9
    <3> QED
      BY <3>1, <3>2, <3>3, <3>4
  <2>4. conflicts' = Decided(conflicts, k, row)
    BY <1>1, <1>3, <1>12, <2>3 DEF Decided
  <2> QED
    BY <2>2, <2>4 DEF Resolve
<1>14. /\ after \in StatusType
       /\ \A j \in Intents :
             /\ world[j] = "settled" => after[j] = "settled"
             /\ after[j] = "held" => world[j] = "held" \/ (j = i /\ answers)
  <2>1. ASSUME NEW j \in Intents
        PROVE  /\ after[j] \in Statuses
               /\ world[j] = "settled" => after[j] = "settled"
               /\ after[j] = "held" => world[j] = "held" \/ (j = i /\ answers)
    <3>1. CASE j # i \/ ~Unsettled(i) \/ slip
      BY <1>1, <1>6, <3>1 DEF StatusType
    <3>2. CASE ~(j # i \/ ~Unsettled(i) \/ slip)
      <4>1. after[j] = Becomes(option, old.violated) /\ j = i /\ world[j] # "settled"
        BY <1>6, <3>2 DEF Unsettled
      <4> QED
        BY <1>9, <4>1, BecomesSays
    <3> QED
      BY <3>1, <3>2
  <2> QED
    BY <1>6, <2>1 DEF StatusType
<1>15. /\ delta \in DeltaType /\ Applied(world, delta) = after
       /\ DOMAIN delta.change = {} => after = world
  BY <1>1, <1>2, <1>7, <1>14, ConflictDelta
<1>16. answers => i \in Intents /\ ~PlotResponded(i)
  <2>1. SUFFICES ASSUME answers PROVE i \in Intents /\ ~PlotResponded(i)
    OBVIOUS
  <2>2. CanDecide(k, option, more) /\ option = "plot_responds"
    BY <1>9, <2>1 DEF Resolve
  <2>3. Unsettled(i) /\ ~PlotResponded(i)
    BY <1>3, <1>4, <2>2 DEF CanDecide
  <2>4. i \in Intents \cup {NoIntent}
    BY <1>4 DEF ConflictType
  <2> QED
    BY <2>3, <2>4 DEF Unsettled
<1>17. /\ row \in ConflictType /\ RowOK(row) /\ row.intent = i /\ row.option = option
       /\ answers => row.response = "active"
  <2>1. ref \in {"none", "tick", "conflict"} \X Nat
    BY <1>2, <1>7, <1>10 DEF Ref, Delta, NoDelta
  <2>2. carrier \in 0..Total /\ (carrier # 0 => answers)
    BY <1>11, Numbers, ReachablePlan
  <2>3. PICK response : response = IF answers THEN "active" ELSE "none"
    OBVIOUS
  <2>4. row = [old EXCEPT !.status = "resolved", !.option = option, !.delta = ref,
                          !.response = response, !.carrier = carrier]
    BY <1>12, <2>3
  <2>5. response \in {"none", "active", "retired"}
    BY <2>3
  <2>6. /\ row \in ConflictType /\ row.intent = old.intent /\ row.option = option
        /\ row.response = response /\ row.carrier = carrier /\ row.status = "resolved"
    BY <2>1, <2>2, <2>4, <2>5 DEF ConflictType
  <2> QED
    BY <1>4, <1>16, <2>2, <2>3, <2>6 DEF RowOK
<1>18. PICK new : new = conflicts'
  OBVIOUS
<1>19. /\ new \in Seq(ConflictType) /\ DOMAIN new = DOMAIN conflicts
       /\ new[k] = row /\ \A l \in DOMAIN conflicts : l # k => new[l] = conflicts[l]
  BY <1>1, <1>13, <1>17, <1>18, DecidedSays
<1>20. \A l \in DOMAIN new : RowOK(new[l])
  BY <1>17, <1>19 DEF IInv, ResponsesOK
<1>21. Once(new)
  <2>1. ASSUME NEW l \in DOMAIN conflicts, l # k, Responds(conflicts[l]), conflicts[l].intent = i, answers
        PROVE  FALSE
    BY <1>16, <2>1 DEF PlotResponded, Responds
  <2>2. Responds(row) => answers
    BY <1>9, <1>17 DEF Responds
  <2>3. Once(conflicts)
    BY DEF IInv, ResponsesOK
  <2>4. SUFFICES ASSUME NEW a \in DOMAIN conflicts, NEW b \in DOMAIN conflicts,
                        Responds(new[a]), Responds(new[b]), new[a].intent = new[b].intent
                 PROVE  a = b
    BY <1>19 DEF Once
  <2>5. CASE a # k /\ b # k
    BY <1>19, <2>3, <2>4, <2>5 DEF Once
  <2>6. CASE a = k
    BY <1>17, <1>19, <2>1, <2>2, <2>4, <2>6
  <2>7. CASE b = k
    BY <1>17, <1>19, <2>1, <2>2, <2>4, <2>7
  <2> QED
    BY <2>5, <2>6, <2>7
<1>22. ResponsesOK'
  BY <1>18, <1>20, <1>21 DEF ResponsesOK
<1>23. plans' \in [Chapters -> PlanType] /\ \A c \in Chapters : plans'[c].status = plans[c].status
  <2>1. plans' = Rebound(new) /\ plans \in [Chapters -> PlanType]
    BY <1>13, <1>18 DEF IInv, Types
  <2> QED
    BY <1>20, <2>1, ReboundSays
<1>24. Latest \in Nat /\ Latest > 0
  <2>1. Latest \in Nat
    BY DEF IInv, Types, Latest
  <2>2. Latest # 0
    BY <1>1 DEF IInv, Grounded
  <2> QED
    BY <2>1, <2>2
<1>25. /\ canon' \in Seq(ChapterType) /\ Latest' = Latest /\ NextCommit' = NextCommit
       /\ SnapshotIsReplay' /\ Counted'
  <2>1. world' = Applied(world, delta) /\ (~lands => world' = world)
    BY <1>8, <1>13, <1>15
  <2> QED
    BY <1>13, <1>15, <1>23, <1>24, <2>1, LedgerGrows
<1>26. HeldIsAnswered'
  <2>1. SUFFICES ASSUME NextCommit - 1 = Latest, NEW j \in Intents, after[j] = "held"
                 PROVE  \E l \in DOMAIN new : new[l].response = "active" /\ new[l].intent = j
    <3>1. ASSUME NEW j \in Intents, NEW l \in DOMAIN new, new[l].response = "active", new[l].intent = j
          PROVE  \E m \in Active' : conflicts'[m].intent = j
      <4>1. l \in Active' /\ conflicts'[l].intent = j
        BY <1>18, <3>1 DEF Active
      <4> QED
        BY <4>1
    <3>2. world' = after /\ NextCommit' = NextCommit /\ Latest' = Latest
      BY <1>13, <1>25
    <3> QED
      BY <3>1, <3>2 DEF HeldIsAnswered
  <2>2. CASE world[j] = "held"
    <3>1. PICK l \in Active : conflicts[l].intent = j
      BY <2>1, <2>2 DEF IInv, HeldIsAnswered
    <3>2. l \in DOMAIN conflicts /\ conflicts[l].response = "active"
      BY DEF Active
    <3>3. l # k
      BY <1>1, <3>2 DEF IInv, ResponsesOK, RowOK
    <3> QED
      BY <1>19, <3>1, <3>2, <3>3
  <2>3. CASE j = i /\ answers
    BY <1>1, <1>17, <1>19, <2>3
  <2> QED
    BY <1>14, <2>1, <2>2, <2>3
<1>27. ViewsOK' /\ RaisedOK'
  BY <1>13 DEF IInv, ViewsOK, RaisedOK
<1>28. Grounded'
  BY <1>24, <1>25 DEF Grounded
<1>29. Types'
  <2>1. Len(canon') <= Total
    BY <1>25 DEF IInv, Types, Latest
  <2> QED
    BY <1>13, <1>14, <1>18, <1>19, <1>23, <1>25, <2>1 DEF IInv, Types
<1> QED
  BY <1>13, <1>14, <1>22, <1>25, <1>26, <1>27, <1>28, <1>29 DEF IInv

LEMMA PlanKeeps ==
  ASSUME IInv, NEW c \in Chapters, NEW intents \in SUBSET Intents, Plan(c, intents) PROVE IInv'
<1>1. UNCHANGED <<canon, world, owing, tick, late>> /\ c > Latest
  BY DEF Plan
<1>2. /\ conflicts \in Seq(ConflictType) /\ \A k \in DOMAIN conflicts : RowOK(conflicts[k])
      /\ plans \in [Chapters -> PlanType] /\ canon \in Seq(ChapterType)
  BY DEF IInv, Types, ResponsesOK
<1>3. PICK n \in Nat : n = Len(conflicts) /\ DOMAIN conflicts = 1..n
  BY <1>2
<1>4. DOMAIN conflicts = 1..n /\ \A k \in 1..n : conflicts[k] \in ConflictType /\ RowOK(conflicts[k])
  BY <1>2, <1>3
<1>5. PICK new : new = conflicts'
  OBVIOUS
<1>6. new = [k \in 1..n |-> IF k \in Pending /\ conflicts[k].intent \in intents
                            THEN [conflicts[k] EXCEPT !.carrier = c] ELSE conflicts[k]]
  BY <1>4, <1>5 DEF Plan
<1>7. ASSUME NEW k \in 1..n
      PROVE  /\ new[k] \in ConflictType /\ RowOK(new[k]) /\ Follows(new[k], conflicts[k])
             /\ new[k].response = conflicts[k].response
  <2>1. PICK row \in ConflictType : row = conflicts[k] /\ RowOK(row)
    BY <1>4
  <2>2. CASE k \in Pending /\ row.intent \in intents
    <3>1. new[k] = [row EXCEPT !.carrier = c]
      BY <1>6, <2>1, <2>2
    <3>2. c \in 0..Total
      BY Numbers DEF Chapters
    <3>3. /\ new[k] \in ConflictType /\ new[k].intent = row.intent /\ new[k].status = row.status
          /\ new[k].option = row.option /\ new[k].response = row.response
      BY <3>1, <3>2 DEF ConflictType
    <3>4. RowOK(new[k])
      BY <2>1, <2>2, <3>3 DEF RowOK
    <3> QED
      BY <2>1, <3>3, <3>4 DEF Follows
  <2>3. CASE ~(k \in Pending /\ row.intent \in intents)
    BY <1>6, <2>1, <2>3 DEF Follows
  <2> QED
    BY <2>2, <2>3
<1>8. new \in Seq(ConflictType) /\ DOMAIN new = 1..n
  <2>1. new \in [1..n -> ConflictType]
    BY <1>6, <1>7
  <2> QED
    BY <2>1
<1>9. ResponsesOK'
  <2>1. Once(new)
    BY <1>4, <1>7, <1>8, OnceStays DEF IInv, ResponsesOK, Follows, Responds
  <2> QED
    BY <1>5, <1>7, <1>8, <2>1 DEF ResponsesOK
<1>10. /\ plans' \in [Chapters -> PlanType]
       /\ \A d \in Chapters : d # c => plans'[d].status = plans[d].status
  <2>1. PICK rebound : rebound = Rebound(new)
    OBVIOUS
  <2>2. rebound \in [Chapters -> PlanType] /\ \A d \in Chapters : rebound[d].status = plans[d].status
    BY <1>2, <1>7, <1>8, <2>1, ReboundSays
  <2>3. PICK plan : plan = [status |-> "planned", bound |-> intents \cup CarriedBy(new, c)]
    OBVIOUS
  <2>4. CarriedBy(new, c) \subseteq Intents
    <3>1. c # 0
      BY DEF Chapters
    <3> QED
      BY <1>7, <1>8, <3>1 DEF CarriedBy, RowOK
  <2>5. plan \in PlanType
    BY <2>3, <2>4 DEF PlanType
  <2>6. plans' = [rebound EXCEPT ![c] = plan]
    <3>1. plans' = [Rebound(conflicts') EXCEPT ![c] =
                       [status |-> "planned", bound |-> intents \cup CarriedBy(conflicts', c)]]
      BY DEF Plan
    <3> QED
      BY <1>5, <2>1, <2>3, <3>1
  <2> QED
    BY <2>2, <2>5, <2>6
<1>11. Latest' = Latest /\ Latest \in Nat /\ canon' \in Seq(ChapterType)
  BY <1>1, <1>2 DEF Latest
<1>12. NextCommit' = NextCommit /\ Counted'
  <2>1. \A d \in 1..Latest : d \in Chapters /\ d # c
    BY <1>1, <1>11, Numbers DEF IInv, Types, Latest, Chapters
  <2> QED
    BY <1>1, <1>10, <1>11, <2>1, CountedStays
<1>13. SnapshotIsReplay' /\ ViewsOK' /\ RaisedOK'
  BY <1>1 DEF IInv, SnapshotIsReplay, ViewsOK, RaisedOK
<1>14. Grounded'
  <2>1. conflicts = << >> => new = << >>
    BY <1>3, <1>8
  <2> QED
    BY <1>1, <1>5, <1>11, <2>1 DEF IInv, Grounded
<1>15. HeldIsAnswered'
  <2>1. \A k \in Active : k \in DOMAIN conflicts' /\ conflicts'[k].intent = conflicts[k].intent
                           /\ conflicts'[k].response = "active"
    BY <1>4, <1>5, <1>7, <1>8 DEF Active, Follows
  <2>2. NextCommit' - 1 = Latest' => NextCommit - 1 = Latest
    BY <1>11, <1>12
  <2> QED
    BY <1>1, <2>1, <2>2, HeldStays DEF IInv
<1>16. Types'
  BY <1>1, <1>5, <1>8, <1>10 DEF IInv, Types
<1> QED
  BY <1>9, <1>12, <1>13, <1>14, <1>15, <1>16 DEF IInv

LEMMA DraftKeeps ==
  ASSUME IInv, NEW c \in Chapters, Draft(c) PROVE IInv'
<1>1. UNCHANGED <<canon, world, conflicts, owing, tick, late>> /\ plans[c].status = "planned"
      /\ plans' = [plans EXCEPT ![c].status = "drafted"]
  BY DEF Draft
<1>2. plans \in [Chapters -> PlanType] /\ canon \in Seq(ChapterType)
  BY DEF IInv, Types
<1>3. plans' \in [Chapters -> PlanType] /\ plans'[c].status = "drafted"
      /\ \A d \in Chapters : d # c => plans'[d] = plans[d]
  <2>1. PICK old \in PlanType : old = plans[c]
    BY <1>2
  <2>2. PICK plan : plan = [old EXCEPT !.status = "drafted"]
    OBVIOUS
  <2>3. plan \in PlanType /\ plan.status = "drafted"
    BY <2>2 DEF PlanType
  <2>4. plans' = [plans EXCEPT ![c] = plan]
    BY <1>1, <1>2, <2>1, <2>2
  <2> QED
    BY <1>2, <2>3, <2>4
<1>4. Latest' = Latest /\ Latest \in Nat /\ canon' \in Seq(ChapterType)
  BY <1>1, <1>2 DEF Latest
<1>5. NextCommit' = NextCommit /\ Counted'
  <2>1. \A d \in 1..Latest : d \in Chapters
    BY <1>4, Numbers DEF IInv, Types, Latest, Chapters
  <2>2. \A d \in 1..Latest : plans'[d].status = "accepted" <=> plans[d].status = "accepted"
    BY <1>1, <1>3, <2>1
  <2> QED
    BY <1>1, <1>4, <2>2, CountedStays
<1>6. SnapshotIsReplay' /\ ViewsOK' /\ RaisedOK' /\ ResponsesOK'
  BY <1>1 DEF IInv, SnapshotIsReplay, ViewsOK, RaisedOK, ResponsesOK
<1>7. Grounded'
  BY <1>1, <1>4 DEF IInv, Grounded
<1>8. HeldIsAnswered'
  <2>1. \A k \in Active : k \in DOMAIN conflicts' /\ conflicts'[k].intent = conflicts[k].intent
                           /\ conflicts'[k].response = "active"
    BY <1>1 DEF Active
  <2>2. NextCommit' - 1 = Latest' => NextCommit - 1 = Latest
    BY <1>4, <1>5
  <2> QED
    BY <1>1, <2>1, <2>2, HeldStays DEF IInv
<1>9. Types'
  BY <1>1, <1>3 DEF IInv, Types
<1> QED
  BY <1>5, <1>6, <1>7, <1>8, <1>9 DEF IInv

\* A chapter that was accepted is sent back: one more of the rewrites there may be.
LEMMA ResetKeeps ==
  ASSUME IInv, NEW c \in Chapters, Reset(c) PROVE IInv'
<1>1. UNCHANGED <<canon, world, conflicts, owing, tick, late>> /\ plans[c].status = "accepted"
      /\ c \in DOMAIN canon /\ Rewrites < MaxRewrites
      /\ plans' = [plans EXCEPT ![c].status = "planned"]
  BY DEF Reset
<1>2. plans \in [Chapters -> PlanType] /\ canon \in Seq(ChapterType)
  BY DEF IInv, Types
<1>3. plans' \in [Chapters -> PlanType] /\ plans'[c].status = "planned"
      /\ \A d \in Chapters : d # c => plans'[d] = plans[d]
  <2>1. PICK old \in PlanType : old = plans[c]
    BY <1>2
  <2>2. PICK plan : plan = [old EXCEPT !.status = "planned"]
    OBVIOUS
  <2>3. plan \in PlanType /\ plan.status = "planned"
    BY <2>2 DEF PlanType
  <2>4. plans' = [plans EXCEPT ![c] = plan]
    BY <1>1, <1>2, <2>1, <2>2
  <2> QED
    BY <1>2, <2>3, <2>4
<1>4. Latest' = Latest /\ Latest \in Nat /\ NextCommit' = NextCommit /\ NextCommit \in Nat
      /\ DOMAIN canon = 1..Latest
  <2>1. Latest' = Latest /\ NextCommit' = NextCommit
    BY <1>1 DEF Latest, NextCommit, InCanon
  <2> QED
    BY <1>2, <2>1, CommitsCount
<1>5. Returned' = Returned \cup {c} /\ c \notin Returned
  <2>1. \A d \in 1..Latest : d \in Chapters
    BY <1>4, Numbers DEF IInv, Types, Latest, Chapters
  <2> QED
    BY <1>1, <1>3, <1>4, <2>1 DEF Returned
<1>6. Counted'
  <2>1. /\ IsFiniteSet(Returned) /\ Cardinality(Returned) \in Nat
        /\ Rewrites = NextCommit - 1 - Latest + Cardinality(Returned)
    BY <1>2, ReturnedFinite
  <2>2. Cardinality(Returned') = Cardinality(Returned) + 1
    BY <1>5, <2>1, FS_AddElement
  <2>3. Rewrites' = NextCommit' - 1 - Latest' + Cardinality(Returned')
    BY DEF Rewrites, Returned
  <2>4. Rewrites' <= MaxRewrites
    BY <1>1, <1>4, <2>1, <2>2, <2>3, Numbers
  <2> QED
    BY <1>4, <2>4 DEF IInv, Counted
<1>7. SnapshotIsReplay' /\ ViewsOK' /\ RaisedOK' /\ ResponsesOK'
  BY <1>1 DEF IInv, SnapshotIsReplay, ViewsOK, RaisedOK, ResponsesOK
<1>8. Grounded'
  BY <1>1, <1>4 DEF IInv, Grounded
<1>9. HeldIsAnswered'
  <2>1. \A k \in Active : k \in DOMAIN conflicts' /\ conflicts'[k].intent = conflicts[k].intent
                           /\ conflicts'[k].response = "active"
    BY <1>1 DEF Active
  <2>2. NextCommit' - 1 = Latest' => NextCommit - 1 = Latest
    BY <1>4
  <2> QED
    BY <1>1, <2>1, <2>2, HeldStays DEF IInv
<1>10. Types'
  BY <1>1, <1>3 DEF IInv, Types
<1> QED
  BY <1>6, <1>7, <1>8, <1>9, <1>10 DEF IInv

LEMMA AcceptKeeps ==
  ASSUME IInv, NEW c \in Chapters, NEW settles \in SUBSET Intents, Accept(c, settles)
  PROVE  IInv' /\ \A i \in Intents : world[i] = "settled" => world'[i] = "settled"
<1>1. PICK chapter : chapter = Chapter(settles, << >>, {})
  OBVIOUS
<1>2. /\ c = Latest + 1 /\ canon' = Append(canon, chapter) /\ world' = Told(world, settles)
      /\ plans' = [plans EXCEPT ![c].status = "accepted"]
      /\ owing' = owing \cup {NextCommit} /\ UNCHANGED <<conflicts, tick, late>>
  BY <1>1 DEF Accept
<1>3. /\ plans \in [Chapters -> PlanType] /\ canon \in Seq(ChapterType) /\ world \in StatusType
      /\ conflicts \in Seq(ConflictType)
  BY DEF IInv, Types
<1>4. /\ Latest \in Nat /\ DOMAIN canon = 1..Latest /\ Latest = Len(canon)
      /\ NextCommit \in Nat /\ NextCommit > 0
      /\ \A d \in 1..Latest : canon[d].commit \in Nat /\ canon[d].commit < NextCommit
  BY <1>3, CommitsCount DEF Latest
<1>5. /\ IsFiniteSet(Returned) /\ Cardinality(Returned) \in Nat
      /\ Rewrites = NextCommit - 1 - Latest + Cardinality(Returned)
  BY <1>3, ReturnedFinite
<1>6. Latest + 1 <= Total /\ Total \in Nat
  BY <1>2, Numbers DEF Chapters
<1>7. NextCommit \in Commits
  <2>1. Rewrites <= MaxRewrites /\ MaxRewrites \in Nat
    BY Numbers DEF IInv, Counted
  <2>2. NextCommit <= Total + MaxRewrites
    BY <1>4, <1>5, <1>6, <2>1
  <2> QED
    BY <1>4, <2>2 DEF Commits
<1>8. /\ chapter = [commit |-> NextCommit, settles |-> settles, deltas |-> << >>, retired |-> {}]
      /\ chapter \in ChapterType
  <2>1. << >> \in Seq(DeltaType)
    OBVIOUS
  <2>2. chapter = [commit |-> NextCommit, settles |-> settles, deltas |-> << >>, retired |-> {}]
    BY <1>1 DEF Chapter
  <2> QED
    BY <1>7, <2>1, <2>2 DEF ChapterType
<1>9. /\ canon' \in Seq(ChapterType) /\ Len(canon') = Latest + 1 /\ canon'[Latest + 1] = chapter
      /\ \A d \in 1..Latest : canon'[d] = canon[d]
  BY <1>2, <1>3, <1>4, <1>8
<1>10. Latest' = Latest + 1
  BY <1>9 DEF Latest
<1>11. NextCommit' = NextCommit + 1
  <2>1. PICK r \in 1..Latest' : r = Latest + 1
    BY <1>4, <1>10
  <2>2. canon'[r].commit = NextCommit
    BY <1>8, <1>9, <2>1
  <2>3. \A d \in 1..Latest' : d # r => d \in 1..Latest /\ canon'[d].commit = canon[d].commit
    BY <1>4, <1>9, <1>10, <2>1
  <2> QED
    BY <1>3, <1>9, <1>10, <2>2, <2>3, CommitsGrow
<1>12. plans' \in [Chapters -> PlanType] /\ plans'[c].status = "accepted"
       /\ \A d \in Chapters : d # c => plans'[d] = plans[d]
  <2>1. PICK old \in PlanType : old = plans[c]
    BY <1>3
  <2>2. PICK plan : plan = [old EXCEPT !.status = "accepted"]
    OBVIOUS
  <2>3. plan \in PlanType /\ plan.status = "accepted"
    BY <2>2 DEF PlanType
  <2>4. plans' = [plans EXCEPT ![c] = plan]
    BY <1>2, <1>3, <2>1, <2>2
  <2> QED
    BY <1>3, <2>3, <2>4
<1>13. Returned' = Returned
  <2>1. DOMAIN canon' = 1..(Latest + 1)
    BY <1>9
  <2>2. \A d \in 1..Latest : d \in Chapters /\ d # c
    BY <1>2, <1>4, <1>6 DEF Chapters
  <2>3. \A d \in 1..(Latest + 1) : d = c \/ d \in 1..Latest
    BY <1>2, <1>4
  <2> QED
    BY <1>4, <1>12, <2>1, <2>2, <2>3 DEF Returned
<1>14. Counted'
  <2>1. Rewrites' = NextCommit' - 1 - Latest' + Cardinality(Returned')
    BY DEF Rewrites, Returned
  <2>2. Rewrites' = Rewrites
    BY <1>4, <1>5, <1>10, <1>11, <1>13, <2>1
  <2> QED
    BY <1>4, <1>10, <1>11, <2>2 DEF IInv, Counted
<1>15. SnapshotIsReplay'
  <2>1. StatusIn(canon') = AfterChapter(StatusIn(canon), chapter)
    BY <1>2, <1>3, <1>8, StatusAppended
  <2>2. AfterChapter(world, chapter) = AppliedAll(Told(world, settles), << >>)
    BY <1>8 DEF AfterChapter
  <2>3. PICK told \in StatusType : told = Told(world, settles)
    BY <1>3, StatusTypes
  <2>4. AppliedAll(told, << >>) = told
    <3>1. << >> \in Seq(DeltaType)
      OBVIOUS
    <3> QED
      BY <3>1, LedgerSays
  <2> QED
    BY <1>2, <2>1, <2>2, <2>3, <2>4 DEF IInv, SnapshotIsReplay
<1>16. /\ world' \in StatusType
       /\ \A i \in Intents : /\ world[i] = "settled" => world'[i] = "settled"
                             /\ world'[i] = "held" => world[i] = "held"
  <2>1. world' \in StatusType
    BY <1>2, <1>3, StatusTypes
  <2> QED
    BY <1>2, <2>1 DEF Told
<1>17. HeldIsAnswered'
  <2>1. \A k \in Active : k \in DOMAIN conflicts' /\ conflicts'[k].intent = conflicts[k].intent
                           /\ conflicts'[k].response = "active"
    BY <1>2 DEF Active
  <2>2. NextCommit' - 1 = Latest' => NextCommit - 1 = Latest
    BY <1>4, <1>10, <1>11
  <2> QED
    BY <1>16, <2>1, <2>2, HeldStays DEF IInv
<1>18. ViewsOK' /\ RaisedOK' /\ ResponsesOK'
  BY <1>2 DEF IInv, ViewsOK, RaisedOK, ResponsesOK
<1>19. Grounded'
  BY <1>4, <1>10 DEF Grounded
<1>20. Types'
  <2>1. Len(canon') <= Total
    BY <1>6, <1>9
  <2> QED
    BY <1>2, <1>7, <1>9, <1>12, <1>16, <2>1 DEF IInv, Types
<1> QED
  BY <1>14, <1>15, <1>16, <1>17, <1>18, <1>19, <1>20 DEF IInv

\* The new text of a chapter, with the deltas that stay.
LEMMA NewText ==
  ASSUME IInv, NEW c \in DOMAIN canon, plans[c].status = "drafted", NEW settles \in SUBSET Intents,
         NEW gone, gone = {Ref(d) : d \in {e \in Range(canon[c].deltas) : ~Keeps(e, c)}},
         NEW new, new = Chapter(settles, Ledger(c), {ref[2] : ref \in gone})
  PROVE  new \in ChapterType /\ new.commit = NextCommit /\ c \in Returned
<1>1. canon \in Seq(ChapterType) /\ plans \in [Chapters -> PlanType]
  BY DEF IInv, Types
<1>2. /\ Latest \in Nat /\ DOMAIN canon = 1..Latest
      /\ NextCommit \in Nat /\ NextCommit > 0
  BY <1>1, CommitsCount
<1>3. c \in Returned
  BY DEF Returned
<1>4. NextCommit \in Commits
  <2>1. /\ IsFiniteSet(Returned) /\ Cardinality(Returned) \in Nat
        /\ Rewrites = NextCommit - 1 - Latest + Cardinality(Returned)
    BY <1>1, ReturnedFinite
  <2>2. Cardinality(Returned) # 0
    BY <1>3, <2>1, FS_EmptySet
  <2>3. Rewrites <= MaxRewrites /\ MaxRewrites \in Nat /\ Total \in Nat
    BY Numbers DEF IInv, Counted
  <2>4. Latest <= Total
    BY DEF IInv, Types, Latest
  <2>5. NextCommit <= Total + MaxRewrites
    BY <1>2, <2>1, <2>2, <2>3, <2>4
  <2> QED
    BY <1>2, <2>5 DEF Commits
<1>5. canon[c] \in ChapterType
  BY <1>1
<1>6. PICK deltas \in Seq(DeltaType) : deltas = canon[c].deltas
  BY <1>5 DEF ChapterType
<1>7. PICK kept \in Seq(DeltaType) : kept = Ledger(c)
  BY <1>6, LedgerType
<1>8. {ref[2] : ref \in gone} \in SUBSET Commits
  <2>1. ASSUME NEW ref \in gone PROVE ref[2] \in Commits
    <3>1. PICK d : d \in Range(deltas) /\ ~Keeps(d, c) /\ ref = Ref(d)
      BY <1>6
    <3>2. d \in DeltaType
      BY <1>6, <3>1 DEF Range
    <3>3. d.kind # "conflict"
      BY <3>1 DEF Keeps
    <3>4. d.id \in Commits
      BY <3>2, <3>3 DEF DeltaType
    <3> QED
      BY <3>1, <3>4 DEF Ref
  <2> QED
    BY <2>1
<1>9. PICK retired \in SUBSET Commits : retired = {ref[2] : ref \in gone}
  BY <1>8
<1>10. PICK number \in Commits : number = NextCommit
  BY <1>4
<1>11. new = [commit |-> number, settles |-> settles, deltas |-> kept, retired |-> retired]
  BY <1>7, <1>9, <1>10 DEF Chapter
<1>12. new \in ChapterType /\ new.commit = number
  BY ONLY number \in Commits, settles \in SUBSET Intents, kept \in Seq(DeltaType),
          retired \in SUBSET Commits, <1>11 DEF ChapterType
<1> QED
  BY <1>3, <1>10, <1>12

\* A rewrite takes decisions back and leaves a conflict for each delta it lost.
LEMMA RewrittenRows ==
  ASSUME IInv, NEW dropped, NEW lost \in Seq(DeltaType), NEW all,
         all = [k \in DOMAIN conflicts |->
                    IF conflicts[k].status = "resolved" /\ conflicts[k].delta \in dropped
                    THEN Retired(conflicts[k]) ELSE conflicts[k]]
               \o [j \in DOMAIN lost |->
                       Conflict(NoIntent, "replay_cas", 0, Latest + 1, FALSE)]
  PROVE  /\ all \in Seq(ConflictType) /\ Once(all)
         /\ \A k \in DOMAIN all : RowOK(all[k])
<1>1. /\ conflicts \in Seq(ConflictType) /\ \A k \in DOMAIN conflicts : RowOK(conflicts[k])
      /\ canon \in Seq(ChapterType)
  BY DEF IInv, Types, ResponsesOK
<1>2. PICK n \in Nat : n = Len(conflicts) /\ DOMAIN conflicts = 1..n
  BY <1>1
<1>3. DOMAIN conflicts = 1..n /\ \A k \in 1..n : conflicts[k] \in ConflictType /\ RowOK(conflicts[k])
  <2>1. \A k \in DOMAIN conflicts : conflicts[k] \in ConflictType
    BY <1>1
  <2> QED
    BY <1>1, <1>2, <2>1
<1>4. PICK rows : rows = [k \in 1..n |->
                    IF conflicts[k].status = "resolved" /\ conflicts[k].delta \in dropped
                    THEN Retired(conflicts[k]) ELSE conflicts[k]]
  OBVIOUS
<1>5. ASSUME NEW k \in 1..n
      PROVE  rows[k] \in ConflictType /\ RowOK(rows[k]) /\ Follows(rows[k], conflicts[k])
  <2>1. PICK row \in ConflictType : row = conflicts[k] /\ RowOK(row)
    BY <1>3
  <2>2. rows[k] = Retired(row) \/ rows[k] = row
    BY <1>4, <2>1
  <2>3. CASE rows[k] = Retired(row)
    BY <2>1, <2>3, RetiredSays
  <2>4. CASE rows[k] = row
    BY <2>1, <2>4 DEF Follows
  <2> QED
    BY <2>2, <2>3, <2>4
<1>6. rows \in Seq(ConflictType) /\ DOMAIN rows = 1..n
  <2>1. rows \in [1..n -> ConflictType]
    BY <1>4, <1>5
  <2> QED
    BY <2>1
<1>7. Once(rows)
  BY <1>3, <1>5, <1>6, OnceStays DEF IInv, ResponsesOK, Follows, Responds
<1>8. PICK row : row = Conflict(NoIntent, "replay_cas", 0, Latest + 1, FALSE)
  OBVIOUS
<1>9. /\ row \in ConflictType /\ row.status = "open" /\ row.response = "none" /\ row.carrier = 0
  <2>1. Latest \in Nat
    BY <1>1, CommitsCount
  <2>2. /\ row = [intent |-> NoIntent, violated |-> "replay_cas", origin |-> 0, blocks |-> Latest + 1,
                  offers |-> FALSE, status |-> "open", option |-> "none", delta |-> <<"none", 0>>,
                  response |-> "none", carrier |-> 0]
    BY <1>8 DEF Conflict, NoDelta
  <2>3. Latest + 1 \in Nat /\ 0 \in Nat /\ 0 \in 0..Total
    BY <2>1, Numbers
  <2>4. <<"none", 0>> \in {"none", "tick", "conflict"} \X Nat
    OBVIOUS
  <2> QED
    BY <2>2, <2>3, <2>4 DEF ConflictType
<1>10. PICK m \in Nat : m = Len(lost) /\ DOMAIN lost = 1..m
  OBVIOUS
<1>11. PICK more : more = [j \in 1..m |-> row]
  OBVIOUS
<1>12. more \in Seq(ConflictType) /\ DOMAIN more = 1..m /\ \A j \in 1..m : more[j] = row
  <2>1. more \in [1..m -> ConflictType] /\ DOMAIN more = 1..m /\ \A j \in 1..m : more[j] = row
    BY <1>9, <1>11
  <2> QED
    BY <2>1
<1>13. all = rows \o more
  BY <1>2, <1>4, <1>8, <1>10, <1>11
<1>14. RowOK(row) /\ ~Responds(row)
  BY <1>9 DEF RowOK, Responds
<1>15. Once(more)
  BY <1>12, <1>14 DEF Once
<1>16. Once(all)
  <2>1. \A k \in DOMAIN rows, l \in DOMAIN more :
            ~(Responds(rows[k]) /\ Responds(more[l]) /\ rows[k].intent = more[l].intent)
    BY <1>12, <1>14
  <2> QED
    BY <1>6, <1>7, <1>12, <1>13, <1>15, <2>1, OnceAppended
<1>17. /\ all \in Seq(ConflictType)
       /\ \A k \in DOMAIN all : \/ k \in DOMAIN rows /\ all[k] = rows[k]
                                \/ \E l \in DOMAIN more : all[k] = more[l]
  <2>1. PICK r \in Seq(ConflictType) : r = rows
    BY <1>6
  <2>2. PICK s \in Seq(ConflictType) : s = more
    BY <1>12
  <2>3. all = r \o s
    BY <1>13, <2>1, <2>2
  <2>4. /\ all \in Seq(ConflictType)
        /\ \A k \in DOMAIN all : \/ k \in DOMAIN r /\ all[k] = r[k]
                                 \/ \E l \in DOMAIN s : all[k] = s[l]
    BY ONLY r \in Seq(ConflictType), s \in Seq(ConflictType), <2>3, Appended
  <2> QED
    BY <2>1, <2>2, <2>4
<1>18. \A k \in DOMAIN all : RowOK(all[k])
  BY <1>5, <1>6, <1>12, <1>14, <1>17
<1> QED
  BY <1>16, <1>17, <1>18

LEMMA RewriteKeeps ==
  ASSUME IInv, NEW c \in Chapters, NEW settles \in SUBSET Intents, NEW vanished,
         Rewrite(c, settles, vanished)
  PROVE  IInv' /\ Rewritten
<1>1. /\ c \in DOMAIN canon /\ plans[c].status = "drafted"
      /\ late' \in BOOLEAN /\ owing' = (owing \ {canon[c].commit}) \cup {NextCommit}
      /\ tick' = tick
  BY DEF Rewrite, IInv, Types
<1>2. PICK gone : gone = {Ref(d) : d \in {e \in Range(canon[c].deltas) : ~Keeps(e, c)}}
  OBVIOUS
<1>3. PICK new : new = Chapter(settles, Ledger(c), {ref[2] : ref \in gone})
  OBVIOUS
<1>4. PICK book : book = [canon EXCEPT ![c] = new]
  OBVIOUS
<1>5. PICK replay : replay = Replay(book, vanished)
  OBVIOUS
<1>6. PICK dropped : dropped = gone \cup {Ref(d) : d \in Range(replay.lost)}
  OBVIOUS
<1>7. /\ canon' = replay.canon /\ world' = replay.status
      /\ conflicts' =
            [k \in DOMAIN conflicts |->
                IF conflicts[k].status = "resolved" /\ conflicts[k].delta \in dropped
                THEN Retired(conflicts[k]) ELSE conflicts[k]]
            \o [j \in DOMAIN replay.lost |->
                    Conflict(NoIntent, "replay_cas", 0, Latest + 1, FALSE)]
      /\ plans' = [Rebound(conflicts') EXCEPT ![c].status = "accepted"]
  BY <1>2, <1>3, <1>4, <1>5, <1>6 DEF Rewrite
<1>8. /\ plans \in [Chapters -> PlanType] /\ canon \in Seq(ChapterType) /\ Len(canon) <= Total
  BY DEF IInv, Types
<1>9. /\ Latest \in Nat /\ DOMAIN canon = 1..Latest /\ Latest = Len(canon)
      /\ NextCommit \in Nat /\ NextCommit > 0
      /\ \A d \in 1..Latest : canon[d].commit \in Nat /\ canon[d].commit < NextCommit
  BY <1>8, CommitsCount DEF Latest
<1>10. new \in ChapterType /\ new.commit = NextCommit /\ c \in Returned
  BY <1>1, <1>2, <1>3, NewText
<1>11. /\ book \in Seq(ChapterType) /\ Len(book) = Latest /\ book[c] = new
       /\ \A d \in 1..Latest : d # c => book[d] = canon[d]
  BY <1>1, <1>4, <1>8, <1>9, <1>10
<1>12. /\ replay.status \in StatusType /\ replay.lost \in Seq(DeltaType)
       /\ replay.canon \in Seq(ChapterType) /\ Len(replay.canon) = Len(book)
       /\ replay.status = StatusIn(replay.canon)
       /\ \A d \in 1..Len(book) : SameText(replay.canon[d], book[d])
  BY <1>5, <1>11, ReplaySays
<1>13. /\ canon' \in Seq(ChapterType) /\ Latest' = Latest /\ DOMAIN canon' = 1..Latest
       /\ canon'[c].commit = NextCommit
       /\ \A d \in 1..Latest : d # c => canon'[d].commit = canon[d].commit
  <2>1. canon' \in Seq(ChapterType) /\ Len(canon') = Latest
    BY <1>7, <1>11, <1>12
  <2>2. DOMAIN canon' = 1..Latest /\ Latest' = Latest
    BY <2>1 DEF Latest
  <2>3. \A d \in 1..Latest : canon'[d].commit = book[d].commit
    BY <1>7, <1>11, <1>12 DEF SameText
  <2> QED
    BY <1>1, <1>9, <1>10, <1>11, <2>1, <2>2, <2>3
<1>14. NextCommit' = NextCommit + 1
  <2>1. PICK r \in 1..Latest' : r = c
    BY <1>1, <1>9, <1>13
  <2>2. Latest' \in {Latest, Latest + 1}
    BY <1>13
  <2>3. \A d \in 1..Latest' : d # r => d \in 1..Latest /\ canon'[d].commit = canon[d].commit
    BY <1>13, <2>1
  <2>4. canon'[r].commit = NextCommit
    BY <1>13, <2>1
  <2> QED
    BY <1>8, <1>13, <2>2, <2>3, <2>4, CommitsGrow
<1>15. PICK all : all = conflicts'
  OBVIOUS
<1>16. /\ all \in Seq(ConflictType) /\ Once(all)
       /\ \A k \in DOMAIN all : RowOK(all[k])
  <2>1. PICK lost \in Seq(DeltaType) : lost = replay.lost
    BY <1>12
  <2>2. all = [k \in DOMAIN conflicts |->
                   IF conflicts[k].status = "resolved" /\ conflicts[k].delta \in dropped
                   THEN Retired(conflicts[k]) ELSE conflicts[k]]
              \o [j \in DOMAIN lost |->
                      Conflict(NoIntent, "replay_cas", 0, Latest + 1, FALSE)]
    BY <1>7, <1>15, <2>1
  <2> QED
    BY <2>2, RewrittenRows
<1>17. plans' \in [Chapters -> PlanType] /\ plans'[c].status = "accepted"
       /\ \A d \in Chapters : d # c => plans'[d].status = plans[d].status
  <2>1. PICK rebound : rebound = Rebound(all)
    OBVIOUS
  <2>2. rebound \in [Chapters -> PlanType] /\ \A d \in Chapters : rebound[d].status = plans[d].status
    BY <1>8, <1>16, <2>1, ReboundSays
  <2>3. PICK old \in PlanType : old = rebound[c]
    BY <2>2
  <2>4. PICK plan : plan = [old EXCEPT !.status = "accepted"]
    OBVIOUS
  <2>5. plan \in PlanType /\ plan.status = "accepted"
    BY <2>4 DEF PlanType
  <2>6. plans' = [rebound EXCEPT ![c] = plan]
    BY <1>7, <1>15, <2>1, <2>2, <2>3, <2>4
  <2> QED
    BY <2>2, <2>5, <2>6
<1>18. Returned' = Returned \ {c}
  <2>1. \A d \in 1..Latest : d \in Chapters
    BY <1>8, <1>9, Numbers DEF Chapters
  <2> QED
    BY <1>1, <1>9, <1>13, <1>17, <2>1 DEF Returned
<1>19. Counted'
  <2>1. /\ IsFiniteSet(Returned) /\ Cardinality(Returned) \in Nat
        /\ Rewrites = NextCommit - 1 - Latest + Cardinality(Returned)
    BY <1>8, ReturnedFinite
  <2>2. Cardinality(Returned') = Cardinality(Returned) - 1
    BY <1>10, <1>18, <2>1, FS_RemoveElement
  <2>3. Rewrites' = NextCommit' - 1 - Latest' + Cardinality(Returned')
    BY DEF Rewrites, Returned
  <2>4. Rewrites' = Rewrites
    BY <1>9, <1>13, <1>14, <2>1, <2>2, <2>3
  <2> QED
    BY <1>9, <1>13, <1>14, <2>4 DEF IInv, Counted
<1>20. SnapshotIsReplay'
  BY <1>7, <1>12 DEF SnapshotIsReplay
<1>21. HeldIsAnswered'
  <2>1. NextCommit' - 1 # Latest'
    BY <1>9, <1>13, <1>14 DEF IInv, Counted
  <2> QED
    BY <2>1 DEF HeldIsAnswered
<1>22. ResponsesOK'
  BY <1>15, <1>16 DEF ResponsesOK
<1>23. Grounded'
  BY <1>1, <1>9, <1>13 DEF Grounded
<1>24. ViewsOK' /\ RaisedOK'
  BY <1>1 DEF IInv, ViewsOK, RaisedOK
<1>25. Types'
  <2>1. Len(canon') <= Total
    BY <1>8, <1>9, <1>13 DEF Latest
  <2>2. NextCommit \in Commits
    BY <1>10 DEF ChapterType
  <2>3. owing' \subseteq Commits
    BY <1>1, <2>2 DEF IInv, Types
  <2>4. world' \in StatusType
    BY <1>7, <1>12
  <2> QED
    BY <1>1, <1>13, <1>15, <1>16, <1>17, <2>1, <2>3, <2>4 DEF IInv, Types
<1>26. Rewritten
  BY <1>1, <1>9, <1>13 DEF Rewritten
<1> QED
  BY <1>19, <1>20, <1>21, <1>22, <1>23, <1>24, <1>25, <1>26 DEF IInv

LEMMA InitKeeps == Init => IInv
<1> SUFFICES ASSUME Init PROVE IInv
  OBVIOUS
<1>1. /\ canon = << >> /\ world = Unchanged /\ conflicts = << >> /\ owing = {}
      /\ plans = [c \in Chapters |-> [status |-> "none", bound |-> {}]]
      /\ tick = [n \in Commits |-> NotRunning]
      /\ late = FALSE
  BY DEF Init
<1>2. << >> \in Seq(ChapterType) /\ << >> \in Seq(ConflictType) /\ Len(canon) = 0
  BY <1>1
<1>3. Unchanged \in StatusType
  BY DEF Unchanged, StatusType, Statuses
<1>4. plans \in [Chapters -> PlanType]
  BY <1>1 DEF PlanType
<1>5. PICK idle \in TickType : idle = NotRunning /\ idle.at = "idle" /\ idle.raised = << >>
  BY NotRunningType
<1>6. tick = [n \in Commits |-> idle]
  BY <1>1, <1>5
<1>7. Types
  <2>1. Len(canon) <= Total
    BY <1>2, Numbers
  <2>2. canon \in Seq(ChapterType) /\ conflicts \in Seq(ConflictType)
    BY <1>1, <1>2
  <2>3. tick \in [Commits -> TickType]
    BY <1>6
  <2>4. world \in StatusType /\ owing \subseteq Commits /\ late \in BOOLEAN
    BY <1>1, <1>3
  <2> QED
    BY <1>4, <2>1, <2>2, <2>3, <2>4 DEF Types
<1>8. SnapshotIsReplay
  BY <1>1, <1>2, StatusSays DEF SnapshotIsReplay
<1>9. ViewsOK /\ RaisedOK
  BY <1>5, <1>6 DEF ViewsOK, RaisedOK
<1>10. Grounded
  BY <1>1, <1>5, <1>6 DEF Grounded
<1>11. DOMAIN canon = {} /\ DOMAIN conflicts = {} /\ Latest = 0
  BY <1>1 DEF Latest
<1>12. ResponsesOK
  BY <1>11 DEF ResponsesOK, Once
<1>13. Counted
  <2>1. Returned = {}
    BY <1>11 DEF Returned
  <2>2. Cardinality(Returned) = 0
    BY <2>1, FS_EmptySet
  <2>3. InCanon = {}
    BY <1>11 DEF InCanon
  <2>4. NextCommit = 1
    <3>1. {0} \cup InCanon = {0}
      BY <2>3
    <3>2. Max({0}) = 0
      <4>1. {0} \in SUBSET (0..0) /\ {0} # {}
        OBVIOUS
      <4> QED
        BY <4>1, MaxOfBounded
    <3> QED
      BY <3>1, <3>2 DEF NextCommit
  <2>5. Rewrites = NextCommit - 1 - Latest + Cardinality(Returned)
    BY DEF Rewrites, Returned
  <2> QED
    BY <1>11, <2>2, <2>4, <2>5, Numbers DEF Counted
<1>14. HeldIsAnswered
  BY <1>1 DEF HeldIsAnswered, Unchanged
<1> QED
  BY <1>7, <1>8, <1>9, <1>10, <1>12, <1>13, <1>14 DEF IInv

\* Unless the text of a chapter is replaced, what is settled stays settled.
Final == ~Rewritten => \A i \in Intents : world[i] = "settled" => world'[i] = "settled"

LEMMA NextKeeps == IInv /\ [Next]_vars => IInv' /\ Final
<1> SUFFICES ASSUME IInv, [Next]_vars PROVE IInv' /\ Final
  OBVIOUS
<1>1. ASSUME NEW n \in Commits, StartTick(n) PROVE IInv' /\ Final
  BY <1>1, StartTickKeeps DEF StartTick, Final
<1>2. ASSUME NEW n \in Commits, NEW lost \in SUBSET Open, SkipTick(n, lost) PROVE IInv' /\ Final
  BY <1>2, SkipTickKeeps DEF SkipTick, Final
<1>3. ASSUME NEW n \in Commits, NEW turns \in [Intents -> Turns], CheckQuietTick(n, turns)
      PROVE  IInv' /\ Final
  BY <1>3, CheckQuietTickKeeps DEF CheckQuietTick, Final
<1>4. ASSUME NEW n \in Commits, NEW turns \in [Intents -> Turns], NEW moves \in BOOLEAN,
             CommitTick(n, turns, moves)
      PROVE  IInv' /\ Final
  BY <1>4, CommitTickKeeps DEF Final
<1>5. ASSUME NEW n \in Commits, FinishHolds(n) PROVE IInv' /\ Final
  BY <1>5, FinishHoldsKeeps DEF Final
<1>6. ASSUME NEW n \in Commits, CloseQuietTick(n) PROVE IInv' /\ Final
  BY <1>6, CloseQuietTickKeeps DEF CloseQuietTick, Final
<1>7. ASSUME NEW n \in Commits, FailTick(n) PROVE IInv' /\ Final
  BY <1>7, FailTickKeeps DEF FailTick, Final
<1>8. ASSUME NEW k \in Open, NEW option \in Options, NEW more \in BOOLEAN, Resolve(k, option, more)
      PROVE  IInv' /\ Final
  BY <1>8, ResolveKeeps DEF Final
<1>9. ASSUME NEW c \in Chapters, NEW intents \in SUBSET Intents, Plan(c, intents)
      PROVE  IInv' /\ Final
  BY <1>9, PlanKeeps DEF Plan, Final
<1>10. ASSUME NEW c \in Chapters, Draft(c) PROVE IInv' /\ Final
  BY <1>10, DraftKeeps DEF Draft, Final
<1>11. ASSUME NEW c \in Chapters, NEW settles \in SUBSET Intents, Accept(c, settles)
       PROVE  IInv' /\ Final
  BY <1>11, AcceptKeeps DEF Final
<1>12. ASSUME NEW c \in Chapters, NEW settles \in SUBSET Intents, NEW vanished \in SUBSET Refs,
              Rewrite(c, settles, vanished)
       PROVE  IInv' /\ Final
  BY <1>12, RewriteKeeps DEF Final
<1>13. ASSUME NEW c \in Chapters, Reset(c) PROVE IInv' /\ Final
  BY <1>13, ResetKeeps DEF Reset, Final
<1>14. ASSUME UNCHANGED vars PROVE IInv' /\ Final
  <2>1. UNCHANGED <<canon, world, plans, conflicts, owing, tick, late>>
    BY <1>14 DEF vars
  <2>2. SnapshotIsReplay' /\ ResponsesOK' /\ Counted' /\ HeldIsAnswered' /\ Latest' = Latest
    BY <2>1, CoreStays
  <2>3. Types' /\ ViewsOK' /\ RaisedOK'
    BY <2>1 DEF IInv, Types, ViewsOK, RaisedOK
  <2>4. Grounded'
    BY <2>1, <2>2 DEF IInv, Grounded
  <2> QED
    BY <2>1, <2>2, <2>3, <2>4 DEF IInv, Final
<1>15. ASSUME NEW n \in Commits, RunsTick(n) PROVE IInv' /\ Final
  BY <1>1, <1>2, <1>3, <1>4, <1>5, <1>6, <1>15 DEF RunsTick
<1>16. ASSUME NEW c \in Chapters, Writes(c) PROVE IInv' /\ Final
  BY <1>10, <1>11, <1>12, <1>16 DEF Writes
<1>17. ASSUME NEW c \in Chapters, Plans(c) PROVE IInv' /\ Final
  BY <1>9, <1>17 DEF Plans
<1>18. ASSUME Decides PROVE IInv' /\ Final
  BY <1>8, <1>18 DEF Decides
<1> QED
  BY <1>7, <1>13, <1>14, <1>15, <1>16, <1>17, <1>18 DEF Next

LEMMA Inductive == Spec => []IInv
<1>1. Init => IInv
  BY InitKeeps
<1>2. IInv /\ [Next]_vars => IInv'
  BY NextKeeps
<1> QED
  BY <1>1, <1>2, PTL DEF Spec

-----------------------------------------------------------------------------
(* The theorems *)

\* Every column has its values and every reference leads somewhere, for books of any length
\* and any number of intents: in particular, no rewrite takes a commit number past those
\* the book has room for, and a response is carried by a chapter of the book.
THEOREM Typed == Spec => []TypeOK
<1>1. IInv => TypeOK
  <2> SUFFICES ASSUME IInv PROVE TypeOK
    OBVIOUS
  <2>1. Types
    BY DEF IInv
  <2>2. \A c \in DOMAIN canon :
          /\ canon[c].commit \in Commits /\ canon[c].settles \subseteq Intents
          /\ canon[c].retired \subseteq Commits
    <3>1. \A c \in DOMAIN canon : canon[c] \in ChapterType
      BY <2>1 DEF Types
    <3> QED
      BY <3>1 DEF ChapterType
  <2>3. \A k \in DOMAIN conflicts :
          /\ conflicts[k].intent \in Intents \cup {NoIntent}
          /\ conflicts[k].status \in {"open", "resolved", "expired"}
          /\ conflicts[k].response \in {"none", "active", "retired"}
          /\ conflicts[k].carrier \in {0} \cup Chapters
    <3>1. ASSUME NEW k \in DOMAIN conflicts
          PROVE  /\ conflicts[k].intent \in Intents \cup {NoIntent}
                 /\ conflicts[k].status \in {"open", "resolved", "expired"}
                 /\ conflicts[k].response \in {"none", "active", "retired"}
                 /\ conflicts[k].carrier \in {0} \cup Chapters
      <4>1. PICK row \in ConflictType : row = conflicts[k]
        BY <2>1 DEF Types
      <4>2. 0..Total \subseteq {0} \cup Chapters
        BY Numbers DEF Chapters
      <4>3. row.carrier \in {0} \cup Chapters
        BY <4>2 DEF ConflictType
      <4> QED
        BY <4>1, <4>3 DEF ConflictType
    <3> QED
      BY <3>1
  <2>4. \A c \in Chapters :
          /\ plans[c].status \in {"none", "planned", "drafted", "accepted"}
          /\ plans[c].bound \subseteq Intents
    BY <2>1 DEF Types, PlanType
  <2>5. \A n \in Commits : tick[n].at \in {"idle", "thinking", "closing"}
    BY <2>1 DEF Types, TickType
  <2>6. Len(canon) <= Total /\ world \in [Intents -> Statuses] /\ owing \subseteq Commits
        /\ late \in BOOLEAN
    BY <2>1 DEF Types, StatusType
  <2> QED
    BY <2>2, <2>3, <2>4, <2>5, <2>6 DEF TypeOK
<1> QED
  BY <1>1, Inductive, PTL

\* The snapshot and the ledger agree: whatever ticks and decisions append to the ledger of
\* the latest chapter, and whatever a rewrite drops from the replay of any number of chapters
\* and deltas, the statuses that are read are those the deltas of canon make.
THEOREM Agreed == Spec => []SnapshotIsReplay
<1>1. IInv => SnapshotIsReplay
  BY DEF IInv
<1> QED
  BY <1>1, Inductive, PTL

\* An intent gets one response of the plot, whoever decides it: a tick offers it only when
\* no resolved row has it, a person decides only what is still to be had, and a rewrite that
\* retires a response leaves the row that consumed the offer.
THEOREM AnsweredOnce == Spec => []OncePerIntent
<1>1. IInv => OncePerIntent
  <2> SUFFICES ASSUME IInv, NEW i \in Intents
               PROVE  Cardinality({k \in DOMAIN conflicts : /\ conflicts[k].intent = i
                                                            /\ conflicts[k].status = "resolved"
                                                            /\ conflicts[k].option = "plot_responds"}) <= 1
    BY DEF OncePerIntent
  <2>1. PICK S : S = {k \in DOMAIN conflicts : /\ conflicts[k].intent = i
                                               /\ conflicts[k].status = "resolved"
                                               /\ conflicts[k].option = "plot_responds"}
    OBVIOUS
  <2>2. \A k, l \in S : k = l
    BY <2>1 DEF IInv, ResponsesOK, Once, Responds
  <2>3. CASE S = {}
    BY <2>1, <2>3, FS_EmptySet
  <2>4. CASE S # {}
    <3>1. PICK k : S = {k}
      BY <2>2, <2>4
    <3>2. Cardinality({k}) = 1
      BY FS_Singleton
    <3> QED
      BY <2>1, <3>1, <3>2
  <2> QED
    BY <2>3, <2>4
<1> QED
  BY <1>1, Inductive, PTL

\* As long as nobody rewrites, a held intent has a response that is owed: reconciling,
\* deciding and planning move and retire responses, but none whose hold lasts.
THEOREM NeverStranded == Spec => []HeldIsAnswered
<1>1. IInv => HeldIsAnswered
  BY DEF IInv
<1> QED
  BY <1>1, Inductive, PTL

\* But for the replacement of a text, no step revives a settled intent: a tick commits only
\* on the canon it read, and a decision leaves what is settled.
THEOREM Settled == Spec => SettledStays
<1>1. IInv /\ [Next]_vars =>
         [~Rewritten => \A i \in Intents : world[i] = "settled" => world'[i] = "settled"]_vars
  BY NextKeeps DEF Final
<1> QED
  BY <1>1, Inductive, PTL DEF Spec, SettledStays
=============================================================================
