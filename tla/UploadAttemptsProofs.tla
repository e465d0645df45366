------------------------ MODULE UploadAttemptsProofs ------------------------
(***************************************************************************)
(* Theorems about UploadAttempts, for any number of jobs, extensions and   *)
(* attempts that are referred to.                                          *)
(***************************************************************************)
EXTENDS UploadAttempts, TLAPS

(* The inductive invariant *)

Types == /\ job \in [Jobs -> JobRow]
         /\ att \in [Attempts -> AttemptRow \cup {NoRow}]
         /\ receipt \in [Jobs -> BOOLEAN]
         /\ presses \in [Jobs -> Nat] /\ copies \in [Jobs -> Nat]
         /\ pc \in [Clients -> Places]
         /\ held \in [Clients -> Attempts \cup {None}]
         /\ saved \in [Clients -> Saved]

\* Jobs name rows of their own: the running attempt as the current one, and it
\* alone, and the paused one by the token.
Linked(jobs, rows) ==
    /\ \A j \in Jobs : jobs[j].current # None =>
          rows[jobs[j].current].status = "running" /\ rows[jobs[j].current].job = j
    /\ \A a \in Attempts : rows[a].status = "running" => jobs[rows[a].job].current = a
    /\ \A j \in Jobs : jobs[j].token # None =>
          rows[jobs[j].token] # NoRow /\ rows[jobs[j].token].job = j
    /\ \A j \in Jobs : jobs[j].status \in {"running", "terminating"} <=> jobs[j].current # None
    /\ \A j \in Jobs : jobs[j].status = "paused" => jobs[j].token # None

\* An attempt that has not begun to change anything on the platform.
Fresh(row) == row.kind = "execute" /\ row.phase = "claimed"

\* A job that may be executed, now or later, or be withdrawn.
Clean(jobs, rows, j) ==
    \/ jobs[j].status \in {"scheduled", "pending", "cancelled"}
    \/ jobs[j].current # None /\ Fresh(rows[jobs[j].current])
    \/ jobs[j].status = "paused" /\ Fresh(rows[jobs[j].token])

\* What is said to be on the platform is there.
EvidenceOK ==
    /\ \A a \in Attempts : att[a] # NoRow /\ att[a].receipt => receipt[att[a].job]
    /\ \A j \in Jobs : receipt[j] \/ job[j].status = "succeeded" => copies[j] > 0

\* What an extension's place and its journal entry say of the attempt.
ClientOK(c) ==
    /\ held[c] = None => pc[c] = "idle" /\ saved[c] = "none"
    /\ held[c] # None => held[c][1] = c /\ att[held[c]] # NoRow
    /\ pc[c] \in {"claimed", "started"} => saved[c] = "none" /\ att[held[c]].phase = "claimed"
    /\ pc[c] = "received" => saved[c] = "receipt"
    /\ pc[c] = "report" => saved[c] = "succeeded"
    /\ pc[c] = "replayed" => saved[c] = "succeeded" /\ receipt[att[held[c]].job]
    /\ pc[c] = "result" => saved[c] \in {"succeeded", "failed", "cancelled"} \cup Findings
    /\ saved[c] \in {"receipt", "succeeded", "matched"} => copies[att[held[c]].job] > 0

\* An extension that is about to press the button of a job.
About(c, j) == pc[c] = "go" /\ att[held[c]].job = j

\* It is the only one, nobody has pressed it yet, and once it may have been
\* pressed the job is not executed again.
PressOK ==
    \A j \in Jobs :
        /\ copies[j] <= presses[j] /\ presses[j] <= 1
        /\ presses[j] > 0 => ~ Clean(job, att, j)
        /\ \A c \in Clients : About(c, j) =>
              /\ presses[j] = 0 /\ ~ Clean(job, att, j)
              /\ \A d \in Clients : About(d, j) => c = d

IInv == /\ Types /\ Linked(job, att) /\ EvidenceOK
        /\ \A c \in Clients : ClientOK(c)
        /\ PressOK

-----------------------------------------------------------------------------
(* What a transaction of the server writes *)

\* A row stays with its job, and never gets fresh again.
Carried(rows) ==
    \A a \in Attempts : att[a] # NoRow =>
        /\ rows[a] # NoRow /\ rows[a].job = att[a].job /\ rows[a].kind = att[a].kind
        /\ att[a].phase # "claimed" => rows[a].phase # "claimed"
        /\ att[a].receipt => rows[a].receipt

\* The jobs, the receipts and the attempts that it leaves, before those attempts
\* that nothing refers to are forgotten.
Writes(jobs, got, rows) ==
    /\ jobs \in [Jobs -> JobRow] /\ rows \in [Attempts -> AttemptRow \cup {NoRow}]
    /\ got \in [Jobs -> BOOLEAN]
    /\ Linked(jobs, rows)
    /\ Carried(rows)
    /\ \A a \in Attempts : rows[a] # NoRow /\ rows[a].receipt => got[rows[a].job]
    /\ \A j \in Jobs : Clean(jobs, rows, j) => Clean(job, att, j)
    /\ \A j \in Jobs : receipt[j] => got[j]
    /\ \A j \in Jobs : job[j].status = "succeeded" => jobs[j].status = "succeeded"
    /\ \A j \in Jobs : job[j].status = "cancelled" => jobs[j].status \in Terminal
    /\ \A j \in Jobs : got[j] \/ jobs[j].status = "succeeded" => copies[j] > 0

\* The same of those that remain.
Remains(jobs, got, rows) ==
    /\ jobs \in [Jobs -> JobRow] /\ att' \in [Attempts -> AttemptRow \cup {NoRow}]
    /\ Linked(jobs, att')
    /\ \A a \in Attempts : att'[a] # NoRow /\ att'[a].receipt => got[att'[a].job]
    /\ \A j \in Jobs : Clean(jobs, att', j) => Clean(job, att, j)
    /\ \A c \in Clients : held'[c] # None => att'[held'[c]] = rows[held'[c]]

LEMMA Reference ==
  ASSUME NEW x
  PROVE  x \in Referred' <=> \/ \E c \in Clients : held'[c] = x
                             \/ \E j \in Jobs : job'[j].current = x \/ job'[j].token = x
BY DEF Referred

LEMMA NoRowIsNoRow ==
  /\ NoRow \notin AttemptRow /\ NoRow.status = "none"
  /\ \A row \in AttemptRow : row # NoRow
BY DEF NoRow, AttemptRow

LEMMA KeepRemains ==
  ASSUME NEW rows, Writes(job', receipt', rows), Keep(rows),
         held' \in [Clients -> Attempts \cup {None}]
  PROVE  Remains(job', receipt', rows)
<1>1. \A a \in Attempts : att'[a] = IF a \in Referred' THEN rows[a] ELSE NoRow
  BY DEF Keep
<1>2. att' \in [Attempts -> AttemptRow \cup {NoRow}]
  BY DEF Keep, Writes
<1>3. \A c \in Clients : held'[c] # None => att'[held'[c]] = rows[held'[c]]
  BY <1>1, Reference
<1>4. job' \in [Jobs -> JobRow]
  BY DEF Writes
<1>5. \A j \in Jobs : /\ job'[j].current # None => att'[job'[j].current] = rows[job'[j].current]
                      /\ job'[j].token # None => att'[job'[j].token] = rows[job'[j].token]
  <2>1. \A j \in Jobs : job'[j].current \in Attempts \cup {None} /\ job'[j].token \in Attempts \cup {None}
    BY <1>4 DEF JobRow
  <2> QED
    BY <1>1, <2>1, Reference
<1>6. \A a \in Attempts : att'[a] = rows[a] \/ att'[a] = NoRow
  BY <1>1
<1>7. Linked(job', att')
  BY <1>5, <1>6, NoRowIsNoRow DEF Writes, Linked
<1>8. \A a \in Attempts : att'[a] # NoRow /\ att'[a].receipt => receipt'[att'[a].job]
  BY <1>6 DEF Writes
<1>9. \A j \in Jobs : Clean(job', att', j) => Clean(job, att, j)
  BY <1>5 DEF Writes, Clean, Linked
<1> QED
  BY <1>2, <1>3, <1>4, <1>7, <1>8, <1>9 DEF Remains

\* The rows as they are.
ServerOK == Types /\ Linked(job, att) /\ EvidenceOK

LEMMA NothingWrites ==
  ASSUME ServerOK
  PROVE  Writes(job, receipt, att)
BY DEF ServerOK, Types, EvidenceOK, Writes, Carried, Terminal

\* A running attempt enters a later phase, or has its receipt noted.
LEMMA PhaseWrites ==
  ASSUME ServerOK, NEW a \in Attempts, att[a].status = "running", NEW row \in AttemptRow,
         row.job = att[a].job, row.kind = att[a].kind, row.status = "running",
         row.phase # "claimed", NEW got \in [Jobs -> BOOLEAN],
         att[a].receipt => row.receipt, row.receipt => got[row.job],
         \A j \in Jobs : receipt[j] => got[j], \A j \in Jobs : got[j] => copies[j] > 0
  PROVE  Writes(job, got, [att EXCEPT ![a] = row])
<1> DEFINE rows == [att EXCEPT ![a] = row]
<1>1. rows \in [Attempts -> AttemptRow \cup {NoRow}] /\ rows[a] = row
      /\ \A x \in Attempts \ {a} : rows[x] = att[x]
  BY DEF ServerOK, Types
<1> HIDE DEF rows
<1>2. job \in [Jobs -> JobRow]
  BY DEF ServerOK, Types
<1>3. att[a] # NoRow /\ row # NoRow
  BY NoRowIsNoRow
<1>4. \A j \in Jobs : job[j].current \in Attempts \cup {None} /\ job[j].token \in Attempts \cup {None}
  BY <1>2 DEF JobRow
<1>5. Linked(job, rows)
  BY <1>1, <1>3, <1>4 DEF ServerOK, Linked
<1>6. Carried(rows)
  BY <1>1, <1>3 DEF Carried
<1>7. \A x \in Attempts : rows[x] # NoRow /\ rows[x].receipt => got[rows[x].job]
  <2>1. \A x \in Attempts \ {a} : att[x] # NoRow /\ att[x].receipt => got[att[x].job]
    <3>1. \A x \in Attempts : att[x] # NoRow => att[x].job \in Jobs
      BY DEF ServerOK, Types, AttemptRow
    <3> QED
      BY <3>1 DEF ServerOK, EvidenceOK
  <2> QED
    BY <1>1, <2>1
<1>8. \A j \in Jobs : Clean(job, rows, j) => Clean(job, att, j)
  BY <1>1, <1>4 DEF ServerOK, Clean, Fresh, Linked
<1>9. \A j \in Jobs : got[j] \/ job[j].status = "succeeded" => copies[j] > 0
  BY DEF ServerOK, EvidenceOK
<1>10. \A j \in Jobs : job[j].status = "cancelled" => job[j].status \in Terminal
  BY DEF Terminal
<1> QED
  BY <1>1, <1>2, <1>5, <1>6, <1>7, <1>8, <1>9, <1>10 DEF Writes, rows

LEMMA LeftType ==
  ASSUME NEW row \in JobRow, NEW status \in JobStatus
  PROVE  /\ [row EXCEPT !.status = status, !.current = None] \in JobRow
         /\ [row EXCEPT !.status = status, !.current = None].status = status
         /\ [row EXCEPT !.status = status, !.current = None].current = None
         /\ [row EXCEPT !.status = status, !.current = None].token = row.token
BY DEF JobRow

LEMMA UncertainIsNotFresh ==
  ASSUME NEW a, att[a] \in AttemptRow
  PROVE  /\ Uncertain(a) <=> ~ Fresh(att[a])
         /\ AfterFailure(a) \in {"reconciling", "cancelled", "pending"}
         /\ AfterFailure(a) # "reconciling" => Fresh(att[a])
BY DEF Uncertain, Fresh, AfterFailure, AttemptRow

LEMMA RunningRow ==
  ASSUME ServerOK, NEW a \in Running
  PROVE  /\ a \in Attempts /\ att[a] \in AttemptRow /\ att[a] # NoRow /\ a # None
         /\ att[a].status = "running"
         /\ att[a].job \in Jobs /\ job[att[a].job].current = a
         /\ JobOf(a) = job[att[a].job] /\ JobOf(a) \in JobRow
<1>1. a \in Attempts /\ att[a].status = "running"
  BY DEF Running
<1>2. att[a] \in AttemptRow /\ att[a] # NoRow
  BY <1>1, NoRowIsNoRow DEF ServerOK, Types
<1>3. att[a].job \in Jobs /\ job[att[a].job].current = a
  BY <1>1, <1>2 DEF ServerOK, Linked, AttemptRow
<1> QED
  BY <1>1, <1>2, <1>3, NoneAssumption DEF JobOf, ServerOK, Types

\* The attempts of S are over, and their jobs are where a failure leaves them.
LEMMA SweepWrites ==
  ASSUME ServerOK, NEW S \in SUBSET Running
  PROVE  Writes(JobsWithout(S), receipt, RowsWithout(S))
<1> DEFINE jobs == JobsWithout(S)
           rows == RowsWithout(S)
<1>1. \A j \in Jobs : job[j].current \in S =>
         jobs[j] = [job[j] EXCEPT !.status = AfterFailure(job[j].current), !.current = None]
  <2>1. \A a \in S : JobOf(a) = job[att[a].job]
    BY RunningRow
  <2>2. \A j \in Jobs : job[j].current \in S => att[job[j].current].job = j
    <3>1. \A a \in S : a # None
      BY RunningRow
    <3> QED
      BY <3>1 DEF ServerOK, Linked
  <2> QED
    BY <2>1, <2>2 DEF JobsWithout, Left
<1>2. \A j \in Jobs : job[j].current \notin S => jobs[j] = job[j]
  BY DEF JobsWithout
<1>3. \A a \in S : rows[a] = [att[a] EXCEPT !.status = "over", !.live = FALSE]
  BY DEF RowsWithout, Over, Running
<1>4. \A a \in Attempts \ S : rows[a] = att[a]
  BY DEF RowsWithout
<1>5. \A a \in S : AfterFailure(a) \in {"reconciling", "cancelled", "pending"}
                   /\ (AfterFailure(a) # "reconciling" => Fresh(att[a]))
  BY RunningRow, UncertainIsNotFresh
<1>6. \A j \in Jobs : job[j] \in JobRow
  BY DEF ServerOK, Types
<1>7. jobs \in [Jobs -> JobRow]
  <2>1. \A j \in Jobs : jobs[j] \in JobRow
    <3>1. SUFFICES ASSUME NEW j \in Jobs, job[j].current \in S PROVE jobs[j] \in JobRow
      BY <1>2, <1>6
    <3>2. AfterFailure(job[j].current) \in JobStatus
      BY <1>5, <3>1 DEF JobStatus, Terminal
    <3>3. [job[j] EXCEPT !.status = AfterFailure(job[j].current), !.current = None] \in JobRow
      <4>1. job[j] \in JobRow
        BY <1>6
      <4> HIDE DEF jobs, rows
      <4> QED
        BY <3>2, <4>1, LeftType
    <3> QED
      BY <1>1, <3>1, <3>3
  <2> QED
    BY <2>1 DEF JobsWithout
<1>8. \A a \in S : rows[a] \in AttemptRow /\ rows[a].job = att[a].job /\ rows[a].kind = att[a].kind
                   /\ rows[a].phase = att[a].phase /\ rows[a].receipt = att[a].receipt
                   /\ rows[a].status = "over"
  <2>1. \A a \in S : att[a] \in AttemptRow
    BY RunningRow
  <2> QED
    BY <1>3, <2>1 DEF AttemptRow
<1>9. rows \in [Attempts -> AttemptRow \cup {NoRow}]
  <2>1. \A a \in Attempts : rows[a] \in AttemptRow \cup {NoRow}
    BY <1>4, <1>8 DEF ServerOK, Types
  <2> QED
    BY <2>1 DEF RowsWithout
<1>10. \A j \in Jobs : /\ job[j].current \in S =>
                             jobs[j].status = AfterFailure(job[j].current)
                             /\ jobs[j].current = None /\ jobs[j].token = job[j].token
                       /\ job[j].current \notin S => jobs[j] = job[j]
  BY <1>1, <1>2, <1>6 DEF JobRow
<1> HIDE DEF jobs, rows
<1>11. \A j \in Jobs : job[j].current \in Attempts \cup {None}
                       /\ job[j].token \in Attempts \cup {None}
  BY <1>6 DEF JobRow
<1>12. \A a \in S : a # None /\ a \in Attempts
  BY RunningRow
<1>13. \A a \in Attempts : rows[a].job = att[a].job /\ (rows[a] # NoRow <=> att[a] # NoRow)
                           /\ rows[a].kind = att[a].kind /\ rows[a].phase = att[a].phase
                           /\ rows[a].receipt = att[a].receipt
                           /\ (rows[a].status = "running" <=> att[a].status = "running" /\ a \notin S)
  <2>1. \A a \in S : att[a] # NoRow
    BY RunningRow
  <2> QED
    BY <1>4, <1>8, <2>1, NoRowIsNoRow
<1>14. Linked(jobs, rows)
  <2>1. \A j \in Jobs : jobs[j].current # None =>
           rows[jobs[j].current].status = "running" /\ rows[jobs[j].current].job = j
    BY <1>10, <1>11, <1>13 DEF ServerOK, Linked
  <2>2. \A a \in Attempts : rows[a].status = "running" => jobs[rows[a].job].current = a
    <3>1. SUFFICES ASSUME NEW a \in Attempts, rows[a].status = "running"
                   PROVE  jobs[rows[a].job].current = a
      OBVIOUS
    <3>2. a \in Running /\ a \notin S
      BY <1>13, <3>1 DEF Running
    <3>3. att[a].job \in Jobs /\ job[att[a].job].current = a
      BY <3>2, RunningRow
    <3> QED
      BY <1>10, <1>13, <3>2, <3>3
  <2>3. \A j \in Jobs : jobs[j].token # None =>
           rows[jobs[j].token] # NoRow /\ rows[jobs[j].token].job = j
    BY <1>10, <1>11, <1>13 DEF ServerOK, Linked
  <2>4. \A j \in Jobs : jobs[j].status \in {"running", "terminating"} <=> jobs[j].current # None
    BY <1>5, <1>10 DEF ServerOK, Linked
  <2>5. \A j \in Jobs : jobs[j].status = "paused" => jobs[j].token # None
    BY <1>5, <1>10 DEF ServerOK, Linked
  <2> QED
    BY <2>1, <2>2, <2>3, <2>4, <2>5 DEF Linked
<1>15. Carried(rows)
  BY <1>13 DEF Carried
<1>16. \A a \in Attempts : rows[a] # NoRow /\ rows[a].receipt => receipt[rows[a].job]
  BY <1>13 DEF ServerOK, EvidenceOK
<1>17. \A j \in Jobs : Clean(jobs, rows, j) => Clean(job, att, j)
  <2>1. SUFFICES ASSUME NEW j \in Jobs, Clean(jobs, rows, j) PROVE Clean(job, att, j)
    OBVIOUS
  <2>2. CASE job[j].current \in S
    BY <1>5, <1>10, <1>12, <2>1, <2>2 DEF Clean
  <2>3. CASE job[j].current \notin S
    BY <1>10, <1>11, <1>13, <2>1, <2>3 DEF Clean, Fresh, ServerOK, Linked
  <2> QED
    BY <2>2, <2>3
<1>18. \A j \in Jobs : /\ job[j].status \in Terminal => jobs[j].status = job[j].status
                       /\ jobs[j].status = "succeeded" => job[j].status = "succeeded"
  BY <1>5, <1>10, <1>12 DEF Terminal, ServerOK, Linked
<1>19. receipt \in [Jobs -> BOOLEAN]
  BY DEF ServerOK, Types
<1>20. \A j \in Jobs : receipt[j] \/ jobs[j].status = "succeeded" => copies[j] > 0
  BY <1>18 DEF ServerOK, EvidenceOK
<1> QED
  BY <1>7, <1>9, <1>14, <1>15, <1>16, <1>17, <1>18, <1>19, <1>20 DEF Writes, Terminal, jobs, rows

\* A new attempt of a job that waits for one.
LEMMA ClaimWrites ==
  ASSUME ServerOK, NEW jobs, NEW rows, Writes(jobs, receipt, rows),
         NEW a \in Attempts, att[a] = NoRow, rows[a] = NoRow, NEW j \in Jobs, Claimable(jobs[j])
  PROVE  Writes([jobs EXCEPT ![j].status = "running", ![j].current = a], receipt,
                [rows EXCEPT ![a] = NewClaim(j, jobs[j].status)])
<1> DEFINE jobs2 == [jobs EXCEPT ![j].status = "running", ![j].current = a]
           row == NewClaim(j, jobs[j].status)
           rows2 == [rows EXCEPT ![a] = row]
<1>1. /\ jobs \in [Jobs -> JobRow] /\ rows \in [Attempts -> AttemptRow \cup {NoRow}]
      /\ Linked(jobs, rows) /\ Carried(rows)
  BY DEF Writes
<1>2. jobs[j] \in JobRow /\ jobs[j].current = None /\ jobs[j].status \in {"reconciling", "pending"}
  BY <1>1 DEF Claimable
<1>3. \A i \in Jobs \ {j} : jobs2[i] = jobs[i]
  BY <1>1
<1>4. /\ jobs2[j] \in JobRow /\ jobs2[j].status = "running" /\ jobs2[j].current = a
      /\ jobs2[j].token = jobs[j].token
  <2>1. jobs2[j] = [jobs[j] EXCEPT !.status = "running", !.current = a]
    BY <1>1
  <2>2. "running" \in JobStatus /\ a \in Attempts \cup {None}
    BY DEF JobStatus
  <2> HIDE DEF jobs2
  <2> QED
    BY <1>2, <2>1, <2>2 DEF JobRow
<1>5. jobs2 \in [Jobs -> JobRow]
  BY <1>1, <1>3, <1>4
<1>6. /\ row \in AttemptRow /\ row # NoRow /\ row.job = j /\ row.status = "running"
      /\ row.receipt = FALSE /\ (jobs[j].status = "reconciling" => ~ Fresh(row))
  <2>1. row \in AttemptRow
    BY DEF NewClaim, AttemptRow
  <2>2. row.job = j /\ row.status = "running" /\ row.receipt = FALSE
    BY DEF NewClaim
  <2>3. jobs[j].status = "reconciling" => ~ Fresh(row)
    BY DEF NewClaim, Fresh
  <2> QED
    BY <2>1, <2>2, <2>3, NoRowIsNoRow
<1>7. rows2[a] = row /\ \A x \in Attempts \ {a} : rows2[x] = rows[x]
  BY <1>1
<1>8. rows2 \in [Attempts -> AttemptRow \cup {NoRow}]
  BY <1>1, <1>6
<1> HIDE DEF jobs2, rows2, row
<1>9. \A i \in Jobs : /\ jobs[i].current \in Attempts \cup {None} /\ jobs[i].current # a
                      /\ jobs[i].token \in Attempts \cup {None} /\ jobs[i].token # a
  BY <1>1, NoRowIsNoRow, NoneAssumption DEF JobRow, Linked
<1>10. Linked(jobs2, rows2)
  <2>1. \A i \in Jobs : jobs2[i].current # None =>
           rows2[jobs2[i].current].status = "running" /\ rows2[jobs2[i].current].job = i
    BY <1>1, <1>3, <1>4, <1>6, <1>7, <1>9 DEF Linked
  <2>2. \A x \in Attempts : rows2[x].status = "running" => jobs2[rows2[x].job].current = x
    <3>1. \A x \in Attempts \ {a} : rows[x].status = "running" =>
             jobs[rows[x].job].current = x /\ rows[x].job \in Jobs
      BY <1>1, NoRowIsNoRow DEF Linked, AttemptRow
    <3>2. \A x \in Attempts \ {a} : rows[x].status = "running" => rows[x].job # j
      BY <1>2, <3>1, NoneAssumption
    <3> QED
      BY <1>3, <1>4, <1>6, <1>7, <3>1, <3>2
  <2>3. \A i \in Jobs : jobs2[i].token # None =>
           rows2[jobs2[i].token] # NoRow /\ rows2[jobs2[i].token].job = i
    BY <1>1, <1>3, <1>4, <1>7, <1>9 DEF Linked
  <2>4. \A i \in Jobs : jobs2[i].status \in {"running", "terminating"} <=> jobs2[i].current # None
    BY <1>1, <1>3, <1>4, NoneAssumption DEF Linked
  <2>5. \A i \in Jobs : jobs2[i].status = "paused" => jobs2[i].token # None
    BY <1>1, <1>3, <1>4 DEF Linked
  <2> QED
    BY <2>1, <2>2, <2>3, <2>4, <2>5 DEF Linked
<1>11. Carried(rows2)
  BY <1>1, <1>7 DEF Carried
<1>12. \A x \in Attempts : rows2[x] # NoRow /\ rows2[x].receipt => receipt[rows2[x].job]
  BY <1>6, <1>7 DEF Writes
<1>13. \A i \in Jobs : Clean(jobs2, rows2, i) => Clean(job, att, i)
  <2>1. \A i \in Jobs : Clean(jobs, rows, i) => Clean(job, att, i)
    BY DEF Writes
  <2>2. \A i \in Jobs \ {j} : Clean(jobs2, rows2, i) => Clean(jobs, rows, i)
    BY <1>1, <1>3, <1>7, <1>9 DEF Clean, Linked
  <2>3. ASSUME jobs[j].status # "reconciling" PROVE Clean(jobs, rows, j)
    BY <1>2, <2>3 DEF Clean
  <2>4. Clean(jobs2, rows2, j) => Clean(jobs, rows, j)
    BY <1>4, <1>6, <1>7, <2>3 DEF Clean
  <2> QED
    BY <2>1, <2>2, <2>4
<1>14. \A i \in Jobs : /\ jobs[i].status \in Terminal => jobs2[i].status = jobs[i].status
                       /\ jobs2[i].status = "succeeded" => jobs[i].status = "succeeded"
  BY <1>2, <1>3, <1>4 DEF Terminal
<1>15. /\ \A i \in Jobs : job[i].status = "succeeded" => jobs2[i].status = "succeeded"
       /\ \A i \in Jobs : job[i].status = "cancelled" => jobs2[i].status \in Terminal
       /\ \A i \in Jobs : receipt[i] \/ jobs2[i].status = "succeeded" => copies[i] > 0
  BY <1>14 DEF Writes, Terminal
<1>16. receipt \in [Jobs -> BOOLEAN]
  BY DEF ServerOK, Types
<1> QED
  BY <1>5, <1>8, <1>10, <1>11, <1>12, <1>13, <1>15, <1>16 DEF Writes, jobs2, rows2, row

\* Rows that are as they were, but for the pauses that are archived.
Alike(rows, a) ==
    \A x \in Attempts \ {a} :
        /\ rows[x] # NoRow <=> att[x] # NoRow
        /\ rows[x].job = att[x].job /\ rows[x].kind = att[x].kind
        /\ rows[x].phase = att[x].phase /\ rows[x].status = att[x].status
        /\ rows[x].receipt = att[x].receipt

\* A running attempt ends, and its job goes where the outcome leaves it.
LEMMA EndWrites ==
  ASSUME ServerOK, NEW a \in Running, NEW got \in [Jobs -> BOOLEAN],
         NEW row \in JobRow, row.current = None,
         row.status \in {"pending", "cancelled", "reconciling", "paused", "succeeded"},
         row.status \in {"pending", "cancelled"} => Fresh(att[a]),
         row.status = "paused" => row.token = a,
         row.token \in {None, a, JobOf(a).token},
         NEW rows \in [Attempts -> AttemptRow \cup {NoRow}], Alike(rows, a),
         rows[a] # NoRow, rows[a].job = att[a].job, rows[a].kind = att[a].kind,
         rows[a].phase = att[a].phase \/ rows[a].phase # "claimed",
         rows[a].status # "running", att[a].receipt => rows[a].receipt,
         rows[a].receipt => got[att[a].job],
         \A j \in Jobs : receipt[j] => got[j], \A j \in Jobs : got[j] => copies[j] > 0,
         row.status = "succeeded" => copies[att[a].job] > 0
  PROVE  Writes([job EXCEPT ![att[a].job] = row], got, rows)
<1> DEFINE j == att[a].job
           jobs == [job EXCEPT ![j] = row]
<1>1. /\ a \in Attempts /\ att[a] \in AttemptRow /\ att[a] # NoRow /\ a # None
      /\ att[a].status = "running" /\ j \in Jobs /\ job[j].current = a /\ JobOf(a) = job[j]
  BY RunningRow
<1>2. job \in [Jobs -> JobRow]
  BY DEF ServerOK, Types
<1> HIDE DEF j
<1>3. jobs \in [Jobs -> JobRow] /\ jobs[j] = row /\ \A i \in Jobs \ {j} : jobs[i] = job[i]
  BY <1>1, <1>2
<1> HIDE DEF jobs
<1>4. \A i \in Jobs : /\ job[i].current \in Attempts \cup {None}
                      /\ job[i].token \in Attempts \cup {None}
  BY <1>2 DEF JobRow
<1>5. \A i \in Jobs \ {j} : job[i].current # a /\ job[i].token # a
  BY <1>1 DEF ServerOK, Linked, j
<1>6. row.token = None \/ (att[row.token] # NoRow /\ att[row.token].job = j /\ row.token \in Attempts)
  BY <1>1, <1>4 DEF ServerOK, Linked, j
<1>7. Linked(jobs, rows)
  <2>1. \A i \in Jobs : jobs[i].current # None =>
           rows[jobs[i].current].status = "running" /\ rows[jobs[i].current].job = i
    BY <1>3, <1>4, <1>5 DEF Alike, ServerOK, Linked
  <2>2. \A x \in Attempts : rows[x].status = "running" => jobs[rows[x].job].current = x
    <3>1. SUFFICES ASSUME NEW x \in Attempts \ {a}, rows[x].status = "running"
                   PROVE  jobs[rows[x].job].current = x
      OBVIOUS
    <3>2. x \in Running /\ rows[x].job = att[x].job
      BY <3>1 DEF Alike, Running
    <3>3. att[x].job \in Jobs /\ job[att[x].job].current = x
      BY <3>2, RunningRow
    <3> QED
      BY <1>1, <1>3, <3>1, <3>2, <3>3
  <2>3. \A i \in Jobs : jobs[i].token # None =>
           rows[jobs[i].token] # NoRow /\ rows[jobs[i].token].job = i
    <3>1. ASSUME row.token # None PROVE rows[row.token] # NoRow /\ rows[row.token].job = j
      BY <1>6, <3>1 DEF Alike, j
    <3>2. \A i \in Jobs \ {j} : job[i].token # None =>
             rows[job[i].token] # NoRow /\ rows[job[i].token].job = i
      BY <1>4, <1>5 DEF Alike, ServerOK, Linked
    <3> QED
      BY <1>3, <3>1, <3>2
  <2>4. \A i \in Jobs : jobs[i].status \in {"running", "terminating"} <=> jobs[i].current # None
    BY <1>3 DEF ServerOK, Linked
  <2>5. \A i \in Jobs : jobs[i].status = "paused" => jobs[i].token # None
    BY <1>1, <1>3 DEF ServerOK, Linked
  <2> QED
    BY <2>1, <2>2, <2>3, <2>4, <2>5 DEF Linked
<1>8. Carried(rows)
  <2>1. rows[a].phase = att[a].phase \/ rows[a].phase # "claimed"
    OBVIOUS
  <2> QED
    BY <2>1 DEF Carried, Alike
<1>9. \A x \in Attempts : rows[x] # NoRow /\ rows[x].receipt => got[rows[x].job]
  <2>1. ASSUME NEW x \in Attempts \ {a}, rows[x] # NoRow, rows[x].receipt PROVE got[rows[x].job]
    <3>1. att[x] # NoRow /\ att[x].receipt /\ rows[x].job = att[x].job
      BY <2>1 DEF Alike
    <3>2. att[x].job \in Jobs
      BY <3>1 DEF ServerOK, Types, AttemptRow
    <3> QED
      BY <3>1, <3>2 DEF ServerOK, EvidenceOK
  <2> QED
    BY <2>1
<1>10. \A i \in Jobs : Clean(jobs, rows, i) => Clean(job, att, i)
  <2>1. \A i \in Jobs \ {j} : Clean(jobs, rows, i) => Clean(job, att, i)
    BY <1>3, <1>4, <1>5 DEF Clean, Fresh, Alike, ServerOK, Linked
  <2>2. Fresh(att[a]) => Clean(job, att, j)
    BY <1>1 DEF Clean
  <2>3. ASSUME Clean(jobs, rows, j) PROVE Fresh(att[a])
    <3>1. row.status \in {"pending", "cancelled"} \/ Fresh(rows[a])
      BY <1>3, <2>3 DEF Clean
    <3> QED
      BY <3>1 DEF Fresh
  <2> QED
    BY <2>1, <2>2, <2>3
<1>11. /\ \A i \in Jobs : job[i].status = "succeeded" => jobs[i].status = "succeeded"
       /\ \A i \in Jobs : job[i].status = "cancelled" => jobs[i].status \in Terminal
  BY <1>1, <1>3 DEF ServerOK, Linked, Terminal
<1>12. \A i \in Jobs : got[i] \/ jobs[i].status = "succeeded" => copies[i] > 0
  BY <1>3 DEF ServerOK, EvidenceOK, j
<1> QED
  BY <1>3, <1>7, <1>8, <1>9, <1>10, <1>11, <1>12 DEF Writes, jobs, j

\* A receipt that comes late settles the job, and ends the attempt that runs.
LEMMA LateWrites ==
  ASSUME ServerOK, NEW a \in Attempts, att[a] # NoRow, a \notin Running,
         copies[att[a].job] > 0
  PROVE  Writes([job EXCEPT ![att[a].job] = Left(a, "succeeded")],
                [receipt EXCEPT ![att[a].job] = TRUE],
                [x \in Attempts |->
                    IF x = a THEN Over(Receipted(a), "over")
                    ELSE IF x = JobOf(a).current /\ x \in Running THEN Over(att[x], "over")
                    ELSE att[x]])
<1> DEFINE j == att[a].job
           row == Left(a, "succeeded")
           jobs == [job EXCEPT ![j] = row]
           got == [receipt EXCEPT ![j] = TRUE]
           b == job[j].current
           rows == [x \in Attempts |->
                      IF x = a THEN Over(Receipted(a), "over")
                      ELSE IF x = JobOf(a).current /\ x \in Running THEN Over(att[x], "over")
                      ELSE att[x]]
<1>1. /\ att \in [Attempts -> AttemptRow \cup {NoRow}] /\ att[a] \in AttemptRow /\ j \in Jobs
      /\ job \in [Jobs -> JobRow] /\ receipt \in [Jobs -> BOOLEAN] /\ JobOf(a) = job[j]
  BY DEF ServerOK, Types, AttemptRow, JobOf
<1>2. /\ row \in JobRow /\ row.status = "succeeded" /\ row.current = None
      /\ row.token = job[j].token
  <2>1. row = [job[j] EXCEPT !.status = "succeeded", !.current = None]
    BY <1>1 DEF Left
  <2>2. "succeeded" \in JobStatus /\ job[j] \in JobRow
    BY <1>1 DEF JobStatus, Terminal
  <2> HIDE DEF row
  <2> QED
    BY <2>1, <2>2 DEF JobRow
<1>3. /\ rows[a] \in AttemptRow /\ rows[a].job = j /\ rows[a].kind = att[a].kind
      /\ rows[a].phase = "receipt_observed" /\ rows[a].status = "over"
      /\ (att[a].receipt => rows[a].receipt)
  <2>1. Receipted(a) \in AttemptRow /\ Receipted(a).job = j /\ Receipted(a).kind = att[a].kind
        /\ Receipted(a).phase = "receipt_observed" /\ (att[a].receipt => Receipted(a).receipt)
    <3>1. receipt[j] \in BOOLEAN /\ att[a].receipt \in BOOLEAN
      BY <1>1 DEF AttemptRow
    <3>2. (att[a].receipt \/ ~ receipt[j]) \in BOOLEAN
      BY <3>1
    <3>3. "receipt_observed" \in {"claimed", "mutation_started", "observation_started",
                                  "receipt_observed"}
      OBVIOUS
    <3> QED
      BY <1>1, <3>1, <3>2, <3>3 DEF Receipted, AttemptRow
  <2>2. rows[a] = [Receipted(a) EXCEPT !.status = "over", !.live = FALSE]
    BY DEF Over
  <2> HIDE DEF rows
  <2> QED
    BY <2>1, <2>2 DEF AttemptRow
<1>4. \A x \in Attempts \ {a} : x = b /\ x \in Running =>
         /\ rows[x] \in AttemptRow /\ rows[x].job = att[x].job /\ rows[x].kind = att[x].kind
         /\ rows[x].phase = att[x].phase /\ rows[x].receipt = att[x].receipt
         /\ rows[x].status = "over" /\ att[x] # NoRow
  <2>1. SUFFICES ASSUME NEW x \in Attempts \ {a}, x = b, x \in Running
        PROVE /\ rows[x] \in AttemptRow /\ rows[x].job = att[x].job /\ rows[x].kind = att[x].kind
              /\ rows[x].phase = att[x].phase /\ rows[x].receipt = att[x].receipt
              /\ rows[x].status = "over" /\ att[x] # NoRow
    OBVIOUS
  <2>2. att[x] \in AttemptRow /\ att[x] # NoRow
    BY <2>1, RunningRow
  <2>3. rows[x] = [att[x] EXCEPT !.status = "over", !.live = FALSE]
    BY <1>1, <2>1 DEF Over
  <2> HIDE DEF rows
  <2> QED
    BY <2>2, <2>3 DEF AttemptRow
<1>5. \A x \in Attempts \ {a} : ~ (x = b /\ x \in Running) => rows[x] = att[x]
  BY <1>1
<1>6. rows \in [Attempts -> AttemptRow \cup {NoRow}]
  <2>1. \A x \in Attempts : rows[x] \in AttemptRow \cup {NoRow}
    BY <1>1, <1>3, <1>4, <1>5
  <2> QED
    BY <2>1
<1>7. jobs \in [Jobs -> JobRow] /\ jobs[j] = row /\ \A i \in Jobs \ {j} : jobs[i] = job[i]
  BY <1>1, <1>2
<1>8. got \in [Jobs -> BOOLEAN] /\ got[j] /\ \A i \in Jobs \ {j} : got[i] = receipt[i]
  BY <1>1
<1> HIDE DEF rows, jobs, got, row, b
<1>9. \A x \in Attempts \ {a} :
         /\ rows[x] # NoRow <=> att[x] # NoRow
         /\ rows[x].job = att[x].job /\ rows[x].kind = att[x].kind
         /\ rows[x].phase = att[x].phase /\ rows[x].receipt = att[x].receipt
         /\ rows[x].status = "running" <=> (att[x].status = "running" /\ x # b)
  BY <1>4, <1>5, NoRowIsNoRow DEF Running
<1>10. \A i \in Jobs : /\ job[i].current \in Attempts \cup {None}
                       /\ job[i].token \in Attempts \cup {None}
  BY <1>1 DEF JobRow
<1>11. \A i \in Jobs : job[i].current # a
  BY NoneAssumption DEF ServerOK, Linked, Running
<1>12. rows[a] # NoRow
  BY <1>3, NoRowIsNoRow
<1>13. Linked(jobs, rows)
  <2>1. \A i \in Jobs : jobs[i].current # None =>
           rows[jobs[i].current].status = "running" /\ rows[jobs[i].current].job = i
    <3>1. SUFFICES ASSUME NEW i \in Jobs \ {j}, job[i].current # None
                   PROVE  rows[job[i].current].status = "running" /\ rows[job[i].current].job = i
      BY <1>2, <1>7
    <3>2. att[job[i].current].status = "running" /\ att[job[i].current].job = i
      BY <3>1 DEF ServerOK, Linked
    <3>3. job[i].current # b
      BY <3>1, <3>2, <1>1, <1>10 DEF ServerOK, Linked, b
    <3> QED
      BY <1>9, <1>10, <1>11, <3>1, <3>2, <3>3
  <2>2. \A x \in Attempts : rows[x].status = "running" => jobs[rows[x].job].current = x
    <3>1. SUFFICES ASSUME NEW x \in Attempts \ {a}, rows[x].status = "running"
                   PROVE  jobs[rows[x].job].current = x
      BY <1>3
    <3>2. x \in Running /\ x # b /\ rows[x].job = att[x].job
      BY <1>9, <3>1 DEF Running
    <3>3. att[x].job \in Jobs /\ job[att[x].job].current = x
      BY <3>2, RunningRow
    <3> QED
      BY <1>7, <3>2, <3>3 DEF b
  <2>3. \A i \in Jobs : jobs[i].token # None =>
           rows[jobs[i].token] # NoRow /\ rows[jobs[i].token].job = i
    <3>1. \A i \in Jobs : jobs[i].token = job[i].token
      BY <1>2, <1>7
    <3> QED
      BY <1>3, <1>9, <1>10, <1>12, <3>1 DEF ServerOK, Linked, j
  <2>4. \A i \in Jobs : jobs[i].status \in {"running", "terminating"} <=> jobs[i].current # None
    BY <1>2, <1>7 DEF ServerOK, Linked
  <2>5. \A i \in Jobs : jobs[i].status = "paused" => jobs[i].token # None
    BY <1>2, <1>7 DEF ServerOK, Linked
  <2> QED
    BY <2>1, <2>2, <2>3, <2>4, <2>5 DEF Linked
<1>14. Carried(rows)
  BY <1>3, <1>9, <1>12 DEF Carried
<1>15. \A x \in Attempts : rows[x] # NoRow /\ rows[x].receipt => got[rows[x].job]
  <2>1. ASSUME NEW x \in Attempts \ {a}, rows[x] # NoRow, rows[x].receipt PROVE got[rows[x].job]
    <3>1. att[x] # NoRow /\ att[x].receipt /\ rows[x].job = att[x].job
      BY <1>9, <2>1
    <3>2. att[x].job \in Jobs /\ receipt[att[x].job]
      BY <3>1 DEF ServerOK, Types, AttemptRow, EvidenceOK
    <3> QED
      BY <1>8, <3>1, <3>2
  <2> QED
    BY <1>3, <1>8, <2>1
<1>16. \A i \in Jobs : Clean(jobs, rows, i) => Clean(job, att, i)
  <2>1. ~ Clean(jobs, rows, j)
    BY <1>2, <1>7 DEF Clean
  <2>2. ASSUME NEW i \in Jobs \ {j}, Clean(jobs, rows, i) PROVE Clean(job, att, i)
    <3>1. jobs[i] = job[i]
      BY <1>7
    <3>2. \A x \in Attempts : Fresh(rows[x]) => Fresh(att[x])
      BY <1>3, <1>9 DEF Fresh
    <3> QED
      BY <1>10, <2>2, <3>1, <3>2 DEF Clean, ServerOK, Linked
  <2> QED
    BY <2>1, <2>2
<1>17. /\ \A i \in Jobs : job[i].status = "succeeded" => jobs[i].status = "succeeded"
       /\ \A i \in Jobs : job[i].status = "cancelled" => jobs[i].status \in Terminal
  BY <1>2, <1>7 DEF Terminal
<1>18. \A i \in Jobs : got[i] \/ jobs[i].status = "succeeded" => copies[i] > 0
  BY <1>7, <1>8 DEF ServerOK, EvidenceOK, j
<1>19. \A i \in Jobs : receipt[i] => got[i]
  BY <1>8
<1> QED
  BY <1>6, <1>7, <1>8, <1>13, <1>14, <1>15, <1>16, <1>17, <1>18, <1>19
  DEF Writes, jobs, rows, got, row, j

\* A starting backend ends every running attempt.
LEMMA RecoverWrites ==
  ASSUME ServerOK
  PROVE  Writes([j \in Jobs |->
                   IF \/ job[j].current \in Running
                      \/ ~ job[j].deleted /\ job[j].status \in {"running", "terminating"}
                   THEN [job[j] EXCEPT !.status = "reconciling", !.current = None]
                   ELSE job[j]],
                receipt,
                [a \in Attempts |-> IF a \in Running THEN Over(att[a], "over") ELSE att[a]])
<1> DEFINE jobs == [j \in Jobs |->
                      IF \/ job[j].current \in Running
                         \/ ~ job[j].deleted /\ job[j].status \in {"running", "terminating"}
                      THEN [job[j] EXCEPT !.status = "reconciling", !.current = None]
                      ELSE job[j]]
           rows == [a \in Attempts |-> IF a \in Running THEN Over(att[a], "over") ELSE att[a]]
<1>1. /\ \A j \in Jobs : job[j] \in JobRow
      /\ att \in [Attempts -> AttemptRow \cup {NoRow}] /\ receipt \in [Jobs -> BOOLEAN]
  BY DEF ServerOK, Types
<1>2. \A j \in Jobs : /\ job[j].current \in Attempts \cup {None}
                      /\ job[j].token \in Attempts \cup {None}
  BY <1>1 DEF JobRow
<1>3. \A j \in Jobs : job[j].current # None <=> job[j].current \in Running
  BY <1>2, NoneAssumption DEF ServerOK, Linked, Running
<1>4. \A j \in Jobs : job[j].current # None =>
         jobs[j] = [job[j] EXCEPT !.status = "reconciling", !.current = None]
  BY <1>3
<1>5. \A j \in Jobs : job[j].current = None => jobs[j] = job[j]
  BY <1>3 DEF ServerOK, Linked
<1>6. \A a \in Running : rows[a] = [att[a] EXCEPT !.status = "over", !.live = FALSE]
  BY DEF Over, Running
<1>7. \A a \in Attempts \ Running : rows[a] = att[a]
  OBVIOUS
<1>8. \A j \in Jobs : job[j].current # None =>
         /\ jobs[j] \in JobRow /\ jobs[j].status = "reconciling" /\ jobs[j].current = None
         /\ jobs[j].token = job[j].token
  <2>1. SUFFICES ASSUME NEW j \in Jobs, job[j].current # None
        PROVE /\ jobs[j] \in JobRow /\ jobs[j].status = "reconciling" /\ jobs[j].current = None
              /\ jobs[j].token = job[j].token
    OBVIOUS
  <2>2. job[j] \in JobRow /\ "reconciling" \in JobStatus
    BY <1>1 DEF JobStatus
  <2>3. jobs[j] = [job[j] EXCEPT !.status = "reconciling", !.current = None]
    BY <1>4, <2>1
  <2> HIDE DEF jobs
  <2> QED
    BY <2>2, <2>3 DEF JobRow
<1>9. \A a \in Running : /\ rows[a] \in AttemptRow /\ rows[a].status = "over"
                         /\ rows[a].job = att[a].job /\ rows[a].kind = att[a].kind
                         /\ rows[a].phase = att[a].phase /\ rows[a].receipt = att[a].receipt
                         /\ att[a] # NoRow
  <2>1. SUFFICES ASSUME NEW a \in Running
        PROVE  /\ rows[a] \in AttemptRow /\ rows[a].status = "over"
               /\ rows[a].job = att[a].job /\ rows[a].kind = att[a].kind
               /\ rows[a].phase = att[a].phase /\ rows[a].receipt = att[a].receipt
               /\ att[a] # NoRow
    OBVIOUS
  <2>2. att[a] \in AttemptRow /\ att[a] # NoRow
    BY RunningRow
  <2>3. rows[a] = [att[a] EXCEPT !.status = "over", !.live = FALSE]
    BY <1>6
  <2> HIDE DEF rows
  <2> QED
    BY <2>2, <2>3 DEF AttemptRow
<1>10. rows \in [Attempts -> AttemptRow \cup {NoRow}]
  <2>1. \A a \in Attempts : rows[a] \in AttemptRow \cup {NoRow}
    BY <1>1, <1>7, <1>9
  <2> QED
    BY <2>1
<1>11. jobs \in [Jobs -> JobRow]
  <2>1. \A j \in Jobs : jobs[j] \in JobRow
    BY <1>1, <1>5, <1>8
  <2> QED
    BY <2>1
<1> HIDE DEF jobs, rows
<1>12. \A a \in Attempts : /\ rows[a] # NoRow <=> att[a] # NoRow
                           /\ rows[a].job = att[a].job /\ rows[a].kind = att[a].kind
                           /\ rows[a].phase = att[a].phase /\ rows[a].receipt = att[a].receipt
                           /\ rows[a].status # "running"
  BY <1>7, <1>9, NoRowIsNoRow DEF Running
<1>13. \A j \in Jobs : jobs[j].current = None /\ jobs[j].token = job[j].token
  BY <1>5, <1>8
<1>14. Linked(jobs, rows)
  BY <1>2, <1>5, <1>8, <1>12, <1>13 DEF ServerOK, Linked
<1>15. Carried(rows)
  BY <1>12 DEF Carried
<1>16. \A a \in Attempts : rows[a] # NoRow /\ rows[a].receipt => receipt[rows[a].job]
  BY <1>12 DEF ServerOK, EvidenceOK
<1>17. \A j \in Jobs : Clean(jobs, rows, j) => Clean(job, att, j)
  BY <1>2, <1>5, <1>8, <1>12, <1>13 DEF Clean, Fresh, ServerOK, Linked
<1>18. \A j \in Jobs : jobs[j].status = job[j].status
                       \/ (jobs[j].status = "reconciling" /\ job[j].status \in {"running", "terminating"})
  BY <1>5, <1>8 DEF ServerOK, Linked
<1>19. /\ \A j \in Jobs : job[j].status = "succeeded" => jobs[j].status = "succeeded"
       /\ \A j \in Jobs : job[j].status = "cancelled" => jobs[j].status \in Terminal
       /\ \A j \in Jobs : receipt[j] \/ jobs[j].status = "succeeded" => copies[j] > 0
  BY <1>18 DEF ServerOK, EvidenceOK, Terminal
<1> QED
  BY <1>1, <1>10, <1>11, <1>14, <1>15, <1>16, <1>17, <1>19 DEF Writes, jobs, rows

\* An operator's change of one job that has no attempt, or only its abort flag.
LEMMA OperatorWrites ==
  ASSUME ServerOK, NEW j \in Jobs, NEW row \in JobRow, row.current = job[j].current,
         row.token \in {None, job[j].token},
         row.status \in {"running", "terminating"} <=> job[j].status \in {"running", "terminating"},
         row.status = "paused" => row.token # None /\ job[j].status = "paused",
         job[j].status \in Terminal => row.status = job[j].status,
         row.status = "succeeded" => job[j].status = "succeeded",
         row.status \in {"scheduled", "pending", "cancelled"} => Clean(job, att, j),
         NEW rows \in [Attempts -> AttemptRow \cup {NoRow}],
         \A x \in Attempts :
            /\ rows[x] # NoRow <=> att[x] # NoRow
            /\ rows[x].job = att[x].job /\ rows[x].kind = att[x].kind
            /\ rows[x].phase = att[x].phase /\ rows[x].status = att[x].status
            /\ rows[x].receipt = att[x].receipt
  PROVE  Writes([job EXCEPT ![j] = row], receipt, rows)
<1> DEFINE jobs == [job EXCEPT ![j] = row]
<1>1. job \in [Jobs -> JobRow] /\ receipt \in [Jobs -> BOOLEAN]
  BY DEF ServerOK, Types
<1>2. jobs \in [Jobs -> JobRow] /\ jobs[j] = row /\ \A i \in Jobs \ {j} : jobs[i] = job[i]
  BY <1>1
<1> HIDE DEF jobs
<1>3. \A i \in Jobs : /\ job[i].current \in Attempts \cup {None}
                      /\ job[i].token \in Attempts \cup {None}
  BY <1>1 DEF JobRow
<1>4. \A i \in Jobs : jobs[i].current = job[i].current /\ jobs[i].token \in {None, job[i].token}
  BY <1>2
<1>5. Linked(jobs, rows)
  <2>1. \A i \in Jobs : jobs[i].current # None =>
           rows[jobs[i].current].status = "running" /\ rows[jobs[i].current].job = i
    BY <1>3, <1>4 DEF ServerOK, Linked
  <2>2. \A x \in Attempts : rows[x].status = "running" => jobs[rows[x].job].current = x
    <3>1. SUFFICES ASSUME NEW x \in Attempts, rows[x].status = "running"
                   PROVE  jobs[rows[x].job].current = x
      OBVIOUS
    <3>2. x \in Running /\ rows[x].job = att[x].job
      BY <3>1 DEF Running
    <3> QED
      BY <1>4, <3>2, RunningRow
  <2>3. \A i \in Jobs : jobs[i].token # None =>
           rows[jobs[i].token] # NoRow /\ rows[jobs[i].token].job = i
    BY <1>3, <1>4 DEF ServerOK, Linked
  <2>4. \A i \in Jobs : jobs[i].status \in {"running", "terminating"} <=> jobs[i].current # None
    BY <1>2 DEF ServerOK, Linked
  <2>5. \A i \in Jobs : jobs[i].status = "paused" => jobs[i].token # None
    BY <1>2 DEF ServerOK, Linked
  <2> QED
    BY <2>1, <2>2, <2>3, <2>4, <2>5 DEF Linked
<1>6. Carried(rows)
  BY DEF Carried
<1>7. \A a \in Attempts : rows[a] # NoRow /\ rows[a].receipt => receipt[rows[a].job]
  BY DEF ServerOK, EvidenceOK
<1>8. \A i \in Jobs : Clean(jobs, rows, i) => Clean(job, att, i)
  <2>1. \A i \in Jobs \ {j} : Clean(jobs, rows, i) => Clean(job, att, i)
    BY <1>2, <1>3 DEF Clean, Fresh, ServerOK, Linked
  <2>2. Clean(jobs, rows, j) => Clean(job, att, j)
    <3>1. SUFFICES ASSUME Clean(jobs, rows, j) PROVE Clean(job, att, j)
      OBVIOUS
    <3>2. CASE row.current # None /\ Fresh(rows[row.current])
      BY <1>3, <3>2 DEF Clean, Fresh
    <3>3. CASE row.status = "paused" /\ Fresh(rows[row.token])
      BY <1>3, <3>3 DEF Clean, Fresh
    <3> QED
      BY <1>2, <3>1, <3>2, <3>3 DEF Clean
  <2> QED
    BY <2>1, <2>2
<1>9. /\ \A i \in Jobs : job[i].status = "succeeded" => jobs[i].status = "succeeded"
      /\ \A i \in Jobs : job[i].status = "cancelled" => jobs[i].status \in Terminal
      /\ \A i \in Jobs : receipt[i] \/ jobs[i].status = "succeeded" => copies[i] > 0
  BY <1>2 DEF ServerOK, EvidenceOK, Terminal
<1> QED
  BY <1>1, <1>2, <1>5, <1>6, <1>7, <1>8, <1>9 DEF Writes, jobs

-----------------------------------------------------------------------------
(* What an action does to the server's rows *)

\* A transaction of the server, which leaves the phases of the attempts alone
\* that the extensions outside C have in their journals.
Served(C) ==
    \E rows : /\ Writes(job', receipt', rows)
              /\ Remains(job', receipt', rows)
              /\ \A d \in Clients \ C : held[d] # None =>
                    rows[held[d]].phase = att[held[d]].phase

\* The extensions outside C go on as they were.
Apart(C) == \A d \in Clients \ C : pc'[d] = pc[d] /\ held'[d] = held[d] /\ saved'[d] = saved[d]

LEMMA InvServer ==
  ASSUME IInv
  PROVE  ServerOK
BY DEF IInv, ServerOK

LEMMA KeepServes ==
  ASSUME NEW rows, NEW C, Writes(job', receipt', rows), Keep(rows),
         held' \in [Clients -> Attempts \cup {None}],
         \A d \in Clients \ C : held[d] # None => rows[held[d]].phase = att[held[d]].phase
  PROVE  Served(C)
BY KeepRemains DEF Served

\* No attempt is forgotten in the same transaction.
LEMMA WritesServes ==
  ASSUME NEW C, Writes(job', receipt', att'),
         \A d \in Clients \ C : held[d] # None => att'[held[d]].phase = att[held[d]].phase
  PROVE  Served(C)
BY DEF Served, Writes, Remains

LEMMA IdleServes ==
  ASSUME IInv, NEW C, UNCHANGED server
  PROVE  Served(C)
<1>1. Writes(job', receipt', att')
  BY InvServer, NothingWrites DEF server
<1> QED
  BY <1>1, WritesServes DEF server

\* A transaction that only forgets what nothing refers to any more.
LEMMA ForgetServes ==
  ASSUME IInv, NEW C, UNCHANGED <<job, receipt>>, Keep(att),
         held' \in [Clients -> Attempts \cup {None}]
  PROVE  Served(C)
<1>1. Writes(job', receipt', att)
  BY InvServer, NothingWrites
<1> QED
  BY <1>1, KeepServes

LEMMA Holds ==
  ASSUME IInv, NEW c \in Clients
  PROVE  /\ pc[c] # "idle" \/ saved[c] # "none" => held[c] # None
         /\ held[c] # None =>
              /\ held[c] \in Attempts /\ held[c][1] = c
              /\ att[held[c]] \in AttemptRow /\ att[held[c]] # NoRow
              /\ att[held[c]].job \in Jobs
              /\ JobOf(held[c]) = job[att[held[c]].job] /\ JobOf(held[c]) \in JobRow
              /\ \A d \in Clients \ {c} : held[d] # None => held[d] # held[c]
<1>1. \A d \in Clients : held[d] # None => held[d][1] = d /\ att[held[d]] # NoRow
  BY DEF IInv, ClientOK
<1>2. ClientOK(c)
  BY DEF IInv
<1>3. held[c] # None => held[c] \in Attempts /\ att[held[c]] \in AttemptRow
  BY <1>1 DEF IInv, Types
<1>4. held[c] # None => att[held[c]].job \in Jobs
  BY <1>3 DEF AttemptRow
<1> QED
  BY <1>1, <1>2, <1>3, <1>4 DEF ClientOK, JobOf, IInv, Types

LEMMA FencedRuns ==
  ASSUME NEW c, NEW a \in Attempts, Fenced(c, a)
  PROVE  a \in Running /\ a[1] = c /\ att[a].live
BY DEF Fenced, Owned, Running

LEMMA Moved ==
  ASSUME IInv, NEW c \in Clients, NEW place \in Places, Goto(c, place)
  PROVE  /\ pc' \in [Clients -> Places] /\ pc'[c] = place
         /\ \A d \in Clients \ {c} : pc'[d] = pc[d]
BY DEF Goto, IInv, Types

LEMMA Noted ==
  ASSUME IInv, NEW c \in Clients, NEW what \in Saved, Save(c, what)
  PROVE  /\ saved' \in [Clients -> Saved] /\ saved'[c] = what
         /\ \A d \in Clients \ {c} : saved'[d] = saved[d]
BY DEF Save, IInv, Types

\* After an answer that ends the entry, or none.
LEMMA Answered ==
  ASSUME IInv, NEW c \in Clients, Ack(c) \/ Throw(c)
  PROVE  /\ pc' \in [Clients -> Places] /\ held' \in [Clients -> Attempts \cup {None}]
         /\ saved' \in [Clients -> Saved] /\ Apart({c})
         /\ pc'[c] = "idle"
         /\ \/ held'[c] = None /\ saved'[c] = "none"
            \/ held'[c] = held[c] /\ saved'[c] = saved[c]
<1>1. "idle" \in Places /\ "none" \in Saved
  BY DEF Places, Saved
<1>2. CASE Ack(c)
  BY <1>1, <1>2 DEF Ack, Goto, Save, Apart, IInv, Types
<1>3. CASE Throw(c)
  BY <1>1, <1>3 DEF Throw, Goto, Apart, IInv, Types
<1> QED
  BY <1>2, <1>3

-----------------------------------------------------------------------------
(* The transactions of an extension's calls *)

LEMMA EnterServes ==
  ASSUME IInv, NEW c \in Clients, held[c] # None, NEW phase,
         phase \in {"mutation_started", "observation_started"},
         MayEnter(c, held[c], phase), Enter(held[c], phase),
         held' \in [Clients -> Attempts \cup {None}]
  PROVE  Served({c})
<1> DEFINE a == held[c]
           row == [att[a] EXCEPT !.phase = phase]
           rows == [att EXCEPT ![a] = row]
<1>1. /\ a \in Attempts /\ att[a] \in AttemptRow /\ a \in Running /\ ServerOK
      /\ \A d \in Clients \ {c} : held[d] # None => held[d] # a
  BY Holds, FencedRuns, InvServer DEF MayEnter
<1>2. /\ row \in AttemptRow /\ row.job = att[a].job /\ row.kind = att[a].kind
      /\ row.status = att[a].status /\ row.phase = phase /\ row.receipt = att[a].receipt
  BY <1>1 DEF AttemptRow
<1>3. Writes(job', receipt', rows)
  <2>1. job' = job /\ receipt' = receipt
    BY DEF Enter
  <2>2. \A j \in Jobs : receipt[j] => copies[j] > 0
    BY DEF IInv, EvidenceOK
  <2>3. /\ att[a].status = "running" /\ att[a] # NoRow /\ receipt \in [Jobs -> BOOLEAN]
        /\ (att[a].receipt => receipt[att[a].job])
    BY <1>1, RunningRow DEF IInv, Types, EvidenceOK, Running
  <2> HIDE DEF row, a
  <2> QED
    BY <1>1, <1>2, <2>1, <2>2, <2>3, PhaseWrites
<1>4. Keep(rows)
  BY DEF Enter
<1>5. \A d \in Clients \ {c} : held[d] # None => rows[held[d]].phase = att[held[d]].phase
  BY <1>1 DEF IInv, Types
<1> HIDE DEF rows, a
<1> QED
  BY <1>3, <1>4, <1>5, KeepServes

\* A row that is over, with its receipt or without.
LEMMA OverRow ==
  ASSUME NEW row \in AttemptRow, NEW status \in {"running", "paused", "cancelled",
                                                 "indeterminate", "over"}
  PROVE  /\ Over(row, status) \in AttemptRow
         /\ Over(row, status).job = row.job /\ Over(row, status).kind = row.kind
         /\ Over(row, status).phase = row.phase /\ Over(row, status).status = status
         /\ Over(row, status).receipt = row.receipt
BY DEF Over, AttemptRow

LEMMA ReceiptedRow ==
  ASSUME IInv, NEW a \in Attempts, att[a] \in AttemptRow
  PROVE  /\ Receipted(a) \in AttemptRow
         /\ Receipted(a).job = att[a].job /\ Receipted(a).kind = att[a].kind
         /\ Receipted(a).phase = "receipt_observed" /\ Receipted(a).status = att[a].status
         /\ (att[a].receipt => Receipted(a).receipt)
<1>1. att[a].job \in Jobs /\ att[a].receipt \in BOOLEAN
  BY DEF AttemptRow
<1>2. receipt[att[a].job] \in BOOLEAN
  BY <1>1 DEF IInv, Types
<1>3. (att[a].receipt \/ ~ receipt[att[a].job]) \in BOOLEAN
  BY <1>1, <1>2
<1> QED
  BY <1>1, <1>3 DEF Receipted, AttemptRow

\* Archiving a pause changes nothing else.
LEMMA ArchivedRows ==
  ASSUME NEW rows \in [Attempts -> AttemptRow \cup {NoRow}], NEW a
  PROVE  /\ Archive(rows, a) \in [Attempts -> AttemptRow \cup {NoRow}]
         /\ \A x \in Attempts :
               /\ Archive(rows, a)[x] # NoRow <=> rows[x] # NoRow
               /\ Archive(rows, a)[x].job = rows[x].job
               /\ Archive(rows, a)[x].kind = rows[x].kind
               /\ Archive(rows, a)[x].phase = rows[x].phase
               /\ Archive(rows, a)[x].status = rows[x].status
               /\ Archive(rows, a)[x].receipt = rows[x].receipt
<1> DEFINE new == Archive(rows, a)
<1>1. \A x \in Attempts :
         \/ new[x] = rows[x]
         \/ rows[x] # NoRow /\ new[x] = [rows[x] EXCEPT !.archived = (x = a)]
  BY DEF Archive
<1>2. \A x \in Attempts : (x = a) \in BOOLEAN
  OBVIOUS
<1>3. ASSUME NEW x \in Attempts
      PROVE  /\ new[x] \in AttemptRow \cup {NoRow}
             /\ new[x] # NoRow <=> rows[x] # NoRow
             /\ new[x].job = rows[x].job /\ new[x].kind = rows[x].kind
             /\ new[x].phase = rows[x].phase /\ new[x].status = rows[x].status
             /\ new[x].receipt = rows[x].receipt
  <2>1. CASE new[x] = rows[x]
    BY <2>1
  <2>2. CASE rows[x] # NoRow /\ new[x] = [rows[x] EXCEPT !.archived = (x = a)]
    <3>1. rows[x] \in AttemptRow
      BY <2>2
    <3>2. new[x] \in AttemptRow
      BY <1>2, <2>2, <3>1 DEF AttemptRow
    <3> QED
      BY <2>2, <3>1, <3>2, NoRowIsNoRow DEF AttemptRow
  <2> QED
    BY <1>1, <2>1, <2>2
<1>4. new \in [Attempts -> AttemptRow \cup {NoRow}]
  BY <1>3 DEF Archive
<1> QED
  BY <1>3, <1>4

\* The running attempt of an extension ends.
LEMMA EndServes ==
  ASSUME IInv, NEW c \in Clients, held[c] # None, held[c] \in Running,
         held' \in [Clients -> Attempts \cup {None}],
         NEW row \in JobRow, row.current = None,
         row.status \in {"pending", "cancelled", "reconciling", "paused", "succeeded"},
         row.status \in {"pending", "cancelled"} => Fresh(att[held[c]]),
         row.status = "paused" => row.token = held[c],
         row.token \in {None, held[c], JobOf(held[c]).token},
         row.status = "succeeded" => copies[att[held[c]].job] > 0,
         NEW ended \in AttemptRow, ended.job = att[held[c]].job, ended.kind = att[held[c]].kind,
         ended.phase = att[held[c]].phase \/ ended.phase # "claimed",
         ended.status # "running", att[held[c]].receipt => ended.receipt,
         NEW rows, \/ rows = [att EXCEPT ![held[c]] = ended]
                   \/ rows = Archive([att EXCEPT ![held[c]] = ended], held[c]),
         Settle(held[c], row, rows),
         receipt' \in [Jobs -> BOOLEAN], ended.receipt => receipt'[att[held[c]].job],
         \A j \in Jobs : receipt[j] => receipt'[j], \A j \in Jobs : receipt'[j] => copies[j] > 0
  PROVE  Served({c})
<1> DEFINE a == held[c]
           plain == [att EXCEPT ![a] = ended]
<1>1. /\ a \in Attempts /\ att[a] \in AttemptRow /\ ServerOK
      /\ \A d \in Clients \ {c} : held[d] # None => held[d] # a /\ held[d] \in Attempts
  BY Holds, InvServer DEF IInv, Types
<1>2. att \in [Attempts -> AttemptRow \cup {NoRow}]
  BY DEF IInv, Types
<1>3. plain \in [Attempts -> AttemptRow \cup {NoRow}] /\ plain[a] = ended
      /\ \A x \in Attempts \ {a} : plain[x] = att[x]
  BY <1>1, <1>2
<1>4. rows = plain \/ rows = Archive(plain, a)
  OBVIOUS
<1> HIDE DEF plain, a
<1>5. /\ rows \in [Attempts -> AttemptRow \cup {NoRow}]
      /\ \A x \in Attempts :
               /\ rows[x] # NoRow <=> plain[x] # NoRow
               /\ rows[x].job = plain[x].job /\ rows[x].kind = plain[x].kind
               /\ rows[x].phase = plain[x].phase /\ rows[x].status = plain[x].status
               /\ rows[x].receipt = plain[x].receipt
  BY <1>3, <1>4, ArchivedRows
<1>6. ended # NoRow
  BY NoRowIsNoRow
<1>7. Alike(rows, a)
  BY <1>3, <1>5 DEF Alike
<1>8. /\ rows[a] # NoRow /\ rows[a].job = att[a].job /\ rows[a].kind = att[a].kind
      /\ rows[a].phase = att[a].phase \/ rows[a].phase # "claimed"
      /\ rows[a].status # "running" /\ (att[a].receipt => rows[a].receipt)
      /\ (rows[a].receipt => receipt'[att[a].job])
  BY <1>1, <1>3, <1>5, <1>6 DEF a
<1>9. Writes([job EXCEPT ![att[a].job] = row], receipt', rows)
  BY <1>1, <1>5, <1>7, <1>8, EndWrites DEF a
<1>10. job' = [job EXCEPT ![att[a].job] = row] /\ Keep(rows)
  BY DEF Settle, a
<1>11. \A d \in Clients \ {c} : held[d] # None => rows[held[d]].phase = att[held[d]].phase
  BY <1>1, <1>3, <1>5
<1> QED
  BY <1>9, <1>10, <1>11, KeepServes

\* What the job becomes when its attempt ends.
LEMMA LeftRow ==
  ASSUME IInv, NEW c \in Clients, held[c] # None, NEW status \in JobStatus
  PROVE  /\ Left(held[c], status) \in JobRow
         /\ Left(held[c], status).status = status
         /\ Left(held[c], status).current = None
         /\ Left(held[c], status).token = JobOf(held[c]).token
<1>1. JobOf(held[c]) \in JobRow
  BY Holds
<1> QED
  BY <1>1 DEF Left, JobRow

LEMMA TokenRow ==
  ASSUME NEW row \in JobRow, NEW token \in Attempts \cup {None}
  PROVE  /\ [row EXCEPT !.token = token] \in JobRow
         /\ [row EXCEPT !.token = token].status = row.status
         /\ [row EXCEPT !.token = token].current = row.current
         /\ [row EXCEPT !.token = token].token = token
BY DEF JobRow

\* The evidence that is needed when no receipt is added.
LEMMA SameReceipts ==
  ASSUME IInv, NEW c \in Clients, held[c] # None, UNCHANGED receipt
  PROVE  /\ receipt' \in [Jobs -> BOOLEAN]
         /\ att[held[c]].receipt => receipt'[att[held[c]].job]
         /\ \A j \in Jobs : receipt[j] => receipt'[j]
         /\ \A j \in Jobs : receipt'[j] => copies[j] > 0
BY Holds DEF IInv, Types, EvidenceOK

\* ... and when one is.
LEMMA MoreReceipts ==
  ASSUME IInv, NEW c \in Clients, held[c] # None, RecordReceipt(held[c]),
         copies[att[held[c]].job] > 0
  PROVE  /\ receipt' \in [Jobs -> BOOLEAN]
         /\ receipt'[att[held[c]].job]
         /\ \A j \in Jobs : receipt[j] => receipt'[j]
         /\ \A j \in Jobs : receipt'[j] => copies[j] > 0
<1>1. receipt' = [receipt EXCEPT ![att[held[c]].job] = TRUE] /\ att[held[c]].job \in Jobs
  BY Holds DEF RecordReceipt
<1>2. receipt \in [Jobs -> BOOLEAN] /\ \A j \in Jobs : receipt[j] => copies[j] > 0
  BY DEF IInv, Types, EvidenceOK
<1> QED
  BY <1>1, <1>2

LEMMA FinishServes ==
  ASSUME IInv, NEW c \in Clients, held[c] # None, NEW outcome, MayFinish(c, held[c], outcome),
         Finish(held[c], outcome), held' \in [Clients -> Attempts \cup {None}]
  PROVE  Served({c})
<1> DEFINE a == held[c]
           to == IF outcome = "succeeded" THEN "succeeded" ELSE AfterFailure(a)
           row == Left(a, to)
           ended == Over(att[a], IF outcome = "cancelled" THEN "cancelled" ELSE "over")
<1>1. a \in Attempts /\ a \in Running /\ att[a] \in AttemptRow
  BY Holds, FencedRuns DEF MayFinish
<1>2. /\ to \in JobStatus /\ to \in {"pending", "cancelled", "reconciling", "paused", "succeeded"}
      /\ to # "paused" /\ (to \in {"pending", "cancelled"} => Fresh(att[a]))
  BY <1>1, UncertainIsNotFresh DEF JobStatus, Terminal
<1>3. /\ row \in JobRow /\ row.status = to /\ row.current = None /\ row.token = JobOf(a).token
  <2> HIDE DEF to
  <2> QED
    BY <1>2, LeftRow
<1>4. /\ ended \in AttemptRow /\ ended.job = att[a].job /\ ended.kind = att[a].kind
      /\ ended.phase = att[a].phase /\ ended.status # "running"
      /\ ended.receipt = att[a].receipt
  BY <1>1, OverRow
<1>5. Settle(a, row, [att EXCEPT ![a] = ended]) /\ UNCHANGED receipt
  BY DEF Finish
<1>6. to = "succeeded" => copies[att[a].job] > 0
  <2>1. to = "succeeded" => att[a].receipt
    BY <1>1, UncertainIsNotFresh DEF MayFinish
  <2> QED
    BY <1>1, <2>1, Holds DEF IInv, EvidenceOK
<1>7. /\ receipt' \in [Jobs -> BOOLEAN] /\ (att[a].receipt => receipt'[att[a].job])
      /\ \A j \in Jobs : receipt[j] => receipt'[j]
      /\ \A j \in Jobs : receipt'[j] => copies[j] > 0
  BY <1>5, SameReceipts
<1> HIDE DEF to, row, ended
<1> QED
  BY <1>1, <1>2, <1>3, <1>4, <1>5, <1>6, <1>7, EndServes

LEMMA ReconcileServes ==
  ASSUME IInv, NEW c \in Clients, held[c] # None, NEW outcome, MayReconcile(c, held[c]),
         outcome = "matched" => copies[att[held[c]].job] > 0,
         Reconcile(held[c], outcome), held' \in [Clients -> Attempts \cup {None}]
  PROVE  Served({c})
<1> DEFINE a == held[c]
<1>1. /\ a \in Attempts /\ a \in Running /\ att[a] \in AttemptRow /\ JobOf(a) \in JobRow
      /\ JobOf(a).token \in Attempts \cup {None} /\ None \in Attempts \cup {None}
  <2>1. \A r \in JobRow : r.token \in Attempts \cup {None}
    BY DEF JobRow
  <2> QED
    BY <2>1, Holds, FencedRuns DEF MayReconcile
<1>2. \A status \in {"succeeded", "reconciling", "paused"} :
         /\ status \in JobStatus
         /\ Left(a, status) \in JobRow /\ Left(a, status).status = status
         /\ Left(a, status).current = None /\ Left(a, status).token = JobOf(a).token
  <2>1. {"succeeded", "reconciling", "paused"} \subseteq JobStatus
    BY DEF JobStatus, Terminal
  <2> QED
    BY <2>1, LeftRow
<1>3. CASE outcome = "matched"
  <2> DEFINE row == Left(a, "succeeded")
             ended == Over(Receipted(a), "over")
  <2>1. RecordReceipt(a) /\ Settle(a, row, [att EXCEPT ![a] = ended])
    BY <1>3 DEF Reconcile
  <2>2. /\ ended \in AttemptRow /\ ended.job = att[a].job /\ ended.kind = att[a].kind
        /\ ended.phase # "claimed" /\ ended.status # "running"
        /\ (att[a].receipt => ended.receipt)
    BY <1>1, OverRow, ReceiptedRow
  <2>3. copies[att[a].job] > 0
    BY <1>3
  <2>4. /\ receipt' \in [Jobs -> BOOLEAN] /\ receipt'[att[a].job]
        /\ \A j \in Jobs : receipt[j] => receipt'[j]
        /\ \A j \in Jobs : receipt'[j] => copies[j] > 0
    BY <2>1, <2>3, MoreReceipts
  <2>5. row \in JobRow /\ row.status = "succeeded" /\ row.current = None
        /\ row.token = JobOf(a).token
    BY <1>2
  <2> HIDE DEF row, ended
  <2> QED
    BY <1>1, <2>1, <2>2, <2>3, <2>4, <2>5, EndServes
<1>4. CASE outcome = "indeterminate"
  <2> DEFINE row == Left(a, "reconciling")
             ended == Over(att[a], "indeterminate")
  <2>1. UNCHANGED receipt /\ Settle(a, row, [att EXCEPT ![a] = ended])
    BY <1>4 DEF Reconcile
  <2>2. /\ ended \in AttemptRow /\ ended.job = att[a].job /\ ended.kind = att[a].kind
        /\ ended.phase = att[a].phase /\ ended.status # "running"
        /\ ended.receipt = att[a].receipt
    BY <1>1, OverRow
  <2>3. /\ receipt' \in [Jobs -> BOOLEAN] /\ (att[a].receipt => receipt'[att[a].job])
        /\ \A j \in Jobs : receipt[j] => receipt'[j]
        /\ \A j \in Jobs : receipt'[j] => copies[j] > 0
    BY <2>1, SameReceipts
  <2>4. row \in JobRow /\ row.status = "reconciling" /\ row.current = None
        /\ row.token = JobOf(a).token
    BY <1>2
  <2> HIDE DEF row, ended
  <2> QED
    BY <1>1, <2>1, <2>2, <2>3, <2>4, EndServes
<1>5. CASE outcome = "risk_pause" /\ JobOf(a).abort
  <2> DEFINE left == Left(a, "reconciling")
             row == [left EXCEPT !.token = None]
             ended == Over(att[a], "indeterminate")
  <2>1. UNCHANGED receipt /\ Settle(a, row, Archive([att EXCEPT ![a] = ended], a))
    BY <1>5 DEF Reconcile
  <2>2. /\ ended \in AttemptRow /\ ended.job = att[a].job /\ ended.kind = att[a].kind
        /\ ended.phase = att[a].phase /\ ended.status # "running"
        /\ ended.receipt = att[a].receipt
    BY <1>1, OverRow
  <2>3. /\ receipt' \in [Jobs -> BOOLEAN] /\ (att[a].receipt => receipt'[att[a].job])
        /\ \A j \in Jobs : receipt[j] => receipt'[j]
        /\ \A j \in Jobs : receipt'[j] => copies[j] > 0
    BY <2>1, SameReceipts
  <2>4. left \in JobRow /\ left.status = "reconciling" /\ left.current = None
    BY <1>2
  <2>5. row \in JobRow /\ row.status = "reconciling" /\ row.current = None /\ row.token = None
    <3> HIDE DEF left
    <3> QED
      BY <1>1, <2>4, TokenRow
  <2> HIDE DEF row, ended
  <2> QED
    BY <1>1, <2>1, <2>2, <2>3, <2>5, EndServes
<1>6. CASE outcome = "risk_pause" /\ ~ JobOf(a).abort
  <2> DEFINE left == Left(a, "paused")
             row == [left EXCEPT !.token = a]
             ended == Over(att[a], "paused")
  <2>1. UNCHANGED receipt /\ Settle(a, row, [att EXCEPT ![a] = ended])
    BY <1>6 DEF Reconcile
  <2>2. /\ ended \in AttemptRow /\ ended.job = att[a].job /\ ended.kind = att[a].kind
        /\ ended.phase = att[a].phase /\ ended.status # "running"
        /\ ended.receipt = att[a].receipt
    BY <1>1, OverRow
  <2>3. /\ receipt' \in [Jobs -> BOOLEAN] /\ (att[a].receipt => receipt'[att[a].job])
        /\ \A j \in Jobs : receipt[j] => receipt'[j]
        /\ \A j \in Jobs : receipt'[j] => copies[j] > 0
    BY <2>1, SameReceipts
  <2>4. left \in JobRow /\ left.status = "paused" /\ left.current = None
    BY <1>2
  <2>5. row \in JobRow /\ row.status = "paused" /\ row.current = None /\ row.token = a
    <3> HIDE DEF left
    <3> QED
      BY <1>1, <2>4, TokenRow
  <2> HIDE DEF row, ended
  <2> QED
    BY <1>1, <2>1, <2>2, <2>3, <2>5, EndServes
<1> QED
  BY <1>3, <1>4, <1>5, <1>6 DEF Reconcile

LEMMA PauseServes ==
  ASSUME IInv, NEW c \in Clients, held[c] # None, Pause(c, held[c]), UNCHANGED receipt,
         held' \in [Clients -> Attempts \cup {None}]
  PROVE  Served({c})
<1> DEFINE a == held[c]
<1>1. /\ a \in Attempts /\ att[a] \in AttemptRow /\ JobOf(a) \in JobRow
      /\ a \in Attempts \cup {None} /\ None \in Attempts \cup {None}
  BY Holds
<1>2. /\ receipt' \in [Jobs -> BOOLEAN] /\ (att[a].receipt => receipt'[att[a].job])
      /\ \A j \in Jobs : receipt[j] => receipt'[j]
      /\ \A j \in Jobs : receipt'[j] => copies[j] > 0
  BY SameReceipts
<1>3. CASE UNCHANGED job /\ Keep(att)
  BY <1>3, ForgetServes
<1>4. CASE Fenced(c, a) /\ JobOf(a).abort
           /\ Settle(a, [Left(a, AfterFailure(a)) EXCEPT !.token = None],
                     Archive([att EXCEPT ![a] = Over(@, IF Uncertain(a) THEN "indeterminate"
                                                        ELSE "cancelled")], a))
  <2> DEFINE to == AfterFailure(a)
             left == Left(a, to)
             row == [left EXCEPT !.token = None]
             how == IF Uncertain(a) THEN "indeterminate" ELSE "cancelled"
             ended == Over(att[a], how)
  <2>1. Settle(a, row, Archive([att EXCEPT ![a] = ended], a)) /\ a \in Running
    BY <1>1, <1>4, FencedRuns
  <2>2. /\ ended \in AttemptRow /\ ended.job = att[a].job /\ ended.kind = att[a].kind
        /\ ended.phase = att[a].phase /\ ended.status # "running"
        /\ ended.receipt = att[a].receipt
    BY <1>1, OverRow
  <2>3. /\ to \in JobStatus /\ to \in {"pending", "cancelled", "reconciling"}
        /\ (to \in {"pending", "cancelled"} => Fresh(att[a]))
    BY <1>1, UncertainIsNotFresh DEF JobStatus, Terminal
  <2>4. left \in JobRow /\ left.status = to /\ left.current = None
    <3> HIDE DEF to
    <3> QED
      BY <2>3, LeftRow
  <2>5. row \in JobRow /\ row.status = to /\ row.current = None /\ row.token = None
    <3> HIDE DEF left
    <3> QED
      BY <1>1, <2>4, TokenRow
  <2> HIDE DEF row, ended, to, how
  <2> QED
    BY <1>1, <1>2, <2>1, <2>2, <2>3, <2>5, EndServes
<1>5. CASE Fenced(c, a) /\ ~ JobOf(a).abort
           /\ Settle(a, [Left(a, "paused") EXCEPT !.token = a],
                     [att EXCEPT ![a] = Over(@, "paused")])
  <2> DEFINE left == Left(a, "paused")
             row == [left EXCEPT !.token = a]
             ended == Over(att[a], "paused")
  <2>1. Settle(a, row, [att EXCEPT ![a] = ended]) /\ a \in Running
    BY <1>1, <1>5, FencedRuns
  <2>2. /\ ended \in AttemptRow /\ ended.job = att[a].job /\ ended.kind = att[a].kind
        /\ ended.phase = att[a].phase /\ ended.status # "running"
        /\ ended.receipt = att[a].receipt
    BY <1>1, OverRow
  <2>3. left \in JobRow /\ left.status = "paused" /\ left.current = None
    <3>1. "paused" \in JobStatus
      BY DEF JobStatus
    <3> QED
      BY <3>1, LeftRow
  <2>4. row \in JobRow /\ row.status = "paused" /\ row.current = None /\ row.token = a
    <3> HIDE DEF left
    <3> QED
      BY <1>1, <2>3, TokenRow
  <2> HIDE DEF row, ended
  <2> QED
    BY <1>1, <1>2, <2>1, <2>2, <2>4, EndServes
<1> QED
  BY <1>3, <1>4, <1>5 DEF Pause

LEMMA RecordServes ==
  ASSUME IInv, NEW c \in Clients, held[c] # None, MayRecord(c, held[c]),
         copies[att[held[c]].job] > 0,
         Record(c, held[c]), held' \in [Clients -> Attempts \cup {None}]
  PROVE  Served({c})
<1> DEFINE a == held[c]
<1>1. /\ a \in Attempts /\ att[a] \in AttemptRow /\ att[a] # NoRow /\ ServerOK
      /\ \A d \in Clients \ {c} : held[d] # None => held[d] # a /\ held[d] \in Attempts
  BY Holds, InvServer DEF IInv, Types
<1>2. RecordReceipt(a)
  BY DEF Record
<1>3. /\ receipt' \in [Jobs -> BOOLEAN] /\ receipt'[att[a].job]
      /\ \A j \in Jobs : receipt[j] => receipt'[j]
      /\ \A j \in Jobs : receipt'[j] => copies[j] > 0
  BY <1>2, MoreReceipts
<1>4. CASE Fenced(c, a)
  <2> DEFINE row == Receipted(a)
             rows == [att EXCEPT ![a] = row]
  <2>1. UNCHANGED job /\ Keep(rows) /\ a \in Running /\ att[a].status = "running"
    BY <1>1, <1>4, FencedRuns DEF Record, Running
  <2>2. /\ row \in AttemptRow /\ row.job = att[a].job /\ row.kind = att[a].kind
        /\ row.phase # "claimed" /\ row.status = "running"
        /\ (att[a].receipt => row.receipt)
    BY <1>1, <2>1, ReceiptedRow
  <2>3. \A d \in Clients \ {c} : held[d] # None => rows[held[d]].phase = att[held[d]].phase
    BY <1>1 DEF IInv, Types
  <2>4. Writes(job', receipt', rows)
    <3> HIDE DEF row
    <3> QED
      BY <1>1, <1>3, <2>1, <2>2, PhaseWrites
  <2> HIDE DEF rows
  <2> QED
    BY <2>1, <2>3, <2>4, KeepServes
<1>5. CASE ~ Fenced(c, a)
  <2> DEFINE rows == [x \in Attempts |->
                        IF x = a THEN Over(Receipted(a), "over")
                        ELSE IF x = JobOf(a).current /\ x \in Running THEN Over(att[x], "over")
                        ELSE att[x]]
  <2>1. Settle(a, Left(a, "succeeded"), rows)
    BY <1>5 DEF Record
  <2>2. CASE a \in Running
    <3> DEFINE row == Left(a, "succeeded")
               ended == Over(Receipted(a), "over")
    <3>1. /\ ended \in AttemptRow /\ ended.job = att[a].job /\ ended.kind = att[a].kind
          /\ ended.phase # "claimed" /\ ended.status # "running"
          /\ (att[a].receipt => ended.receipt)
      BY <1>1, OverRow, ReceiptedRow
    <3>2. row \in JobRow /\ row.status = "succeeded" /\ row.current = None
          /\ row.token = JobOf(a).token
      <4>1. "succeeded" \in JobStatus
        BY DEF JobStatus, Terminal
      <4> QED
        BY <4>1, LeftRow
    <3>3. JobOf(a).current = a
      BY <1>1, <2>2, RunningRow
    <3>4. rows = [att EXCEPT ![a] = ended]
      BY <3>3 DEF IInv, Types
    <3>5. Settle(a, row, [att EXCEPT ![a] = ended])
      BY <2>1, <3>4
    <3> HIDE DEF row, ended, rows
    <3> QED
      BY <1>1, <1>3, <2>2, <3>1, <3>2, <3>5, EndServes
  <2>3. CASE a \notin Running
    <3>1. Writes([job EXCEPT ![att[a].job] = Left(a, "succeeded")],
                 [receipt EXCEPT ![att[a].job] = TRUE], rows)
      BY <1>1, <2>3, LateWrites
    <3>2. Writes(job', receipt', rows) /\ Keep(rows)
      BY <1>2, <2>1, <3>1 DEF Settle, RecordReceipt
    <3>3. \A d \in Clients \ {c} : held[d] # None => rows[held[d]].phase = att[held[d]].phase
      <4>1. \A x \in Attempts : x \in Running => Over(att[x], "over").phase = att[x].phase
        BY <1>1, RunningRow, OverRow
      <4> QED
        BY <1>1, <4>1
    <3> HIDE DEF rows
    <3> QED
      BY <3>2, <3>3, KeepServes
  <2> QED
    BY <2>2, <2>3
<1> QED
  BY <1>4, <1>5

-----------------------------------------------------------------------------
(* The transactions of a poll, of the operator and of the backend's restart *)

LEMMA SweptRows ==
  ASSUME IInv, NEW S \in SUBSET Lapsed
  PROVE  /\ S \subseteq Running /\ Writes(JobsWithout(S), receipt, RowsWithout(S))
         /\ \A x \in Attempts : /\ RowsWithout(S)[x].phase = att[x].phase
                                /\ att[x] = NoRow => RowsWithout(S)[x] = NoRow
                                /\ x \notin S => RowsWithout(S)[x] = att[x]
<1>1. S \subseteq Running /\ ServerOK
  BY InvServer DEF Lapsed
<1>2. Writes(JobsWithout(S), receipt, RowsWithout(S))
  BY <1>1, SweepWrites
<1>3. \A x \in Running : Over(att[x], "over").phase = att[x].phase /\ att[x] # NoRow
  BY <1>1, RunningRow, OverRow
<1>4. \A x \in Attempts : RowsWithout(S)[x] = IF x \in S THEN Over(att[x], "over") ELSE att[x]
  BY DEF RowsWithout
<1> QED
  BY <1>1, <1>2, <1>3, <1>4

LEMMA Received ==
  ASSUME IInv, NEW c \in Clients, NEW a \in Attempts, Receive(c, a)
  PROVE  /\ pc' \in [Clients -> Places] /\ held' \in [Clients -> Attempts \cup {None}]
         /\ saved' \in [Clients -> Saved] /\ Apart({c})
         /\ pc'[c] = "claimed" /\ held'[c] = a /\ saved'[c] = saved[c]
<1>1. "claimed" \in Places
  BY DEF Places
<1> QED
  BY <1>1 DEF Receive, Goto, Apart, IInv, Types

LEMMA Stays ==
  ASSUME IInv, UNCHANGED local, NEW C
  PROVE  /\ pc' \in [Clients -> Places] /\ held' \in [Clients -> Attempts \cup {None}]
         /\ saved' \in [Clients -> Saved] /\ Apart(C)
BY DEF local, Apart, IInv, Types

LEMMA PollServes ==
  ASSUME IInv, NEW c \in Clients, Poll(c)
  PROVE  Served({c})
<1>1. PICK S \in SUBSET Lapsed :
         \/ PollExpires(c, S)
         \/ \E a \in Attempts : PollReturns(c, S, a)
         \/ \E j \in Jobs, n \in Slots, arrived \in BOOLEAN : PollClaims(c, S, j, n, arrived)
  BY DEF Poll
<1>2. /\ S \subseteq Running /\ Writes(JobsWithout(S), receipt, RowsWithout(S))
      /\ \A x \in Attempts : /\ RowsWithout(S)[x].phase = att[x].phase
                             /\ att[x] = NoRow => RowsWithout(S)[x] = NoRow
  BY SweptRows
<1>3. \A d \in Clients : held[d] # None => held[d] \in Attempts /\ att[held[d]] # NoRow
  BY Holds
<1>4. CASE PollExpires(c, S)
  <2>1. /\ Writes(job', receipt', RowsWithout(S)) /\ Keep(RowsWithout(S))
        /\ held' \in [Clients -> Attempts \cup {None}]
    BY <1>2, <1>4, Stays DEF PollExpires
  <2> QED
    BY <1>2, <1>3, <2>1, KeepServes
<1>5. ASSUME NEW a \in Attempts, PollReturns(c, S, a)
      PROVE  Served({c})
  <2>1. /\ Writes(job', receipt', RowsWithout(S)) /\ Keep(RowsWithout(S))
        /\ held' \in [Clients -> Attempts \cup {None}]
    BY <1>2, <1>5, Received DEF PollReturns
  <2> QED
    BY <1>2, <1>3, <2>1, KeepServes
<1>6. ASSUME NEW j \in Jobs, NEW n \in Slots, NEW arrived \in BOOLEAN,
             PollClaims(c, S, j, n, arrived)
      PROVE  Served({c})
  <2> DEFINE a == <<c, n>>
             rows == [RowsWithout(S) EXCEPT ![a] = NewClaim(j, JobsWithout(S)[j].status)]
  <2>1. /\ att[a] = NoRow /\ Claimable(JobsWithout(S)[j]) /\ UNCHANGED receipt
        /\ job' = [JobsWithout(S) EXCEPT ![j].status = "running", ![j].current = a]
        /\ Keep(rows)
        /\ Receive(c, a) \/ UNCHANGED local
    BY <1>6 DEF PollClaims
  <2>2. a \in Attempts
    BY DEF Attempts
  <2>3. RowsWithout(S)[a] = NoRow /\ ServerOK
    BY <1>2, <2>1, <2>2, InvServer
  <2>4. Writes(job', receipt', rows)
    <3> DEFINE jobs == JobsWithout(S)
               swept == RowsWithout(S)
    <3>1. /\ Writes(jobs, receipt, swept) /\ Claimable(jobs[j]) /\ swept[a] = NoRow
          /\ a \in Attempts /\ att[a] = NoRow /\ ServerOK
      BY <1>2, <2>1, <2>2, <2>3
    <3>2. /\ job' = [jobs EXCEPT ![j].status = "running", ![j].current = a]
          /\ rows = [swept EXCEPT ![a] = NewClaim(j, jobs[j].status)] /\ receipt' = receipt
      BY <2>1
    <3> HIDE DEF jobs, swept, a, rows
    <3>3. Writes([jobs EXCEPT ![j].status = "running", ![j].current = a], receipt,
                 [swept EXCEPT ![a] = NewClaim(j, jobs[j].status)])
      BY <3>1, ClaimWrites
    <3> QED
      BY <3>2, <3>3
  <2>5. held' \in [Clients -> Attempts \cup {None}]
    BY <2>1, <2>2, Received, Stays
  <2>6. \A d \in Clients \ {c} : held[d] # None => rows[held[d]].phase = att[held[d]].phase
    <3>1. \A d \in Clients : held[d] # None => held[d] # a
      BY <1>3, <2>1
    <3>2. \A x \in Attempts \ {a} : rows[x] = RowsWithout(S)[x]
      BY DEF RowsWithout
    <3> QED
      BY <1>2, <1>3, <3>1, <3>2
  <2> HIDE DEF rows
  <2> QED
    BY <2>4, <2>5, <2>6, <2>1, KeepServes
<1> QED
  BY <1>1, <1>4, <1>5, <1>6

LEMMA LapseServes ==
  ASSUME IInv, NEW a \in Attempts, Lapse(a)
  PROVE  Served({})
<1> DEFINE j == att[a].job
<1>1. /\ a \in Running /\ att' = [att EXCEPT ![a].live = FALSE]
      /\ job' = job /\ receipt' = receipt
  BY DEF Lapse
<1>2. /\ ServerOK /\ att[a] \in AttemptRow /\ j \in Jobs /\ job[j] \in JobRow
      /\ job[j].current = a /\ a # None
  BY <1>1, InvServer, RunningRow DEF JobOf
<1>3. att'[a] = [att[a] EXCEPT !.live = FALSE] /\ \A x \in Attempts \ {a} : att'[x] = att[x]
  BY <1>1 DEF IInv, Types
<1>4. /\ att'[a] \in AttemptRow /\ att'[a].job = att[a].job /\ att'[a].kind = att[a].kind
      /\ att'[a].phase = att[a].phase /\ att'[a].status = att[a].status
      /\ att'[a].receipt = att[a].receipt
  BY <1>2, <1>3 DEF AttemptRow
<1>5. att' \in [Attempts -> AttemptRow \cup {NoRow}]
  <2>1. \A x \in Attempts : att'[x] \in AttemptRow \cup {NoRow}
    BY <1>3, <1>4 DEF IInv, Types
  <2> QED
    BY <1>1, <2>1 DEF IInv, Types
<1>6. \A x \in Attempts :
         /\ att'[x] # NoRow <=> att[x] # NoRow
         /\ att'[x].job = att[x].job /\ att'[x].kind = att[x].kind
         /\ att'[x].phase = att[x].phase /\ att'[x].status = att[x].status
         /\ att'[x].receipt = att[x].receipt
  BY <1>2, <1>3, <1>4, NoRowIsNoRow
<1>7. Writes([job EXCEPT ![j] = job[j]], receipt, att')
  <2>1. job[j].status \in {"running", "terminating"}
    BY <1>2 DEF ServerOK, Linked
  <2> HIDE DEF j
  <2> QED
    BY <1>2, <1>5, <1>6, <2>1, OperatorWrites
<1>8. Writes(job', receipt', att')
  BY <1>1, <1>7 DEF IInv, Types
<1> QED
  BY <1>6, <1>8, WritesServes, Holds

LEMMA RecoverServes ==
  ASSUME IInv, RecoverInterrupted
  PROVE  Served({})
<1> DEFINE rows == [a \in Attempts |-> IF a \in Running THEN Over(att[a], "over") ELSE att[a]]
<1>1. Writes(job', receipt', rows) /\ Keep(rows) /\ held' \in [Clients -> Attempts \cup {None}]
  BY InvServer, RecoverWrites, Stays DEF RecoverInterrupted
<1>2. \A x \in Attempts : rows[x].phase = att[x].phase
  BY RunningRow, OverRow, InvServer
<1> HIDE DEF rows
<1> QED
  BY <1>1, <1>2, KeepServes, Holds

\* A paused job's token names an attempt of its own.
LEMMA PausedToken ==
  ASSUME IInv, NEW j \in Jobs, job[j].status = "paused"
  PROVE  /\ job[j].token \in Attempts /\ att[job[j].token] \in AttemptRow
         /\ ~ Uncertain(job[j].token) => Fresh(att[job[j].token])
<1>1. job[j].token \in Attempts
  <2>1. job[j].token \in Attempts \cup {None} /\ job[j].token # None
    BY DEF IInv, Types, Linked, JobRow
  <2> QED
    BY <2>1
<1>2. att[job[j].token] \in AttemptRow
  BY <1>1 DEF IInv, Types, Linked
<1> QED
  BY <1>1, <1>2, UncertainIsNotFresh

LEMMA TerminatedRow ==
  ASSUME IInv, NEW j \in Jobs, job[j].status \notin Terminal
  PROVE  LET row == Terminated(job[j])
         IN /\ row \in JobRow /\ row.current = job[j].current
            /\ row.token \in {None, job[j].token}
            /\ row.status \in {"running", "terminating"} <=>
                 job[j].status \in {"running", "terminating"}
            /\ row.status \in {"cancelled", "reconciling", "terminating"}
            /\ row.status = "cancelled" => Clean(job, att, j)
<1> DEFINE r == job[j]
           row == Terminated(r)
<1>1. /\ r \in JobRow /\ r.token \in Attempts \cup {None}
      /\ r.status \in {"scheduled", "pending", "running", "terminating", "paused", "reconciling"}
  BY DEF IInv, Types, JobRow, JobStatus
<1>2. \A status \in {"cancelled", "reconciling", "terminating"} :
         /\ [r EXCEPT !.status = status, !.abort = TRUE] \in JobRow
         /\ [r EXCEPT !.status = status, !.abort = TRUE].status = status
         /\ [r EXCEPT !.status = status, !.abort = TRUE].current = r.current
         /\ [r EXCEPT !.status = status, !.abort = TRUE].token = r.token
         /\ [r EXCEPT !.status = status, !.abort = TRUE, !.token = None] \in JobRow
         /\ [r EXCEPT !.status = status, !.abort = TRUE, !.token = None].status = status
         /\ [r EXCEPT !.status = status, !.abort = TRUE, !.token = None].current = r.current
         /\ [r EXCEPT !.status = status, !.abort = TRUE, !.token = None].token = None
  <2>1. TRUE \in BOOLEAN /\ None \in Attempts \cup {None}
        /\ {"cancelled", "reconciling", "terminating"} \subseteq JobStatus
    BY DEF JobStatus, Terminal
  <2> HIDE DEF r
  <2> QED
    BY <1>1, <2>1 DEF JobRow
<1>3. [r EXCEPT !.abort = TRUE] \in JobRow /\ [r EXCEPT !.abort = TRUE].status = r.status
      /\ [r EXCEPT !.abort = TRUE].current = r.current
      /\ [r EXCEPT !.abort = TRUE].token = r.token
  <2> HIDE DEF r
  <2> QED
    BY <1>1 DEF JobRow
<1>4. CASE r.status \in {"scheduled", "pending"}
  <2>1. row = [r EXCEPT !.status = "cancelled", !.abort = TRUE]
    BY <1>4 DEF Terminated
  <2> QED
    BY <1>2, <1>4, <2>1 DEF Clean
<1>5. CASE r.status = "reconciling"
  <2>1. row = [r EXCEPT !.abort = TRUE]
    BY <1>5 DEF Terminated
  <2> QED
    BY <1>3, <1>5, <2>1
<1>6. CASE r.status = "paused"
  <2>1. row = [r EXCEPT !.status = IF Uncertain(r.token) THEN "reconciling" ELSE "cancelled",
                        !.abort = TRUE, !.token = None]
    BY <1>6 DEF Terminated
  <2>2. ~ Uncertain(r.token) => Clean(job, att, j)
    BY <1>6, PausedToken DEF Clean
  <2> QED
    BY <1>2, <1>6, <2>1, <2>2
<1>7. CASE r.status \in {"running", "terminating"}
  <2>1. row = [r EXCEPT !.status = "terminating", !.abort = TRUE]
    BY <1>7 DEF Terminated
  <2> QED
    BY <1>2, <1>7, <2>1
<1> QED
  BY <1>1, <1>4, <1>5, <1>6, <1>7

LEMMA OperatorServes ==
  ASSUME IInv, NEW j \in Jobs, Operator(j)
  PROVE  Served({})
<1>1. /\ ServerOK /\ job[j] \in JobRow /\ job \in [Jobs -> JobRow]
      /\ att \in [Attempts -> AttemptRow \cup {NoRow}]
      /\ UNCHANGED <<receipt, local>> /\ held' \in [Clients -> Attempts \cup {None}]
  BY InvServer, Stays DEF IInv, Types, Operator, Release, Terminate, Delete, Resume
<1>2. \A d \in Clients : held[d] # None => held[d] \in Attempts
  BY Holds
<1>3. CASE Release(j)
  <2> DEFINE row == [job[j] EXCEPT !.status = "pending", !.abort = FALSE]
  <2>1. job' = [job EXCEPT ![j] = row] /\ att' = att /\ job[j].status = "scheduled"
    BY <1>1, <1>3 DEF Release
  <2>2. row \in JobRow /\ row.status = "pending" /\ row.current = job[j].current
        /\ row.token = job[j].token
    <3>1. "pending" \in JobStatus
      BY DEF JobStatus
    <3> QED
      BY <1>1, <3>1 DEF JobRow
  <2>3. Clean(job, att, j)
    BY <2>1 DEF Clean
  <2> HIDE DEF row
  <2>4. Writes([job EXCEPT ![j] = row], receipt, att)
    BY <1>1, <2>1, <2>2, <2>3, OperatorWrites DEF Terminal
  <2> QED
    BY <1>1, <2>1, <2>4, WritesServes
<1>4. CASE Terminate(j)
  <2> DEFINE row == Terminated(job[j])
             rows == IF job[j].status = "paused" THEN Archive(att, job[j].token) ELSE att
  <2>1. /\ job' = [job EXCEPT ![j] = row] /\ Keep(rows) /\ job[j].status \notin Terminal
    BY <1>4 DEF Terminate
  <2>2. /\ row \in JobRow /\ row.current = job[j].current
        /\ row.token \in {None, job[j].token}
        /\ row.status \in {"running", "terminating"} <=>
             job[j].status \in {"running", "terminating"}
        /\ row.status \in {"cancelled", "reconciling", "terminating"}
        /\ row.status = "cancelled" => Clean(job, att, j)
    BY <2>1, TerminatedRow
  <2>3. /\ rows \in [Attempts -> AttemptRow \cup {NoRow}]
        /\ \A x \in Attempts :
              /\ rows[x] # NoRow <=> att[x] # NoRow
              /\ rows[x].job = att[x].job /\ rows[x].kind = att[x].kind
              /\ rows[x].phase = att[x].phase /\ rows[x].status = att[x].status
              /\ rows[x].receipt = att[x].receipt
    BY <1>1, ArchivedRows
  <2> HIDE DEF row, rows
  <2>4. Writes([job EXCEPT ![j] = row], receipt, rows)
    BY <1>1, <2>1, <2>2, <2>3, OperatorWrites
  <2>5. Writes(job', receipt', rows)
    BY <1>1, <2>1, <2>4
  <2> QED
    BY <1>1, <1>2, <2>1, <2>3, <2>5, KeepServes
<1>5. CASE Delete(j)
  <2> DEFINE row == [job[j] EXCEPT !.deleted = TRUE]
  <2>1. job' = [job EXCEPT ![j] = row] /\ att' = att /\ job[j].status \in Terminal
    BY <1>1, <1>5 DEF Delete
  <2>2. row \in JobRow /\ row.status = job[j].status /\ row.current = job[j].current
        /\ row.token = job[j].token
    BY <1>1 DEF JobRow
  <2>3. row.status = "cancelled" => Clean(job, att, j)
    BY <2>2 DEF Clean
  <2> HIDE DEF row
  <2>4. Writes([job EXCEPT ![j] = row], receipt, att)
    BY <1>1, <2>1, <2>2, <2>3, OperatorWrites DEF Terminal
  <2> QED
    BY <1>1, <2>1, <2>4, WritesServes
<1>6. CASE Resume(j)
  <2> DEFINE to == IF Uncertain(job[j].token) THEN "reconciling" ELSE "pending"
             row == [job[j] EXCEPT !.status = to, !.token = None]
  <2>1. job' = [job EXCEPT ![j] = row] /\ Keep(att) /\ job[j].status = "paused"
    BY <1>1, <1>6 DEF Resume
  <2>2. to \in {"reconciling", "pending"} /\ (to = "pending" => Clean(job, att, j))
    BY <2>1, PausedToken DEF Clean
  <2>3. row \in JobRow /\ row.status = to /\ row.current = job[j].current /\ row.token = None
    <3>1. to \in JobStatus /\ None \in Attempts \cup {None}
      BY DEF JobStatus
    <3> HIDE DEF to
    <3> QED
      BY <1>1, <3>1 DEF JobRow
  <2> HIDE DEF row, to
  <2>4. Writes([job EXCEPT ![j] = row], receipt, att)
    BY <1>1, <2>1, <2>2, <2>3, OperatorWrites DEF Terminal
  <2> QED
    BY <1>1, <2>1, <2>4, KeepServes
<1> QED
  BY <1>3, <1>4, <1>5, <1>6 DEF Operator

-----------------------------------------------------------------------------
(* What a transaction preserves *)

LEMMA ServedRows ==
  ASSUME IInv, NEW C, Served(C)
  PROVE  /\ job' \in [Jobs -> JobRow] /\ att' \in [Attempts -> AttemptRow \cup {NoRow}]
         /\ receipt' \in [Jobs -> BOOLEAN]
         /\ Linked(job', att')
         /\ \A a \in Attempts : att'[a] # NoRow /\ att'[a].receipt => receipt'[att'[a].job]
         /\ \A j \in Jobs :
              /\ Clean(job', att', j) => Clean(job, att, j)
              /\ receipt[j] => receipt'[j]
              /\ job[j].status = "succeeded" => job'[j].status = "succeeded"
              /\ job[j].status = "cancelled" => job'[j].status \in Terminal
              /\ receipt'[j] \/ job'[j].status = "succeeded" => copies[j] > 0
BY DEF Served, Writes, Remains

LEMMA ServedHeld ==
  ASSUME IInv, NEW C, Served(C), NEW d \in Clients, held[d] # None, held'[d] = held[d]
  PROVE  /\ att'[held[d]] # NoRow /\ att'[held[d]].job = att[held[d]].job
         /\ att'[held[d]].kind = att[held[d]].kind
         /\ att'[held[d]].job \in Jobs
         /\ d \notin C => att'[held[d]].phase = att[held[d]].phase
<1>1. PICK rows : /\ Writes(job', receipt', rows)
                  /\ Remains(job', receipt', rows)
                  /\ \A x \in Clients \ C : held[x] # None =>
                        rows[held[x]].phase = att[held[x]].phase
  BY DEF Served
<1>2. att'[held[d]] = rows[held[d]]
  BY <1>1 DEF Remains
<1>3. held[d] \in Attempts /\ att[held[d]] # NoRow /\ att[held[d]].job \in Jobs
  BY Holds
<1> QED
  BY <1>1, <1>2, <1>3 DEF Writes, Carried

LEMMA ServedInv ==
  ASSUME IInv, NEW C, Served(C), \A j \in Jobs : copies'[j] >= copies[j],
         copies' \in [Jobs -> Nat]
  PROVE  Linked(job, att)' /\ EvidenceOK'
<1>1. \A j \in Jobs : copies[j] \in Nat /\ copies'[j] \in Nat
  BY DEF IInv, Types
<1>2. EvidenceOK'
  BY <1>1, ServedRows DEF EvidenceOK
<1>3. Linked(job, att)'
  BY ServedRows DEF Linked
<1> QED
  BY <1>2, <1>3

LEMMA ApartInv ==
  ASSUME IInv, NEW C, Served(C), Apart(C), \A j \in Jobs : copies'[j] >= copies[j],
         copies' \in [Jobs -> Nat]
  PROVE  \A d \in Clients \ C : ClientOK(d)'
<1> SUFFICES ASSUME NEW d \in Clients \ C PROVE ClientOK(d)'
  OBVIOUS
<1>1. pc'[d] = pc[d] /\ held'[d] = held[d] /\ saved'[d] = saved[d] /\ ClientOK(d)
  BY DEF Apart, IInv
<1>2. CASE held[d] = None
  BY <1>1, <1>2 DEF ClientOK
<1>3. CASE held[d] # None
  <2>1. /\ att'[held[d]] # NoRow /\ att'[held[d]].job = att[held[d]].job
        /\ att'[held[d]].job \in Jobs /\ att'[held[d]].phase = att[held[d]].phase
    BY <1>1, <1>3, ServedHeld
  <2>2. receipt[att[held[d]].job] => receipt'[att[held[d]].job]
    BY <2>1, ServedRows
  <2>3. copies[att[held[d]].job] > 0 => copies'[att[held[d]].job] > 0
    BY <2>1 DEF IInv, Types
  <2> QED
    BY <1>1, <1>3, <2>1, <2>2, <2>3 DEF ClientOK
<1> QED
  BY <1>2, <1>3

\* No extension gets about to press.
LEMMA PressInv ==
  ASSUME IInv, NEW C, Served(C), UNCHANGED platform,
         \A d \in Clients : pc'[d] = "go" => pc[d] = "go" /\ held'[d] = held[d]
  PROVE  PressOK'
<1>1. \A d \in Clients, j \in Jobs : About(d, j)' => About(d, j)
  <2>1. SUFFICES ASSUME NEW d \in Clients, NEW j \in Jobs, About(d, j)' PROVE About(d, j)
    OBVIOUS
  <2>2. pc[d] = "go" /\ held'[d] = held[d] /\ att'[held[d]].job = j
    BY <2>1 DEF About
  <2>3. held[d] # None
    BY <2>2, Holds
  <2> QED
    BY <2>2, <2>3, ServedHeld DEF About
<1>2. \A j \in Jobs : Clean(job', att', j) => Clean(job, att, j)
  BY ServedRows
<1>3. \A j \in Jobs : Clean(job, att, j)' <=> Clean(job', att', j)
  BY DEF Clean, Fresh
<1>4. PressOK /\ presses' = presses /\ copies' = copies
  BY DEF IInv, platform
<1> QED
  BY <1>1, <1>2, <1>3, <1>4 DEF PressOK

LEMMA Preserved ==
  ASSUME IInv, NEW C, Served(C), Apart(C), UNCHANGED platform,
         pc' \in [Clients -> Places], held' \in [Clients -> Attempts \cup {None}],
         saved' \in [Clients -> Saved],
         \A d \in Clients \cap C : ClientOK(d)' /\ pc'[d] # "go"
  PROVE  IInv'
<1>1. copies' \in [Jobs -> Nat] /\ \A j \in Jobs : copies'[j] >= copies[j]
  BY DEF IInv, Types, platform
<1>2. Linked(job, att)' /\ EvidenceOK'
  BY <1>1, ServedInv
<1>3. \A d \in Clients : ClientOK(d)'
  BY <1>1, ApartInv
<1>4. PressOK'
  <2>1. \A d \in Clients : pc'[d] = "go" => pc[d] = "go" /\ held'[d] = held[d]
    BY DEF Apart
  <2> QED
    BY <2>1, PressInv
<1>5. Types'
  <2>1. presses' \in [Jobs -> Nat]
    BY DEF IInv, Types, platform
  <2> QED
    BY <1>1, <2>1, ServedRows DEF Types
<1> QED
  BY <1>2, <1>3, <1>4, <1>5 DEF IInv

\* The extension ended its round: it forgets the entry or keeps it as it was.
LEMMA AnsweredInv ==
  ASSUME IInv, NEW c \in Clients, Served({c}), UNCHANGED platform, Ack(c) \/ Throw(c)
  PROVE  IInv'
<1>1. /\ pc' \in [Clients -> Places] /\ held' \in [Clients -> Attempts \cup {None}]
      /\ saved' \in [Clients -> Saved] /\ Apart({c})
      /\ pc'[c] = "idle"
      /\ \/ held'[c] = None /\ saved'[c] = "none"
         \/ held'[c] = held[c] /\ saved'[c] = saved[c]
  BY Answered
<1>2. ClientOK(c)'
  <2>1. CASE held'[c] = None /\ saved'[c] = "none"
    BY <1>1, <2>1 DEF ClientOK
  <2>2. CASE held'[c] = held[c] /\ saved'[c] = saved[c] /\ held[c] = None
    BY <1>1, <2>2 DEF ClientOK, IInv
  <2>3. CASE held'[c] = held[c] /\ saved'[c] = saved[c] /\ held[c] # None
    <3>1. att'[held[c]] # NoRow /\ att'[held[c]].job = att[held[c]].job
      BY <2>3, ServedHeld
    <3>2. ClientOK(c) /\ copies' = copies
      BY DEF IInv, platform
    <3> QED
      BY <1>1, <2>3, <3>1, <3>2 DEF ClientOK
  <2> QED
    BY <1>1, <2>1, <2>2, <2>3
<1>3. \A d \in Clients \cap {c} : ClientOK(d)' /\ pc'[d] # "go"
  BY <1>1, <1>2
<1> QED
  BY <1>1, <1>3, Preserved

\* The extension goes on with the entry it has, to where nothing but what is saved matters.
LEMMA WentInv ==
  ASSUME IInv, NEW c \in Clients, Served({c}), UNCHANGED platform, Apart({c}),
         pc' \in [Clients -> Places], saved' \in [Clients -> Saved],
         held[c] # None, held' = held,
         pc'[c] \in {"claimed", "started"} =>
            saved'[c] = "none" /\ att'[held[c]].phase = "claimed",
         pc'[c] # "go",
         pc'[c] = "received" => saved'[c] = "receipt",
         pc'[c] = "report" => saved'[c] = "succeeded",
         pc'[c] = "replayed" => saved'[c] = "succeeded" /\ receipt'[att[held[c]].job],
         pc'[c] = "result" => saved'[c] \in {"succeeded", "failed", "cancelled"} \cup Findings,
         saved'[c] \in {"receipt", "succeeded", "matched"} => copies[att[held[c]].job] > 0
  PROVE  IInv'
<1>1. /\ att'[held[c]] # NoRow /\ att'[held[c]].job = att[held[c]].job /\ held[c][1] = c
      /\ held' \in [Clients -> Attempts \cup {None}]
  BY ServedHeld, Holds DEF IInv, Types
<1>2. copies' = copies
  BY DEF platform
<1>3. ClientOK(c)'
  BY <1>1, <1>2 DEF ClientOK
<1> QED
  BY <1>1, <1>3, Preserved

-----------------------------------------------------------------------------
(* Every action preserves the invariant *)

LEMMA GoOn ==
  ASSUME IInv, NEW c \in Clients, NEW place \in Places, Goto(c, place),
         NEW what \in Saved, Save(c, what), UNCHANGED held
  PROVE  /\ pc' \in [Clients -> Places] /\ saved' \in [Clients -> Saved] /\ Apart({c})
         /\ pc'[c] = place /\ saved'[c] = what
BY Moved, Noted DEF Apart

LEMMA GoOnSame ==
  ASSUME IInv, NEW c \in Clients, NEW place \in Places, Goto(c, place), UNCHANGED <<held, saved>>
  PROVE  /\ pc' \in [Clients -> Places] /\ saved' \in [Clients -> Saved] /\ Apart({c})
         /\ pc'[c] = place /\ saved'[c] = saved[c]
BY Moved DEF Apart, IInv, Types

LEMMA InspectInv ==
  ASSUME IInv, NEW c \in Clients, Inspect(c)
  PROVE  IInv'
<1>1. /\ Served({c}) /\ UNCHANGED <<held, platform>> /\ att' = att /\ held[c] # None
      /\ saved[c] = "none" /\ att[held[c]].phase = "claimed"
  BY IdleServes, Holds DEF Inspect, server, IInv, ClientOK
<1>2. {"started", "idle", "result"} \subseteq Places /\ {"pause", "failed"} \subseteq Saved
  BY DEF Places, Saved
<1>3. CASE Goto(c, "started") /\ UNCHANGED saved
  BY <1>1, <1>2, <1>3, GoOnSame, WentInv
<1>4. CASE Goto(c, "idle") /\ Save(c, "pause")
  BY <1>1, <1>2, <1>4, GoOn, WentInv
<1>5. CASE Goto(c, "result") /\ Save(c, "failed")
  BY <1>1, <1>2, <1>5, GoOn, WentInv
<1> QED
  BY <1>3, <1>4, <1>5 DEF Inspect

LEMMA CommandReturnsInv ==
  ASSUME IInv, NEW c \in Clients, CommandReturns(c)
  PROVE  IInv'
<1>1. Served({c}) /\ UNCHANGED <<held, platform>> /\ held[c] # None
  BY IdleServes, Holds DEF CommandReturns
<1>2. {"received", "idle", "result"} \subseteq Places
      /\ {"pause", "failed", "receipt"} \subseteq Saved
  BY DEF Places, Saved
<1>3. CASE copies[att[held[c]].job] > 0 /\ Goto(c, "received") /\ Save(c, "receipt")
  BY <1>1, <1>2, <1>3, GoOn, WentInv
<1>4. CASE Goto(c, "idle") /\ Save(c, "pause")
  BY <1>1, <1>2, <1>4, GoOn, WentInv
<1>5. CASE Goto(c, "result") /\ Save(c, "failed")
  BY <1>1, <1>2, <1>5, GoOn, WentInv
<1> QED
  BY <1>3, <1>4, <1>5 DEF CommandReturns

LEMMA SaveResultInv ==
  ASSUME IInv, NEW c \in Clients, SaveResult(c)
  PROVE  IInv'
<1>1. /\ Served({c}) /\ UNCHANGED <<held, platform>> /\ held[c] # None
      /\ Goto(c, "report") /\ Save(c, "succeeded") /\ copies[att[held[c]].job] > 0
  BY IdleServes, Holds DEF SaveResult, IInv, ClientOK
<1>2. "report" \in Places /\ "succeeded" \in Saved
  BY DEF Places, Saved
<1> QED
  BY <1>1, <1>2, GoOn, WentInv

LEMMA LookInv ==
  ASSUME IInv, NEW c \in Clients, NEW finding \in Findings, Look(c, finding)
  PROVE  IInv'
<1>1. /\ Served({c}) /\ UNCHANGED <<held, platform>> /\ held[c] # None
      /\ Goto(c, "result") /\ Save(c, finding)
      /\ (finding = "matched" => copies[att[held[c]].job] > 0)
  BY IdleServes, Holds DEF Look
<1>2. "result" \in Places /\ finding \in Saved /\ finding \notin {"receipt", "succeeded"}
  BY DEF Places, Saved, Findings
<1> QED
  BY <1>1, <1>2, GoOn, WentInv

LEMMA ReplayExecutionInv ==
  ASSUME IInv, NEW c \in Clients, ReplayExecution(c)
  PROVE  IInv'
<1>1. /\ Served({c}) /\ UNCHANGED <<pc, held, platform>> /\ held[c] # None
      /\ Save(c, "failed") /\ pc[c] = "idle" /\ pc' \in [Clients -> Places]
  BY IdleServes DEF ReplayExecution, IInv, Types
<1>2. "failed" \in Saved
  BY DEF Saved
<1>3. saved' \in [Clients -> Saved] /\ saved'[c] = "failed" /\ Apart({c})
  BY <1>1, <1>2, Noted DEF Apart
<1> QED
  BY <1>1, <1>3, WentInv

LEMMA ReplayObservationInv ==
  ASSUME IInv, NEW c \in Clients, NEW arrived \in BOOLEAN, ReplayObservation(c, arrived)
  PROVE  IInv'
<1>1. pc[c] = "idle" /\ held[c] # None /\ saved[c] = "none"
  BY DEF ReplayObservation
<1>2. CASE /\ MayEnter(c, held[c], "observation_started")
           /\ IF arrived THEN Save(c, "indeterminate") ELSE UNCHANGED saved
           /\ UNCHANGED <<pc, held, platform>>
           /\ Enter(held[c], "observation_started")
  <2>1. Served({c}) /\ pc' \in [Clients -> Places] /\ "indeterminate" \in Saved
    BY <1>1, <1>2, EnterServes DEF IInv, Types, Saved
  <2>2. saved' \in [Clients -> Saved] /\ saved'[c] \in {"indeterminate", "none"} /\ Apart({c})
    BY <1>1, <1>2, <2>1, Noted DEF Apart, IInv, Types
  <2> QED
    BY <1>1, <1>2, <2>1, <2>2, WentInv
<1>3. CASE /\ Stale(c, held[c]) /\ arrived
           /\ Ack(c)
           /\ UNCHANGED <<job, receipt, platform>>
           /\ Keep(att)
  <2>1. Served({c})
    BY <1>3, Answered, ForgetServes
  <2> QED
    BY <1>3, <2>1, AnsweredInv
<1> QED
  BY <1>2, <1>3 DEF ReplayObservation

LEMMA StartObservationInv ==
  ASSUME IInv, NEW c \in Clients, NEW arrived \in BOOLEAN, NEW blocked \in BOOLEAN,
         StartObservation(c, arrived, blocked)
  PROVE  IInv'
<1>1. /\ held[c] # None /\ UNCHANGED platform /\ saved[c] = "none"
      /\ MayEnter(c, held[c], "observation_started") /\ Enter(held[c], "observation_started")
      /\ (Goto(c, "look") /\ UNCHANGED <<held, saved>>) \/ Throw(c)
  BY Holds DEF StartObservation, IInv, ClientOK
<1>2. held' \in [Clients -> Attempts \cup {None}]
  BY <1>1 DEF Throw, IInv, Types
<1>3. Served({c})
  BY <1>1, <1>2, EnterServes
<1>4. CASE Goto(c, "look") /\ UNCHANGED <<held, saved>>
  <2>1. "look" \in Places
    BY DEF Places
  <2> QED
    BY <1>1, <1>3, <1>4, <2>1, GoOnSame, WentInv
<1>5. CASE Throw(c)
  BY <1>1, <1>3, <1>5, AnsweredInv
<1> QED
  BY <1>1, <1>4, <1>5

\* The actions that end a round, with an answer of the server or without.
LEMMA EndedInv ==
  ASSUME IInv, NEW c \in Clients,
         \/ StartRefused(c) \/ ObservationRefused(c) \/ Restart(c)
         \/ PauseCovered(c) \/ ReportStale(c)
  PROVE  IInv'
<1>1. CASE StartRefused(c) \/ ObservationRefused(c) \/ Restart(c)
  <2>1. Throw(c) /\ Served({c}) /\ UNCHANGED platform
    BY <1>1, IdleServes DEF StartRefused, ObservationRefused, Restart
  <2> QED
    BY <2>1, AnsweredInv
<1>2. CASE PauseCovered(c) \/ ReportStale(c)
  <2>1. (Ack(c) \/ Throw(c)) /\ UNCHANGED <<job, receipt, platform>> /\ Keep(att)
    BY <1>2 DEF PauseCovered, ReportStale
  <2>2. Served({c})
    BY <2>1, Answered, ForgetServes
  <2> QED
    BY <2>1, <2>2, AnsweredInv
<1> QED
  BY <1>1, <1>2

LEMMA SubmitPauseInv ==
  ASSUME IInv, NEW c \in Clients, NEW arrived \in BOOLEAN, SubmitPause(c, arrived)
  PROVE  IInv'
<1>1. /\ held[c] # None /\ (Ack(c) \/ Throw(c)) /\ UNCHANGED <<receipt, platform>>
      /\ Pause(c, held[c])
  BY Holds DEF SubmitPause
<1>2. Served({c})
  BY <1>1, Answered, PauseServes
<1> QED
  BY <1>1, <1>2, AnsweredInv

\* What is reported of the attempt at the end of a round.
LEMMA ReportingHolds ==
  ASSUME IInv, NEW c \in Clients, Reporting(c)
  PROVE  /\ held[c] # None
         /\ saved[c] \in {"succeeded", "failed", "cancelled"} \cup Findings
         /\ saved[c] \in {"succeeded", "matched"} => copies[att[held[c]].job] > 0
<1>1. held[c] # None
  BY Holds DEF Reporting, Findings
<1> QED
  BY <1>1 DEF Reporting, IInv, ClientOK

LEMMA SubmitResultInv ==
  ASSUME IInv, NEW c \in Clients, NEW arrived \in BOOLEAN, SubmitResult(c, arrived)
  PROVE  IInv'
<1>1. /\ held[c] # None /\ (Ack(c) \/ Throw(c)) /\ UNCHANGED platform
      /\ MayFinish(c, held[c], saved[c]) /\ Finish(held[c], saved[c])
  BY ReportingHolds DEF SubmitResult
<1>2. Served({c})
  BY <1>1, Answered, FinishServes
<1> QED
  BY <1>1, <1>2, AnsweredInv

LEMMA SubmitFindingInv ==
  ASSUME IInv, NEW c \in Clients, NEW arrived \in BOOLEAN, SubmitFinding(c, arrived)
  PROVE  IInv'
<1>1. /\ held[c] # None /\ (Ack(c) \/ Throw(c)) /\ UNCHANGED platform
      /\ MayReconcile(c, held[c]) /\ Reconcile(held[c], saved[c])
      /\ (saved[c] = "matched" => copies[att[held[c]].job] > 0)
  BY ReportingHolds DEF SubmitFinding
<1>2. Served({c})
  BY <1>1, Answered, ReconcileServes
<1> QED
  BY <1>1, <1>2, AnsweredInv

LEMMA SubmitReceiptInv ==
  ASSUME IInv, NEW c \in Clients, NEW arrived \in BOOLEAN, SubmitReceipt(c, arrived)
  PROVE  IInv'
<1>1. /\ held[c] # None /\ saved[c] \in {"receipt", "succeeded"}
      /\ copies[att[held[c]].job] > 0
      /\ MayRecord(c, held[c]) /\ Record(c, held[c]) /\ UNCHANGED platform
      /\ pc[c] = "report" => saved[c] = "succeeded"
  <2>1. saved[c] \in {"receipt", "succeeded"}
    BY DEF SubmitReceipt, IInv, ClientOK
  <2>2. held[c] # None
    BY <2>1, Holds
  <2> QED
    BY <2>1, <2>2 DEF SubmitReceipt, IInv, ClientOK
<1>2. \/ Ack(c) \/ Throw(c)
      \/ pc[c] = "report" /\ Goto(c, "result") /\ UNCHANGED <<held, saved>>
      \/ Goto(c, "replayed") /\ Save(c, "succeeded") /\ UNCHANGED held
  BY DEF SubmitReceipt
<1>3. held' \in [Clients -> Attempts \cup {None}]
  BY <1>2, Answered DEF IInv, Types
<1>4. Served({c})
  BY <1>1, <1>3, RecordServes
<1>5. receipt'[att[held[c]].job]
  BY <1>1, MoreReceipts DEF Record
<1>6. {"result", "replayed"} \subseteq Places /\ "succeeded" \in Saved
  BY DEF Places, Saved
<1>7. CASE Ack(c) \/ Throw(c)
  BY <1>1, <1>4, <1>7, AnsweredInv
<1>8. CASE pc[c] = "report" /\ Goto(c, "result") /\ UNCHANGED <<held, saved>>
  BY <1>1, <1>4, <1>6, <1>8, GoOnSame, WentInv
<1>9. CASE Goto(c, "replayed") /\ Save(c, "succeeded") /\ UNCHANGED held
  BY <1>1, <1>4, <1>5, <1>6, <1>9, GoOn, WentInv
<1> QED
  BY <1>2, <1>7, <1>8, <1>9

\* The one step that leads to the button: until then the job was clean, so nobody
\* else is about to press and nobody has; from then on it is not.
LEMMA StartMutationInv ==
  ASSUME IInv, NEW c \in Clients, NEW arrived \in BOOLEAN, NEW blocked \in BOOLEAN,
         StartMutation(c, arrived, blocked)
  PROVE  IInv'
<1> DEFINE a == held[c]
<1>0. PICK j \in Jobs : j = att[a].job
  BY Holds DEF StartMutation
<1>1. /\ a # None /\ UNCHANGED platform /\ saved[c] = "none" /\ att[a].phase = "claimed"
      /\ MayEnter(c, a, "mutation_started") /\ Enter(a, "mutation_started")
      /\ \/ Throw(c)
         \/ Goto(c, "result") /\ Save(c, "cancelled") /\ UNCHANGED held
         \/ Goto(c, "go") /\ UNCHANGED <<held, saved>>
  BY Holds DEF StartMutation, IInv, ClientOK
<1>2. held' \in [Clients -> Attempts \cup {None}]
  BY <1>1 DEF Throw, IInv, Types
<1>3. Served({c})
  BY <1>1, <1>2, EnterServes
<1>4. {"go", "result"} \subseteq Places /\ "cancelled" \in Saved
  BY DEF Places, Saved
<1>5. CASE Throw(c)
  BY <1>1, <1>3, <1>5, AnsweredInv
<1>6. CASE Goto(c, "result") /\ Save(c, "cancelled") /\ UNCHANGED held
  BY <1>1, <1>3, <1>4, <1>6, GoOn, WentInv
<1>7. CASE Goto(c, "go") /\ UNCHANGED <<held, saved>>
  <2>1. /\ pc' \in [Clients -> Places] /\ saved' \in [Clients -> Saved] /\ Apart({c})
        /\ pc'[c] = "go" /\ saved'[c] = "none" /\ held' = held
    BY <1>1, <1>4, <1>7, GoOnSame
  <2>2. /\ a \in Attempts /\ att[a] \in AttemptRow /\ j \in Jobs /\ a \in Running /\ a # None
        /\ job[j].current = a
    BY <1>0, <1>1, Holds, FencedRuns, RunningRow, InvServer DEF MayEnter
  <2>3. att[a].kind = "execute"
    <3>1. att[a].kind = "reconcile" => \A k \in DOMAIN Phases(att[a].kind) :
                                          Phases(att[a].kind)[k] # "mutation_started"
      BY DEF Phases
    <3>2. att[a].kind \in {"execute", "reconcile"}
      BY <2>2 DEF AttemptRow
    <3> QED
      BY <1>1, <3>1, <3>2 DEF MayEnter
  <2>4. Clean(job, att, j)
    BY <1>1, <2>2, <2>3 DEF Clean, Fresh
  <2>5. presses[j] = 0 /\ \A d \in Clients : ~ About(d, j)
    <3>1. presses[j] \in Nat
      BY <2>2 DEF IInv, Types
    <3> QED
      BY <2>2, <2>4, <3>1 DEF IInv, PressOK
  <2>6. /\ att'[a] # NoRow /\ att'[a].job = j /\ job' = job
        /\ Linked(job', att')
    BY <1>0, <1>1, <1>3, <2>1, ServedHeld, ServedRows DEF Enter
  <2>7. att'[a].phase = "mutation_started"
    <3>1. att' = [x \in Attempts |-> IF x \in Referred'
                                     THEN [att EXCEPT ![a].phase = "mutation_started"][x] ELSE NoRow]
      BY <1>1 DEF Enter, Keep
    <3>2. a \in Referred'
      BY <2>1, Reference
    <3>3. att'[a] = [att EXCEPT ![a].phase = "mutation_started"][a]
      BY <2>2, <3>1, <3>2
    <3>4. [att EXCEPT ![a].phase = "mutation_started"][a] = [att[a] EXCEPT !.phase = "mutation_started"]
      BY <2>2 DEF IInv, Types
    <3> QED
      BY <2>2, <3>3, <3>4 DEF AttemptRow
  <2>8. ~ Clean(job, att, j)'
    <3>1. job'[j].current = a /\ job'[j].status \in {"running", "terminating"}
      BY <2>2, <2>6 DEF Linked
    <3> QED
      BY <2>7, <3>1 DEF Clean, Fresh
  <2>9. \A d \in Clients, i \in Jobs : About(d, i)' => (d = c /\ i = j) \/ (About(d, i) /\ i # j)
    <3>1. SUFFICES ASSUME NEW d \in Clients, NEW i \in Jobs, About(d, i)'
                   PROVE  (d = c /\ i = j) \/ (About(d, i) /\ i # j)
      OBVIOUS
    <3>2. CASE d = c
      BY <2>1, <2>6, <3>1, <3>2 DEF About
    <3>3. CASE d # c
      <4>1. pc[d] = "go" /\ held'[d] = held[d] /\ att'[held[d]].job = i
        BY <2>1, <3>1, <3>3 DEF About, Apart
      <4>2. held[d] # None
        BY <4>1, Holds
      <4>3. About(d, i)
        BY <1>3, <4>1, <4>2, ServedHeld DEF About
      <4> QED
        BY <2>5, <4>3
    <3> QED
      BY <3>2, <3>3
  <2>10. PressOK'
    <3>1. \A i \in Jobs : Clean(job, att, i)' => Clean(job, att, i)
      <4>1. \A i \in Jobs : Clean(job, att, i)' <=> Clean(job', att', i)
        BY DEF Clean, Fresh
      <4> QED
        BY <1>3, <4>1, ServedRows
    <3>2. PressOK /\ presses' = presses /\ copies' = copies
      BY <1>1 DEF IInv, platform
    <3>3. ASSUME NEW i \in Jobs
          PROVE  /\ copies'[i] <= presses'[i] /\ presses'[i] <= 1
                 /\ presses'[i] > 0 => ~ Clean(job, att, i)'
                 /\ \A d \in Clients : About(d, i)' =>
                       /\ presses'[i] = 0 /\ ~ Clean(job, att, i)'
                       /\ \A e \in Clients : About(e, i)' => d = e
      <4>1. CASE i = j
        BY <2>5, <2>8, <2>9, <3>2, <4>1 DEF PressOK
      <4>2. CASE i # j
        BY <2>9, <3>1, <3>2, <4>2 DEF PressOK
      <4> QED
        BY <4>1, <4>2
    <3> QED
      BY <3>3 DEF PressOK
  <2>11. ClientOK(c)'
    BY <1>1, <2>1, <2>6, Holds DEF ClientOK
  <2>12. copies' \in [Jobs -> Nat] /\ presses' \in [Jobs -> Nat]
         /\ \A i \in Jobs : copies'[i] >= copies[i]
    BY <1>1 DEF IInv, Types, platform
  <2>13. \A d \in Clients : ClientOK(d)'
    BY <1>3, <2>1, <2>11, <2>12, ApartInv
  <2>14. Linked(job, att)' /\ EvidenceOK'
    BY <1>3, <2>12, ServedInv
  <2>15. Types'
    BY <1>2, <1>3, <2>1, <2>12, ServedRows DEF Types
  <2> QED
    BY <2>10, <2>13, <2>14, <2>15 DEF IInv
<1> QED
  BY <1>1, <1>5, <1>6, <1>7

LEMMA PressPreserves ==
  ASSUME IInv, NEW c \in Clients, Press(c)
  PROVE  IInv'
<1> DEFINE j == att[held[c]].job
<1>1. /\ held[c] # None /\ j \in Jobs /\ About(c, j)
      /\ presses' = [presses EXCEPT ![j] = @ + 1] /\ copies' = copies
      /\ Goto(c, "pressed") /\ UNCHANGED <<held, saved, server>>
      /\ pc[c] = "go"
  BY Holds DEF Press, About
<1>2. "pressed" \in Places
  BY DEF Places
<1>3. /\ pc' \in [Clients -> Places] /\ saved' \in [Clients -> Saved] /\ Apart({c})
      /\ pc'[c] = "pressed" /\ saved'[c] = saved[c]
      /\ \A d \in Clients \ {c} : pc'[d] = pc[d]
  BY <1>1, <1>2, GoOnSame, Moved
<1>4. /\ presses' \in [Jobs -> Nat] /\ presses'[j] = presses[j] + 1
      /\ \A i \in Jobs \ {j} : presses'[i] = presses[i]
      /\ \A i \in Jobs : presses[i] \in Nat /\ copies[i] \in Nat
  BY <1>1 DEF IInv, Types
<1>5. Served({c})
  BY <1>1, IdleServes
<1>6. copies' \in [Jobs -> Nat] /\ \A i \in Jobs : copies'[i] >= copies[i]
  BY <1>1 DEF IInv, Types
<1>7. ClientOK(c)'
  BY <1>1, <1>3, Holds DEF IInv, ClientOK, server
<1>8. \A d \in Clients : ClientOK(d)'
  BY <1>3, <1>5, <1>6, <1>7, ApartInv
<1>9. Linked(job, att)' /\ EvidenceOK'
  BY <1>5, <1>6, ServedInv
<1>10. Types'
  BY <1>1, <1>3, <1>4, <1>5, <1>6, ServedRows DEF Types, IInv
<1>11. PressOK'
  <2>1. /\ \A d \in Clients, i \in Jobs : About(d, i)' => d # c /\ About(d, i)
        /\ \A i \in Jobs : Clean(job, att, i)' <=> Clean(job, att, i)
    BY <1>1, <1>3 DEF About, Clean, Fresh, server
  <2>2. PressOK /\ presses[j] = 0 /\ ~ Clean(job, att, j)
        /\ \A d \in Clients \ {c} : ~ About(d, j)
    BY <1>1 DEF IInv, PressOK
  <2>3. ASSUME NEW i \in Jobs
        PROVE  /\ copies'[i] <= presses'[i] /\ presses'[i] <= 1
               /\ presses'[i] > 0 => ~ Clean(job, att, i)'
               /\ \A d \in Clients : About(d, i)' =>
                     /\ presses'[i] = 0 /\ ~ Clean(job, att, i)'
                     /\ \A e \in Clients : About(e, i)' => d = e
    <3>1. CASE i = j
      BY <1>1, <1>4, <2>1, <2>2, <3>1 DEF PressOK
    <3>2. CASE i # j
      BY <1>1, <1>4, <2>1, <2>2, <3>2 DEF PressOK
    <3> QED
      BY <3>1, <3>2
  <2> QED
    BY <2>3 DEF PressOK
<1> QED
  BY <1>8, <1>9, <1>10, <1>11 DEF IInv

LEMMA LandPreserves ==
  ASSUME IInv, NEW j \in Jobs, Land(j)
  PROVE  IInv'
<1>1. /\ copies' \in [Jobs -> Nat] /\ copies'[j] = copies[j] + 1
      /\ \A i \in Jobs \ {j} : copies'[i] = copies[i]
      /\ \A i \in Jobs : presses[i] \in Nat /\ copies[i] \in Nat
      /\ copies[j] < presses[j] /\ UNCHANGED <<server, presses, local>>
  BY DEF Land, IInv, Types
<1>2. Served({}) /\ Apart({}) /\ \A i \in Jobs : copies'[i] >= copies[i]
  BY <1>1, IdleServes, Stays
<1>3. \A d \in Clients : ClientOK(d)'
  BY <1>1, <1>2, ApartInv
<1>4. Linked(job, att)' /\ EvidenceOK'
  BY <1>1, <1>2, ServedInv
<1>5. Types'
  BY <1>1, <1>2, ServedRows, Stays DEF Types, IInv
<1>6. PressOK'
  <2>1. /\ \A d \in Clients, i \in Jobs : About(d, i)' <=> About(d, i)
        /\ \A i \in Jobs : Clean(job, att, i)' <=> Clean(job, att, i)
    BY <1>1 DEF About, Clean, Fresh, server, local
  <2>2. PressOK /\ \A i \in Jobs : copies'[i] <= presses'[i]
    BY <1>1 DEF IInv, PressOK
  <2> QED
    BY <1>1, <2>1, <2>2 DEF PressOK
<1> QED
  BY <1>3, <1>4, <1>5, <1>6 DEF IInv

LEMMA PollPreserves ==
  ASSUME IInv, NEW c \in Clients, Poll(c)
  PROVE  IInv'
<1>1. Served({c})
  BY PollServes
<1>2. PICK S \in SUBSET Lapsed :
         \/ PollExpires(c, S)
         \/ \E a \in Attempts : PollReturns(c, S, a)
         \/ \E j \in Jobs, n \in Slots, arrived \in BOOLEAN : PollClaims(c, S, j, n, arrived)
  BY DEF Poll
<1>3. pc[c] = "idle" /\ held[c] = None /\ saved[c] = "none"
  BY <1>2 DEF PollExpires, PollReturns, PollClaims, Clear, IInv, ClientOK
<1>4. ASSUME UNCHANGED <<platform, local>> PROVE IInv'
  <2>1. ClientOK(c)' /\ pc'[c] # "go"
    BY <1>3, <1>4 DEF ClientOK, local
  <2>2. \A d \in Clients \cap {c} : ClientOK(d)' /\ pc'[d] # "go"
    BY <2>1
  <2> QED
    BY <1>1, <1>4, <2>2, Stays, Preserved
<1>5. ASSUME NEW a \in Attempts, Receive(c, a), a[1] = c, att'[a] # NoRow,
             att'[a].phase = "claimed", UNCHANGED platform
      PROVE  IInv'
  <2>1. /\ pc' \in [Clients -> Places] /\ held' \in [Clients -> Attempts \cup {None}]
        /\ saved' \in [Clients -> Saved] /\ Apart({c})
        /\ pc'[c] = "claimed" /\ held'[c] = a /\ saved'[c] = "none" /\ a # None
    BY <1>3, <1>5, Received, NoneAssumption
  <2>2. ClientOK(c)' /\ pc'[c] # "go"
    BY <1>5, <2>1 DEF ClientOK
  <2>3. \A d \in Clients \cap {c} : ClientOK(d)' /\ pc'[d] # "go"
    BY <2>2
  <2> QED
    BY <1>1, <1>5, <2>1, <2>3, Preserved
<1>6. CASE PollExpires(c, S)
  BY <1>4, <1>6 DEF PollExpires
<1>7. ASSUME NEW a \in Attempts, PollReturns(c, S, a) PROVE IInv'
  <2>1. /\ Receive(c, a) /\ UNCHANGED platform /\ Fenced(c, a) /\ att[a].phase = "claimed"
        /\ a \in Running \ S /\ Keep(RowsWithout(S))
    BY <1>7 DEF PollReturns
  <2>2. held'[c] = a /\ a[1] = c
    BY <2>1, Received, FencedRuns
  <2>3. att'[a] = RowsWithout(S)[a]
    BY <2>2, Reference, <2>1 DEF Keep
  <2>4. att'[a] = att[a] /\ att[a] # NoRow
    BY <2>1, <2>3, SweptRows, RunningRow, InvServer
  <2> QED
    BY <1>5, <2>1, <2>2, <2>4
<1>8. ASSUME NEW j \in Jobs, NEW n \in Slots, NEW arrived \in BOOLEAN,
             PollClaims(c, S, j, n, arrived)
      PROVE  IInv'
  <2> DEFINE a == <<c, n>>
             row == NewClaim(j, JobsWithout(S)[j].status)
             rows == [RowsWithout(S) EXCEPT ![a] = row]
  <2>1. UNCHANGED platform /\ Keep(rows) /\ (IF arrived THEN Receive(c, a) ELSE UNCHANGED local)
    BY <1>8 DEF PollClaims
  <2>2. a \in Attempts /\ a[1] = c /\ rows[a] = row
    BY DEF Attempts, RowsWithout
  <2>3. row.phase = "claimed" /\ row # NoRow
    BY DEF NewClaim, NoRow
  <2> HIDE DEF row, rows
  <2>4. CASE arrived
    <3>1. Receive(c, a)
      BY <2>1, <2>4
    <3>2. held'[c] = a
      BY <2>2, <3>1, Received
    <3>3. att'[a] = rows[a]
      BY <2>1, <2>2, <3>2, Reference DEF Keep
    <3> HIDE DEF a
    <3> QED
      BY <1>5, <2>1, <2>2, <2>3, <3>1, <3>3
  <2>5. CASE ~ arrived
    BY <1>4, <2>1, <2>5
  <2> QED
    BY <2>4, <2>5
<1> QED
  BY <1>2, <1>6, <1>7, <1>8

\* What the extensions do not take part in.
LEMMA OthersPreserve ==
  ASSUME IInv, \/ \E j \in Jobs : Operator(j)
               \/ \E a \in Attempts : Lapse(a)
               \/ RecoverInterrupted
  PROVE  IInv'
<1>1. Served({})
  BY OperatorServes, LapseServes, RecoverServes
<1>2. UNCHANGED <<platform, local>>
  BY DEF Operator, Release, Terminate, Delete, Resume, Lapse, RecoverInterrupted
<1> QED
  BY <1>1, <1>2, Stays, Preserved

LEMMA InvNext ==
  ASSUME IInv, Next
  PROVE  IInv'
<1>1. ASSUME NEW c \in Clients, Step(c) PROVE IInv'
  BY <1>1, InspectInv, EndedInv, PressPreserves, CommandReturnsInv, SaveResultInv,
     ReplayExecutionInv, LookInv DEF Step
<1>2. ASSUME NEW c \in Clients, NEW arrived \in BOOLEAN, NEW blocked \in BOOLEAN,
             Call(c, arrived, blocked)
      PROVE  IInv'
  BY <1>2, StartMutationInv, StartObservationInv, SubmitReceiptInv, SubmitPauseInv,
     SubmitResultInv, SubmitFindingInv, ReplayObservationInv DEF Call
<1> QED
  BY <1>1, <1>2, PollPreserves, EndedInv, OthersPreserve, LandPreserves DEF Next

LEMMA InvStutter ==
  ASSUME IInv, UNCHANGED vars
  PROVE  IInv'
<1>1. Served({}) /\ UNCHANGED <<platform, local>>
  BY IdleServes DEF vars
<1> QED
  BY <1>1, Stays, Preserved

LEMMA InvInit ==
  ASSUME Init
  PROVE  IInv
<1>1. /\ \A j \in Jobs : /\ job[j] \in JobRow
                         /\ job[j].status = "scheduled" /\ job[j].current = None
                         /\ job[j].token = None
  BY DEF Init, JobRow, JobStatus
<1>2. Types
  BY <1>1 DEF Init, Types, Places, Saved
<1>3. \A a \in Attempts : att[a] = NoRow /\ att[a].status # "running"
  BY DEF Init, NoRow
<1>4. Linked(job, att)
  BY <1>1, <1>3 DEF Linked
<1>5. EvidenceOK
  BY <1>1, <1>3 DEF EvidenceOK, Init
<1>6. \A c \in Clients : ClientOK(c)
  BY DEF Init, ClientOK
<1>7. PressOK
  BY DEF Init, PressOK, About
<1> QED
  BY <1>2, <1>4, <1>5, <1>6, <1>7 DEF IInv

\* The invariant of every behaviour.
LEMMA Invariant == Spec => []IInv
<1>1. Init => IInv
  BY InvInit
<1>2. IInv /\ [Next]_vars => IInv'
  BY InvNext, InvStutter
<1> QED
  BY <1>1, <1>2, PTL DEF Spec

-----------------------------------------------------------------------------
(* Types, and one running attempt of a job at most *)

\* Every row, place and entry keeps its type, and the running attempts are those
\* that jobs name as their current ones, whoever ends them: the worker's result,
\* a pause, another worker's poll, a late receipt or a starting backend.
THEOREM Typed == Spec => []TypeOK
<1>1. ASSUME IInv PROVE TypeOK
  <2>1. \A j \in Jobs : job[j].current \in Attempts \cup {None}
    BY <1>1 DEF IInv, Types, JobRow
  <2>2. \A a \in Attempts : a \in Running <=> \E j \in Jobs : job[j].current = a
    <3>1. SUFFICES ASSUME NEW a \in Attempts
                   PROVE  a \in Running <=> \E j \in Jobs : job[j].current = a
      OBVIOUS
    <3>2. a \in Running => att[a].job \in Jobs /\ job[att[a].job].current = a
      BY <1>1, InvServer, RunningRow
    <3>3. \A j \in Jobs : job[j].current = a => a \in Running
      BY <1>1, NoneAssumption DEF IInv, Linked, Running
    <3> QED
      BY <3>2, <3>3
  <2> QED
    BY <1>1, <2>2 DEF IInv, Types, TypeOK
<1> QED
  BY <1>1, Invariant, PTL

-----------------------------------------------------------------------------
(* Nothing is forgotten *)

LEMMA CallServes ==
  ASSUME IInv, NEW c \in Clients, NEW arrived \in BOOLEAN, NEW blocked \in BOOLEAN,
         Call(c, arrived, blocked)
  PROVE  Served({c})
<1>1. CASE StartMutation(c, arrived, blocked)
  <2>1. /\ held[c] # None /\ MayEnter(c, held[c], "mutation_started")
        /\ Enter(held[c], "mutation_started") /\ UNCHANGED held
    BY <1>1, Holds DEF StartMutation, Throw
  <2>2. held' \in [Clients -> Attempts \cup {None}]
    BY <2>1 DEF IInv, Types
  <2> QED
    BY <2>1, <2>2, EnterServes
<1>2. CASE StartObservation(c, arrived, blocked)
  <2>1. /\ held[c] # None /\ MayEnter(c, held[c], "observation_started")
        /\ Enter(held[c], "observation_started") /\ UNCHANGED held
    BY <1>2, Holds DEF StartObservation, Throw
  <2>2. held' \in [Clients -> Attempts \cup {None}]
    BY <2>1 DEF IInv, Types
  <2> QED
    BY <2>1, <2>2, EnterServes
<1>3. CASE SubmitReceipt(c, arrived)
  <2>1. held[c] # None /\ copies[att[held[c]].job] > 0
    <3>1. saved[c] \in {"receipt", "succeeded"}
      BY <1>3 DEF SubmitReceipt, IInv, ClientOK
    <3> QED
      BY <3>1, Holds DEF IInv, ClientOK
  <2>2. MayRecord(c, held[c]) /\ Record(c, held[c])
        /\ (Ack(c) \/ Throw(c) \/ UNCHANGED held)
    BY <1>3 DEF SubmitReceipt
  <2>3. held' \in [Clients -> Attempts \cup {None}]
    BY <2>2, Answered DEF IInv, Types
  <2> QED
    BY <2>1, <2>2, <2>3, RecordServes
<1>4. CASE SubmitPause(c, arrived)
  <2>1. /\ held[c] # None /\ (Ack(c) \/ Throw(c)) /\ UNCHANGED receipt /\ Pause(c, held[c])
    BY <1>4, Holds DEF SubmitPause
  <2> QED
    BY <2>1, Answered, PauseServes
<1>5. CASE SubmitResult(c, arrived)
  <2>1. /\ held[c] # None /\ (Ack(c) \/ Throw(c))
        /\ MayFinish(c, held[c], saved[c]) /\ Finish(held[c], saved[c])
    BY <1>5, ReportingHolds DEF SubmitResult
  <2> QED
    BY <2>1, Answered, FinishServes
<1>6. CASE SubmitFinding(c, arrived)
  <2>1. /\ held[c] # None /\ (Ack(c) \/ Throw(c))
        /\ MayReconcile(c, held[c]) /\ Reconcile(held[c], saved[c])
        /\ (saved[c] = "matched" => copies[att[held[c]].job] > 0)
    BY <1>6, ReportingHolds DEF SubmitFinding
  <2> QED
    BY <2>1, Answered, ReconcileServes
<1>7. CASE ReplayObservation(c, arrived)
  <2>1. held[c] # None
    BY <1>7 DEF ReplayObservation
  <2>2. CASE MayEnter(c, held[c], "observation_started") /\ UNCHANGED held
             /\ Enter(held[c], "observation_started")
    <3>1. held' \in [Clients -> Attempts \cup {None}]
      BY <2>2 DEF IInv, Types
    <3> QED
      BY <2>1, <2>2, <3>1, EnterServes
  <2>3. CASE Ack(c) /\ UNCHANGED <<job, receipt>> /\ Keep(att)
    BY <2>3, Answered, ForgetServes
  <2> QED
    BY <1>7, <2>2, <2>3 DEF ReplayObservation
<1> QED
  BY <1>1, <1>2, <1>3, <1>4, <1>5, <1>6, <1>7 DEF Call

LEMMA StepServes ==
  ASSUME IInv, NEW c \in Clients, Step(c)
  PROVE  Served({c})
<1>1. CASE PauseCovered(c) \/ ReportStale(c)
  <2>1. (Ack(c) \/ Throw(c)) /\ UNCHANGED <<job, receipt>> /\ Keep(att)
    BY <1>1 DEF PauseCovered, ReportStale
  <2> QED
    BY <2>1, Answered, ForgetServes
<1>2. CASE ~ (PauseCovered(c) \/ ReportStale(c))
  <2>1. UNCHANGED server
    BY <1>2 DEF Step, Inspect, StartRefused, Press, CommandReturns, SaveResult,
                ReplayExecution, ObservationRefused, Look
  <2> QED
    BY <2>1, IdleServes
<1> QED
  BY <1>1, <1>2

\* Every step is a transaction of the server, or leaves it alone.
LEMMA NextServes ==
  ASSUME IInv, [Next]_vars
  PROVE  \E C : Served(C)
<1>1. ASSUME NEW c \in Clients, Restart(c) PROVE Served({c})
  BY <1>1, IdleServes DEF Restart
<1>2. ASSUME NEW j \in Jobs, Land(j) PROVE Served({})
  BY <1>2, IdleServes DEF Land
<1>3. CASE UNCHANGED vars
  <2>1. Served({})
    BY <1>3, IdleServes DEF vars
  <2> QED
    BY <2>1
<1>4. CASE Next
  BY <1>1, <1>2, <1>4, PollServes, StepServes, CallServes, OperatorServes, LapseServes,
     RecoverServes DEF Next
<1> QED
  BY <1>3, <1>4

\* An entry is dropped when the server has answered what it says, or refused it.
Drops(c) == \E arrived \in BOOLEAN :
               \/ SubmitReceipt(c, arrived) \/ SubmitPause(c, arrived)
               \/ SubmitResult(c, arrived) \/ SubmitFinding(c, arrived)
               \/ ReplayObservation(c, arrived) \/ PauseCovered(c) \/ ReportStale(c)

LEMMA Dropped ==
  ASSUME IInv, [Next]_vars, NEW c \in Clients, held[c] # None, held'[c] = None
  PROVE  Drops(c) /\ Ack(c)
<1> USE DEF IInv, Types
<1>1. ASSUME NEW d \in Clients, Ack(d) PROVE d = c
  BY <1>1 DEF Ack
<1>2. ASSUME NEW d \in Clients, NEW a \in Attempts, Receive(d, a), held[d] = None PROVE FALSE
  BY <1>2, NoneAssumption DEF Receive
<1>3. held' # held
  OBVIOUS
<1> USE <1>3
<1>4. ASSUME NEW d \in Clients, Poll(d) PROVE FALSE
  <2>1. \A n \in Slots : <<d, n>> \in Attempts
    BY DEF Attempts
  <2>2. held[d] = None /\ \E a \in Attempts : Receive(d, a)
    BY <1>4, <2>1 DEF Poll, PollExpires, PollReturns, PollClaims, Clear, local
  <2> QED
    BY <1>2, <2>2
<1>5. ASSUME NEW d \in Clients, Step(d) PROVE Drops(d) /\ Ack(d)
  BY <1>5 DEF Step, Inspect, StartRefused, Press, CommandReturns, SaveResult, ReplayExecution,
              ObservationRefused, Look, PauseCovered, ReportStale, Throw, Drops
<1>6. ASSUME NEW d \in Clients, NEW arrived \in BOOLEAN, NEW blocked \in BOOLEAN,
             Call(d, arrived, blocked)
      PROVE  Drops(d) /\ Ack(d)
  BY <1>6 DEF Call, StartMutation, StartObservation, SubmitReceipt, SubmitPause, SubmitResult,
              SubmitFinding, ReplayObservation, Throw, Drops
<1>7. ASSUME NEW d \in Clients, Restart(d) PROVE FALSE
  BY <1>7 DEF Restart, Throw
<1>8. ~ UNCHANGED local
  BY DEF local
<1>9. \E d \in Clients : Drops(d) /\ Ack(d)
  BY <1>4, <1>5, <1>6, <1>7, <1>8 DEF Next, Operator, Release, Terminate, Delete, Resume, Land,
     Lapse, RecoverInterrupted, vars
<1> QED
  BY <1>1, <1>9

\* Where a receipt is dropped, the server has one.
LEMMA DroppedReceipt ==
  ASSUME IInv, NEW c \in Clients, held[c] # None, Drops(c), Ack(c),
         saved[c] \in {"receipt", "succeeded"}, [Next]_vars
  PROVE  receipt'[att[held[c]].job]
<1> DEFINE j == att[held[c]].job
<1>1. j \in Jobs /\ att[held[c]] # NoRow /\ held[c] \in Attempts /\ (receipt[j] => receipt'[j])
  BY Holds, NextServes, ServedRows
<1>2. ASSUME NEW arrived \in BOOLEAN, SubmitReceipt(c, arrived) PROVE receipt'[j]
  <2>1. receipt' = [receipt EXCEPT ![j] = TRUE]
    BY <1>2 DEF SubmitReceipt, Record, RecordReceipt
  <2> QED
    BY <1>1, <2>1 DEF IInv, Types
<1>3. ASSUME NEW arrived \in BOOLEAN, SubmitResult(c, arrived) PROVE receipt'[j]
  <2>1. saved[c] = "succeeded"
    BY <1>3, ReportingHolds DEF SubmitResult, Findings
  <2>2. att[held[c]].receipt
    BY <1>3, <2>1 DEF SubmitResult, MayFinish
  <2>3. receipt[j]
    BY <1>1, <2>2 DEF IInv, EvidenceOK
  <2> QED
    BY <1>1, <2>3
<1>4. CASE ReportStale(c)
  <2>1. pc[c] = "result" => FALSE
    BY <1>4 DEF ReportStale, Throw, Ack, IInv, Types
  <2>2. pc[c] = "replayed"
    BY <1>4, <2>1 DEF ReportStale, Reporting, Findings
  <2>3. receipt[j]
    BY <2>2 DEF IInv, ClientOK
  <2> QED
    BY <1>1, <2>3
<1>5. \A arrived \in BOOLEAN : ~ (SubmitPause(c, arrived) \/ SubmitFinding(c, arrived)
                                  \/ ReplayObservation(c, arrived) \/ PauseCovered(c))
  BY DEF SubmitPause, SubmitFinding, ReplayObservation, PauseCovered, Findings
<1> QED
  BY <1>2, <1>3, <1>4, <1>5 DEF Drops

\* An extension drops its journal entry only when the server does not need it: a
\* receipt it holds is recorded, and a job whose button was pressed is not open to
\* another execution, whichever call, refusal or replay ended the entry.
THEOREM Unforgotten == Spec => NothingForgotten
<1>1. ASSUME IInv, [Next]_vars, NEW c \in Clients, held[c] # None, held'[c] = None
      PROVE  LET j == att[held[c]].job
             IN /\ saved[c] \in {"receipt", "succeeded"} => receipt'[j]
                /\ presses[j] > 0 => job'[j].status \notin {"scheduled", "pending", "cancelled"}
  <2>1. att[held[c]].job \in Jobs
    BY <1>1, Holds
  <2>2. presses[att[held[c]].job] > 0 => ~ Clean(job, att, att[held[c]].job)
    BY <1>1, <2>1 DEF IInv, PressOK
  <2>3. presses[att[held[c]].job] > 0 => ~ Clean(job', att', att[held[c]].job)
    BY <1>1, <2>1, <2>2, NextServes, ServedRows
  <2> QED
    BY <1>1, <2>3, Dropped, DroppedReceipt DEF Clean
<1>2. IInv /\ [Next]_vars =>
        [\A c \in Clients :
           held[c] # None /\ held'[c] = None =>
              LET j == att[held[c]].job
              IN /\ saved[c] \in {"receipt", "succeeded"} => receipt'[j]
                 /\ presses[j] > 0 => job'[j].status \notin {"scheduled", "pending", "cancelled"}]_vars
  BY <1>1
<1> QED
  BY <1>2, Invariant, PTL DEF Spec, NothingForgotten

-----------------------------------------------------------------------------
(* The upload of every job implements UploadOnce *)

\* At most one job succeeds in a step, and then no other job changes.
LEMMA OneSucceeds ==
  ASSUME IInv, Next
  PROVE  \/ \E k \in Jobs : \A i \in Jobs \ {k} : job'[i] = job[i]
         \/ \A i \in Jobs : job'[i].status = "succeeded" => job[i].status = "succeeded"
<1> DEFINE One == \E k \in Jobs : \A i \in Jobs \ {k} : job'[i] = job[i]
           None1 == \A i \in Jobs : job'[i].status = "succeeded" => job[i].status = "succeeded"
<1>1. job' = job => None1
  OBVIOUS
<1>2. ASSUME NEW k \in Jobs, NEW row, job' = [job EXCEPT ![k] = row] PROVE One
  BY <1>2 DEF IInv, Types
<1>3. ASSUME NEW c \in Clients, Poll(c) PROVE None1
  <2>1. PICK S \in SUBSET Lapsed :
           \/ PollExpires(c, S)
           \/ \E a \in Attempts : PollReturns(c, S, a)
           \/ \E j \in Jobs, n \in Slots, arrived \in BOOLEAN : PollClaims(c, S, j, n, arrived)
    BY <1>3 DEF Poll
  <2>2. \A i \in Jobs : JobsWithout(S)[i].status = "succeeded" => job[i].status = "succeeded"
    <3>1. SUFFICES ASSUME NEW i \in Jobs, JobsWithout(S)[i].status = "succeeded",
                          job[i].current \in S
                   PROVE  FALSE
      BY DEF JobsWithout
    <3>2. LET a == job[i].current
          IN /\ JobsWithout(S)[i] = Left(a, AfterFailure(a))
             /\ a \in Running
      BY <3>1, SweptRows DEF JobsWithout
    <3>3. LET a == job[i].current
          IN JobOf(a) \in JobRow /\ AfterFailure(a) \in {"reconciling", "cancelled", "pending"}
      BY <3>2, RunningRow, InvServer, UncertainIsNotFresh
    <3> QED
      BY <3>1, <3>2, <3>3 DEF Left, JobRow
  <2>3. CASE \E j \in Jobs, n \in Slots, arrived \in BOOLEAN : PollClaims(c, S, j, n, arrived)
    <3>1. PICK j \in Jobs, n \in Slots :
             job' = [JobsWithout(S) EXCEPT ![j].status = "running", ![j].current = <<c, n>>]
      BY <2>3 DEF PollClaims
    <3>2. JobsWithout(S) \in [Jobs -> JobRow]
      BY SweptRows DEF Writes
    <3>3. job'[j].status = "running" /\ \A i \in Jobs \ {j} : job'[i] = JobsWithout(S)[i]
      BY <3>1, <3>2 DEF JobRow
    <3> QED
      BY <2>2, <3>3
  <2>4. CASE PollExpires(c, S) \/ \E a \in Attempts : PollReturns(c, S, a)
    BY <2>2, <2>4 DEF PollExpires, PollReturns
  <2> QED
    BY <2>1, <2>3, <2>4
<1>4. ASSUME RecoverInterrupted PROVE None1
  <2>1. SUFFICES ASSUME NEW i \in Jobs PROVE job'[i].status = "succeeded" => job[i].status = "succeeded"
    OBVIOUS
  <2>2. job'[i] = job[i] \/ job'[i] = [job[i] EXCEPT !.status = "reconciling", !.current = None]
    BY <1>4 DEF RecoverInterrupted
  <2> QED
    BY <2>2 DEF IInv, Types, JobRow
<1>5. ASSUME NEW j \in Jobs, Operator(j) PROVE One
  <2>1. \E row : job' = [job EXCEPT ![j] = row]
    BY <1>5 DEF Operator, Release, Terminate, Delete, Resume
  <2> QED
    BY <1>2, <2>1
<1>6. ASSUME NEW c \in Clients, held[c] # None, NEW row, NEW rows, Settle(held[c], row, rows)
      PROVE  One
  <2>1. att[held[c]].job \in Jobs
    BY <1>6, Holds
  <2> QED
    BY <1>2, <1>6, <2>1 DEF Settle
<1>7. ASSUME NEW c \in Clients, NEW arrived \in BOOLEAN, NEW blocked \in BOOLEAN,
             Call(c, arrived, blocked)
      PROVE  One \/ job' = job
  <2>1. CASE StartMutation(c, arrived, blocked) \/ StartObservation(c, arrived, blocked)
             \/ ReplayObservation(c, arrived)
    BY <2>1 DEF StartMutation, StartObservation, ReplayObservation, Enter
  <2>2. CASE SubmitReceipt(c, arrived)
    <3>1. held[c] # None
      BY <2>2, Holds DEF SubmitReceipt
    <3>2. job' = job \/ \E row, rows : Settle(held[c], row, rows)
      BY <2>2 DEF SubmitReceipt, Record
    <3> QED
      BY <1>6, <3>1, <3>2
  <2>3. CASE SubmitPause(c, arrived)
    <3>1. held[c] # None
      BY <2>3, Holds DEF SubmitPause
    <3>2. job' = job \/ \E row, rows : Settle(held[c], row, rows)
      BY <2>3 DEF SubmitPause, Pause
    <3> QED
      BY <1>6, <3>1, <3>2
  <2>4. CASE SubmitResult(c, arrived)
    <3>1. held[c] # None /\ \E row, rows : Settle(held[c], row, rows)
      BY <2>4, ReportingHolds DEF SubmitResult, Finish
    <3> QED
      BY <1>6, <3>1
  <2>5. CASE SubmitFinding(c, arrived)
    <3>1. held[c] # None /\ \E row, rows : Settle(held[c], row, rows)
      BY <2>5, ReportingHolds DEF SubmitFinding, Reconcile
    <3> QED
      BY <1>6, <3>1
  <2> QED
    BY <1>7, <2>1, <2>2, <2>3, <2>4, <2>5 DEF Call
<1>8. ASSUME \/ \E c \in Clients : Step(c) \/ Restart(c)
             \/ \E j \in Jobs : Land(j)
             \/ \E a \in Attempts : Lapse(a)
      PROVE  job' = job
  BY <1>8 DEF Step, Inspect, StartRefused, Press, CommandReturns, SaveResult, ReplayExecution,
     ObservationRefused, Look, PauseCovered, ReportStale, Restart, Land, Lapse, server
<1> SUFFICES One \/ None1
  OBVIOUS
<1> HIDE DEF One, None1
<1>9. CASE \E c \in Clients : Poll(c)
  BY <1>3, <1>9
<1>10. CASE \E j \in Jobs : Operator(j)
  BY <1>5, <1>10
<1>11. CASE \E c \in Clients, arrived, blocked \in BOOLEAN : Call(c, arrived, blocked)
  BY <1>1, <1>7, <1>11
<1>12. CASE \/ \E c \in Clients : Step(c) \/ Restart(c)
            \/ \E j \in Jobs : Land(j)
            \/ \E a \in Attempts : Lapse(a)
  <2>1. job' = job
    BY <1>8, <1>12
  <2> QED
    BY <1>1, <2>1
<1> QED
  BY <1>4, <1>9, <1>10, <1>11, <1>12 DEF Next

LEMMA PlatformMoves ==
  ASSUME Next
  PROVE  \/ \E c \in Clients : Press(c)
         \/ \E j \in Jobs : Land(j)
         \/ UNCHANGED platform
<1>1. ASSUME NEW c \in Clients, Poll(c) PROVE UNCHANGED platform
  BY <1>1 DEF Poll, PollExpires, PollReturns, PollClaims
<1>2. ASSUME NEW c \in Clients, Step(c), ~ Press(c) PROVE UNCHANGED platform
  BY <1>2 DEF Step, Inspect, StartRefused, CommandReturns, SaveResult, PauseCovered, ReportStale,
     ReplayExecution, ObservationRefused, Look
<1>3. ASSUME NEW c \in Clients, NEW arrived \in BOOLEAN, NEW blocked \in BOOLEAN,
             Call(c, arrived, blocked)
      PROVE  UNCHANGED platform
  BY <1>3 DEF Call, StartMutation, StartObservation, SubmitReceipt, SubmitPause, SubmitResult,
     SubmitFinding, ReplayObservation
<1>4. ASSUME NEW j \in Jobs, Operator(j) PROVE UNCHANGED platform
  BY <1>4 DEF Operator, Release, Terminate, Delete, Resume
<1>5. ASSUME NEW c \in Clients, Restart(c) PROVE UNCHANGED platform
  BY <1>5 DEF Restart
<1>6. ASSUME RecoverInterrupted \/ \E a \in Attempts : Lapse(a) PROVE UNCHANGED platform
  BY <1>6 DEF RecoverInterrupted, Lapse
<1> QED
  BY <1>1, <1>2, <1>3, <1>4, <1>5, <1>6 DEF Next

Told == [j \in Jobs |-> Reported(job[j])]

LEMMA ToldValues ==
  ASSUME NEW row
  PROVE  /\ Reported(row) \in {"uploaded", "withdrawn", "open"}
         /\ Reported(row) = "uploaded" <=> row.status = "succeeded"
         /\ Reported(row) = "withdrawn" <=> row.status = "cancelled"
BY DEF Reported

\* What was not pressed did not arrive, and a withdrawn job was not pressed.
LEMMA Untouched ==
  ASSUME IInv, NEW j \in Jobs
  PROVE  /\ presses[j] \in Nat /\ copies[j] \in Nat /\ copies[j] <= presses[j] /\ presses[j] <= 1
         /\ Clean(job, att, j) => presses[j] = 0 /\ copies[j] = 0
         /\ job[j].status = "cancelled" => Clean(job, att, j)
         /\ job[j].status = "succeeded" => copies[j] > 0
<1>1. presses[j] \in Nat /\ copies[j] \in Nat /\ copies[j] <= presses[j] /\ presses[j] <= 1
  BY DEF IInv, Types, PressOK
<1>2. Clean(job, att, j) => ~ presses[j] > 0
  BY DEF IInv, PressOK
<1>3. job[j].status = "succeeded" => copies[j] > 0
  BY DEF IInv, EvidenceOK
<1>4. job[j].status = "cancelled" => Clean(job, att, j)
  BY DEF Clean
<1> QED
  BY <1>1, <1>2, <1>3, <1>4

LEMMA OnceInit ==
  ASSUME Init
  PROVE  Once!Init
<1>1. \A j \in Jobs : Reported(job[j]) = "open"
  BY ToldValues DEF Init
<1> QED
  BY <1>1 DEF Init, Once!Init

LEMMA OncePress ==
  ASSUME IInv, NEW c \in Clients, Press(c)
  PROVE  \E j \in Jobs : Once!Send(j)
<1>1. PICK j \in Jobs : j = att[held[c]].job
  BY Holds DEF Press
<1>2. /\ About(c, j) /\ presses' = [presses EXCEPT ![j] = @ + 1]
      /\ UNCHANGED <<copies, job>>
  BY <1>1 DEF Press, About, server
<1>3. presses[j] = 0 /\ ~ Clean(job, att, j) /\ job[j].status # "succeeded"
  BY <1>2, Untouched DEF IInv, PressOK
<1>4. Reported(job[j]) = "open"
  BY <1>3, Untouched, ToldValues
<1>5. presses' = [presses EXCEPT ![j] = 1]
  BY <1>2, <1>3 DEF IInv, Types
<1> QED
  BY <1>2, <1>3, <1>4, <1>5 DEF Once!Send

LEMMA OnceReports ==
  ASSUME IInv, Next, UNCHANGED platform
  PROVE  \/ \E j \in Jobs : Once!Confirm(j)
         \/ \E js \in SUBSET Jobs : Once!Withdraw(js)
<1>1. \A j \in Jobs :
         /\ Clean(job', att', j) => Clean(job, att, j)
         /\ job[j].status = "succeeded" => job'[j].status = "succeeded"
         /\ job[j].status = "cancelled" => job'[j].status \in Terminal
         /\ job'[j].status = "succeeded" => copies[j] > 0
         /\ job'[j].status = "cancelled" => Clean(job', att', j)
  BY NextServes, ServedRows DEF Clean
<1>2. \A j \in Jobs : job[j].status = "cancelled" => job'[j].status = "cancelled"
  <2>1. \A j \in Jobs : job[j].status = "cancelled" => copies[j] = 0
    BY Untouched
  <2> QED
    BY <1>1, <2>1 DEF Terminal
<1>3. presses' = presses /\ copies' = copies
  BY DEF platform
<1>4. CASE \E j \in Jobs : job'[j].status = "succeeded" /\ job[j].status # "succeeded"
  <2>1. PICK j \in Jobs : job'[j].status = "succeeded" /\ job[j].status # "succeeded"
    BY <1>4
  <2>2. \A i \in Jobs \ {j} : job'[i] = job[i]
    BY <2>1, OneSucceeds
  <2>3. copies[j] = 1
    BY <1>1, <2>1, Untouched
  <2>4. Reported(job[j]) = "open"
    BY <1>2, <2>1, ToldValues
  <2>5. [i \in Jobs |-> Reported(job'[i])] = [Told EXCEPT ![j] = "uploaded"]
    BY <2>1, <2>2, ToldValues DEF Told
  <2> QED
    BY <1>3, <2>3, <2>4, <2>5 DEF Once!Confirm, Told
<1>5. CASE \A j \in Jobs : job'[j].status = "succeeded" => job[j].status = "succeeded"
  <2> DEFINE js == {j \in Jobs : job'[j].status = "cancelled" /\ job[j].status # "cancelled"}
  <2>1. \A j \in js : presses[j] = 0 /\ Reported(job[j]) = "open"
    BY <1>1, Untouched, ToldValues
  <2>2. \A j \in Jobs : Reported(job'[j]) = IF j \in js THEN "withdrawn" ELSE Reported(job[j])
    BY <1>1, <1>2, <1>5, ToldValues
  <2>3. [j \in Jobs |-> Reported(job'[j])] = [j \in Jobs |-> IF j \in js THEN "withdrawn" ELSE Told[j]]
    BY <2>2 DEF Told
  <2>4. Once!Withdraw(js)
    BY <1>3, <2>1, <2>3 DEF Once!Withdraw, Told
  <2>5. js \in SUBSET Jobs
    OBVIOUS
  <2> HIDE DEF js
  <2> QED
    BY <2>4, <2>5
<1> QED
  BY <1>4, <1>5

\* No publish button is pressed twice, and what jobs report agrees for good with what
\* was sent and arrived, through lapsed leases, restarts of either side, replayed
\* claims, lost answers and aborts: the rows and journals implement UploadOnce.
THEOREM Uploaded == Spec => UploadsOnce
<1>1. Init => Once!Init
  BY OnceInit
<1>2. IInv /\ [Next]_vars => [Once!Next]_(Once!vars)
  <2>1. ASSUME IInv, Next PROVE [Once!Next]_(Once!vars)
    <3>1. CASE \E c \in Clients : Press(c)
      BY <2>1, <3>1, OncePress DEF Once!Next
    <3>2. CASE \E j \in Jobs : Land(j)
      <4>1. PICK j \in Jobs : Land(j)
        BY <3>2
      <4>2. Once!Arrive(j)
        BY <4>1 DEF Land, Once!Arrive, server
      <4> QED
        BY <4>2 DEF Once!Next
    <3>3. CASE UNCHANGED platform
      BY <2>1, <3>3, OnceReports DEF Once!Next
    <3> QED
      BY <2>1, <3>1, <3>2, <3>3, PlatformMoves
  <2>2. ASSUME UNCHANGED vars PROVE [Once!Next]_(Once!vars)
    BY <2>2 DEF vars, server, platform, Once!vars
  <2> QED
    BY <2>1, <2>2
<1> QED
  BY <1>1, <1>2, Invariant, PTL DEF Spec, UploadsOnce, Once!Spec
=============================================================================
