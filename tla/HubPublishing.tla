---------------------------- MODULE HubPublishing ----------------------------
(***************************************************************************)
(* Publishing through publish-hub, an external service: the upload rows of *)
(* one book, the release transaction that stores a request and sends it,   *)
(* and the sync process that sends again what was not answered and mirrors *)
(* the hub's jobs into the rows, by the hub's change feed and by asking.   *)
(*                                                                         *)
(* A request reaches the hub at once, what ForWin writes about it is       *)
(* committed later or lost: each of the two processes has a session with   *)
(* the rows it locked and their uncommitted versions.                      *)
(***************************************************************************)
EXTENDS Naturals, FiniteSets, Functions

CONSTANTS Rows,       \* chapter_upload rows; several may upload one chapter
          Chapter,    \* their chapter numbers
          Book,       \* the create_book row
          Starts,     \* bound: which rows there are, and whether the book exists
          Varying     \* bound: rows whose mode, destination or cover may change

ASSUME BookAssumption == Book \notin Rows /\ Chapter \in [Rows -> Nat \ {0}]
ASSUME StartsAssumption == Starts \subseteq (SUBSET Rows) \X BOOLEAN

VARIABLES row,        \* PublisherUploadJob, as committed
          hub,        \* publish-hub's job for the row's idempotency key
          cache,      \* whether the destinations snapshot has the book's id
          unread,     \* jobs with a change after the committed feed cursor
          session     \* the transactions of the release and of the sync process

vars == <<row, hub, cache, unread, session>>

AllRows == Rows \cup {Book}

-----------------------------------------------------------------------------
(* Rows, jobs and sessions                                                  *)

\* "absent" is for a row that is not there (yet).
Unreleased == {"absent", "scheduled"}

Terminal == {"succeeded", "failed", "cancelled", "superseded"}

RowType == [status  : Unreleased \cup {"pending"} \cup Terminal,
            stored  : BOOLEAN,    \* hub_submit_body_json
            hub     : BOOLEAN,    \* hub_job_id
            rebuilt : BOOLEAN,    \* not the request that the hub's job was made of
            deleted : BOOLEAN]    \* deleted_at

\* "pending" stands for the hub's scheduled, paused and reconciling too: its
\* active statuses, none of which ends a row.
JobStatus == {"none", "pending", "succeeded", "failed", "cancelled"}

Processes == {"release", "sync"}

\* Where a process is.
Places == {"idle", "releasing"}
            \cup {"resend", "resending", "feed", "page", "catchup", "caught"}

\* A session: the rows it has to send, or the jobs of its page; whether it found
\* the hub down in this pass; the rows it has locked, as it has written them.
Closed(at) == [at |-> at, todo |-> {}, down |-> FALSE, draft |-> << >>]

NewRow(status, stored) ==
    [status |-> status, stored |-> stored, hub |-> FALSE, rebuilt |-> FALSE,
     deleted |-> FALSE]

Init == /\ \E start \in Starts :
              /\ row = [r \in AllRows |->
                          NewRow(IF r \in start[1] THEN "scheduled" ELSE "absent", FALSE)]
              /\ cache = start[2]
        /\ hub = [r \in AllRows |-> "none"]
        /\ unread = {}
        /\ session = [release |-> Closed("idle"), sync |-> Closed("resend")]

\* The destination has its book on the platform.
BookExists == cache \/ hub[Book] = "succeeded"

Locked(r) == \E p \in Processes : r \in DOMAIN session[p].draft

\* The rows as a transaction reads them: its own writes, else what is committed.
View(p) == [r \in AllRows |->
               IF r \in DOMAIN session[p].draft THEN session[p].draft[r] ELSE row[r]]

Put(draft, r, rec) == [q \in DOMAIN draft \cup {r} |-> IF q = r THEN rec ELSE draft[q]]

-----------------------------------------------------------------------------
(* publish-hub                                                              *)

\* Mutation: a source_ref of its own for each candidate.
PublicationByRow(r) == {r}

\* source_ref names the chapter, not the candidate.
Publication(r) == IF r = Book THEN {Book} ELSE {q \in Rows : Chapter[q] = Chapter[r]}

\* What the hub may answer the request that rec stores. A key it knows gets its
\* job again. With another request it gets a conflict: then the job is looked up by
\* its key, unless that is refused ("unresolved"). A second job of a publication is
\* refused while one is active, and after one succeeded.
Answers(rec, r) ==
    IF hub[r] # "none" THEN {"known"} \cup (IF rec.rebuilt THEN {"unresolved"} ELSE {})
    ELSE IF \E q \in Publication(r) : hub[q] = "succeeded" THEN {"already"}
    ELSE IF \E q \in Publication(r) : hub[q] = "pending" THEN {"active"}
    ELSE {"accepted", "refused"}

\* A change of a job is an item of the feed.
Moved(r, status) == /\ hub' = [hub EXCEPT ![r] = status]
                    /\ unread' = unread \cup {r}

Accept(r, a) == IF a = "accepted" THEN Moved(r, "pending") ELSE UNCHANGED <<hub, unread>>

\* The hub uploads, gives up, is cancelled, or retries at its operator's wish.
HubWorks(r) ==
    /\ \E s \in JobStatus \ {"none"} :
          /\ s # hub[r]
          /\ \/ hub[r] = "pending"
             \/ hub[r] = "failed" /\ s = "pending"
                /\ \A q \in Publication(r) : hub[q] \notin {"pending", "succeeded"}
          /\ Moved(r, s)
    /\ UNCHANGED <<row, cache, session>>

-----------------------------------------------------------------------------
(* A request and its answer                                                 *)

\* Mutation: a request without an answer is given up.
DeferredFails(rec) == [rec EXCEPT !.status = "failed"]

\* The request stays stored, for the sync to send it again.
Deferred(rec) == [rec EXCEPT !.status = "pending"]

\* Mutation: another candidate's active job is taken for this row's.
AnsweredAdopts(rec, r, a) ==
    CASE a \in {"known", "accepted", "active"} ->
            [rec EXCEPT !.hub = TRUE, !.rebuilt = FALSE, !.status = "pending"]
      [] a = "already" -> [rec EXCEPT !.status = "superseded"]
      [] a \in {"refused", "unresolved"} -> [rec EXCEPT !.status = "failed"]

\* A job is adopted without its terminal status, which only the sync writes.
Answered(rec, r, a) ==
    CASE a \in {"known", "accepted"} ->
            [rec EXCEPT !.hub = TRUE, !.rebuilt = FALSE, !.status = "pending"]
      [] a = "already" -> [rec EXCEPT !.status = "superseded"]
      [] a = "active"  -> Deferred(rec)
      [] a \in {"refused", "unresolved"} -> [rec EXCEPT !.status = "failed"]

\* Process p notes rec for row r and is done with the rows of done.
Note(p, r, rec, done, down) ==
    session' = [session EXCEPT ![p].draft = Put(@, r, rec),
                               ![p].todo = @ \ done,
                               ![p].down = down]

\* The hub answers, and the answer arrives.
Send(p, r, rec, done) ==
    /\ ~ session[p].down
    /\ \E a \in Answers(rec, r) :
          /\ Accept(r, a)
          /\ Note(p, r, Answered(rec, r, a), done, FALSE)

\* No answer: the request, or the answer, is lost, or the hub was found down
\* before in this pass.
SendUnanswered(p, r, rec, done) ==
    /\ \/ UNCHANGED <<hub, unread>>
       \/ ~ session[p].down /\ \E a \in Answers(rec, r) : Accept(r, a)
    /\ Note(p, r, Deferred(rec), done, p = "release")

-----------------------------------------------------------------------------
(* The release gate and the order of chapters                               *)

\* The snapshot and the book's work binding have no platform book id.
BookMissing == ~ cache /\ row[Book].status # "succeeded"

\* A chapter with a succeeded row, a deleted one too, has its platform id in the
\* chapter binding.
Done(view, m) ==
    \E r \in Rows : /\ Chapter[r] = m
                   /\ \/ view[r].status = "succeeded"
                      \/ view[r].status = "superseded" /\ ~ view[r].deleted

\* Mutation: a stored request that the hub has not taken does not count.
BlockedBySent(view, r) ==
    \E q \in Rows : /\ Chapter[q] < Chapter[r]
                   /\ view[q].hub /\ ~ view[q].deleted
                   /\ ~ Done(view, Chapter[q])

\* An earlier chapter was released and is not done.
Blocked(view, r) ==
    \E q \in Rows : /\ Chapter[q] < Chapter[r]
                   /\ view[q].status \notin Unreleased /\ ~ view[q].deleted
                   /\ ~ Done(view, Chapter[q])

-----------------------------------------------------------------------------
(* The release transaction                                                  *)

\* Process p locks the rows of S.
Begin(p, at, todo, S) ==
    session' = [session EXCEPT ![p] = [Closed(at) EXCEPT !.todo = todo,
                                                         !.draft = Restrict(row, S)]]

\* One release runs at a time: the scheduler holds the project's lock.
ReleaseOpens(S) ==
    /\ session["release"].at = "idle" /\ S # {}
    /\ \A r \in S : row[r].status = "scheduled" /\ ~ Locked(r)
    /\ Begin("release", "releasing", S, S)
    /\ UNCHANGED <<row, hub, cache, unread>>

\* The lowest chapter first, as the planner lists them; the book before all.
Number(r) == IF r = Book THEN 0 ELSE Chapter[r]

FirstToDo(p, r) == /\ r \in session[p].todo
               /\ \A q \in session[p].todo : Number(r) <= Number(q)

Releasing(r) == session["release"].at = "releasing" /\ FirstToDo("release", r)

\* The preflight or the gate keeps the row scheduled, or the planner only wanted
\* the gate asked.
Hold(r) ==
    /\ Releasing(r)
    /\ session' = [session EXCEPT !["release"].todo = @ \ {r}]
    /\ UNCHANGED <<row, hub, cache, unread>>

\* When the hub took a request whose commit was lost, the one built now may be
\* another: the mode, the destination or the cover may have been changed since.
Rebuilds(r) == IF hub[r] # "none" /\ r \in Varying THEN BOOLEAN ELSE {FALSE}

\* The first chapter that misses its book has the book's request made and sent.
RequestBook(r) ==
    /\ Releasing(r)
    /\ BookMissing /\ View("release")[Book].status = "absent"
    /\ \E b \in Rebuilds(Book) :
          LET rec == [NewRow("pending", TRUE) EXCEPT !.rebuilt = b]
          IN  Send("release", Book, rec, {r}) \/ SendUnanswered("release", Book, rec, {r})
    /\ UNCHANGED <<row, cache>>

\* The request is stored, and sent if it is the chapter's turn.
Release(r) ==
    /\ Releasing(r)
    /\ ~ BookMissing
    /\ \E b \in Rebuilds(r) :
          LET rec == [View("release")[r] EXCEPT !.stored = TRUE, !.rebuilt = b,
                                                !.status = "pending"]
          IN  IF Blocked(View("release"), r)
              THEN /\ Note("release", r, rec, {r}, session["release"].down)
                   /\ UNCHANGED <<hub, unread>>
              ELSE Send("release", r, rec, {r}) \/ SendUnanswered("release", r, rec, {r})
    /\ UNCHANGED <<row, cache>>

ReleaseCommits ==
    /\ session["release"].at = "releasing" /\ session["release"].todo = {}
    /\ row' = View("release")
    /\ session' = [session EXCEPT !["release"] = Closed("idle")]
    /\ UNCHANGED <<hub, cache, unread>>

\* The process dies, or an exception rolls the whole batch back.
ReleaseFails ==
    /\ session["release"].at = "releasing"
    /\ session' = [session EXCEPT !["release"] = Closed("idle")]
    /\ UNCHANGED <<row, hub, cache, unread>>

-----------------------------------------------------------------------------
(* The operator's requests                                                  *)

\* Refused once the hub may have the request.
Terminate(r) ==
    /\ row[r].status = "scheduled" /\ ~ Locked(r)
    /\ row' = [row EXCEPT ![r].status = "cancelled"]
    /\ UNCHANGED <<hub, cache, unread, session>>

Delete(r) ==
    /\ row[r].status \in Terminal /\ ~ row[r].deleted /\ ~ Locked(r)
    /\ row' = [row EXCEPT ![r].deleted = TRUE]
    /\ UNCHANGED <<hub, cache, unread, session>>

-----------------------------------------------------------------------------
(* A round of the sync process                                              *)

At(at) == session["sync"].at = at

\* Mutation: only chapters are sent again.
UnsentChapter(r) ==
    r # Book /\ row[r].stored /\ ~ row[r].hub /\ row[r].status = "pending" /\ ~ row[r].deleted

\* A stored request without a job.
Unsent(r) == row[r].stored /\ ~ row[r].hub /\ row[r].status = "pending" /\ ~ row[r].deleted

ResendOpens ==
    /\ At("resend")
    /\ LET S == {r \in AllRows : Unsent(r) /\ ~ Locked(r)}
       IN  Begin("sync", IF S = {} THEN "feed" ELSE "resending", S, S)
    /\ UNCHANGED <<row, hub, cache, unread>>

Resending(r) == At("resending") /\ FirstToDo("sync", r)

\* Covers and books are not ordered.
Waits(r) == r # Book /\ Blocked(View("sync"), r)

Resend(r) ==
    /\ Resending(r)
    /\ LET rec == View("sync")[r]
       IN  IF Waits(r)
           THEN /\ Note("sync", r, rec, {r}, FALSE)
                /\ UNCHANGED <<hub, unread>>
           ELSE Send("sync", r, rec, {r})
    /\ UNCHANGED <<row, cache>>

\* The pass ends without an answer, or what comes of it raises and the row is
\* left as it was.
ResendUnanswered(r) ==
    /\ Resending(r) /\ ~ Waits(r)
    /\ \E done \in {{r}, session["sync"].todo} :
          SendUnanswered("sync", r, View("sync")[r], done)
    /\ UNCHANGED <<row, cache>>

ResendCommits ==
    /\ At("resending") /\ session["sync"].todo = {}
    /\ row' = View("sync")
    /\ session' = [session EXCEPT !["sync"] = Closed("feed")]
    /\ UNCHANGED <<hub, cache, unread>>

\* The row as the hub's job has it now; a success is never taken back.
Mirrored(r) ==
    IF row[r].status = "succeeded" THEN row[r] ELSE [row[r] EXCEPT !.status = hub[r]]

\* The rows of S are mirrored, as far as they are in A: an item that cannot be
\* applied is rolled back and skipped.
Mirror(at, jobs, A, next) ==
    session' = [session EXCEPT !["sync"] =
                   IF jobs = {} /\ A = {} THEN Closed(next)
                   ELSE [Closed(at) EXCEPT !.todo = jobs,
                                           !.draft = [r \in A |-> Mirrored(r)]]]

\* The changes after the cursor, of rows whose job id is committed: others name
\* no row and are skipped.
Known == {r \in unread : row[r].hub}

FeedReads(A) ==
    /\ At("feed") /\ \A r \in Known : ~ Locked(r)
    /\ Mirror("page", unread, A, "catchup")
    /\ unread' = {}
    /\ UNCHANGED <<row, hub, cache>>

PageCommits ==
    /\ At("page")
    /\ row' = View("sync")
    /\ session' = [session EXCEPT !["sync"] = Closed("catchup")]
    /\ UNCHANGED <<hub, cache, unread>>

\* Mutation: a failed row is done with.
CaughtUpInFlight(r) == row[r].hub /\ ~ row[r].deleted /\ row[r].status = "pending"

\* A failed job may have been retried by the hub's operator.
CaughtUp(r) == row[r].hub /\ ~ row[r].deleted /\ row[r].status \in {"pending", "failed"}

Due == {r \in AllRows : CaughtUp(r)}

\* Rows the sync has not looked at for some time are asked for.
CatchUp(A) ==
    /\ At("catchup") /\ \A r \in A : ~ Locked(r)
    /\ Mirror("caught", {}, A, "resend")
    /\ UNCHANGED <<row, hub, cache, unread>>

CatchUpCommits ==
    /\ At("caught")
    /\ row' = View("sync")
    /\ session' = [session EXCEPT !["sync"] = Closed("resend")]
    /\ UNCHANGED <<hub, cache, unread>>

\* On some rounds, at their end.
Refresh ==
    /\ At("resend") /\ cache # BookExists
    /\ cache' = BookExists
    /\ UNCHANGED <<row, hub, unread, session>>

\* The hub cannot be reached, or the process dies: the open transaction is rolled
\* back, with it the cursor, and the next round begins.
RoundFails ==
    /\ ~ At("resend")
    /\ unread' = IF At("page") THEN unread \cup session["sync"].todo ELSE unread
    /\ session' = [session EXCEPT !["sync"] = Closed("resend")]
    /\ UNCHANGED <<row, hub, cache>>

-----------------------------------------------------------------------------
\* The release transaction and the operator.
Publisher ==
    \/ \E S \in SUBSET Rows : ReleaseOpens(S)
    \/ \E r \in Rows : Hold(r) \/ RequestBook(r) \/ Release(r)
    \/ ReleaseCommits \/ ReleaseFails
    \/ \E r \in Rows : Terminate(r)
    \/ \E r \in AllRows : Delete(r)

Sync ==
    \/ ResendOpens \/ \E r \in AllRows : Resend(r) \/ ResendUnanswered(r)
    \/ ResendCommits
    \/ \E A \in SUBSET Known : FeedReads(A)
    \/ \E A \in SUBSET Due : CatchUp(A)
    \/ PageCommits \/ CatchUpCommits \/ Refresh \/ RoundFails

Hub == \E r \in AllRows : HubWorks(r)

Next == Publisher \/ Sync \/ Hub

Spec == Init /\ [][Next]_vars

\* What goes wrong for the sync process: a round that ends early, a request with
\* no answer, an item of the feed that cannot be applied.
Fault == \/ RoundFails
         \/ \E r \in AllRows : ResendUnanswered(r)
         \/ \E A \in SUBSET Known \ {Known} : FeedReads(A)

\* The next step of a round, when nothing goes wrong.
RoundAdvances == \/ ResendOpens \/ \E r \in AllRows : Resend(r)
                 \/ ResendCommits \/ FeedReads(Known) \/ PageCommits
                 \/ (\E A \in SUBSET Due : CatchUp(A)) \/ CatchUpCommits

\* A release transaction ends, one way or the other. The sync process goes on
\* round after round (run_forever), and a row it has not looked at for ten
\* minutes is asked for in some round. From some time on nothing goes wrong; the
\* hub itself may leave any job as it is for ever.
Fairness ==
    /\ WF_vars(ReleaseFails)
    /\ WF_vars(RoundAdvances)
    /\ \A r \in AllRows : SF_vars(\E A \in SUBSET Due : r \in A /\ CatchUp(A))
    /\ <>[][~ Fault]_vars

FairSpec == Spec /\ Fairness

-----------------------------------------------------------------------------
(* Properties                                                               *)

\* The types of the variables; and a row that names a job of the hub has its
\* request stored, and the job is its own: the one of its key, never another
\* candidate's.
TypeOK == /\ row \in [AllRows -> RowType]
          /\ hub \in [AllRows -> JobStatus]
          /\ cache \in BOOLEAN
          /\ unread \subseteq AllRows
          /\ \A p \in Processes :
                /\ session[p].at \in Places
                /\ session[p].todo \subseteq AllRows /\ session[p].down \in BOOLEAN
                /\ DOMAIN session[p].draft \subseteq AllRows
                /\ \A r \in DOMAIN session[p].draft : session[p].draft[r] \in RowType
          /\ \A r \in AllRows : row[r].hub => row[r].stored /\ hub[r] # "none"

\* A row that ForWin ended itself, as refused or superseded, has no job in the hub:
\* an answer that was lost, or a commit that was, never ends the row of the request
\* the hub has taken (_defer, recover_unsubmitted). Only another request for the
\* same key, built by a second release after the commit of the first was lost, may
\* leave the job without its row, failed for a person (_unresolved_conflict).
NotDisowned == \A r \in AllRows :
    row[r].status \in {"failed", "superseded"} /\ ~ row[r].hub /\ hub[r] # "none"
    => row[r].status = "failed" /\ row[r].rebuilt

OnPlatform(m) == \E r \in Rows : Chapter[r] = m /\ hub[r] = "succeeded"

\* The hub is given a chapter only when the book exists and each earlier chapter
\* that the sender finds released is on the platform, whichever process sends it
\* and whatever was lost before (release_gate, earlier_chapter_not_done).
InOrder == [][
    \A p \in Processes, r \in Rows :
        hub[r] = "none" /\ hub'[r] # "none" /\ session'[p] # session[p]
        => /\ BookExists
           /\ \A q \in Rows :
                 /\ Chapter[q] < Chapter[r]
                 /\ View(p)[q].status \notin Unreleased /\ ~ View(p)[q].deleted
                 => OnPlatform(Chapter[q])]_vars

Told(r) == IF row[r].status \in {"succeeded", "superseded"} THEN row[r].status ELSE "open"

Promise == INSTANCE ChapterPublication
    WITH out <- {r \in Rows : hub[r] = "succeeded"},
         told <- [r \in Rows |-> Told(r)]

\* The rows implement ChapterPublication: a chapter goes out once, however the
\* requests of its candidates, the answers, an operator's retry and a crash
\* interleave, as the source_ref that ForWin gives the chapter (source_ref_for)
\* makes them one publication; a row says succeeded or superseded only after it
\* did, never takes it back, and one row of a chapter at most says succeeded.
TellsTheTruth == Promise!Spec

InStep(r) == \/ ~ row[r].hub \/ hub[r] \notin {"succeeded", "cancelled"}
             \/ row[r].status = hub[r] \/ row[r].deleted

\* A job that ended for good has its row told, though the feed skips an item whose
\* row does not name the job yet, the cursor passes an item that could not be
\* applied, and the hub's operator retries a job whose row says failed
\* (_apply_page, _catch_up). As neither a name of a job nor such an end changes,
\* "again and again in step" is "at last".
ResultsArrive == \A r \in AllRows : []<> InStep(r)

\* Stored, without a job, and it is its turn.
MaySend(r) == /\ row[r].status = "pending" /\ ~ row[r].hub /\ ~ row[r].deleted
              /\ r # Book => ~ Blocked(row, r)
              /\ "active" \notin Answers(row[r], r)

\* No stored request waits for ever to be sent when its turn has come: not after a
\* crash between the request and the commit, nor when the pass that should have
\* sent it ended early (recover_unsubmitted).
RequestsGoOut == \A r \in AllRows : []<> ~ MaySend(r)
=============================================================================
