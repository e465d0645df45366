------------------------ MODULE HubPublishingProofs ------------------------
(***************************************************************************)
(* Theorems about HubPublishing, for any rows, chapters and starts.        *)
(***************************************************************************)
EXTENDS HubPublishing, TLAPS

(* The inductive invariant *)

\* What a session may hold.
Drafts == UNION {[S -> RowType] : S \in SUBSET AllRows}

SessionType == [at : Places, todo : SUBSET AllRows, down : BOOLEAN, draft : Drafts]

Types == /\ row \in [AllRows -> RowType]
         /\ hub \in [AllRows -> JobStatus]
         /\ cache \in BOOLEAN
         /\ unread \subseteq AllRows
         /\ session \in [Processes -> SessionType]

\* A version rec of row r, committed or not, is true of the hub's jobs h, where k
\* says whether the snapshot has the book's id.
RowOK(rec, r, h, k) ==
    /\ rec.status \in Unreleased => ~ rec.stored /\ ~ rec.hub /\ ~ rec.deleted
    /\ rec.hub => rec.stored /\ h[r] # "none"
    /\ rec.stored /\ r \in Rows => k \/ h[Book] = "succeeded"
    /\ rec.status \in {"failed", "superseded"} /\ ~ rec.hub =>
          h[r] = "none" \/ (rec.status = "failed" /\ rec.rebuilt)
    /\ rec.status = "succeeded" => h[r] = "succeeded"
    /\ rec.status = "superseded" =>
          ~ rec.hub /\ \E q \in Publication(r) : h[q] = "succeeded"

\* One job of a publication at most is active or has succeeded.
OneJob(h) == \A r \in AllRows : \A q \in Publication(r) :
    h[q] \in {"pending", "succeeded"} /\ h[r] \in {"pending", "succeeded"} => q = r

\* A version that will replace row r is true, and takes no final word back.
DraftsOK(p) == \A r \in DOMAIN session[p].draft :
    /\ RowOK(session[p].draft[r], r, hub, cache)
    /\ row[r].status \in {"succeeded", "superseded"} =>
          session[p].draft[r].status = row[r].status

\* What is still to do in the transaction p is as it was committed.
ToDoOK(p) == \A r \in session[p].todo :
    r \in DOMAIN session[p].draft /\ session[p].draft[r] = row[r]

\* The rows of the release have not been released; those of the sync have.
ReleaseOK ==
    LET s == session["release"]
    IN /\ s.at \in {"idle", "releasing"}
       /\ s.at = "idle" => DOMAIN s.draft = {} /\ s.todo = {}
       /\ s.todo \subseteq Rows
       /\ \A r \in DOMAIN s.draft : row[r].status \in Unreleased
       /\ ToDoOK("release")

SyncOK ==
    LET s == session["sync"]
    IN /\ s.at \in {"resend", "resending", "feed", "page", "catchup", "caught"}
       /\ s.at \in {"resend", "feed", "catchup"} => DOMAIN s.draft = {}
       /\ s.at = "resending" => ToDoOK("sync") /\ \A r \in DOMAIN s.draft : Unsent(r)
       /\ s.at \in {"page", "caught"} => \A r \in DOMAIN s.draft : row[r].hub

IInv == /\ Types
        /\ \A r \in AllRows : RowOK(row[r], r, hub, cache)
        /\ OneJob(hub)
        /\ \A p \in Processes : DraftsOK(p)
        /\ ReleaseOK /\ SyncOK

-----------------------------------------------------------------------------
(* Sessions *)

LEMMA DraftFacts ==
  ASSUME NEW d \in Drafts
  PROVE  /\ DOMAIN d \subseteq AllRows /\ d \in [DOMAIN d -> RowType]
         /\ \A r \in DOMAIN d : d[r] \in RowType
BY DEF Drafts

LEMMA DraftPut ==
  ASSUME NEW d \in Drafts, NEW r \in AllRows, NEW rec \in RowType
  PROVE  /\ Put(d, r, rec) \in Drafts
         /\ DOMAIN Put(d, r, rec) = DOMAIN d \cup {r}
         /\ Put(d, r, rec)[r] = rec
         /\ \A q \in DOMAIN d : q # r => Put(d, r, rec)[q] = d[q]
<1>1. DOMAIN d \subseteq AllRows /\ \A q \in DOMAIN d : d[q] \in RowType
  BY DraftFacts
<1>2. Put(d, r, rec) \in [DOMAIN d \cup {r} -> RowType]
  BY <1>1 DEF Put
<1>3. DOMAIN d \cup {r} \in SUBSET AllRows
  BY <1>1
<1> QED
  BY <1>2, <1>3 DEF Put, Drafts

LEMMA ClosedType ==
  ASSUME NEW at \in Places
  PROVE  /\ Closed(at) \in SessionType
         /\ Closed(at).at = at /\ Closed(at).todo = {} /\ Closed(at).down = FALSE
         /\ DOMAIN Closed(at).draft = {}
<1>1. << >> \in [{} -> RowType]
  OBVIOUS
<1>2. << >> \in Drafts
  <2>1. {} \in SUBSET AllRows
    OBVIOUS
  <2> QED
    BY <1>1, <2>1 DEF Drafts
<1> QED
  BY <1>1, <1>2 DEF Closed, SessionType

LEMMA Typed ==
  ASSUME IInv
  PROVE  /\ \A r \in AllRows : row[r] \in RowType /\ hub[r] \in JobStatus
         /\ \A p \in Processes :
               /\ session[p] \in SessionType /\ session[p].draft \in Drafts
               /\ session[p].todo \subseteq AllRows /\ session[p].at \in Places
               /\ session[p].down \in BOOLEAN
               /\ DOMAIN session[p].draft \subseteq AllRows
               /\ \A r \in DOMAIN session[p].draft : session[p].draft[r] \in RowType
               /\ View(p) \in [AllRows -> RowType]
               /\ \A r \in AllRows :
                     View(p)[r] = IF r \in DOMAIN session[p].draft THEN session[p].draft[r]
                                  ELSE row[r]
         /\ Processes = {"release", "sync"} /\ Book \in AllRows /\ Rows \subseteq AllRows
         /\ BookExists \in BOOLEAN
<1>1. \A r \in AllRows : row[r] \in RowType /\ hub[r] \in JobStatus
  BY DEF IInv, Types
<1>2. ASSUME NEW p \in Processes
      PROVE  /\ session[p] \in SessionType /\ session[p].draft \in Drafts
             /\ session[p].todo \subseteq AllRows /\ session[p].at \in Places
             /\ session[p].down \in BOOLEAN
  BY DEF IInv, Types, SessionType
<1>3. ASSUME NEW p \in Processes
      PROVE  /\ DOMAIN session[p].draft \subseteq AllRows
             /\ \A r \in DOMAIN session[p].draft : session[p].draft[r] \in RowType
  BY <1>2, DraftFacts
<1>4. ASSUME NEW p \in Processes
      PROVE  /\ View(p) \in [AllRows -> RowType]
             /\ \A r \in AllRows :
                     View(p)[r] = IF r \in DOMAIN session[p].draft THEN session[p].draft[r]
                                  ELSE row[r]
  BY <1>1, <1>3 DEF View
<1> QED
  BY <1>1, <1>2, <1>3, <1>4 DEF Processes, AllRows, BookExists, IInv, Types

\* A row that one transaction has locked, the other has not.
LEMMA LockedOnce ==
  ASSUME IInv, NEW r \in AllRows
  PROVE  /\ r \in DOMAIN session["release"].draft => row[r].status \in Unreleased
         /\ r \in DOMAIN session["sync"].draft => row[r].status \notin Unreleased
<1>1. RowOK(row[r], r, hub, cache)
  BY DEF IInv
<1>2. r \in DOMAIN session["sync"].draft => row[r].hub \/ Unsent(r)
  BY DEF IInv, SyncOK
<1> QED
  BY <1>1, <1>2 DEF IInv, ReleaseOK, RowOK, Unsent, Unreleased

-----------------------------------------------------------------------------
(* What a step makes of the hub's jobs *)

\* Jobs are there for good, and so is a success; those of S may be new.
Grows(S) ==
    /\ hub' \in [AllRows -> JobStatus] /\ unread' \subseteq AllRows /\ OneJob(hub')
    /\ \A r \in AllRows : /\ hub[r] # "none" => hub'[r] # "none"
                          /\ hub[r] = "succeeded" => hub'[r] = "succeeded"
                          /\ hub[r] = "none" /\ r \notin S => hub'[r] = "none"

LEMMA PublicationFacts ==
  ASSUME NEW r \in AllRows
  PROVE  /\ Publication(r) \subseteq AllRows /\ r \in Publication(r)
         /\ r \in Rows => Publication(r) = {q \in Rows : Chapter[q] = Chapter[r]}
         /\ \A q \in AllRows : q \in Publication(r) <=> r \in Publication(q)
BY BookAssumption DEF Publication, AllRows

LEMMA SameHub ==
  ASSUME IInv, UNCHANGED <<hub, unread>>, NEW S
  PROVE  Grows(S)
BY DEF IInv, Types, Grows

LEMMA AcceptGrows ==
  ASSUME IInv, NEW r \in AllRows, NEW rec, NEW a \in Answers(rec, r), Accept(r, a)
  PROVE  /\ Grows({r})
         /\ a = "accepted" => hub'[r] = "pending"
         /\ a # "accepted" => hub' = hub
<1>1. CASE a # "accepted"
  BY <1>1, SameHub DEF Accept
<1>2. CASE a = "accepted"
  <2>1. hub' = [hub EXCEPT ![r] = "pending"] /\ unread' = unread \cup {r}
    BY <1>2 DEF Accept, Moved
  <2>2. hub[r] = "none" /\ \A q \in Publication(r) : hub[q] \notin {"pending", "succeeded"}
    BY <1>2 DEF Answers
  <2>3. /\ hub' \in [AllRows -> JobStatus] /\ hub'[r] = "pending"
        /\ \A q \in AllRows \ {r} : hub'[q] = hub[q]
    BY <2>1 DEF IInv, Types, JobStatus
  <2>4. OneJob(hub')
    <3>1. SUFFICES ASSUME NEW x \in AllRows, NEW q \in Publication(x),
                          hub'[q] \in {"pending", "succeeded"}, hub'[x] \in {"pending", "succeeded"}
                   PROVE  q = x
      BY DEF OneJob
    <3>2. q \in AllRows
      BY PublicationFacts
    <3>3. CASE x = r
      BY <2>2, <2>3, <3>1, <3>2, <3>3
    <3>4. CASE q = r
      <4>1. x \in Publication(r)
        BY <3>1, <3>2, <3>4, PublicationFacts
      <4> QED
        BY <2>2, <2>3, <3>1, <3>4, <4>1
    <3>5. CASE x # r /\ q # r
      BY <2>3, <3>1, <3>2, <3>5 DEF IInv, OneJob
    <3> QED
      BY <3>3, <3>4, <3>5
  <2>5. unread' \subseteq AllRows
    BY <2>1 DEF IInv, Types
  <2> QED
    BY <1>2, <2>2, <2>3, <2>4, <2>5 DEF Grows
<1> QED
  BY <1>1, <1>2

\* What is true of a version stays so.
LEMMA RowGrows ==
  ASSUME IInv, NEW S, Grows(S), BookExists => BookExists',
         NEW r \in AllRows, NEW rec, RowOK(rec, r, hub, cache),
         r \notin S \/ rec.status \notin {"failed", "superseded"} \/ rec.hub
  PROVE  RowOK(rec, r, hub', cache')
<1>1. \A q \in Publication(r) : q \in AllRows
  BY PublicationFacts
<1> QED
  BY <1>1 DEF RowOK, Grows, BookExists

-----------------------------------------------------------------------------
(* A request is noted in the session that sends it *)

LEMMA Noted ==
  ASSUME IInv, NEW p \in Processes, NEW r \in AllRows, NEW rec \in RowType, NEW done,
         NEW down \in BOOLEAN, Note(p, r, rec, done, down)
  PROVE  /\ session' \in [Processes -> SessionType]
         /\ \A q \in Processes \ {p} : session'[q] = session[q]
         /\ session'[p].at = session[p].at
         /\ session'[p].todo = session[p].todo \ done
         /\ DOMAIN session'[p].draft = DOMAIN session[p].draft \cup {r}
         /\ session'[p].draft[r] = rec
         /\ \A q \in DOMAIN session[p].draft : q # r =>
               session'[p].draft[q] = session[p].draft[q]
<1> DEFINE new == [session[p] EXCEPT !.draft = Put(session[p].draft, r, rec),
                                     !.todo = session[p].todo \ done, !.down = down]
<1>1. session[p] \in SessionType /\ session[p].draft \in Drafts
      /\ session \in [Processes -> SessionType]
  BY Typed DEF IInv, Types
<1>2. Put(session[p].draft, r, rec) \in Drafts
  BY <1>1, DraftPut
<1>3. session' = [session EXCEPT ![p] = new]
  BY DEF Note
<1>4. /\ new \in SessionType /\ new.at = session[p].at /\ new.todo = session[p].todo \ done
      /\ new.draft = Put(session[p].draft, r, rec)
  BY <1>1, <1>2 DEF SessionType
<1> HIDE DEF new
<1>5. session' \in [Processes -> SessionType] /\ session'[p] = new
      /\ \A q \in Processes \ {p} : session'[q] = session[q]
  BY <1>1, <1>3, <1>4
<1>6. /\ session'[p].draft = Put(session[p].draft, r, rec)
      /\ session'[p].at = session[p].at /\ session'[p].todo = session[p].todo \ done
  BY <1>4, <1>5
<1>7. /\ DOMAIN Put(session[p].draft, r, rec) = DOMAIN session[p].draft \cup {r}
      /\ Put(session[p].draft, r, rec)[r] = rec
      /\ \A q \in DOMAIN session[p].draft : q # r =>
            Put(session[p].draft, r, rec)[q] = session[p].draft[q]
  BY <1>1, DraftPut
<1> QED
  BY <1>5, <1>6, <1>7

\* A process notes a true version of a row it has locked, or locks now.
LEMMA NoteInv ==
  ASSUME IInv, NEW p \in Processes, NEW r \in AllRows, NEW rec \in RowType, NEW done,
         r \in done \/ r \notin session[p].todo, NEW down \in BOOLEAN,
         Note(p, r, rec, done, down),
         Grows({r}), UNCHANGED <<row, cache>>, RowOK(rec, r, hub', cache'),
         row[r].status \in Unreleased \cup {"pending"},
         \/ p = "release" /\ session[p].at = "releasing" /\ row[r].status \in Unreleased
         \/ p = "sync" /\ session[p].at = "resending" /\ Unsent(r)
  PROVE  IInv'
<1>1. /\ session' \in [Processes -> SessionType]
      /\ \A q \in Processes \ {p} : session'[q] = session[q]
      /\ session'[p].at = session[p].at
      /\ session'[p].todo = session[p].todo \ done
      /\ DOMAIN session'[p].draft = DOMAIN session[p].draft \cup {r}
      /\ session'[p].draft[r] = rec
      /\ \A q \in DOMAIN session[p].draft : q # r =>
            session'[p].draft[q] = session[p].draft[q]
  BY Noted
<1>2. /\ \A q \in AllRows : row[q] \in RowType
      /\ \A q \in Processes : DOMAIN session[q].draft \subseteq AllRows
      /\ Processes = {"release", "sync"}
  BY Typed
<1>3. BookExists => BookExists'
  BY Typed DEF Grows, BookExists
<1>4. Types'
  BY <1>1 DEF IInv, Types, Grows
<1>5. \A q \in AllRows : RowOK(row[q], q, hub', cache')
  <2>1. row[r].status \notin {"failed", "superseded"}
    BY DEF Unreleased
  <2>2. \A q \in AllRows : RowOK(row[q], q, hub, cache)
    BY DEF IInv
  <2> QED
    BY <1>3, <2>1, <2>2, RowGrows
<1>6. OneJob(hub)'
  BY DEF Grows, OneJob
<1>7. \A q \in Processes \ {p} : r \notin DOMAIN session[q].draft
  <2>1. Unsent(r) => row[r].status \notin Unreleased
    BY DEF Unsent, Unreleased
  <2> QED
    BY <1>2, <2>1, LockedOnce
<1>8. ASSUME NEW q \in Processes PROVE DraftsOK(q)'
  <2>1. ASSUME NEW x \in DOMAIN session'[q].draft
        PROVE  /\ RowOK(session'[q].draft[x], x, hub', cache')
               /\ row[x].status \in {"succeeded", "superseded"} =>
                     session'[q].draft[x].status = row[x].status
    <3>1. CASE q = p /\ x = r
      BY <1>1, <3>1 DEF Unreleased
    <3>2. CASE ~ (q = p /\ x = r)
      <4>1. x # r /\ x \in DOMAIN session[q].draft /\ session'[q].draft[x] = session[q].draft[x]
        BY <1>1, <1>7, <2>1, <3>2
      <4>2. x \in AllRows /\ DraftsOK(q)
        BY <1>2, <4>1 DEF IInv
      <4> QED
        BY <1>3, <4>1, <4>2, RowGrows DEF DraftsOK
    <3> QED
      BY <3>1, <3>2
  <2> QED
    BY <2>1 DEF DraftsOK
<1>9. ToDoOK(p) /\ ToDoOK(p)' /\ session'[p].todo \subseteq session[p].todo
  <2>1. ToDoOK(p)
    BY DEF IInv, ReleaseOK, SyncOK
  <2> QED
    BY <1>1, <2>1 DEF ToDoOK
<1>10. ReleaseOK'
  <2>1. CASE p = "release"
    BY <1>1, <1>9, <2>1 DEF IInv, ReleaseOK
  <2>2. CASE p = "sync"
    BY <1>1, <1>2, <2>2 DEF IInv, ReleaseOK, ToDoOK
  <2> QED
    BY <1>2, <2>1, <2>2
<1>11. SyncOK'
  <2>1. CASE p = "release"
    BY <1>1, <1>2, <2>1 DEF IInv, SyncOK, ToDoOK, Unsent
  <2>2. CASE p = "sync"
    BY <1>1, <1>9, <2>2 DEF IInv, SyncOK, Unsent
  <2> QED
    BY <1>2, <2>1, <2>2
<1> QED
  BY <1>4, <1>5, <1>6, <1>8, <1>10, <1>11 DEF IInv

\* What the hub answers makes a true version of a stored request.
LEMMA AnsweredOK ==
  ASSUME IInv, NEW r \in AllRows, NEW rec \in RowType, rec.stored, ~ rec.hub,
         r \in Rows => BookExists, NEW a \in Answers(rec, r), Accept(r, a), UNCHANGED cache
  PROVE  /\ Answered(rec, r, a) \in RowType /\ RowOK(Answered(rec, r, a), r, hub', cache')
         /\ Deferred(rec) \in RowType /\ RowOK(Deferred(rec), r, hub', cache')
<1>1. /\ Grows({r})
      /\ a = "accepted" => hub'[r] = "pending"
      /\ a # "accepted" => hub' = hub
  BY AcceptGrows
<1>2. r \in Rows => cache' \/ hub'[Book] = "succeeded"
  BY <1>1, Typed DEF BookExists, Grows
<1>3. \A s \in {"pending", "superseded", "failed"} :
         /\ [rec EXCEPT !.status = s] \in RowType
         /\ [rec EXCEPT !.status = s].status = s /\ [rec EXCEPT !.status = s].stored
         /\ ~ [rec EXCEPT !.status = s].hub
  BY DEF RowType, Terminal
<1>4. Deferred(rec) \in RowType /\ RowOK(Deferred(rec), r, hub', cache')
  BY <1>2, <1>3 DEF Deferred, RowOK, Unreleased
<1>5. Answered(rec, r, a) \in RowType /\ RowOK(Answered(rec, r, a), r, hub', cache')
  <2>1. CASE a \in {"known", "accepted"}
    <3> DEFINE new == [rec EXCEPT !.hub = TRUE, !.rebuilt = FALSE, !.status = "pending"]
    <3>1. Answered(rec, r, a) = new
      BY <2>1 DEF Answered
    <3>2. new \in RowType /\ new.status = "pending" /\ new.stored
      BY DEF RowType
    <3>3. hub'[r] # "none"
      BY <1>1, <2>1 DEF Answers
    <3> HIDE DEF new
    <3> QED
      BY <1>2, <3>1, <3>2, <3>3 DEF RowOK, Unreleased
  <2>2. CASE a = "already"
    <3>1. Answered(rec, r, a) = [rec EXCEPT !.status = "superseded"]
      BY <2>2 DEF Answered
    <3>2. hub' = hub /\ hub[r] = "none" /\ \E q \in Publication(r) : hub[q] = "succeeded"
      BY <1>1, <2>2 DEF Answers
    <3> QED
      BY <1>2, <1>3, <3>1, <3>2 DEF RowOK, Unreleased
  <2>3. CASE a = "active"
    BY <1>4, <2>3 DEF Answered
  <2>4. CASE a = "refused"
    <3>1. Answered(rec, r, a) = [rec EXCEPT !.status = "failed"]
      BY <2>4 DEF Answered
    <3>2. hub' = hub /\ hub[r] = "none"
      BY <1>1, <2>4 DEF Answers
    <3> QED
      BY <1>2, <1>3, <3>1, <3>2 DEF RowOK, Unreleased
  <2>5. CASE a = "unresolved"
    <3>1. Answered(rec, r, a) = [rec EXCEPT !.status = "failed"]
      BY <2>5 DEF Answered
    <3>2. rec.rebuilt /\ [rec EXCEPT !.status = "failed"].rebuilt = rec.rebuilt
      BY <2>5 DEF Answers, RowType
    <3> QED
      BY <1>2, <1>3, <3>1, <3>2 DEF RowOK, Unreleased
  <2> QED
    BY <2>1, <2>2, <2>3, <2>4, <2>5 DEF Answers
<1> QED
  BY <1>4, <1>5

LEMMA DeferredOK ==
  ASSUME IInv, NEW r \in AllRows, NEW rec \in RowType, rec.stored, ~ rec.hub,
         r \in Rows => BookExists, UNCHANGED <<hub, unread, cache>>
  PROVE  Deferred(rec) \in RowType /\ RowOK(Deferred(rec), r, hub', cache')
<1>1. /\ Deferred(rec) \in RowType /\ Deferred(rec).status = "pending"
      /\ Deferred(rec).stored /\ ~ Deferred(rec).hub
  BY DEF RowType, Deferred
<1> QED
  BY <1>1 DEF RowOK, Unreleased, BookExists

\* A request of one of the two processes, with an answer or without.
LEMMA SendInv ==
  ASSUME IInv, NEW p \in Processes, NEW r \in AllRows, NEW rec \in RowType, NEW done,
         r \in done \/ r \notin session[p].todo, rec.stored, ~ rec.hub, r \in Rows => BookExists,
         Send(p, r, rec, done) \/ SendUnanswered(p, r, rec, done),
         UNCHANGED <<row, cache>>,
         row[r].status \in Unreleased \cup {"pending"},
         \/ p = "release" /\ session[p].at = "releasing" /\ row[r].status \in Unreleased
         \/ p = "sync" /\ session[p].at = "resending" /\ Unsent(r)
  PROVE  IInv'
<1>1. CASE Send(p, r, rec, done)
  <2>1. PICK a \in Answers(rec, r) : Accept(r, a) /\ Note(p, r, Answered(rec, r, a), done, FALSE)
    BY <1>1 DEF Send
  <2>2. Answered(rec, r, a) \in RowType /\ RowOK(Answered(rec, r, a), r, hub', cache')
    BY <2>1, AnsweredOK
  <2>3. Grows({r}) /\ FALSE \in BOOLEAN
    BY <2>1, AcceptGrows
  <2> QED
    BY <2>1, <2>2, <2>3, NoteInv
<1>2. CASE SendUnanswered(p, r, rec, done)
  <2>1. /\ Note(p, r, Deferred(rec), done, p = "release") /\ (p = "release") \in BOOLEAN
        /\ UNCHANGED <<hub, unread>> \/ \E a \in Answers(rec, r) : Accept(r, a)
    BY <1>2 DEF SendUnanswered
  <2>2. Deferred(rec) \in RowType /\ RowOK(Deferred(rec), r, hub', cache')
    BY <2>1, DeferredOK, AnsweredOK
  <2>3. Grows({r})
    BY <2>1, AcceptGrows, SameHub
  <2> QED
    BY <2>1, <2>2, <2>3, NoteInv
<1> QED
  BY <1>1, <1>2

-----------------------------------------------------------------------------
(* The other steps *)

\* A transaction ends, committed or rolled back.
LEMMA CloseInv ==
  ASSUME IInv, NEW p \in Processes, NEW at \in Places,
         session' = [session EXCEPT ![p] = Closed(at)],
         row' = View(p) \/ row' = row, UNCHANGED <<hub, cache>>, unread' \subseteq AllRows,
         \/ p = "release" /\ at = "idle"
         \/ p = "sync" /\ at \in {"resend", "feed", "catchup"}
  PROVE  IInv'
<1>1. /\ session' \in [Processes -> SessionType] /\ session'[p] = Closed(at)
      /\ \A q \in Processes \ {p} : session'[q] = session[q]
  BY ClosedType DEF IInv, Types
<1>2. /\ session'[p].at = at /\ session'[p].todo = {} /\ DOMAIN session'[p].draft = {}
  BY <1>1, ClosedType
<1>3. /\ Processes = {"release", "sync"}
      /\ \A q \in Processes : DOMAIN session[q].draft \subseteq AllRows
      /\ View(p) \in [AllRows -> RowType] /\ row \in [AllRows -> RowType]
      /\ \A r \in AllRows : View(p)[r] = IF r \in DOMAIN session[p].draft
                                         THEN session[p].draft[r] ELSE row[r]
  BY Typed DEF IInv, Types
<1>4. /\ row' \in [AllRows -> RowType]
      /\ \A r \in AllRows :
            \/ row'[r] = row[r]
            \/ r \in DOMAIN session[p].draft /\ row'[r] = session[p].draft[r]
  <2>1. CASE row' = View(p)
    <3>1. \A r \in AllRows : row'[r] = IF r \in DOMAIN session[p].draft
                                       THEN session[p].draft[r] ELSE row[r]
      BY <1>3, <2>1
    <3>2. row' \in [AllRows -> RowType]
      BY <1>3, <2>1
    <3> QED
      BY <3>1, <3>2
  <2>2. CASE row' = row
    BY <1>3, <2>2
  <2> QED
    BY <2>1, <2>2
<1>5. Types'
  BY <1>1, <1>4 DEF IInv, Types
<1>6. \A r \in AllRows : RowOK(row'[r], r, hub', cache')
  <2>1. \A r \in AllRows : RowOK(row[r], r, hub, cache)
    BY DEF IInv
  <2>2. \A r \in DOMAIN session[p].draft : RowOK(session[p].draft[r], r, hub, cache)
    BY DEF IInv, DraftsOK
  <2>3. hub' = hub /\ cache' = cache
    OBVIOUS
  <2> QED
    BY <1>4, <2>1, <2>2, <2>3
<1>7. OneJob(hub)'
  BY DEF IInv, OneJob
<1>8. \A q \in Processes \ {p} : \A r \in DOMAIN session[q].draft : row'[r] = row[r]
  BY <1>3, <1>4, LockedOnce
<1>9. ASSUME NEW q \in Processes PROVE DraftsOK(q)'
  <2>1. CASE q = p
    BY <1>2, <2>1 DEF DraftsOK
  <2>2. CASE q # p
    BY <1>1, <1>8, <2>2 DEF IInv, DraftsOK
  <2> QED
    BY <2>1, <2>2
<1>10. ReleaseOK'
  <2>1. CASE p = "release"
    BY <1>2, <2>1 DEF ReleaseOK, ToDoOK
  <2>2. CASE p = "sync"
    <3>1. session'["release"] = session["release"]
      BY <1>1, <1>3, <2>2
    <3>2. \A r \in DOMAIN session["release"].draft : row'[r] = row[r]
      BY <1>3, <1>8, <2>2
    <3> QED
      BY <3>1, <3>2 DEF IInv, ReleaseOK, ToDoOK
  <2> QED
    BY <1>3, <2>1, <2>2
<1>11. SyncOK'
  <2>1. CASE p = "release"
    <3>1. session'["sync"] = session["sync"]
      BY <1>1, <1>3, <2>1
    <3>2. \A r \in DOMAIN session["sync"].draft : row'[r] = row[r]
      BY <1>3, <1>8, <2>1
    <3> QED
      BY <3>1, <3>2 DEF IInv, SyncOK, ToDoOK, Unsent
  <2>2. CASE p = "sync"
    BY <1>2, <2>2 DEF SyncOK
  <2> QED
    BY <1>3, <2>1, <2>2
<1> QED
  BY <1>5, <1>6, <1>7, <1>9, <1>10, <1>11 DEF IInv

\* The hub moves on, or the snapshot is refreshed.
LEMMA HubInv ==
  ASSUME IInv, UNCHANGED <<row, session>>, Grows({}), BookExists => BookExists',
         cache' \in BOOLEAN
  PROVE  IInv'
<1>1. Types'
  BY DEF IInv, Types, Grows
<1>2. \A r \in AllRows : RowOK(row[r], r, hub, cache)'
  BY RowGrows DEF IInv
<1>3. \A p \in Processes : DraftsOK(p)'
  <2>1. \A p \in Processes : DOMAIN session[p].draft \subseteq AllRows
    BY Typed
  <2> QED
    BY <2>1, RowGrows DEF IInv, DraftsOK
<1>4. OneJob(hub)' /\ ReleaseOK' /\ SyncOK'
  BY DEF IInv, Grows, OneJob, ReleaseOK, SyncOK, ToDoOK, Unsent
<1>5. \A r \in AllRows : RowOK(row[r], r, hub, cache)' <=> RowOK(row'[r], r, hub', cache')
  BY DEF RowOK, Publication
<1> QED
  BY <1>1, <1>2, <1>3, <1>4, <1>5 DEF IInv

\* A row nobody has locked gets a true version.
LEMMA RowInv ==
  ASSUME IInv, NEW r \in AllRows, ~ Locked(r), NEW rec \in RowType,
         row' = [row EXCEPT ![r] = rec], UNCHANGED <<hub, cache, unread, session>>,
         RowOK(rec, r, hub, cache)
  PROVE  IInv'
<1>1. row' \in [AllRows -> RowType] /\ row'[r] = rec /\ \A q \in AllRows \ {r} : row'[q] = row[q]
  BY DEF IInv, Types
<1>2. \A p \in Processes : r \notin DOMAIN session[p].draft /\ DOMAIN session[p].draft \subseteq AllRows
  BY Typed DEF Locked
<1>3. \A p \in Processes : \A q \in DOMAIN session[p].draft : row'[q] = row[q]
  BY <1>1, <1>2
<1>4. Types'
  BY <1>1 DEF IInv, Types
<1>5. \A q \in AllRows : RowOK(row'[q], q, hub', cache')
  <2>1. \A q \in AllRows : RowOK(row[q], q, hub, cache)
    BY DEF IInv
  <2>2. hub' = hub /\ cache' = cache
    OBVIOUS
  <2> QED
    BY <1>1, <2>1, <2>2
<1>6. \A p \in Processes : DraftsOK(p)'
  BY <1>3 DEF IInv, DraftsOK
<1>7. ReleaseOK' /\ SyncOK' /\ OneJob(hub)'
  BY <1>3, Typed DEF IInv, ReleaseOK, SyncOK, ToDoOK, Unsent, OneJob
<1> QED
  BY <1>4, <1>5, <1>6, <1>7 DEF IInv

\* A transaction begins.
LEMMA OpenInv ==
  ASSUME IInv, NEW p \in Processes, NEW new \in SessionType,
         session' = [session EXCEPT ![p] = new], UNCHANGED <<row, hub, cache>>,
         unread' \subseteq AllRows,
         \A r \in DOMAIN new.draft :
            /\ RowOK(new.draft[r], r, hub, cache)
            /\ row[r].status \in {"succeeded", "superseded"} => new.draft[r].status = row[r].status,
         \/ /\ p = "release" /\ new.at = "releasing" /\ new.todo \subseteq Rows
            /\ \A r \in new.todo : r \in DOMAIN new.draft /\ new.draft[r] = row[r]
            /\ \A r \in DOMAIN new.draft : row[r].status \in Unreleased
         \/ /\ p = "sync" /\ new.at = "resending"
            /\ \A r \in new.todo : r \in DOMAIN new.draft /\ new.draft[r] = row[r]
            /\ \A r \in DOMAIN new.draft : Unsent(r)
         \/ p = "sync" /\ new.at \in {"page", "caught"} /\ \A r \in DOMAIN new.draft : row[r].hub
         \/ p = "sync" /\ new.at = "feed" /\ DOMAIN new.draft = {}
  PROVE  IInv'
<1>1. /\ session' \in [Processes -> SessionType] /\ session'[p] = new
      /\ \A q \in Processes \ {p} : session'[q] = session[q]
  BY DEF IInv, Types
<1>2. Processes = {"release", "sync"}
  BY Typed
<1>3. Types'
  BY <1>1 DEF IInv, Types
<1>4. \A r \in AllRows : RowOK(row'[r], r, hub', cache')
  <2>1. \A r \in AllRows : RowOK(row[r], r, hub, cache)
    BY DEF IInv
  <2>2. hub' = hub /\ cache' = cache /\ row' = row
    OBVIOUS
  <2> QED
    BY <2>1, <2>2
<1>5. ASSUME NEW q \in Processes PROVE DraftsOK(q)'
  <2>1. CASE q = p
    BY <1>1, <2>1 DEF DraftsOK
  <2>2. CASE q # p
    BY <1>1, <2>2 DEF IInv, DraftsOK
  <2> QED
    BY <2>1, <2>2
<1>6. ReleaseOK'
  <2>1. CASE p = "release"
    BY <1>1, <2>1 DEF ReleaseOK, ToDoOK
  <2>2. CASE p = "sync"
    BY <1>1, <1>2, <2>2 DEF IInv, ReleaseOK, ToDoOK
  <2> QED
    BY <1>2, <2>1, <2>2
<1>7. SyncOK'
  <2>1. CASE p = "release"
    BY <1>1, <1>2, <2>1 DEF IInv, SyncOK, ToDoOK, Unsent
  <2>2. CASE p = "sync"
    BY <1>1, <2>2 DEF SyncOK, ToDoOK, Unsent
  <2> QED
    BY <1>2, <2>1, <2>2
<1>8. OneJob(hub)'
  BY DEF IInv, OneJob
<1> QED
  BY <1>3, <1>4, <1>5, <1>6, <1>7, <1>8 DEF IInv

-----------------------------------------------------------------------------
(* Each action *)

\* What a transaction has to do is as it was committed, with a true version.
LEMMA ToDoFacts ==
  ASSUME IInv, NEW p \in Processes, NEW r \in session[p].todo,
         p = "release" \/ session[p].at = "resending"
  PROVE  /\ r \in AllRows /\ r \in DOMAIN session[p].draft /\ View(p)[r] = row[r]
         /\ row[r] \in RowType /\ RowOK(row[r], r, hub, cache)
         /\ p = "release" => /\ r \in Rows /\ row[r].status \in Unreleased
                             /\ session[p].at = "releasing"
         /\ p = "sync" => Unsent(r)
<1>1. r \in AllRows /\ row[r] \in RowType /\ RowOK(row[r], r, hub, cache)
  BY Typed DEF IInv
<1>2. CASE p = "release"
  <2>1. /\ r \in Rows /\ r \in DOMAIN session[p].draft /\ session[p].draft[r] = row[r]
        /\ row[r].status \in Unreleased /\ session[p].at = "releasing"
    BY <1>2 DEF IInv, ReleaseOK, ToDoOK
  <2> QED
    BY <1>1, <1>2, <2>1, Typed
<1>3. CASE p = "sync"
  <2>1. r \in DOMAIN session[p].draft /\ session[p].draft[r] = row[r] /\ Unsent(r)
    BY <1>3 DEF IInv, SyncOK, ToDoOK
  <2> QED
    BY <1>1, <1>3, <2>1, Typed
<1> QED
  BY <1>2, <1>3, Typed

\* The locked rows, as committed.
Opened(at, S) == [Closed(at) EXCEPT !.todo = S, !.draft = Restrict(row, S)]

LEMMA OpenDraft ==
  ASSUME IInv, NEW at \in Places, NEW S \in SUBSET AllRows
  PROVE  /\ Opened(at, S) \in SessionType /\ Opened(at, S).at = at
         /\ Opened(at, S).todo = S /\ DOMAIN Opened(at, S).draft = S
         /\ \A r \in S : Opened(at, S).draft[r] = row[r]
<1>1. row \in [AllRows -> RowType]
  BY DEF IInv, Types
<1>2. Restrict(row, S) = [r \in S |-> row[r]]
  BY DEF Restrict
<1>3. Restrict(row, S) \in Drafts
  BY <1>1, <1>2 DEF Drafts
<1>4. Closed(at) \in SessionType /\ Closed(at).at = at
  BY ClosedType
<1>5. /\ Opened(at, S) \in SessionType /\ Opened(at, S).at = at
      /\ Opened(at, S).todo = S /\ Opened(at, S).draft = Restrict(row, S)
  BY <1>3, <1>4 DEF SessionType, Opened
<1> QED
  BY <1>2, <1>5

LEMMA InvReleaseOpens == ASSUME IInv, NEW S \in SUBSET Rows, ReleaseOpens(S) PROVE IInv'
<1>1. "release" \in Processes /\ "releasing" \in Places /\ S \in SUBSET AllRows
  BY DEF Processes, Places, AllRows
<1>2. PICK new : new = Opened("releasing", S)
  OBVIOUS
<1>3. session' = [session EXCEPT !["release"] = new] /\ UNCHANGED <<row, hub, cache, unread>>
  BY <1>2 DEF ReleaseOpens, Begin, Opened
<1>4. /\ new \in SessionType /\ new.at = "releasing" /\ new.todo = S /\ DOMAIN new.draft = S
      /\ \A r \in S : new.draft[r] = row[r]
  BY <1>1, <1>2, OpenDraft
<1>5. \A r \in S : row[r].status = "scheduled" /\ RowOK(row[r], r, hub, cache)
  BY <1>1 DEF IInv, ReleaseOpens
<1>6. unread' \subseteq AllRows
  BY <1>3 DEF IInv, Types
<1>7. \A r \in DOMAIN new.draft :
         /\ RowOK(new.draft[r], r, hub, cache)
         /\ row[r].status \in {"succeeded", "superseded"} => new.draft[r].status = row[r].status
         /\ row[r].status \in Unreleased
  BY <1>4, <1>5 DEF Unreleased
<1> QED
  BY <1>1, <1>3, <1>4, <1>6, <1>7, OpenInv

LEMMA InvHold == ASSUME IInv, NEW r \in Rows, Hold(r) PROVE IInv'
<1>1. session["release"] \in SessionType /\ session \in [Processes -> SessionType]
      /\ Processes = {"release", "sync"}
  BY Typed DEF IInv, Types
<1>2. PICK new : new = [session["release"] EXCEPT !.todo = session["release"].todo \ {r}]
  OBVIOUS
<1>3. session' = [session EXCEPT !["release"] = new] /\ UNCHANGED <<row, hub, cache, unread>>
  BY <1>2 DEF Hold
<1>4. /\ new \in SessionType /\ new.at = session["release"].at
      /\ new.todo = session["release"].todo \ {r} /\ new.draft = session["release"].draft
  BY <1>1, <1>2 DEF SessionType
<1>5. /\ session' \in [Processes -> SessionType] /\ session'["release"] = new
      /\ session'["sync"] = session["sync"]
  BY <1>1, <1>3, <1>4
<1>6. \A p \in Processes : session'[p].draft = session[p].draft
  BY <1>1, <1>4, <1>5
<1>7. Types' /\ OneJob(hub)' /\ \A q \in AllRows : RowOK(row'[q], q, hub', cache')
  BY <1>3, <1>5 DEF IInv, Types, OneJob
<1>8. \A p \in Processes : DraftsOK(p)'
  BY <1>3, <1>6 DEF IInv, DraftsOK
<1>9. ReleaseOK'
  BY <1>3, <1>4, <1>5 DEF IInv, ReleaseOK, ToDoOK
<1>10. SyncOK'
  BY <1>3, <1>5 DEF IInv, SyncOK, ToDoOK, Unsent
<1> QED
  BY <1>7, <1>8, <1>9, <1>10 DEF IInv

LEMMA NewRowType ==
  /\ NewRow("pending", TRUE) \in RowType /\ NewRow("pending", TRUE).stored
  /\ ~ NewRow("pending", TRUE).hub /\ NewRow("pending", TRUE).status = "pending"
BY DEF NewRow, RowType

\* Without a row, the book has no request.
LEMMA InvRequestBook == ASSUME IInv, NEW r \in Rows, RequestBook(r) PROVE IInv'
<1>1. "release" \in Processes /\ Book \in AllRows /\ Book \notin Rows
  BY BookAssumption DEF Processes, AllRows
<1>2. session["release"].at = "releasing"
  BY DEF RequestBook, Releasing
<1>3. Book \notin session["release"].todo
  BY <1>1 DEF IInv, ReleaseOK
<1>4. row[Book].status \in Unreleased
  <2>1. View("release")[Book].status = "absent"
    BY DEF RequestBook
  <2>2. CASE Book \in DOMAIN session["release"].draft
    BY <1>1, <2>2, LockedOnce
  <2>3. CASE Book \notin DOMAIN session["release"].draft
    <3>1. View("release")[Book] = row[Book]
      BY <1>1, <2>3, Typed
    <3> QED
      BY <2>1, <3>1 DEF Unreleased
  <2> QED
    BY <2>2, <2>3
<1>5. PICK rec :
         /\ \E b \in Rebuilds(Book) : rec = [NewRow("pending", TRUE) EXCEPT !.rebuilt = b]
         /\ Send("release", Book, rec, {r}) \/ SendUnanswered("release", Book, rec, {r})
  BY DEF RequestBook
<1>6. rec \in RowType /\ rec.stored /\ ~ rec.hub
  BY <1>5, NewRowType DEF RowType, Rebuilds
<1>7. UNCHANGED <<row, cache>>
  BY DEF RequestBook
<1> QED
  BY <1>1, <1>2, <1>3, <1>4, <1>5, <1>6, <1>7, SendInv

LEMMA InvRelease == ASSUME IInv, NEW r \in Rows, Release(r) PROVE IInv'
<1>1. "release" \in Processes /\ r \in AllRows
  BY DEF Processes, AllRows
<1>2. session["release"].at = "releasing" /\ r \in session["release"].todo
  BY DEF Release, Releasing, FirstToDo
<1>3. /\ View("release")[r] = row[r] /\ row[r] \in RowType /\ RowOK(row[r], r, hub, cache)
      /\ row[r].status \in Unreleased
  BY <1>1, <1>2, ToDoFacts
<1>4. BookExists
  <2>1. RowOK(row[Book], Book, hub, cache)
    BY Typed DEF IInv
  <2> QED
    BY <2>1 DEF Release, BookMissing, BookExists, RowOK
<1>5. PICK rec :
         /\ \E b \in Rebuilds(r) :
              rec = [row[r] EXCEPT !.stored = TRUE, !.rebuilt = b, !.status = "pending"]
         /\ IF Blocked(View("release"), r)
            THEN /\ Note("release", r, rec, {r}, session["release"].down)
                 /\ UNCHANGED <<hub, unread>>
            ELSE Send("release", r, rec, {r}) \/ SendUnanswered("release", r, rec, {r})
  BY <1>3 DEF Release
<1>6. rec \in RowType /\ rec.stored /\ ~ rec.hub /\ rec.status = "pending"
  BY <1>3, <1>5 DEF RowType, RowOK, Rebuilds
<1>7. UNCHANGED <<row, cache>>
  BY DEF Release
<1>8. CASE Blocked(View("release"), r)
  <2>1. Note("release", r, rec, {r}, session["release"].down) /\ UNCHANGED <<hub, unread>>
    BY <1>5, <1>8
  <2>2. session["release"].down \in BOOLEAN /\ Grows({r})
    BY <1>1, <2>1, Typed, SameHub
  <2>3. RowOK(rec, r, hub', cache')
    BY <1>4, <1>6, <1>7, <2>1 DEF RowOK, Unreleased, BookExists
  <2>4. r \in {r}
    OBVIOUS
  <2> QED
    BY <1>1, <1>2, <1>3, <1>6, <1>7, <2>1, <2>2, <2>3, <2>4, NoteInv
<1>9. CASE ~ Blocked(View("release"), r)
  <2>1. Send("release", r, rec, {r}) \/ SendUnanswered("release", r, rec, {r})
    BY <1>5, <1>9
  <2>2. r \in {r}
    OBVIOUS
  <2> QED
    BY <1>1, <1>2, <1>3, <1>4, <1>6, <1>7, <2>1, <2>2, SendInv
<1> QED
  BY <1>8, <1>9

LEMMA InvReleaseEnds == ASSUME IInv, ReleaseCommits \/ ReleaseFails PROVE IInv'
<1>1. "release" \in Processes /\ "idle" \in Places
  BY DEF Processes, Places
<1>2. unread' \subseteq AllRows
  BY DEF IInv, Types, ReleaseCommits, ReleaseFails
<1> QED
  BY <1>1, <1>2, CloseInv DEF ReleaseCommits, ReleaseFails

LEMMA InvTerminate == ASSUME IInv, NEW r \in Rows, Terminate(r) PROVE IInv'
<1>1. r \in AllRows /\ row[r] \in RowType /\ RowOK(row[r], r, hub, cache)
  BY Typed DEF AllRows, IInv
<1>2. PICK rec : rec = [row[r] EXCEPT !.status = "cancelled"]
  OBVIOUS
<1>3. row[r].status = "scheduled"
  BY DEF Terminate
<1>4. /\ rec \in RowType /\ rec.status = "cancelled" /\ rec.stored = row[r].stored
      /\ rec.hub = row[r].hub /\ rec.deleted = row[r].deleted
  BY <1>1, <1>2 DEF RowType, Terminal
<1>5. RowOK(rec, r, hub, cache)
  BY <1>1, <1>3, <1>4 DEF RowOK, Unreleased
<1>6. row' = [row EXCEPT ![r] = rec]
  BY <1>2 DEF Terminate
<1> QED
  BY <1>1, <1>4, <1>5, <1>6, RowInv DEF Terminate

LEMMA InvDelete == ASSUME IInv, NEW r \in AllRows, Delete(r) PROVE IInv'
<1>1. row[r] \in RowType /\ RowOK(row[r], r, hub, cache)
  BY Typed DEF IInv
<1>2. PICK rec : rec = [row[r] EXCEPT !.deleted = TRUE]
  OBVIOUS
<1>3. row[r].status \in Terminal
  BY DEF Delete
<1>4. /\ rec \in RowType /\ rec.status = row[r].status /\ rec.stored = row[r].stored
      /\ rec.hub = row[r].hub /\ rec.rebuilt = row[r].rebuilt
  BY <1>1, <1>2 DEF RowType
<1>5. RowOK(rec, r, hub, cache)
  BY <1>1, <1>3, <1>4 DEF RowOK, Unreleased, Terminal
<1>6. row' = [row EXCEPT ![r] = rec]
  BY <1>2 DEF Delete
<1> QED
  BY <1>1, <1>4, <1>5, <1>6, RowInv DEF Delete

LEMMA InvResendOpens == ASSUME IInv, ResendOpens PROVE IInv'
<1>1. "sync" \in Processes /\ "feed" \in Places /\ "resending" \in Places
  BY DEF Processes, Places
<1>2. PICK S : S = {r \in AllRows : Unsent(r) /\ ~ Locked(r)}
  OBVIOUS
<1>3. S \in SUBSET AllRows /\ \A r \in S : Unsent(r)
  BY <1>2
<1>4. unread' \subseteq AllRows /\ UNCHANGED <<row, hub, cache>>
  BY DEF IInv, Types, ResendOpens
<1>5. PICK at \in {"feed", "resending"} : at = IF S = {} THEN "feed" ELSE "resending"
  OBVIOUS
<1>6. PICK new : new = Opened(at, S)
  OBVIOUS
<1>7. session' = [session EXCEPT !["sync"] = new]
  BY <1>2, <1>5, <1>6 DEF ResendOpens, Begin, Opened
<1>8. /\ new \in SessionType /\ new.at = at /\ new.todo = S /\ DOMAIN new.draft = S
      /\ \A r \in S : new.draft[r] = row[r]
  BY <1>1, <1>3, <1>6, OpenDraft
<1>9. \A r \in S : RowOK(row[r], r, hub, cache)
  BY <1>3 DEF IInv
<1>10. \A r \in DOMAIN new.draft :
         /\ RowOK(new.draft[r], r, hub, cache)
         /\ row[r].status \in {"succeeded", "superseded"} => new.draft[r].status = row[r].status
  BY <1>8, <1>9
<1>11. at = "feed" => DOMAIN new.draft = {}
  BY <1>5, <1>8
<1> QED
  BY <1>1, <1>3, <1>4, <1>5, <1>7, <1>8, <1>10, <1>11, OpenInv

\* A stored request of a chapter was made when the book existed, and it still does.
LEMMA ResendFacts ==
  ASSUME IInv, NEW r \in AllRows, Resending(r)
  PROVE  /\ "sync" \in Processes /\ session["sync"].at = "resending"
         /\ r \in session["sync"].todo /\ View("sync")[r] = row[r] /\ row[r] \in RowType
         /\ RowOK(row[r], r, hub, cache) /\ Unsent(r)
         /\ r \in Rows => BookExists
<1>1. "sync" \in Processes /\ session["sync"].at = "resending" /\ r \in session["sync"].todo
  BY DEF Processes, Resending, At, FirstToDo
<1>2. /\ View("sync")[r] = row[r] /\ row[r] \in RowType /\ RowOK(row[r], r, hub, cache)
      /\ Unsent(r)
  BY <1>1, ToDoFacts
<1>3. r \in Rows => BookExists
  BY <1>2 DEF RowOK, Unsent, BookExists
<1> QED
  BY <1>1, <1>2, <1>3

LEMMA InvResend == ASSUME IInv, NEW r \in AllRows, Resend(r) PROVE IInv'
<1>1. /\ "sync" \in Processes /\ session["sync"].at = "resending"
      /\ r \in session["sync"].todo /\ View("sync")[r] = row[r] /\ row[r] \in RowType
      /\ RowOK(row[r], r, hub, cache) /\ Unsent(r)
      /\ r \in Rows => BookExists
  BY ResendFacts DEF Resend
<1>2. UNCHANGED <<row, cache>> /\ r \in {r} /\ FALSE \in BOOLEAN
  BY DEF Resend
<1>3. row[r].stored /\ ~ row[r].hub /\ row[r].status = "pending"
  BY <1>1 DEF Unsent
<1>4. CASE Waits(r)
  <2>1. Note("sync", r, row[r], {r}, FALSE) /\ UNCHANGED <<hub, unread>>
    BY <1>1, <1>4 DEF Resend
  <2>2. Grows({r})
    BY <2>1, SameHub
  <2>3. RowOK(row[r], r, hub', cache')
    BY <1>1, <1>2, <2>1
  <2> QED
    BY <1>1, <1>2, <1>3, <2>1, <2>2, <2>3, NoteInv
<1>5. CASE ~ Waits(r)
  <2>1. Send("sync", r, row[r], {r})
    BY <1>1, <1>5 DEF Resend
  <2> QED
    BY <1>1, <1>2, <1>3, <2>1, SendInv
<1> QED
  BY <1>4, <1>5

LEMMA InvResendUnanswered == ASSUME IInv, NEW r \in AllRows, ResendUnanswered(r) PROVE IInv'
<1>1. /\ "sync" \in Processes /\ session["sync"].at = "resending"
      /\ r \in session["sync"].todo /\ View("sync")[r] = row[r] /\ row[r] \in RowType
      /\ RowOK(row[r], r, hub, cache) /\ Unsent(r)
      /\ r \in Rows => BookExists
  BY ResendFacts DEF ResendUnanswered
<1>2. UNCHANGED <<row, cache>>
  BY DEF ResendUnanswered
<1>3. row[r].stored /\ ~ row[r].hub /\ row[r].status = "pending"
  BY <1>1 DEF Unsent
<1>4. PICK done \in {{r}, session["sync"].todo} : SendUnanswered("sync", r, row[r], done)
  BY <1>1 DEF ResendUnanswered
<1>5. r \in done
  BY <1>1, <1>4
<1> QED
  BY <1>1, <1>2, <1>3, <1>4, <1>5, SendInv

\* A commit of the sync process, or the end of a round.
LEMMA InvSyncEnds ==
  ASSUME IInv, ResendCommits \/ PageCommits \/ CatchUpCommits \/ RoundFails
  PROVE  IInv'
<1>1. "sync" \in Processes /\ {"feed", "catchup", "resend"} \subseteq Places
  BY DEF Processes, Places
<1>2. CASE RoundFails
  <2>1. unread' \subseteq AllRows
    BY <1>1, <1>2, Typed DEF IInv, Types, RoundFails
  <2> QED
    BY <1>1, <1>2, <2>1, CloseInv DEF RoundFails
<1>3. CASE ~ RoundFails
  <2>1. unread' \subseteq AllRows
    BY <1>3 DEF IInv, Types, ResendCommits, PageCommits, CatchUpCommits
  <2> QED
    BY <1>1, <1>3, <2>1, CloseInv DEF ResendCommits, PageCommits, CatchUpCommits
<1> QED
  BY <1>2, <1>3

LEMMA MirroredOK ==
  ASSUME IInv, NEW r \in AllRows, row[r].hub
  PROVE  /\ Mirrored(r) \in RowType /\ RowOK(Mirrored(r), r, hub, cache)
         /\ row[r].status \in {"succeeded", "superseded"} => Mirrored(r).status = row[r].status
<1>1. row[r] \in RowType /\ hub[r] \in JobStatus /\ RowOK(row[r], r, hub, cache)
  BY Typed DEF IInv
<1>2. CASE row[r].status = "succeeded"
  BY <1>1, <1>2 DEF Mirrored
<1>3. CASE row[r].status # "succeeded"
  <2>1. hub[r] \in {"pending", "succeeded", "failed", "cancelled"} /\ row[r].status # "superseded"
    BY <1>1 DEF RowOK, JobStatus
  <2>2. Mirrored(r) = [row[r] EXCEPT !.status = hub[r]]
    BY <1>3 DEF Mirrored
  <2>3. /\ Mirrored(r) \in RowType /\ Mirrored(r).status = hub[r] /\ Mirrored(r).hub
        /\ Mirrored(r).stored = row[r].stored
    BY <1>1, <2>1, <2>2 DEF RowType, Terminal
  <2> QED
    BY <1>1, <1>3, <2>1, <2>3 DEF RowOK, Unreleased
<1> QED
  BY <1>2, <1>3

\* A page of the feed, or what was asked for.
LEMMA MirrorInv ==
  ASSUME IInv, NEW at \in {"page", "caught"}, NEW next \in {"catchup", "resend"},
         NEW jobs \in SUBSET AllRows, NEW A \in SUBSET AllRows, \A r \in A : row[r].hub,
         Mirror(at, jobs, A, next), UNCHANGED <<row, hub, cache>>, unread' \subseteq AllRows
  PROVE  IInv'
<1>1. "sync" \in Processes /\ at \in Places /\ next \in Places
  BY DEF Processes, Places
<1>2. CASE jobs = {} /\ A = {}
  <2>1. session' = [session EXCEPT !["sync"] = Closed(next)]
    BY <1>2 DEF Mirror
  <2> QED
    BY <1>1, <2>1, CloseInv
<1>3. CASE ~ (jobs = {} /\ A = {})
  <2>1. PICK drafts : drafts = [r \in A |-> Mirrored(r)]
    OBVIOUS
  <2>2. PICK new : new = [Closed(at) EXCEPT !.todo = jobs, !.draft = drafts]
    OBVIOUS
  <2>3. session' = [session EXCEPT !["sync"] = new]
    BY <1>3, <2>1, <2>2 DEF Mirror
  <2>4. \A r \in A : /\ Mirrored(r) \in RowType /\ RowOK(Mirrored(r), r, hub, cache)
                     /\ row[r].status \in {"succeeded", "superseded"} =>
                           Mirrored(r).status = row[r].status
    BY MirroredOK
  <2>5. drafts \in [A -> RowType]
    BY <2>1, <2>4
  <2>6. drafts \in Drafts
    BY <2>5 DEF Drafts
  <2>7. Closed(at) \in SessionType /\ Closed(at).at = at
    BY <1>1, ClosedType
  <2>8. new \in SessionType /\ new.at = at /\ new.draft = drafts
    BY <2>2, <2>6, <2>7 DEF SessionType
  <2>9. \A r \in DOMAIN new.draft :
           /\ RowOK(new.draft[r], r, hub, cache)
           /\ row[r].status \in {"succeeded", "superseded"} => new.draft[r].status = row[r].status
           /\ row[r].hub
    BY <2>1, <2>4, <2>8
  <2> QED
    BY <1>1, <2>3, <2>8, <2>9, OpenInv
<1> QED
  BY <1>2, <1>3

LEMMA InvFeedReads == ASSUME IInv, NEW A \in SUBSET Known, FeedReads(A) PROVE IInv'
<1>1. unread \in SUBSET AllRows /\ A \in SUBSET AllRows /\ \A r \in A : row[r].hub
  BY DEF IInv, Types, Known
<1>2. /\ Mirror("page", unread, A, "catchup") /\ UNCHANGED <<row, hub, cache>>
      /\ unread' \subseteq AllRows
  BY DEF FeedReads
<1> QED
  BY <1>1, <1>2, MirrorInv

LEMMA InvCatchUp == ASSUME IInv, NEW A \in SUBSET Due, CatchUp(A) PROVE IInv'
<1>1. {} \in SUBSET AllRows /\ A \in SUBSET AllRows /\ \A r \in A : row[r].hub
  BY DEF Due, CaughtUp
<1>2. /\ Mirror("caught", {}, A, "resend") /\ UNCHANGED <<row, hub, cache>>
      /\ unread' \subseteq AllRows
  BY DEF CatchUp, IInv, Types
<1> QED
  BY <1>1, <1>2, MirrorInv

LEMMA InvRefresh == ASSUME IInv, Refresh PROVE IInv'
<1>1. UNCHANGED <<row, hub, unread, session>> /\ cache' = BookExists
  BY DEF Refresh
<1>2. Grows({})
  BY <1>1, SameHub
<1>3. cache' \in BOOLEAN /\ (BookExists => BookExists')
  BY <1>1, Typed DEF BookExists
<1> QED
  BY <1>1, <1>2, <1>3, HubInv

\* A retry has its publication to itself.
LEMMA HubGrows == ASSUME IInv, NEW r \in AllRows, HubWorks(r) PROVE Grows({})
<1>1. PICK s \in JobStatus \ {"none"} :
         /\ \/ hub[r] = "pending"
            \/ hub[r] = "failed" /\ s = "pending"
               /\ \A q \in Publication(r) : hub[q] \notin {"pending", "succeeded"}
         /\ hub' = [hub EXCEPT ![r] = s] /\ unread' = unread \cup {r}
  BY DEF HubWorks, Moved
<1>2. hub' \in [AllRows -> JobStatus] /\ hub'[r] = s /\ \A q \in AllRows \ {r} : hub'[q] = hub[q]
  BY <1>1 DEF IInv, Types
<1>3. OneJob(hub')
  <2>1. SUFFICES ASSUME NEW x \in AllRows, NEW q \in Publication(x),
                        hub'[q] \in {"pending", "succeeded"}, hub'[x] \in {"pending", "succeeded"}
                 PROVE  q = x
    BY DEF OneJob
  <2>2. q \in AllRows /\ x \in Publication(q)
    BY PublicationFacts
  <2>3. OneJob(hub)
    BY DEF IInv
  <2>4. CASE hub[r] = "pending"
    <3>1. hub[q] \in {"pending", "succeeded"} /\ hub[x] \in {"pending", "succeeded"}
      BY <1>2, <2>1, <2>2, <2>4
    <3> QED
      BY <2>3, <3>1 DEF OneJob
  <2>5. CASE \A y \in Publication(r) : hub[y] \notin {"pending", "succeeded"}
    BY <1>2, <2>1, <2>2, <2>3, <2>5 DEF OneJob
  <2> QED
    BY <1>1, <2>4, <2>5
<1>4. unread' \subseteq AllRows
  BY <1>1 DEF IInv, Types
<1> QED
  BY <1>1, <1>2, <1>3, <1>4 DEF Grows

LEMMA InvHubWorks == ASSUME IInv, NEW r \in AllRows, HubWorks(r) PROVE IInv'
<1>1. Grows({}) /\ UNCHANGED <<row, cache, session>>
  BY HubGrows DEF HubWorks
<1>2. cache' \in BOOLEAN /\ (BookExists => BookExists')
  BY <1>1, Typed DEF IInv, Types, BookExists, Grows
<1> QED
  BY <1>1, <1>2, HubInv

-----------------------------------------------------------------------------
(* The invariant *)

LEMMA InvInit == Init => IInv
<1> SUFFICES ASSUME Init PROVE IInv
  OBVIOUS
<1>1. PICK start \in Starts :
         /\ row = [r \in AllRows |->
                      NewRow(IF r \in start[1] THEN "scheduled" ELSE "absent", FALSE)]
         /\ cache = start[2]
  BY DEF Init
<1>2. hub = [r \in AllRows |-> "none"] /\ unread = {}
  BY DEF Init
<1>3. \A r \in AllRows : /\ row[r] \in RowType /\ row[r].status \in Unreleased
                         /\ ~ row[r].stored /\ ~ row[r].hub /\ ~ row[r].deleted
  BY <1>1 DEF NewRow, RowType, Unreleased
<1>4. Closed("idle") \in SessionType /\ Closed("resend") \in SessionType
  BY ClosedType DEF Places
<1>5. /\ session \in [Processes -> SessionType]
      /\ session["release"] = Closed("idle") /\ session["sync"] = Closed("resend")
  BY <1>4 DEF Init, Processes
<1>6. /\ session["release"].at = "idle" /\ session["release"].todo = {}
      /\ DOMAIN session["release"].draft = {}
      /\ session["sync"].at = "resend" /\ DOMAIN session["sync"].draft = {}
  BY <1>5, ClosedType DEF Places
<1>7. Types
  <2>1. row \in [AllRows -> RowType]
    BY <1>1, <1>3
  <2>2. cache \in BOOLEAN
    BY <1>1, StartsAssumption
  <2>3. hub \in [AllRows -> JobStatus] /\ unread \subseteq AllRows
    BY <1>2 DEF JobStatus
  <2> QED
    BY <1>5, <2>1, <2>2, <2>3 DEF Types
<1>8. \A r \in AllRows : RowOK(row[r], r, hub, cache)
  BY <1>3 DEF RowOK, Unreleased
<1>9. OneJob(hub)
  BY <1>2, PublicationFacts DEF OneJob
<1>10. (\A p \in Processes : DraftsOK(p)) /\ ReleaseOK /\ SyncOK
  BY <1>6 DEF Processes, DraftsOK, ReleaseOK, SyncOK, ToDoOK
<1> QED
  BY <1>7, <1>8, <1>9, <1>10 DEF IInv

LEMMA InvStutter == ASSUME IInv, UNCHANGED vars PROVE IInv'
<1>1. UNCHANGED <<row, hub, cache, session>> /\ Grows({})
  BY SameHub DEF vars
<1>2. cache' \in BOOLEAN /\ (BookExists => BookExists')
  BY <1>1 DEF IInv, Types, BookExists
<1> QED
  BY <1>1, <1>2, HubInv

LEMMA InvNext == ASSUME IInv, [Next]_vars PROVE IInv'
<1>1. CASE Publisher
  BY <1>1, InvReleaseOpens, InvHold, InvRequestBook, InvRelease, InvReleaseEnds, InvTerminate,
     InvDelete DEF Publisher
<1>2. CASE Sync
  BY <1>2, InvResendOpens, InvResend, InvResendUnanswered, InvSyncEnds, InvFeedReads, InvCatchUp,
     InvRefresh DEF Sync
<1>3. CASE Hub
  BY <1>3, InvHubWorks DEF Hub
<1>4. CASE UNCHANGED vars
  BY <1>4, InvStutter
<1> QED
  BY <1>1, <1>2, <1>3, <1>4 DEF Next

LEMMA Invariant == Spec => []IInv
<1>1. IInv /\ [Next]_vars => IInv'
  BY InvNext
<1> QED
  BY <1>1, InvInit, PTL DEF Spec

-----------------------------------------------------------------------------
(* Types, and who ends a row *)

\* The variables have their types, and a row that names a job of the hub names the
\* one of its own key, never another candidate's.
THEOREM OwnJob == Spec => []TypeOK
<1>1. ASSUME IInv PROVE TypeOK
  <2>1. \A r \in AllRows : RowOK(row[r], r, hub, cache)
    BY <1>1 DEF IInv
  <2>2. \A r \in AllRows : row[r].hub => row[r].stored /\ hub[r] # "none"
    BY <2>1 DEF RowOK
  <2>3. \A p \in Processes :
           /\ session[p].at \in Places
           /\ session[p].todo \subseteq AllRows /\ session[p].down \in BOOLEAN
           /\ DOMAIN session[p].draft \subseteq AllRows
           /\ \A r \in DOMAIN session[p].draft : session[p].draft[r] \in RowType
    BY <1>1, Typed
  <2> QED
    BY <1>1, <2>2, <2>3 DEF IInv, Types, TypeOK
<1> QED
  BY <1>1, Invariant, PTL

\* A row that ForWin ended itself has no job in the hub, whatever answer and
\* whatever commit was lost before, unless the request it stores is not the one the
\* hub has taken and the conflict of the two could not be resolved.
THEOREM Owned == Spec => []NotDisowned
<1>1. IInv => NotDisowned
  BY DEF IInv, RowOK, NotDisowned
<1> QED
  BY <1>1, Invariant, PTL

-----------------------------------------------------------------------------
(* Chapters go to the hub in their order *)

LEMMA ViewOK ==
  ASSUME IInv, NEW p \in Processes, NEW r \in AllRows
  PROVE  RowOK(View(p)[r], r, hub, cache)
<1>1. View(p)[r] = IF r \in DOMAIN session[p].draft THEN session[p].draft[r] ELSE row[r]
  BY Typed
<1> QED
  BY <1>1 DEF IInv, DraftsOK

\* A chapter that a process finds done is on the platform.
LEMMA DoneIsOut ==
  ASSUME IInv, NEW p \in Processes, NEW m, Done(View(p), m)
  PROVE  OnPlatform(m)
<1>1. PICK r \in Rows : Chapter[r] = m /\ View(p)[r].status \in {"succeeded", "superseded"}
  BY DEF Done
<1>2. r \in AllRows
  BY DEF AllRows
<1>3. RowOK(View(p)[r], r, hub, cache)
  BY <1>2, ViewOK
<1>4. \E q \in Publication(r) : hub[q] = "succeeded"
  BY <1>1, <1>2, <1>3, PublicationFacts DEF RowOK
<1> QED
  BY <1>1, <1>2, <1>4, PublicationFacts DEF OnPlatform

\* The hub gets r from process p in its turn.
InTurn(p, r) ==
    /\ BookExists
    /\ \A q \in Rows :
          /\ Chapter[q] < Chapter[r]
          /\ View(p)[q].status \notin Unreleased /\ ~ View(p)[q].deleted
          => OnPlatform(Chapter[q])

LEMMA NotBlocked ==
  ASSUME IInv, NEW p \in Processes, NEW r \in Rows, BookExists, ~ Blocked(View(p), r)
  PROVE  InTurn(p, r)
BY DoneIsOut DEF Blocked, InTurn

\* One process sends one row.
LEMMA SendMoves ==
  ASSUME IInv, NEW p \in Processes, NEW r \in AllRows, NEW rec, NEW done,
         Send(p, r, rec, done) \/ SendUnanswered(p, r, rec, done)
  PROVE  /\ Grows({r}) /\ \A q \in Processes \ {p} : session'[q] = session[q]
         /\ \A q \in AllRows : hub'[q] = "succeeded" <=> hub[q] = "succeeded"
<1>1. \A q \in Processes \ {p} : session'[q] = session[q]
  BY DEF Send, SendUnanswered, Note, IInv, Types
<1>2. UNCHANGED <<hub, unread>> \/ \E a \in Answers(rec, r) : Accept(r, a)
  BY DEF Send, SendUnanswered
<1>3. CASE UNCHANGED <<hub, unread>>
  BY <1>1, <1>3, SameHub
<1>4. CASE \E a \in Answers(rec, r) : Accept(r, a)
  <2>1. PICK a \in Answers(rec, r) : Accept(r, a)
    BY <1>4
  <2>2. /\ Grows({r})
        /\ a = "accepted" => hub'[r] = "pending"
        /\ a # "accepted" => hub' = hub
    BY <2>1, AcceptGrows
  <2>3. a = "accepted" => hub' = [hub EXCEPT ![r] = "pending"] /\ hub[r] = "none"
    BY <2>1 DEF Accept, Moved, Answers
  <2>4. \A q \in AllRows : hub'[q] = "succeeded" <=> hub[q] = "succeeded"
    BY <2>2, <2>3 DEF IInv, Types
  <2> QED
    BY <1>1, <2>2, <2>4
<1> QED
  BY <1>2, <1>3, <1>4

\* The step that gives the hub a chapter.
LEMMA GivesInTurn ==
  ASSUME IInv, Next, NEW r \in Rows, hub[r] = "none", hub'[r] # "none",
         NEW p \in Processes, session'[p] # session[p]
  PROVE  InTurn(p, r)
<1>1. /\ Processes = {"release", "sync"} /\ r \in AllRows /\ r # Book /\ Book \in AllRows
      /\ hub \in [AllRows -> JobStatus]
  BY Typed, BookAssumption DEF AllRows, IInv, Types
<1>2. ASSUME NEW q \in Rows, RequestBook(q) PROVE FALSE
  <2>1. PICK rec : Send("release", Book, rec, {q}) \/ SendUnanswered("release", Book, rec, {q})
    BY <1>2 DEF RequestBook
  <2>2. Grows({Book})
    BY <1>1, <2>1, SendMoves
  <2> QED
    BY <1>1, <2>2 DEF Grows
<1>3. ASSUME NEW q \in Rows, Release(q) PROVE InTurn(p, r)
  <2>1. ~ Blocked(View("release"), q)
    BY <1>3 DEF Release
  <2>2. PICK rec : Send("release", q, rec, {q}) \/ SendUnanswered("release", q, rec, {q})
    BY <1>3, <2>1 DEF Release
  <2>3. q \in AllRows
    BY DEF AllRows
  <2>4. Grows({q}) /\ \A x \in Processes \ {"release"} : session'[x] = session[x]
    BY <1>1, <2>2, <2>3, SendMoves
  <2>5. q = r /\ p = "release"
    BY <1>1, <2>4 DEF Grows
  <2>6. BookExists
    <3>1. RowOK(row[Book], Book, hub, cache)
      BY <1>1 DEF IInv
    <3> QED
      BY <1>3, <3>1 DEF Release, BookMissing, BookExists, RowOK
  <2> QED
    BY <1>1, <2>1, <2>5, <2>6, NotBlocked
<1>4. ASSUME NEW q \in AllRows, Resend(q) \/ ResendUnanswered(q) PROVE InTurn(p, r)
  <2>1. ~ Waits(q) /\ Resending(q)
    BY <1>4 DEF Resend, ResendUnanswered
  <2>2. PICK rec, done : Send("sync", q, rec, done) \/ SendUnanswered("sync", q, rec, done)
    BY <1>4, <2>1 DEF Resend, ResendUnanswered
  <2>3. Grows({q}) /\ \A x \in Processes \ {"sync"} : session'[x] = session[x]
    BY <1>1, <2>2, SendMoves
  <2>4. q = r /\ p = "sync"
    BY <1>1, <2>3 DEF Grows
  <2>5. BookExists
    BY <2>1, <2>4, ResendFacts
  <2>6. ~ Blocked(View("sync"), r)
    BY <1>1, <2>1, <2>4 DEF Waits
  <2> QED
    BY <1>1, <2>4, <2>5, <2>6, NotBlocked
<1>5. CASE Publisher
  BY <1>2, <1>3, <1>5 DEF Publisher, ReleaseOpens, Hold, ReleaseCommits, ReleaseFails, Terminate,
     Delete
<1>6. CASE Sync
  BY <1>4, <1>6 DEF Sync, ResendOpens, ResendCommits, FeedReads, CatchUp, PageCommits,
     CatchUpCommits, Refresh, RoundFails
<1>7. CASE Hub
  BY <1>7, <1>1, HubGrows DEF Hub, Grows
<1> QED
  BY <1>5, <1>6, <1>7 DEF Next

\* The hub is given a chapter only when the book exists and each earlier chapter
\* that its sender finds released is on the platform, for any number of chapters and
\* candidates and whatever was lost before.
THEOREM Ordered == Spec => InOrder
<1>1. IInv /\ [Next]_vars
      => [\A p \in Processes, r \in Rows :
             hub[r] = "none" /\ hub'[r] # "none" /\ session'[p] # session[p]
             => /\ BookExists
                /\ \A q \in Rows :
                      /\ Chapter[q] < Chapter[r]
                      /\ View(p)[q].status \notin Unreleased /\ ~ View(p)[q].deleted
                      => OnPlatform(Chapter[q])]_vars
  BY GivesInTurn DEF InTurn
<1> QED
  BY <1>1, Invariant, PTL DEF Spec, InOrder

-----------------------------------------------------------------------------
(* The rows implement ChapterPublication *)

\* A final word is not taken back.
LEMMA WordKept ==
  ASSUME IInv, Next, NEW r \in AllRows, row[r].status \in {"succeeded", "superseded"}
  PROVE  row'[r].status = row[r].status
<1>1. Processes = {"release", "sync"} /\ row \in [AllRows -> RowType]
  BY Typed DEF IInv, Types
<1>2. ASSUME NEW p \in Processes, row' = View(p) PROVE row'[r].status = row[r].status
  <2>1. row'[r] = IF r \in DOMAIN session[p].draft THEN session[p].draft[r] ELSE row[r]
    BY <1>2, Typed
  <2> QED
    BY <2>1 DEF IInv, DraftsOK
<1>3. ASSUME NEW q \in Rows, Terminate(q) PROVE row'[r].status = row[r].status
  BY <1>1, <1>3 DEF Terminate
<1>4. ASSUME NEW q \in AllRows, Delete(q) PROVE row'[r].status = row[r].status
  <2>1. row[q] \in RowType
    BY <1>1
  <2>2. [row[q] EXCEPT !.deleted = TRUE].status = row[q].status
    BY <2>1 DEF RowType
  <2> QED
    BY <1>1, <1>4, <2>2 DEF Delete
<1>5. CASE Publisher
  BY <1>1, <1>2, <1>3, <1>4, <1>5 DEF Publisher, ReleaseOpens, Hold, RequestBook, Release,
     ReleaseCommits, ReleaseFails
<1>6. CASE Sync
  BY <1>1, <1>2, <1>6 DEF Sync, ResendOpens, Resend, ResendUnanswered, ResendCommits, FeedReads,
     CatchUp, PageCommits, CatchUpCommits, Refresh, RoundFails
<1>7. CASE Hub
  BY <1>7 DEF Hub, HubWorks
<1> QED
  BY <1>5, <1>6, <1>7 DEF Next

\* Only the hub itself publishes.
LEMMA OutKept ==
  ASSUME IInv, Publisher \/ Sync, NEW r \in AllRows
  PROVE  hub'[r] = "succeeded" <=> hub[r] = "succeeded"
<1>1. {"release", "sync"} \subseteq Processes /\ Book \in AllRows /\ Rows \subseteq AllRows
  BY Typed
<1>2. ASSUME NEW p \in Processes, NEW q \in AllRows, NEW rec, NEW done,
             Send(p, q, rec, done) \/ SendUnanswered(p, q, rec, done)
      PROVE  hub'[r] = "succeeded" <=> hub[r] = "succeeded"
  BY <1>2, SendMoves
<1>3. ASSUME NEW q \in Rows, RequestBook(q)
      PROVE  hub'[r] = "succeeded" <=> hub[r] = "succeeded"
  BY <1>1, <1>2, <1>3 DEF RequestBook
<1>4. ASSUME NEW q \in Rows, Release(q)
      PROVE  hub'[r] = "succeeded" <=> hub[r] = "succeeded"
  <2>1. \/ hub' = hub
        \/ \E rec : Send("release", q, rec, {q}) \/ SendUnanswered("release", q, rec, {q})
    BY <1>4 DEF Release
  <2> QED
    BY <1>1, <1>2, <2>1
<1>5. ASSUME NEW q \in AllRows, Resend(q) \/ ResendUnanswered(q)
      PROVE  hub'[r] = "succeeded" <=> hub[r] = "succeeded"
  <2>1. \/ hub' = hub
        \/ \E rec, done : Send("sync", q, rec, done) \/ SendUnanswered("sync", q, rec, done)
    BY <1>5 DEF Resend, ResendUnanswered
  <2> QED
    BY <1>1, <1>2, <2>1
<1>6. CASE Publisher
  BY <1>3, <1>4, <1>6 DEF Publisher, ReleaseOpens, Hold, ReleaseCommits, ReleaseFails, Terminate,
     Delete
<1>7. CASE Sync
  BY <1>5, <1>7 DEF Sync, ResendOpens, ResendCommits, FeedReads, CatchUp, PageCommits,
     CatchUpCommits, Refresh, RoundFails
<1> QED
  BY <1>6, <1>7

Out == {r \in Rows : hub[r] = "succeeded"}

Word == [r \in Rows |-> Told(r)]

\* What the rows say in a state of the invariant.
LEMMA WordFacts ==
  ASSUME IInv
  PROVE  /\ Word \in [Rows -> {"open", "succeeded", "superseded"}]
         /\ \A r \in Rows : Word[r] # "open" => \E q \in Out : Chapter[q] = Chapter[r]
         /\ \A q, r \in Rows : Word[q] = "succeeded" /\ Word[r] = "succeeded"
                               /\ Chapter[q] = Chapter[r] => q = r
<1>1. \A r \in Rows : /\ r \in AllRows /\ RowOK(row[r], r, hub, cache)
                      /\ Publication(r) = {q \in Rows : Chapter[q] = Chapter[r]}
  BY PublicationFacts DEF IInv, AllRows
<1>2. \A r \in Rows : Word[r] = IF row[r].status \in {"succeeded", "superseded"}
                                THEN row[r].status ELSE "open"
  BY DEF Word, Told
<1>3. Word \in [Rows -> {"open", "succeeded", "superseded"}]
  BY DEF Word, Told
<1>4. ASSUME NEW r \in Rows, Word[r] # "open" PROVE \E q \in Out : Chapter[q] = Chapter[r]
  <2>1. \E q \in Publication(r) : hub[q] = "succeeded"
    BY <1>1, <1>2, <1>4 DEF RowOK
  <2> QED
    BY <1>1, <2>1 DEF Out
<1>5. ASSUME NEW q \in Rows, NEW r \in Rows, Word[q] = "succeeded", Word[r] = "succeeded",
             Chapter[q] = Chapter[r]
      PROVE  q = r
  <2>1. hub[q] = "succeeded" /\ hub[r] = "succeeded" /\ q \in Publication(r)
    BY <1>1, <1>2, <1>5 DEF RowOK
  <2> QED
    BY <1>1, <2>1 DEF IInv, OneJob
<1> QED
  BY <1>3, <1>4, <1>5

LEMMA Abstract == Promise!vars = <<Out, Word>>
BY DEF Promise!vars, Out, Word

LEMMA PublishStep == ASSUME IInv, Hub PROVE [Promise!Next]_(Promise!vars)
<1>1. PICK r \in AllRows : HubWorks(r)
  BY DEF Hub
<1>2. PICK s \in JobStatus \ {"none"} :
         /\ s # hub[r]
         /\ \/ hub[r] = "pending"
            \/ hub[r] = "failed" /\ s = "pending"
         /\ hub' = [hub EXCEPT ![r] = s]
  BY <1>1 DEF HubWorks, Moved
<1>3. hub \in [AllRows -> JobStatus] /\ Rows \subseteq AllRows
  BY DEF IInv, Types, AllRows
<1>4. row' = row
  BY <1>1 DEF HubWorks
<1>5. Word' = Word
  BY <1>4 DEF Word, Told
<1>6. CASE r \in Rows /\ s = "succeeded"
  <2>1. hub[r] = "pending"
    BY <1>2, <1>6
  <2>2. Out' = Out \cup {r}
    BY <1>2, <1>3, <1>6 DEF Out
  <2>3. \A q \in Out : Chapter[q] # Chapter[r]
    <3>1. SUFFICES ASSUME NEW q \in Out, Chapter[q] = Chapter[r] PROVE FALSE
      OBVIOUS
    <3>2. q \in Publication(r) /\ hub[q] = "succeeded"
      BY <1>1, <1>6, <3>1, PublicationFacts DEF Out
    <3>3. q = r
      BY <1>1, <2>1, <3>2 DEF IInv, OneJob
    <3> QED
      BY <2>1, <3>2, <3>3
  <2>4. Promise!Publish(r)
    BY <1>5, <2>2, <2>3 DEF Promise!Publish, Out, Word
  <2> QED
    BY <1>6, <2>4 DEF Promise!Next
<1>7. CASE ~ (r \in Rows /\ s = "succeeded")
  <2>1. Out' = Out
    BY <1>2, <1>3, <1>7 DEF Out
  <2> QED
    BY <1>5, <2>1, Abstract DEF Promise!vars, Out, Word
<1> QED
  BY <1>6, <1>7

LEMMA TellStep ==
  ASSUME IInv, IInv', Publisher \/ Sync PROVE [Promise!Next]_(Promise!vars)
<1>1. Next /\ Rows \subseteq AllRows
  BY DEF Next, AllRows
<1>2. \A r \in Rows : hub'[r] = "succeeded" <=> hub[r] = "succeeded"
  BY <1>1, OutKept
<1>3. Out' = Out
  BY <1>2 DEF Out
<1>4. PICK says : says = Word'
  OBVIOUS
<1>5. /\ says \in [Rows -> {"open", "succeeded", "superseded"}]
      /\ \A r \in Rows : says[r] # "open" => \E q \in Out : Chapter[q] = Chapter[r]
      /\ \A q, r \in Rows : says[q] = "succeeded" /\ says[r] = "succeeded"
                            /\ Chapter[q] = Chapter[r] => q = r
  <2>1. (/\ Word \in [Rows -> {"open", "succeeded", "superseded"}]
         /\ \A r \in Rows : Word[r] # "open" => \E q \in Out : Chapter[q] = Chapter[r]
         /\ \A q, r \in Rows : Word[q] = "succeeded" /\ Word[r] = "succeeded"
                               /\ Chapter[q] = Chapter[r] => q = r)'
    BY WordFacts, PTL
  <2> QED
    BY <1>3, <1>4, <2>1
<1>6. \A r \in Rows : Word[r] # "open" => says[r] = Word[r]
  <2>1. \A r \in Rows : row[r].status \in {"succeeded", "superseded"} =>
           row'[r].status = row[r].status
    BY <1>1, WordKept
  <2> QED
    BY <1>4, <2>1 DEF Word, Told
<1>7. Promise!Tell(says)
  <2>1. \A r \in Rows : says[r] # Word[r] => Word[r] = "open" /\ \E q \in Out : Chapter[q] = Chapter[r]
    BY <1>5, <1>6
  <2> QED
    BY <1>3, <1>4, <1>5, <2>1 DEF Promise!Tell, Out, Word
<1> QED
  BY <1>5, <1>7 DEF Promise!Next

\* The rows implement ChapterPublication: a chapter is published once, a row says so
\* only after it was and never takes it back, and one row of a chapter at most says
\* that it published it.
THEOREM Truthful == Spec => TellsTheTruth
<1>1. Init => Promise!Init
  <2> SUFFICES ASSUME Init PROVE Promise!Init
    OBVIOUS
  <2>1. \A r \in Rows : hub[r] = "none" /\ row[r].status \in Unreleased
    BY DEF Init, AllRows, NewRow, Unreleased
  <2>2. Out = {} /\ Word = [r \in Rows |-> "open"]
    BY <2>1 DEF Out, Word, Told, Unreleased
  <2> QED
    BY <2>2 DEF Promise!Init, Out, Word
<1>2. IInv /\ IInv' /\ [Next]_vars => [Promise!Next]_(Promise!vars)
  <2>1. ASSUME UNCHANGED vars PROVE UNCHANGED Promise!vars
    BY <2>1 DEF vars, Promise!vars, Told
  <2> QED
    BY <2>1, PublishStep, TellStep DEF Next
<1> QED
  BY <1>1, <1>2, Invariant, PTL DEF Spec, TellsTheTruth, Promise!Spec
=============================================================================
