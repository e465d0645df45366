---------------------------- MODULE HeldIntents ----------------------------
(***************************************************************************)
(* What becomes of a character's intent: the world step that follows a     *)
(* chapter (world_engine/tick.py), the conflicts it raises and how they    *)
(* are decided (tick_conflicts.py, conflict_resolution.py), the response a *)
(* decision owes the plot and the plans that carry it                      *)
(* (conflict_repository.py, plan_bindings.py, band_planner), and rewrites  *)
(* that take world deltas back (historical_rewrite.py,                     *)
(* superseded_resolutions.py, conflict_revalidation.py).                   *)
(*                                                                         *)
(* An intent is live (planned or due), held until a chapter answers it, or *)
(* settled (resolved, disrupted or vetoed): what the deltas of canon make  *)
(* of it, in their order.  What a model, a text or a person decides is     *)
(* free.  PostCanon has the world step as one action; here the time        *)
(* between its reading of canon and its commit matters.                    *)
(***************************************************************************)
EXTENDS Naturals, Sequences, FiniteSets, FiniteSetsExt, SequencesExt

CONSTANTS
    Intents,       \* the intents the book starts with
    Kinds,         \* what a change may be held for
    Total,         \* target_total_chapters
    Rewritable,    \* bound: the chapters a user sends back to be rewritten
    MaxRewrites,   \* bound: how often, over all chapters
    MaxConflicts,  \* bound: no world step raises a conflict past this many
    MaxVanished    \* bound: deltas one rewrite takes the ground from, but for their statuses

ASSUME HeldIntentsAssumption ==
    /\ IsFiniteSet(Intents)
    /\ Kinds \subseteq {"impact_review", "onstage_slip"}
    /\ Total \in Nat \ {0}
    /\ Rewritable \subseteq 1..Total
    /\ {MaxRewrites, MaxConflicts, MaxVanished} \subseteq Nat

VARIABLES
    canon,      \* the chapters of canon: commit, text, world deltas, retired ticks
    world,      \* the statuses in the snapshot of the latest chapter
    plans,      \* plans[c]: the chapter_plans row
    conflicts,  \* the world_plan_conflicts rows in the order of their creation
    owing,      \* the commits whose world step is not done
    tick,       \* tick[n]: the run of the world step of commit n
    late        \* history: a rewrite came after the last step's last look at canon

vars == <<canon, world, plans, conflicts, owing, tick, late>>

Chapters == 1..Total
Commits == 1..(Total + MaxRewrites)

Latest == Len(canon)
InCanon == {canon[c].commit : c \in DOMAIN canon}
NextCommit == 1 + Max({0} \cup InCanon)
ChapterOf(n) == CHOOSE c \in DOMAIN canon : canon[c].commit = n

\* The world step of chapter c is done, which the next chapter waits for.
Stepped(c) == canon[c].commit \notin owing

-----------------------------------------------------------------------------
(* The statuses of the intents                                              *)

Statuses == {"live", "held", "settled"}

\* A world_engine delta: the world step or the decided conflict it comes from,
\* and the statuses it sets with those it read.
Delta(kind, id, change) == [kind |-> kind, id |-> id, change |-> change]
Ref(delta) == <<delta.kind, delta.id>>
NoDelta == <<"none", 0>>
Refs == UNION {{Ref(delta) : delta \in Range(canon[c].deltas)} : c \in DOMAIN canon}

Holds(status, delta) == \A i \in DOMAIN delta.change : status[i] = delta.change[i].from

Applied(status, delta) ==
    [i \in Intents |-> IF i \in DOMAIN delta.change THEN delta.change[i].to ELSE status[i]]

\* The chapter's own delta settles the intents its text disrupts or fulfils.
Told(status, settles) == [i \in Intents |-> IF i \in settles THEN "settled" ELSE status[i]]

Unchanged == [i \in Intents |-> "live"]

StatusIn(chapters) ==
    FoldLeft(LAMBDA status, chapter :
                 FoldLeft(Applied, Told(status, chapter.settles), chapter.deltas),
             Unchanged, chapters)

\* Mutation: it has no effect any more, but the ledger still lists it.
LostButListed(done, delta) ==
    [done EXCEPT !.lost = Append(@, delta), !.kept = Append(@, delta)]

\* _drop_world_tick_delta: the delta leaves the ledger.
Lost(done, delta) == [done EXCEPT !.lost = Append(@, delta)]

\* _replay: a delta whose statuses are no longer those it read (cas_mismatches), or that
\* uses what is gone, is dropped, and the replay goes on without it.
Replay(chapters, vanished) ==
    LET Redo(done, delta) ==
            IF Ref(delta) \notin vanished /\ Holds(done.status, delta)
            THEN [done EXCEPT !.status = Applied(@, delta), !.kept = Append(@, delta)]
            ELSE Lost(done, delta)
        RedoChapter(done, chapter) ==
            LET result == FoldLeft(Redo, [done EXCEPT !.status = Told(@, chapter.settles),
                                                      !.kept = << >>], chapter.deltas)
            IN [result EXCEPT !.canon = Append(@, [chapter EXCEPT !.deltas = result.kept])]
    IN FoldLeft(RedoChapter,
                [status |-> Unchanged, kept |-> << >>, lost |-> << >>, canon |-> << >>], chapters)

-----------------------------------------------------------------------------
(* Conflicts, and the responses they owe                                    *)

NoIntent == "none"

Conflict(i, violated, origin, blocks, offers) ==
    [intent |-> i, violated |-> violated,
     origin |-> origin,        \* the commit whose step raised it, 0 for a rewrite
     blocks |-> blocks,        \* blocks_from_chapter
     offers |-> offers,        \* plot_responds is among its options
     status |-> "open", option |-> "none",
     delta |-> NoDelta,        \* the delta in its result_refs
     response |-> "none",
     carrier |-> 0]            \* the chapter whose plan has its patch, 0 for none

Open == {k \in DOMAIN conflicts : conflicts[k].status = "open"}
Active == {k \in DOMAIN conflicts : conflicts[k].response = "active"}

\* Mutation: only a response that is still owed counts.
RespondsNow(i) == \E k \in Active : conflicts[k].intent = i

\* has_plot_response: a resolved response is the intent's only one.
PlotResponded(i) ==
    \E k \in DOMAIN conflicts :
        /\ conflicts[k].intent = i
        /\ conflicts[k].status = "resolved" /\ conflicts[k].option = "plot_responds"

\* response_carriers: the plan that has the patch still binds the intent.
Carried(k) ==
    /\ conflicts[k].carrier # 0
    /\ conflicts[k].intent \in plans[conflicts[k].carrier].bound

Pending == {k \in Active : ~Carried(k)}

\* Mutation: by its number alone, past the end of the book.
NextButOne == Latest + 2

\* reachable_response_plans: the first plan still to be written, if there is one.
FirstReachable ==
    LET reachable == {c \in Chapters : c > Latest /\ plans[c].status = "planned"}
    IN IF reachable = {} THEN 0 ELSE Min(reachable)

Retired(row) ==
    IF row.option = "plot_responds"
    THEN [row EXCEPT !.response = "retired", !.carrier = 0] ELSE row

\* Mutation: a response nothing carries is taken for finished.
ReconciledAtOnce(rows, status, complete) ==
    [k \in DOMAIN rows |->
        CASE k \notin Active -> rows[k]
          [] complete \/ status[rows[k].intent] # "held" \/ ~Carried(k) -> Retired(rows[k])
          [] OTHER -> rows[k]]

\* reconcile_plot_responses: a response whose hold ended is retired, one without a
\* carrier gets the first plan it can.
Reconciled(rows, status, complete) ==
    [k \in DOMAIN rows |->
        CASE k \notin Active -> rows[k]
          [] k \in Active /\ (complete \/ status[rows[k].intent] # "held") -> Retired(rows[k])
          [] k \in Pending /\ ~complete /\ status[rows[k].intent] = "held" ->
                [rows[k] EXCEPT !.carrier = FirstReachable]
          [] OTHER -> rows[k]]

CarriedBy(rows, c) == {rows[k].intent : k \in {j \in DOMAIN rows : rows[j].carrier = c}}

\* The plans once the patches of these rows are applied, and those no row has any
\* more are taken back out of the plans still to be written.
Rebound(rows) ==
    [c \in Chapters |->
        LET obsolete == IF plans[c].status = "planned"
                        THEN CarriedBy(conflicts, c) \ CarriedBy(rows, c) ELSE {}
        IN [plans[c] EXCEPT !.bound = (@ \ obsolete) \cup CarriedBy(rows, c)]]

\* open_blocking
Blocked(c) == \E k \in Open : conflicts[k].blocks <= c

-----------------------------------------------------------------------------
(* The world step of a commit                                               *)

NotRunning ==
    [at |-> "idle", view |-> << >>, world |-> Unchanged, open |-> {}, retired |-> {}, raised |-> << >>]

\* Mutation: a tick is fresh while its chapter is the latest one.
FreshChapter(n) == n \in InCanon /\ ChapterOf(n) = Latest

\* _check_snapshot: canon is what the tick read.
Fresh(n) == tick[n].view = canon

\* The open conflicts of the ticks this one replaces.
Replaced(n) == {k \in Open : conflicts[k].origin \in tick[n].retired}

ExpiredAll(rows, ids) ==
    [k \in DOMAIN rows |-> IF k \in ids THEN [rows[k] EXCEPT !.status = "expired"] ELSE rows[k]]

\* The step of the latest chapter reads canon and the open conflicts.
StartTick(n) ==
    /\ n \in owing /\ n \in InCanon
    /\ ChapterOf(n) = Latest
    /\ tick[n].at = "idle"
    /\ tick' = [tick EXCEPT ![n] =
              [at |-> "thinking", view |-> canon, world |-> world, open |-> Open,
               retired |-> canon[Latest].retired, raised |-> << >>]]
    /\ UNCHANGED <<canon, world, plans, conflicts, owing, late>>

\* The step of an earlier chapter only expires conflicts that lost their ground:
\* those over a settled intent, and what the other checks against canon reject.
StaleRows(c) ==
    {k \in Open : conflicts[k].origin # 0 /\ conflicts[k].blocks - 1 >= c}

SettledRows(c) ==
    {k \in StaleRows(c) : /\ conflicts[k].violated = "impact_review"
                          /\ world[conflicts[k].intent] = "settled"}

SkipTick(n, lost) ==
    /\ n \in owing /\ n \in InCanon
    /\ ChapterOf(n) < Latest
    /\ tick[n].at = "idle"
    /\ SettledRows(ChapterOf(n)) \subseteq lost /\ lost \subseteq StaleRows(ChapterOf(n))
    /\ conflicts' = ExpiredAll(conflicts, lost)
    /\ owing' = owing \ {n}
    /\ UNCHANGED <<canon, world, plans, tick, late>>

\* What a tick does with an intent: nothing, an outcome that commits, or a change held
\* for review, with what the rules or a model made of that within the tick.
Rest == [does |-> "rest", kind |-> "none", by |-> "none"]
Settle == [does |-> "settle", kind |-> "none", by |-> "none"]
Turns == {Rest, Settle} \cup
         [does : {"hold"}, kind : Kinds,
          by : {"none", "veto_world", "plot_responds", "accept_with_obligation"}]

Offers(i) == ~PlotResponded(i) /\ Total > Latest

\* An open conflict already holds such a change of this intent.
AlreadyHeld(n, i, kind) ==
    \E k \in tick[n].open :
        /\ conflicts[k].intent = i /\ conflicts[k].violated = kind
        /\ conflicts[k].origin \notin tick[n].retired

CanTurn(n, i, turn, status) ==
    \/ turn = Rest
    \/ turn = Settle /\ status[i] = "live"
    \/ /\ turn.does = "hold" /\ status[i] = "live"
       /\ ~AlreadyHeld(n, i, turn.kind)
       /\ turn.by = "plot_responds" => Offers(i)
       /\ turn.by = "accept_with_obligation" => turn.kind = "onstage_slip"

\* What a decided option makes of its intent: the change it lets pass settles the intent,
\* a slip only puts it off.
Becomes(option, violated) ==
    CASE option = "veto_world" -> "settled"
      [] option = "plot_responds" -> "held"
      [] option = "amend_plan" /\ violated = "impact_review" -> "settled"
      [] OTHER -> "live"

\* A canon chapter answers the holds it was bound to answer.
Answered(c) ==
    plans[c].bound \cup {conflicts[k].intent : k \in {j \in Active : Carried(j) /\ conflicts[j].carrier <= c}}

After(n, turns, status) ==
    [i \in Intents |->
        CASE turns[i] = Settle -> "settled"
          [] turns[i].does = "hold" -> Becomes(turns[i].by, turns[i].kind)
          [] status[i] = "held" /\ i \in Answered(ChapterOf(n)) -> "live"
          [] OTHER -> status[i]]

Change(before, after) ==
    [i \in {j \in Intents : before[j] # after[j]} |-> [from |-> before[i], to |-> after[i]]]

Raised(n, turns) ==
    LET row(i) == Conflict(i, turns[i].kind, n, Latest + 1, Offers(i))
        decided(i) ==
            IF turns[i].by = "none" THEN row(i)
            ELSE [row(i) EXCEPT !.status = "resolved", !.option = turns[i].by,
                                !.delta = <<"tick", n>>,
                                !.response = IF turns[i].by = "plot_responds" THEN "active" ELSE "none",
                                !.carrier = IF turns[i].by = "plot_responds" THEN FirstReachable ELSE 0]
    IN SetToSeq({decided(i) : i \in {j \in Intents : turns[j].does = "hold"}})

\* A tick with something to commit: under the project lock, against the canon it
\* read, its delta, its conflicts, the decided options and the responses land together.
CommitTick(n, turns, moves) ==
    /\ tick[n].at = "thinking"
    /\ n \in InCanon /\ Fresh(n) /\ Latest < Total
    /\ LET before == tick[n].world
           after  == After(n, turns, before)
           raised == Raised(n, turns)
           delta  == Delta("tick", n, Change(before, after))
           done   == \E i \in Intents : turns[i].does = "hold" /\ turns[i].by # "none"
           rows   == ExpiredAll(conflicts, Replaced(n)) \o raised
       IN /\ \A i \in Intents : CanTurn(n, i, turns[i], before)
          /\ Len(conflicts) + Len(raised) <= MaxConflicts \/ raised = << >>
          /\ moves \/ done \/ DOMAIN delta.change # {} \/ Active # {}
          /\ \A i \in Intents : turns[i].by = "accept_with_obligation" => moves
          /\ canon' = IF moves \/ DOMAIN delta.change # {}
                      THEN [canon EXCEPT ![Latest].deltas = Append(@, delta)] ELSE canon
          /\ world' = after
          /\ conflicts' = Reconciled(rows, after, FALSE)
    /\ plans' = Rebound(conflicts')
    /\ owing' = owing \ {n}
    /\ tick' = [tick EXCEPT ![n] = NotRunning]
    /\ UNCHANGED late

\* A tick that commits nothing takes no project lock: it looks at canon once more,
\* and its conflicts land with the completion of the step.
CheckQuietTick(n, turns) ==
    /\ tick[n].at = "thinking"
    /\ n \in InCanon /\ Fresh(n) /\ Latest < Total
    /\ Active = {}
    /\ LET before == tick[n].world
       IN /\ \A i \in Intents : CanTurn(n, i, turns[i], before) /\ turns[i].by = "none"
          /\ After(n, turns, before) = before
    /\ LET raised == Raised(n, turns)
       IN /\ Len(conflicts) + Len(raised) <= MaxConflicts \/ raised = << >>
          /\ tick' = [tick EXCEPT ![n].at = "closing", ![n].raised = raised]
    /\ UNCHANGED <<canon, world, plans, conflicts, owing, late>>

\* release_held_intents, for every hold there is.
Released(status) == [i \in Intents |-> IF status[i] = "held" THEN "live" ELSE status[i]]

\* finish_holds: the tick of the last chapter releases every hold and starts nothing.
FinishHolds(n) ==
    /\ tick[n].at = "thinking"
    /\ n \in InCanon /\ Fresh(n) /\ Latest = Total
    /\ LET before == tick[n].world
           after  == Released(before)
           delta  == Delta("tick", n, Change(before, after))
       IN IF after = before /\ Active = {}
          THEN /\ tick' = [tick EXCEPT ![n].at = "closing"]
               /\ UNCHANGED <<canon, world, plans, conflicts, owing>>
          ELSE /\ world' = after
               /\ canon' = IF after = before THEN canon
                           ELSE [canon EXCEPT ![Latest].deltas = Append(@, delta)]
               /\ conflicts' = Reconciled(ExpiredAll(conflicts, Replaced(n)), after, TRUE)
               /\ plans' = Rebound(conflicts')
               /\ owing' = owing \ {n}
               /\ tick' = [tick EXCEPT ![n] = NotRunning]
    /\ UNCHANGED late

\* The completion of a quiet step checks only that its worker still leads it.
CloseQuietTick(n) ==
    /\ tick[n].at = "closing"
    /\ conflicts' = ExpiredAll(conflicts, Replaced(n)) \o tick[n].raised
    /\ owing' = owing \ {n}
    /\ tick' = [tick EXCEPT ![n] = NotRunning]
    /\ UNCHANGED <<canon, world, plans, late>>

\* Stale, out of a model, or its worker gone: the step rolls back and is retried.
FailTick(n) ==
    /\ tick[n].at # "idle"
    /\ tick' = [tick EXCEPT ![n] = NotRunning]
    /\ UNCHANGED <<canon, world, plans, conflicts, owing, late>>

-----------------------------------------------------------------------------
(* A person decides a conflict                                              *)

\* A quiet tick holds the rows it expires until its step completes.
Locked(k) == \E n \in Commits : tick[n].at = "closing" /\ k \in Replaced(n)

Unsettled(i) == i # NoIntent /\ world[i] # "settled"

Options == {"veto_world", "plot_responds", "amend_plan", "accept_with_obligation"}

\* What a veto of a settled intent leaves is a turn for its actor; a slip may make its
\* intent due.  Both are in `more`.
CanDecide(k, option, more) ==
    LET i    == conflicts[k].intent
        slip == conflicts[k].violated = "onstage_slip"
    IN CASE option = "veto_world" ->
                more => i # NoIntent /\ ~Unsettled(i)
         [] option = "plot_responds" ->
                ~more /\ conflicts[k].offers /\ Unsettled(i) /\ ~PlotResponded(i) /\ Total > Latest
         [] option = "amend_plan" ->
                /\ conflicts[k].violated \in Kinds
                /\ IF slip THEN more => Unsettled(i) ELSE ~more /\ Unsettled(i)
         [] option = "accept_with_obligation" ->
                slip /\ Total > Latest /\ (more => Unsettled(i))

\* ConflictResolutionService.resolve: what is decided lands on the latest chapter in
\* one savepoint; only a veto may find nothing to commit.
Resolve(k, option, more) ==
    /\ k \in Open /\ ~Locked(k)
    /\ CanDecide(k, option, more)
    /\ LET i       == conflicts[k].intent
           passes  == option \in {"amend_plan", "accept_with_obligation"}
           after   == [j \in Intents |->
                          CASE j # i \/ ~Unsettled(i) -> world[j]
                            [] passes /\ conflicts[k].violated = "onstage_slip" /\ ~more -> world[j]
                            [] OTHER -> Becomes(option, conflicts[k].violated)]
           delta   == Delta("conflict", k, Change(world, after))
           commits == DOMAIN delta.change # {} \/ more \/ option # "veto_world"
           answers == option = "plot_responds"
       IN /\ canon' = IF commits THEN [canon EXCEPT ![Latest].deltas = Append(@, delta)] ELSE canon
          /\ world' = after
          /\ conflicts' = [conflicts EXCEPT
                ![k].status = "resolved", ![k].option = option,
                ![k].delta = IF commits THEN Ref(delta) ELSE NoDelta,
                ![k].response = IF answers THEN "active" ELSE "none",
                ![k].carrier = IF answers THEN FirstReachable ELSE 0]
    /\ plans' = Rebound(conflicts')
    /\ UNCHANGED <<owing, tick, late>>

-----------------------------------------------------------------------------
(* Plans and chapters                                                       *)

\* A band plan binds intents to its chapters; the first that binds the intent of a
\* pending response carries it.
Plan(c, intents) ==
    /\ c > Latest /\ plans[c].status \in {"none", "planned"}
    /\ \A b \in 1..(c - 1) : plans[b].status # "none"
    /\ conflicts' = [k \in DOMAIN conflicts |->
            IF k \in Pending /\ conflicts[k].intent \in intents
            THEN [conflicts[k] EXCEPT !.carrier = c] ELSE conflicts[k]]
    /\ plans' = [Rebound(conflicts') EXCEPT ![c] =
            [status |-> "planned", bound |-> intents \cup CarriedBy(conflicts', c)]]
    /\ UNCHANGED <<canon, world, owing, tick, late>>

\* Mutation: a chapter that binds a held intent waits for the hold to end.
DraftFree(c) ==
    /\ plans[c].status = "planned" /\ c <= Latest + 1
    /\ \A b \in 1..(c - 1) : plans[b].status = "accepted"
    /\ c > 1 => Stepped(c - 1)
    /\ ~Blocked(c)
    /\ \A i \in plans[c].bound : world[i] # "held"
    /\ plans' = [plans EXCEPT ![c].status = "drafted"]
    /\ UNCHANGED <<canon, world, conflicts, owing, tick, late>>

\* The generation loop: lowest chapter first, past the previous chapter's barrier, and
\* not over an open conflict that blocks it.
Draft(c) ==
    /\ plans[c].status = "planned" /\ c <= Latest + 1
    /\ \A b \in 1..(c - 1) : plans[b].status = "accepted"
    /\ c > 1 => Stepped(c - 1)
    /\ ~Blocked(c)
    /\ plans' = [plans EXCEPT ![c].status = "drafted"]
    /\ UNCHANGED <<canon, world, conflicts, owing, tick, late>>

Chapter(settles, deltas, retired) ==
    [commit |-> NextCommit, settles |-> settles, deltas |-> deltas, retired |-> retired]

\* The extraction of a chapter lists the planned and due intents of the chapter before, and
\* its delta is refused when one of them changed since.
LiveBefore(c) == {i \in Intents : StatusIn(SubSeq(canon, 1, c - 1))[i] = "live"}

\* Admission commits the next chapter, which disrupts or fulfils these intents.
Accept(c, settles) ==
    /\ c = Latest + 1 /\ plans[c].status = "drafted"
    /\ settles \subseteq LiveBefore(c)
    /\ c > 1 => Stepped(c - 1)
    /\ canon' = Append(canon, Chapter(settles, << >>, {}))
    /\ world' = Told(world, settles)
    /\ plans' = [plans EXCEPT ![c].status = "accepted"]
    /\ owing' = owing \cup {NextCommit}
    /\ UNCHANGED <<conflicts, tick, late>>

\* A user sends an accepted chapter back to be rewritten.
Rewrites == NextCommit - 1 - Latest + Cardinality({c \in DOMAIN canon : plans[c].status # "accepted"})

Reset(c) ==
    /\ c \in DOMAIN canon \cap Rewritable /\ plans[c].status = "accepted"
    /\ Rewrites < MaxRewrites
    /\ plans' = [plans EXCEPT ![c].status = "planned"]
    /\ UNCHANGED <<canon, world, conflicts, owing, tick, late>>

\* The latest chapter's own ticks are retired, its step ticks the new text; a conflict's
\* delta stays.
Keeps(delta, c) == c < Latest \/ delta.kind = "conflict"

Ledger(c) ==
    FoldLeft(LAMBDA kept, delta : IF Keeps(delta, c) THEN Append(kept, delta) ELSE kept,
             << >>, canon[c].deltas)

\* HistoricalCanonReplacement: the new text takes the old one's place and the deltas
\* are replayed over it.  One that canon no longer bears, or that uses what the old text
\* made (vanished), is dropped for a person to see; what a delta that is gone had
\* resolved is superseded.
Rewrite(c, settles, vanished) ==
    /\ c \in DOMAIN canon /\ plans[c].status = "drafted"
    /\ settles \subseteq LiveBefore(c)
    /\ \A d \in (c + 1)..Latest : plans[d].status = "accepted"
    /\ c > 1 => Stepped(c - 1)
    /\ LET gone    == {Ref(d) : d \in {e \in Range(canon[c].deltas) : ~Keeps(e, c)}}
           new     == Chapter(settles, Ledger(c), {ref[2] : ref \in gone})
           replay  == Replay([canon EXCEPT ![c] = new], vanished)
           dropped == gone \cup {Ref(d) : d \in Range(replay.lost)}
       IN /\ canon' = replay.canon /\ world' = replay.status
          /\ conflicts' =
                [k \in DOMAIN conflicts |->
                    IF conflicts[k].status = "resolved" /\ conflicts[k].delta \in dropped
                    THEN Retired(conflicts[k]) ELSE conflicts[k]]
                \o [j \in DOMAIN replay.lost |->
                        Conflict(NoIntent, "replay_cas", 0, Latest + 1, FALSE)]
    /\ plans' = [Rebound(conflicts') EXCEPT ![c].status = "accepted"]
    /\ owing' = (owing \ {canon[c].commit}) \cup {NextCommit}
    /\ late' = \/ late
               \/ /\ c < Latest /\ Latest = Total
                  /\ Stepped(Total) \/ tick[canon[Total].commit].at = "closing"
    /\ UNCHANGED tick

-----------------------------------------------------------------------------
Init ==
    /\ canon = << >> /\ world = Unchanged /\ conflicts = << >> /\ owing = {}
    /\ plans = [c \in Chapters |-> [status |-> "none", bound |-> {}]]
    /\ tick = [n \in Commits |-> NotRunning]
    /\ late = FALSE

RunsTick(n) ==
    \/ StartTick(n)
    \/ \E lost \in SUBSET Open : SkipTick(n, lost)
    \/ \E turns \in [Intents -> Turns] :
            CheckQuietTick(n, turns) \/ \E moves \in BOOLEAN : CommitTick(n, turns, moves)
    \/ FinishHolds(n)
    \/ CloseQuietTick(n)

Decides ==
    \E k \in Open, option \in Options, more \in BOOLEAN : Resolve(k, option, more)

Plans(c) == \E intents \in SUBSET Intents : Plan(c, intents)

Writes(c) ==
    \/ Draft(c)
    \/ \E settles \in SUBSET Intents : Accept(c, settles)
    \/ \E settles \in SUBSET Intents, vanished \in SUBSET Refs :
            Cardinality(vanished) <= MaxVanished /\ Rewrite(c, settles, vanished)

Next ==
    \/ \E n \in Commits : RunsTick(n) \/ FailTick(n)
    \/ Decides
    \/ \E c \in Chapters : Plans(c) \/ Writes(c) \/ Reset(c)

Spec == Init /\ [][Next]_vars

-----------------------------------------------------------------------------
(* Fairness                                                                 *)

\* The maintenance of a commit is retried until its world step is done, a tick reaches
\* its commit at some try although decisions make it stale, a stale one rolls back, the
\* book is planned to its end and the loop writes on.  Nothing is assumed of people, who
\* decide conflicts and send chapters back, nor of failures and replanning.
Fairness ==
    /\ WF_vars(\E n \in Commits : StartTick(n) \/ \E lost \in SUBSET Open : SkipTick(n, lost))
    /\ SF_vars(\E n \in Commits, turns \in [Intents -> Turns] :
                  \/ CheckQuietTick(n, turns)
                  \/ \E moves \in BOOLEAN : CommitTick(n, turns, moves)
                  \/ FinishHolds(n))
    /\ SF_vars(\E n \in Commits : CloseQuietTick(n))
    /\ WF_vars(\E n \in Commits : ~Fresh(n) /\ FailTick(n))
    /\ WF_vars(\E c \in Chapters : plans[c].status = "none" /\ Plans(c))
    /\ WF_vars(\E c \in Chapters : Writes(c))

FairSpec == Spec /\ Fairness

-----------------------------------------------------------------------------
(* Properties                                                               *)

\* Types: a carrier is a chapter of the book, and a commit is named once.
TypeOK ==
    /\ Len(canon) <= Total
    /\ \A c \in DOMAIN canon :
          /\ canon[c].commit \in Commits /\ canon[c].settles \subseteq Intents
          /\ canon[c].retired \subseteq Commits
    /\ world \in [Intents -> Statuses]
    /\ \A c \in Chapters :
          /\ plans[c].status \in {"none", "planned", "drafted", "accepted"}
          /\ plans[c].bound \subseteq Intents
    /\ \A k \in DOMAIN conflicts :
          /\ conflicts[k].intent \in Intents \cup {NoIntent}
          /\ conflicts[k].status \in {"open", "resolved", "expired"}
          /\ conflicts[k].response \in {"none", "active", "retired"}
          /\ conflicts[k].carrier \in {0} \cup Chapters
    /\ owing \subseteq Commits
    /\ \A n \in Commits : tick[n].at \in {"idle", "thinking", "closing"}
    /\ late \in BOOLEAN

\* The snapshot that ticks and decisions read says what the ledger of deltas says, also
\* after ticks and decisions landed on it in any order and a rewrite dropped some of them.
SnapshotIsReplay == world = StatusIn(canon)

\* The plot answers an intent once: however ticks, people and rewrites follow each other,
\* no second response is ever decided for it ("consumes the intent's one offer").
OncePerIntent ==
    \A i \in Intents :
        Cardinality({k \in DOMAIN conflicts : /\ conflicts[k].intent = i
                                              /\ conflicts[k].status = "resolved"
                                              /\ conflicts[k].option = "plot_responds"}) <= 1

\* In a book nobody rewrites, an intent is held only while a response is owed to it:
\* a response is never retired under a hold that only it could end.
HeldIsAnswered ==
    NextCommit - 1 = Latest =>
        \A i \in Intents : world[i] = "held" =>
            \E k \in Active : conflicts[k].intent = i

\* Canon replaces the text of a chapter.
Rewritten == \E c \in DOMAIN canon : canon'[c].commit # canon[c].commit

\* Without a rewrite, a settled intent never comes back: no tick that reasoned on older
\* canon, no stale conflict decided late and no release of a hold revives it.
SettledStays ==
    [][~Rewritten => \A i \in Intents : world[i] = "settled" => world'[i] = "settled"]_vars

\* A chapter waits for a person to decide an open conflict.
Waiting == \E c \in Chapters : plans[c].status # "accepted" /\ Blocked(c)

\* Every hold ends, through an answer, a veto, a rewrite or the end of the book, unless
\* the book waits for a person for ever, or a rewrite came after the last step had looked
\* at canon (the code may leave an intent held then).
HoldsEnd ==
    \A i \in Intents : <>[](world[i] = "held" /\ ~late) => <>[]Waiting
=============================================================================
