------------------------------- MODULE Outbox -------------------------------
(***************************************************************************)
(* The transactional outbox: forwin/outbox/store.py (the fenced SQL on     *)
(* outbox_events) and forwin/outbox/worker.py (a worker with its heartbeat *)
(* thread).  One action per transaction or per step between transactions.  *)
(*                                                                         *)
(* Time.  lease_expires_at and available_at are kept as the ticks that     *)
(* remain until them, so the state stays finite for ever and Tick needs no *)
(* bound.  A remaining lease of 0 is "lease_expires_at <= now".            *)
(*                                                                         *)
(* attempts and lease_epoch are only ever incremented together, by a       *)
(* claim; epoch stands for both.                                           *)
(***************************************************************************)
EXTENDS Naturals, FiniteSets

CONSTANTS
    Events,      \* outbox rows, numbered in the claim order (created_at, id)
    Workers,     \* worker processes
    Name,        \* Name[w]: the worker id of process w, not always unique
    BadPayload,  \* the events whose payload_json does not decode
    Lease,       \* lease_seconds, in ticks
    Interval,    \* heartbeat_interval_seconds, in ticks
    BaseDelay,   \* base_delay_seconds, in ticks
    MaxDelay,    \* max_delay_seconds, in ticks
    Timely,      \* the processes that are never stalled: they beat on time
    MaxEpoch     \* bound: claims of one event

\* worker.py:124-132 refuses an interval that is not below the lease.
ASSUME OutboxAssumption ==
    /\ Events \subseteq Nat \ {0}
    /\ BadPayload \subseteq Events
    /\ Lease \in Nat /\ Interval \in Nat
    /\ 0 < Interval /\ Interval < Lease
    /\ BaseDelay \in Nat /\ MaxDelay \in Nat
    /\ Timely \subseteq Workers
    /\ MaxEpoch \in Nat
    /\ DOMAIN Name = Workers

VARIABLES
    row,      \* row[e]: the outbox_events row of event e
    worker,   \* worker[w]: the call of run_one_outbox_event process w is in
    late,     \* heartbeat threads that outlived the join: <<w, event, epoch>>
    handled   \* history: <<e, n>>: the handler call of claim n of e returned

vars == <<row, worker, late, handled>>

Names == {Name[w] : w \in Workers}
None == ""       \* the empty worker_id of a row nobody owns
NoEvent == 0

RowType ==
    [status : {"absent", "pending", "running", "processed", "deleted"},
     owner  : Names \cup {None},
     epoch  : 0..MaxEpoch,
     lease  : 0..Lease,
     wait   : 0..MaxDelay]

WorkerType ==
    [phase : {"idle", "handling", "joining", "settling"},
     event : Events \cup {NoEvent},
     epoch : 0..MaxEpoch,
     ok    : BOOLEAN,      \* the handler returned without an exception
     beating : BOOLEAN,    \* the heartbeat thread is alive
     lost  : BOOLEAN,      \* _ownership_lost is set
     due   : 0..Interval]  \* ticks until the next heartbeat

\* Every variable has its type.
TypeOK ==
    /\ row \in [Events -> RowType]
    /\ worker \in [Workers -> WorkerType]
    /\ late \subseteq Workers \X Events \X (0..MaxEpoch)
    /\ handled \subseteq Events \X (0..MaxEpoch)

Idle == [phase |-> "idle", event |-> NoEvent, epoch |-> 0, ok |-> FALSE,
         beating |-> FALSE, lost |-> FALSE, due |-> 0]

Init ==
    /\ row = [e \in Events |-> [status |-> "absent", owner |-> None,
                                epoch |-> 0, lease |-> 0, wait |-> 0]]
    /\ worker = [w \in Workers |-> Idle]
    /\ late = {}
    /\ handled = {}

-----------------------------------------------------------------------------
\* Mutation: the fence leaves out lease_epoch.
FencedByName(w, e, n) == row[e].status = "running" /\ row[e].owner = Name[w]

\* The WHERE clause of every update a claimant makes (_fenced_update).
Fenced(w, e, n) ==
    /\ row[e].status = "running"
    /\ row[e].owner = Name[w]
    /\ row[e].epoch = n

OwnsClaim(w) == Fenced(w, worker[w].event, worker[w].epoch)

\* Mutations: any row without a lease may be claimed; a running row may be
\* claimed under its lease; an expired row is not reclaimed.
ClaimableSettled(e) == row[e].status \in {"pending", "processed"} /\ row[e].lease = 0
ClaimableLeased(e) == row[e].status = "running" \/ (row[e].status = "pending" /\ row[e].wait = 0)
ClaimablePending(e) == row[e].status = "pending" /\ row[e].wait = 0

Claimable(e) ==
    \/ row[e].status = "pending" /\ row[e].wait = 0
    \/ row[e].status = "running" /\ row[e].lease = 0

\* FOR UPDATE SKIP LOCKED passes over a row that another process may be
\* holding locked at this moment: one it claims, beats or settles.
MayLock(v, e) == worker[v].phase = "idle" \/ worker[v].event = e

\* Mutation: the delay is not capped.
RetryDelayUncapped(attempts) == BaseDelay * 2^attempts

\* min(max_delay, base_delay * 2^(attempts - 1)); attempts is at least 1 in
\* every claim, so the exponent's cut at zero never bites.
RetryDelay(attempts) ==
    LET delay == BaseDelay * 2^(attempts - 1)
    IN  IF BaseDelay = 0 \/ MaxDelay = 0 THEN 0
        ELSE IF delay \in 0..MaxDelay THEN delay ELSE MaxDelay

\* A row nobody owns any more: worker_id and lease are cleared.
Released(status, epoch, wait) ==
    [status |-> status, owner |-> None, epoch |-> epoch, lease |-> 0, wait |-> wait]

-----------------------------------------------------------------------------
\* The producer's transaction commits with the event in it.
Enqueue(e) ==
    /\ row[e].status = "absent"
    /\ row' = [row EXCEPT ![e].status = "pending"]
    /\ UNCHANGED <<worker, late, handled>>

\* delete_project_outbox_events, in the project deletion's transaction.
DeleteProject(e) ==
    /\ row[e].status \notin {"absent", "deleted"}
    /\ row' = [row EXCEPT ![e] = Released("deleted", row[e].epoch, 0)]
    /\ UNCHANGED <<worker, late, handled>>

Claim(w) ==
    /\ worker[w].phase = "idle"
    /\ \E e \in Events :
        /\ Claimable(e)
        /\ row[e].epoch < MaxEpoch
        /\ \A f \in Events :
              f < e /\ Claimable(f) /\ row[f].epoch < MaxEpoch
                 => \E v \in Workers \ {w} : MayLock(v, f)
        /\ row' = [row EXCEPT ![e] = [status |-> "running", owner |-> Name[w],
                                      epoch |-> @.epoch + 1,
                                      lease |-> Lease, wait |-> 0]]
        /\ worker' = [worker EXCEPT ![w] =
              [phase |-> IF e \in BadPayload THEN "settling" ELSE "handling",
               event |-> e, epoch |-> row[e].epoch + 1, ok |-> FALSE,
               beating |-> e \notin BadPayload, lost |-> FALSE,
               due |-> IF e \in BadPayload THEN 0 ELSE Interval]]
    /\ UNCHANGED <<late, handled>>

\* The heartbeat thread has set _ownership_lost and beats no more.
GivenUp(call) == [call EXCEPT !.lost = TRUE, !.beating = FALSE, !.due = 0]

\* One turn of the heartbeat thread: the fenced update succeeds, or it matches
\* no row and the thread gives up.  It may still be in a turn after stop is set.
Heartbeat(w) ==
    /\ worker[w].beating
    /\ IF OwnsClaim(w)
       THEN /\ row' = [row EXCEPT ![worker[w].event].lease = Lease]
            /\ worker' = [worker EXCEPT ![w].due = Interval]
       ELSE /\ worker' = [worker EXCEPT ![w] = GivenUp(@)]
            /\ UNCHANGED row
    /\ UNCHANGED <<late, handled>>

\* The heartbeat's transaction raises, before or after its commit took effect.
HeartbeatError(w) ==
    /\ worker[w].beating
    /\ \/ UNCHANGED row
       \/ OwnsClaim(w) /\ row' = [row EXCEPT ![worker[w].event].lease = Lease]
    /\ worker' = [worker EXCEPT ![w] = GivenUp(@)]
    /\ UNCHANGED <<late, handled>>

HandlerReturns(w) ==
    /\ worker[w].phase = "handling"
    /\ worker' = [worker EXCEPT ![w] = [@ EXCEPT !.phase = "joining", !.ok = TRUE]]
    /\ handled' = handled \cup {<<worker[w].event, worker[w].epoch>>}
    /\ UNCHANGED <<row, late>>

\* Mutation: a handler that raised counts as one that returned.
HandlerIgnored(w) ==
    /\ worker[w].phase = "handling"
    /\ worker' = [worker EXCEPT ![w] = [@ EXCEPT !.phase = "joining", !.ok = TRUE]]
    /\ UNCHANGED <<row, late, handled>>

\* Any exception of the handler, a missing handler included.
HandlerRaises(w) ==
    /\ worker[w].phase = "handling"
    /\ worker' = [worker EXCEPT ![w].phase = "joining"]
    /\ UNCHANGED <<row, late, handled>>

\* stop_and_join: the thread ends within the join's timeout.
Join(w) ==
    /\ worker[w].phase = "joining"
    /\ worker' = [worker EXCEPT ![w] =
                    [@ EXCEPT !.phase = "settling", !.beating = FALSE, !.due = 0]]
    /\ UNCHANGED <<row, late, handled>>

\* stop_and_join: the thread hangs in its transaction; ownership counts as lost.
JoinTimeout(w) ==
    /\ worker[w].phase = "joining"
    /\ worker[w].beating
    /\ worker' = [worker EXCEPT ![w] = [GivenUp(@) EXCEPT !.phase = "settling"]]
    /\ late' = late \cup {<<w, worker[w].event, worker[w].epoch>>}
    /\ UNCHANGED <<row, handled>>

\* The hung thread's last transaction goes through after all.
LateHeartbeat(w) ==
    \E t \in late :
        /\ t[1] = w
        /\ late' = late \ {t}
        /\ \/ UNCHANGED row
           \/ Fenced(w, t[2], t[3]) /\ row' = [row EXCEPT ![t[2]].lease = Lease]
        /\ UNCHANGED <<worker, handled>>

\* The worker returns without a second transaction.
LeaseLost(w) ==
    /\ worker[w].phase = "settling"
    /\ worker[w].lost
    /\ worker' = [worker EXCEPT ![w] = Idle]
    /\ UNCHANGED <<row, late, handled>>

\* Mutation: the event is acknowledged whatever its handler did.
MarkAlways(w) ==
    /\ worker[w].phase = "settling" /\ ~worker[w].lost
    /\ OwnsClaim(w)
    /\ row' = [row EXCEPT ![worker[w].event] =
                 Released("processed", worker[w].epoch, 0)]
    /\ worker' = [worker EXCEPT ![w] = Idle]
    /\ UNCHANGED <<late, handled>>

MarkProcessed(w) ==
    /\ worker[w].phase = "settling" /\ ~worker[w].lost /\ worker[w].ok
    /\ OwnsClaim(w)
    /\ row' = [row EXCEPT ![worker[w].event] =
                 Released("processed", worker[w].epoch, 0)]
    /\ worker' = [worker EXCEPT ![w] = Idle]
    /\ UNCHANGED <<late, handled>>

ReleaseForRetry(w) ==
    /\ worker[w].phase = "settling" /\ ~worker[w].lost /\ ~worker[w].ok
    /\ OwnsClaim(w)
    /\ row' = [row EXCEPT ![worker[w].event] =
                 Released("pending", worker[w].epoch, RetryDelay(worker[w].epoch))]
    /\ worker' = [worker EXCEPT ![w] = Idle]
    /\ UNCHANGED <<late, handled>>

\* The second transaction matches no row: "stale_claim".
StaleClaim(w) ==
    /\ worker[w].phase = "settling" /\ ~worker[w].lost
    /\ ~OwnsClaim(w)
    /\ worker' = [worker EXCEPT ![w] = Idle]
    /\ UNCHANGED <<row, late, handled>>

\* The process dies with its threads (an exception of a worker transaction ends
\* the loop too) and is started again under the same name.
Crash(w) ==
    /\ worker[w].phase # "idle"
    /\ worker' = [worker EXCEPT ![w] = Idle]
    /\ late' = {t \in late : t[1] # w}
    /\ UNCHANGED <<row, handled>>

BeatDue(w) == worker[w].beating /\ worker[w].due = 0

Down(n) == IF n = 0 THEN 0 ELSE n - 1

Tick ==
    /\ \A w \in Timely : ~BeatDue(w)
    /\ row' = [e \in Events |->
                 [status |-> row[e].status, owner |-> row[e].owner,
                  epoch |-> row[e].epoch,
                  lease |-> Down(row[e].lease), wait |-> Down(row[e].wait)]]
    /\ worker' = [w \in Workers |-> [worker[w] EXCEPT !.due = Down(@)]]
    /\ UNCHANGED <<late, handled>>

-----------------------------------------------------------------------------
Settle(w) ==
    LeaseLost(w) \/ MarkProcessed(w) \/ ReleaseForRetry(w) \/ StaleClaim(w)

WorkerStep(w) ==
    \/ Claim(w)
    \/ Heartbeat(w) \/ HeartbeatError(w)
    \/ HandlerReturns(w) \/ HandlerRaises(w)
    \/ Join(w) \/ JoinTimeout(w) \/ LateHeartbeat(w)
    \/ Settle(w)
    \/ Crash(w)

Next ==
    \/ \E e \in Events : Enqueue(e) \/ DeleteProject(e)
    \/ \E w \in Workers : WorkerStep(w)
    \/ Tick

Spec == Init /\ [][Next]_vars

\* Every worker keeps polling (its service restarts it), handler calls end
\* (they run under request timeouts), a join has a timeout, transactions end,
\* and time passes.  Nothing is assumed of enqueues, deletions and crashes.
Fairness ==
    /\ \A w \in Workers :
        /\ WF_vars(Claim(w))
        /\ WF_vars(HandlerReturns(w) \/ HandlerRaises(w))
        /\ WF_vars(Join(w) \/ JoinTimeout(w))
        /\ WF_vars(Settle(w))
        /\ WF_vars(Heartbeat(w) \/ HeartbeatError(w))
    /\ WF_vars(Tick)

FairSpec == Spec /\ Fairness

-----------------------------------------------------------------------------
(* Properties *)

\* A worker may still pass the fence with the claim it has in hand.
Holds(w, e) == worker[w].phase # "idle" /\ worker[w].event = e /\ OwnsClaim(w)

\* However leases run out, workers restart or share a name, at most one worker
\* can still write the row of an event: the fence of _fenced_update admits one
\* claim at a time.
OneHolder ==
    \A e \in Events, v, w \in Workers : Holds(v, e) /\ Holds(w, e) => v = w

\* A processed row was settled by the very claim whose handler call returned
\* normally; a failed, lost or stale call never acknowledges the event.
ProcessedWasHandled ==
    \A e \in Events :
        row[e].status = "processed" => <<e, row[e].epoch>> \in handled

\* No late heartbeat, stale claimant or retry changes a row that was processed,
\* except that a project deletion removes it; and no claim is ever undone, the
\* epoch only grows.
SettledIsFinal ==
    [][\A e \in Events :
         /\ row[e].status = "processed" =>
               row'[e] = row[e] \/ row'[e].status = "deleted"
         /\ row'[e].epoch >= row[e].epoch]_vars

\* A call that beats on time and believes in its claim is never overtaken: while
\* its handler runs, no other handler of that event does, unless it is an older
\* one.  The interval below the lease keeps the row from being claimed under it.
NoOverlap ==
    \A v, w \in Workers :
        /\ v \in Timely /\ ~worker[v].lost
        /\ worker[v].phase = "handling" /\ worker[w].phase = "handling"
        /\ worker[v].event = worker[w].event
        => worker[w].epoch <= worker[v].epoch

Settled(e) == row[e].status \in {"processed", "deleted"}

\* Whatever crashes, hung heartbeats and lost leases happen, an enqueued event
\* is never stranded: it is processed unless its claims are used up.
EventuallySettled ==
    \A e \in Events :
        row[e].status = "pending" ~> Settled(e) \/ row[e].epoch = MaxEpoch

\* A row as AtLeastOnce sees it.
Stage(status) ==
    CASE status = "absent"                 -> "unpublished"
      [] status \in {"pending", "running"} -> "owed"
      [] status = "processed"              -> "acked"
      [] status = "deleted"                -> "dropped"

Stages == [e \in Events |-> Stage(row[e].status)]

Delivered == {e \in Events : \E n \in 1..MaxEpoch : <<e, n>> \in handled}

Promise == INSTANCE AtLeastOnce WITH state <- Stages, delivered <- Delivered

\* Every step of the outbox is a step of AtLeastOnce or changes nothing in it.
DeliversAtLeastOnce == Promise!Spec
=============================================================================
