---------------------------- MODULE OutboxProofs ----------------------------
(***************************************************************************)
(* Proofs about Outbox, for any number of events and workers, any naming   *)
(* of the workers and any lease, interval and delays.                      *)
(***************************************************************************)
EXTENDS Outbox, TLAPS

\* A claim in hand is a claim of a published event, no newer than its row.
ClaimKnown ==
    \A w \in Workers :
        worker[w].phase # "idle" =>
            /\ worker[w].event \in Events
            /\ worker[w].epoch \in 1..row[worker[w].event].epoch

\* An idle worker runs no heartbeat thread.
IdleIsQuiet == \A w \in Workers : worker[w].phase = "idle" => ~worker[w].beating

\* Two workers never have the same claim of the same event in hand.
ClaimUnique ==
    \A v, w \in Workers :
        /\ worker[v].phase # "idle" /\ worker[w].phase # "idle"
        /\ worker[v].event = worker[w].event
        /\ worker[v].epoch = worker[w].epoch
        => v = w

\* A worker that means to acknowledge has seen its handler return.
OkWasHandled ==
    \A w \in Workers :
        worker[w].phase # "idle" /\ worker[w].ok =>
            <<worker[w].event, worker[w].epoch>> \in handled

\* Handler calls belong to claims that were made, of published events.
HandledWasClaimed ==
    /\ \A e \in Events : row[e].status = "absent" => row[e].epoch = 0
    /\ \A t \in handled : t[2] \in 1..row[t[1]].epoch

\* A row nobody works on has no lease, a settled row no timer at all.
SettledIsStill ==
    \A e \in Events :
        row[e].status = "processed" => row[e].lease = 0 /\ row[e].wait = 0

IInv ==
    /\ TypeOK
    /\ ClaimKnown
    /\ IdleIsQuiet
    /\ ClaimUnique
    /\ OkWasHandled
    /\ HandledWasClaimed
    /\ ProcessedWasHandled
    /\ SettledIsStill

-----------------------------------------------------------------------------
\* The exponential backoff of release_outbox_event_for_retry is a delay that
\* never exceeds its ceiling.
LEMMA RetryDelayType ==
    ASSUME OutboxAssumption, NEW n \in Nat
    PROVE  RetryDelay(n) \in 0..MaxDelay
  BY DEF RetryDelay, OutboxAssumption

\* Time runs out a timer without leaving its range.
LEMMA DownType ==
    ASSUME NEW m \in Nat, NEW n \in 0..m
    PROVE  Down(n) \in 0..m
  BY DEF Down

\* A call whose heartbeat gave up is still a call.
LEMMA GivenUpType ==
    ASSUME OutboxAssumption, NEW c \in WorkerType
    PROVE  GivenUp(c) \in WorkerType
  <1>1. 0 \in 0..Interval
    BY DEF OutboxAssumption
  <1> QED
    BY <1>1 DEF GivenUp, WorkerType

\* An extended lease is a lease.
LEMMA RenewedType ==
    ASSUME OutboxAssumption, row \in [Events -> RowType], NEW e \in Events
    PROVE  [row EXCEPT ![e].lease = Lease] \in [Events -> RowType]
  <1>1. Lease \in 0..Lease
    BY DEF OutboxAssumption
  <1>2. [row[e] EXCEPT !.lease = Lease] \in RowType
    BY <1>1 DEF RowType
  <1> QED
    BY <1>2

\* A row that is given back is a row.
LEMMA ReleasedType ==
    ASSUME OutboxAssumption,
           NEW s \in {"absent", "pending", "running", "processed", "deleted"},
           NEW n \in 0..MaxEpoch, NEW d \in 0..MaxDelay
    PROVE  Released(s, n, d) \in RowType
  BY DEF OutboxAssumption, Released, RowType

\* No claim in hand is a legal worker record.
LEMMA IdleType == ASSUME OutboxAssumption PROVE Idle \in WorkerType
  BY DEF OutboxAssumption, Idle, WorkerType

\* The initial state satisfies the inductive invariant.
LEMMA InitIInv == ASSUME OutboxAssumption PROVE Init => IInv
  <1> SUFFICES ASSUME Init PROVE IInv
    OBVIOUS
  <1> USE OutboxAssumption DEF OutboxAssumption, Init, Idle
  <1>1. TypeOK
    BY DEF TypeOK, RowType, WorkerType
  <1>2. ClaimKnown /\ IdleIsQuiet /\ ClaimUnique /\ OkWasHandled
    BY DEF ClaimKnown, IdleIsQuiet, ClaimUnique, OkWasHandled
  <1>3. HandledWasClaimed /\ ProcessedWasHandled /\ SettledIsStill
    BY DEF HandledWasClaimed, ProcessedWasHandled, SettledIsStill
  <1> QED
    BY <1>1, <1>2, <1>3 DEF IInv

\* Every variable keeps its type.
LEMMA NextTypeOK ==
    ASSUME OutboxAssumption, TypeOK, ClaimKnown, IdleIsQuiet, [Next]_vars
    PROVE  TypeOK'
  <1> USE OutboxAssumption
  <1>0. /\ row \in [Events -> RowType]
        /\ worker \in [Workers -> WorkerType]
        /\ late \subseteq Workers \X Events \X (0..MaxEpoch)
        /\ handled \subseteq Events \X (0..MaxEpoch)
    BY DEF TypeOK
  <1>i. Idle \in WorkerType
    BY IdleType
  <1>1. ASSUME NEW e \in Events, Enqueue(e) PROVE TypeOK'
    <2>1. [row[e] EXCEPT !.status = "pending"] \in RowType
      BY <1>0 DEF RowType
    <2> QED
      BY <1>0, <1>1, <2>1 DEF Enqueue, TypeOK
  <1>2. ASSUME NEW e \in Events, DeleteProject(e) PROVE TypeOK'
    <2>1. row[e].epoch \in 0..MaxEpoch /\ 0 \in 0..MaxDelay
      BY <1>0 DEF RowType, OutboxAssumption
    <2>2. Released("deleted", row[e].epoch, 0) \in RowType
      BY <2>1, ReleasedType
    <2> QED
      BY <1>0, <1>2, <2>2 DEF DeleteProject, TypeOK
  <1>3. ASSUME NEW w \in Workers, Claim(w) PROVE TypeOK'
    <2>1. row' \in [Events -> RowType]
      BY <1>0, <1>3 DEF Claim, RowType, Names, OutboxAssumption
    <2>2. worker' \in [Workers -> WorkerType]
      BY <1>0, <1>3 DEF Claim, WorkerType, RowType, OutboxAssumption
    <2> QED
      BY <1>0, <1>3, <2>1, <2>2 DEF Claim, TypeOK
  <1>4. ASSUME NEW w \in Workers, Heartbeat(w) \/ HeartbeatError(w) PROVE TypeOK'
    <2>1. worker[w].event \in Events
      BY <1>0, <1>4 DEF Heartbeat, HeartbeatError, ClaimKnown, IdleIsQuiet
    <2>2. row' = row \/ row' = [row EXCEPT ![worker[w].event].lease = Lease]
      BY <1>4 DEF Heartbeat, HeartbeatError
    <2>3. row' \in [Events -> RowType]
      BY <1>0, <2>1, <2>2, RenewedType
    <2>4. worker[w] \in WorkerType /\ Interval \in 0..Interval
      BY <1>0 DEF OutboxAssumption
    <2>5. [worker[w] EXCEPT !.due = Interval] \in WorkerType
      BY <2>4 DEF WorkerType
    <2>6. GivenUp(worker[w]) \in WorkerType
      BY <2>4, GivenUpType
    <2>7. worker' \in [Workers -> WorkerType]
      BY <1>0, <1>4, <2>5, <2>6 DEF Heartbeat, HeartbeatError
    <2> QED
      BY <1>0, <1>4, <2>3, <2>7 DEF Heartbeat, HeartbeatError, TypeOK
  <1>5. ASSUME NEW w \in Workers, HandlerReturns(w) \/ HandlerRaises(w) PROVE TypeOK'
    <2>1. worker[w] \in WorkerType
      BY <1>0
    <2>2. /\ [worker[w] EXCEPT !.phase = "joining"] \in WorkerType
          /\ [worker[w] EXCEPT !.phase = "joining", !.ok = TRUE] \in WorkerType
      BY <2>1 DEF WorkerType
    <2>3. worker' \in [Workers -> WorkerType]
      BY <1>0, <1>5, <2>2 DEF HandlerReturns, HandlerRaises
    <2>4. worker[w].event \in Events /\ worker[w].epoch \in 0..MaxEpoch
      BY <1>5, <2>1 DEF HandlerReturns, HandlerRaises, ClaimKnown, WorkerType
    <2> QED
      BY <1>0, <1>5, <2>3, <2>4 DEF HandlerReturns, HandlerRaises, TypeOK
  <1>6. ASSUME NEW w \in Workers, Join(w) \/ JoinTimeout(w) PROVE TypeOK'
    <2>1. worker[w] \in WorkerType /\ 0 \in 0..Interval
      BY <1>0 DEF OutboxAssumption
    <2>2. /\ [worker[w] EXCEPT !.phase = "settling", !.beating = FALSE, !.due = 0]
               \in WorkerType
          /\ [GivenUp(worker[w]) EXCEPT !.phase = "settling"] \in WorkerType
      BY <2>1, GivenUpType DEF WorkerType
    <2>3. worker' \in [Workers -> WorkerType]
      BY <1>0, <1>6, <2>2 DEF Join, JoinTimeout
    <2>4. worker[w].event \in Events /\ worker[w].epoch \in 0..MaxEpoch
      BY <1>6, <2>1 DEF Join, JoinTimeout, ClaimKnown, WorkerType
    <2> QED
      BY <1>0, <1>6, <2>3, <2>4 DEF Join, JoinTimeout, TypeOK
  <1>7. ASSUME NEW w \in Workers, LateHeartbeat(w) PROVE TypeOK'
    <2>1. PICK t \in late :
            /\ late' = late \ {t}
            /\ row' = row \/ row' = [row EXCEPT ![t[2]].lease = Lease]
      BY <1>7 DEF LateHeartbeat
    <2>2. t[2] \in Events
      BY <1>0
    <2>3. row' \in [Events -> RowType]
      BY <1>0, <2>1, <2>2, RenewedType
    <2> QED
      BY <1>0, <1>7, <2>1, <2>3 DEF LateHeartbeat, TypeOK
  <1>8. ASSUME NEW w \in Workers, LeaseLost(w) \/ StaleClaim(w) \/ Crash(w) PROVE TypeOK'
    <2>1. late' \subseteq late /\ row' = row /\ handled' = handled
      BY <1>8 DEF LeaseLost, StaleClaim, Crash
    <2>2. worker' \in [Workers -> WorkerType]
      BY <1>0, <1>8, <1>i DEF LeaseLost, StaleClaim, Crash
    <2> QED
      BY <1>0, <2>1, <2>2 DEF TypeOK
  <1>9. ASSUME NEW w \in Workers, MarkProcessed(w) \/ ReleaseForRetry(w) PROVE TypeOK'
    <2>1. /\ worker[w].event \in Events
          /\ worker[w].epoch \in 0..MaxEpoch /\ worker[w].epoch \in Nat
      BY <1>0, <1>9 DEF MarkProcessed, ReleaseForRetry, ClaimKnown, WorkerType,
                       OutboxAssumption
    <2>2. RetryDelay(worker[w].epoch) \in 0..MaxDelay /\ 0 \in 0..MaxDelay
      BY <2>1, RetryDelayType DEF OutboxAssumption
    <2>3. /\ Released("processed", worker[w].epoch, 0) \in RowType
          /\ Released("pending", worker[w].epoch, RetryDelay(worker[w].epoch)) \in RowType
      BY <2>1, <2>2, ReleasedType
    <2> QED
      BY <1>0, <1>9, <1>i, <2>1, <2>3 DEF MarkProcessed, ReleaseForRetry, TypeOK
  <1>10. ASSUME Tick PROVE TypeOK'
    <2>1. row' \in [Events -> RowType]
      BY <1>0, <1>10, DownType DEF Tick, RowType, OutboxAssumption
    <2>2. worker' \in [Workers -> WorkerType]
      BY <1>0, <1>10, DownType DEF Tick, WorkerType, OutboxAssumption
    <2> QED
      BY <1>0, <1>10, <2>1, <2>2 DEF Tick, TypeOK
  <1>11. ASSUME UNCHANGED vars PROVE TypeOK'
    BY <1>0, <1>11 DEF vars, TypeOK
  <1> QED
    BY <1>1, <1>2, <1>3, <1>4, <1>5, <1>6, <1>7, <1>8, <1>9, <1>10, <1>11
    DEF Next, WorkerStep, Settle

-----------------------------------------------------------------------------
(* Only a claim changes which claims are in hand and which epoch a row has. *)

CallsKept ==
    \A w \in Workers :
        worker'[w].phase # "idle" =>
            /\ worker[w].phase # "idle"
            /\ worker'[w].event = worker[w].event
            /\ worker'[w].epoch = worker[w].epoch

EpochsKept == \A e \in Events : row'[e].epoch = row[e].epoch

NoClaim ==
    \/ \E e \in Events : Enqueue(e) \/ DeleteProject(e)
    \/ \E w \in Workers :
          \/ Heartbeat(w) \/ HeartbeatError(w)
          \/ HandlerReturns(w) \/ HandlerRaises(w)
          \/ Join(w) \/ JoinTimeout(w) \/ LateHeartbeat(w)
          \/ Settle(w) \/ Crash(w)
    \/ Tick
    \/ UNCHANGED vars

\* A step is a claim or none.
LEMMA ClaimOrNot ==
    [Next]_vars <=> NoClaim \/ \E w \in Workers : Claim(w)
  BY DEF Next, WorkerStep, NoClaim

\* What heartbeats, handler calls, joins, second transactions, crashes, the
\* clock and the producers leave alone.
LEMMA NoClaimKeeps ==
    ASSUME OutboxAssumption, TypeOK, ClaimKnown, IdleIsQuiet, NoClaim
    PROVE  CallsKept /\ EpochsKept /\ IdleIsQuiet'
  <1> USE DEF CallsKept, EpochsKept, IdleIsQuiet
  <1>0. /\ row \in [Events -> RowType]
        /\ worker \in [Workers -> WorkerType]
        /\ late \subseteq Workers \X Events \X (0..MaxEpoch)
    BY DEF TypeOK
  <1>1. ASSUME NEW e \in Events, Enqueue(e) \/ DeleteProject(e)
        PROVE  CallsKept /\ EpochsKept /\ IdleIsQuiet'
    BY <1>0, <1>1 DEF Enqueue, DeleteProject, Released, RowType
  <1>2. ASSUME NEW w \in Workers, Heartbeat(w) \/ HeartbeatError(w)
        PROVE  CallsKept /\ EpochsKept /\ IdleIsQuiet'
    <2>1. \/ worker' = [worker EXCEPT ![w].due = Interval]
          \/ worker' = [worker EXCEPT ![w] = GivenUp(@)]
      BY <1>2 DEF Heartbeat, HeartbeatError
    <2>2. row' = row \/ row' = [row EXCEPT ![worker[w].event].lease = Lease]
      BY <1>2 DEF Heartbeat, HeartbeatError
    <2>5. /\ GivenUp(worker[w]).phase = worker[w].phase
          /\ GivenUp(worker[w]).event = worker[w].event
          /\ GivenUp(worker[w]).epoch = worker[w].epoch
          /\ GivenUp(worker[w]).beating = FALSE
      BY <1>0 DEF GivenUp, WorkerType
    <2>6. worker[w].phase # "idle"
      BY <1>2 DEF Heartbeat, HeartbeatError
    <2>7. ASSUME worker' = [worker EXCEPT ![w].due = Interval]
          PROVE  CallsKept /\ IdleIsQuiet'
      BY <1>0, <2>6, <2>7 DEF WorkerType
    <2>8. ASSUME worker' = [worker EXCEPT ![w] = GivenUp(@)]
          PROVE  CallsKept /\ IdleIsQuiet'
      BY <1>0, <2>6, <2>8, <2>5
    <2>3. CallsKept /\ IdleIsQuiet'
      BY <2>1, <2>7, <2>8
    <2>4. EpochsKept
      BY <1>0, <2>2 DEF RowType
    <2> QED
      BY <2>3, <2>4
  <1>3. ASSUME NEW w \in Workers, HandlerReturns(w) \/ HandlerRaises(w)
        PROVE  CallsKept /\ EpochsKept /\ IdleIsQuiet'
    <2> DEFINE c == [worker[w] EXCEPT !.phase = "joining"]
               d == [worker[w] EXCEPT !.phase = "joining", !.ok = TRUE]
    <2>1. /\ c.phase # "idle" /\ c.event = worker[w].event /\ c.epoch = worker[w].epoch
          /\ d.phase # "idle" /\ d.event = worker[w].event /\ d.epoch = worker[w].epoch
      BY <1>0 DEF WorkerType
    <2>2. /\ worker[w].phase # "idle"
          /\ worker' = [worker EXCEPT ![w] = c] \/ worker' = [worker EXCEPT ![w] = d]
          /\ row' = row
      BY <1>3 DEF HandlerReturns, HandlerRaises
    <2> HIDE DEF c, d
    <2> QED
      BY <1>0, <2>1, <2>2
  <1>4. ASSUME NEW w \in Workers, Join(w) \/ JoinTimeout(w)
        PROVE  CallsKept /\ EpochsKept /\ IdleIsQuiet'
    <2> DEFINE c == [worker[w] EXCEPT !.phase = "settling", !.beating = FALSE, !.due = 0]
               d == [GivenUp(worker[w]) EXCEPT !.phase = "settling"]
    <2>1. /\ c.phase # "idle" /\ c.event = worker[w].event /\ c.epoch = worker[w].epoch
          /\ d.phase # "idle" /\ d.event = worker[w].event /\ d.epoch = worker[w].epoch
      BY <1>0 DEF WorkerType, GivenUp
    <2>2. /\ worker[w].phase # "idle"
          /\ worker' = [worker EXCEPT ![w] = c] \/ worker' = [worker EXCEPT ![w] = d]
          /\ row' = row
      BY <1>4 DEF Join, JoinTimeout
    <2> HIDE DEF c, d
    <2> QED
      BY <1>0, <2>1, <2>2
  <1>5. ASSUME NEW w \in Workers, LateHeartbeat(w)
        PROVE  CallsKept /\ EpochsKept /\ IdleIsQuiet'
    <2>1. PICK t \in late :
            row' = row \/ row' = [row EXCEPT ![t[2]].lease = Lease]
      BY <1>5 DEF LateHeartbeat
    <2>2. EpochsKept
      BY <1>0, <2>1 DEF RowType
    <2> QED
      BY <1>5, <2>2 DEF LateHeartbeat
  <1>6. ASSUME NEW w \in Workers, LeaseLost(w) \/ StaleClaim(w) \/ Crash(w)
        PROVE  CallsKept /\ EpochsKept /\ IdleIsQuiet'
    BY <1>0, <1>6 DEF LeaseLost, StaleClaim, Crash, Idle
  <1>7. ASSUME NEW w \in Workers, MarkProcessed(w) \/ ReleaseForRetry(w)
        PROVE  CallsKept /\ EpochsKept /\ IdleIsQuiet'
    BY <1>0, <1>7 DEF MarkProcessed, ReleaseForRetry, OwnsClaim, Fenced, Released, Idle
  <1>8. ASSUME Tick \/ UNCHANGED vars
        PROVE  CallsKept /\ EpochsKept /\ IdleIsQuiet'
    BY <1>0, <1>8 DEF Tick, vars, WorkerType, RowType
  <1> QED
    BY <1>1, <1>2, <1>3, <1>4, <1>5, <1>6, <1>7, <1>8 DEF NoClaim, Settle

\* The claims in hand stay known, and stay different from each other: a claim
\* takes the next epoch, which is above that of every claim made so far.
LEMMA NextClaims ==
    ASSUME OutboxAssumption, IInv, [Next]_vars
    PROVE  ClaimKnown' /\ ClaimUnique' /\ IdleIsQuiet'
  <1>0. /\ row \in [Events -> RowType]
        /\ worker \in [Workers -> WorkerType]
    BY DEF IInv, TypeOK
  <1>1. CASE NoClaim
    <2>1. CallsKept /\ EpochsKept /\ IdleIsQuiet'
      BY <1>1, NoClaimKeeps DEF IInv
    <2>2. ClaimKnown'
      <3> SUFFICES ASSUME NEW w \in Workers, worker'[w].phase # "idle"
                   PROVE  /\ worker'[w].event \in Events
                          /\ worker'[w].epoch \in 1..row'[worker'[w].event].epoch
        BY DEF ClaimKnown
      <3>1. /\ worker[w].event \in Events
            /\ worker[w].epoch \in 1..row[worker[w].event].epoch
            /\ worker'[w].event = worker[w].event
            /\ worker'[w].epoch = worker[w].epoch
        BY <2>1 DEF IInv, ClaimKnown, CallsKept
      <3> QED
        BY <2>1, <3>1 DEF EpochsKept
    <2>3. ClaimUnique'
      BY <2>1 DEF IInv, ClaimUnique, CallsKept
    <2> QED
      BY <2>1, <2>2, <2>3
  <1>2. ASSUME NEW w \in Workers, Claim(w)
        PROVE  ClaimKnown' /\ ClaimUnique' /\ IdleIsQuiet'
    <2>0. PICK e \in Events :
            /\ row' = [row EXCEPT ![e] = [status |-> "running", owner |-> Name[w],
                                          epoch |-> @.epoch + 1,
                                          lease |-> Lease, wait |-> 0]]
            /\ worker' = [worker EXCEPT ![w] =
                 [phase |-> IF e \in BadPayload THEN "settling" ELSE "handling",
                  event |-> e, epoch |-> row[e].epoch + 1, ok |-> FALSE,
                  beating |-> e \notin BadPayload, lost |-> FALSE,
                  due |-> IF e \in BadPayload THEN 0 ELSE Interval]]
      BY <1>2 DEF Claim
    <2>1. /\ row' = [row EXCEPT ![e] = [status |-> "running", owner |-> Name[w],
                                        epoch |-> row[e].epoch + 1,
                                        lease |-> Lease, wait |-> 0]]
          /\ \A v \in Workers : v # w => worker'[v] = worker[v]
          /\ worker'[w].event = e
          /\ worker'[w].epoch = row[e].epoch + 1
          /\ worker'[w].phase # "idle"
      BY <1>0, <2>0
    <2>2. /\ \A f \in Events : row[f].epoch \in Nat /\ row'[f].epoch >= row[f].epoch
                                /\ row'[f].epoch \in Nat
          /\ row'[e].epoch = row[e].epoch + 1
      <3>1. \A f \in Events : row[f].epoch \in Nat
        BY <1>0 DEF RowType, OutboxAssumption
      <3>2. ASSUME NEW f \in Events
            PROVE  row'[f].epoch = IF f = e THEN row[e].epoch + 1 ELSE row[f].epoch
        BY <1>0, <2>1
      <3> QED
        BY <3>1, <3>2
    <2>3. ClaimKnown'
      <3>1. ASSUME NEW v \in Workers, worker'[v].phase # "idle"
            PROVE  /\ worker'[v].event \in Events
                   /\ worker'[v].epoch \in 1..row'[worker'[v].event].epoch
        <4>1. CASE v = w
          BY <2>1, <2>2, <4>1
        <4>2. CASE v # w
          <5>1. /\ worker[v].event \in Events /\ worker'[v] = worker[v]
                /\ worker[v].epoch \in 1..row[worker[v].event].epoch
            BY <2>1, <3>1, <4>2 DEF IInv, ClaimKnown
          <5>2. row[worker[v].event].epoch \in Nat
                /\ row'[worker[v].event].epoch >= row[worker[v].event].epoch
                /\ row'[worker[v].event].epoch \in Nat
            BY <5>1, <2>2
          <5> QED
            BY <5>1, <5>2
        <4> QED
          BY <4>1, <4>2
      <3> QED
        BY <3>1 DEF ClaimKnown
    <2>4. ASSUME NEW v \in Workers, v # w, worker[v].phase # "idle",
                 worker[v].event = e
          PROVE  worker[v].epoch # row[e].epoch + 1
      BY <1>0, <2>2, <2>4 DEF IInv, ClaimKnown, WorkerType, OutboxAssumption
    <2>5. ClaimUnique'
      BY <2>1, <2>4 DEF IInv, ClaimUnique
    <2>6. IdleIsQuiet'
      BY <2>1 DEF IInv, IdleIsQuiet
    <2> QED
      BY <2>3, <2>5, <2>6
  <1> QED
    BY <1>1, <1>2, ClaimOrNot

-----------------------------------------------------------------------------
\* Which steps touch the history and which rows may become processed.
LEMMA NextHandled ==
    ASSUME OutboxAssumption, IInv, [Next]_vars
    PROVE  OkWasHandled' /\ HandledWasClaimed' /\ ProcessedWasHandled'
  <1> USE DEF OkWasHandled, HandledWasClaimed, ProcessedWasHandled
  <1>0. /\ row \in [Events -> RowType]
        /\ worker \in [Workers -> WorkerType]
        /\ late \subseteq Workers \X Events \X (0..MaxEpoch)
        /\ handled \subseteq Events \X (0..MaxEpoch)
        /\ ClaimKnown
        /\ OkWasHandled /\ HandledWasClaimed /\ ProcessedWasHandled
    BY DEF IInv, TypeOK
  <1>1. ASSUME NEW e \in Events, Enqueue(e) \/ DeleteProject(e)
        PROVE  OkWasHandled' /\ HandledWasClaimed' /\ ProcessedWasHandled'
    <2>1. /\ worker' = worker /\ handled' = handled
          /\ \A f \in Events :
                /\ row'[f].epoch = row[f].epoch
                /\ row'[f].status = "absent" => row[f].status = "absent"
                /\ row'[f].status = "processed" => row[f].status = "processed"
      BY <1>0, <1>1 DEF Enqueue, DeleteProject, Released, RowType
    <2> QED
      BY <1>0, <2>1
  <1>2. ASSUME NEW w \in Workers, Claim(w)
        PROVE  OkWasHandled' /\ HandledWasClaimed' /\ ProcessedWasHandled'
    <2>1. PICK e \in Events :
            /\ row' = [row EXCEPT ![e] = [status |-> "running", owner |-> Name[w],
                                          epoch |-> @.epoch + 1,
                                          lease |-> Lease, wait |-> 0]]
            /\ worker' = [worker EXCEPT ![w] =
                 [phase |-> IF e \in BadPayload THEN "settling" ELSE "handling",
                  event |-> e, epoch |-> row[e].epoch + 1, ok |-> FALSE,
                  beating |-> e \notin BadPayload, lost |-> FALSE,
                  due |-> IF e \in BadPayload THEN 0 ELSE Interval]]
            /\ handled' = handled
      BY <1>2 DEF Claim
    <2>2. \A f \in Events :
            /\ row[f].epoch \in Nat /\ row'[f].epoch \in Nat
            /\ row'[f].epoch >= row[f].epoch
            /\ row'[f] = row[f] \/ row'[f].status = "running"
      BY <1>0, <2>1 DEF RowType, OutboxAssumption
    <2>3. HandledWasClaimed'
      BY <1>0, <2>1, <2>2, OutboxAssumption DEF OutboxAssumption
    <2>4. OkWasHandled' /\ ProcessedWasHandled'
      BY <1>0, <2>1, <2>2
    <2> QED
      BY <2>3, <2>4
  <1>3. ASSUME NEW w \in Workers, Heartbeat(w) \/ HeartbeatError(w) \/ LateHeartbeat(w)
        PROVE  OkWasHandled' /\ HandledWasClaimed' /\ ProcessedWasHandled'
    <2>1. row' = row \/ \E e \in Events : row' = [row EXCEPT ![e].lease = Lease]
      <3>1. CASE Heartbeat(w) \/ HeartbeatError(w)
        <4>1. worker[w].event \in Events
          BY <1>0, <3>1 DEF Heartbeat, HeartbeatError, ClaimKnown, IInv, IdleIsQuiet
        <4> QED
          BY <3>1, <4>1 DEF Heartbeat, HeartbeatError
      <3>2. CASE LateHeartbeat(w)
        BY <1>0, <3>2 DEF LateHeartbeat
      <3> QED
        BY <1>3, <3>1, <3>2
    <2>2. \A f \in Events : row'[f].epoch = row[f].epoch /\ row'[f].status = row[f].status
      BY <1>0, <2>1 DEF RowType
    <2>3. \/ worker' = worker
          \/ worker' = [worker EXCEPT ![w].due = Interval]
          \/ worker' = [worker EXCEPT ![w] = GivenUp(@)]
      BY <1>3 DEF Heartbeat, HeartbeatError, LateHeartbeat
    <2>4. /\ GivenUp(worker[w]).phase = worker[w].phase
          /\ GivenUp(worker[w]).event = worker[w].event
          /\ GivenUp(worker[w]).epoch = worker[w].epoch
          /\ GivenUp(worker[w]).ok = worker[w].ok
      BY <1>0 DEF GivenUp, WorkerType
    <2>5. \A v \in Workers :
            /\ worker'[v].phase = worker[v].phase /\ worker'[v].ok = worker[v].ok
            /\ worker'[v].event = worker[v].event /\ worker'[v].epoch = worker[v].epoch
      BY <1>0, <2>3, <2>4 DEF WorkerType
    <2>6. handled' = handled
      BY <1>3 DEF Heartbeat, HeartbeatError, LateHeartbeat
    <2> QED
      BY <1>0, <2>2, <2>5, <2>6
  <1>4. ASSUME NEW w \in Workers, HandlerReturns(w)
        PROVE  OkWasHandled' /\ HandledWasClaimed' /\ ProcessedWasHandled'
    <2>1. /\ handled' = handled \cup {<<worker[w].event, worker[w].epoch>>}
          /\ row' = row
          /\ worker[w].event \in Events
          /\ worker[w].epoch \in 1..row[worker[w].event].epoch
      BY <1>0, <1>4 DEF HandlerReturns, ClaimKnown
    <2>2. HandledWasClaimed' /\ ProcessedWasHandled'
      BY <1>0, <2>1
    <2> DEFINE d == [worker[w] EXCEPT !.phase = "joining", !.ok = TRUE]
    <2>3. d.event = worker[w].event /\ d.epoch = worker[w].epoch
      BY <1>0 DEF WorkerType
    <2>4. worker' = [worker EXCEPT ![w] = d]
      BY <1>4 DEF HandlerReturns
    <2> HIDE DEF d
    <2>5. OkWasHandled'
      BY <1>0, <2>1, <2>3, <2>4
    <2> QED
      BY <2>2, <2>5
  <1>5. ASSUME NEW w \in Workers, HandlerRaises(w) \/ Join(w) \/ JoinTimeout(w)
        PROVE  OkWasHandled' /\ HandledWasClaimed' /\ ProcessedWasHandled'
    <2> DEFINE Same(c) == /\ c.event = worker[w].event /\ c.epoch = worker[w].epoch
                          /\ c.ok = worker[w].ok
    <2>1. /\ Same([worker[w] EXCEPT !.phase = "joining"])
          /\ Same([worker[w] EXCEPT !.phase = "settling", !.beating = FALSE, !.due = 0])
          /\ Same([GivenUp(worker[w]) EXCEPT !.phase = "settling"])
      BY <1>0 DEF WorkerType, GivenUp
    <2>2. /\ worker[w].phase # "idle"
          /\ \E c : Same(c) /\ worker' = [worker EXCEPT ![w] = c]
      <3>1. CASE HandlerRaises(w)
        BY <2>1, <1>0, <3>1 DEF HandlerRaises, WorkerType
      <3>2. CASE Join(w)
        BY <2>1, <3>2 DEF Join
      <3>3. CASE JoinTimeout(w)
        BY <2>1, <3>3 DEF JoinTimeout
      <3> QED
        BY <1>5, <3>1, <3>2, <3>3
    <2>3. row' = row /\ handled' = handled
      BY <1>5 DEF HandlerRaises, Join, JoinTimeout
    <2> QED
      BY <1>0, <2>2, <2>3
  <1>6. ASSUME NEW w \in Workers, LeaseLost(w) \/ StaleClaim(w) \/ Crash(w)
        PROVE  OkWasHandled' /\ HandledWasClaimed' /\ ProcessedWasHandled'
    BY <1>0, <1>6 DEF LeaseLost, StaleClaim, Crash, Idle
  <1>7. ASSUME NEW w \in Workers, MarkProcessed(w) \/ ReleaseForRetry(w)
        PROVE  OkWasHandled' /\ HandledWasClaimed' /\ ProcessedWasHandled'
    <2>1. /\ worker' = [worker EXCEPT ![w] = Idle] /\ handled' = handled
          /\ \A f \in Events :
                /\ row'[f].epoch = row[f].epoch
                /\ row'[f].status = "absent" => row[f].status = "absent"
                /\ row'[f].status = "processed" =>
                     \/ row[f].status = "processed"
                     \/ /\ f = worker[w].event /\ row[f].epoch = worker[w].epoch
                        /\ worker[w].ok /\ worker[w].phase # "idle"
      BY <1>0, <1>7 DEF MarkProcessed, ReleaseForRetry, OwnsClaim, Fenced, Released
    <2> QED
      BY <1>0, <2>1 DEF Idle
  <1>8. ASSUME Tick \/ UNCHANGED vars
        PROVE  OkWasHandled' /\ HandledWasClaimed' /\ ProcessedWasHandled'
    <2>1. /\ handled' = handled
          /\ \A f \in Events : row'[f].epoch = row[f].epoch /\ row'[f].status = row[f].status
          /\ \A v \in Workers :
               /\ worker'[v].phase = worker[v].phase /\ worker'[v].ok = worker[v].ok
               /\ worker'[v].event = worker[v].event /\ worker'[v].epoch = worker[v].epoch
      BY <1>0, <1>8 DEF Tick, vars, WorkerType, RowType
    <2> QED
      BY <1>0, <2>1
  <1> QED
    BY <1>1, <1>2, <1>3, <1>4, <1>5, <1>6, <1>7, <1>8 DEF Next, WorkerStep, Settle

-----------------------------------------------------------------------------
(* A processed row stays, and epochs only grow. *)

RowsAdvance ==
    \A e \in Events :
        /\ row[e].status = "processed" =>
              row'[e] = row[e] \/ row'[e].status = "deleted"
        /\ row'[e].epoch >= row[e].epoch

\* One step of the outbox advances every row.
LEMMA NextAdvances ==
    ASSUME OutboxAssumption, IInv, [Next]_vars
    PROVE  RowsAdvance
  <1> USE DEF RowsAdvance
  <1>0. /\ row \in [Events -> RowType]
        /\ worker \in [Workers -> WorkerType]
        /\ late \subseteq Workers \X Events \X (0..MaxEpoch)
        /\ ClaimKnown
    BY DEF IInv, TypeOK
  <1>t. \A e \in Events : row[e].epoch \in Nat
    BY <1>0 DEF RowType, OutboxAssumption
  <1>1. ASSUME NEW e \in Events, Enqueue(e) \/ DeleteProject(e) PROVE RowsAdvance
    BY <1>0, <1>t, <1>1 DEF Enqueue, DeleteProject, Released, RowType
  <1>2. ASSUME NEW w \in Workers, Claim(w) PROVE RowsAdvance
    <2>1. PICK e \in Events :
            /\ row' = [row EXCEPT ![e] = [status |-> "running", owner |-> Name[w],
                                          epoch |-> @.epoch + 1,
                                          lease |-> Lease, wait |-> 0]]
            /\ row[e].status # "processed"
      BY <1>2 DEF Claim, Claimable
    <2> QED
      BY <1>0, <1>t, <2>1
  <1>3. ASSUME NEW w \in Workers, Heartbeat(w) \/ HeartbeatError(w) \/ LateHeartbeat(w)
        PROVE  RowsAdvance
    <2>1. \/ row' = row
          \/ \E e \in Events : /\ row[e].status = "running"
                               /\ row' = [row EXCEPT ![e].lease = Lease]
      <3>1. CASE Heartbeat(w) \/ HeartbeatError(w)
        <4>1. worker[w].event \in Events
          BY <1>0, <3>1 DEF Heartbeat, HeartbeatError, ClaimKnown, IInv, IdleIsQuiet
        <4> QED
          BY <3>1, <4>1 DEF Heartbeat, HeartbeatError, OwnsClaim, Fenced
      <3>2. CASE LateHeartbeat(w)
        BY <1>0, <3>2 DEF LateHeartbeat, Fenced
      <3> QED
        BY <1>3, <3>1, <3>2
    <2> QED
      BY <1>0, <1>t, <2>1 DEF RowType
  <1>4. ASSUME NEW w \in Workers, MarkProcessed(w) \/ ReleaseForRetry(w)
        PROVE  RowsAdvance
    <2>1. PICK r : /\ row' = [row EXCEPT ![worker[w].event] = r]
                   /\ r.epoch = worker[w].epoch
      BY <1>4 DEF MarkProcessed, ReleaseForRetry, Released
    <2>2. /\ row[worker[w].event].status = "running"
          /\ row[worker[w].event].epoch = worker[w].epoch
      BY <1>4 DEF MarkProcessed, ReleaseForRetry, OwnsClaim, Fenced
    <2> QED
      BY <1>0, <1>t, <2>1, <2>2
  <1>5. ASSUME Tick PROVE RowsAdvance
    <2>1. ASSUME NEW e \in Events, row[e].status = "processed" PROVE row'[e] = row[e]
      <3>1. row[e].lease = 0 /\ row[e].wait = 0
        BY <2>1 DEF IInv, SettledIsStill
      <3> QED
        BY <1>0, <1>5, <3>1, <2>1 DEF Tick, Down, RowType
    <2>2. \A e \in Events : row'[e].epoch = row[e].epoch
      BY <1>5 DEF Tick
    <2> QED
      BY <1>t, <2>1, <2>2
  <1>6. ASSUME UNCHANGED row PROVE RowsAdvance
    BY <1>t, <1>6
  <1> QED
    BY <1>1, <1>2, <1>3, <1>4, <1>5, <1>6
    DEF Next, WorkerStep, Settle, HandlerReturns, HandlerRaises, Join, JoinTimeout,
        LeaseLost, StaleClaim, Crash, vars

\* A row becomes processed with its timers cleared, and then keeps them so.
LEMMA NextStill ==
    ASSUME OutboxAssumption, IInv, [Next]_vars
    PROVE  SettledIsStill'
  <1>0. /\ row \in [Events -> RowType]
        /\ worker \in [Workers -> WorkerType]
        /\ late \subseteq Workers \X Events \X (0..MaxEpoch)
    BY DEF IInv, TypeOK
  <1>1. ASSUME NEW e \in Events, row'[e].status = "processed",
               row[e].status = "processed"
        PROVE  row'[e] = row[e]
    BY <1>1, NextAdvances DEF RowsAdvance
  <1>2. ASSUME NEW e \in Events, row'[e].status = "processed",
               row[e].status # "processed"
        PROVE  row'[e].lease = 0 /\ row'[e].wait = 0
    <2>1. ASSUME NEW w \in Workers, MarkProcessed(w) \/ ReleaseForRetry(w)
          PROVE  row'[e].lease = 0 /\ row'[e].wait = 0
      BY <1>0, <1>2, <2>1 DEF MarkProcessed, ReleaseForRetry, Released
    <2>2. ASSUME NEW f \in Events, Enqueue(f) \/ DeleteProject(f) PROVE FALSE
      BY <1>0, <1>2, <2>2 DEF Enqueue, DeleteProject, Released, RowType
    <2>3. ASSUME NEW w \in Workers, Claim(w) PROVE FALSE
      BY <1>0, <1>2, <2>3 DEF Claim
    <2>4. ASSUME NEW f \in Events, row' = [row EXCEPT ![f].lease = Lease] PROVE FALSE
      BY <1>0, <1>2, <2>4 DEF RowType
    <2>5. ASSUME NEW w \in Workers, Heartbeat(w) \/ HeartbeatError(w) PROVE FALSE
      <3>1. worker[w].event \in Events
        BY <1>0, <2>5 DEF Heartbeat, HeartbeatError, ClaimKnown, IInv, IdleIsQuiet
      <3> QED
        BY <1>2, <2>4, <2>5, <3>1 DEF Heartbeat, HeartbeatError
    <2>6. ASSUME NEW w \in Workers, LateHeartbeat(w) PROVE FALSE
      BY <1>0, <1>2, <2>4, <2>6 DEF LateHeartbeat
    <2>7. ASSUME Tick PROVE FALSE
      BY <1>2, <2>7 DEF Tick
    <2> QED
      BY <1>2, <2>1, <2>2, <2>3, <2>5, <2>6, <2>7
      DEF Next, WorkerStep, Settle, HandlerReturns, HandlerRaises, Join, JoinTimeout,
          LeaseLost, StaleClaim, Crash, vars
  <1> QED
    BY <1>1, <1>2 DEF IInv, SettledIsStill

\* The inductive invariant holds in every reachable state.
THEOREM Invariance == Spec => []IInv
  <1>1. Init => IInv
    BY OutboxAssumption, InitIInv
  <1>2. IInv /\ [Next]_vars => IInv'
    BY OutboxAssumption, NextTypeOK, NextClaims, NextHandled, NextStill DEF IInv
  <1> QED
    BY <1>1, <1>2, PTL DEF Spec

\* Every variable of the outbox has its type in every reachable state.
THEOREM TypeCorrect == Spec => []TypeOK
  <1>1. IInv => TypeOK
    BY DEF IInv
  <1> QED
    BY <1>1, Invariance, PTL

\* At most one worker can write the row of an event, for any naming of the
\* workers: two claims that pass the fence of one row have its epoch, so they
\* are one claim.
THEOREM FenceAdmitsOne == Spec => []OneHolder
  <1>1. IInv => OneHolder
    BY DEF IInv, ClaimUnique, OneHolder, Holds, OwnsClaim, Fenced
  <1> QED
    BY <1>1, Invariance, PTL

\* A processed row carries the epoch of a handler call that returned.
THEOREM AckedWasHandled == Spec => []ProcessedWasHandled
  <1>1. IInv => ProcessedWasHandled
    BY DEF IInv
  <1> QED
    BY <1>1, Invariance, PTL

\* An acknowledgement is final: the action property holds of every step.
THEOREM AckIsFinal == Spec => SettledIsFinal
  <1>1. IInv /\ [Next]_vars => [RowsAdvance]_vars
    BY OutboxAssumption, NextAdvances
  <1> QED
    BY <1>1, Invariance, PTL DEF Spec, SettledIsFinal, RowsAdvance

-----------------------------------------------------------------------------
(* A call that beats on time is not overtaken: the lease of its row outlasts *)
(* the wait for its next beat.                                               *)

\* Worker v runs a handler, beats on time and believes in its claim.
Beats(v) == v \in Timely /\ worker[v].phase = "handling" /\ ~worker[v].lost

\* The heartbeat thread of such a call is alive.
ThreadRuns == \A v \in Workers : Beats(v) => worker[v].beating

\* Row e carries claim n of worker v under a lease that is longer than d, or
\* it went with its project.
Ahead(v, e, n, d) ==
    /\ row[e].epoch = n
    /\ row[e].status = "deleted" \/ (Fenced(v, e, n) /\ row[e].lease > d)

\* The lease ends after the next beat.
OnTime ==
    \A v \in Workers :
        Beats(v) => Ahead(v, worker[v].event, worker[v].epoch, worker[v].due)

TInv == IInv /\ ThreadRuns /\ OnTime

\* Nobody beats when the outbox starts.
LEMMA InitTInv == ASSUME OutboxAssumption PROVE Init => TInv
  <1>1. Init => ThreadRuns /\ OnTime
    BY DEF Init, Idle, Beats, ThreadRuns, OnTime
  <1> QED
    BY <1>1, InitIInv DEF TInv

\* A claim starts ahead, with a whole lease before its first beat.
LEMMA ClaimAhead ==
    ASSUME OutboxAssumption, TInv, NEW v \in Workers, Claim(v), Beats(v)'
    PROVE  /\ worker'[v].beating
           /\ Ahead(v, worker[v].event, worker[v].epoch, worker[v].due)'
  <1>0. row \in [Events -> RowType] /\ worker \in [Workers -> WorkerType]
    BY DEF TInv, IInv, TypeOK
  <1>1. PICK e \in Events :
          /\ row' = [row EXCEPT ![e] = [status |-> "running", owner |-> Name[v],
                                        epoch |-> @.epoch + 1,
                                        lease |-> Lease, wait |-> 0]]
          /\ worker' = [worker EXCEPT ![v] =
                [phase |-> IF e \in BadPayload THEN "settling" ELSE "handling",
                 event |-> e, epoch |-> row[e].epoch + 1, ok |-> FALSE,
                 beating |-> e \notin BadPayload, lost |-> FALSE,
                 due |-> IF e \in BadPayload THEN 0 ELSE Interval]]
    BY DEF Claim
  <1>2. e \notin BadPayload
    BY <1>0, <1>1 DEF Beats
  <1>3. /\ worker'[v].event = e /\ worker'[v].epoch = row[e].epoch + 1
        /\ worker'[v].due = Interval /\ worker'[v].beating
    BY <1>0, <1>1, <1>2
  <1>4. /\ row'[e].epoch = row[e].epoch + 1 /\ row'[e].status = "running"
        /\ row'[e].owner = Name[v] /\ row'[e].lease = Lease
    BY <1>0, <1>1
  <1>5. Lease > Interval
    BY DEF OutboxAssumption
  <1> QED
    BY <1>3, <1>4, <1>5 DEF Ahead, Fenced

\* Nobody else takes a row whose holder is ahead.
LEMMA OthersClaim ==
    ASSUME OutboxAssumption, TInv, NEW v \in Workers, Beats(v),
           NEW w \in Workers, Claim(w)
    PROVE  row'[worker[v].event] = row[worker[v].event] /\ worker'[v] = worker[v]
  <1> DEFINE f == worker[v].event
  <1>0. row \in [Events -> RowType] /\ worker \in [Workers -> WorkerType]
    BY DEF TInv, IInv, TypeOK
  <1>1. /\ \E e \in Events : Claimable(e) /\ \E r : row' = [row EXCEPT ![e] = r]
        /\ \E c : worker' = [worker EXCEPT ![w] = c]
    BY DEF Claim
  <1>2. f \in Events /\ Ahead(v, f, worker[v].epoch, worker[v].due)
    BY DEF Beats, TInv, OnTime, IInv, ClaimKnown
  <1>3. worker[v].due \in Nat
    BY <1>0 DEF WorkerType, OutboxAssumption
  <1> HIDE DEF f
  <1>4. ~Claimable(f)
    BY <1>2, <1>3 DEF Ahead, Fenced, Claimable
  <1>5. w # v
    BY DEF Claim, Beats
  <1> QED
    BY <1>0, <1>1, <1>2, <1>4, <1>5 DEF f

\* A step that is no claim and no tick leaves a call that beats on time as it
\* is or renews its lease.
LEMMA CallHeld ==
    ASSUME OutboxAssumption, TInv, NEW v \in Workers, NEW w \in Workers,
           WorkerStep(w), ~Claim(w), Beats(v)'
    PROVE  /\ Beats(v)
           /\ worker'[v].event = worker[v].event
           /\ worker'[v].epoch = worker[v].epoch
           /\ worker'[v].beating = worker[v].beating
           /\ worker'[v].due = worker[v].due \/ worker'[v].due = Interval
           /\ worker'[v].due # worker[v].due =>
                 row' = [row EXCEPT ![worker[v].event].lease = Lease]
  <1>0. worker \in [Workers -> WorkerType]
    BY DEF TInv, IInv, TypeOK
  <1>1. CASE Heartbeat(w) \/ HeartbeatError(w)
    <2>1. \/ /\ worker' = [worker EXCEPT ![w].due = Interval]
             /\ row' = [row EXCEPT ![worker[w].event].lease = Lease]
          \/ worker' = [worker EXCEPT ![w] = GivenUp(@)]
      BY <1>1 DEF Heartbeat, HeartbeatError
    <2>2. GivenUp(worker[w]).lost
      BY <1>0 DEF GivenUp, WorkerType
    <2>3. CASE worker' = [worker EXCEPT ![w] = GivenUp(@)]
      BY <1>0, <2>2, <2>3 DEF Beats
    <2>4. CASE /\ worker' = [worker EXCEPT ![w].due = Interval]
               /\ row' = [row EXCEPT ![worker[w].event].lease = Lease]
      BY <1>0, <2>4 DEF Beats, WorkerType
    <2> QED
      BY <2>1, <2>3, <2>4
  <1>2. CASE worker'[w].phase # "handling" /\ \E c : worker' = [worker EXCEPT ![w] = c]
    BY <1>0, <1>2 DEF Beats
  <1>3. CASE LateHeartbeat(w)
    BY <1>0, <1>3 DEF LateHeartbeat, Beats
  <1>4. CASE HandlerReturns(w) \/ HandlerRaises(w) \/ Join(w) \/ JoinTimeout(w)
    <2>1. \E c : worker' = [worker EXCEPT ![w] = c]
      BY <1>4 DEF HandlerReturns, HandlerRaises, Join, JoinTimeout
    <2>2. worker'[w].phase # "handling"
      BY <1>0, <1>4 DEF HandlerReturns, HandlerRaises, Join, JoinTimeout, WorkerType, GivenUp
    <2> QED
      BY <1>2, <2>1, <2>2
  <1>5. CASE Settle(w) \/ Crash(w)
    <2>1. worker' = [worker EXCEPT ![w] = Idle]
      BY <1>5 DEF Settle, Crash, LeaseLost, MarkProcessed, ReleaseForRetry, StaleClaim
    <2>2. worker'[w].phase # "handling"
      BY <1>0, <2>1 DEF Idle
    <2> QED
      BY <1>2, <2>1, <2>2
  <1> QED
    BY <1>1, <1>3, <1>4, <1>5 DEF WorkerStep

\* Such a step keeps its row, or gives it a whole lease: a second transaction
\* on this row would need the very claim, whose handler still runs.
LEMMA RowHeld ==
    ASSUME OutboxAssumption, TInv, NEW v \in Workers, Beats(v),
           NEW w \in Workers, WorkerStep(w), ~Claim(w), Beats(v)'
    PROVE  \/ row'[worker[v].event] = row[worker[v].event]
           \/ row'[worker[v].event] = [row[worker[v].event] EXCEPT !.lease = Lease]
  <1> DEFINE f == worker[v].event
  <1>0. /\ row \in [Events -> RowType]
        /\ worker \in [Workers -> WorkerType]
        /\ late \subseteq Workers \X Events \X (0..MaxEpoch)
        /\ f \in Events
    BY DEF TInv, IInv, TypeOK, Beats, ClaimKnown
  <1>1. CASE Heartbeat(w) \/ HeartbeatError(w)
    <2>1. row' = row \/ row' = [row EXCEPT ![worker[w].event].lease = Lease]
      BY <1>1 DEF Heartbeat, HeartbeatError
    <2> QED
      BY <1>0, <2>1
  <1>2. CASE LateHeartbeat(w)
    <2>1. PICK t \in late :
            row' = row \/ row' = [row EXCEPT ![t[2]].lease = Lease]
      BY <1>2 DEF LateHeartbeat
    <2> QED
      BY <1>0, <2>1
  <1>3. CASE row' = row
    BY <1>3
  <1>4. CASE MarkProcessed(w) \/ ReleaseForRetry(w)
    <2>1. PICK r : row' = [row EXCEPT ![worker[w].event] = r]
      BY <1>4 DEF MarkProcessed, ReleaseForRetry
    <2>2. /\ worker[w].phase = "settling"
          /\ row[worker[w].event].status = "running"
          /\ row[worker[w].event].epoch = worker[w].epoch
      BY <1>4 DEF MarkProcessed, ReleaseForRetry, OwnsClaim, Fenced
    <2>3. ASSUME worker[w].event = f PROVE FALSE
      <3>1. row[f].epoch = worker[v].epoch
        BY DEF TInv, OnTime, Ahead
      <3>2. worker[v].epoch = worker[w].epoch /\ worker[v].phase = "handling"
        BY <2>2, <2>3, <3>1 DEF Beats
      <3>3. v = w
        BY <2>2, <2>3, <3>2 DEF TInv, IInv, ClaimUnique
      <3> QED
        BY <2>2, <3>2, <3>3
    <2> QED
      BY <1>0, <2>1, <2>3
  <1> QED
    BY <1>1, <1>2, <1>3, <1>4 DEF WorkerStep, Settle, HandlerReturns, HandlerRaises,
       Join, JoinTimeout, LeaseLost, StaleClaim, Crash

\* The clock takes as much from the lease as from the wait for the next beat,
\* and waits for the beat that is due.
LEMMA TickKeeps ==
    ASSUME OutboxAssumption, TInv, NEW v \in Workers, Tick, Beats(v)'
    PROVE  /\ worker'[v].beating
           /\ Ahead(v, worker[v].event, worker[v].epoch, worker[v].due)'
  <1> DEFINE f == worker[v].event
             n == worker[v].epoch
             d == worker[v].due
  <1>0. row \in [Events -> RowType] /\ worker \in [Workers -> WorkerType]
    BY DEF TInv, IInv, TypeOK
  <1>1. /\ worker'[v].phase = worker[v].phase /\ worker'[v].lost = worker[v].lost
        /\ worker'[v].event = f /\ worker'[v].epoch = n
        /\ worker'[v].beating = worker[v].beating /\ worker'[v].due = Down(d)
    BY <1>0 DEF Tick, WorkerType
  <1>2. Beats(v)
    BY <1>1 DEF Beats
  <1>3. f \in Events /\ Ahead(v, f, n, d) /\ worker[v].beating
    BY <1>2 DEF TInv, OnTime, ThreadRuns, Beats, IInv, ClaimKnown
  <1>4. d \in Nat /\ d # 0
    BY <1>0, <1>2, <1>3 DEF Tick, Beats, BeatDue, WorkerType, OutboxAssumption
  <1>5. row[f].lease \in Nat
    <2>1. row[f] \in RowType
      BY <1>0, <1>3
    <2> QED
      BY <2>1 DEF RowType, OutboxAssumption
  <1>6. /\ row'[f].status = row[f].status /\ row'[f].owner = row[f].owner
        /\ row'[f].epoch = row[f].epoch /\ row'[f].lease = Down(row[f].lease)
    BY <1>3 DEF Tick
  <1>7. row[f].lease > d => Down(row[f].lease) > Down(d)
    BY <1>4, <1>5 DEF Down
  <1>8. /\ row'[f].epoch = n
        /\ \/ row'[f].status = "deleted"
           \/ /\ row'[f].status = "running" /\ row'[f].owner = Name[v]
              /\ row'[f].lease > Down(d)
    <2>1. row[f].epoch = n
      BY <1>3 DEF Ahead
    <2>2. row[f].status = "deleted" \/ (Fenced(v, f, n) /\ row[f].lease > d)
      BY <1>3 DEF Ahead
    <2> HIDE DEF f, n, d
    <2> QED
      BY <1>6, <1>7, <2>1, <2>2 DEF Fenced
  <1> QED
    BY <1>1, <1>3, <1>8 DEF Ahead, Fenced

\* One step of the outbox keeps a call that beats on time ahead.
LEMMA NextTInv ==
    ASSUME OutboxAssumption, TInv, [Next]_vars
    PROVE  TInv'
  <1>0. row \in [Events -> RowType] /\ worker \in [Workers -> WorkerType]
    BY DEF TInv, IInv, TypeOK
  <1>1. ASSUME NEW v \in Workers, Beats(v)'
        PROVE  /\ worker'[v].beating
               /\ Ahead(v, worker[v].event, worker[v].epoch, worker[v].due)'
    <2> DEFINE f == worker[v].event
               n == worker[v].epoch
               d == worker[v].due
    <2>a. ASSUME Beats(v)
          PROVE  /\ worker[v].beating /\ f \in Events /\ Ahead(v, f, n, d)
                 /\ d \in Nat /\ d <= Interval
      BY <1>0, <2>a DEF Beats, TInv, ThreadRuns, OnTime, IInv, ClaimKnown, WorkerType,
         OutboxAssumption
    <2>1. CASE UNCHANGED <<row, worker>>
      <3>1. Beats(v)
        BY <1>1, <2>1 DEF Beats
      <3> QED
        BY <2>a, <2>1, <3>1 DEF Ahead, Fenced
    <2>2. ASSUME NEW e \in Events, Enqueue(e) \/ DeleteProject(e)
          PROVE  /\ worker'[v].beating
                 /\ Ahead(v, worker[v].event, worker[v].epoch, worker[v].due)'
      <3>1. worker' = worker
        BY <2>2 DEF Enqueue, DeleteProject
      <3>2. Beats(v)
        BY <1>1, <3>1 DEF Beats
      <3>3. CASE Enqueue(e)
        <4>1. e # f
          BY <2>a, <3>2, <3>3 DEF Enqueue, Ahead, Fenced
        <4>2. row'[f] = row[f]
          BY <1>0, <2>a, <3>2, <3>3, <4>1 DEF Enqueue
        <4> QED
          BY <2>a, <3>1, <3>2, <4>2 DEF Ahead, Fenced
      <3>4. CASE DeleteProject(e)
        <4>1. row' = [row EXCEPT ![e] = Released("deleted", row[e].epoch, 0)]
          BY <3>4 DEF DeleteProject
        <4>2. row'[f] = row[f] \/ (row'[f].status = "deleted" /\ row'[f].epoch = row[f].epoch)
          BY <1>0, <2>a, <3>2, <4>1 DEF Released
        <4> QED
          BY <2>a, <3>1, <3>2, <4>2 DEF Ahead, Fenced
      <3> QED
        BY <2>2, <3>3, <3>4
    <2>3. ASSUME NEW w \in Workers, Claim(w)
          PROVE  /\ worker'[v].beating
                 /\ Ahead(v, worker[v].event, worker[v].epoch, worker[v].due)'
      <3>1. CASE w = v
        BY <1>1, <2>3, <3>1, ClaimAhead
      <3>2. CASE w # v
        <4>1. worker'[v] = worker[v]
          BY <1>0, <2>3, <3>2 DEF Claim
        <4>2. Beats(v)
          BY <1>1, <4>1 DEF Beats
        <4>3. row'[f] = row[f]
          BY <2>3, <4>2, OthersClaim
        <4> QED
          BY <2>a, <4>1, <4>2, <4>3 DEF Ahead, Fenced
      <3> QED
        BY <3>1, <3>2
    <2>4. ASSUME NEW w \in Workers, WorkerStep(w), ~Claim(w)
          PROVE  /\ worker'[v].beating
                 /\ Ahead(v, worker[v].event, worker[v].epoch, worker[v].due)'
      <3>1. /\ Beats(v)
            /\ worker'[v].event = f /\ worker'[v].epoch = n
            /\ worker'[v].beating = worker[v].beating
            /\ worker'[v].due = d \/ worker'[v].due = Interval
            /\ worker'[v].due # d => row' = [row EXCEPT ![f].lease = Lease]
        BY <1>1, <2>4, CallHeld
      <3>2. row'[f] = row[f] \/ row'[f] = [row[f] EXCEPT !.lease = Lease]
        BY <1>1, <2>4, <3>1, RowHeld
      <3>3. Interval \in Nat /\ Lease \in Nat /\ Lease > Interval
        BY DEF OutboxAssumption
      <3>4. worker[v].beating /\ f \in Events /\ Ahead(v, f, n, d) /\ d \in Nat /\ d <= Interval
        BY <2>a, <3>1
      <3>5. row[f] \in RowType
        BY <1>0, <3>4
      <3> HIDE DEF f, n, d
      <3>6. CASE worker'[v].due = d /\ row'[f] = row[f]
        BY <3>1, <3>4, <3>6 DEF Ahead, Fenced
      <3>7. CASE row'[f] = [row[f] EXCEPT !.lease = Lease]
        <4>1. /\ row'[f].status = row[f].status /\ row'[f].owner = row[f].owner
              /\ row'[f].epoch = row[f].epoch /\ row'[f].lease = Lease
          BY <3>5, <3>7 DEF RowType
        <4>2. Lease > worker'[v].due
          BY <3>1, <3>3, <3>4
        <4> QED
          BY <3>1, <3>4, <4>1, <4>2 DEF Ahead, Fenced
      <3>8. CASE worker'[v].due # d
        <4>1. row' = [row EXCEPT ![f].lease = Lease]
          BY <3>1, <3>8
        <4> QED
          BY <1>0, <3>4, <3>7, <4>1
      <3> QED
        BY <3>2, <3>6, <3>7, <3>8
    <2>5. CASE Tick
      BY <1>1, <2>5, TickKeeps
    <2> QED
      BY <2>1, <2>2, <2>3, <2>4, <2>5 DEF Next, vars
  <1>2. IInv'
    BY NextTypeOK, NextClaims, NextHandled, NextStill DEF IInv, TInv
  <1> QED
    BY <1>1, <1>2 DEF TInv, ThreadRuns, OnTime

\* A call that beats on time and believes in its claim has the newest claim of
\* its event: the lease its beats renew is never claimable.
THEOREM OnTimeIsNewest == Spec => []NoOverlap
  <1>1. TInv => NoOverlap
    <2> SUFFICES ASSUME TInv, NEW v \in Workers, NEW w \in Workers, Beats(v),
                        worker[w].phase = "handling", worker[v].event = worker[w].event
                 PROVE  worker[w].epoch <= worker[v].epoch
      BY DEF NoOverlap, Beats
    <2>1. row[worker[v].event].epoch = worker[v].epoch
      BY DEF TInv, OnTime, Ahead
    <2>2. worker[w].epoch \in 1..row[worker[w].event].epoch
      BY DEF TInv, IInv, ClaimKnown
    <2> QED
      BY <2>1, <2>2
  <1>2. Init => TInv
    BY OutboxAssumption, InitTInv
  <1>3. TInv /\ [Next]_vars => TInv'
    BY OutboxAssumption, NextTInv
  <1> QED
    BY <1>1, <1>2, <1>3, PTL DEF Spec

-----------------------------------------------------------------------------
(* The outbox implements AtLeastOnce. *)

\* The six values of a status are told apart by their stages as far as
\* AtLeastOnce cares.
LEMMA StageOf ==
    /\ Stage("absent") = "unpublished"
    /\ Stage("pending") = "owed" /\ Stage("running") = "owed"
    /\ Stage("processed") = "acked"
    /\ Stage("deleted") = "dropped"
  BY DEF Stage

\* Steps that leave the statuses and the history alone are invisible.
LEMMA Invisible ==
    ASSUME \A e \in Events : row'[e].status = row[e].status, UNCHANGED handled
    PROVE  UNCHANGED Promise!vars
  BY DEF Promise!vars, Stages, Delivered

\* A step that changes the status of one row changes its stage only.
LEMMA OneStage ==
    ASSUME NEW e \in Events, NEW s,
           \A f \in Events : row'[f].status = IF f = e THEN s ELSE row[f].status
    PROVE  Stages' = [Stages EXCEPT ![e] = Stage(s)]
  BY DEF Stages

\* Every step of the outbox is a step of AtLeastOnce or invisible.
LEMMA StepImplements ==
    ASSUME OutboxAssumption, IInv, [Next]_vars
    PROVE  [Promise!Next]_Promise!vars
  <1> USE DEF Promise!Next
  <1>0. /\ row \in [Events -> RowType]
        /\ worker \in [Workers -> WorkerType]
        /\ late \subseteq Workers \X Events \X (0..MaxEpoch)
        /\ handled \subseteq Events \X (0..MaxEpoch)
        /\ ClaimKnown /\ OkWasHandled /\ HandledWasClaimed /\ IdleIsQuiet
    BY DEF IInv, TypeOK
  <1>1. ASSUME NEW e \in Events, Enqueue(e) PROVE Promise!Publish(e)
    <2>1. \A f \in Events : row'[f].status = IF f = e THEN "pending" ELSE row[f].status
      BY <1>0, <1>1 DEF Enqueue, RowType
    <2>3. Stages' = [Stages EXCEPT ![e] = "owed"]
      BY <2>1, OneStage, StageOf
    <2>4. Stages[e] = "unpublished" /\ Delivered' = Delivered
      BY <1>1, StageOf DEF Enqueue, Stages, Delivered
    <2> QED
      BY <2>3, <2>4 DEF Promise!Publish
  <1>2. ASSUME NEW e \in Events, DeleteProject(e) PROVE Promise!Drop(e)
    <2>3. \A f \in Events : row'[f].status = IF f = e THEN "deleted" ELSE row[f].status
      BY <1>0, <1>2 DEF DeleteProject, Released
    <2>1. Stages' = [Stages EXCEPT ![e] = "dropped"]
      BY <2>3, OneStage, StageOf
    <2>2. Stages[e] # "unpublished"
      <3>1. row[e].status \in {"pending", "running", "processed"}
        BY <1>0, <1>2 DEF DeleteProject, RowType
      <3> QED
        BY <3>1, StageOf DEF Stages
    <2> QED
      BY <1>2, <2>1, <2>2 DEF DeleteProject, Promise!Drop, Delivered
  <1>3. ASSUME NEW w \in Workers, Claim(w) PROVE UNCHANGED Promise!vars
    <2>1. PICK e \in Events :
            /\ row[e].status \in {"pending", "running"}
            /\ row' = [row EXCEPT ![e] = [status |-> "running", owner |-> Name[w],
                                          epoch |-> @.epoch + 1,
                                          lease |-> Lease, wait |-> 0]]
      BY <1>3 DEF Claim, Claimable
    <2>5. \A f \in Events : row'[f].status = IF f = e THEN "running" ELSE row[f].status
      BY <1>0, <2>1
    <2>2. Stages' = [Stages EXCEPT ![e] = "owed"]
      BY <2>5, OneStage, StageOf
    <2>3. Stages[e] = "owed"
      BY <2>1, StageOf DEF Stages
    <2>4. Stages' = Stages
      BY <2>2, <2>3 DEF Stages
    <2> QED
      BY <1>3, <2>4 DEF Claim, Promise!vars, Delivered
  <1>4. ASSUME NEW w \in Workers, Heartbeat(w) \/ HeartbeatError(w) \/ LateHeartbeat(w)
        PROVE  UNCHANGED Promise!vars
    <2>1. row' = row \/ \E e \in Events : row' = [row EXCEPT ![e].lease = Lease]
      <3>1. CASE Heartbeat(w) \/ HeartbeatError(w)
        <4>1. worker[w].event \in Events
          BY <1>0, <3>1 DEF Heartbeat, HeartbeatError, ClaimKnown, IdleIsQuiet
        <4> QED
          BY <3>1, <4>1 DEF Heartbeat, HeartbeatError
      <3>2. CASE LateHeartbeat(w)
        BY <1>0, <3>2 DEF LateHeartbeat
      <3> QED
        BY <1>4, <3>1, <3>2
    <2>2. \A f \in Events : row'[f].status = row[f].status
      BY <1>0, <2>1 DEF RowType
    <2> QED
      BY <1>4, <2>2, Invisible DEF Heartbeat, HeartbeatError, LateHeartbeat
  <1>5. ASSUME NEW w \in Workers, HandlerReturns(w) PROVE \E e \in Events : Promise!Deliver(e)
    <2>1. /\ worker[w].event \in Events
          /\ worker[w].epoch \in 1..row[worker[w].event].epoch
          /\ worker[w].epoch \in 1..MaxEpoch
      BY <1>0, <1>5 DEF HandlerReturns, ClaimKnown, RowType, WorkerType, OutboxAssumption
    <2>2. row[worker[w].event].status \in {"pending", "running", "processed", "deleted"}
      <3>2. row[worker[w].event] \in RowType
        BY <1>0, <2>1
      <3>3. row[worker[w].event].epoch \in Nat
        BY <3>2 DEF RowType, OutboxAssumption
      <3>1. /\ row[worker[w].event].epoch # 0
            /\ row[worker[w].event] \in RowType
        BY <2>1, <3>2, <3>3
      <3> QED
        BY <1>0, <2>1, <3>1 DEF HandledWasClaimed, RowType
    <2>3. Stages[worker[w].event] # "unpublished"
      BY <2>1, <2>2, StageOf DEF Stages
    <2>4. Delivered' = Delivered \cup {worker[w].event}
      BY <1>5, <2>1 DEF HandlerReturns, Delivered
    <2>5. Stages' = Stages
      BY <1>5 DEF HandlerReturns, Stages
    <2> QED
      BY <2>1, <2>3, <2>4, <2>5 DEF Promise!Deliver
  <1>6. ASSUME NEW w \in Workers, MarkProcessed(w)
        PROVE  \E e \in Events : Promise!Acknowledge(e)
    <2>1. /\ worker[w].event \in Events
          /\ row[worker[w].event].status = "running"
          /\ <<worker[w].event, worker[w].epoch>> \in handled
          /\ worker[w].epoch \in 1..MaxEpoch
      BY <1>0, <1>6 DEF MarkProcessed, OwnsClaim, Fenced, ClaimKnown, OkWasHandled,
                        RowType, WorkerType, OutboxAssumption
    <2>4. \A f \in Events :
            row'[f].status = IF f = worker[w].event THEN "processed" ELSE row[f].status
      BY <1>0, <1>6 DEF MarkProcessed, Released
    <2>2. Stages' = [Stages EXCEPT ![worker[w].event] = "acked"]
      <3>1. Stages' = [Stages EXCEPT ![worker[w].event] = Stage("processed")]
        BY <2>1, <2>4, OneStage
      <3> QED
        BY <3>1, StageOf
    <2>3. Stages[worker[w].event] = "owed" /\ worker[w].event \in Delivered
      BY <2>1, StageOf DEF Stages, Delivered
    <2> QED
      BY <1>6, <2>1, <2>2, <2>3 DEF MarkProcessed, Promise!Acknowledge, Delivered
  <1>7. ASSUME NEW w \in Workers, ReleaseForRetry(w) PROVE UNCHANGED Promise!vars
    <2>1. worker[w].event \in Events /\ row[worker[w].event].status = "running"
      BY <1>0, <1>7 DEF ReleaseForRetry, OwnsClaim, Fenced, ClaimKnown
    <2>5. \A f \in Events :
            row'[f].status = IF f = worker[w].event THEN "pending" ELSE row[f].status
      BY <1>0, <1>7 DEF ReleaseForRetry, Released
    <2>2. Stages' = [Stages EXCEPT ![worker[w].event] = "owed"]
      <3>1. Stages' = [Stages EXCEPT ![worker[w].event] = Stage("pending")]
        BY <2>1, <2>5, OneStage
      <3> QED
        BY <3>1, StageOf
    <2>3. Stages[worker[w].event] = "owed"
      BY <2>1, StageOf DEF Stages
    <2>4. Stages' = Stages
      BY <2>2, <2>3 DEF Stages
    <2> QED
      BY <1>7, <2>4 DEF ReleaseForRetry, Promise!vars, Delivered
  <1>8. ASSUME NEW w \in Workers,
               HandlerRaises(w) \/ Join(w) \/ JoinTimeout(w) \/ LeaseLost(w)
                 \/ StaleClaim(w) \/ Crash(w)
        PROVE  UNCHANGED Promise!vars
    BY <1>8, Invisible
    DEF HandlerRaises, Join, JoinTimeout, LeaseLost, StaleClaim, Crash
  <1>9. ASSUME Tick \/ UNCHANGED vars PROVE UNCHANGED Promise!vars
    BY <1>9, Invisible DEF Tick, vars
  <1> QED
    BY <1>1, <1>2, <1>3, <1>4, <1>5, <1>6, <1>7, <1>8, <1>9 DEF Next, WorkerStep, Settle

\* Whatever leases, crashes and stale workers do, the outbox delivers every
\* event it acknowledges: it implements AtLeastOnce.
THEOREM ImplementsPromise == Spec => DeliversAtLeastOnce
  <1>1. Init => Promise!Init
    BY StageOf DEF Init, Promise!Init, Stages, Delivered
  <1>2. IInv /\ [Next]_vars => [Promise!Next]_Promise!vars
    BY OutboxAssumption, StepImplements
  <1> QED
    BY <1>1, <1>2, Invariance, PTL DEF Spec, DeliversAtLeastOnce, Promise!Spec
=============================================================================
