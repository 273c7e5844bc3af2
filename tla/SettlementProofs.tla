------------------------- MODULE SettlementProofs -------------------------
(***************************************************************************)
(* Theorems about Settlement, for every number of fills, callers and       *)
(* orders, every clock bound, all quantities and every number of faults.   *)
(*                                                                         *)
(* Events and stages (the first part).  A caller that works on an event    *)
(* owns it: the row is PROCESSING and carries the start time of the        *)
(* caller's batch (Owned).  As long as no batch outlives the stale lease   *)
(* (~SlowBatches), no other caller finds that row processable, so no       *)
(* claim, and therefore no checkpoint, ever touches an event in another    *)
(* caller's hands.                                                         *)
(*                                                                         *)
(* The books (the second part).                                            *)
(*   DamageContained      for any callers, however their transactions      *)
(*                        interleave: no lot is ever short, and books that *)
(*                        do not balance are reported (ShapeInv).          *)
(*   BooksStayBalanced    for any callers, while no batch outlives its     *)
(*   SettlementIsALedger  lease (or one caller, whose batches may) and no  *)
(*                        sell is executed beyond what was authorised: the *)
(*                        books balance and settlement implements          *)
(*                        FillLedger (BooksInv, RowWatched).               *)
(* The proof first says what each step does (the Effect lemmas), then that *)
(* each step keeps ShapeInv, then that it keeps BooksInv.                  *)
(***************************************************************************)
EXTENDS Settlement, SumProofs

\* The labels between NextStage and the checkpoint of that stage.
Stages == {"lot", "close", "open", "attribution", "cash", "holding", "holdingRow",
           "writeHolding", "trade", "readTrade", "writeTrade", "verify", "verifyHolding",
           "liability", "holdOrder", "checkpoint"}

\* A working caller has a fill, and a stage is running only while a flag is
\* still to be set.
JobsOK ==
    \A p \in Procs :
        /\ Working(p) => job[p].fill \in Fills
        /\ pc[p] \in Stages => job[p].state.done < Flags

TypeInv == TypeOK /\ JobsOK

-----------------------------------------------------------------------------
\* NextStage is a stage while flags are missing, and the COMPLETED checkpoint
\* after the last of them (run_settlement_stages).
LEMMA NextStageType ==
    ASSUME NEW n \in 0 .. Flags
    PROVE  /\ NextStage(n) \in PCs \ {"idle", "batch", "latch"}
           /\ NextStage(n) \in Stages => n < Flags
  <1>1. n \in {0, 1, 2, 3, 4, 5, 6, 7}
    BY SMT DEF Flags
  <1> QED
    BY <1>1, SMT DEF NextStage, StageAfter, Stages, Flags, PCs

\* The records a caller and an event start from are well typed.
LEMMA EmptyRecordsType ==
    /\ Nothing \in [Fills -> Nat]
    /\ Pending \in Event /\ Absent \in Event
    /\ NoJob \in Job /\ NoBatch \in Batch
  <1>1. Nothing \in [Fills -> Nat]
    BY DEF Nothing
  <1>2. Pending \in Event /\ Absent \in Event
    BY <1>1 DEF Pending, Absent, Event, Statuses, Flags
  <1>3. NoJob \in Job
    BY <1>1, <1>2 DEF NoJob, Job, NoView, NoTrade
  <1>4. NoBatch \in Batch
    BY <1>1 DEF NoBatch, Batch
  <1> QED
    BY <1>1, <1>2, <1>3, <1>4

\* Reading an Event field by field.
LEMMA EventFields ==
    ASSUME NEW e \in Event
    PROVE  /\ e.status \in Statuses /\ e.done \in 0 .. Flags /\ e.started \in Nat
           /\ e.attempts \in Nat /\ e.retryAt \in Nat /\ e.realized \in [Fills -> Nat]
           /\ e = [status |-> e.status, done |-> e.done, started |-> e.started,
                   attempts |-> e.attempts, retryAt |-> e.retryAt, realized |-> e.realized]
  BY DEF Event

\* A receding event keeps everything but its recorded times.
LEMMA RecededType ==
    ASSUME NEW e \in Event
    PROVE  /\ Receded(e) \in Event
           /\ Receded(e).done = e.done /\ Receded(e).status = e.status
           /\ Receded(e).started = Earlier(e.started)
           /\ e.started = 0 /\ e.retryAt = 0 => Receded(e) = e
  <1>1. Earlier(e.started) \in Nat /\ Earlier(e.retryAt) \in Nat
    BY EventFields, SMT DEF Earlier
  <1>2. Receded(e) = [e EXCEPT !.started = Earlier(e.started), !.retryAt = Earlier(e.retryAt)]
    BY DEF Receded
  <1>3. Earlier(0) = 0
    BY DEF Earlier
  <1> QED
    BY <1>1, <1>2, <1>3, EventFields DEF Event

\* Init satisfies the type invariant.
LEMMA InitType == Init => TypeInv
  <1> SUFFICES ASSUME Init PROVE TypeInv
    OBVIOUS
  <1> USE EmptyRecordsType DEF Init
  <1>1. lots \in [Fills -> LotRow]
    BY DEF NoLot, LotRow
  <1>2. intent \in [Orders -> [filled : SUBSET Fills, realized : SUBSET Fills]]
    BY DEF NoTrade
  <1>3. pc \in [Procs -> PCs] /\ failure \in [Procs -> Failures] /\ hold \in [Orders -> Holds]
    BY DEF PCs, Failures, Holds
  <1>4. dispute \in [Orders -> Dispute]
    BY DEF NoDispute, Dispute
  <1>5. TypeOK
    BY <1>1, <1>2, <1>3, <1>4 DEF TypeOK
  <1>6. JobsOK
    BY DEF JobsOK, Working, Stages
  <1> QED
    BY <1>5, <1>6 DEF TypeInv

-----------------------------------------------------------------------------
(* Steps of a caller, seen from its own variables.                          *)

CallerOK ==
    /\ JobsOK
    /\ pc \in [Procs -> PCs]
    /\ job \in [Procs -> Job]
    /\ failure \in [Procs -> Failures]

\* What a caller may hold at a label.
JobOK(l, j) ==
    /\ l \in PCs /\ j \in Job
    /\ l \notin {"idle", "batch", "latch"} => j.fill \in Fills
    /\ l \in Stages => j.state.done < Flags

\* A caller moves to l with j in its hands.
LEMMA CallerStep ==
    ASSUME TypeInv, NEW p \in Procs, NEW l, NEW j,
           pc' = [pc EXCEPT ![p] = l], job' = [job EXCEPT ![p] = j], JobOK(l, j),
           failure' \in [Procs -> Failures]
    PROVE  CallerOK'
  BY DEF TypeInv, TypeOK, JobsOK, JobOK, Working, CallerOK

\* What a working caller has.
LEMMA WorkingJob ==
    ASSUME TypeInv, NEW p \in Procs, pc[p] \notin {"idle", "batch", "latch"}
    PROVE  /\ job[p] \in Job /\ job[p].fill \in Fills
           /\ job = [job EXCEPT ![p] = job[p]]
           /\ job[p].state \in Event /\ job[p].state.done \in 0 .. Flags /\ job[p].claimed \in Event
           /\ pc[p] \in Stages => job[p].state.done < Flags
           /\ job[p].take \in [Fills -> Nat] /\ job[p].rest \in Nat /\ job[p].tries \in Nat
           /\ job[p].view.trade \in [filled : SUBSET Fills, realized : SUBSET Fills]
           /\ failure[p] \in Failures
           /\ HoldFailure(job[p].fill) \in Failures
  BY EventFields DEF TypeInv, TypeOK, JobsOK, Working, Job, HoldFailure, Failures

\* A caller raises an exception.
LEMMA RaiseType ==
    ASSUME TypeInv, NEW p \in Procs, pc[p] \notin {"idle", "batch", "latch"}, NEW kind \in Failures,
           Raise(p, kind), job' = job
    PROVE  CallerOK'
  <1>1. JobOK("fail", job[p])
    BY WorkingJob DEF JobOK, Stages, PCs
  <1>2. pc' = [pc EXCEPT ![p] = "fail"] /\ job' = [job EXCEPT ![p] = job[p]]
    BY WorkingJob DEF Raise, Goto
  <1>3. failure' \in [Procs -> Failures]
    BY DEF Raise, TypeInv, TypeOK
  <1> QED
    BY <1>1, <1>2, <1>3, CallerStep

\* A caller goes on with the same event.
LEMMA GotoType ==
    ASSUME TypeInv, NEW p \in Procs, pc[p] \notin {"idle", "batch", "latch"},
           NEW l \in PCs, l \in Stages => job[p].state.done < Flags,
           Goto(p, l), job' = job, failure' = failure
    PROVE  CallerOK'
  <1>1. JobOK(l, job[p])
    BY WorkingJob DEF JobOK
  <1>2. pc' = [pc EXCEPT ![p] = l] /\ job' = [job EXCEPT ![p] = job[p]]
    BY WorkingJob DEF Goto
  <1>3. failure' \in [Procs -> Failures]
    BY DEF TypeInv, TypeOK
  <1> QED
    BY <1>1, <1>2, <1>3, CallerStep

\* A caller goes on with the same event inside a stage.
LEMMA StageGotoType ==
    ASSUME TypeInv, NEW p \in Procs, pc[p] \in Stages, NEW l \in Stages,
           Goto(p, l), job' = job, failure' = failure
    PROVE  CallerOK'
  <1>1. l \in PCs /\ pc[p] \notin {"idle", "batch", "latch"}
    BY DEF Stages, PCs
  <1> QED
    BY <1>1, WorkingJob, GotoType

\* A caller lets go of its event.
LEMMA IdleType ==
    ASSUME TypeInv, NEW p \in Procs, NEW l \in {"idle", "batch", "latch"}, Goto(p, l), Idle(p)
    PROVE  CallerOK'
  <1>1. JobOK(l, NoJob)
    BY EmptyRecordsType DEF JobOK, Stages, PCs
  <1>2. failure' \in [Procs -> Failures]
    BY DEF Idle, TypeInv, TypeOK, Failures
  <1> QED
    BY <1>1, <1>2, CallerStep DEF Goto, Idle

\* A caller ends its batch.
LEMMA EndOfBatchType ==
    ASSUME TypeInv, NEW p \in Procs, EndOfBatch(p)
    PROVE  CallerOK' /\ batch' \in [Procs -> Batch]
  <1>1. CallerOK'
    BY IdleType DEF EndOfBatch
  <1>2. batch' \in [Procs -> Batch]
    BY EmptyRecordsType DEF EndOfBatch, TypeInv, TypeOK
  <1> QED
    BY <1>1, <1>2

-----------------------------------------------------------------------------
(* TypeInv is preserved by every step of a caller.                          *)

\* A batch starts, ends or loses its lease with its locals well typed (process_pending).
LEMMA BatchTypes ==
    ASSUME TypeInv, NEW p \in Procs,
           StartBatch(p) \/ FinishBatch(p) \/ LeaseLost(p) \/ Latch(p) \/ Crash(p)
    PROVE  TypeInv'
  <1>1. CASE StartBatch(p)
    <2> DEFINE candidates == {f \in Fills : IsSettlementProcessable(events[f], clock)}
               b == [now |-> clock, due |-> candidates,
                     tries |-> [f \in Fills |-> IF f \in candidates THEN events[f].attempts ELSE 0]]
    <2>1. b.tries \in [Fills -> Nat] /\ b \in Batch
      BY EventFields DEF TypeInv, TypeOK, Batch
    <2>2. batch' \in [Procs -> Batch]
      BY <1>1, <2>1 DEF StartBatch, TypeInv, TypeOK
    <2>3. JobOK("batch", job[p]) /\ job' = [job EXCEPT ![p] = job[p]]
      BY <1>1 DEF JobOK, Stages, PCs, StartBatch, TypeInv, TypeOK
    <2>4. failure' \in [Procs -> Failures]
      BY <1>1 DEF StartBatch, TypeInv, TypeOK
    <2>5. CallerOK'
      BY <1>1, <2>3, <2>4, CallerStep DEF StartBatch, Goto
    <2>6. overlapped' \in BOOLEAN
      BY <1>1 DEF StartBatch
    <2> QED
      BY <1>1, <2>2, <2>5, <2>6 DEF StartBatch, TypeInv, TypeOK, CallerOK, books
  <1>2. CASE FinishBatch(p)
    <2>1. CallerOK' /\ batch' \in [Procs -> Batch]
      BY <1>2, EndOfBatchType DEF FinishBatch
    <2> QED
      BY <1>2, <2>1 DEF FinishBatch, TypeInv, TypeOK, CallerOK, books, world
  <1>3. CASE LeaseLost(p)
    <2>1. CallerOK' /\ batch' \in [Procs -> Batch] /\ faults' \in Nat
      BY <1>3, EndOfBatchType DEF LeaseLost, TypeInv, TypeOK
    <2> QED
      BY <1>3, <2>1 DEF LeaseLost, TypeInv, TypeOK, CallerOK, books
  <1>4. CASE Crash(p)
    <2>1. CallerOK' /\ batch' \in [Procs -> Batch] /\ faults' \in Nat
      BY <1>4, EndOfBatchType DEF Crash, TypeInv, TypeOK
    <2> QED
      BY <1>4, <2>1 DEF Crash, TypeInv, TypeOK, CallerOK, books
  <1>5. CASE Latch(p)
    <2>1. JobOK("batch", job[p]) /\ job' = [job EXCEPT ![p] = job[p]]
      BY <1>5 DEF JobOK, Stages, PCs, Latch, TypeInv, TypeOK
    <2>2. CallerOK'
      BY <1>5, <2>1, CallerStep DEF Latch, Goto, TypeInv, TypeOK
    <2> QED
      BY <1>5, <2>2 DEF Latch, TypeInv, TypeOK, CallerOK, books, world
  <1> QED
    BY <1>1, <1>2, <1>3, <1>4, <1>5

\* A claim keeps the tables and the caller well typed (claim_if_processable).
LEMMA ClaimType ==
    ASSUME TypeInv, NEW p \in Procs, Claim(p)
    PROVE  TypeInv'
  <1>1. PICK f \in batch[p].due :
          /\ batch' = [batch EXCEPT ![p].due = @ \ {f}]
          /\ \/ /\ events' = [events EXCEPT ![f] = ClaimedBy(p, @)]
                /\ job' = [job EXCEPT ![p] = [NoJob EXCEPT !.fill = f, !.tries = batch[p].tries[f],
                                !.claimed = ClaimedBy(p, events[f]), !.state = ClaimedBy(p, events[f])]]
                /\ Goto(p, "precheck")
             \/ UNCHANGED <<events, job, pc>>
    BY DEF Claim
  <1>2. f \in Fills /\ batch[p].tries[f] \in Nat /\ batch[p].now \in Nat /\ events[f] \in Event
    BY DEF TypeInv, TypeOK, Batch
  <1>3. batch' \in [Procs -> Batch]
    BY <1>1 DEF TypeInv, TypeOK, Batch
  <1>4. failure' = failure /\ failure' \in [Procs -> Failures]
    BY DEF Claim, TypeInv, TypeOK
  <1>5. CASE UNCHANGED <<events, job, pc>>
    BY <1>3, <1>4, <1>5 DEF Claim, TypeInv, TypeOK, JobsOK, Working, books, world
  <1>6. CASE /\ events' = [events EXCEPT ![f] = ClaimedBy(p, @)]
             /\ job' = [job EXCEPT ![p] = [NoJob EXCEPT !.fill = f, !.tries = batch[p].tries[f],
                             !.claimed = ClaimedBy(p, events[f]), !.state = ClaimedBy(p, events[f])]]
             /\ Goto(p, "precheck")
    <2> DEFINE e == ClaimedBy(p, events[f])
               j == [NoJob EXCEPT !.fill = f, !.tries = batch[p].tries[f], !.claimed = e, !.state = e]
    <2>1. e \in Event
      BY <1>2 DEF ClaimedBy, Event, Statuses
    <2>2. j \in Job /\ j.fill = f
      <3> HIDE DEF e
      <3> QED
        BY <1>2, <2>1, EmptyRecordsType DEF NoJob, Job
    <2>3. events' \in [Fills -> Event]
      BY <1>6, <2>1 DEF TypeInv, TypeOK
    <2>4. JobOK("precheck", j)
      BY <1>2, <2>2 DEF JobOK, PCs, Stages
    <2>5. CallerOK'
      BY <1>4, <1>6, <2>4, CallerStep DEF Goto
    <2> QED
      BY <1>3, <2>3, <2>5 DEF Claim, TypeInv, TypeOK, CallerOK, books, world
  <1> QED
    BY <1>1, <1>5, <1>6

\* The hold check before the first stage keeps types.
LEMMA PreCheckType ==
    ASSUME TypeInv, NEW p \in Procs, PreCheck(p)
    PROVE  TypeInv'
  <1> DEFINE l == NextStage(job[p].state.done)
  <1>1. pc[p] \notin {"idle", "batch", "latch"} /\ job' = job
    BY DEF PreCheck
  <1>2. CASE Raise(p, HoldFailure(job[p].fill))
    BY <1>1, <1>2, RaiseType, WorkingJob
       DEF PreCheck, TypeInv, TypeOK, CallerOK, books, world
  <1>3. CASE Goto(p, l) /\ UNCHANGED failure
    <2>1. l \in PCs /\ (l \in Stages => job[p].state.done < Flags)
      BY <1>1, WorkingJob, NextStageType
    <2>2. CallerOK'
      BY <1>1, <1>3, <2>1, GotoType
    <2> QED
      BY <1>3, <2>2 DEF PreCheck, TypeInv, TypeOK, CallerOK, books, world
  <1> QED
    BY <1>2, <1>3 DEF PreCheck

\* project_lot goes on with a closure, the remainder or the checkpoint.
LEMMA LotStepType ==
    ASSUME NEW t, NEW r
    PROVE  LotStep(t, r) \in {"close", "open", "checkpoint"}
  BY DEF LotStep

\* A plan of project_lot is well typed.
LEMMA PlanLotsType ==
    ASSUME TypeInv, NEW p \in Procs, PlanLots(p)
    PROVE  TypeInv'
  <1> DEFINE f == job[p].fill
             spent == Spent(ClosedBy(f), lots[f].opened)
  <1>1. pc[p] \in Stages /\ pc[p] \notin {"idle", "batch", "latch"}
    BY DEF PlanLots, Stages
  <1>2. CASE Raise(p, "INTEGRITY_VIOLATION") /\ UNCHANGED job
    <2>1. CallerOK'
      BY <1>1, <1>2, RaiseType DEF Failures
    <2> QED
      BY <2>1 DEF PlanLots, TypeInv, TypeOK, CallerOK, books, world
  <1>3. CASE /\ \E t \in [Fills -> 0 .. Qty[f]], r \in 0 .. Qty[f] :
                  /\ job' = [job EXCEPT ![p] = [@ EXCEPT !.take = t, !.rest = r,
                                !.state.realized = [l \in Fills |-> ClosedBy(f)[l] + t[l]]]]
                  /\ Goto(p, LotStep(t, r))
             /\ UNCHANGED failure
    <2>1. PICK t \in [Fills -> 0 .. Qty[f]], r \in 0 .. Qty[f] :
                  /\ job' = [job EXCEPT ![p] = [@ EXCEPT !.take = t, !.rest = r,
                                !.state.realized = [l \in Fills |-> ClosedBy(f)[l] + t[l]]]]
                  /\ Goto(p, LotStep(t, r))
      BY <1>3
    <2> DEFINE closed == [l \in Fills |-> ClosedBy(f)[l] + t[l]]
               s == [job[p].state EXCEPT !.realized = closed]
               j == [job[p] EXCEPT !.take = t, !.rest = r, !.state = s]
    <2>2. f \in Fills /\ Qty[f] \in Nat
      BY <1>1, WorkingJob, SettlementAssumption
    <2>3. r \in Nat /\ t \in [Fills -> Nat]
      BY <2>2, SMT
    <2>4. \A l \in Fills : ClosedBy(f)[l] \in Nat
      BY <2>2 DEF ClosedBy, TypeInv, TypeOK, LotRow
    <2>5. closed \in [Fills -> Nat]
      BY <2>3, <2>4
    <2>6. s \in Event /\ s.done = job[p].state.done
      <3> HIDE DEF closed
      <3> QED
        BY <1>1, <2>5, WorkingJob DEF Event
    <2>7. j \in Job /\ j.fill = f /\ j.state = s
      <3> HIDE DEF s
      <3> QED
        BY <1>1, <2>3, <2>6, WorkingJob DEF Job
    <2>8. job' = [job EXCEPT ![p] = j]
      BY <2>1
    <2>9. LotStep(t, r) \in Stages /\ LotStep(t, r) \in PCs
      BY LotStepType DEF Stages, PCs
    <2>10. JobOK(LotStep(t, r), j)
      <3> HIDE DEF j, s
      <3> QED
        BY <1>1, <2>2, <2>6, <2>7, <2>9, WorkingJob DEF JobOK
    <2>11. CallerOK'
      <3> HIDE DEF j
      <3> QED
        BY <1>3, <2>1, <2>8, <2>10, CallerStep DEF Goto, TypeInv, TypeOK
    <2> QED
      BY <2>11 DEF PlanLots, TypeInv, TypeOK, CallerOK, books, world
  <1> QED
    BY <1>2, <1>3 DEF PlanLots

\* A lot row that is opened is a lot row.
LEMMA OpenedType ==
    ASSUME NEW row \in LotRow, NEW q \in Nat
    PROVE  [row EXCEPT !.opened = q, !.remaining = q] \in LotRow
  <1>1. q \in Int
    BY SMT
  <1> QED
    BY <1>1 DEF LotRow

\* A closed lot row is a lot row.
LEMMA ClosedType ==
    ASSUME NEW row \in LotRow, NEW f \in Fills, NEW q \in Nat
    PROVE  Closed(row, f, q) \in LotRow
  <1> DEFINE closures == [row.closures EXCEPT ![f] = q]
             left == row.remaining - q
  <1>1. closures \in [Fills -> Nat] /\ left \in Int /\ row.opened \in Nat
    BY DEF LotRow
  <1>2. Closed(row, f, q) = [row EXCEPT !.remaining = left, !.closures = closures]
    BY DEF Closed
  <1> HIDE DEF closures, left
  <1> QED
    BY <1>1, <1>2 DEF LotRow

\* A closure keeps the lots well typed; remaining is only an integer here.
LEMMA CloseLotType ==
    ASSUME TypeInv, NEW p \in Procs, CloseLot(p)
    PROVE  TypeInv'
  <1> DEFINE f == job[p].fill
  <1>1. /\ pc[p] \in Stages /\ pc[p] \notin {"idle", "batch", "latch"}
        /\ f \in Fills /\ HoldFailure(f) \in Failures /\ "other" \in Failures
    BY WorkingJob DEF CloseLot, Stages, Failures
  <1>2. CASE /\ Raise(p, HoldFailure(f)) \/ Raise(p, "other")
             /\ UNCHANGED <<lots, job>>
    <2>1. CallerOK'
      BY <1>1, <1>2, RaiseType
    <2> QED
      BY <1>2, <2>1 DEF CloseLot, TypeInv, TypeOK, CallerOK, world
  <1>3. ASSUME NEW l \in Fills,
               job[p].take[l] <= lots[l].remaining,
               lots' = [lots EXCEPT ![l] = Closed(@, f, job[p].take[l])],
               job' = [job EXCEPT ![p].take[l] = 0],
               Goto(p, LotStep([job[p].take EXCEPT ![l] = 0], job[p].rest)),
               UNCHANGED failure
        PROVE  TypeInv'
    <2> DEFINE q == job[p].take[l]
               take == [job[p].take EXCEPT ![l] = 0]
               j == [job[p] EXCEPT !.take = take]
    <2>1. q \in Nat /\ take \in [Fills -> Nat]
      BY <1>1, WorkingJob
    <2>2. Closed(lots[l], f, q) \in LotRow
      <3>1. lots[l] \in LotRow
        BY DEF TypeInv, TypeOK
      <3> HIDE DEF q
      <3> QED
        BY <1>1, <2>1, <3>1, ClosedType
    <2>3. lots' \in [Fills -> LotRow]
      BY <1>3, <2>2 DEF TypeInv, TypeOK
    <2>4. j \in Job /\ j.fill = f /\ j.state = job[p].state
      <3> HIDE DEF take
      <3> QED
        BY <1>1, <2>1, WorkingJob DEF Job
    <2>5. LotStep(take, job[p].rest) \in Stages /\ LotStep(take, job[p].rest) \in PCs
      BY LotStepType DEF Stages, PCs
    <2>6. JobOK(LotStep(take, job[p].rest), j)
      <3> HIDE DEF j
      <3> QED
        BY <1>1, <2>4, <2>5, WorkingJob DEF JobOK
    <2>7. job' = [job EXCEPT ![p] = j]
      BY <1>3
    <2>8. CallerOK'
      <3> HIDE DEF j
      <3> QED
        BY <1>3, <2>6, <2>7, CallerStep DEF Goto, TypeInv, TypeOK
    <2> QED
      BY <2>3, <2>8 DEF CloseLot, TypeInv, TypeOK, CallerOK, world
  <1> QED
    BY <1>2, <1>3 DEF CloseLot

\* Opening a lot or a liability keeps types.
LEMMA OpenRemainderType ==
    ASSUME TypeInv, NEW p \in Procs, OpenRemainder(p)
    PROVE  TypeInv'
  <1> DEFINE f == job[p].fill
  <1>1. /\ pc[p] \in Stages /\ pc[p] \notin {"idle", "batch", "latch"} /\ "checkpoint" \in Stages
        /\ f \in Fills /\ job[p].rest \in Nat /\ HoldFailure(f) \in Failures /\ job' = job
    BY WorkingJob DEF OpenRemainder, Stages
  <1>2. CallerOK'
    BY <1>1, RaiseType, StageGotoType DEF OpenRemainder
  <1>3. lots' \in [Fills -> LotRow]
    <2>1. lots \in [Fills -> LotRow] /\ lots[f] \in LotRow
      BY <1>1 DEF TypeInv, TypeOK
    <2>2. [lots[f] EXCEPT !.opened = job[p].rest, !.remaining = job[p].rest] \in LotRow
      BY <1>1, <2>1, OpenedType
    <2> QED
      BY <1>1, <2>1, <2>2 DEF OpenRemainder
  <1>4. liability' \in [Fills -> Nat]
    BY <1>1 DEF OpenRemainder, TypeInv, TypeOK
  <1> QED
    BY <1>2, <1>3, <1>4 DEF OpenRemainder, TypeInv, TypeOK, CallerOK, world

\* The attribution and cash stages keep types.
LEMMA AttributionAndCashType ==
    ASSUME TypeInv, NEW p \in Procs, ProjectAttribution(p) \/ ProjectCash(p)
    PROVE  TypeInv'
  <1> DEFINE f == job[p].fill
  <1>1. /\ pc[p] \in Stages /\ pc[p] \notin {"idle", "batch", "latch"} /\ "checkpoint" \in Stages
        /\ f \in Fills /\ HoldFailure(f) \in Failures /\ job' = job
    BY WorkingJob DEF ProjectAttribution, ProjectCash, Stages
  <1>2. CallerOK'
    BY <1>1, RaiseType, StageGotoType DEF ProjectAttribution, ProjectCash
  <1>3. CASE ProjectAttribution(p)
    <2>1. \A l \in Fills : lots[l].closures[f] \in Nat
      BY <1>1 DEF TypeInv, TypeOK, LotRow
    <2>2. attribution' \in [Fills -> [Fills -> Nat]]
      BY <1>1, <1>3, <2>1 DEF ProjectAttribution, TypeInv, TypeOK
    <2> QED
      BY <1>2, <1>3, <2>2 DEF ProjectAttribution, TypeInv, TypeOK, CallerOK, world
  <1>4. CASE ProjectCash(p)
    <2>1. cash' \in SUBSET Fills
      BY <1>1, <1>4 DEF ProjectCash, TypeInv, TypeOK
    <2> QED
      BY <1>2, <1>4, <2>1 DEF ProjectCash, TypeInv, TypeOK, CallerOK, world
  <1> QED
    BY <1>3, <1>4

\* The three reads that a stage keeps in its view.
LEMMA ViewStep ==
    ASSUME TypeInv, NEW p \in Procs, pc[p] \in Stages, NEW l \in Stages, NEW units \in [Fills -> Int],
           job' = [job EXCEPT ![p].view.units = units], Goto(p, l), failure' = failure
    PROVE  CallerOK'
  <1> DEFINE v == [job[p].view EXCEPT !.units = units]
             j == [job[p] EXCEPT !.view = v]
  <1>1. job[p] \in Job /\ job[p].fill \in Fills /\ job[p].state.done < Flags /\ l \in PCs
    BY WorkingJob DEF Stages, PCs
  <1>2. v \in [units : [Fills -> Int], row : BOOLEAN,
               trade : [filled : SUBSET Fills, realized : SUBSET Fills]]
    BY <1>1 DEF Job
  <1>3. j \in Job /\ j.fill = job[p].fill /\ j.state = job[p].state
    <2> HIDE DEF v
    <2> QED
      BY <1>1, <1>2 DEF Job
  <1>4. job' = [job EXCEPT ![p] = j]
    OBVIOUS
  <1> HIDE DEF j
  <1>5. JobOK(l, j)
    BY <1>1, <1>3 DEF JobOK
  <1> QED
    BY <1>4, <1>5, CallerStep DEF Goto, TypeInv, TypeOK

\* Reading the holding row changes one local field.
LEMMA RowStep ==
    ASSUME TypeInv, NEW p \in Procs, pc[p] \in Stages, NEW l \in Stages, NEW row \in BOOLEAN,
           job' = [job EXCEPT ![p].view.row = row], Goto(p, l), failure' = failure
    PROVE  CallerOK'
  <1> DEFINE v == [job[p].view EXCEPT !.row = row]
             j == [job[p] EXCEPT !.view = v]
  <1>1. job[p] \in Job /\ job[p].fill \in Fills /\ job[p].state.done < Flags /\ l \in PCs
    BY WorkingJob DEF Stages, PCs
  <1>2. v \in [units : [Fills -> Int], row : BOOLEAN,
               trade : [filled : SUBSET Fills, realized : SUBSET Fills]]
    BY <1>1, Zenon DEF Job
  <1>3. j \in Job /\ j.fill = job[p].fill /\ j.state = job[p].state
    <2> HIDE DEF v
    <2> QED
      BY <1>1, <1>2 DEF Job
  <1>4. job' = [job EXCEPT ![p] = j]
    OBVIOUS
  <1> HIDE DEF j
  <1>5. JobOK(l, j)
    BY <1>1, <1>3 DEF JobOK
  <1> QED
    BY <1>4, <1>5, CallerStep DEF Goto, TypeInv, TypeOK

\* Reading the intent changes one local field.
LEMMA TradeStep ==
    ASSUME TypeInv, NEW p \in Procs, pc[p] \in Stages, NEW l \in Stages,
           NEW trade \in [filled : SUBSET Fills, realized : SUBSET Fills],
           job' = [job EXCEPT ![p].view.trade = trade], Goto(p, l), failure' = failure
    PROVE  CallerOK'
  <1> DEFINE v == [job[p].view EXCEPT !.trade = trade]
             j == [job[p] EXCEPT !.view = v]
  <1>1. job[p] \in Job /\ job[p].fill \in Fills /\ job[p].state.done < Flags /\ l \in PCs
    BY WorkingJob DEF Stages, PCs
  <1>2. v \in [units : [Fills -> Int], row : BOOLEAN,
               trade : [filled : SUBSET Fills, realized : SUBSET Fills]]
    BY <1>1 DEF Job
  <1>3. j \in Job /\ j.fill = job[p].fill /\ j.state = job[p].state
    <2> HIDE DEF v
    <2> QED
      BY <1>1, <1>2 DEF Job
  <1>4. job' = [job EXCEPT ![p] = j]
    OBVIOUS
  <1> HIDE DEF j
  <1>5. JobOK(l, j)
    BY <1>1, <1>3 DEF JobOK
  <1> QED
    BY <1>4, <1>5, CallerStep DEF Goto, TypeInv, TypeOK

\* The three transactions of project_holding keep types.
LEMMA HoldingType ==
    ASSUME TypeInv, NEW p \in Procs, ReadLots(p) \/ ReadHoldingRow(p) \/ WriteHolding(p)
    PROVE  TypeInv'
  <1>1. /\ pc[p] \in Stages /\ pc[p] \notin {"idle", "batch", "latch"}
        /\ {"holdingRow", "checkpoint", "writeHolding"} \subseteq Stages \cap PCs
        /\ job[p].fill \in Fills /\ HoldFailure(job[p].fill) \in Failures
    BY WorkingJob DEF ReadLots, ReadHoldingRow, WriteHolding, Stages, PCs
  <1>2. CASE ReadLots(p)
    <2>1. OpenUnits \in [Fills -> Int]
      BY DEF OpenUnits, TypeInv, TypeOK, LotRow
    <2>2. CallerOK'
      BY <1>1, <1>2, <2>1, ViewStep DEF ReadLots
    <2> QED
      BY <1>2, <2>2 DEF ReadLots, TypeInv, TypeOK, CallerOK, books, world
  <1>3. CASE ReadHoldingRow(p)
    <2>1. (holding > 0) \in BOOLEAN
      OBVIOUS
    <2>2. CallerOK'
      BY <1>1, <1>3, <2>1, RowStep DEF ReadHoldingRow
    <2> QED
      BY <1>3, <2>2 DEF ReadHoldingRow, TypeInv, TypeOK, CallerOK, books, world
  <1>4. CASE WriteHolding(p)
    <2>1. CallerOK'
      BY <1>1, <1>4, RaiseType, StageGotoType DEF WriteHolding
    <2> QED
      BY <1>4, <2>1 DEF WriteHolding, TypeInv, TypeOK, CallerOK, world
  <1> QED
    BY <1>2, <1>3, <1>4

\* The transactions of project_trade keep types.
LEMMA TradeType ==
    ASSUME TypeInv, NEW p \in Procs, ProjectPnl(p) \/ ReadTrade(p) \/ WriteTrade(p)
    PROVE  TypeInv'
  <1> DEFINE f == job[p].fill
  <1>1. /\ pc[p] \in Stages /\ pc[p] \notin {"idle", "batch", "latch"}
        /\ {"readTrade", "checkpoint", "writeTrade"} \subseteq Stages \cap PCs
        /\ f \in Fills /\ OrderOf[f] \in Orders
        /\ HoldFailure(f) \in Failures /\ "other" \in Failures
    BY WorkingJob, SettlementAssumption DEF ProjectPnl, ReadTrade, WriteTrade, Stages, PCs, Failures
  <1>2. CASE ProjectPnl(p)
    <2>1. CallerOK'
      BY <1>1, <1>2, RaiseType, StageGotoType DEF ProjectPnl
    <2>2. \A l \in Fills : ClosedBy(f)[l] \in Nat
      BY <1>1 DEF ClosedBy, TypeInv, TypeOK, LotRow
    <2>3. pnl \in [Fills -> [Fills -> Nat]]
      BY DEF TypeInv, TypeOK
    <2>4. \A l \in Fills : [pnl[l] EXCEPT ![f] = ClosedBy(f)[l]] \in [Fills -> Nat]
      BY <1>1, <2>2, <2>3
    <2>5. pnl' \in [Fills -> [Fills -> Nat]]
      BY <1>2, <2>3, <2>4 DEF ProjectPnl
    <2> QED
      BY <1>2, <2>1, <2>5 DEF ProjectPnl, TypeInv, TypeOK, CallerOK, world
  <1>3. CASE ReadTrade(p)
    <2>1. TradeOf(OrderOf[f]) \in [filled : SUBSET Fills, realized : SUBSET Fills]
      BY DEF TradeOf, TypeInv, TypeOK
    <2>2. CallerOK'
      BY <1>1, <1>3, <2>1, TradeStep DEF ReadTrade
    <2> QED
      BY <1>3, <2>2 DEF ReadTrade, TypeInv, TypeOK, CallerOK, books, world
  <1>4. CASE WriteTrade(p)
    <2>1. CallerOK'
      BY <1>1, <1>4, RaiseType, StageGotoType DEF WriteTrade
    <2>2. intent' \in [Orders -> [filled : SUBSET Fills, realized : SUBSET Fills]]
      BY <1>1, <1>4, WorkingJob DEF WriteTrade, TypeInv, TypeOK
    <2> QED
      BY <1>4, <2>1, <2>2 DEF WriteTrade, TypeInv, TypeOK, CallerOK, world
  <1> QED
    BY <1>2, <1>3, <1>4

\* verify_integrity and project_liability_hold keep types.
LEMMA LaterStagesType ==
    ASSUME TypeInv, NEW p \in Procs, LaterStages(p)
    PROVE  TypeInv'
  <1> DEFINE f == job[p].fill
  <1>1. /\ pc[p] \in Stages /\ pc[p] \notin {"idle", "batch", "latch"}
        /\ {"verifyHolding", "checkpoint", "holdOrder"} \subseteq Stages \cap PCs
        /\ f \in Fills /\ OrderOf[f] \in Orders
        /\ HoldFailure(f) \in Failures /\ "INTEGRITY_VIOLATION" \in Failures
    BY WorkingJob, SettlementAssumption
       DEF LaterStages, VerifyLots, VerifyHolding, LatchLiability, HoldOrder, Stages, PCs, Failures
  <1>2. CASE VerifyLots(p)
    <2>1. OpenUnits \in [Fills -> Int]
      BY DEF OpenUnits, TypeInv, TypeOK, LotRow
    <2>2. CallerOK'
      BY <1>1, <1>2, <2>1, RaiseType, ViewStep DEF VerifyLots
    <2> QED
      BY <1>2, <2>2 DEF VerifyLots, TypeInv, TypeOK, CallerOK, books, world
  <1>3. CASE VerifyHolding(p)
    <2>1. CallerOK'
      BY <1>1, <1>3, RaiseType, StageGotoType DEF VerifyHolding
    <2> QED
      BY <1>3, <2>1 DEF VerifyHolding, TypeInv, TypeOK, CallerOK, books, world
  <1>4. CASE LatchLiability(p)
    <2>1. CallerOK'
      BY <1>1, <1>4, StageGotoType DEF LatchLiability
    <2> QED
      BY <1>4, <2>1 DEF LatchLiability, TypeInv, TypeOK, CallerOK, books, world
  <1>5. CASE HoldOrder(p)
    <2>1. CallerOK'
      BY <1>1, <1>5, StageGotoType DEF HoldOrder
    <2>2. hold' \in [Orders -> Holds]
      BY <1>1, <1>5 DEF HoldOrder, TypeInv, TypeOK, Holds
    <2> QED
      BY <1>5, <2>1, <2>2 DEF HoldOrder, TypeInv, TypeOK, CallerOK, books, world
  <1> QED
    BY <1>2, <1>3, <1>4, <1>5 DEF LaterStages

\* A stage checkpoint adds one flag and stays within the seven.
LEMMA CheckpointType ==
    ASSUME TypeInv, NEW p \in Procs, Checkpoint(p)
    PROVE  TypeInv'
  <1> DEFINE f == job[p].fill
             n == job[p].state.done + 1
             e == [job[p].state EXCEPT !.done = n]
             j == [job[p] EXCEPT !.state = e, !.take = Nothing, !.rest = 0, !.view = NoView]
  <1>1. /\ pc[p] \in Stages /\ pc[p] \notin {"idle", "batch", "latch"}
        /\ f \in Fills /\ "other" \in Failures
    BY WorkingJob DEF Checkpoint, Stages, Failures
  <1>2. n \in 0 .. Flags
    BY <1>1, WorkingJob, SMT DEF Flags
  <1>3. e \in Event /\ e.done = n
    <2> HIDE DEF n
    <2> QED
      BY <1>1, <1>2, WorkingJob DEF Event
  <1>4. CASE Raise(p, "other") /\ UNCHANGED <<events, job>>
    <2>1. CallerOK'
      BY <1>1, <1>4, RaiseType
    <2> QED
      BY <1>4, <2>1 DEF Checkpoint, TypeInv, TypeOK, CallerOK, books, world
  <1>5. CASE /\ events' = [events EXCEPT ![f] = e]
             /\ job' = [job EXCEPT ![p] = j]
             /\ Goto(p, NextStage(e.done))
             /\ UNCHANGED failure
    <2>1. j \in Job /\ j.fill = f /\ j.state = e
      <3> HIDE DEF e
      <3> QED
        BY <1>1, <1>3, WorkingJob, EmptyRecordsType DEF Job, NoJob
    <2>2. JobOK(NextStage(n), j)
      <3> HIDE DEF j, n, e
      <3> QED
        BY <1>1, <1>2, <1>3, <2>1, NextStageType DEF JobOK
    <2>3. events' \in [Fills -> Event]
      BY <1>3, <1>5 DEF TypeInv, TypeOK
    <2>4. CallerOK'
      <3> HIDE DEF j, n, e
      <3> QED
        BY <1>3, <1>5, <2>2, CallerStep DEF Goto, TypeInv, TypeOK
    <2> QED
      BY <1>5, <2>3, <2>4 DEF Checkpoint, TypeInv, TypeOK, CallerOK, books, world
  <1> QED
    BY <1>4, <1>5 DEF Checkpoint

\* The COMPLETED checkpoint keeps types.
LEMMA CompleteType ==
    ASSUME TypeInv, NEW p \in Procs, Complete(p)
    PROVE  TypeInv'
  <1> DEFINE f == job[p].fill
             e == [job[p].state EXCEPT !.status = "COMPLETED", !.started = 0, !.retryAt = 0]
  <1>1. pc[p] \notin {"idle", "batch", "latch"} /\ f \in Fills /\ "other" \in Failures
    BY WorkingJob DEF Complete, Failures
  <1>2. e \in Event
    BY <1>1, WorkingJob DEF Event, Statuses
  <1>3. CASE Raise(p, "other") /\ UNCHANGED <<events, job>>
    <2>1. CallerOK'
      BY <1>1, <1>3, RaiseType
    <2> QED
      BY <1>3, <2>1 DEF Complete, TypeInv, TypeOK, CallerOK, books, world
  <1>4. CASE events' = [events EXCEPT ![f] = e] /\ Goto(p, "batch") /\ Idle(p)
    <2>1. CallerOK'
      BY <1>4, IdleType
    <2>2. events' \in [Fills -> Event]
      BY <1>2, <1>4 DEF TypeInv, TypeOK
    <2> QED
      BY <1>4, <2>1, <2>2 DEF Complete, TypeInv, TypeOK, CallerOK, books, world
  <1> QED
    BY <1>3, <1>4 DEF Complete

\* An event with another status, attempt count and times is an event.
LEMMA RewrittenType ==
    ASSUME NEW e \in Event, NEW status \in Statuses, NEW attempts \in Nat, NEW retry \in Nat
    PROVE  /\ [e EXCEPT !.status = status, !.attempts = attempts,
                        !.started = 0, !.retryAt = retry] \in Event
           /\ [e EXCEPT !.status = status, !.retryAt = 0] \in Event
  BY DEF Event

\* The event an except block writes.
LEMMA FailedType ==
    ASSUME TypeInv, NEW p \in Procs, pc[p] = "fail"
    PROVE  Failed(p) \in Event
  <1> DEFINE attempts == job[p].tries + 1
             status == FailureStatus(failure[p], attempts)
             retry == IF status = "RETRYABLE_FAILED" THEN batch[p].now + RetryDelay ELSE 0
  <1>1. job[p].claimed \in Event /\ attempts \in Nat
    BY WorkingJob
  <1>2. status \in Statuses
    BY DEF FailureStatus, Statuses
  <1>3. retry \in Nat
    BY SettlementAssumption DEF TypeInv, TypeOK, Batch
  <1>4. Failed(p) = [job[p].claimed EXCEPT !.status = status, !.attempts = attempts,
                                           !.started = 0, !.retryAt = retry]
    BY DEF Failed
  <1> HIDE DEF attempts, status, retry
  <1>5. [job[p].claimed EXCEPT !.status = status, !.attempts = attempts,
                               !.started = 0, !.retryAt = retry] \in Event
    BY <1>1, <1>2, <1>3, RewrittenType
  <1> QED
    BY <1>4, <1>5, Zenon

\* A failed event has no start time, and a retry time only if it is retryable.
LEMMA FailedTimes ==
    ASSUME TypeInv, NEW p \in Procs, pc[p] = "fail"
    PROVE  Failed(p).started = 0 /\ (Failed(p).status # "RETRYABLE_FAILED" => Failed(p).retryAt = 0)
  <1> DEFINE attempts == job[p].tries + 1
             status == FailureStatus(failure[p], attempts)
             retry == IF status = "RETRYABLE_FAILED" THEN batch[p].now + RetryDelay ELSE 0
  <1>1. job[p].claimed \in Event
    BY WorkingJob
  <1>2. Failed(p) = [job[p].claimed EXCEPT !.status = status, !.attempts = attempts,
                                           !.started = 0, !.retryAt = retry]
    BY DEF Failed
  <1>3. status # "RETRYABLE_FAILED" => retry = 0
    OBVIOUS
  <1> HIDE DEF attempts, status, retry
  <1> QED
    BY <1>1, <1>2, <1>3 DEF Event

\* The failure checkpoint keeps types.
LEMMA FailCheckpointType ==
    ASSUME TypeInv, NEW p \in Procs, FailCheckpoint(p)
    PROVE  TypeInv'
  <1>1. pc[p] = "fail"
    BY DEF FailCheckpoint
  <1>2. CASE /\ events' = [events EXCEPT ![job[p].fill] = Failed(p)]
             /\ Goto(p, IF Failed(p).status = "RETRYABLE_FAILED" THEN "batch" ELSE "latch")
             /\ Idle(p) /\ UNCHANGED batch
    <2>1. CallerOK'
      BY <1>2, IdleType
    <2>2. events' \in [Fills -> Event]
      BY <1>1, <1>2, FailedType DEF TypeInv, TypeOK
    <2> QED
      BY <1>2, <2>1, <2>2 DEF FailCheckpoint, TypeInv, TypeOK, CallerOK, books, world
  <1>3. CASE EndOfBatch(p) /\ UNCHANGED events
    <2>1. CallerOK' /\ batch' \in [Procs -> Batch]
      BY <1>3, EndOfBatchType
    <2> QED
      BY <1>3, <2>1 DEF FailCheckpoint, TypeInv, TypeOK, CallerOK, books, world
  <1> QED
    BY <1>2, <1>3 DEF FailCheckpoint

-----------------------------------------------------------------------------
(* TypeInv is preserved by everything else.                                 *)

\* Attribution, verification, disputes and the audit keep types.
LEMMA TablesType ==
    ASSUME TypeInv,
           \/ \E f \in Fills : Attribute(f)
           \/ \E o \in Orders : Verification(o)
           \/ Audit \/ AuditLatch
    PROVE  TypeInv'
  <1>1. ASSUME NEW f \in Fills, RecordFill(f) \/ EnqueueSettlement(f)
        PROVE  TypeInv'
    <2>1. fills' \in SUBSET Fills /\ events' \in [Fills -> Event]
      BY <1>1, EmptyRecordsType DEF RecordFill, EnqueueSettlement, TypeInv, TypeOK
    <2> QED
      BY <1>1, <2>1 DEF RecordFill, EnqueueSettlement,
                        TypeInv, TypeOK, JobsOK, Working, books, caller, world
  <1>2. ASSUME NEW f \in Fills, BlockEvent(f)
        PROVE  TypeInv'
    <2> DEFINE e == [events[f] EXCEPT !.status = "INTEGRITY_BLOCKED", !.retryAt = 0]
    <2>1. events[f] \in Event /\ "INTEGRITY_BLOCKED" \in Statuses
      BY DEF TypeInv, TypeOK, Statuses
    <2>2. e \in Event
      BY <2>1, RewrittenType
    <2>3. events' \in [Fills -> Event]
      BY <1>2, <2>2 DEF BlockEvent, TypeInv, TypeOK
    <2>4. dispute' \in [Orders -> Dispute]
      <3>1. OrderOf[f] \in Orders /\ dispute \in [Orders -> Dispute]
        BY SettlementAssumption DEF TypeInv, TypeOK
      <3>2. [dispute[OrderOf[f]] EXCEPT !.todo = @ \ {f}] \in Dispute
        BY <3>1 DEF Dispute
      <3> QED
        BY <1>2, <3>1, <3>2 DEF BlockEvent
    <2> QED
      BY <1>2, <2>3, <2>4
         DEF BlockEvent, TypeInv, TypeOK, JobsOK, Working, books, caller
  <1>3. ASSUME NEW o \in Orders, HoldForVerification(o) \/ ReleaseVerification(o)
        PROVE  TypeInv'
    <2>1. faults' \in Nat
      BY <1>3 DEF HoldForVerification, ReleaseVerification, TypeInv, TypeOK, world
    <2>2. {"none", "verification_pending"} \subseteq Holds /\ hold \in [Orders -> Holds]
      BY DEF Holds, TypeInv, TypeOK
    <2>3. hold' \in [Orders -> Holds]
      BY <1>3, <2>2 DEF HoldForVerification, ReleaseVerification
    <2> QED
      BY <1>3, <2>1, <2>3 DEF HoldForVerification, ReleaseVerification,
                        TypeInv, TypeOK, JobsOK, Working, books, caller, world
  <1>4. ASSUME NEW o \in Orders, BeginDispute(o)
        PROVE  TypeInv'
    <2>1. dispute' \in [Orders -> Dispute]
      BY <1>4 DEF BeginDispute, TypeInv, TypeOK, Dispute
    <2> QED
      BY <1>4, <2>1 DEF BeginDispute, TypeInv, TypeOK, JobsOK, Working, books, caller
  <1>5. ASSUME NEW o \in Orders, PlaceDisputeHold(o) \/ LatchDispute(o)
        PROVE  TypeInv'
    <2>1. dispute' \in [Orders -> Dispute]
      <3>1. dispute \in [Orders -> Dispute]
        BY DEF TypeInv, TypeOK
      <3>2. \A phase \in {"latch", "done"} : [dispute[o] EXCEPT !.phase = phase] \in Dispute
        BY <3>1 DEF Dispute
      <3> QED
        BY <1>5, <3>1, <3>2 DEF PlaceDisputeHold, LatchDispute
    <2>2. hold' \in [Orders -> Holds] /\ latched' \in BOOLEAN
      BY <1>5 DEF PlaceDisputeHold, LatchDispute, Holds, TypeInv, TypeOK
    <2> QED
      BY <1>5, <2>1, <2>2
         DEF PlaceDisputeHold, LatchDispute, TypeInv, TypeOK, JobsOK, Working, books, caller
  <1>6. CASE Audit \/ AuditLatch
    BY <1>6 DEF Audit, AuditLatch, TypeInv, TypeOK, JobsOK, Working, books, caller
  <1> QED
    BY <1>1, <1>2, <1>3, <1>4, <1>5, <1>6 DEF Attribute, Verification

\* Time passing keeps types.
LEMMA TickType ==
    ASSUME TypeInv, Tick
    PROVE  TypeInv'
  <1>0. UNCHANGED <<fills, books, hold, latched, pc, failure, faults, dispute, auditor, overlapped>>
    BY DEF Tick
  <1>1. CASE clock' = clock + 1 /\ UNCHANGED <<events, batch, job>>
    <2>1. clock' \in Nat
      BY <1>1 DEF TypeInv, TypeOK
    <2> QED
      BY <1>0, <1>1, <2>1 DEF TypeInv, TypeOK, JobsOK, Working, books
  <1>2. CASE /\ events' = [f \in Fills |-> Receded(events[f])]
             /\ batch' = [p \in Procs |-> [batch[p] EXCEPT !.now = Earlier(@)]]
             /\ job' = [p \in Procs |-> [job[p] EXCEPT !.claimed = Receded(@), !.state = Receded(@)]]
             /\ UNCHANGED clock
    <2>1. events' \in [Fills -> Event]
      BY <1>2, RecededType DEF TypeInv, TypeOK
    <2>2. batch' \in [Procs -> Batch]
      <3>1. ASSUME NEW p \in Procs PROVE [batch[p] EXCEPT !.now = Earlier(@)] \in Batch
        <4>1. batch[p] \in Batch /\ batch[p].now \in Nat
          BY DEF TypeInv, TypeOK, Batch
        <4>2. Earlier(batch[p].now) \in Nat
          BY <4>1, SMT DEF Earlier
        <4> QED
          BY <4>1, <4>2 DEF Batch
      <3> QED
        BY <1>2, <3>1
    <2>3. ASSUME NEW p \in Procs
          PROVE  /\ job'[p] \in Job /\ job'[p].fill = job[p].fill
                 /\ job'[p].state.done = job[p].state.done
      <3>1. job[p] \in Job /\ job[p].claimed \in Event /\ job[p].state \in Event
        BY DEF TypeInv, TypeOK, Job
      <3>2. Receded(job[p].claimed) \in Event /\ Receded(job[p].state) \in Event
        BY <3>1, RecededType
      <3>3. job'[p] = [job[p] EXCEPT !.claimed = Receded(job[p].claimed), !.state = Receded(job[p].state)]
        BY <1>2
      <3>4. job'[p] \in Job /\ job'[p].fill = job[p].fill /\ job'[p].state = Receded(job[p].state)
        BY <3>1, <3>2, <3>3 DEF Job
      <3> QED
        BY <3>1, <3>4, RecededType
    <2>4. job' \in [Procs -> Job]
      BY <1>2, <2>3
    <2> QED
      BY <1>0, <1>2, <2>1, <2>2, <2>3, <2>4 DEF TypeInv, TypeOK, JobsOK, Working, books
  <1> QED
    BY <1>1, <1>2 DEF Tick

-----------------------------------------------------------------------------
\* Every step of Next preserves the type invariant.
LEMMA NextType == TypeInv /\ [Next]_vars => TypeInv'
  <1> SUFFICES ASSUME TypeInv, [Next]_vars PROVE TypeInv'
    OBVIOUS
  <1>1. ASSUME NEW p \in Procs, Step(p) \/ LeaseLost(p) \/ Crash(p)
        PROVE  TypeInv'
    BY <1>1, BatchTypes, ClaimType, PreCheckType, PlanLotsType, CloseLotType, OpenRemainderType,
       AttributionAndCashType, HoldingType, TradeType, LaterStagesType, CheckpointType,
       CompleteType, FailCheckpointType
       DEF Step, LotStage, HoldingStage, TradeStage
  <1>2. CASE Tick
    BY <1>2, TickType
  <1>3. CASE UNCHANGED vars
    BY <1>3 DEF vars, TypeInv, TypeOK, JobsOK, Working, books, caller, world
  <1> QED
    BY <1>1, <1>2, <1>3, TablesType DEF Next

\* Type correctness: whatever the callers, fills, faults and ticks, every table
\* row and every local of process_pending stays in its declared domain.
THEOREM TypeCorrect == Spec => []TypeOK
  <1>1. Spec => []TypeInv
    BY InitType, NextType, PTL DEF Spec
  <1>2. TypeInv => TypeOK
    BY DEF TypeInv
  <1> QED
    BY <1>1, <1>2, PTL

-----------------------------------------------------------------------------
(* Ownership: while no batch outlives the stale lease, a caller that works   *)
(* on an event holds its row.                                               *)

\* The row of a caller's event is the one its claim wrote.
Owned ==
    \A p \in Procs : Working(p) =>
        /\ events[job[p].fill].status = "PROCESSING"
        /\ events[job[p].fill].started = batch[p].now
        /\ job[p].state.status = "PROCESSING"
        /\ job[p].state.started = batch[p].now

\* A batch in progress started no longer than a stale lease ago.
BatchesFresh ==
    \A p \in Procs : pc[p] # "idle" =>
        batch[p].now <= clock /\ clock - batch[p].now <= StaleLease

\* Only a row in processing has a start time; a decided one has no retry time.
TimesCleared ==
    \A f \in Fills :
        /\ events[f].status # "PROCESSING" => events[f].started = 0
        /\ Decided(events[f]) => events[f].retryAt = 0

OwnerInv == TypeInv /\ Owned /\ BatchesFresh /\ TimesCleared /\ ExclusiveClaim

\* The event stays in p's hands and the settlements table is not written.
Keeps(p) ==
    /\ Working(p) /\ pc'[p] \notin {"idle", "batch", "latch"}
    /\ \A q \in Procs : q # p => pc'[q] = pc[q] /\ job'[q] = job[q]
    /\ job'[p].fill = job[p].fill
    /\ job'[p].state.status = job[p].state.status
    /\ job'[p].state.started = job[p].state.started
    /\ UNCHANGED <<events, batch, clock>>

\* An exception inside the try block leaves the claim in the caller's hands.
LEMMA RaiseKeeps ==
    ASSUME TypeInv, NEW p \in Procs, Working(p), NEW kind, Raise(p, kind),
           UNCHANGED <<events, batch, clock, job>>
    PROVE  Keeps(p)
  BY DEF Raise, Goto, Keeps, Working, TypeInv, TypeOK

\* So does going on to the next transaction of a stage.
LEMMA GotoKeeps ==
    ASSUME TypeInv, NEW p \in Procs, Working(p), NEW l, l \notin {"idle", "batch", "latch"},
           Goto(p, l),
           UNCHANGED <<events, batch, clock, job>>
    PROVE  Keeps(p)
  BY DEF Goto, Keeps, Working, TypeInv, TypeOK

\* Every stage action leaves the event and the claim alone.
LEMMA StageKeeps ==
    ASSUME TypeInv, NEW p \in Procs,
           \/ PreCheck(p) \/ LotStage(p) \/ ProjectAttribution(p) \/ ProjectCash(p)
           \/ HoldingStage(p) \/ TradeStage(p) \/ LaterStages(p)
    PROVE  Keeps(p)
  <1> USE DEF world
  <1>1. CASE PreCheck(p)
    <2>1. NextStage(job[p].state.done) \notin {"idle", "batch", "latch"} /\ Working(p)
      BY <1>1, WorkingJob, NextStageType DEF PreCheck, Working
    <2> QED
      BY <1>1, <2>1, RaiseKeeps, GotoKeeps DEF PreCheck
  <1>2. CASE PlanLots(p)
    <2>1. Working(p)
      BY <1>2 DEF PlanLots, Working
    <2>2. CASE Raise(p, "INTEGRITY_VIOLATION") /\ UNCHANGED job
      BY <1>2, <2>1, <2>2, RaiseKeeps DEF PlanLots
    <2>3. ASSUME NEW t, NEW r, NEW realized,
                 job' = [job EXCEPT ![p] = [@ EXCEPT !.take = t, !.rest = r, !.state.realized = realized]],
                 Goto(p, LotStep(t, r))
          PROVE  Keeps(p)
      <3>1. job \in [Procs -> Job] /\ job[p] \in Job /\ job[p].state \in Event
        BY <2>1, WorkingJob DEF TypeInv, TypeOK, Working
      <3>2. /\ job'[p].fill = job[p].fill
            /\ job'[p].state.status = job[p].state.status
            /\ job'[p].state.started = job[p].state.started
        BY <2>3, <3>1 DEF Job, Event
      <3>3. \A q \in Procs : q # p => job'[q] = job[q]
        BY <2>3, <3>1
      <3>4. LotStep(t, r) \notin {"idle", "batch", "latch"}
        BY LotStepType
      <3>5. UNCHANGED <<events, batch, clock>>
        BY <1>2 DEF PlanLots
      <3> QED
        BY <2>1, <2>3, <3>2, <3>3, <3>4, <3>5 DEF Keeps, Goto, TypeInv, TypeOK
    <2> QED
      BY <1>2, <2>2, <2>3 DEF PlanLots
  <1>3. CASE CloseLot(p)
    <2>1. Working(p)
      BY <1>3 DEF CloseLot, Working
    <2>2. CASE (Raise(p, HoldFailure(job[p].fill)) \/ Raise(p, "other")) /\ UNCHANGED job
      BY <1>3, <2>1, <2>2, RaiseKeeps DEF CloseLot
    <2>3. ASSUME NEW l \in Fills, NEW t, job' = [job EXCEPT ![p].take[l] = 0], Goto(p, LotStep(t, job[p].rest))
          PROVE  Keeps(p)
      <3>1. job \in [Procs -> Job] /\ job[p] \in Job
        BY <2>1, WorkingJob DEF TypeInv, TypeOK, Working
      <3>2. job'[p].fill = job[p].fill /\ job'[p].state = job[p].state
        BY <2>3, <3>1 DEF Job
      <3>3. \A q \in Procs : q # p => job'[q] = job[q]
        BY <2>3, <3>1
      <3>4. LotStep(t, job[p].rest) \notin {"idle", "batch", "latch"}
        BY LotStepType
      <3>5. UNCHANGED <<events, batch, clock>>
        BY <1>3 DEF CloseLot
      <3> QED
        BY <2>1, <2>3, <3>2, <3>3, <3>4, <3>5 DEF Keeps, Goto, TypeInv, TypeOK
    <2> QED
      BY <1>3, <2>2, <2>3 DEF CloseLot
  <1>4. CASE OpenRemainder(p) \/ ProjectAttribution(p) \/ ProjectCash(p) \/ WriteHolding(p)
    BY <1>4, RaiseKeeps, GotoKeeps
       DEF OpenRemainder, ProjectAttribution, ProjectCash, WriteHolding, Working
  <1>5. CASE ProjectPnl(p) \/ WriteTrade(p) \/ VerifyHolding(p) \/ LatchLiability(p) \/ HoldOrder(p)
    BY <1>5, RaiseKeeps, GotoKeeps
       DEF ProjectPnl, WriteTrade, VerifyHolding, LatchLiability, HoldOrder, Working
  <1>6. CASE ReadHoldingRow(p) \/ ReadLots(p) \/ ReadTrade(p) \/ VerifyLots(p)
    <2>1. Working(p) /\ UNCHANGED <<events, batch, clock>>
      BY <1>6 DEF ReadHoldingRow, ReadLots, ReadTrade, VerifyLots, Working
    <2>2. CASE VerifyLots(p) /\ Raise(p, HoldFailure(job[p].fill)) /\ UNCHANGED job
      BY <2>1, <2>2, RaiseKeeps
    <2>3. CASE /\ \E l \in PCs \ {"idle", "batch", "latch"} : Goto(p, l)
               /\ \E v : job' = [job EXCEPT ![p].view = v]
      <3>1. job \in [Procs -> Job] /\ job[p] \in Job
        BY <2>1, WorkingJob DEF TypeInv, TypeOK, Working
      <3>2. job'[p].fill = job[p].fill /\ job'[p].state = job[p].state
        BY <2>3, <3>1 DEF Job
      <3>3. \A q \in Procs : q # p => job'[q] = job[q]
        BY <2>3, <3>1
      <3> QED
        BY <2>1, <2>3, <3>2, <3>3 DEF Keeps, Goto, TypeInv, TypeOK
    <2>4. CASE ReadLots(p)
      <3>1. Goto(p, "holdingRow") /\ job' = [job EXCEPT ![p].view = [job[p].view EXCEPT !.units = OpenUnits]]
        BY <2>4 DEF ReadLots
      <3> QED
        BY <2>3, <3>1 DEF PCs
    <2>5. CASE ReadHoldingRow(p)
      <3>1. /\ Goto(p, "checkpoint") \/ Goto(p, "writeHolding")
            /\ job' = [job EXCEPT ![p].view = [job[p].view EXCEPT !.row = holding > 0]]
        BY <2>5 DEF ReadHoldingRow
      <3> QED
        BY <2>3, <3>1 DEF PCs
    <2>6. CASE ReadTrade(p)
      <3>1. /\ Goto(p, "writeTrade")
            /\ job' = [job EXCEPT ![p].view = [job[p].view EXCEPT !.trade = TradeOf(OrderOf[job[p].fill])]]
        BY <2>6 DEF ReadTrade
      <3> QED
        BY <2>3, <3>1 DEF PCs
    <2>7. CASE VerifyLots(p) /\ Goto(p, "verifyHolding") /\ job' = [job EXCEPT ![p].view.units = OpenUnits]
      <3>1. job' = [job EXCEPT ![p].view = [job[p].view EXCEPT !.units = OpenUnits]]
        BY <2>7
      <3> QED
        BY <2>3, <2>7, <3>1 DEF PCs
    <2> QED
      BY <1>6, <2>2, <2>4, <2>5, <2>6, <2>7 DEF VerifyLots
  <1> QED
    BY <1>1, <1>2, <1>3, <1>4, <1>5, <1>6 DEF LotStage, HoldingStage, TradeStage, LaterStages

\* Such a step preserves ownership, and so every verdict.
LEMMA KeepsOwner ==
    ASSUME OwnerInv, NEW p \in Procs, Keeps(p), TypeInv'
    PROVE  OwnerInv' /\ VerdictStands
  <1>1. \A q \in Procs : job'[q].fill = job[q].fill /\ (Working(q)' => Working(q)) /\ batch'[q] = batch[q]
    BY DEF Keeps, Working
  <1>2. \A q \in Procs : /\ job'[q].state.status = job[q].state.status
                         /\ job'[q].state.started = job[q].state.started
    BY DEF Keeps
  <1>3. Owned'
    BY <1>1, <1>2 DEF OwnerInv, Owned, Keeps
  <1>4. BatchesFresh'
    BY DEF OwnerInv, BatchesFresh, Keeps, Working
  <1>5. TimesCleared' /\ VerdictStands
    BY DEF OwnerInv, TimesCleared, Keeps, Decided, VerdictStands
  <1>6. ExclusiveClaim'
    BY <1>1 DEF OwnerInv, ExclusiveClaim
  <1> QED
    BY <1>3, <1>4, <1>5, <1>6 DEF OwnerInv

\* A caller lets go of its event, if it has one, and of nobody else's; the
\* row it leaves, if it writes it, has no start time and, decided, no retry.
LEMMA ReleaseOwner ==
    ASSUME OwnerInv, NEW p \in Procs, TypeInv',
           pc'[p] \in {"idle", "batch", "latch"},
           pc'[p] # "idle" => batch'[p].now <= clock /\ clock - batch'[p].now <= StaleLease,
           \A q \in Procs : q # p => pc'[q] = pc[q] /\ job'[q] = job[q] /\ batch'[q] = batch[q],
           clock' = clock,
           \/ events' = events
           \/ /\ Working(p)
              /\ \A f \in Fills : f # job[p].fill => events'[f] = events[f]
              /\ events'[job[p].fill].status # "PROCESSING" => events'[job[p].fill].started = 0
              /\ Decided(events'[job[p].fill]) => events'[job[p].fill].retryAt = 0
    PROVE  OwnerInv' /\ VerdictStands
  <1>1. \A q \in Procs : Working(q)' => q # p /\ Working(q) /\ job'[q] = job[q] /\ batch'[q] = batch[q]
    BY DEF Working
  <1>2. \A q \in Procs : Working(q)' => events'[job[q].fill] = events[job[q].fill]
    BY <1>1 DEF OwnerInv, ExclusiveClaim, TypeInv, JobsOK
  <1>3. Owned'
    BY <1>1, <1>2 DEF OwnerInv, Owned
  <1>4. BatchesFresh'
    BY DEF OwnerInv, BatchesFresh
  <1>5. TimesCleared'
    BY DEF OwnerInv, TimesCleared, Decided
  <1>6. ExclusiveClaim'
    BY <1>1 DEF OwnerInv, ExclusiveClaim
  <1>7. VerdictStands
    BY DEF OwnerInv, Owned, VerdictStands, Decided
  <1> QED
    BY <1>3, <1>4, <1>5, <1>6, <1>7 DEF OwnerInv

\* Starting or ending a batch, latching, completing, failing.
LEMMA LettingGo ==
    ASSUME OwnerInv, NEW p \in Procs, TypeInv',
           \/ StartBatch(p) \/ FinishBatch(p) \/ LeaseLost(p) \/ Latch(p) \/ Crash(p)
           \/ Complete(p) \/ FailCheckpoint(p)
    PROVE  OwnerInv' /\ VerdictStands
  <1> USE DEF OwnerInv
  <1>0. /\ pc \in [Procs -> PCs] /\ job \in [Procs -> Job] /\ batch \in [Procs -> Batch]
        /\ events \in [Fills -> Event] /\ clock \in Nat /\ StaleLease \in Nat
    BY SettlementAssumption DEF TypeInv, TypeOK
  <1>1. CASE FinishBatch(p) \/ LeaseLost(p) \/ Crash(p)
    <2>1. EndOfBatch(p) /\ UNCHANGED <<events, clock>>
      BY <1>1 DEF FinishBatch, LeaseLost, Crash, world
    <2>2. pc'[p] = "idle"
      BY <1>0, <2>1 DEF EndOfBatch, Goto
    <2>3. \A q \in Procs : q # p => pc'[q] = pc[q] /\ job'[q] = job[q] /\ batch'[q] = batch[q]
      BY <1>0, <2>1 DEF EndOfBatch, Goto, Idle
    <2> QED
      BY <2>1, <2>2, <2>3, ReleaseOwner
  <1>2. CASE StartBatch(p)
    <2>1. /\ pc'[p] = "batch" /\ batch'[p].now = clock /\ UNCHANGED <<events, clock>>
          /\ \A q \in Procs : q # p => pc'[q] = pc[q] /\ job'[q] = job[q] /\ batch'[q] = batch[q]
      BY <1>0, <1>2 DEF StartBatch, Goto, world
    <2>2. clock <= clock /\ clock - clock <= StaleLease
      BY <1>0
    <2> QED
      BY <2>1, <2>2, ReleaseOwner
  <1>3. CASE Latch(p)
    <2>1. /\ pc[p] = "latch" /\ pc'[p] = "batch" /\ UNCHANGED <<events, clock, batch>>
          /\ \A q \in Procs : q # p => pc'[q] = pc[q] /\ job'[q] = job[q] /\ batch'[q] = batch[q]
      BY <1>0, <1>3 DEF Latch, Goto, world
    <2> QED
      BY <2>1, ReleaseOwner DEF BatchesFresh
  <1>4. CASE Complete(p)
    <2> DEFINE f == job[p].fill
               e == [job[p].state EXCEPT !.status = "COMPLETED", !.started = 0, !.retryAt = 0]
    <2>1. /\ Working(p) /\ pc[p] # "idle" /\ f \in Fills /\ job[p].state \in Event
          /\ UNCHANGED <<batch, clock>>
      BY <1>4, WorkingJob DEF Complete, Working, world
    <2>2. CASE Raise(p, "other") /\ UNCHANGED <<events, job>>
      BY <2>1, <2>2, RaiseKeeps, KeepsOwner
    <2>3. CASE events' = [events EXCEPT ![f] = e] /\ Goto(p, "batch") /\ Idle(p)
      <3>1. e.started = 0 /\ e.retryAt = 0
        BY <2>1 DEF Event
      <3>2. events'[f] = e /\ \A g \in Fills : g # f => events'[g] = events[g]
        BY <1>0, <2>1, <2>3
      <3>3. /\ pc'[p] = "batch"
            /\ \A q \in Procs : q # p => pc'[q] = pc[q] /\ job'[q] = job[q] /\ batch'[q] = batch[q]
        BY <1>0, <2>1, <2>3 DEF Goto, Idle
      <3> HIDE DEF e
      <3> QED
        BY <2>1, <3>1, <3>2, <3>3, ReleaseOwner DEF BatchesFresh
    <2> QED
      BY <1>4, <2>2, <2>3 DEF Complete
  <1>5. CASE FailCheckpoint(p)
    <2> DEFINE f == job[p].fill
    <2>1. /\ Working(p) /\ pc[p] # "idle" /\ pc[p] = "fail" /\ f \in Fills
          /\ UNCHANGED clock
      BY <1>5, WorkingJob DEF FailCheckpoint, Working, world
    <2>2. CASE EndOfBatch(p) /\ UNCHANGED events
      <3>1. pc'[p] = "idle"
        BY <1>0, <2>2 DEF EndOfBatch, Goto
      <3>2. \A q \in Procs : q # p => pc'[q] = pc[q] /\ job'[q] = job[q] /\ batch'[q] = batch[q]
        BY <1>0, <2>2 DEF EndOfBatch, Goto, Idle
      <3> QED
        BY <2>1, <2>2, <3>1, <3>2, ReleaseOwner
    <2>3. CASE /\ events' = [events EXCEPT ![f] = Failed(p)]
               /\ Goto(p, IF Failed(p).status = "RETRYABLE_FAILED" THEN "batch" ELSE "latch")
               /\ Idle(p) /\ UNCHANGED batch
      <3>1. /\ Failed(p).started = 0
            /\ Decided(Failed(p)) => Failed(p).retryAt = 0
        BY <2>1, FailedTimes DEF Decided
      <3>2. events'[f] = Failed(p) /\ \A g \in Fills : g # f => events'[g] = events[g]
        BY <1>0, <2>1, <2>3
      <3>3. /\ pc'[p] \in {"batch", "latch"}
            /\ \A q \in Procs : q # p => pc'[q] = pc[q] /\ job'[q] = job[q] /\ batch'[q] = batch[q]
        BY <1>0, <2>1, <2>3 DEF Goto, Idle
      <3> QED
        BY <2>1, <2>3, <3>1, <3>2, <3>3, ReleaseOwner DEF BatchesFresh
    <2> QED
      BY <1>5, <2>2, <2>3 DEF FailCheckpoint
  <1> QED
    BY <1>1, <1>2, <1>3, <1>4, <1>5

\* A claim takes a row nobody has: a row in another caller's hands is not
\* stale, since that caller's batch is not.
LEMMA ClaimOwner ==
    ASSUME OwnerInv, NEW p \in Procs, TypeInv', Claim(p)
    PROVE  OwnerInv' /\ VerdictStands
  <1> USE DEF OwnerInv
  <1>0. /\ pc \in [Procs -> PCs] /\ job \in [Procs -> Job] /\ batch \in [Procs -> Batch]
        /\ events \in [Fills -> Event] /\ clock \in Nat /\ StaleLease \in Nat
    BY SettlementAssumption DEF TypeInv, TypeOK
  <1>1. PICK f \in batch[p].due :
          /\ batch' = [batch EXCEPT ![p].due = @ \ {f}]
          /\ \/ /\ IsSettlementProcessable(events[f], batch[p].now)
                /\ events' = [events EXCEPT ![f] = ClaimedBy(p, @)]
                /\ job' = [job EXCEPT ![p] = [NoJob EXCEPT !.fill = f, !.tries = batch[p].tries[f],
                                !.claimed = ClaimedBy(p, events[f]), !.state = ClaimedBy(p, events[f])]]
                /\ Goto(p, "precheck")
             \/ UNCHANGED <<events, job, pc>>
    BY DEF Claim
  <1>2. f \in Fills /\ pc[p] = "batch" /\ clock' = clock
    BY <1>0 DEF Claim, Batch, world
  <1>3. /\ batch'[p].now = batch[p].now
        /\ \A q \in Procs : q # p => batch'[q] = batch[q]
    BY <1>0, <1>1 DEF Batch
  <1>4. CASE UNCHANGED <<events, job, pc>>
    BY <1>2, <1>3, <1>4
       DEF Owned, BatchesFresh, TimesCleared, ExclusiveClaim, Working, VerdictStands, Decided
  <1>5. CASE /\ IsSettlementProcessable(events[f], batch[p].now)
             /\ events' = [events EXCEPT ![f] = ClaimedBy(p, @)]
             /\ job' = [job EXCEPT ![p] = [NoJob EXCEPT !.fill = f, !.tries = batch[p].tries[f],
                             !.claimed = ClaimedBy(p, events[f]), !.state = ClaimedBy(p, events[f])]]
             /\ Goto(p, "precheck")
    <2> DEFINE e == ClaimedBy(p, events[f])
    <2>1. e.status = "PROCESSING" /\ e.started = batch[p].now
      BY <1>0, <1>2 DEF ClaimedBy, Event
    <2>2. /\ events'[f] = e /\ job'[p].fill = f /\ job'[p].state = e /\ pc'[p] = "precheck"
          /\ \A g \in Fills : g # f => events'[g] = events[g]
          /\ \A q \in Procs : q # p => pc'[q] = pc[q] /\ job'[q] = job[q]
      <3> HIDE DEF e
      <3>1. events' = [events EXCEPT ![f] = e]
        BY <1>5 DEF e
      <3>2. job' = [job EXCEPT ![p] = [NoJob EXCEPT !.fill = f, !.tries = batch[p].tries[f],
                                        !.claimed = e, !.state = e]]
        BY <1>5 DEF e
      <3> QED
        BY <1>0, <1>2, <1>5, <3>1, <3>2 DEF Goto, NoJob
    <2>3. ASSUME NEW q \in Procs, Working(q) PROVE job[q].fill # f
      <3> SUFFICES ASSUME job[q].fill = f PROVE FALSE
        OBVIOUS
      <3>1. events[f].status = "PROCESSING" /\ events[f].started = batch[q].now
        BY <2>3 DEF Owned
      <3>2. batch[q].now <= clock /\ clock - batch[q].now <= StaleLease /\ batch[p].now <= clock
        BY <1>2, <2>3 DEF BatchesFresh, Working
      <3>3. batch[p].now - events[f].started > StaleLease
        BY <1>5, <3>1 DEF IsSettlementProcessable
      <3>4. batch[p].now \in Nat /\ batch[q].now \in Nat
        BY <1>0 DEF Batch
      <3> QED
        BY <1>0, <3>1, <3>2, <3>3, <3>4
    <2>4. ASSUME NEW q \in Procs, q # p, Working(q)'
          PROVE  /\ Working(q) /\ job'[q] = job[q] /\ job[q].fill # f
                 /\ events'[job[q].fill] = events[job[q].fill] /\ batch'[q] = batch[q]
      <3>1. Working(q) /\ job'[q] = job[q]
        BY <2>2, <2>4 DEF Working
      <3>2. job[q].fill \in Fills
        BY <3>1 DEF TypeInv, JobsOK
      <3> QED
        BY <1>3, <2>2, <2>3, <2>4, <3>1, <3>2
    <2> HIDE DEF e
    <2>5. Owned'
      BY <1>3, <2>1, <2>2, <2>4 DEF Owned
    <2>6. BatchesFresh'
      BY <1>2, <1>3, <2>2 DEF BatchesFresh
    <2>7. TimesCleared' /\ VerdictStands
      <3>1. ~Decided(e) /\ ~Decided(events[f])
        BY <1>5, <2>1 DEF Decided, IsSettlementProcessable
      <3> QED
        BY <1>2, <2>1, <2>2, <3>1 DEF TimesCleared, VerdictStands, Decided
    <2>8. ExclusiveClaim'
      BY <2>2, <2>4 DEF ExclusiveClaim
    <2> QED
      BY <2>5, <2>6, <2>7, <2>8
  <1> QED
    BY <1>1, <1>4, <1>5

\* A stage checkpoint rewrites its own event with the claim unchanged.
LEMMA CheckpointOwner ==
    ASSUME OwnerInv, NEW p \in Procs, TypeInv', Checkpoint(p)
    PROVE  OwnerInv' /\ VerdictStands
  <1> USE DEF OwnerInv
  <1> DEFINE f == job[p].fill
             e == [job[p].state EXCEPT !.done = job[p].state.done + 1]
             j == [job[p] EXCEPT !.state = e, !.take = Nothing, !.rest = 0, !.view = NoView]
  <1>0. /\ pc \in [Procs -> PCs] /\ job \in [Procs -> Job] /\ events \in [Fills -> Event]
        /\ job[p] \in Job /\ job[p].state \in Event /\ f \in Fills /\ Working(p) /\ pc[p] = "checkpoint"
        /\ UNCHANGED <<batch, clock>>
    BY WorkingJob DEF Checkpoint, TypeInv, TypeOK, Working, world
  <1>1. CASE Raise(p, "other") /\ UNCHANGED <<events, job>>
    BY <1>0, <1>1, RaiseKeeps, KeepsOwner
  <1>2. CASE /\ events' = [events EXCEPT ![f] = e] /\ job' = [job EXCEPT ![p] = j]
             /\ Goto(p, NextStage(e.done))
    <2>1. e.status = job[p].state.status /\ e.started = job[p].state.started
      BY <1>0 DEF Event
    <2>2. j.fill = f /\ j.state = e
      <3> HIDE DEF e
      <3> QED
        BY <1>0 DEF Job
    <2> HIDE DEF e, j
    <2>3. /\ events'[f] = e /\ job'[p] = j
          /\ \A g \in Fills : g # f => events'[g] = events[g]
          /\ \A q \in Procs : q # p => pc'[q] = pc[q] /\ job'[q] = job[q]
      BY <1>0, <1>2 DEF Goto
    <2>4. \A q \in Procs : q # p /\ Working(q)' =>
             /\ Working(q) /\ job'[q] = job[q] /\ events'[job[q].fill] = events[job[q].fill]
      BY <1>0, <2>3 DEF Working, ExclusiveClaim, TypeInv, JobsOK
    <2>5. events[f].status = "PROCESSING" /\ e.status = "PROCESSING" /\ e.started = batch[p].now
      BY <1>0, <2>1 DEF Owned
    <2>6. Owned'
      BY <1>0, <2>2, <2>3, <2>4, <2>5 DEF Owned
    <2>7. BatchesFresh'
      BY <1>0, <2>3 DEF BatchesFresh
    <2>8. TimesCleared' /\ VerdictStands
      BY <1>0, <2>3, <2>5 DEF TimesCleared, VerdictStands, Decided
    <2>9. ExclusiveClaim'
      BY <1>0, <2>2, <2>3, <2>4 DEF ExclusiveClaim
    <2> QED
      BY <2>6, <2>7, <2>8, <2>9
  <1> QED
    BY <1>1, <1>2 DEF Checkpoint

\* Attribution and reconciliation never write a row in a caller's hands, nor a
\* decided one.
LEMMA TablesOwner ==
    ASSUME OwnerInv, TypeInv',
           \/ \E f \in Fills : Attribute(f)
           \/ \E o \in Orders : Verification(o)
           \/ Audit \/ AuditLatch
    PROVE  OwnerInv' /\ VerdictStands
  <1> USE DEF OwnerInv
  <1>1. UNCHANGED <<pc, batch, job, clock>>
    BY DEF Attribute, RecordFill, EnqueueSettlement, BlockEvent, Verification, HoldForVerification,
           ReleaseVerification, BeginDispute, PlaceDisputeHold, LatchDispute, Audit, AuditLatch,
           caller, world
  <1>2. ASSUME \A g \in Fills : \/ events'[g] = events[g]
                               \/ /\ events[g].status # "PROCESSING" /\ ~Decided(events[g])
                                  /\ events'[g].started = 0
                                  /\ Decided(events'[g]) => events'[g].retryAt = 0
        PROVE  OwnerInv' /\ VerdictStands
    <2>1. \A q \in Procs : Working(q) => events'[job[q].fill] = events[job[q].fill]
      BY <1>2 DEF Owned, TypeInv, JobsOK
    <2>2. Owned'
      BY <1>1, <2>1 DEF Owned, Working
    <2>3. BatchesFresh' /\ ExclusiveClaim'
      BY <1>1 DEF BatchesFresh, ExclusiveClaim, Working
    <2>4. TimesCleared' /\ VerdictStands
      BY <1>2 DEF TimesCleared, VerdictStands, Decided
    <2> QED
      BY <2>2, <2>3, <2>4
  <1>3. CASE UNCHANGED events
    BY <1>2, <1>3
  <1>4. ASSUME NEW f \in Fills, EnqueueSettlement(f)
        PROVE  OwnerInv' /\ VerdictStands
    <2>1. events[f] = Absent /\ events' = [events EXCEPT ![f] = Pending] /\ events \in [Fills -> Event]
      BY <1>4 DEF EnqueueSettlement, TypeInv, TypeOK
    <2>2. /\ Absent.status = "absent" /\ Pending.started = 0 /\ Pending.retryAt = 0
      BY DEF Absent, Pending
    <2> QED
      BY <1>2, <2>1, <2>2 DEF Decided
  <1>5. ASSUME NEW f \in Fills, BlockEvent(f)
        PROVE  OwnerInv' /\ VerdictStands
    <2> DEFINE e == [events[f] EXCEPT !.status = "INTEGRITY_BLOCKED", !.retryAt = 0]
    <2>1. CASE UNCHANGED events
      BY <1>3, <2>1
    <2>2. CASE /\ events[f].status \in {"PENDING", "RETRYABLE_FAILED"}
               /\ events' = [events EXCEPT ![f] = e]
      <3>1. events \in [Fills -> Event] /\ events[f] \in Event
        BY DEF TypeInv, TypeOK
      <3>2. e.started = 0 /\ e.retryAt = 0
        BY <2>2, <3>1 DEF Event, TimesCleared
      <3> HIDE DEF e
      <3>3. events'[f] = e /\ \A g \in Fills : g # f => events'[g] = events[g]
        BY <2>2, <3>1
      <3> QED
        BY <1>2, <2>2, <3>2, <3>3 DEF Decided
    <2> QED
      BY <1>5, <2>1, <2>2 DEF BlockEvent
  <1>6. (\E f \in Fills : EnqueueSettlement(f) \/ BlockEvent(f)) \/ UNCHANGED events
    BY DEF Attribute, RecordFill, Verification, HoldForVerification, ReleaseVerification,
           BeginDispute, PlaceDisputeHold, LatchDispute, Audit, AuditLatch
  <1> QED
    BY <1>3, <1>4, <1>5, <1>6

\* Time passes, but no batch in progress becomes older than a stale lease.
LEMMA TickOwner ==
    ASSUME OwnerInv, TypeInv', ~SlowBatches, Tick
    PROVE  OwnerInv' /\ VerdictStands
  <1> USE DEF OwnerInv
  <1>0. /\ \A p \in Procs : pc[p] # "idle" => clock - batch[p].now < StaleLease
        /\ \A p \in Procs : batch[p].now \in Nat
        /\ clock \in Nat /\ StaleLease \in Nat /\ pc' = pc
    BY SettlementAssumption DEF Tick, TypeInv, TypeOK, Batch
  <1>1. CASE clock' = clock + 1 /\ UNCHANGED <<events, batch, job>>
    <2>1. Owned' /\ TimesCleared' /\ ExclusiveClaim' /\ VerdictStands
      BY <1>0, <1>1 DEF Owned, TimesCleared, ExclusiveClaim, VerdictStands, Working
    <2>2. BatchesFresh'
      BY <1>0, <1>1 DEF BatchesFresh
    <2> QED
      BY <2>1, <2>2
  <1>2. CASE /\ events' = [f \in Fills |-> Receded(events[f])]
             /\ batch' = [p \in Procs |-> [batch[p] EXCEPT !.now = Earlier(@)]]
             /\ job' = [p \in Procs |-> [job[p] EXCEPT !.claimed = Receded(@), !.state = Receded(@)]]
             /\ UNCHANGED clock
    <2>1. \A f \in Fills : /\ events'[f] = Receded(events[f]) /\ events[f] \in Event
                           /\ events'[f].status = events[f].status
                           /\ events'[f].started = Earlier(events[f].started)
      BY <1>2, RecededType DEF TypeInv, TypeOK
    <2>2. ASSUME NEW p \in Procs
          PROVE  /\ batch'[p].now = Earlier(batch[p].now)
                 /\ job'[p].fill = job[p].fill
                 /\ job'[p].state.status = job[p].state.status
                 /\ job'[p].state.started = Earlier(job[p].state.started)
      <3>1. batch[p] \in Batch /\ job[p] \in Job /\ job[p].state \in Event
        BY DEF TypeInv, TypeOK, Job
      <3>2. batch'[p] = [batch[p] EXCEPT !.now = Earlier(batch[p].now)]
        BY <1>2
      <3>3. job'[p] = [job[p] EXCEPT !.claimed = Receded(job[p].claimed), !.state = Receded(job[p].state)]
        BY <1>2
      <3>4. job'[p].fill = job[p].fill /\ job'[p].state = Receded(job[p].state)
        BY <3>1, <3>3 DEF Job
      <3> QED
        BY <3>1, <3>2, <3>4, RecededType DEF Batch
    <2>3. Owned'
      BY <1>0, <2>1, <2>2 DEF Owned, Working, TypeInv, JobsOK
    <2>4. BatchesFresh'
      <3>1. ASSUME NEW p \in Procs, pc'[p] # "idle"
            PROVE  batch'[p].now <= clock' /\ clock' - batch'[p].now <= StaleLease
        <4>1. batch[p].now \in Nat /\ clock - batch[p].now < StaleLease
          BY <1>0, <3>1
        <4>2. batch[p].now <= clock
          BY <1>0, <3>1 DEF BatchesFresh
        <4>3. batch'[p].now = IF batch[p].now = 0 THEN 0 ELSE batch[p].now - 1
          BY <2>2 DEF Earlier
        <4>4. clock \in Nat /\ StaleLease \in Nat /\ clock' = clock
          BY <1>0, <1>2
        <4>5. CASE batch[p].now = 0
          BY <4>1, <4>2, <4>3, <4>4, <4>5
        <4>6. CASE batch[p].now # 0
          BY <4>1, <4>2, <4>3, <4>4, <4>6
        <4> QED
          BY <4>5, <4>6
      <3> QED
        BY <3>1 DEF BatchesFresh
    <2>5. TimesCleared' /\ VerdictStands
      <3>1. \A f \in Fills : events[f].status # "PROCESSING" => events[f].started = 0
        BY DEF TimesCleared
      <3>2. Earlier(0) = 0
        BY DEF Earlier
      <3>3. \A f \in Fills : Decided(events[f]) => events'[f] = events[f]
        BY <2>1, <3>1, RecededType DEF TimesCleared, Decided
      <3>4. \A f \in Fills : Decided(events'[f]) => Decided(events[f])
        BY <2>1 DEF Decided
      <3> QED
        BY <2>1, <3>1, <3>2, <3>3, <3>4 DEF TimesCleared, VerdictStands
    <2>6. ExclusiveClaim'
      BY <1>0, <2>2 DEF ExclusiveClaim, Working
    <2> QED
      BY <2>3, <2>4, <2>5, <2>6
  <1> QED
    BY <1>1, <1>2 DEF Tick

\* The ownership invariant holds initially.
LEMMA InitOwner == Init => OwnerInv
  <1> SUFFICES ASSUME Init PROVE OwnerInv
    OBVIOUS
  <1>1. \A p \in Procs : pc[p] = "idle"
    BY DEF Init
  <1>2. Owned /\ BatchesFresh /\ ExclusiveClaim
    BY <1>1 DEF Owned, BatchesFresh, ExclusiveClaim, Working
  <1>3. TimesCleared
    BY DEF Init, TimesCleared, Absent, Pending, Decided
  <1> QED
    BY <1>2, <1>3, InitType DEF OwnerInv

\* Every step keeps the ownership invariant.
LEMMA NextOwner ==
    ASSUME ~SlowBatches
    PROVE  OwnerInv /\ [Next]_vars => OwnerInv' /\ VerdictStands
  <1> SUFFICES ASSUME OwnerInv, [Next]_vars PROVE OwnerInv' /\ VerdictStands
    OBVIOUS
  <1>0. TypeInv /\ TypeInv'
    BY NextType DEF OwnerInv
  <1>1. ASSUME NEW p \in Procs, Step(p) \/ LeaseLost(p) \/ Crash(p)
        PROVE  OwnerInv' /\ VerdictStands
    <2>1. CASE Claim(p)
      BY <1>0, <2>1, ClaimOwner
    <2>2. CASE Checkpoint(p)
      BY <1>0, <2>2, CheckpointOwner
    <2>3. CASE \/ PreCheck(p) \/ LotStage(p) \/ ProjectAttribution(p) \/ ProjectCash(p)
               \/ HoldingStage(p) \/ TradeStage(p) \/ LaterStages(p)
      BY <1>0, <2>3, StageKeeps, KeepsOwner
    <2>4. CASE \/ StartBatch(p) \/ FinishBatch(p) \/ LeaseLost(p) \/ Latch(p) \/ Crash(p)
               \/ Complete(p) \/ FailCheckpoint(p)
      BY <1>0, <2>4, LettingGo
    <2> QED
      BY <1>1, <2>1, <2>2, <2>3, <2>4 DEF Step
  <1>2. CASE Tick
    BY <1>0, <1>2, TickOwner
  <1>3. CASE UNCHANGED vars
    BY <1>0, <1>3 DEF vars, OwnerInv, Owned, BatchesFresh, TimesCleared, ExclusiveClaim, Working,
                      VerdictStands, Decided, caller, world
  <1> QED
    BY <1>0, <1>1, <1>2, <1>3, TablesOwner DEF Next

\* claim_if_processable is an exclusive claim as long as no batch outlives
\* stale_lease_seconds: no two callers ever have the same event in hand.
THEOREM ClaimsExclude == ASSUME ~SlowBatches PROVE Spec => []ExclusiveClaim
  <1>1. Init => OwnerInv
    BY InitOwner
  <1>2. OwnerInv /\ [Next]_vars => OwnerInv'
    BY NextOwner
  <1>3. OwnerInv => ExclusiveClaim
    BY DEF OwnerInv
  <1> QED
    BY <1>1, <1>2, <1>3, PTL DEF Spec

\* Under the same condition a completed, blocked or terminally failed
\* settlement event is never written again, by any caller or crash recovery.
THEOREM VerdictsStand == ASSUME ~SlowBatches PROVE Spec => VerdictIsFinal
  <1>1. Init => OwnerInv
    BY InitOwner
  <1>2. OwnerInv /\ [Next]_vars => OwnerInv'
    BY NextOwner
  <1>3. OwnerInv /\ [Next]_vars => [VerdictStands]_vars
    BY NextOwner
  <1> QED
    BY <1>1, <1>2, <1>3, PTL DEF Spec, VerdictIsFinal

-----------------------------------------------------------------------------
(* The order-level integrity hold: every write of a fill's own figures into  *)
(* lots, cash or PnL re-checks the hold inside its own transaction.          *)

\* A step that leaves lots, cash and PnL alone freezes every fill.
LEMMA FrozenIfUnchanged ==
    ASSUME UNCHANGED <<lots, pnl, cash>>, NEW f \in Fills
    PROVE  Frozen(f)
  BY DEF Frozen

\* A lot-stage step changes no lot entry of a held fill (position_lots writes are guarded).
LEMMA LotsFrozen ==
    ASSUME TypeInv, NEW p \in Procs, LotStage(p), NEW f \in Fills, Held(f)
    PROVE  Frozen(f)
  <1>0. lots \in [Fills -> LotRow] /\ UNCHANGED <<pnl, cash>>
    BY DEF LotStage, PlanLots, CloseLot, OpenRemainder, TypeInv, TypeOK, books
  <1>1. CASE UNCHANGED lots
    BY <1>0, <1>1 DEF Frozen
  <1>2. CASE /\ CloseLot(p) /\ ~Held(job[p].fill)
             /\ \E l \in Fills : lots' = [lots EXCEPT ![l] = Closed(@, job[p].fill, job[p].take[l])]
    <2> DEFINE g == job[p].fill
    <2>1. PICK l \in Fills : lots' = [lots EXCEPT ![l] = Closed(@, g, job[p].take[l])]
      BY <1>2
    <2>2. g # f /\ lots[l] \in LotRow
      BY <1>0, <1>2
    <2>3. /\ Closed(lots[l], g, job[p].take[l]).opened = lots[l].opened
          /\ Closed(lots[l], g, job[p].take[l]).closures[f] = lots[l].closures[f]
      BY <2>2 DEF Closed, LotRow
    <2> QED
      BY <1>0, <2>1, <2>3 DEF Frozen
  <1>3. CASE OpenRemainder(p) /\ ~Held(job[p].fill) /\ lots' # lots
    <2> DEFINE g == job[p].fill
               row == [lots[g] EXCEPT !.opened = job[p].rest, !.remaining = job[p].rest]
    <2>1. lots' = [lots EXCEPT ![g] = row] /\ g # f /\ g \in Fills
      BY <1>3, WorkingJob DEF OpenRemainder
    <2>2. row.closures = lots[g].closures
      BY <1>0, <2>1 DEF LotRow
    <2> HIDE DEF row
    <2> QED
      BY <1>0, <2>1, <2>2 DEF Frozen
  <1> QED
    BY <1>1, <1>2, <1>3 DEF LotStage, PlanLots, CloseLot, OpenRemainder, books

\* A cash or PnL step changes no row of a held fill.
LEMMA CashAndPnlFrozen ==
    ASSUME TypeInv, NEW p \in Procs, ProjectCash(p) \/ ProjectPnl(p), NEW f \in Fills, Held(f)
    PROVE  Frozen(f)
  <1>1. CASE ProjectCash(p)
    BY <1>1 DEF ProjectCash, Frozen
  <1>2. CASE ProjectPnl(p)
    <2> DEFINE g == job[p].fill
    <2>1. UNCHANGED <<lots, cash>>
      BY <1>2 DEF ProjectPnl
    <2>2. CASE UNCHANGED pnl
      BY <2>1, <2>2 DEF Frozen
    <2>3. CASE /\ ~Held(g)
               /\ pnl' = [l \in Fills |-> IF ClosedBy(g)[l] > 0
                                          THEN [pnl[l] EXCEPT ![g] = ClosedBy(g)[l]] ELSE pnl[l]]
      <3>1. g # f /\ \A l \in Fills : pnl[l] \in [Fills -> Nat]
        BY <2>3 DEF TypeInv, TypeOK
      <3>2. \A l \in Fills : pnl'[l][f] = pnl[l][f]
        BY <2>3, <3>1
      <3> QED
        BY <2>1, <3>2 DEF Frozen
    <2> QED
      BY <1>2, <2>2, <2>3 DEF ProjectPnl
  <1> QED
    BY <1>1, <1>2

\* Every step respects the holds.
LEMMA NextFrozen ==
    ASSUME TypeInv, [Next]_vars, NEW f \in Fills, Held(f)
    PROVE  Frozen(f)
  <1>1. ASSUME NEW p \in Procs, Step(p) \/ LeaseLost(p) \/ Crash(p)
        PROVE  Frozen(f)
    <2>1. CASE LotStage(p)
      BY <2>1, LotsFrozen
    <2>2. CASE ProjectCash(p) \/ ProjectPnl(p)
      BY <2>2, CashAndPnlFrozen
    <2>3. CASE StartBatch(p) \/ Claim(p) \/ FinishBatch(p) \/ LeaseLost(p) \/ Crash(p) \/ PreCheck(p)
      BY <2>3, FrozenIfUnchanged DEF StartBatch, Claim, FinishBatch, LeaseLost, Crash, PreCheck, books
    <2>4. CASE ProjectAttribution(p) \/ HoldingStage(p) \/ ReadTrade(p) \/ WriteTrade(p) \/ LaterStages(p)
      BY <2>4, FrozenIfUnchanged
         DEF ProjectAttribution, HoldingStage, ReadLots, ReadHoldingRow, WriteHolding, ReadTrade,
             WriteTrade, LaterStages, VerifyLots, VerifyHolding, LatchLiability, HoldOrder, books
    <2>5. CASE Checkpoint(p) \/ Complete(p) \/ FailCheckpoint(p) \/ Latch(p)
      BY <2>5, FrozenIfUnchanged DEF Checkpoint, Complete, FailCheckpoint, Latch, books
    <2> QED
      BY <1>1, <2>1, <2>2, <2>3, <2>4, <2>5 DEF Step, TradeStage
  <1>2. CASE \/ \E g \in Fills : Attribute(g)
             \/ \E o \in Orders : Verification(o)
             \/ Audit \/ AuditLatch \/ Tick \/ UNCHANGED vars
    BY <1>2, FrozenIfUnchanged
       DEF Attribute, RecordFill, EnqueueSettlement, BlockEvent, Verification, HoldForVerification,
           ReleaseVerification, BeginDispute, PlaceDisputeHold, LatchDispute, Audit, AuditLatch,
           Tick, vars, books
  <1> QED
    BY <1>1, <1>2 DEF Next

\* While an order is held nothing of its fills enters lots, cash or PnL, in
\* whatever stage its callers are and however long their batches last: the
\* guard_table check of every guarded write is enough on its own.
THEOREM HoldsFreeze == Spec => HeldOrderIsFrozen
  <1>1. Init => TypeInv
    BY InitType
  <1>2. TypeInv /\ [Next]_vars => TypeInv'
    BY NextType
  <1>3. TypeInv /\ [Next]_vars => [\A f \in Fills : Held(f) => Frozen(f)]_vars
    BY NextFrozen
  <1> QED
    BY <1>1, <1>2, <1>3, PTL DEF Spec, HeldOrderIsFrozen

-----------------------------------------------------------------------------
(* What holds for any callers, whatever overlaps, crashes or goes stale.   *)

\* A lot that was never opened is empty, and no lot is ever short.
LotsShaped ==
    \A l \in Fills :
        /\ lots[l].remaining >= 0
        /\ lots[l].opened = 0 => lots[l].remaining = 0 /\ \A g \in Fills : lots[l].closures[g] = 0

\* Nothing of a fill is in the books before the fill is recorded.
Unrecorded(f) ==
    /\ events[f].status = "absent" /\ lots[f].opened = 0 /\ liability[f] = 0
    /\ \A l \in Fills : lots[l].closures[f] = 0

RecordedFirst == \A f \in Fills \ fills : Unrecorded(f)

\* Callers work on recorded fills, and complete what has all its flags.
CallersShaped ==
    \A p \in Procs :
        /\ batch[p].due \subseteq fills
        /\ Working(p) => /\ job[p].fill \in fills
                         /\ job[p].state.status = "PROCESSING" /\ job[p].claimed.status = "PROCESSING"
        /\ pc[p] = "complete" => job[p].state.done = Flags

CompletedHasFlags == \A f \in Fills : events[f].status = "COMPLETED" => events[f].done = Flags

ShapeInv == TypeInv /\ LotsShaped /\ RecordedFirst /\ CallersShaped /\ CompletedHasFlags

-----------------------------------------------------------------------------
(* What holds while no two callers work on one event and no sell is        *)
(* executed beyond what was authorised, for any number of callers.         *)

\* No batch outlives its lease, or nobody is there to take its event away.
Orderly ==
    /\ ~SlowBatches \/ \A p, q \in Procs : p = q
    /\ Oversells = {}
    /\ \A f, g \in Fills : Rank[f] = Rank[g] => f = g

\* No event is in two hands, for the reason Orderly gives.
Exclusive == ExclusiveClaim /\ (SlowBatches \/ OwnerInv)

\* The units of f that are still to enter the books.
Owed == [f \in Fills |-> Qty[f] - Allocated(f)]

\* A buy opens its lot whole; a sell closes and never overdraws.
Sided ==
    \A f \in Fills :
        /\ f \in Buys => lots[f].opened \in {0, Qty[f]} /\ \A l \in Fills : lots[l].closures[f] = 0
        /\ f \notin Buys => lots[f].opened = 0
        /\ liability[f] = 0

\* A fill that is still to be projected has exhausted the lots it has closed.
Exhausted ==
    \A f, l \in Fills : lots[l].closures[f] > 0 /\ Owed[f] > 0 => lots[l].remaining = 0

\* The open lots cover what the recorded sells are still to close.
Promised == SumFunctionOnSet(Owed, fills \ Buys) <= LongUnits

\* Attribution rows exist only for whole fills, and are those of the closures.
Attributed ==
    \A f, l \in Fills : attribution[l][f] # 0 => Owed[f] = 0 /\ attribution[l][f] = lots[l].closures[f]

BooksOK ==
    /\ LotConservation /\ Sided /\ Exhausted /\ Promised /\ Attributed
    /\ \A f \in Fills : Owed[f] >= 0

\* What n flags set with realized closures r promise about f.
Backed(f, n, r) ==
    /\ n >= Lot => Owed[f] = 0 /\ r = ClosedBy(f)
    /\ n >= Attribution => \A l \in Fills : attribution[l][f] = lots[l].closures[f]
    /\ n >= Cash => f \in cash
    /\ n >= Trade => \A l \in Fills : lots[l].closures[f] > 0 => pnl[l][f] = lots[l].closures[f]

EventsBacked == \A f \in Fills : Backed(f, events[f].done, events[f].realized)

\* The plan of project_lot still fits the lots.
PlanFits(p) ==
    LET f == job[p].fill  t == job[p].take IN
    /\ SumFunction(t) + job[p].rest = Owed[f]
    /\ \A l \in Fills :
          /\ t[l] > 0 => f \notin Buys /\ lots[l].closures[f] = 0 /\ lots[l].opened > 0
          /\ \A k \in Fills : t[l] > 0 /\ t[k] > 0 /\ Rank[k] < Rank[l] => t[k] >= lots[k].remaining
          /\ job[p].state.realized[l] = lots[l].closures[f] + t[l]
    /\ f \notin Buys => job[p].rest = 0
    /\ pc[p] = "open" => job[p].rest > 0 /\ \A l \in Fills : t[l] = 0

\* The flag each label is about to set.
FlagAt(l) ==
    CASE l \in {"lot", "close", "open"} -> Lot
      [] l = "attribution" -> Attribution
      [] l = "cash" -> Cash
      [] l \in {"holding", "holdingRow", "writeHolding"} -> Holding
      [] l \in {"trade", "readTrade", "writeTrade"} -> Trade
      [] l \in {"verify", "verifyHolding"} -> Verified
      [] OTHER -> Flags

\* What the caller knows where it is.
AtStage(p) ==
    LET f == job[p].fill  n == job[p].state.done IN
    /\ pc[p] \in Stages \ {"checkpoint"} => n + 1 = FlagAt(pc[p])
    /\ pc[p] \in {"close", "open"} => PlanFits(p)
    /\ pc[p] \in {"readTrade", "writeTrade", "checkpoint"} => Backed(f, n + 1, job[p].state.realized)

JobBacked(p) ==
    LET f == job[p].fill IN
    /\ events[f].status = "PROCESSING" /\ events[f].done = job[p].state.done
    /\ job[p].claimed.done <= job[p].state.done
    /\ Backed(f, job[p].state.done, job[p].state.realized)
    /\ Backed(f, job[p].claimed.done, job[p].claimed.realized)
    /\ AtStage(p)

JobsBacked == \A p \in Procs : Working(p) => JobBacked(p)

\* What caller p has read so far does not make it set the verified flag.
Unconvinced(p) ==
    /\ pc[p] = "verifyHolding" => SumFunction(job[p].view.units) # holding
    /\ pc[p] = "checkpoint" => job[p].state.done + 1 # Verified

\* A fill that changed the lots and is still to compare them with the row.
StillToVerify(g) ==
    /\ Owed[g] # Qty[g] /\ events[g].done < Verified
    /\ \A p \in Procs : Working(p) /\ job[p].fill = g => Unconvinced(p)

\* A holding row that is not that of the lots is not past its last writer.
RowWatched == holding # LongUnits => \E g \in fills : StillToVerify(g)

BooksInv == ShapeInv /\ Exclusive /\ BooksOK /\ EventsBacked /\ JobsBacked
-----------------------------------------------------------------------------
(* What a step does to lots and jobs, field by field.                      *)

\* A step inside a stage keeps the event in p's hands with its flags.
Stays(p) ==
    /\ Working(p) /\ pc'[p] \notin {"idle", "batch", "latch"}
    /\ pc'[p] = "complete" => job[p].state.done = Flags
    /\ \A q \in Procs : q # p => pc'[q] = pc[q] /\ job'[q] = job[q]
    /\ job'[p].fill = job[p].fill /\ job'[p].claimed = job[p].claimed
    /\ job'[p].state.done = job[p].state.done /\ job'[p].state.status = job[p].state.status
    /\ UNCHANGED <<fills, events, batch>>

\* Reading a job field by field.
LEMMA JobFields ==
    ASSUME TypeInv, NEW p \in Procs
    PROVE  /\ pc[p] \in PCs /\ job[p] \in Job
           /\ job[p].take \in [Fills -> Nat] /\ job[p].rest \in Nat
           /\ job[p].claimed \in Event /\ job[p].state \in Event
           /\ job[p].state.realized \in [Fills -> Nat]
           /\ job[p].state.done \in 0 .. Flags /\ job[p].claimed.done \in 0 .. Flags
           /\ job[p].view.units \in [Fills -> Int] /\ job[p].view.row \in BOOLEAN
           /\ Working(p) => job[p].fill \in Fills
           /\ batch[p].due \subseteq Fills
  <1>1. job[p] \in Job /\ pc[p] \in PCs /\ batch[p] \in Batch
    BY DEF TypeInv, TypeOK
  <1>2. job[p].claimed \in Event /\ job[p].state \in Event
    BY <1>1 DEF Job
  <1> QED
    BY <1>1, <1>2, EventFields DEF Job, Batch, TypeInv, JobsOK

\* Reading a lot field by field.
LEMMA LotFields ==
    ASSUME TypeInv, NEW l \in Fills
    PROVE  /\ lots[l] \in LotRow /\ lots[l].opened \in Nat /\ lots[l].remaining \in Int
           /\ lots[l].closures \in [Fills -> Nat]
           /\ liability[l] \in Nat /\ Qty[l] \in Nat /\ Qty[l] > 0 /\ OrderOf[l] \in Orders
           /\ events[l] \in Event /\ attribution[l] \in [Fills -> Nat] /\ pnl[l] \in [Fills -> Nat]
  BY SettlementAssumption DEF TypeInv, TypeOK, LotRow

\* One closure, or an exception.
Closes(p, l) ==
    LET f == job[p].fill  q == job[p].take[l] IN
    /\ q > 0 /\ q <= lots[l].remaining
    /\ \A k \in Fills : job[p].take[k] > 0 => Rank[l] <= Rank[k]
    /\ \A k \in Fills :
          /\ lots'[k].opened = lots[k].opened
          /\ lots'[k].remaining = IF k = l THEN lots[k].remaining - q ELSE lots[k].remaining
          /\ \A g \in Fills : lots'[k].closures[g] = IF k = l /\ g = f THEN q ELSE lots[k].closures[g]
    /\ \A k \in Fills : job'[p].take[k] = IF k = l THEN 0 ELSE job[p].take[k]
    /\ job'[p].rest = job[p].rest /\ job'[p].state = job[p].state
    /\ job'[p].take \in [Fills -> Nat]
    /\ pc'[p] = LotStep(job'[p].take, job[p].rest)

\* A closure writes one lot and one entry of the plan, or raises.
LEMMA CloseLotEffect ==
    ASSUME TypeInv, NEW p \in Procs, CloseLot(p)
    PROVE  /\ Stays(p) /\ pc[p] = "close"
           /\ UNCHANGED <<liability, attribution, cash, pnl, holding>>
           /\ \/ UNCHANGED lots /\ pc'[p] = "fail" /\ job' = job
              \/ \E l \in Fills : Closes(p, l)
  <1> DEFINE f == job[p].fill
  <1>1. /\ pc[p] = "close" /\ Working(p) /\ f \in Fills
        /\ UNCHANGED <<fills, events, batch, liability, attribution, cash, pnl, holding>>
    BY JobFields DEF CloseLot, Working
  <1>2. /\ pc \in [Procs -> PCs] /\ job \in [Procs -> Job] /\ lots \in [Fills -> LotRow]
    BY DEF TypeInv, TypeOK
  <1>3. CASE (Raise(p, HoldFailure(f)) \/ Raise(p, "other")) /\ UNCHANGED <<lots, job>>
    BY <1>1, <1>2, <1>3 DEF Raise, Goto, Stays
  <1>4. ASSUME NEW l \in Fills, job[p].take[l] > 0, \A k \in Fills : job[p].take[k] > 0 => Rank[l] <= Rank[k],
               job[p].take[l] <= lots[l].remaining,
               lots' = [lots EXCEPT ![l] = Closed(@, f, job[p].take[l])],
               job' = [job EXCEPT ![p].take[l] = 0],
               Goto(p, LotStep([job[p].take EXCEPT ![l] = 0], job[p].rest))
        PROVE  Stays(p) /\ Closes(p, l)
    <2> DEFINE q == job[p].take[l]
               t == [job[p].take EXCEPT ![l] = 0]
    <2>1. q \in Nat /\ t \in [Fills -> Nat] /\ job[p] \in Job /\ job[p].take \in [Fills -> Nat]
      BY JobFields
    <2>2. /\ job'[p] = [job[p] EXCEPT !.take = t]
          /\ \A r \in Procs : r # p => job'[r] = job[r]
      BY <1>2, <1>4
    <2>3. /\ job'[p].take = t /\ job'[p].rest = job[p].rest /\ job'[p].state = job[p].state
          /\ job'[p].fill = f /\ job'[p].claimed = job[p].claimed
      BY <2>1, <2>2 DEF Job
    <2>4. /\ pc'[p] = LotStep(t, job[p].rest) /\ \A r \in Procs : r # p => pc'[r] = pc[r]
      BY <1>2, <1>4 DEF Goto
    <2>5. pc'[p] \notin {"idle", "batch", "latch", "complete"}
      BY <2>4, LotStepType
    <2>6. Stays(p)
      BY <1>1, <2>2, <2>3, <2>4, <2>5 DEF Stays
    <2>7. lots'[l] = Closed(lots[l], f, q) /\ \A k \in Fills : k # l => lots'[k] = lots[k]
      BY <1>2, <1>4
    <2>8. /\ Closed(lots[l], f, q).opened = lots[l].opened
          /\ Closed(lots[l], f, q).remaining = lots[l].remaining - q
          /\ \A g \in Fills : Closed(lots[l], f, q).closures[g] = IF g = f THEN q ELSE lots[l].closures[g]
      BY <1>1, <1>2 DEF Closed, LotRow
    <2>9. /\ \A k \in Fills :
                /\ lots'[k].opened = lots[k].opened
                /\ lots'[k].remaining = IF k = l THEN lots[k].remaining - q ELSE lots[k].remaining
                /\ \A g \in Fills : lots'[k].closures[g] = IF k = l /\ g = f THEN q ELSE lots[k].closures[g]
      BY <2>7, <2>8
    <2>10. \A k \in Fills : t[k] = IF k = l THEN 0 ELSE job[p].take[k]
      BY <2>1
    <2> HIDE DEF t
    <2> QED
      BY <1>4, <2>1, <2>3, <2>4, <2>6, <2>9, <2>10 DEF Closes
  <1> QED
    BY <1>1, <1>3, <1>4 DEF CloseLot

\* The remainder opens a lot or becomes a liability, or an exception.
Opens(p) ==
    LET f == job[p].fill IN
    /\ f \in Buys /\ lots[f].opened = 0
    /\ \A k \in Fills :
          /\ lots'[k].closures = lots[k].closures
          /\ lots'[k].opened = IF k = f THEN job[p].rest ELSE lots[k].opened
          /\ lots'[k].remaining = IF k = f THEN job[p].rest ELSE lots[k].remaining
    /\ UNCHANGED <<liability, job>> /\ pc'[p] = "checkpoint"

Overdraws(p) ==
    LET f == job[p].fill IN
    /\ f \notin Buys
    /\ \A k \in Fills : k # f => liability'[k] = liability[k]
    /\ UNCHANGED <<lots, job>> /\ pc'[p] = "checkpoint"

\* The remainder opens a lot, becomes a liability, is already there, or raises.
LEMMA OpenRemainderEffect ==
    ASSUME TypeInv, NEW p \in Procs, OpenRemainder(p)
    PROVE  /\ Stays(p) /\ pc[p] = "open"
           /\ UNCHANGED <<attribution, cash, pnl, holding>>
           /\ \/ UNCHANGED <<lots, liability, job>> /\ pc'[p] = "fail"
              \/ /\ job[p].fill \in Buys /\ lots[job[p].fill].opened > 0
                 /\ UNCHANGED <<lots, liability, job>> /\ pc'[p] = "checkpoint"
              \/ Opens(p) \/ Overdraws(p)
  <1> DEFINE f == job[p].fill
             row == [lots[f] EXCEPT !.opened = job[p].rest, !.remaining = job[p].rest]
  <1>1. /\ pc[p] = "open" /\ Working(p) /\ f \in Fills
        /\ UNCHANGED <<fills, events, batch, attribution, cash, pnl, holding, job>>
    BY JobFields DEF OpenRemainder, Working
  <1>2. /\ pc \in [Procs -> PCs] /\ job \in [Procs -> Job] /\ lots \in [Fills -> LotRow]
        /\ liability \in [Fills -> Nat] /\ lots[f].opened \in Nat
    BY <1>1, LotFields DEF TypeInv, TypeOK
  <1>3. CASE Raise(p, HoldFailure(f)) /\ UNCHANGED <<lots, liability>>
    BY <1>1, <1>2, <1>3 DEF Raise, Goto, Stays
  <1>4. ASSUME Goto(p, "checkpoint")
        PROVE  Stays(p) /\ pc'[p] = "checkpoint"
    BY <1>1, <1>2, <1>4 DEF Goto, Stays
  <1>5. CASE /\ f \in Buys /\ Goto(p, "checkpoint") /\ UNCHANGED liability
             /\ lots' = IF lots[f].opened > 0 THEN lots ELSE [lots EXCEPT ![f] = row]
    <2>1. CASE lots[f].opened > 0
      BY <1>1, <1>4, <1>5, <2>1
    <2>2. CASE ~(lots[f].opened > 0)
      <3>1. lots[f].opened = 0 /\ lots' = [lots EXCEPT ![f] = row]
        BY <1>2, <1>5, <2>2
      <3>2. row.closures = lots[f].closures /\ row.opened = job[p].rest /\ row.remaining = job[p].rest
        BY <1>1, <1>2 DEF LotRow
      <3> HIDE DEF row
      <3>3. \A k \in Fills : lots'[k] = IF k = f THEN row ELSE lots[k]
        BY <1>1, <1>2, <3>1
      <3>4. Opens(p)
        BY <1>1, <1>4, <1>5, <3>1, <3>2, <3>3 DEF Opens
      <3> QED
        BY <1>1, <1>4, <1>5, <3>4
    <2> QED
      BY <2>1, <2>2
  <1>6. CASE /\ f \notin Buys /\ Goto(p, "checkpoint") /\ UNCHANGED lots
             /\ liability' = IF liability[f] > 0 THEN liability ELSE [liability EXCEPT ![f] = job[p].rest]
    BY <1>1, <1>2, <1>4, <1>6 DEF Overdraws
  <1> QED
    BY <1>1, <1>3, <1>5, <1>6 DEF OpenRemainder

-----------------------------------------------------------------------------
(* What the other steps of a caller do to its job and to the events.       *)

\* A stage is run for the flag it sets.
LEMMA NextStageFlag ==
    ASSUME NEW n \in 0 .. Flags
    PROVE  /\ NextStage(n) \in {"lot", "attribution", "cash", "holding", "trade", "verify", "liability", "complete"}
           /\ NextStage(n) = "complete" => n = Flags
           /\ NextStage(n) # "complete" => n + 1 = FlagAt(NextStage(n))
  <1>1. n \in {0, 1, 2, 3, 4, 5, 6, 7}
    BY SMT DEF Flags
  <1> QED
    BY <1>1, SMT DEF NextStage, StageAfter, FlagAt, Flags, Lot, Attribution, Cash, Holding, Trade, Verified

Rows == <<lots, liability, attribution, cash, pnl, holding>>

Others(p) == \A q \in Procs : q # p => pc'[q] = pc[q] /\ job'[q] = job[q] /\ batch'[q] = batch[q]

\* The settlement row of f, and no other, is now e.
Rewrites(f, e) == events'[f] = e /\ \A g \in Fills : g # f => events'[g] = events[g]

\* Starting or ending a batch, latching or crashing.
LEMMA BatchEffect ==
    ASSUME ShapeInv, NEW p \in Procs,
           StartBatch(p) \/ FinishBatch(p) \/ LeaseLost(p) \/ Latch(p) \/ Crash(p)
    PROVE  /\ Others(p) /\ UNCHANGED <<fills, events, Rows>>
           /\ pc'[p] \in {"idle", "batch", "latch"} /\ batch'[p].due \subseteq fills
  <1> USE DEF ShapeInv
  <1>0. /\ pc \in [Procs -> PCs] /\ job \in [Procs -> Job] /\ batch \in [Procs -> Batch]
        /\ batch[p].due \subseteq fills
    BY DEF TypeInv, TypeOK, CallersShaped
  <1>1. CASE StartBatch(p)
    <2>1. \A f \in Fills : IsSettlementProcessable(events[f], clock) => f \in fills
      BY DEF RecordedFirst, Unrecorded, IsSettlementProcessable
    <2>2. batch'[p].due = {f \in Fills : IsSettlementProcessable(events[f], clock)}
      BY <1>0, <1>1 DEF StartBatch
    <2> QED
      BY <1>0, <1>1, <2>1, <2>2 DEF StartBatch, Goto, books, Others, Rows
  <1>2. CASE FinishBatch(p) \/ LeaseLost(p) \/ Crash(p)
    <2>1. EndOfBatch(p) /\ UNCHANGED <<fills, events, books>>
      BY <1>2 DEF FinishBatch, LeaseLost, Crash
    <2> QED
      BY <1>0, <2>1 DEF EndOfBatch, Goto, Idle, NoBatch, books, Others, Rows
  <1>3. CASE Latch(p)
    BY <1>0, <1>3 DEF Latch, Goto, books, Others, Rows
  <1> QED
    BY <1>1, <1>2, <1>3

\* claim_if_processable takes the event as it is, or leaves it.
Takes(p, f) ==
    \E e \in Event :
        /\ Rewrites(f, e)
        /\ events[f].status \in {"PENDING", "RETRYABLE_FAILED", "PROCESSING"}
        /\ e.status = "PROCESSING" /\ e.done = events[f].done /\ e.realized = events[f].realized
        /\ job'[p].fill = f /\ job'[p].claimed = e /\ job'[p].state = e
        /\ pc'[p] = "precheck"

\* A claim takes one recorded fill of the batch, or none.
LEMMA ClaimEffect ==
    ASSUME ShapeInv, NEW p \in Procs, Claim(p)
    PROVE  /\ Others(p) /\ UNCHANGED <<fills, Rows>> /\ batch'[p].due \subseteq fills
           /\ \/ pc'[p] = "batch" /\ UNCHANGED events
              \/ \E f \in fills : Takes(p, f)
  <1> USE DEF ShapeInv
  <1>0. /\ pc \in [Procs -> PCs] /\ job \in [Procs -> Job] /\ batch \in [Procs -> Batch]
        /\ events \in [Fills -> Event] /\ batch[p].due \subseteq fills /\ fills \subseteq Fills
    BY DEF TypeInv, TypeOK, CallersShaped
  <1>1. PICK f \in batch[p].due :
          /\ batch' = [batch EXCEPT ![p].due = @ \ {f}]
          /\ \/ /\ IsSettlementProcessable(events[f], batch[p].now)
                /\ events' = [events EXCEPT ![f] = ClaimedBy(p, @)]
                /\ job' = [job EXCEPT ![p] = [NoJob EXCEPT !.fill = f, !.tries = batch[p].tries[f],
                                !.claimed = ClaimedBy(p, events[f]), !.state = ClaimedBy(p, events[f])]]
                /\ Goto(p, "precheck")
             \/ UNCHANGED <<events, job, pc>>
    BY DEF Claim
  <1>2. /\ batch'[p].due = batch[p].due \ {f} /\ \A q \in Procs : q # p => batch'[q] = batch[q]
    BY <1>0, <1>1 DEF Batch
  <1>3. UNCHANGED <<fills, Rows>> /\ pc[p] = "batch"
    BY DEF Claim, books, Rows
  <1>4. CASE UNCHANGED <<events, job, pc>>
    BY <1>0, <1>2, <1>3, <1>4 DEF Others
  <1>5. CASE /\ IsSettlementProcessable(events[f], batch[p].now)
             /\ events' = [events EXCEPT ![f] = ClaimedBy(p, @)]
             /\ job' = [job EXCEPT ![p] = [NoJob EXCEPT !.fill = f, !.tries = batch[p].tries[f],
                             !.claimed = ClaimedBy(p, events[f]), !.state = ClaimedBy(p, events[f])]]
             /\ Goto(p, "precheck")
    <2> DEFINE e == ClaimedBy(p, events[f])
               j == [NoJob EXCEPT !.fill = f, !.tries = batch[p].tries[f], !.claimed = e, !.state = e]
    <2>1. f \in Fills /\ events[f] \in Event /\ batch[p].now \in Nat
      BY <1>0 DEF Batch
    <2>2. e \in Event /\ e.status = "PROCESSING" /\ e.done = events[f].done /\ e.realized = events[f].realized
      BY <2>1 DEF ClaimedBy, Event, Statuses
    <2>3. events[f].status \in {"PENDING", "RETRYABLE_FAILED", "PROCESSING"}
      BY <1>5 DEF IsSettlementProcessable
    <2> HIDE DEF e
    <2>4. j.fill = f /\ j.claimed = e /\ j.state = e
      BY DEF NoJob
    <2>5. job' = [job EXCEPT ![p] = j] /\ events' = [events EXCEPT ![f] = e]
      BY <1>5 DEF e
    <2> HIDE DEF j
    <2>6. Rewrites(f, e)
      BY <1>0, <2>1, <2>5 DEF Rewrites
    <2>7. job'[p] = j /\ pc'[p] = "precheck" /\ \A q \in Procs : q # p => pc'[q] = pc[q] /\ job'[q] = job[q]
      BY <1>0, <1>5, <2>5 DEF Goto
    <2>8. Takes(p, f)
      BY <2>2, <2>3, <2>4, <2>6, <2>7 DEF Takes
    <2> QED
      BY <1>0, <1>2, <1>3, <2>7, <2>8 DEF Others
  <1> QED
    BY <1>1, <1>4, <1>5

\* An exception keeps everything but the label.
Raised(p) ==
    /\ pc'[p] = "fail" /\ UNCHANGED <<events, job, batch>> /\ Others(p)

\* An exception that changes no table and no plan.
LEMMA RaiseEffect ==
    ASSUME TypeInv, NEW p \in Procs, NEW kind, Raise(p, kind), UNCHANGED <<events, job, batch>>
    PROVE  Raised(p)
  BY DEF Raise, Goto, Raised, Others, TypeInv, TypeOK

\* The checkpoint of a stage.
SetsFlag(p) ==
    \E e \in Event :
        LET f == job[p].fill IN
        /\ Rewrites(f, e) /\ Proven(f, e)
        /\ e.status = job[p].state.status /\ e.done = job[p].state.done + 1 /\ e.realized = job[p].state.realized
        /\ job'[p].fill = f /\ job'[p].claimed = job[p].claimed /\ job'[p].state = e
        /\ pc'[p] = NextStage(e.done)

\* A stage's checkpoint sets one more flag, which Proven has checked, or raises.
LEMMA CheckpointEffect ==
    ASSUME TypeInv, NEW p \in Procs, Checkpoint(p)
    PROVE  /\ pc[p] = "checkpoint" /\ Working(p) /\ UNCHANGED <<fills, Rows, batch>>
           /\ Raised(p) \/ (SetsFlag(p) /\ Others(p))
  <1> DEFINE f == job[p].fill
             e == [job[p].state EXCEPT !.done = @ + 1]
             j == [job[p] EXCEPT !.state = e, !.take = Nothing, !.rest = 0, !.view = NoView]
  <1>1. /\ pc[p] = "checkpoint" /\ Working(p) /\ UNCHANGED <<fills, Rows, batch>>
    BY DEF Checkpoint, Working, books, Rows
  <1>2. /\ pc \in [Procs -> PCs] /\ job \in [Procs -> Job] /\ events \in [Fills -> Event]
        /\ f \in Fills /\ job[p].state \in Event /\ job[p].state.done \in 0 .. Flags
        /\ job[p].state.done < Flags
    BY <1>1, JobFields DEF TypeInv, TypeOK, JobsOK, Stages
  <1>3. CASE Raise(p, "other") /\ UNCHANGED <<events, job>>
    BY <1>1, <1>3, RaiseEffect DEF Raised
  <1>4. CASE /\ Proven(f, e) /\ events' = [events EXCEPT ![f] = e]
             /\ job' = [job EXCEPT ![p] = j] /\ Goto(p, NextStage(e.done))
    <2>1. /\ e \in Event /\ e.status = job[p].state.status /\ e.done = job[p].state.done + 1
          /\ e.realized = job[p].state.realized
      BY <1>2 DEF Event, Flags
    <2> HIDE DEF e
    <2>2. j.fill = f /\ j.claimed = job[p].claimed /\ j.state = e
      BY <1>2 DEF Job
    <2> HIDE DEF j
    <2>3. Rewrites(f, e)
      BY <1>2, <1>4 DEF Rewrites
    <2>4. job'[p] = j /\ pc'[p] = NextStage(e.done) /\ Others(p)
      BY <1>1, <1>2, <1>4 DEF Goto, Others
    <2>5. SetsFlag(p)
      BY <1>4, <2>1, <2>2, <2>3, <2>4 DEF SetsFlag
    <2> QED
      BY <1>1, <2>4, <2>5
  <1> QED
    BY <1>1, <1>3, <1>4 DEF Checkpoint

\* The COMPLETED checkpoint.
Completes(p) ==
    \E e \in Event :
        LET f == job[p].fill IN
        /\ Rewrites(f, e) /\ Proven(f, e)
        /\ e.status = "COMPLETED" /\ e.done = job[p].state.done /\ e.realized = job[p].state.realized
        /\ pc'[p] = "batch"

\* The last checkpoint completes the event, which Proven has checked, or raises.
LEMMA CompleteEffect ==
    ASSUME TypeInv, NEW p \in Procs, Complete(p)
    PROVE  /\ pc[p] = "complete" /\ Working(p) /\ UNCHANGED <<fills, Rows, batch>>
           /\ Raised(p) \/ (Completes(p) /\ Others(p))
  <1> DEFINE f == job[p].fill
             e == [job[p].state EXCEPT !.status = "COMPLETED", !.started = 0, !.retryAt = 0]
  <1>1. /\ pc[p] = "complete" /\ Working(p) /\ UNCHANGED <<fills, Rows, batch>>
    BY DEF Complete, Working, books, Rows
  <1>2. /\ pc \in [Procs -> PCs] /\ job \in [Procs -> Job] /\ events \in [Fills -> Event]
        /\ f \in Fills /\ job[p].state \in Event
    BY <1>1, JobFields DEF TypeInv, TypeOK
  <1>3. CASE Raise(p, "other") /\ UNCHANGED <<events, job>>
    BY <1>1, <1>3, RaiseEffect DEF Raised
  <1>4. CASE /\ Proven(f, e) /\ events' = [events EXCEPT ![f] = e] /\ Goto(p, "batch") /\ Idle(p)
    <2>1. /\ e \in Event /\ e.status = "COMPLETED" /\ e.done = job[p].state.done
          /\ e.realized = job[p].state.realized
      BY <1>2 DEF Event, Statuses
    <2> HIDE DEF e
    <2>2. Rewrites(f, e)
      BY <1>2, <1>4 DEF Rewrites
    <2>3. pc'[p] = "batch" /\ Others(p)
      BY <1>1, <1>2, <1>4 DEF Goto, Idle, Others
    <2> QED
      BY <1>1, <1>4, <2>1, <2>2, <2>3 DEF Completes
  <1> QED
    BY <1>1, <1>3, <1>4 DEF Complete

\* The except block: the claimed flags again, with a status that is no verdict
\* of completion; or the exception leaves process_pending.
Fails(p) ==
    \E e \in Event :
        LET f == job[p].fill IN
        /\ Rewrites(f, e)
        /\ e.status \in {"INTEGRITY_BLOCKED", "TERMINAL_FAILED", "RETRYABLE_FAILED"}
        /\ e.done = job[p].claimed.done /\ e.realized = job[p].claimed.realized

\* The failure checkpoint puts the claimed event back with a failed status.
LEMMA FailEffect ==
    ASSUME TypeInv, NEW p \in Procs, FailCheckpoint(p)
    PROVE  /\ Working(p) /\ UNCHANGED <<fills, Rows>> /\ Others(p)
           /\ pc'[p] \in {"idle", "batch", "latch"}
           /\ batch'[p] = batch[p] \/ batch'[p].due = {}
           /\ UNCHANGED events \/ Fails(p)
  <1> DEFINE f == job[p].fill
             e == Failed(p)
  <1>1. /\ pc[p] = "fail" /\ Working(p) /\ UNCHANGED <<fills, Rows>>
    BY DEF FailCheckpoint, Working, books, Rows
  <1>2. /\ pc \in [Procs -> PCs] /\ job \in [Procs -> Job] /\ events \in [Fills -> Event]
        /\ batch \in [Procs -> Batch] /\ f \in Fills /\ job[p].claimed \in Event
    BY <1>1, JobFields DEF TypeInv, TypeOK
  <1>3. CASE EndOfBatch(p) /\ UNCHANGED events
    BY <1>1, <1>2, <1>3 DEF EndOfBatch, Goto, Idle, NoBatch, Others
  <1>4. CASE /\ events' = [events EXCEPT ![f] = e] /\ Idle(p) /\ UNCHANGED batch
             /\ Goto(p, IF e.status = "RETRYABLE_FAILED" THEN "batch" ELSE "latch")
    <2>1. e \in Event
      BY <1>1, FailedType DEF Failed
    <2>2. /\ e.done = job[p].claimed.done /\ e.realized = job[p].claimed.realized
          /\ e.status \in {"INTEGRITY_BLOCKED", "TERMINAL_FAILED", "RETRYABLE_FAILED"}
      BY <1>2 DEF Failed, FailureStatus, Event
    <2> HIDE DEF e
    <2>3. Rewrites(f, e)
      BY <1>2, <1>4 DEF Rewrites
    <2>4. pc'[p] \in {"batch", "latch"} /\ Others(p)
      BY <1>1, <1>2, <1>4 DEF Goto, Idle, Others
    <2> QED
      BY <1>1, <1>4, <2>1, <2>2, <2>3, <2>4 DEF Fails
  <1> QED
    BY <1>1, <1>3, <1>4 DEF FailCheckpoint

-----------------------------------------------------------------------------
(* What everything else does to fills and events.                          *)

\* Attribution, verification, disputes and the audit write no row of the
\* books; a fill gets an event, and only a waiting event is blocked.
LEMMA TablesEffect ==
    ASSUME TypeInv,
           \/ \E f \in Fills : Attribute(f)
           \/ \E o \in Orders : Verification(o)
           \/ Audit \/ AuditLatch
    PROVE  /\ UNCHANGED <<pc, job, batch, Rows>>
           /\ \/ UNCHANGED <<fills, events>>
              \/ /\ UNCHANGED events
                 /\ \E f \in Fills \ fills : Covered(f) /\ fills' = fills \cup {f}
              \/ /\ UNCHANGED fills
                 /\ \E f \in fills : \E e \in Event :
                       /\ Rewrites(f, e) /\ e.done = events[f].done /\ e.realized = events[f].realized
                       /\ events[f].status \in {"absent", "PENDING", "RETRYABLE_FAILED"}
                       /\ e.status \in {"PENDING", "INTEGRITY_BLOCKED"}
              \/ /\ UNCHANGED fills
                 /\ \E f \in Fills \ fills : events[f].status \in {"PENDING", "RETRYABLE_FAILED"}
  <1>0. events \in [Fills -> Event] /\ fills \subseteq Fills
    BY DEF TypeInv, TypeOK
  <1>1. UNCHANGED <<pc, job, batch, Rows>>
    BY DEF Attribute, RecordFill, EnqueueSettlement, BlockEvent, Verification, HoldForVerification,
           ReleaseVerification, BeginDispute, PlaceDisputeHold, LatchDispute, Audit, AuditLatch,
           caller, books, Rows
  <1>2. ASSUME NEW f \in Fills, RecordFill(f)
        PROVE  UNCHANGED events /\ \E g \in Fills \ fills : Covered(g) /\ fills' = fills \cup {g}
    BY <1>2 DEF RecordFill
  <1>3. ASSUME NEW f \in Fills, EnqueueSettlement(f)
        PROVE  /\ UNCHANGED fills /\ f \in fills /\ Rewrites(f, Pending)
               /\ Pending \in Event /\ Pending.done = events[f].done /\ Pending.realized = events[f].realized
               /\ events[f].status = "absent" /\ Pending.status = "PENDING"
    BY <1>0, <1>3, EmptyRecordsType DEF EnqueueSettlement, Rewrites, Absent, Pending
  <1>4. ASSUME NEW f \in Fills, BlockEvent(f)
        PROVE  \/ UNCHANGED <<fills, events>>
               \/ /\ UNCHANGED fills /\ events[f].status \in {"PENDING", "RETRYABLE_FAILED"}
                  /\ \E e \in Event : /\ Rewrites(f, e) /\ e.done = events[f].done
                                      /\ e.realized = events[f].realized /\ e.status = "INTEGRITY_BLOCKED"
    <2> DEFINE e == [events[f] EXCEPT !.status = "INTEGRITY_BLOCKED", !.retryAt = 0]
    <2>1. CASE UNCHANGED events
      BY <1>4, <2>1 DEF BlockEvent
    <2>2. CASE /\ events[f].status \in {"PENDING", "RETRYABLE_FAILED"}
               /\ events' = [events EXCEPT ![f] = e]
      <3>1. /\ e \in Event /\ e.done = events[f].done /\ e.realized = events[f].realized
            /\ e.status = "INTEGRITY_BLOCKED"
        BY <1>0 DEF Event, Statuses
      <3> HIDE DEF e
      <3>2. Rewrites(f, e)
        BY <1>0, <2>2 DEF Rewrites
      <3> QED
        BY <1>4, <2>2, <3>1, <3>2 DEF BlockEvent
    <2> QED
      BY <1>4, <2>1, <2>2 DEF BlockEvent
  <1>5. \/ \E f \in Fills : RecordFill(f) \/ EnqueueSettlement(f) \/ BlockEvent(f)
        \/ UNCHANGED <<fills, events>>
    BY DEF Attribute, Verification, HoldForVerification, ReleaseVerification,
           BeginDispute, PlaceDisputeHold, LatchDispute, Audit, AuditLatch
  <1>6. CASE UNCHANGED <<fills, events>>
    BY <1>1, <1>6
  <1>7. ASSUME NEW f \in Fills, RecordFill(f) \/ EnqueueSettlement(f) \/ BlockEvent(f)
        PROVE  \/ UNCHANGED <<fills, events>>
              \/ /\ UNCHANGED events
                 /\ \E g \in Fills \ fills : Covered(g) /\ fills' = fills \cup {g}
              \/ /\ UNCHANGED fills
                 /\ \E g \in fills : \E e \in Event :
                       /\ Rewrites(g, e) /\ e.done = events[g].done /\ e.realized = events[g].realized
                       /\ events[g].status \in {"absent", "PENDING", "RETRYABLE_FAILED"}
                       /\ e.status \in {"PENDING", "INTEGRITY_BLOCKED"}
              \/ /\ UNCHANGED fills
                 /\ \E g \in Fills \ fills : events[g].status \in {"PENDING", "RETRYABLE_FAILED"}
    <2>1. CASE RecordFill(f)
      BY <1>2, <2>1
    <2>2. CASE EnqueueSettlement(f)
      BY <1>3, <2>2
    <2>3. CASE BlockEvent(f) /\ f \in fills
      BY <1>4, <2>3
    <2>4. CASE BlockEvent(f) /\ f \notin fills
      BY <1>4, <2>4
    <2> QED
      BY <1>7, <2>1, <2>2, <2>3, <2>4
  <1> QED
    BY <1>1, <1>5, <1>6, <1>7

\* Times recede; nothing else of an event or a job does.
SameEvent(e, d) == e.status = d.status /\ e.done = d.done /\ e.realized = d.realized

\* Time changes no status, no flag and no plan.
LEMMA TickEffect ==
    ASSUME TypeInv, Tick
    PROVE  /\ UNCHANGED <<fills, pc, Rows>>
           /\ \A f \in Fills : SameEvent(events'[f], events[f])
           /\ \A p \in Procs :
                 /\ batch'[p].due = batch[p].due
                 /\ job'[p].fill = job[p].fill /\ job'[p].take = job[p].take
                 /\ job'[p].rest = job[p].rest /\ job'[p].view = job[p].view
                 /\ SameEvent(job'[p].claimed, job[p].claimed)
                 /\ SameEvent(job'[p].state, job[p].state)
  <1>1. UNCHANGED <<fills, pc, Rows>>
    BY DEF Tick, books, Rows
  <1>2. CASE UNCHANGED <<events, batch, job>>
    BY <1>1, <1>2 DEF SameEvent
  <1>3. CASE /\ events' = [f \in Fills |-> Receded(events[f])]
             /\ batch' = [p \in Procs |-> [batch[p] EXCEPT !.now = Earlier(@)]]
             /\ job' = [p \in Procs |-> [job[p] EXCEPT !.claimed = Receded(@), !.state = Receded(@)]]
    <2>1. \A e \in Event : SameEvent(Receded(e), e)
      BY DEF Event, Receded, SameEvent
    <2>2. ASSUME NEW f \in Fills PROVE SameEvent(events'[f], events[f])
      BY <1>3, <2>1, LotFields
    <2>3. ASSUME NEW p \in Procs
          PROVE  /\ batch'[p].due = batch[p].due
                 /\ job'[p].fill = job[p].fill /\ job'[p].take = job[p].take
                 /\ job'[p].rest = job[p].rest /\ job'[p].view = job[p].view
                 /\ SameEvent(job'[p].claimed, job[p].claimed)
                 /\ SameEvent(job'[p].state, job[p].state)
      <3> DEFINE c == Receded(job[p].claimed)
                 s == Receded(job[p].state)
                 j == [job[p] EXCEPT !.claimed = c, !.state = s]
      <3>1. batch[p] \in Batch /\ job[p] \in Job /\ job[p].claimed \in Event /\ job[p].state \in Event
        BY JobFields DEF TypeInv, TypeOK
      <3>2. batch'[p] = [batch[p] EXCEPT !.now = Earlier(@)] /\ job'[p] = j
        BY <1>3
      <3>3. SameEvent(c, job[p].claimed) /\ SameEvent(s, job[p].state)
        BY <2>1, <3>1
      <3> HIDE DEF c, s
      <3>4. /\ j.fill = job[p].fill /\ j.take = job[p].take /\ j.rest = job[p].rest
            /\ j.view = job[p].view /\ j.claimed = c /\ j.state = s
        BY <3>1 DEF Job
      <3>5. batch'[p].due = batch[p].due
        BY <3>1, <3>2 DEF Batch
      <3> QED
        BY <3>2, <3>3, <3>4, <3>5
    <2> QED
      BY <1>1, <2>2, <2>3
  <1> QED
    BY <1>2, <1>3 DEF Tick

-----------------------------------------------------------------------------
(* Every step inside a stage keeps the event in its caller's hands.        *)

\* An exception inside a stage keeps the event in its caller's hands.
LEMMA RaiseStays ==
    ASSUME TypeInv, NEW p \in Procs, Working(p), NEW kind, Raise(p, kind),
           UNCHANGED <<fills, events, batch, job>>
    PROVE  Stays(p)
  BY DEF Raise, Goto, Stays, TypeInv, TypeOK

\* So does going on to a later label.
LEMMA GotoStays ==
    ASSUME TypeInv, NEW p \in Procs, Working(p), NEW l, Goto(p, l),
           l \notin {"idle", "batch", "latch"}, l = "complete" => job[p].state.done = Flags,
           UNCHANGED <<fills, events, batch, job>>
    PROVE  Stays(p)
  BY DEF Goto, Stays, TypeInv, TypeOK

\* So does a read, which changes the view only.
LEMMA ViewStays ==
    ASSUME TypeInv, NEW p \in Procs, Working(p), NEW l, Goto(p, l),
           l \notin {"idle", "batch", "latch", "complete"},
           NEW v, job' = [job EXCEPT ![p].view = v],
           UNCHANGED <<fills, events, batch>>
    PROVE  /\ Stays(p) /\ pc'[p] = l /\ job'[p].view = v
           /\ job'[p].state = job[p].state /\ job'[p].take = job[p].take /\ job'[p].rest = job[p].rest
  <1>1. pc \in [Procs -> PCs] /\ job \in [Procs -> Job] /\ job[p] \in Job
    BY DEF TypeInv, TypeOK
  <1>2. job'[p] = [job[p] EXCEPT !.view = v] /\ \A q \in Procs : q # p => job'[q] = job[q]
    BY <1>1
  <1>3. /\ job'[p].fill = job[p].fill /\ job'[p].claimed = job[p].claimed /\ job'[p].state = job[p].state
        /\ job'[p].take = job[p].take /\ job'[p].rest = job[p].rest /\ job'[p].view = v
    BY <1>1, <1>2 DEF Job
  <1> QED
    BY <1>1, <1>2, <1>3 DEF Goto, Stays

\* What project_lot plans: nothing when the fill is spent beyond its quantity,
\* else a FIFO take of what it still needs.
Plans(p) ==
    LET f == job[p].fill
        spent == Spent(ClosedBy(f), lots[f].opened)
        t == job'[p].take
        r == job'[p].rest IN
    /\ t \in [Fills -> Nat] /\ r \in Nat
    /\ IsFifoTake(ClosableUnits(f), Rank, Qty[f] - spent, t)
    /\ spent + SumFunction(t) + r = Qty[f]
    /\ job'[p].state.realized = [l \in Fills |-> ClosedBy(f)[l] + t[l]]
    /\ pc'[p] = LotStep(t, r)

\* The planning step of project_lot writes no table.
LEMMA PlanLotsEffect ==
    ASSUME TypeInv, NEW p \in Procs, PlanLots(p)
    PROVE  /\ Stays(p) /\ pc[p] = "lot" /\ UNCHANGED Rows
           /\ (UNCHANGED job /\ pc'[p] = "fail") \/ Plans(p)
  <1> DEFINE f == job[p].fill
             spent == Spent(ClosedBy(f), lots[f].opened)
  <1>1. /\ pc[p] = "lot" /\ Working(p) /\ f \in Fills /\ UNCHANGED <<fills, events, batch, Rows>>
    BY JobFields DEF PlanLots, Working, books, Rows
  <1>2. /\ pc \in [Procs -> PCs] /\ job \in [Procs -> Job] /\ job[p] \in Job /\ job[p].state \in Event
        /\ Qty[f] \in Nat
    BY <1>1, JobFields, LotFields DEF TypeInv, TypeOK
  <1>3. CASE Raise(p, "INTEGRITY_VIOLATION") /\ UNCHANGED job
    BY <1>1, <1>2, <1>3, RaiseStays DEF Raise, Goto
  <1>4. ASSUME NEW t \in [Fills -> 0 .. Qty[f]], NEW r \in 0 .. Qty[f],
               IsFifoTake(ClosableUnits(f), Rank, Qty[f] - spent, t),
               spent + SumFunction(t) + r = Qty[f],
               job' = [job EXCEPT ![p] = [@ EXCEPT !.take = t, !.rest = r,
                            !.state.realized = [l \in Fills |-> ClosedBy(f)[l] + t[l]]]],
               Goto(p, LotStep(t, r))
        PROVE  Stays(p) /\ Plans(p)
    <2> DEFINE c == [l \in Fills |-> ClosedBy(f)[l] + t[l]]
    <2>1. /\ job'[p] = [job[p] EXCEPT !.take = t, !.rest = r, !.state.realized = c]
          /\ \A q \in Procs : q # p => job'[q] = job[q]
      BY <1>2, <1>4
    <2> HIDE DEF c
    <2>2. /\ job'[p].take = t /\ job'[p].rest = r /\ job'[p].fill = f /\ job'[p].claimed = job[p].claimed
          /\ job'[p].state = [job[p].state EXCEPT !.realized = c]
      BY <1>2, <2>1 DEF Job
    <2>3. /\ job'[p].state.realized = c /\ job'[p].state.done = job[p].state.done
          /\ job'[p].state.status = job[p].state.status
      BY <1>2, <2>2 DEF Event
    <2>4. /\ pc'[p] = LotStep(t, r) /\ \A q \in Procs : q # p => pc'[q] = pc[q]
          /\ pc'[p] \notin {"idle", "batch", "latch", "complete"}
      BY <1>2, <1>4, LotStepType DEF Goto
    <2>5. Stays(p)
      BY <1>1, <2>1, <2>2, <2>3, <2>4 DEF Stays
    <2>6. t \in [Fills -> Nat] /\ r \in Nat
      BY <1>2
    <2> QED
      BY <1>4, <2>2, <2>3, <2>4, <2>5, <2>6 DEF Plans, c
  <1> QED
    BY <1>1, <1>3, <1>4 DEF PlanLots

\* The stages other than the lot writes.
OtherStage(p) ==
    \/ PreCheck(p) \/ ProjectAttribution(p) \/ ProjectCash(p)
    \/ HoldingStage(p) \/ TradeStage(p) \/ LaterStages(p)

\* The other stages write neither lots nor liabilities.
LEMMA StageStays ==
    ASSUME TypeInv, NEW p \in Procs, OtherStage(p)
    PROVE  Stays(p) /\ UNCHANGED <<lots, liability>>
  <1>1. CASE PreCheck(p)
    <2>1. Working(p) /\ UNCHANGED <<fills, events, books, batch, job>> /\ job[p].state.done \in 0 .. Flags
      BY <1>1, JobFields DEF PreCheck, Working
    <2>2. /\ NextStage(job[p].state.done) \notin {"idle", "batch", "latch"}
          /\ NextStage(job[p].state.done) = "complete" => job[p].state.done = Flags
      BY <2>1, NextStageFlag
    <2> QED
      BY <1>1, <2>1, <2>2, RaiseStays, GotoStays DEF PreCheck, books
  <1>2. CASE ProjectAttribution(p) \/ ProjectCash(p) \/ WriteHolding(p)
    BY <1>2, RaiseStays, GotoStays DEF ProjectAttribution, ProjectCash, WriteHolding, Working
  <1>3. CASE ProjectPnl(p) \/ WriteTrade(p) \/ VerifyHolding(p) \/ LatchLiability(p) \/ HoldOrder(p)
    BY <1>3, RaiseStays, GotoStays
       DEF ProjectPnl, WriteTrade, VerifyHolding, LatchLiability, HoldOrder, Working, books
  <1>4. CASE ReadLots(p)
    <2>1. job' = [job EXCEPT ![p].view = [job[p].view EXCEPT !.units = OpenUnits]]
      BY <1>4 DEF ReadLots
    <2> QED
      BY <1>4, <2>1, ViewStays DEF ReadLots, Working, books
  <1>5. CASE ReadHoldingRow(p)
    <2>1. job' = [job EXCEPT ![p].view = [job[p].view EXCEPT !.row = holding > 0]]
      BY <1>5 DEF ReadHoldingRow
    <2>2. \E l \in {"checkpoint", "writeHolding"} : Goto(p, l)
      BY <1>5 DEF ReadHoldingRow
    <2> QED
      BY <1>5, <2>1, <2>2, ViewStays DEF ReadHoldingRow, Working, books
  <1>6. CASE ReadTrade(p)
    <2>1. job' = [job EXCEPT ![p].view = [job[p].view EXCEPT !.trade = TradeOf(OrderOf[job[p].fill])]]
      BY <1>6 DEF ReadTrade
    <2> QED
      BY <1>6, <2>1, ViewStays DEF ReadTrade, Working, books
  <1>7. CASE VerifyLots(p)
    <2>1. Working(p) /\ UNCHANGED <<fills, events, books, batch>>
      BY <1>7 DEF VerifyLots, Working
    <2>2. CASE Raise(p, HoldFailure(job[p].fill)) /\ UNCHANGED job
      BY <2>1, <2>2, RaiseStays DEF books
    <2>3. CASE job' = [job EXCEPT ![p].view.units = OpenUnits] /\ Goto(p, "verifyHolding")
      <3>1. job' = [job EXCEPT ![p].view = [job[p].view EXCEPT !.units = OpenUnits]]
        BY <2>3
      <3> QED
        BY <2>1, <2>3, <3>1, ViewStays DEF books
    <2> QED
      BY <1>7, <2>2, <2>3 DEF VerifyLots
  <1> QED
    BY <1>1, <1>2, <1>3, <1>4, <1>5, <1>6, <1>7
       DEF OtherStage, HoldingStage, TradeStage, LaterStages

-----------------------------------------------------------------------------
(* The shape of the books is invariant, for any callers.                   *)

\* Empty tables are well shaped.
LEMMA InitShape == Init => ShapeInv
  <1> SUFFICES ASSUME Init PROVE ShapeInv
    OBVIOUS
  <1>1. LotsShaped
    BY DEF Init, LotsShaped, NoLot, Nothing
  <1>2. RecordedFirst
    BY DEF Init, RecordedFirst, Unrecorded, NoLot, Nothing, Absent, Pending
  <1>3. CallersShaped
    BY DEF Init, CallersShaped, Working, NoBatch
  <1>4. CompletedHasFlags
    BY DEF Init, CompletedHasFlags, Absent, Pending
  <1> QED
    BY <1>1, <1>2, <1>3, <1>4, InitType DEF ShapeInv

\* A step inside a stage that leaves the lots shaped and adds only to the
\* caller's own fill.
LEMMA StageShape ==
    ASSUME ShapeInv, TypeInv', NEW p \in Procs, Stays(p), LotsShaped',
           \A g \in Fills : g # job[p].fill =>
              /\ lots'[g].opened = lots[g].opened /\ liability'[g] = liability[g]
              /\ \A l \in Fills : lots'[l].closures[g] = lots[l].closures[g]
    PROVE  ShapeInv'
  <1> USE DEF ShapeInv
  <1>1. RecordedFirst'
    <2> SUFFICES ASSUME NEW g \in Fills, g \notin fills PROVE Unrecorded(g)'
      BY DEF RecordedFirst, Stays
    <2>1. g # job[p].fill /\ Unrecorded(g) /\ events'[g] = events[g]
      BY DEF CallersShaped, Stays, RecordedFirst
    <2> QED
      BY <2>1 DEF Unrecorded
  <1>2. CallersShaped'
    <2> SUFFICES ASSUME NEW q \in Procs
                 PROVE  /\ batch'[q].due \subseteq fills'
                        /\ Working(q)' => /\ job'[q].fill \in fills'
                                          /\ job'[q].state.status = "PROCESSING"
                                          /\ job'[q].claimed.status = "PROCESSING"
                        /\ pc'[q] = "complete" => job'[q].state.done = Flags
      BY DEF CallersShaped
    <2>1. CASE q = p
      BY <2>1 DEF CallersShaped, Stays
    <2>2. CASE q # p
      BY <2>2 DEF CallersShaped, Stays, Working
    <2> QED
      BY <2>1, <2>2
  <1>3. CompletedHasFlags'
    BY DEF CompletedHasFlags, Stays
  <1> QED
    BY <1>1, <1>2, <1>3

\* A lot write leaves the lots shaped.
LEMMA LotWriteShape ==
    ASSUME ShapeInv, TypeInv', NEW p \in Procs, CloseLot(p) \/ OpenRemainder(p)
    PROVE  ShapeInv'
  <1> USE DEF ShapeInv
  <1>1. CASE CloseLot(p)
    <2>1. /\ Stays(p) /\ UNCHANGED liability
          /\ UNCHANGED lots \/ \E l \in Fills : Closes(p, l)
      BY <1>1, CloseLotEffect
    <2>2. CASE UNCHANGED lots
      BY <2>1, <2>2, StageShape DEF LotsShaped
    <2>3. ASSUME NEW l \in Fills, Closes(p, l)
          PROVE  ShapeInv'
      <3>1. job[p].take[l] \in Nat /\ lots[l].remaining \in Int
        BY JobFields, LotFields
      <3>2. LotsShaped'
        <4> SUFFICES ASSUME NEW k \in Fills
                     PROVE  /\ lots'[k].remaining >= 0
                            /\ lots'[k].opened = 0 => /\ lots'[k].remaining = 0
                                                      /\ \A g \in Fills : lots'[k].closures[g] = 0
          BY DEF LotsShaped
        <4>1. CASE k = l
          BY <2>3, <3>1, <4>1 DEF LotsShaped, Closes
        <4>2. CASE k # l
          BY <2>3, <4>2 DEF LotsShaped, Closes
        <4> QED
          BY <4>1, <4>2
      <3> QED
        BY <2>1, <2>3, <3>2, StageShape DEF Closes
    <2> QED
      BY <2>1, <2>2, <2>3
  <1>2. CASE OpenRemainder(p)
    <2>1. Stays(p) /\ (UNCHANGED <<lots, liability>> \/ Opens(p) \/ Overdraws(p))
      BY <1>2, OpenRemainderEffect
    <2>2. CASE UNCHANGED <<lots, liability>>
      BY <2>1, <2>2, StageShape DEF LotsShaped
    <2>3. CASE Opens(p)
      <3>1. job[p].rest \in Nat
        BY JobFields
      <3>2. LotsShaped'
        BY <2>3, <3>1 DEF LotsShaped, Opens
      <3> QED
        BY <2>1, <2>3, <3>2, StageShape DEF Opens
    <2>4. CASE Overdraws(p)
      BY <2>1, <2>4, StageShape DEF LotsShaped, Overdraws
    <2> QED
      BY <2>1, <2>2, <2>3, <2>4
  <1> QED
    BY <1>1, <1>2

\* Any other step of a caller: it rewrites at most the event in its hands.
LEMMA EventShape ==
    ASSUME ShapeInv, TypeInv', NEW p \in Procs, Others(p), UNCHANGED <<fills, Rows>>,
           batch'[p].due \subseteq fills,
           Working(p)' => /\ job'[p].fill \in fills /\ job'[p].state.status = "PROCESSING"
                          /\ job'[p].claimed.status = "PROCESSING",
           pc'[p] = "complete" => job'[p].state.done = Flags,
           \A g \in Fills :
              \/ events'[g] = events[g]
              \/ g \in fills /\ (events'[g].status = "COMPLETED" => events'[g].done = Flags)
    PROVE  ShapeInv'
  <1> USE DEF ShapeInv
  <1>1. LotsShaped'
    BY DEF LotsShaped, Rows
  <1>2. RecordedFirst'
    BY DEF RecordedFirst, Unrecorded, Rows
  <1>3. CallersShaped'
    <2> SUFFICES ASSUME NEW q \in Procs
                 PROVE  /\ batch'[q].due \subseteq fills'
                        /\ Working(q)' => /\ job'[q].fill \in fills'
                                          /\ job'[q].state.status = "PROCESSING"
                                          /\ job'[q].claimed.status = "PROCESSING"
                        /\ pc'[q] = "complete" => job'[q].state.done = Flags
      BY DEF CallersShaped
    <2>1. CASE q = p
      BY <2>1
    <2>2. CASE q # p
      BY <2>2 DEF CallersShaped, Others, Working
    <2> QED
      BY <2>1, <2>2
  <1>4. CompletedHasFlags'
    BY DEF CompletedHasFlags
  <1> QED
    BY <1>1, <1>2, <1>3, <1>4

\* The steps that claim, checkpoint or let go of an event keep the shape.
LEMMA CallerShape ==
    ASSUME ShapeInv, TypeInv', NEW p \in Procs,
           \/ StartBatch(p) \/ FinishBatch(p) \/ LeaseLost(p) \/ Latch(p) \/ Crash(p)
           \/ Claim(p) \/ Checkpoint(p) \/ Complete(p) \/ FailCheckpoint(p)
    PROVE  ShapeInv'
  <1> USE DEF ShapeInv
  <1>0. /\ TypeInv /\ batch[p].due \subseteq fills
        /\ Working(p) => /\ job[p].fill \in fills /\ job[p].state.status = "PROCESSING"
                         /\ job[p].claimed.status = "PROCESSING"
    BY DEF CallersShaped
  <1>1. CASE StartBatch(p) \/ FinishBatch(p) \/ LeaseLost(p) \/ Latch(p) \/ Crash(p)
    BY <1>1, BatchEffect, EventShape DEF Working
  <1>2. CASE Claim(p)
    <2>1. /\ Others(p) /\ UNCHANGED <<fills, Rows>> /\ batch'[p].due \subseteq fills
          /\ \/ pc'[p] = "batch" /\ UNCHANGED events
             \/ \E f \in fills : Takes(p, f)
      BY <1>2, ClaimEffect
    <2>2. CASE pc'[p] = "batch" /\ UNCHANGED events
      BY <2>1, <2>2, EventShape DEF Working
    <2>3. ASSUME NEW f \in fills, Takes(p, f)
          PROVE  ShapeInv'
      BY <2>1, <2>3, EventShape DEF Takes, Rewrites
    <2> QED
      BY <2>1, <2>2, <2>3
  <1>3. CASE Checkpoint(p)
    <2>1. /\ pc[p] = "checkpoint" /\ Working(p) /\ UNCHANGED <<fills, Rows, batch>>
          /\ Raised(p) \/ (SetsFlag(p) /\ Others(p))
      BY <1>3, CheckpointEffect
    <2>2. CASE Raised(p)
      BY <1>0, <2>1, <2>2, EventShape DEF Raised
    <2>3. CASE SetsFlag(p) /\ Others(p)
      <3>1. PICK e \in Event :
              /\ Rewrites(job[p].fill, e) /\ e.status = "PROCESSING"
              /\ job'[p].fill = job[p].fill /\ job'[p].claimed = job[p].claimed /\ job'[p].state = e
              /\ pc'[p] = NextStage(e.done)
        BY <1>0, <2>1, <2>3 DEF SetsFlag
      <3>2. pc'[p] = "complete" => e.done = Flags
        BY <3>1, NextStageFlag, EventFields
      <3> QED
        BY <1>0, <2>1, <2>3, <3>1, <3>2, EventShape DEF Rewrites
    <2> QED
      BY <2>1, <2>2, <2>3
  <1>4. CASE Complete(p)
    <2>1. /\ pc[p] = "complete" /\ Working(p) /\ UNCHANGED <<fills, Rows, batch>>
          /\ Raised(p) \/ (Completes(p) /\ Others(p))
      BY <1>4, CompleteEffect
    <2>2. CASE Raised(p)
      BY <1>0, <2>1, <2>2, EventShape DEF Raised
    <2>3. CASE Completes(p) /\ Others(p)
      <3>1. job[p].state.done = Flags
        BY <2>1 DEF CallersShaped
      <3>2. PICK e \in Event :
              Rewrites(job[p].fill, e) /\ e.done = Flags /\ pc'[p] = "batch"
        BY <2>3, <3>1 DEF Completes
      <3> QED
        BY <1>0, <2>1, <2>3, <3>2, EventShape DEF Rewrites, Working
    <2> QED
      BY <2>1, <2>2, <2>3
  <1>5. CASE FailCheckpoint(p)
    <2>1. /\ Working(p) /\ UNCHANGED <<fills, Rows>> /\ Others(p)
          /\ pc'[p] \in {"idle", "batch", "latch"}
          /\ batch'[p] = batch[p] \/ batch'[p].due = {}
          /\ UNCHANGED events \/ Fails(p)
      BY <1>5, FailEffect
    <2>2. batch'[p].due \subseteq fills /\ ~Working(p)' /\ pc'[p] # "complete"
      BY <1>0, <2>1 DEF Working
    <2>3. \A g \in Fills : events'[g] = events[g] \/ (g \in fills /\ events'[g].status # "COMPLETED")
      BY <1>0, <2>1 DEF Fails, Rewrites
    <2> QED
      BY <2>1, <2>2, <2>3, EventShape
  <1> QED
    BY <1>1, <1>2, <1>3, <1>4, <1>5

\* Attribution, verification and the audit keep the shape.
LEMMA TablesShape ==
    ASSUME ShapeInv, TypeInv',
           \/ \E f \in Fills : Attribute(f)
           \/ \E o \in Orders : Verification(o)
           \/ Audit \/ AuditLatch
    PROVE  ShapeInv'
  <1> USE DEF ShapeInv
  <1>1. /\ UNCHANGED <<pc, job, batch, Rows>> /\ fills \subseteq fills'
        /\ \A g \in Fills : \/ events'[g] = events[g]
                            \/ g \in fills /\ events'[g].status \in {"PENDING", "INTEGRITY_BLOCKED"}
    <2>1. \A f \in Fills \ fills : events[f].status = "absent"
      BY DEF RecordedFirst, Unrecorded
    <2> QED
      BY <2>1, TablesEffect DEF Rewrites
  <1>2. LotsShaped'
    BY <1>1 DEF LotsShaped, Rows
  <1>3. RecordedFirst'
    BY <1>1 DEF RecordedFirst, Unrecorded, Rows
  <1>4. CallersShaped'
    BY <1>1 DEF CallersShaped, Working
  <1>5. CompletedHasFlags'
    BY <1>1 DEF CompletedHasFlags
  <1> QED
    BY <1>2, <1>3, <1>4, <1>5

\* ShapeInv is inductive.
LEMMA NextShape == ShapeInv /\ [Next]_vars => ShapeInv'
  <1> SUFFICES ASSUME ShapeInv, [Next]_vars PROVE ShapeInv'
    OBVIOUS
  <1>0. TypeInv /\ TypeInv'
    BY NextType DEF ShapeInv
  <1>1. ASSUME NEW p \in Procs, Step(p) \/ LeaseLost(p) \/ Crash(p)
        PROVE  ShapeInv'
    <2>1. CASE \/ StartBatch(p) \/ FinishBatch(p) \/ LeaseLost(p) \/ Latch(p) \/ Crash(p)
               \/ Claim(p) \/ Checkpoint(p) \/ Complete(p) \/ FailCheckpoint(p)
      BY <1>0, <2>1, CallerShape
    <2>2. CASE CloseLot(p) \/ OpenRemainder(p)
      BY <1>0, <2>2, LotWriteShape
    <2>3. CASE PlanLots(p) \/ OtherStage(p)
      <3>1. Stays(p) /\ UNCHANGED <<lots, liability>>
        BY <1>0, <2>3, StageStays, PlanLotsEffect DEF Rows
      <3> QED
        BY <1>0, <3>1, StageShape DEF ShapeInv, LotsShaped
    <2> QED
      BY <1>1, <2>1, <2>2, <2>3 DEF Step, LotStage, OtherStage
  <1>2. CASE Tick
    <2>1. LotsShaped' /\ RecordedFirst'
      BY <1>0, <1>2, TickEffect DEF ShapeInv, LotsShaped, RecordedFirst, Unrecorded, Rows, SameEvent
    <2>2. CallersShaped' /\ CompletedHasFlags'
      BY <1>0, <1>2, TickEffect DEF ShapeInv, CallersShaped, CompletedHasFlags, SameEvent, Working
    <2> QED
      BY <1>0, <2>1, <2>2 DEF ShapeInv
  <1>3. CASE UNCHANGED vars
    BY <1>0, <1>3 DEF vars, books, caller, world, ShapeInv, LotsShaped, RecordedFirst, Unrecorded,
                      CallersShaped, CompletedHasFlags, Working
  <1> QED
    BY <1>0, <1>1, <1>2, <1>3, TablesShape DEF Next

\* A lot with nothing opened balances.
LEMMA UnopenedBalances ==
    ASSUME ShapeInv, NEW l \in Fills, lots[l].opened = 0
    PROVE  LotBalanced(l)
  <1>1. lots[l].closures \in [Fills -> Nat] /\ lots[l].remaining = 0
    BY LotFields DEF ShapeInv, LotsShaped
  <1>2. SumFunction(lots[l].closures) = 0
    BY <1>1, SumOfZeros, SettlementAssumption DEF SumFunction, ShapeInv, LotsShaped
  <1> QED
    BY <1>1, <1>2 DEF LotBalanced

\* A fill that is not recorded has nothing in the books.
LEMMA UnrecordedAllocates ==
    ASSUME ShapeInv, NEW f \in Fills \ fills
    PROVE  Allocated(f) = 0
  <1>1. Unrecorded(f)
    BY DEF ShapeInv, RecordedFirst
  <1>2. SumFunction(ClosedBy(f)) = 0
    BY <1>1, SumOfZeros, SettlementAssumption DEF SumFunction, ClosedBy, Unrecorded
  <1> QED
    BY <1>1, <1>2 DEF Allocated, Unrecorded

\* Without an accounting issue every lot balances and no fill is allocated
\* beyond its quantity.
LEMMA NoIssueNoDamage ==
    ASSUME ShapeInv, \A f \in Fills : ~AccountingIssue(f)
    PROVE  \A f \in Fills : LotBalanced(f) /\ ~(Allocated(f) > Qty[f])
  <1> SUFFICES ASSUME NEW f \in Fills PROVE LotBalanced(f) /\ ~(Allocated(f) > Qty[f])
    OBVIOUS
  <1>0. Qty[f] \in Nat /\ lots[f].opened \in Nat
    BY LotFields DEF ShapeInv
  <1>1. CASE f \notin fills
    BY <1>0, <1>1, UnrecordedAllocates, UnopenedBalances DEF ShapeInv, RecordedFirst, Unrecorded
  <1>2. CASE f \in fills
    <2>1. events[f].status = "COMPLETED" /\ Proven(f, events[f])
      BY <1>2 DEF AccountingIssue
    <2>2. events[f].done = Flags
      BY <2>1 DEF ShapeInv, CompletedHasFlags
    <2>3. PnlEvidence(f, events[f])
      BY <2>1, <2>2 DEF Proven, PnlProven, Flags, Trade
    <2>4. Allocated(f) = Qty[f]
      BY <2>3 DEF PnlEvidence, Allocated
    <2>5. LotBalanced(f)
      BY <1>0, <2>3, UnopenedBalances DEF PnlEvidence
    <2> QED
      BY <1>0, <2>4, <2>5
  <1> QED
    BY <1>1, <1>2

\* Whatever overlapping callers, stale leases, retries and crashes do between
\* the transactions of process_pending, no lot is ever short, and lots that do
\* not balance or fills that are allocated beyond their quantity are reported
\* by accounting_issues.
THEOREM DamageContained == Spec => []DamageIsContained
  <1>1. ShapeInv => DamageIsContained
    BY NoIssueNoDamage DEF ShapeInv, LotsShaped, DamageIsContained, NoLotOversold, DamageIsVisible
  <1> QED
    BY <1>1, InitShape, NextShape, PTL DEF Spec

-----------------------------------------------------------------------------
(* The amounts of a fill, and what leaves them alone.                      *)

\* The amounts of a fill in the books, as numbers.
LEMMA Amounts ==
    ASSUME TypeInv, NEW f \in Fills
    PROVE  /\ ClosedBy(f) \in [Fills -> Nat] /\ SumFunction(ClosedBy(f)) \in Nat
           /\ \A l \in Fills : ClosedBy(f)[l] = lots[l].closures[f]
           /\ \A l \in Fills : lots[l].closures[f] <= SumFunction(ClosedBy(f))
           /\ SumFunction(ClosedBy(f)) = 0 <=> \A l \in Fills : lots[l].closures[f] = 0
           /\ Allocated(f) \in Nat /\ Owed[f] \in Int /\ Owed[f] <= Qty[f]
           /\ Owed[f] = Qty[f] - Allocated(f)
           /\ Allocated(f) = SumFunction(ClosedBy(f)) + lots[f].opened + liability[f]
  <1>1. ClosedBy(f) \in [Fills -> Nat] /\ \A l \in Fills : ClosedBy(f)[l] = lots[l].closures[f]
    BY LotFields DEF ClosedBy
  <1>2. /\ SumFunction(ClosedBy(f)) \in Nat
        /\ \A l \in Fills : ClosedBy(f)[l] <= SumFunction(ClosedBy(f))
        /\ SumFunction(ClosedBy(f)) = 0 => \A l \in Fills : ClosedBy(f)[l] = 0
    BY <1>1, SumOfNaturals, SettlementAssumption DEF SumFunction
  <1>3. (\A l \in Fills : ClosedBy(f)[l] = 0) => SumFunction(ClosedBy(f)) = 0
    BY <1>1, SumOfZeros, SettlementAssumption DEF SumFunction
  <1>4. Allocated(f) = SumFunction(ClosedBy(f)) + lots[f].opened + liability[f]
    BY DEF Allocated
  <1>5. Allocated(f) \in Nat /\ Qty[f] \in Nat
    BY <1>2, <1>4, LotFields
  <1>6. Owed[f] = Qty[f] - Allocated(f)
    BY DEF Owed
  <1> QED
    BY <1>1, <1>2, <1>3, <1>4, <1>5, <1>6

\* The open units of the lots and the promises of the sells, as numbers.
LEMMA Units ==
    ASSUME TypeInv
    PROVE  /\ OpenUnits \in [Fills -> Int] /\ LongUnits \in Int
           /\ LongUnits = SumFunctionOnSet(OpenUnits, Fills)
           /\ \A l \in Fills : OpenUnits[l] = lots[l].remaining
           /\ SumFunctionOnSet(Owed, fills \ Buys) \in Int
           /\ IsFiniteSet(fills \ Buys) /\ fills \ Buys \subseteq Fills
           /\ \A f \in Fills : Owed[f] \in Int
  <1>1. OpenUnits \in [Fills -> Int] /\ \A l \in Fills : OpenUnits[l] = lots[l].remaining
    BY LotFields DEF OpenUnits
  <1>2. LongUnits = SumFunctionOnSet(OpenUnits, Fills)
    BY <1>1 DEF LongUnits, SumFunction
  <1>3. LongUnits \in Int
    BY <1>1, <1>2, SumType, SettlementAssumption
  <1>4. fills \ Buys \subseteq Fills /\ IsFiniteSet(fills \ Buys)
    BY FS_Subset, SettlementAssumption DEF TypeInv, TypeOK
  <1>5. \A f \in Fills : Owed[f] \in Int
    BY Amounts
  <1>6. SumFunctionOnSet(Owed, fills \ Buys) \in Int
    BY <1>4, <1>5, SumType
  <1> QED
    BY <1>1, <1>2, <1>3, <1>4, <1>5, <1>6

\* The books of fill g are left alone.
Kept(g) ==
    /\ lots'[g].opened = lots[g].opened /\ liability'[g] = liability[g]
    /\ \A l \in Fills : lots'[l].closures[g] = lots[l].closures[g]

\* What is left alone keeps its amounts.
LEMMA KeptAmounts ==
    ASSUME NEW g \in Fills, Kept(g)
    PROVE  ClosedBy(g)' = ClosedBy(g) /\ Allocated(g)' = Allocated(g) /\ Owed'[g] = Owed[g]
  <1>1. ClosedBy(g)' = ClosedBy(g)
    BY DEF Kept, ClosedBy
  <1>2. Allocated(g)' = Allocated(g)
    BY <1>1 DEF Kept, Allocated
  <1>3. Owed'[g] = Qty[g] - Allocated(g)' /\ Owed[g] = Qty[g] - Allocated(g)
    BY DEF Owed
  <1> QED
    BY <1>1, <1>2, <1>3

\* Without a lot or liability write every amount stays.
LEMMA LotsKept ==
    ASSUME UNCHANGED <<lots, liability>>
    PROVE  /\ Owed' = Owed /\ OpenUnits' = OpenUnits /\ LongUnits' = LongUnits
           /\ \A g \in Fills : /\ Kept(g) /\ Owed'[g] = Owed[g] /\ ClosedBy(g)' = ClosedBy(g)
                               /\ Allocated(g)' = Allocated(g)
  <1>1. \A g \in Fills : Kept(g)
    BY DEF Kept
  <1>2. \A g \in Fills : Owed'[g] = Owed[g] /\ ClosedBy(g)' = ClosedBy(g) /\ Allocated(g)' = Allocated(g)
    BY <1>1, KeptAmounts
  <1>3. Owed' = Owed
    <2>1. Owed = [f \in Fills |-> Qty[f] - Allocated(f)] /\ Owed' = [f \in Fills |-> Qty[f] - Allocated(f)']
      BY DEF Owed
    <2> QED
      BY <1>2, <2>1
  <1>4. OpenUnits' = OpenUnits
    BY DEF OpenUnits
  <1>5. LongUnits' = LongUnits
    BY <1>4 DEF LongUnits
  <1> QED
    BY <1>1, <1>2, <1>3, <1>4, <1>5

\* What is promised stays promised while the rows of the fill stay.
LEMMA BackedKept ==
    ASSUME NEW g \in Fills, NEW n, NEW r, Backed(g, n, r), Kept(g), cash \subseteq cash',
           n >= Attribution => \A l \in Fills : attribution'[l][g] = attribution[l][g],
           n >= Trade => \A l \in Fills : pnl'[l][g] = pnl[l][g]
    PROVE  Backed(g, n, r)'
  <1>1. Owed'[g] = Owed[g] /\ ClosedBy(g)' = ClosedBy(g)
    BY KeptAmounts
  <1>2. (n >= Lot => Owed[g] = 0 /\ r = ClosedBy(g))'
    BY <1>1 DEF Backed
  <1>3. (n >= Attribution => \A l \in Fills : attribution[l][g] = lots[l].closures[g])'
    BY DEF Backed, Kept
  <1>4. (n >= Cash => g \in cash)'
    BY DEF Backed
  <1>5. (n >= Trade => \A l \in Fills : lots[l].closures[g] > 0 => pnl[l][g] = lots[l].closures[g])'
    BY DEF Backed, Kept
  <1> QED
    BY <1>2, <1>3, <1>4, <1>5 DEF Backed

\* A step that writes none of these rows keeps the books as they are.
Ledgers == <<lots, liability, attribution, cash, pnl>>

\* What is backed stays backed when no row is written.
LEMMA QuietBacked ==
    ASSUME UNCHANGED Ledgers, NEW g \in Fills, NEW n, NEW r, Backed(g, n, r)
    PROVE  Backed(g, n, r)'
  <1>1. Kept(g)
    BY DEF Kept, Ledgers
  <1> QED
    BY <1>1, BackedKept DEF Ledgers

\* The books stay in order when no row is written.
LEMMA QuietBooks ==
    ASSUME BooksOK, UNCHANGED <<Ledgers, fills>>
    PROVE  BooksOK'
  <1>1. /\ Owed' = Owed /\ LongUnits' = LongUnits
        /\ \A g \in Fills : Owed'[g] = Owed[g] /\ Allocated(g)' = Allocated(g)
    BY LotsKept DEF Ledgers
  <1>2. LotConservation'
    BY DEF BooksOK, LotConservation, LotBalanced, Ledgers
  <1>3. Sided'
    BY DEF BooksOK, Sided, Ledgers
  <1>4. Exhausted'
    BY <1>1 DEF BooksOK, Exhausted, Ledgers
  <1>5. Promised'
    BY <1>1 DEF BooksOK, Promised
  <1>6. Attributed'
    BY <1>1 DEF BooksOK, Attributed, Ledgers
  <1> QED
    BY <1>1, <1>2, <1>3, <1>4, <1>5, <1>6 DEF BooksOK

-----------------------------------------------------------------------------
(* A step inside a stage.                                                  *)

\* The rows of fill g are left alone.
Untouched(g) ==
    /\ Kept(g)
    /\ \A l \in Fills : attribution'[l][g] = attribution[l][g] /\ pnl'[l][g] = pnl[l][g]

\* An open lot stays one, and does not grow.
Shrinks ==
    \A l \in Fills : lots[l].opened > 0 => lots'[l].opened > 0 /\ lots'[l].remaining <= lots[l].remaining

\* No row written, every fill untouched.
LEMMA QuietRows ==
    ASSUME TypeInv, UNCHANGED Ledgers
    PROVE  Shrinks /\ cash \subseteq cash' /\ \A g \in Fills : Untouched(g)
  <1>1. Shrinks
    <2>1. \A l \in Fills : lots[l].remaining \in Int /\ lots[l].remaining <= lots[l].remaining
      BY LotFields
    <2> QED
      BY <2>1 DEF Shrinks, Ledgers
  <1> QED
    BY <1>1 DEF Untouched, Kept, Ledgers

\* What a caller knows stays true while its job, its event and the rows of its
\* fill do: other fills may take units out of the open lots, so that a plan
\* must not rely on more of them than CloseLot checks again.
LEMMA SameJob ==
    ASSUME TypeInv, TypeInv', NEW p \in Procs, Working(p), JobBacked(p), pc'[p] = pc[p],
           Untouched(job[p].fill), Shrinks, cash \subseteq cash',
           job'[p].fill = job[p].fill, job'[p].take = job[p].take, job'[p].rest = job[p].rest,
           SameEvent(job'[p].claimed, job[p].claimed), SameEvent(job'[p].state, job[p].state),
           SameEvent(events'[job[p].fill], events[job[p].fill])
    PROVE  JobBacked(p)'
  <1>1. PICK f \in Fills, n \in 0 .. Flags, r \in {job[p].state.realized} :
            f = job[p].fill /\ n = job[p].state.done /\ r = job[p].state.realized
    BY JobFields
  <1>2. PICK m \in 0 .. Flags, s \in {job[p].claimed.realized} : m = job[p].claimed.done /\ s = job[p].claimed.realized
    BY JobFields
  <1>3. /\ Kept(f) /\ Owed'[f] = Owed[f]
        /\ \A l \in Fills : attribution'[l][f] = attribution[l][f] /\ pnl'[l][f] = pnl[l][f]
    BY <1>1, KeptAmounts DEF Untouched
  <1>4. ASSUME NEW i, NEW c, Backed(f, i, c)
        PROVE  Backed(f, i, c)'
    BY <1>3, <1>4, BackedKept
  <1>5. /\ Backed(f, n, r)' /\ Backed(f, m, s)'
        /\ Backed(f, n + 1, r) => Backed(f, n + 1, r)'
    BY <1>1, <1>2, <1>4 DEF JobBacked
  <1>6. /\ job'[p].fill = f /\ job'[p].state.done = n /\ job'[p].state.realized = r
        /\ job'[p].claimed.done = m /\ job'[p].claimed.realized = s
    BY <1>1, <1>2 DEF SameEvent
  <1>7. PlanFits(p) => PlanFits(p)'
    <2>1. PICK t \in [Fills -> Nat], k \in Nat : t = job[p].take /\ k = job[p].rest
      BY JobFields
    <2>2. PlanFits(p) <=>
            /\ SumFunction(t) + k = Owed[f]
            /\ \A l \in Fills :
                  /\ t[l] > 0 => f \notin Buys /\ lots[l].closures[f] = 0 /\ lots[l].opened > 0
                  /\ \A h \in Fills : t[l] > 0 /\ t[h] > 0 /\ Rank[h] < Rank[l] => t[h] >= lots[h].remaining
                  /\ r[l] = lots[l].closures[f] + t[l]
            /\ f \notin Buys => k = 0
            /\ pc[p] = "open" => k > 0 /\ \A l \in Fills : t[l] = 0
      BY <1>1, <2>1 DEF PlanFits
    <2>3. PlanFits(p)' <=>
            /\ SumFunction(t) + k = Owed'[f]
            /\ \A l \in Fills :
                  /\ t[l] > 0 => f \notin Buys /\ lots'[l].closures[f] = 0 /\ lots'[l].opened > 0
                  /\ \A h \in Fills : t[l] > 0 /\ t[h] > 0 /\ Rank[h] < Rank[l] => t[h] >= lots'[h].remaining
                  /\ r[l] = lots'[l].closures[f] + t[l]
            /\ f \notin Buys => k = 0
            /\ pc'[p] = "open" => k > 0 /\ \A l \in Fills : t[l] = 0
      BY <1>6, <2>1 DEF PlanFits
    <2>4. \A l \in Fills : lots'[l].closures[f] = lots[l].closures[f]
      BY <1>3 DEF Kept
    <2>5. \A l \in Fills : lots[l].opened > 0 =>
              /\ lots'[l].opened > 0 /\ lots[l].remaining \in Int /\ lots'[l].remaining <= lots[l].remaining
              /\ lots'[l].remaining \in Int
      BY LotFields DEF Shrinks, TypeInv, TypeOK, LotRow
    <2> QED
      BY <1>3, <2>2, <2>3, <2>4, <2>5
  <1>8. AtStage(p)'
    BY <1>1, <1>5, <1>6, <1>7 DEF AtStage, JobBacked
  <1> QED
    BY <1>1, <1>2, <1>5, <1>6, <1>8 DEF JobBacked, SameEvent

\* Callers other than p do not notice a step of p on its own fill: by
\* ExclusiveClaim their fills are others.
LEMMA OtherCallers ==
    ASSUME BooksInv, ShapeInv', NEW p \in Procs, NEW q \in Procs, q # p, Working(q)',
           pc'[q] = pc[q], job'[q] = job[q], events'[job[q].fill] = events[job[q].fill],
           Untouched(job[q].fill), Shrinks, cash \subseteq cash'
    PROVE  JobBacked(q)'
  <1>1. Working(q) /\ JobBacked(q) /\ TypeInv /\ TypeInv'
    BY DEF Working, BooksInv, JobsBacked, ShapeInv
  <1> QED
    BY <1>1, SameJob DEF SameEvent

\* A stage keeps BooksInv when it keeps the books in order, its own fill's flags
\* backed, and the rows of other fills.
LEMMA StageBooks ==
    ASSUME Orderly, BooksInv, ShapeInv', Exclusive', NEW p \in Procs, Stays(p), BooksOK', Shrinks,
           \A g \in Fills : g # job[p].fill => Untouched(g),
           cash \subseteq cash',
           Backed(job[p].fill, events[job[p].fill].done, events[job[p].fill].realized)',
           Backed(job[p].fill, job[p].state.done, job[p].state.realized)',
           Backed(job[p].fill, job[p].claimed.done, job[p].claimed.realized)',
           AtStage(p)'
    PROVE  BooksInv'
  <1> DEFINE f == job[p].fill
  <1>1. /\ UNCHANGED events /\ job'[p].fill = f /\ job'[p].claimed = job[p].claimed
        /\ job'[p].state.done = job[p].state.done /\ Working(p) /\ f \in Fills
    BY JobFields DEF Stays, BooksInv, ShapeInv
  <1>2. EventsBacked'
    <2> SUFFICES ASSUME NEW g \in Fills PROVE Backed(g, events[g].done, events[g].realized)'
      BY DEF EventsBacked
    <2>1. CASE g = f
      BY <1>1, <2>1
    <2>2. CASE g # f
      <3>1. Backed(g, events[g].done, events[g].realized)
        BY DEF BooksInv, EventsBacked
      <3> QED
        BY <1>1, <2>2, <3>1, BackedKept DEF Untouched
    <2> QED
      BY <2>1, <2>2
  <1>3. JobsBacked'
    <2>1. JobBacked(p)
      BY <1>1 DEF BooksInv, JobsBacked
    <2>2. JobBacked(p)'
      BY <1>1, <2>1 DEF JobBacked
    <2>3. ASSUME NEW q \in Procs, q # p, Working(q)'
          PROVE  JobBacked(q)'
      <3>1. pc'[q] = pc[q] /\ job'[q] = job[q] /\ Working(q)
        BY <2>3 DEF Stays, Working
      <3>2. job[q].fill # f
        BY <1>1, <2>3, <3>1 DEF BooksInv, Exclusive, ExclusiveClaim
      <3>3. job[q].fill \in Fills
        BY <3>1, JobFields DEF BooksInv, ShapeInv
      <3> QED
        BY <1>1, <2>3, <3>1, <3>2, <3>3, OtherCallers
    <2> QED
      BY <2>2, <2>3 DEF JobsBacked
  <1> QED
    BY <1>2, <1>3 DEF BooksInv

\* A step inside a stage that writes nothing the flags stand for.
LEMMA QuietStage ==
    ASSUME Orderly, BooksInv, ShapeInv', Exclusive', NEW p \in Procs, Stays(p), UNCHANGED Rows,
           job'[p].state = job[p].state,
           pc'[p] \notin {"close", "open"}, AtStage(p)'
    PROVE  BooksInv'
  <1> DEFINE f == job[p].fill
  <1>0. /\ UNCHANGED <<events, fills>> /\ job'[p].fill = f /\ job'[p].claimed = job[p].claimed
        /\ Working(p) /\ f \in Fills /\ UNCHANGED Ledgers /\ JobBacked(p)
    BY JobFields DEF Stays, BooksInv, ShapeInv, JobsBacked, Rows, Ledgers
  <1>1. BooksOK'
    BY <1>0, QuietBooks DEF BooksInv
  <1>3. Backed(f, events[f].done, events[f].realized)'
    <2>1. Backed(f, events[f].done, events[f].realized)
      BY <1>0 DEF BooksInv, EventsBacked
    <2> QED
      BY <1>0, <2>1, QuietBacked
  <1>4. Backed(f, job[p].state.done, job[p].state.realized)' /\ Backed(f, job[p].claimed.done, job[p].claimed.realized)'
    <2>1. Backed(f, job[p].state.done, job[p].state.realized) /\ Backed(f, job[p].claimed.done, job[p].claimed.realized)
      BY <1>0 DEF JobBacked
    <2> QED
      BY <1>0, <2>1, QuietBacked
  <1>5. Shrinks /\ cash \subseteq cash' /\ \A g \in Fills : Untouched(g)
    BY <1>0, QuietRows DEF BooksInv, ShapeInv
  <1> QED
    BY <1>0, <1>1, <1>3, <1>4, <1>5, StageBooks

\* An exception inside a stage keeps the books.
LEMMA RaiseBooks ==
    ASSUME Orderly, BooksInv, ShapeInv', Exclusive', NEW p \in Procs, Stays(p), UNCHANGED <<job, Rows>>,
           pc'[p] = "fail"
    PROVE  BooksInv'
  BY QuietStage DEF AtStage, Stages

\* Every stage but the row writes: reading, checking, latching, holding.
LEMMA ReadingBooks ==
    ASSUME Orderly, BooksInv, ShapeInv', Exclusive', NEW p \in Procs,
           \/ PreCheck(p) \/ ReadLots(p) \/ ReadHoldingRow(p) \/ ReadTrade(p) \/ WriteTrade(p)
           \/ LaterStages(p)
    PROVE  BooksInv'
  <1> DEFINE f == job[p].fill
             n == job[p].state.done
  <1>0. /\ TypeInv /\ OtherStage(p) /\ Working(p) /\ UNCHANGED Rows
        /\ pc \in [Procs -> PCs] /\ n \in 0 .. Flags /\ f \in Fills
        /\ job[p] \in Job /\ job \in [Procs -> Job]
    <2>1. OtherStage(p) /\ Working(p) /\ UNCHANGED Rows
      BY DEF OtherStage, HoldingStage, TradeStage, Working, Rows, books, PreCheck, ReadLots, ReadHoldingRow,
             ReadTrade, WriteTrade, LaterStages, VerifyLots, VerifyHolding, LatchLiability, HoldOrder
    <2> QED
      BY <2>1, JobFields DEF BooksInv, ShapeInv, TypeInv, TypeOK
  <1>1. /\ Stays(p) /\ JobBacked(p) /\ UNCHANGED <<lots, liability, events, fills>> /\ job'[p].fill = f
        /\ UNCHANGED Ledgers
    BY <1>0, StageStays DEF Stays, BooksInv, JobsBacked, Rows, Ledgers
  <1>2. AtStage(p)
    BY <1>1 DEF JobBacked
  <1>3. CASE UNCHANGED job /\ pc'[p] = "fail"
    BY <1>0, <1>1, <1>3, RaiseBooks
  <1>4. CASE PreCheck(p)
    <2>1. CASE Raise(p, HoldFailure(f))
      BY <1>0, <1>3, <1>4, <2>1 DEF PreCheck, Raise, Goto
    <2>2. CASE Goto(p, NextStage(n))
      <3>1. pc'[p] = NextStage(n) /\ UNCHANGED job
        BY <1>0, <1>4, <2>2 DEF PreCheck, Goto
      <3>2. AtStage(p)' /\ pc'[p] \notin {"close", "open"}
        BY <1>0, <3>1, NextStageFlag DEF AtStage, Stages
      <3> QED
        BY <1>0, <1>1, <3>1, <3>2, QuietStage
    <2> QED
      BY <1>4, <2>1, <2>2 DEF PreCheck
  <1>5. CASE ReadLots(p)
    <2>1. /\ job' = [job EXCEPT ![p].view = [job[p].view EXCEPT !.units = OpenUnits]]
          /\ Goto(p, "holdingRow") /\ UNCHANGED <<fills, events, batch>> /\ pc[p] = "holding"
      BY <1>5 DEF ReadLots
    <2>2. pc'[p] = "holdingRow" /\ job'[p].state = job[p].state
      BY <1>0, <2>1, ViewStays
    <2>3. n + 1 = Holding
      BY <1>2, <2>1 DEF AtStage, Stages, FlagAt
    <2>4. AtStage(p)'
      BY <2>2, <2>3 DEF AtStage, Stages, FlagAt
    <2> QED
      BY <1>0, <1>1, <2>2, <2>4, QuietStage
  <1>6. CASE ReadHoldingRow(p)
    <2>1. /\ job' = [job EXCEPT ![p].view = [job[p].view EXCEPT !.row = holding > 0]]
          /\ UNCHANGED <<fills, events, batch>> /\ pc[p] = "holdingRow"
          /\ \E l \in {"checkpoint", "writeHolding"} : Goto(p, l)
      BY <1>6 DEF ReadHoldingRow
    <2>2. n + 1 = Holding
      BY <1>2, <2>1 DEF AtStage, Stages, FlagAt
    <2>3. pc'[p] \in {"checkpoint", "writeHolding"} /\ job'[p].state = job[p].state
      BY <1>0, <2>1, ViewStays
    <2>4. CASE pc'[p] = "checkpoint"
      <3>1. Backed(f, n, job[p].state.realized)
        BY <1>1 DEF JobBacked
      <3>2. Backed(f, n + 1, job[p].state.realized)
        BY <1>0, <2>2, <3>1 DEF Backed, Holding, Trade, Cash, Attribution, Lot
      <3>3. Backed(f, n + 1, job[p].state.realized)'
        BY <1>0, <1>1, <2>3, <3>2, QuietBacked
      <3>4. AtStage(p)'
        BY <1>1, <2>3, <2>4, <3>3 DEF AtStage, Stages
      <3> QED
        BY <1>0, <1>1, <2>3, <2>4, <3>4, QuietStage
    <2>5. CASE pc'[p] = "writeHolding"
      <3>1. AtStage(p)'
        BY <2>2, <2>3, <2>5 DEF AtStage, Stages, FlagAt
      <3> QED
        BY <1>0, <1>1, <2>3, <2>5, <3>1, QuietStage
    <2> QED
      BY <2>3, <2>4, <2>5
  <1>7. CASE ReadTrade(p)
    <2>1. /\ job' = [job EXCEPT ![p].view = [job[p].view EXCEPT !.trade = TradeOf(OrderOf[f])]]
          /\ Goto(p, "writeTrade") /\ UNCHANGED <<fills, events, batch>> /\ pc[p] = "readTrade"
      BY <1>7 DEF ReadTrade
    <2>2. pc'[p] = "writeTrade" /\ job'[p].state = job[p].state
      BY <1>0, <2>1, ViewStays
    <2>3. n + 1 = Trade /\ Backed(f, n + 1, job[p].state.realized)
      BY <1>2, <2>1 DEF AtStage, Stages, FlagAt
    <2>4. Backed(f, n + 1, job[p].state.realized)'
      BY <1>0, <1>1, <2>2, <2>3, QuietBacked
    <2>5. AtStage(p)'
      BY <1>1, <2>2, <2>3, <2>4 DEF AtStage, Stages, FlagAt
    <2> QED
      BY <1>0, <1>1, <2>2, <2>5, QuietStage
  <1>8. ASSUME UNCHANGED job, pc'[p] = "checkpoint",
               Backed(f, n + 1, job[p].state.realized)
        PROVE  BooksInv'
    <2>1. Backed(f, n + 1, job[p].state.realized)'
      BY <1>0, <1>1, <1>8, QuietBacked
    <2>2. AtStage(p)'
      BY <1>1, <1>8, <2>1 DEF AtStage, Stages
    <2> QED
      BY <1>0, <1>1, <1>8, <2>2, QuietStage
  <1>9. CASE WriteTrade(p)
    <2>1. n + 1 = Trade /\ Backed(f, n + 1, job[p].state.realized)
      BY <1>2, <1>9 DEF WriteTrade, AtStage, Stages, FlagAt
    <2>2. UNCHANGED job /\ (pc'[p] = "fail" \/ pc'[p] = "checkpoint")
      BY <1>0, <1>9 DEF WriteTrade, Raise, Goto
    <2> QED
      BY <1>3, <1>8, <2>1, <2>2
  <1>10. CASE LaterStages(p)
    <2>1. n >= Trade
      BY <1>0, <1>2, <1>10 DEF LaterStages, VerifyLots, VerifyHolding, LatchLiability, HoldOrder, AtStage,
                               Stages, FlagAt, Trade, Verified, Flags
    <2>2. Backed(f, n, job[p].state.realized)
      BY <1>1 DEF JobBacked
    <2>3. Backed(f, n + 1, job[p].state.realized)
      BY <1>0, <2>1, <2>2 DEF Backed, Holding, Trade, Cash, Attribution, Lot
    <2>4. CASE VerifyLots(p) /\ job' = [job EXCEPT ![p].view.units = OpenUnits] /\ Goto(p, "verifyHolding")
      <3>1. job' = [job EXCEPT ![p].view = [job[p].view EXCEPT !.units = OpenUnits]]
        BY <2>4
      <3>2. UNCHANGED <<fills, events, batch>> /\ pc[p] = "verify" /\ Goto(p, "verifyHolding")
        BY <2>4 DEF VerifyLots
      <3>3. pc'[p] = "verifyHolding" /\ job'[p].state = job[p].state
        BY <1>0, <3>1, <3>2, ViewStays
      <3>4. AtStage(p)'
        BY <1>2, <3>2, <3>3 DEF AtStage, Stages, FlagAt
      <3> QED
        BY <1>0, <1>1, <3>3, <3>4, QuietStage
    <2>5. CASE LatchLiability(p) /\ Goto(p, "holdOrder")
      <3>1. pc[p] = "liability" /\ pc'[p] = "holdOrder" /\ UNCHANGED job
        BY <1>0, <2>5 DEF LatchLiability, Goto
      <3>2. AtStage(p)'
        BY <1>2, <3>1 DEF AtStage, Stages, FlagAt
      <3> QED
        BY <1>0, <1>1, <3>1, <3>2, QuietStage
    <2>6. \/ VerifyLots(p) /\ job' = [job EXCEPT ![p].view.units = OpenUnits] /\ Goto(p, "verifyHolding")
          \/ LatchLiability(p) /\ Goto(p, "holdOrder")
          \/ UNCHANGED job /\ (pc'[p] = "fail" \/ pc'[p] = "checkpoint")
      BY <1>0, <1>10 DEF LaterStages, VerifyLots, VerifyHolding, LatchLiability, HoldOrder, Raise, Goto
    <2> QED
      BY <1>3, <1>8, <2>3, <2>4, <2>5, <2>6
  <1> QED
    BY <1>4, <1>5, <1>6, <1>7, <1>9, <1>10

-----------------------------------------------------------------------------
(* Stage 1: what project_lot plans fits, and every closure keeps it so.    *)

\* A plan whose takes are all zero and that leaves no rest finds nothing owed.
LEMMA PlanOfNothing ==
    ASSUME NEW t \in [Fills -> Nat], \A l \in Fills : ~(t[l] > 0)
    PROVE  SumFunction(t) = 0
  <1>1. \A l \in Fills : t[l] = 0
    OBVIOUS
  <1> QED
    BY <1>1, SumOfZeros, SettlementAssumption DEF SumFunction

\* The plan and what it takes, as sums.
LEMMA TakeSum ==
    ASSUME NEW t \in [Fills -> Nat]
    PROVE  SumFunction(t) \in Nat /\ (\A l \in Fills : t[l] <= SumFunction(t))
           /\ SumFunction(t) = SumFunctionOnSet(t, Fills)
           /\ (SumFunction(t) > 0 => \E l \in Fills : t[l] > 0)
  <1>1. SumFunction(t) = SumFunctionOnSet(t, Fills)
    BY DEF SumFunction
  <1>2. SumFunction(t) \in Nat /\ \A l \in Fills : t[l] <= SumFunction(t)
    BY <1>1, SumOfNaturals, SettlementAssumption
  <1>3. (\A l \in Fills : ~(t[l] > 0)) => SumFunction(t) = 0
    BY PlanOfNothing
  <1> QED
    BY <1>1, <1>2, <1>3

\* A sell never needs more than the open lots have.
LEMMA SellFits ==
    ASSUME BooksInv, NEW f \in fills, f \notin Buys
    PROVE  Owed[f] <= LongUnits
  <1>0. TypeInv /\ f \in Fills /\ BooksOK
    BY DEF BooksInv, ShapeInv, TypeInv, TypeOK
  <1>1. \A g \in fills \ Buys : Owed[g] \in Nat
    <2>1. \A g \in Fills : Owed[g] \in Int /\ Owed[g] >= 0
      BY <1>0, Units DEF BooksOK
    <2> QED
      BY <1>0, <2>1, Units
  <1>2. Owed[f] <= SumFunctionOnSet(Owed, fills \ Buys)
    BY <1>0, <1>1, Units, SumOfNaturals
  <1> QED
    BY <1>0, <1>1, <1>2, Units DEF BooksOK, Promised

\* The plan project_lot makes for a fill, from the lots it reads.
LEMMA PlanIsFit ==
    ASSUME Orderly, BooksInv, NEW f \in fills,
           NEW t \in [Fills -> Nat], NEW r \in Nat,
           IsFifoTake(ClosableUnits(f), Rank, Qty[f] - Spent(ClosedBy(f), lots[f].opened), t),
           Spent(ClosedBy(f), lots[f].opened) + SumFunction(t) + r = Qty[f]
    PROVE  /\ SumFunction(t) + r = Owed[f]
           /\ \A l \in Fills :
                 /\ t[l] > 0 => f \notin Buys /\ lots[l].closures[f] = 0 /\ lots[l].opened > 0
                 /\ \A k \in Fills : t[l] > 0 /\ t[k] > 0 /\ Rank[k] < Rank[l] => t[k] >= lots[k].remaining
           /\ f \notin Buys => r = 0
  <1>0. TypeInv /\ f \in Fills /\ BooksOK /\ LotsShaped
    BY DEF BooksInv, ShapeInv, TypeInv, TypeOK
  <1> DEFINE c == ClosableUnits(f)
             need == Qty[f] - Spent(ClosedBy(f), lots[f].opened)
  <1>1. /\ need = Owed[f] /\ Owed[f] \in Int /\ SumFunction(t) \in Nat
        /\ SumFunction(t) + r = Owed[f]
    <2>1. /\ liability[f] = 0 /\ lots[f].opened \in Nat /\ Qty[f] \in Nat /\ SumFunction(t) \in Nat
          /\ SumFunction(ClosedBy(f)) \in Nat
      BY <1>0, Amounts, TakeSum, LotFields DEF BooksOK, Sided
    <2>2. Owed[f] = Qty[f] - (SumFunction(ClosedBy(f)) + lots[f].opened + liability[f])
      BY <1>0, Amounts
    <2>3. Spent(ClosedBy(f), lots[f].opened) = SumFunction(ClosedBy(f)) + lots[f].opened
      BY DEF Spent
    <2> QED
      BY <2>1, <2>2, <2>3
  <1>2. /\ DOMAIN c = Fills
        /\ \A l \in Fills : c[l] = IF f \in Buys THEN 0 ELSE lots[l].remaining
    BY DEF ClosableUnits
  <1>3. /\ \A l \in Fills : t[l] \in 0 .. c[l]
        /\ \A l, k \in Fills : t[l] > 0 /\ Rank[k] < Rank[l] => t[k] = c[k]
        /\ SumFunction(t) = Lesser(need, SumFunction(c))
    BY <1>2 DEF IsFifoTake
  <1> HIDE DEF c, need
  <1>4. ASSUME NEW l \in Fills
        PROVE  /\ t[l] > 0 => f \notin Buys /\ lots[l].closures[f] = 0 /\ lots[l].opened > 0
               /\ \A k \in Fills : t[l] > 0 /\ t[k] > 0 /\ Rank[k] < Rank[l] => t[k] >= lots[k].remaining
    <2>1. /\ lots[l].remaining \in Int /\ lots[l].remaining >= 0 /\ t[l] \in Nat /\ t[l] <= SumFunction(t)
          /\ lots[l].closures[f] \in Nat
      BY <1>0, LotFields, TakeSum DEF LotsShaped
    <2>2. t[l] <= c[l] /\ t[l] <= lots[l].remaining
      BY <1>2, <1>3, <2>1
    <2>3. ASSUME t[l] > 0
          PROVE  f \notin Buys /\ lots[l].closures[f] = 0 /\ lots[l].opened > 0
      <3>1. f \notin Buys
        BY <1>2, <2>2, <2>3
      <3>2. Owed[f] > 0
        BY <1>1, <2>1, <2>3
      <3>3. lots[l].closures[f] > 0 => lots[l].remaining = 0
        BY <1>0, <3>2 DEF BooksOK, Exhausted
      <3>4. lots[l].opened > 0
        BY <1>0, <2>1, <2>2, <2>3, LotFields DEF LotsShaped
      <3> QED
        BY <2>1, <2>2, <2>3, <3>1, <3>3, <3>4
    <2>4. ASSUME NEW k \in Fills, t[l] > 0, Rank[k] < Rank[l]
          PROVE  t[k] >= lots[k].remaining
      BY <1>0, <1>2, <1>3, <2>3, <2>4, LotFields
    <2> QED
      BY <2>2, <2>3, <2>4
  <1>5. ASSUME f \notin Buys
        PROVE  r = 0
    <2>1. SumFunction(c) = LongUnits
      <3>1. c = OpenUnits
        BY <1>5 DEF c, ClosableUnits, OpenUnits
      <3> QED
        BY <3>1 DEF LongUnits
    <2>2. Owed[f] <= LongUnits /\ LongUnits \in Int
      BY <1>0, <1>5, SellFits, Units
    <2>3. SumFunction(t) = need
      BY <1>1, <1>3, <2>1, <2>2 DEF Lesser
    <2> QED
      BY <1>1, <2>3
  <1> QED
    BY <1>1, <1>4, <1>5

\* Planning keeps the books: the plan fits the lots it was made from.
LEMMA PlanBooks ==
    ASSUME Orderly, BooksInv, ShapeInv', Exclusive', NEW p \in Procs, PlanLots(p)
    PROVE  BooksInv'
  <1> DEFINE f == job[p].fill
             t == job'[p].take
             r == job'[p].rest
             c == job'[p].state.realized
  <1>0. /\ TypeInv /\ TypeInv' /\ Stays(p) /\ pc[p] = "lot" /\ UNCHANGED Rows
        /\ (UNCHANGED job /\ pc'[p] = "fail") \/ Plans(p)
    BY PlanLotsEffect DEF BooksInv, ShapeInv
  <1>1. CASE UNCHANGED job /\ pc'[p] = "fail"
    BY <1>0, <1>1, RaiseBooks
  <1>2. CASE Plans(p)
    <2>1. /\ JobBacked(p) /\ f \in fills /\ f \in Fills /\ job'[p].fill = f
          /\ UNCHANGED <<events, fills, Ledgers>>
      BY <1>0 DEF Stays, BooksInv, JobsBacked, ShapeInv, CallersShaped, Rows, Ledgers, TypeInv, TypeOK
    <2>2. job[p].state.done = 0 /\ job[p].claimed.done = 0
      BY <1>0, <2>1, JobFields DEF JobBacked, AtStage, Stages, FlagAt, Lot
    <2>3. /\ t \in [Fills -> Nat] /\ r \in Nat /\ pc'[p] = LotStep(t, r)
          /\ c = [l \in Fills |-> ClosedBy(f)[l] + t[l]]
          /\ SumFunction(t) + r = Owed[f]
          /\ \A l \in Fills :
                 /\ t[l] > 0 => f \notin Buys /\ lots[l].closures[f] = 0 /\ lots[l].opened > 0
                 /\ \A k \in Fills : t[l] > 0 /\ t[k] > 0 /\ Rank[k] < Rank[l] => t[k] >= lots[k].remaining
          /\ f \notin Buys => r = 0
      BY <1>2, <2>1, PlanIsFit DEF Plans
    <2>4. \A l \in Fills : c[l] = lots[l].closures[f] + t[l]
      BY <1>0, <2>1, <2>3, Amounts
    <2>5. job'[p].state.done = 0 /\ job'[p].claimed.done = 0
      BY <1>0, <2>2 DEF Stays
    <2>6. Owed' = Owed /\ ClosedBy(f)' = ClosedBy(f) /\ Owed[f] \in Int
      BY <1>0, <2>1, LotsKept, Amounts DEF Ledgers
    <2> HIDE DEF t, r, c
    <2>7. AtStage(p)'
      <3>1. CASE \E l \in Fills : t[l] > 0
        <4>1. pc'[p] = "close"
          BY <2>3, <3>1 DEF LotStep
        <4>2. PlanFits(p)'
          BY <2>1, <2>3, <2>4, <2>6, <4>1 DEF PlanFits, Ledgers, t, r, c
        <4> QED
          BY <2>5, <4>1, <4>2 DEF AtStage, Stages, FlagAt, Lot
      <3>2. CASE ~(\E l \in Fills : t[l] > 0) /\ r > 0
        <4>1. pc'[p] = "open" /\ \A l \in Fills : t[l] = 0
          BY <2>3, <3>2 DEF LotStep
        <4>2. PlanFits(p)'
          BY <2>1, <2>3, <2>4, <2>6, <3>2, <4>1 DEF PlanFits, Ledgers, t, r, c
        <4> QED
          BY <2>5, <4>1, <4>2 DEF AtStage, Stages, FlagAt, Lot
      <3>3. CASE ~(\E l \in Fills : t[l] > 0) /\ ~(r > 0)
        <4>1. pc'[p] = "checkpoint" /\ \A l \in Fills : t[l] = 0
          BY <2>3, <3>3 DEF LotStep
        <4>2. Owed[f] = 0
          BY <2>3, <3>3, PlanOfNothing
        <4>3. c = ClosedBy(f)
          <5>1. \A l \in Fills : ClosedBy(f)[l] + t[l] = ClosedBy(f)[l]
            BY <1>0, <2>1, <4>1, Amounts
          <5>2. ClosedBy(f) = [l \in Fills |-> ClosedBy(f)[l]]
            BY DEF ClosedBy
          <5> QED
            BY <2>3, <5>1, <5>2
        <4>4. Owed'[f] = 0 /\ job'[p].state.realized = ClosedBy(f)' /\ job'[p].fill = f /\ job'[p].state.done + 1 = 1
          BY <2>1, <2>5, <2>6, <4>2, <4>3 DEF c
        <4>5. Backed(job[p].fill, job[p].state.done + 1, job[p].state.realized)'
          BY <4>4 DEF Backed, Lot, Attribution, Cash, Trade
        <4> QED
          BY <2>5, <4>1, <4>5 DEF AtStage, Stages, Holding
      <3> QED
        BY <3>1, <3>2, <3>3
    <2>8. BooksOK'
      BY <1>0, <2>1, QuietBooks DEF BooksInv
    <2>9. /\ Backed(job[p].fill, events[job[p].fill].done, events[job[p].fill].realized)'
          /\ Backed(job[p].fill, job[p].state.done, job[p].state.realized)'
          /\ Backed(job[p].fill, job[p].claimed.done, job[p].claimed.realized)'
      BY <2>1, <2>2, <2>5 DEF Backed, Lot, Attribution, Cash, Trade, JobBacked
    <2>10. Shrinks /\ cash \subseteq cash' /\ \A g \in Fills : Untouched(g)
      BY <1>0, <2>1, QuietRows
    <2> QED
      BY <1>0, <2>1, <2>7, <2>8, <2>9, <2>10, StageBooks
  <1> QED
    BY <1>0, <1>1, <1>2

\* What one closure does to the amounts.
LEMMA CloseAmounts ==
    ASSUME TypeInv, TypeInv', NEW p \in Procs, NEW l \in Fills, Closes(p, l), UNCHANGED liability,
           NEW f \in Fills, f = job[p].fill, NEW q \in Nat, q = job[p].take[l], lots[l].closures[f] = 0
    PROVE  /\ q > 0 /\ Owed'[f] = Owed[f] - q
           /\ \A g \in Fills : g # f => Kept(g)
           /\ LongUnits' = LongUnits - q
           /\ \A k \in Fills : LotBalanced(k) => LotBalanced(k)'
           /\ SumFunction(job'[p].take) = SumFunction(job[p].take) - q
  <1>0. /\ q > 0 /\ job[p].take \in [Fills -> Nat] /\ job'[p].take \in [Fills -> Nat]
        /\ IsFiniteSet(Fills)
    BY JobFields, SettlementAssumption DEF Closes
  <1>1. Owed'[f] = Owed[f] - q
    <2>1. /\ ClosedBy(f) \in [Fills -> Nat] /\ ClosedBy(f)' \in [Fills -> Nat]
          /\ ClosedBy(f)[l] = 0 /\ ClosedBy(f)'[l] = q
          /\ \A k \in Fills \ {l} : ClosedBy(f)'[k] = ClosedBy(f)[k]
      <3>1. \A k \in Fills : lots'[k].closures \in [Fills -> Nat]
        BY DEF TypeInv, TypeOK, LotRow
      <3>2. ClosedBy(f)' = [k \in Fills |-> lots'[k].closures[f]]
        BY DEF ClosedBy
      <3>3. ClosedBy(f)' \in [Fills -> Nat]
        BY <3>1, <3>2
      <3>4. \A k \in Fills : lots'[k].closures[f] = IF k = l THEN q ELSE lots[k].closures[f]
        BY DEF Closes
      <3> QED
        BY <3>2, <3>3, <3>4, Amounts
    <2>2. SumFunctionOnSet(ClosedBy(f)', Fills) = SumFunctionOnSet(ClosedBy(f), Fills) + q - 0
      BY <1>0, <2>1, SumUpdate
    <2>3. SumFunction(ClosedBy(f))' = SumFunction(ClosedBy(f)) + q
      BY <1>0, <2>1, <2>2, Amounts DEF SumFunction
    <2>4. /\ Allocated(f) = SumFunction(ClosedBy(f)) + lots[f].opened + liability[f]
          /\ Allocated(f)' = SumFunction(ClosedBy(f))' + lots'[f].opened + liability'[f]
          /\ Owed[f] = Qty[f] - Allocated(f) /\ Owed'[f] = Qty[f] - Allocated(f)'
      BY DEF Allocated, Owed
    <2>5. lots'[f].opened = lots[f].opened /\ lots[f].opened \in Nat /\ liability[f] \in Nat /\ Qty[f] \in Nat
          /\ SumFunction(ClosedBy(f)) \in Nat
      BY LotFields, Amounts DEF Closes
    <2> QED
      BY <1>0, <2>3, <2>4, <2>5
  <1>2. \A g \in Fills : g # f => Kept(g)
    BY DEF Closes, Kept
  <1>3. LongUnits' = LongUnits - q
    <2>1. /\ OpenUnits \in [Fills -> Int] /\ OpenUnits' \in [Fills -> Int]
          /\ OpenUnits'[l] = OpenUnits[l] - q
          /\ \A k \in Fills \ {l} : OpenUnits'[k] = OpenUnits[k]
          /\ LongUnits = SumFunctionOnSet(OpenUnits, Fills) /\ LongUnits' = SumFunctionOnSet(OpenUnits', Fills)
      <3>1. /\ OpenUnits \in [Fills -> Int] /\ \A k \in Fills : OpenUnits[k] = lots[k].remaining
            /\ LongUnits = SumFunctionOnSet(OpenUnits, Fills)
        BY Units
      <3>2. OpenUnits' = [k \in Fills |-> lots'[k].remaining]
        BY DEF OpenUnits
      <3>3. \A k \in Fills : lots[k].remaining \in Int
        BY LotFields
      <3>4. OpenUnits' \in [Fills -> Int]
        BY <1>0, <3>2, <3>3 DEF Closes
      <3>5. LongUnits' = SumFunctionOnSet(OpenUnits', Fills)
        BY <3>2 DEF LongUnits, SumFunction
      <3> QED
        BY <3>1, <3>2, <3>4, <3>5 DEF Closes
    <2>2. LongUnits' = LongUnits + (OpenUnits[l] - q) - OpenUnits[l]
      BY <1>0, <2>1, SumUpdate
    <2> QED
      BY <1>0, <2>1, <2>2, Units
  <1>4. ASSUME NEW k \in Fills, LotBalanced(k)
        PROVE  LotBalanced(k)'
    <2>1. /\ lots[k].closures \in [Fills -> Nat] /\ lots'[k].closures \in [Fills -> Nat]
          /\ lots[k].remaining \in Int
      <3>1. lots' \in [Fills -> LotRow]
        BY DEF TypeInv, TypeOK
      <3> QED
        BY <3>1, LotFields DEF LotRow
    <2>2. SumFunction(lots[k].closures) \in Nat
      BY <1>0, <2>1, TakeSum
    <2>3. CASE k # l
      <3>1. \A g \in Fills : lots'[k].closures[g] = lots[k].closures[g]
        BY <2>3 DEF Closes
      <3>2. lots'[k].closures = lots[k].closures
        BY <2>1, <3>1
      <3> QED
        BY <1>4, <2>3, <3>2 DEF LotBalanced, Closes
    <2>4. CASE k = l
      <3> DEFINE old == lots[l].closures
                 new == lots'[l].closures
      <3>1. new[f] = q /\ old[f] = 0 /\ \A g \in Fills \ {f} : new[g] = old[g]
        BY DEF Closes
      <3>2. old \in [Fills -> Nat] /\ new \in [Fills -> Nat]
        BY <2>1, <2>4
      <3>3. SumFunction(new) = SumFunction(old) + q
        <4> HIDE DEF old, new
        <4>1. /\ IsFiniteSet(Fills) /\ \A y \in Fills : old[y] \in Int
              /\ new[f] \in Int /\ \A y \in Fills \ {f} : new[y] = old[y]
          BY <1>0, <3>1, <3>2
        <4>2. SumFunctionOnSet(new, Fills) = SumFunctionOnSet(old, Fills) + new[f] - old[f]
          BY <4>1, SumUpdate
        <4> QED
          BY <3>1, <3>2, <4>2, TakeSum
      <3>4. lots'[l].remaining = lots[l].remaining - q /\ lots'[l].opened = lots[l].opened
        BY DEF Closes
      <3>5. lots[l].remaining + SumFunction(lots[l].closures) = lots[l].opened
        BY <1>4, <2>4 DEF LotBalanced
      <3>6. lots'[l].remaining + SumFunction(lots'[l].closures) = lots'[l].opened
        BY <1>0, <2>1, <2>2, <2>4, <3>3, <3>4, <3>5
      <3> QED
        BY <2>4, <3>6 DEF LotBalanced
    <2> QED
      BY <2>3, <2>4
  <1>5. SumFunction(job'[p].take) = SumFunction(job[p].take) - q
    <2>1. job'[p].take[l] = 0 /\ \A k \in Fills \ {l} : job'[p].take[k] = job[p].take[k]
      BY DEF Closes
    <2>2. SumFunctionOnSet(job'[p].take, Fills) = SumFunctionOnSet(job[p].take, Fills) + 0 - q
      BY <1>0, <2>1, SumUpdate
    <2> QED
      BY <1>0, <2>2, TakeSum
  <1> QED
    BY <1>0, <1>1, <1>2, <1>3, <1>4, <1>5

\* Units of f enter the books, and no others.
Enters(f) ==
    /\ \E q \in Nat : q > 0 /\ q <= Owed[f] /\ Owed'[f] = Owed[f] - q
    /\ \A g \in Fills : g # f => Kept(g)

\* One closure: the units move from the lot, and from what
\* the fill is owed, to the closures.
LEMMA ClosureBooks ==
    ASSUME Orderly, BooksInv, ShapeInv', Exclusive', NEW p \in Procs, Stays(p), pc[p] = "close",
           UNCHANGED <<liability, attribution, cash, pnl, holding>>,
           NEW l \in Fills, Closes(p, l), NEW f \in Fills, f = job[p].fill
    PROVE  BooksInv' /\ Enters(f)
  <1>0. /\ TypeInv /\ TypeInv' /\ LotsShaped /\ LotsShaped' /\ BooksOK
        /\ JobBacked(p) /\ f \in fills /\ job'[p].fill = f
        /\ job'[p].state = job[p].state /\ job'[p].claimed = job[p].claimed /\ job'[p].rest = job[p].rest
        /\ UNCHANGED <<events, fills>>
    BY DEF Stays, BooksInv, ShapeInv, JobsBacked, CallersShaped, Closes
  <1>1. PICK q \in Nat : q = job[p].take[l]
    BY <1>0, JobFields
  <1>2. /\ job[p].take \in [Fills -> Nat] /\ job[p].rest \in Nat /\ job'[p].take \in [Fills -> Nat]
        /\ \A k \in Fills : /\ lots[k].remaining \in Int /\ lots[k].remaining >= 0
                            /\ \A g \in Fills : lots[k].closures[g] \in Nat
    BY <1>0, JobFields, LotFields DEF LotsShaped, Closes
  <1>3. /\ q > 0 /\ q <= lots[l].remaining
        /\ \A k \in Fills : job[p].take[k] > 0 => Rank[l] <= Rank[k]
        /\ \A k \in Fills :
              /\ lots'[k].opened = lots[k].opened
              /\ lots'[k].remaining = IF k = l THEN lots[k].remaining - q ELSE lots[k].remaining
              /\ \A g \in Fills : lots'[k].closures[g] = IF k = l /\ g = f THEN q ELSE lots[k].closures[g]
        /\ \A k \in Fills : job'[p].take[k] = IF k = l THEN 0 ELSE job[p].take[k]
        /\ pc'[p] = LotStep(job'[p].take, job[p].rest)
    BY <1>1 DEF Closes
  <1>4. PlanFits(p) /\ job[p].state.done = 0 /\ job[p].claimed.done = 0
    BY <1>0, JobFields DEF JobBacked, AtStage, Stages, FlagAt, Lot
  <1>5. /\ SumFunction(job[p].take) + job[p].rest = Owed[f]
        /\ f \notin Buys /\ lots[l].closures[f] = 0 /\ job[p].rest = 0
        /\ \A k \in Fills :
              /\ job[p].take[k] > 0 => lots[k].closures[f] = 0 /\ lots[k].opened > 0
              /\ \A m \in Fills : job[p].take[k] > 0 /\ job[p].take[m] > 0 /\ Rank[m] < Rank[k] =>
                    job[p].take[m] >= lots[m].remaining
              /\ job[p].state.realized[k] = lots[k].closures[f] + job[p].take[k]
    BY <1>1, <1>3, <1>4 DEF PlanFits
  <1>6. /\ Owed'[f] = Owed[f] - q
        /\ \A g \in Fills : g # f => Kept(g)
        /\ LongUnits' = LongUnits - q
        /\ \A k \in Fills : LotBalanced(k) => LotBalanced(k)'
        /\ SumFunction(job'[p].take) = SumFunction(job[p].take) - q
    BY <1>0, <1>1, <1>5, CloseAmounts
  <1>7. /\ Owed[f] \in Int /\ q <= Owed[f] /\ Owed'[f] >= 0 /\ Owed[f] > 0 /\ Owed'[f] \in Int
        /\ Owed'[f] = SumFunction(job'[p].take) /\ SumFunction(job'[p].take) \in Nat
        /\ Owed[f] <= Qty[f] /\ Qty[f] \in Nat
    BY <1>0, <1>1, <1>2, <1>3, <1>5, <1>6, Amounts, TakeSum, LotFields
  <1>8. \A g \in Fills : g # f => Owed'[g] = Owed[g] /\ ClosedBy(g)' = ClosedBy(g)
    BY <1>6, KeptAmounts
  <1>9. Exhausted'
    <2> SUFFICES ASSUME NEW g \in Fills, NEW k \in Fills, lots'[k].closures[g] > 0, Owed'[g] > 0
                 PROVE  lots'[k].remaining = 0
      BY DEF Exhausted
    <2>1. CASE g # f
      <3>1. lots[k].remaining = 0
        BY <1>0, <1>3, <1>8, <2>1 DEF BooksOK, Exhausted
      <3> QED
        BY <1>2, <1>3, <3>1
    <2>2. CASE g = f /\ k # l
      <3>1. lots[k].remaining = 0
        BY <1>0, <1>3, <1>7, <2>2 DEF BooksOK, Exhausted
      <3> QED
        BY <1>3, <2>2, <3>1
    <2>3. CASE g = f /\ k = l
      <3>1. PICK m \in Fills : job'[p].take[m] > 0
        BY <1>2, <1>7, <2>3, TakeSum
      <3>2. m # l /\ job[p].take[m] > 0
        BY <1>3, <3>1
      <3>3. Rank[l] < Rank[m]
        <4>1. Rank[l] \in Nat /\ Rank[m] \in Nat /\ Rank[l] # Rank[m]
          BY <3>2, SettlementAssumption DEF Orderly
        <4> QED
          BY <1>3, <3>2, <4>1
      <3>4. q = lots[l].remaining
        <4>1. job[p].take[l] >= lots[l].remaining
          BY <1>1, <1>3, <1>5, <3>2, <3>3
        <4>2. lots[l].remaining \in Int /\ q \in Int
          BY <1>2
        <4> QED
          BY <1>1, <1>3, <4>1, <4>2
      <3> QED
        BY <1>2, <1>3, <2>3, <3>4
    <2> QED
      BY <2>1, <2>2, <2>3
  <1>10. Promised'
    <2>1. /\ \A g \in fills \ Buys : Owed[g] \in Int
          /\ Owed'[f] = Owed[f] - q /\ Owed'[f] \in Int /\ f \in fills \ Buys
          /\ \A g \in (fills \ Buys) \ {f} : Owed'[g] = Owed[g]
      BY <1>0, <1>5, <1>6, <1>7, <1>8, Units
    <2>2. SumFunctionOnSet(Owed', fills \ Buys) = SumFunctionOnSet(Owed, fills \ Buys) + Owed'[f] - Owed[f]
      <3> DEFINE S == fills \ Buys
      <3>1. IsFiniteSet(S)
        BY <1>0, Units
      <3> HIDE DEF S
      <3>2. SumFunctionOnSet(Owed', S) = SumFunctionOnSet(Owed, S) + Owed'[f] - Owed[f]
        <4>1. f \in S /\ Owed'[f] \in Int
          BY <2>1 DEF S
        <4>2. \A g \in S : Owed[g] \in Int
          BY <2>1 DEF S
        <4>3. \A g \in S \ {f} : Owed'[g] = Owed[g]
          BY <2>1 DEF S
        <4> QED
          BY <3>1, <4>1, <4>2, <4>3, SumUpdate
      <3> QED
        BY <3>2 DEF S
    <2>3. SumFunctionOnSet(Owed, fills \ Buys) <= LongUnits
      BY <1>0 DEF BooksOK, Promised
    <2>4. SumFunctionOnSet(Owed', fills \ Buys) <= LongUnits'
      BY <1>0, <1>6, <1>7, <2>1, <2>2, <2>3, Units
    <2> QED
      BY <1>0, <2>4 DEF Promised
  <1>11. Attributed'
    <2> SUFFICES ASSUME NEW g \in Fills, NEW k \in Fills, attribution'[k][g] # 0
                 PROVE  Owed'[g] = 0 /\ attribution'[k][g] = lots'[k].closures[g]
      BY DEF Attributed
    <2>1. Owed[g] = 0 /\ attribution[k][g] = lots[k].closures[g]
      BY <1>0 DEF BooksOK, Attributed
    <2>2. g # f
      BY <1>7, <2>1
    <2> QED
      BY <1>3, <1>8, <2>1, <2>2
  <1>12. BooksOK'
    <2>1. LotConservation'
      BY <1>0, <1>6 DEF BooksOK, LotConservation
    <2>2. Sided'
      BY <1>0, <1>3, <1>5 DEF BooksOK, Sided
    <2>3. \A g \in Fills : Owed'[g] >= 0
      BY <1>0, <1>7, <1>8 DEF BooksOK
    <2> QED
      BY <1>9, <1>10, <1>11, <2>1, <2>2, <2>3 DEF BooksOK
  <1>13. Shrinks
    BY <1>1, <1>2, <1>3 DEF Shrinks
  <1>14. \A g \in Fills : g # f => Untouched(g)
    BY <1>6 DEF Untouched
  <1>15. /\ Backed(job[p].fill, events[job[p].fill].done, events[job[p].fill].realized)'
         /\ Backed(job[p].fill, job[p].state.done, job[p].state.realized)'
         /\ Backed(job[p].fill, job[p].claimed.done, job[p].claimed.realized)'
    BY <1>0, <1>4 DEF Backed, Lot, Attribution, Cash, Trade, JobBacked
  <1>16. AtStage(p)'
    <2> DEFINE t == job'[p].take
    <2>1. /\ SumFunction(t) + job'[p].rest = Owed'[f] /\ job'[p].rest = 0
          /\ \A k \in Fills :
                /\ t[k] > 0 => f \notin Buys /\ lots'[k].closures[f] = 0 /\ lots'[k].opened > 0
                /\ \A m \in Fills : t[k] > 0 /\ t[m] > 0 /\ Rank[m] < Rank[k] => t[m] >= lots'[m].remaining
                /\ job'[p].state.realized[k] = lots'[k].closures[f] + t[k]
      <3>1. SumFunction(t) + job'[p].rest = Owed'[f] /\ job'[p].rest = 0
        BY <1>0, <1>5, <1>7
      <3>2. ASSUME NEW k \in Fills
            PROVE  /\ t[k] > 0 => f \notin Buys /\ lots'[k].closures[f] = 0 /\ lots'[k].opened > 0
                   /\ job'[p].state.realized[k] = lots'[k].closures[f] + t[k]
        BY <1>0, <1>1, <1>2, <1>3, <1>5
      <3>3. ASSUME NEW k \in Fills, NEW m \in Fills, t[k] > 0, t[m] > 0, Rank[m] < Rank[k]
            PROVE  t[m] >= lots'[m].remaining
        <4>1. k # l /\ m # l /\ job[p].take[k] > 0 /\ job[p].take[m] > 0
          BY <1>3, <3>3
        <4>2. job[p].take[m] >= lots[m].remaining
          BY <1>5, <3>3, <4>1
        <4> QED
          BY <1>1, <1>2, <1>3, <4>2
      <3> QED
        BY <3>1, <3>2, <3>3
    <2>2. pc'[p] = IF \E k \in Fills : t[k] > 0 THEN "close" ELSE "checkpoint"
      BY <1>3, <1>5 DEF LotStep
    <2> HIDE DEF t
    <2>3. CASE \E k \in Fills : t[k] > 0
      <3>1. pc'[p] = "close"
        BY <2>2, <2>3
      <3>2. PlanFits(p)'
        BY <1>0, <1>5, <2>1, <3>1 DEF PlanFits, t
      <3> QED
        BY <1>0, <1>4, <3>1, <3>2 DEF AtStage, Stages, FlagAt, Lot
    <2>4. CASE ~(\E k \in Fills : t[k] > 0)
      <3>1. pc'[p] = "checkpoint" /\ \A k \in Fills : t[k] = 0
        BY <1>2, <2>2, <2>4 DEF t
      <3>2. Owed'[f] = 0
        BY <1>2, <1>7, <2>4, PlanOfNothing DEF t
      <3>3. job'[p].state.realized = ClosedBy(f)'
        <4>1. job'[p].state.realized \in [Fills -> Nat]
          BY <1>0, JobFields
        <4>2. ClosedBy(f)' = [k \in Fills |-> lots'[k].closures[f]]
          BY DEF ClosedBy
        <4>3. \A k \in Fills : job'[p].state.realized[k] = lots'[k].closures[f]
          BY <1>2, <1>3, <2>1, <3>1
        <4> QED
          BY <4>1, <4>2, <4>3
      <3>4. Backed(job[p].fill, job[p].state.done + 1, job[p].state.realized)'
        BY <1>0, <1>4, <3>2, <3>3 DEF Backed, Lot, Attribution, Cash, Trade
      <3> QED
        BY <1>0, <1>4, <3>1, <3>4 DEF AtStage, Stages, Holding
    <2> QED
      BY <2>3, <2>4
  <1> QED
    BY <1>3, <1>6, <1>7, <1>12, <1>13, <1>14, <1>15, <1>16, StageBooks DEF Enters

\* A CloseLot step keeps the books; it writes nothing or units enter them.
LEMMA CloseBooks ==
    ASSUME Orderly, BooksInv, ShapeInv', Exclusive', NEW p \in Procs, CloseLot(p), NEW f \in Fills, f = job[p].fill
    PROVE  BooksInv' /\ (UNCHANGED <<lots, liability>> \/ Enters(f))
  <1>1. /\ Stays(p) /\ pc[p] = "close"
        /\ UNCHANGED <<liability, attribution, cash, pnl, holding>>
        /\ \/ UNCHANGED lots /\ pc'[p] = "fail" /\ job' = job
           \/ \E l \in Fills : Closes(p, l)
    BY CloseLotEffect DEF BooksInv, ShapeInv
  <1>2. CASE UNCHANGED lots /\ pc'[p] = "fail" /\ job' = job
    BY <1>1, <1>2, RaiseBooks DEF Rows
  <1>3. CASE \E l \in Fills : Closes(p, l)
    BY <1>1, <1>3, ClosureBooks
  <1> QED
    BY <1>1, <1>2, <1>3

\* The lot a buy opens is all it is owed.
LEMMA OpeningBooks ==
    ASSUME Orderly, BooksInv, ShapeInv', Exclusive', NEW p \in Procs, Stays(p), pc[p] = "open",
           UNCHANGED <<attribution, cash, pnl, holding>>, Opens(p), NEW f \in Fills, f = job[p].fill
    PROVE  BooksInv' /\ Enters(f)
  <1>0. /\ TypeInv /\ TypeInv' /\ LotsShaped /\ LotsShaped' /\ BooksOK
        /\ JobBacked(p) /\ f \in fills /\ UNCHANGED <<events, fills, job>>
    BY DEF Stays, BooksInv, ShapeInv, JobsBacked, CallersShaped, Opens
  <1>1. PICK r \in Nat : r = job[p].rest
    BY <1>0, JobFields
  <1>2. /\ f \in Buys /\ lots[f].opened = 0 /\ lots[f].remaining = 0
        /\ \A g \in Fills : lots[f].closures[g] = 0
        /\ \A k \in Fills :
              /\ lots'[k].closures = lots[k].closures
              /\ lots'[k].opened = IF k = f THEN r ELSE lots[k].opened
              /\ lots'[k].remaining = IF k = f THEN r ELSE lots[k].remaining
        /\ UNCHANGED liability /\ pc'[p] = "checkpoint"
    BY <1>0, <1>1 DEF Opens, LotsShaped
  <1>3. /\ job[p].take \in [Fills -> Nat] /\ Qty[f] \in Nat /\ Qty[f] > 0
        /\ \A k \in Fills : /\ lots[k].remaining \in Int /\ lots[k].opened \in Nat
                            /\ lots[k].closures \in [Fills -> Nat]
    BY <1>0, JobFields, LotFields
  <1>4. PlanFits(p) /\ job[p].state.done = 0 /\ job[p].claimed.done = 0
    BY <1>0, JobFields DEF JobBacked, AtStage, Stages, FlagAt, Lot
  <1>5. /\ r = Owed[f] /\ r > 0 /\ \A l \in Fills : job[p].take[l] = 0
        /\ \A l \in Fills : job[p].state.realized[l] = lots[l].closures[f]
    <2>1. /\ SumFunction(job[p].take) + r = Owed[f] /\ r > 0 /\ \A l \in Fills : job[p].take[l] = 0
          /\ \A l \in Fills : job[p].state.realized[l] = lots[l].closures[f] + job[p].take[l]
      BY <1>1, <1>4 DEF PlanFits
    <2>2. SumFunction(job[p].take) = 0
      BY <1>3, <2>1, PlanOfNothing
    <2> QED
      BY <1>1, <1>3, <2>1, <2>2
  <1>6. /\ Owed[f] = Qty[f] /\ Owed'[f] = 0 /\ r = Qty[f]
        /\ ClosedBy(f)' = ClosedBy(f)
    <2>1. ClosedBy(f)' = ClosedBy(f)
      BY <1>2 DEF ClosedBy
    <2>2. \A l \in Fills : lots[l].closures[f] = 0
      BY <1>0, <1>2 DEF BooksOK, Sided
    <2>3. SumFunction(ClosedBy(f)) = 0 /\ liability[f] = 0
      BY <1>0, <2>2, Amounts DEF BooksOK, Sided
    <2>4. /\ Owed[f] = Qty[f] - (0 + 0 + 0) /\ Owed'[f] = Qty[f] - (0 + r + 0)
      BY <1>2, <2>1, <2>3 DEF Owed, Allocated
    <2> QED
      BY <1>1, <1>3, <1>5, <2>1, <2>4
  <1>7. \A g \in Fills : g # f => Kept(g) /\ Owed'[g] = Owed[g] /\ ClosedBy(g)' = ClosedBy(g)
    BY <1>2, KeptAmounts DEF Kept
  <1>8. Promised'
    <2>1. LongUnits' = LongUnits + r
      <3>1. /\ OpenUnits \in [Fills -> Int] /\ \A k \in Fills : OpenUnits[k] = lots[k].remaining
            /\ LongUnits = SumFunctionOnSet(OpenUnits, Fills) /\ LongUnits \in Int
        BY <1>0, Units
      <3>2. OpenUnits' = [k \in Fills |-> lots'[k].remaining]
        BY DEF OpenUnits
      <3>3. /\ \A k \in Fills : OpenUnits[k] \in Int
            /\ OpenUnits'[f] = r /\ OpenUnits[f] = 0
            /\ \A k \in Fills \ {f} : OpenUnits'[k] = OpenUnits[k]
        BY <1>2, <3>1, <3>2
      <3>4. LongUnits' = SumFunctionOnSet(OpenUnits', Fills)
        BY <3>2 DEF LongUnits, SumFunction
      <3>5. SumFunctionOnSet(OpenUnits', Fills) = SumFunctionOnSet(OpenUnits, Fills) + r - 0
        BY <3>3, SumUpdate, SettlementAssumption
      <3> QED
        BY <3>1, <3>4, <3>5
    <2>2. SumFunctionOnSet(Owed', fills \ Buys) = SumFunctionOnSet(Owed, fills \ Buys)
      <3>1. \A g \in fills \ Buys : Owed'[g] = Owed[g]
        BY <1>0, <1>2, <1>7, Units
      <3> QED
        BY <1>0, <3>1, Units, SumCongruence
    <2>3. SumFunctionOnSet(Owed', fills \ Buys) <= LongUnits'
      BY <1>0, <2>1, <2>2, Units DEF BooksOK, Promised
    <2> QED
      BY <1>0, <2>3 DEF Promised
  <1>9. BooksOK'
    <2>1. LotConservation'
      <3> SUFFICES ASSUME NEW k \in Fills PROVE LotBalanced(k)'
        BY DEF LotConservation
      <3>1. CASE k # f
        BY <1>0, <1>2, <3>1 DEF BooksOK, LotConservation, LotBalanced
      <3>2. CASE k = f
        <4>1. SumFunction(lots[f].closures) = 0
          BY <1>2, <1>3, PlanOfNothing
        <4>2. lots'[f].remaining = r /\ lots'[f].opened = r /\ lots'[f].closures = lots[f].closures
          BY <1>2
        <4> QED
          BY <3>2, <4>1, <4>2 DEF LotBalanced
      <3> QED
        BY <3>1, <3>2
    <2>2. Sided'
      BY <1>0, <1>2, <1>6 DEF BooksOK, Sided
    <2>3. Exhausted'
      <3> SUFFICES ASSUME NEW g \in Fills, NEW k \in Fills, lots'[k].closures[g] > 0, Owed'[g] > 0
                   PROVE  lots'[k].remaining = 0
        BY DEF Exhausted
      <3>1. g # f /\ k # f /\ lots[k].closures[g] > 0
        BY <1>2, <1>6
      <3> QED
        BY <1>0, <1>2, <1>7, <3>1 DEF BooksOK, Exhausted
    <2>4. Attributed'
      <3> SUFFICES ASSUME NEW g \in Fills, NEW k \in Fills, attribution'[k][g] # 0
                   PROVE  Owed'[g] = 0 /\ attribution'[k][g] = lots'[k].closures[g]
        BY DEF Attributed
      <3>1. Owed[g] = 0 /\ attribution[k][g] = lots[k].closures[g]
        BY <1>0 DEF BooksOK, Attributed
      <3> QED
        BY <1>2, <1>6, <1>7, <3>1
    <2>5. \A g \in Fills : Owed'[g] >= 0
      BY <1>0, <1>6, <1>7 DEF BooksOK
    <2> QED
      BY <1>8, <2>1, <2>2, <2>3, <2>4, <2>5 DEF BooksOK
  <1>10. Shrinks
    BY <1>2, <1>3 DEF Shrinks
  <1>11. \A g \in Fills : g # f => Untouched(g)
    BY <1>7 DEF Untouched
  <1>12. /\ Backed(job[p].fill, events[job[p].fill].done, events[job[p].fill].realized)'
         /\ Backed(job[p].fill, job[p].state.done, job[p].state.realized)'
         /\ Backed(job[p].fill, job[p].claimed.done, job[p].claimed.realized)'
    BY <1>0, <1>4 DEF Backed, Lot, Attribution, Cash, Trade, JobBacked
  <1>13. AtStage(p)'
    <2>1. job[p].state.realized = ClosedBy(f)
      <3>1. job[p].state.realized \in [Fills -> Nat]
        BY <1>0, JobFields
      <3> QED
        BY <1>5, <3>1 DEF ClosedBy
    <2>2. Backed(job[p].fill, job[p].state.done + 1, job[p].state.realized)'
      BY <1>0, <1>4, <1>6, <2>1 DEF Backed, Lot, Attribution, Cash, Trade
    <2> QED
      BY <1>0, <1>2, <1>4, <2>2 DEF AtStage, Stages, Holding
  <1>14. Enters(f)
    BY <1>1, <1>3, <1>5, <1>6, <1>7 DEF Enters
  <1> QED
    BY <1>9, <1>10, <1>11, <1>12, <1>13, <1>14, StageBooks

\* So does an OpenRemainder step.
LEMMA OpenBooks ==
    ASSUME Orderly, BooksInv, ShapeInv', Exclusive', NEW p \in Procs, OpenRemainder(p), NEW f \in Fills, f = job[p].fill
    PROVE  BooksInv' /\ (UNCHANGED <<lots, liability>> \/ Enters(f))
  <1>1. /\ TypeInv /\ Stays(p) /\ pc[p] = "open"
        /\ UNCHANGED <<attribution, cash, pnl, holding>>
        /\ \/ UNCHANGED <<lots, liability, job>> /\ pc'[p] = "fail"
           \/ /\ f \in Buys /\ lots[f].opened > 0
              /\ UNCHANGED <<lots, liability, job>> /\ pc'[p] = "checkpoint"
           \/ Opens(p) \/ Overdraws(p)
    BY OpenRemainderEffect DEF BooksInv, ShapeInv
  <1>2. PlanFits(p) /\ job[p].rest > 0
    BY <1>1 DEF BooksInv, JobsBacked, JobBacked, AtStage, PlanFits, Stays
  <1>3. f \in Buys
    BY <1>2, JobFields, <1>1 DEF PlanFits
  <1>4. ~(lots[f].opened > 0)
    <2> SUFFICES ASSUME lots[f].opened > 0 PROVE FALSE
      OBVIOUS
    <2>1. lots[f].opened = Qty[f]
      BY <1>1, <1>3, LotFields DEF BooksInv, BooksOK, Sided
    <2>2. Owed[f] <= 0
      BY <1>1, <2>1, Amounts, LotFields
    <2>3. SumFunction(job[p].take) + job[p].rest = Owed[f] /\ SumFunction(job[p].take) \in Nat /\ job[p].rest \in Nat
      BY <1>1, <1>2, JobFields, TakeSum DEF PlanFits
    <2> QED
      BY <1>1, <1>2, <2>2, <2>3, Amounts
  <1>5. CASE UNCHANGED <<lots, liability, job>> /\ pc'[p] = "fail"
    BY <1>1, <1>5, RaiseBooks DEF Rows
  <1>6. CASE Opens(p)
    BY <1>1, <1>6, OpeningBooks
  <1> QED
    BY <1>1, <1>3, <1>4, <1>5, <1>6 DEF Overdraws

-----------------------------------------------------------------------------
(* Stages 2 to 5: the rows of a fill whose units are all in the books.     *)

\* Writing rows of a fill whose units are all in the books keeps BooksInv.
LEMMA RowBooks ==
    ASSUME Orderly, BooksInv, ShapeInv', Exclusive', NEW p \in Procs, Stays(p), UNCHANGED <<lots, liability, job>>,
           NEW f \in Fills, f = job[p].fill,
           Attributed', AtStage(p)', cash \subseteq cash',
           \A g, l \in Fills : g # f => attribution'[l][g] = attribution[l][g] /\ pnl'[l][g] = pnl[l][g],
           job[p].state.done >= Attribution => \A l \in Fills : attribution'[l][f] = attribution[l][f],
           job[p].state.done >= Trade => \A l \in Fills : pnl'[l][f] = pnl[l][f]
    PROVE  BooksInv'
  <1>0. /\ TypeInv /\ BooksOK /\ JobBacked(p) /\ UNCHANGED <<events, fills>>
        /\ job[p].state.done \in 0 .. Flags /\ job[p].claimed.done \in 0 .. Flags
    BY JobFields DEF Stays, BooksInv, ShapeInv, JobsBacked
  <1>1. BooksOK'
    <2>1. LotConservation' /\ Sided'
      BY <1>0 DEF BooksOK, LotConservation, LotBalanced, Sided
    <2>2. /\ Owed' = Owed /\ LongUnits' = LongUnits /\ \A g \in Fills : Owed'[g] = Owed[g]
      BY LotsKept
    <2>3. Exhausted' /\ Promised'
      BY <1>0, <2>2 DEF BooksOK, Exhausted, Promised
    <2> QED
      BY <1>0, <2>1, <2>2, <2>3 DEF BooksOK
  <1>2. \A g \in Fills : Kept(g)
    BY LotsKept
  <1>3. ASSUME NEW m \in 0 .. Flags, NEW r, m <= job[p].state.done, Backed(f, m, r)
        PROVE  Backed(f, m, r)'
    <2>1. /\ m >= Attribution => job[p].state.done >= Attribution
          /\ m >= Trade => job[p].state.done >= Trade
      BY <1>0, <1>3 DEF Attribution, Trade
    <2> QED
      BY <1>2, <1>3, <2>1, BackedKept
  <1>4. /\ Backed(f, job[p].state.done, job[p].state.realized)
        /\ Backed(f, job[p].claimed.done, job[p].claimed.realized)
        /\ events[f].done = job[p].state.done /\ job[p].claimed.done <= job[p].state.done
        /\ Backed(f, events[f].done, events[f].realized)
    BY <1>0 DEF JobBacked, BooksInv, EventsBacked
  <1>5. /\ Backed(f, job[p].state.done, job[p].state.realized)'
        /\ Backed(f, job[p].claimed.done, job[p].claimed.realized)'
        /\ Backed(f, events[f].done, events[f].realized)'
    BY <1>0, <1>3, <1>4
  <1>6. \A g \in Fills : g # job[p].fill => Untouched(g)
    BY <1>2 DEF Untouched
  <1>7. Shrinks
    <2>1. \A l \in Fills : lots[l].remaining \in Int /\ lots[l].remaining <= lots[l].remaining
      BY <1>0, LotFields
    <2> QED
      BY <2>1 DEF Shrinks
  <1> QED
    BY <1>0, <1>1, <1>5, <1>6, <1>7, StageBooks

\* project_attribution writes the rows of the closures.
LEMMA AttributionBooks ==
    ASSUME Orderly, BooksInv, ShapeInv', Exclusive', NEW p \in Procs, ProjectAttribution(p)
    PROVE  BooksInv'
  <1>0. /\ TypeInv /\ BooksOK /\ JobBacked(p) /\ Stays(p) /\ pc[p] = "attribution"
        /\ UNCHANGED <<lots, liability, cash, pnl, job, holding, events, fills>> /\ job[p].fill \in Fills
        /\ pc \in [Procs -> PCs]
    BY StageStays, JobFields
       DEF OtherStage, ProjectAttribution, BooksInv, ShapeInv, JobsBacked, Stays, TypeInv, TypeOK
  <1>1. PICK f \in Fills : f = job[p].fill
    BY <1>0
  <1>2. job[p].state.done = Lot /\ Backed(f, job[p].state.done, job[p].state.realized)
    BY <1>0, <1>1, JobFields DEF JobBacked, AtStage, Stages, FlagAt, Lot, Attribution
  <1>3. Owed[f] = 0 /\ job[p].state.realized = ClosedBy(f)
    BY <1>2 DEF Backed, Lot
  <1>4. /\ \A l \in Fills : attribution'[l] = [attribution[l] EXCEPT ![f] = IF @ = 0 THEN lots[l].closures[f] ELSE @]
        /\ pc'[p] = "checkpoint"
    BY <1>0, <1>1 DEF ProjectAttribution, Goto
  <1>5. /\ \A g, l \in Fills : g # f => attribution'[l][g] = attribution[l][g]
        /\ \A l \in Fills : attribution'[l][f] = lots[l].closures[f]
    <2>1. \A l \in Fills : attribution[l] \in [Fills -> Nat]
      BY <1>0, LotFields
    <2>2. \A l \in Fills : attribution[l][f] # 0 => attribution[l][f] = lots[l].closures[f]
      BY <1>0 DEF BooksOK, Attributed
    <2> QED
      BY <1>4, <2>1, <2>2
  <1>6. Owed' = Owed /\ ClosedBy(f)' = ClosedBy(f) /\ LongUnits' = LongUnits
    BY <1>0, LotsKept
  <1>7. Attributed'
    BY <1>0, <1>3, <1>5, <1>6 DEF Attributed, BooksOK
  <1>8. AtStage(p)'
    <2>1. Backed(job[p].fill, job[p].state.done + 1, job[p].state.realized)'
      BY <1>0, <1>1, <1>2, <1>3, <1>5, <1>6 DEF Backed, Lot, Attribution, Cash, Trade
    <2> QED
      BY <1>0, <1>2, <1>4, <2>1 DEF AtStage, Stages, Lot, Holding
  <1> QED
    BY <1>0, <1>1, <1>2, <1>5, <1>7, <1>8, RowBooks DEF Lot, Attribution, Trade

\* project_cash writes the cash row of the fill.
LEMMA CashBooks ==
    ASSUME Orderly, BooksInv, ShapeInv', Exclusive', NEW p \in Procs, ProjectCash(p)
    PROVE  BooksInv'
  <1>0. /\ TypeInv /\ BooksOK /\ JobBacked(p) /\ Stays(p) /\ pc[p] = "cash"
        /\ UNCHANGED <<lots, liability, attribution, pnl, job, holding, events, fills>> /\ job[p].fill \in Fills
        /\ pc \in [Procs -> PCs]
    BY StageStays, JobFields
       DEF OtherStage, ProjectCash, BooksInv, ShapeInv, JobsBacked, Stays, TypeInv, TypeOK
  <1>1. PICK f \in Fills : f = job[p].fill
    BY <1>0
  <1>2. CASE UNCHANGED cash /\ pc'[p] = "fail"
    BY <1>0, <1>2, RaiseBooks DEF Rows
  <1>3. CASE cash' = cash \cup {f} /\ pc'[p] = "checkpoint"
    <2>1. job[p].state.done = Attribution /\ Backed(f, job[p].state.done, job[p].state.realized)
      BY <1>0, <1>1, JobFields DEF JobBacked, AtStage, Stages, FlagAt, Attribution, Cash
    <2>2. Owed' = Owed /\ ClosedBy(f)' = ClosedBy(f) /\ LongUnits' = LongUnits
      BY <1>0, LotsKept
    <2>3. Attributed'
      BY <1>0, <2>2 DEF Attributed, BooksOK
    <2>4. AtStage(p)'
      <3>1. Backed(job[p].fill, job[p].state.done + 1, job[p].state.realized)'
        BY <1>0, <1>1, <1>3, <2>1, <2>2 DEF Backed, Lot, Attribution, Cash, Trade
      <3> QED
        BY <1>0, <1>3, <2>1, <3>1 DEF AtStage, Stages, Attribution, Holding
    <2> QED
      BY <1>0, <1>1, <1>3, <2>3, <2>4, RowBooks
  <1> QED
    BY <1>0, <1>1, <1>2, <1>3 DEF ProjectCash, Raise, Goto

\* project_holding writes the sum of the lots it has read, which may have moved.
LEMMA WriteHoldingBooks ==
    ASSUME Orderly, BooksInv, ShapeInv', Exclusive', NEW p \in Procs, WriteHolding(p)
    PROVE  BooksInv'
  <1>0. /\ TypeInv /\ BooksOK /\ JobBacked(p) /\ Stays(p) /\ pc[p] = "writeHolding"
        /\ UNCHANGED <<lots, liability, attribution, cash, pnl, job, events, fills>> /\ job[p].fill \in Fills
        /\ pc \in [Procs -> PCs]
    BY StageStays, JobFields
       DEF OtherStage, HoldingStage, WriteHolding, BooksInv, ShapeInv, JobsBacked, Stays, TypeInv, TypeOK
  <1>1. PICK f \in Fills : f = job[p].fill
    BY <1>0
  <1>2. CASE UNCHANGED holding /\ pc'[p] = "fail"
    BY <1>0, <1>2, RaiseBooks DEF Rows
  <1>3. CASE pc'[p] = "checkpoint"
    <2>1. job[p].state.done = Cash /\ Backed(f, job[p].state.done, job[p].state.realized)
      BY <1>0, <1>1, JobFields DEF JobBacked, AtStage, Stages, FlagAt, Cash, Holding
    <2>2. Owed' = Owed /\ ClosedBy(f)' = ClosedBy(f)
      BY <1>0, LotsKept
    <2>3. Attributed'
      BY <1>0, <2>2 DEF Attributed, BooksOK
    <2>4. AtStage(p)'
      <3>1. Backed(job[p].fill, job[p].state.done + 1, job[p].state.realized)'
        BY <1>0, <1>1, <2>1, <2>2 DEF Backed, Lot, Attribution, Cash, Trade
      <3> QED
        BY <1>0, <1>3, <3>1 DEF AtStage, Stages
    <2> QED
      BY <1>0, <1>1, <2>3, <2>4, RowBooks
  <1> QED
    BY <1>0, <1>2, <1>3 DEF WriteHolding, Raise, Goto

\* project_accounting(trade=True) writes the PnL rows of the closures.
LEMMA PnlBooks ==
    ASSUME Orderly, BooksInv, ShapeInv', Exclusive', NEW p \in Procs, ProjectPnl(p)
    PROVE  BooksInv'
  <1>0. /\ TypeInv /\ BooksOK /\ JobBacked(p) /\ Stays(p) /\ pc[p] = "trade"
        /\ UNCHANGED <<lots, liability, attribution, cash, job, holding, events, fills>> /\ job[p].fill \in Fills
        /\ pc \in [Procs -> PCs]
    BY StageStays, JobFields
       DEF OtherStage, TradeStage, ProjectPnl, BooksInv, ShapeInv, JobsBacked, Stays, TypeInv, TypeOK
  <1>1. PICK f \in Fills : f = job[p].fill
    BY <1>0
  <1>2. CASE UNCHANGED pnl /\ pc'[p] = "fail"
    BY <1>0, <1>2, RaiseBooks DEF Rows
  <1>3. CASE /\ pnl' = [l \in Fills |-> IF ClosedBy(f)[l] > 0
                                       THEN [pnl[l] EXCEPT ![f] = ClosedBy(f)[l]] ELSE pnl[l]]
             /\ pc'[p] = "readTrade"
    <2>1. job[p].state.done = Holding /\ Backed(f, job[p].state.done, job[p].state.realized)
      BY <1>0, <1>1, JobFields DEF JobBacked, AtStage, Stages, FlagAt, Holding, Trade
    <2>2. Owed' = Owed /\ ClosedBy(f)' = ClosedBy(f) /\ LongUnits' = LongUnits
      BY <1>0, LotsKept
    <2>3. /\ \A g, l \in Fills : g # f => pnl'[l][g] = pnl[l][g]
          /\ \A l \in Fills : lots[l].closures[f] > 0 => pnl'[l][f] = lots[l].closures[f]
      <3>1. \A l \in Fills : pnl[l] \in [Fills -> Nat] /\ ClosedBy(f)[l] = lots[l].closures[f]
        BY <1>0, LotFields, Amounts
      <3> QED
        BY <1>3, <3>1
    <2>4. Attributed'
      BY <1>0, <2>2 DEF Attributed, BooksOK
    <2>5. AtStage(p)'
      <3>1. Backed(job[p].fill, job[p].state.done + 1, job[p].state.realized)'
        BY <1>0, <1>1, <2>1, <2>2, <2>3 DEF Backed, Lot, Attribution, Cash, Holding, Trade
      <3> QED
        BY <1>0, <1>3, <2>1, <3>1 DEF AtStage, Stages, FlagAt, Holding, Trade
    <2> QED
      BY <1>0, <1>1, <2>1, <2>3, <2>4, <2>5, RowBooks DEF Holding, Trade
  <1> QED
    BY <1>0, <1>1, <1>2, <1>3 DEF ProjectPnl, Raise, Goto

-----------------------------------------------------------------------------
(* The steps between the stages: the books are left alone, at most one     *)
(* settlement event is rewritten.                                          *)

\* Rewriting settlement events keeps the books when every event promises only
\* what its fill's rows back.
LEMMA EventBooks ==
    ASSUME BooksInv, ShapeInv', Exclusive', UNCHANGED <<fills, Rows>>, JobsBacked',
           \A g \in Fills : Backed(g, events'[g].done, events'[g].realized)
    PROVE  BooksInv'
  <1>0. UNCHANGED Ledgers
    BY DEF Rows, Ledgers
  <1>1. BooksOK'
    BY <1>0, QuietBooks DEF BooksInv
  <1>2. EventsBacked'
    <2> SUFFICES ASSUME NEW g \in Fills PROVE Backed(g, events[g].done, events[g].realized)'
      BY DEF EventsBacked
    <2>1. PICK n, r : n = events'[g].done /\ r = events'[g].realized
      OBVIOUS
    <2>2. Backed(g, n, r)
      BY <2>1
    <2>3. Backed(g, n, r)'
      BY <1>0, <2>2, QuietBacked
    <2> QED
      BY <2>1, <2>3 DEF Backed
  <1> QED
    BY <1>1, <1>2 DEF BooksInv

\* A step of p on its own event, if any, leaves what the other callers know.
LEMMA OthersBacked ==
    ASSUME BooksInv, ShapeInv', Exclusive', NEW p \in Procs, Others(p), UNCHANGED Rows,
           NEW f, \A g \in Fills : g # f => events'[g] = events[g],
           UNCHANGED events \/ (Working(p) /\ f = job[p].fill) \/ (Working(p)' /\ f = job'[p].fill),
           NEW q \in Procs, q # p, Working(q)'
    PROVE  JobBacked(q)'
  <1>0. /\ TypeInv /\ pc'[q] = pc[q] /\ job'[q] = job[q] /\ Working(q) /\ UNCHANGED Ledgers
        /\ job[q].fill \in Fills
    BY JobFields DEF BooksInv, ShapeInv, Others, Working, Rows, Ledgers
  <1>1. events'[job[q].fill] = events[job[q].fill]
    <2>1. CASE UNCHANGED events
      BY <2>1
    <2>2. CASE Working(p) /\ f = job[p].fill
      <3>1. job[q].fill # f
        BY <1>0, <2>2 DEF BooksInv, Exclusive, ExclusiveClaim
      <3> QED
        BY <1>0, <3>1
    <2>3. CASE Working(p)' /\ f = job'[p].fill
      <3>1. job'[q].fill # f
        <4>1. \A a, b \in Procs : Working(a)' /\ Working(b)' /\ job'[a].fill = job'[b].fill => a = b
          BY DEF Exclusive, ExclusiveClaim
        <4> QED
          BY <2>3, <4>1
      <3> QED
        BY <1>0, <3>1
    <2> QED
      BY <2>1, <2>2, <2>3
  <1> QED
    BY <1>0, <1>1, QuietRows, OtherCallers

\* The caller has let go of its event.
LEMMA LetGoBooks ==
    ASSUME BooksInv, ShapeInv', Exclusive', NEW p \in Procs, UNCHANGED <<fills, Rows>>, ~Working(p)',
           Others(p), UNCHANGED events \/ (Working(p) /\ \A g \in Fills : g # job[p].fill => events'[g] = events[g]),
           \A g \in Fills : Backed(g, events'[g].done, events'[g].realized)
    PROVE  BooksInv'
  <1>1. PICK f : f = job[p].fill
    OBVIOUS
  <1>2. \A q \in Procs : q # p /\ Working(q)' => JobBacked(q)'
    BY <1>1, OthersBacked
  <1>3. JobsBacked'
    BY <1>2 DEF JobsBacked
  <1> QED
    BY <1>3, EventBooks

\* An exception outside the stages.
LEMMA RaisedBooks ==
    ASSUME BooksInv, ShapeInv', Exclusive', NEW p \in Procs, Working(p), UNCHANGED <<fills, Rows>>, Raised(p)
    PROVE  BooksInv'
  <1> DEFINE f == job[p].fill
  <1>0. /\ UNCHANGED <<events, job, Ledgers>> /\ JobBacked(p) /\ f \in Fills /\ pc'[p] = "fail" /\ Others(p)
    BY JobFields DEF Raised, BooksInv, ShapeInv, JobsBacked, Rows, Ledgers
  <1>1. JobBacked(p)'
    <2>1. PICK g, n, r, m, s :
            /\ g \in Fills /\ g = f /\ n = job[p].state.done /\ r = job[p].state.realized
            /\ m = job[p].claimed.done /\ s = job[p].claimed.realized
      BY <1>0
    <2>2. Backed(g, n, r)' /\ Backed(g, m, s)'
      BY <1>0, <2>1, QuietBacked DEF JobBacked
    <2>3. Backed(job[p].fill, job[p].state.done, job[p].state.realized)'
          /\ Backed(job[p].fill, job[p].claimed.done, job[p].claimed.realized)'
      BY <1>0, <2>1, <2>2
    <2>4. AtStage(p)'
      BY <1>0 DEF AtStage, Stages
    <2> QED
      BY <1>0, <2>3, <2>4 DEF JobBacked
  <1>2. \A q \in Procs : q # p /\ Working(q)' => JobBacked(q)'
    BY <1>0, OthersBacked
  <1>3. JobsBacked'
    BY <1>1, <1>2 DEF JobsBacked
  <1> QED
    BY <1>0, <1>3, EventBooks DEF BooksInv, EventsBacked

\* A claim: the caller takes the event with the flags it has.
LEMMA ClaimBooks ==
    ASSUME Orderly, BooksInv, ShapeInv', Exclusive', NEW p \in Procs, Claim(p)
    PROVE  BooksInv'
  <1>0. /\ UNCHANGED <<fills, Rows>> /\ fills \subseteq Fills /\ EventsBacked /\ Others(p)
        /\ \/ pc'[p] = "batch" /\ UNCHANGED events
           \/ \E f \in fills : Takes(p, f)
    BY ClaimEffect DEF BooksInv, ShapeInv, TypeInv, TypeOK
  <1>1. CASE pc'[p] = "batch" /\ UNCHANGED events
    BY <1>0, <1>1, LetGoBooks DEF Working, EventsBacked
  <1>2. ASSUME NEW f \in fills, Takes(p, f)
        PROVE  BooksInv'
    <2>1. PICK e \in Event :
            /\ Rewrites(f, e) /\ e.status = "PROCESSING"
            /\ e.done = events[f].done /\ e.realized = events[f].realized
            /\ job'[p].fill = f /\ job'[p].claimed = e /\ job'[p].state = e
            /\ pc'[p] = "precheck"
      BY <1>2 DEF Takes
    <2>2. /\ e.done \in 0 .. Flags /\ f \in Fills /\ Backed(f, e.done, e.realized)
          /\ UNCHANGED Ledgers
      BY <1>0, <2>1, EventFields DEF EventsBacked, Rows, Ledgers
    <2>3. Backed(f, e.done, e.realized)'
      BY <2>2, QuietBacked
    <2>4. JobsBacked'
      <3>1. AtStage(p)'
        BY <2>1 DEF AtStage, Stages
      <3>2. events'[f] = e /\ e.done <= e.done
        BY <2>1, <2>2 DEF Rewrites, Flags
      <3>3. JobBacked(p)'
        BY <2>1, <2>3, <3>1, <3>2 DEF JobBacked
      <3>4. Working(p)' /\ \A g \in Fills : g # f => events'[g] = events[g]
        BY <2>1 DEF Working, Rewrites
      <3>5. \A q \in Procs : q # p /\ Working(q)' => JobBacked(q)'
        BY <1>0, <2>1, <3>4, OthersBacked
      <3> QED
        BY <3>3, <3>5 DEF JobsBacked
    <2>5. \A g \in Fills : events'[g].done = events[g].done /\ events'[g].realized = events[g].realized
      BY <2>1 DEF Rewrites
    <2> QED
      BY <1>0, <2>4, <2>5, EventBooks DEF EventsBacked
  <1> QED
    BY <1>0, <1>1, <1>2

\* The checkpoint of a stage: the flag it sets is backed by the stage's rows.
LEMMA CheckpointBooks ==
    ASSUME Orderly, BooksInv, ShapeInv', Exclusive', NEW p \in Procs, Checkpoint(p)
    PROVE  BooksInv'
  <1>0. /\ TypeInv /\ pc[p] = "checkpoint" /\ Working(p) /\ UNCHANGED <<fills, Rows, Ledgers>>
        /\ (Raised(p) \/ (SetsFlag(p) /\ Others(p))) /\ JobBacked(p)
    BY CheckpointEffect DEF BooksInv, ShapeInv, JobsBacked, Rows, Ledgers
  <1>1. PICK f \in Fills, n \in 0 .. Flags, r \in {job[p].state.realized} :
            f = job[p].fill /\ n = job[p].state.done /\ r = job[p].state.realized
    BY <1>0, JobFields
  <1>2. PICK m \in 0 .. Flags, s \in {job[p].claimed.realized} : m = job[p].claimed.done /\ s = job[p].claimed.realized
    BY <1>0, JobFields
  <1>3. CASE SetsFlag(p) /\ Others(p)
    <2>1. PICK e \in Event :
            /\ Rewrites(f, e) /\ e.status = job[p].state.status /\ e.done = n + 1 /\ e.realized = r
            /\ job'[p].fill = f /\ job'[p].claimed = job[p].claimed /\ job'[p].state = e
            /\ pc'[p] = NextStage(e.done)
      BY <1>1, <1>3 DEF SetsFlag
    <2>2. /\ JobBacked(p) /\ AtStage(p) /\ n + 1 \in 0 .. Flags /\ m <= n
          /\ job[p].state.status = "PROCESSING" /\ events[f].done = n
      BY <1>0, <1>1, <1>2, <2>1, EventFields
         DEF JobBacked, BooksInv, ShapeInv, JobsBacked, CallersShaped
    <2>3. Backed(f, n + 1, r) /\ Backed(f, m, s)
      BY <1>0, <1>1, <1>2, <2>2 DEF AtStage, JobBacked
    <2>4. Backed(f, n + 1, r)' /\ Backed(f, m, s)'
      BY <1>0, <2>3, QuietBacked
    <2>5. /\ pc'[p] \in {"lot", "attribution", "cash", "holding", "trade", "verify", "liability", "complete"}
          /\ pc'[p] # "complete" => e.done + 1 = FlagAt(pc'[p])
      BY <2>1, <2>2, NextStageFlag
    <2>6. AtStage(p)'
      BY <2>1, <2>5 DEF AtStage, Stages
    <2>7. JobBacked(p)'
      <3>1. events'[f] = e /\ e.status = "PROCESSING" /\ m <= n + 1
        BY <2>1, <2>2 DEF Rewrites, Flags
      <3>2. job'[p].claimed.done = m /\ job'[p].claimed.realized = s
        BY <1>2, <2>1
      <3> QED
        BY <2>1, <2>4, <2>6, <3>1, <3>2 DEF JobBacked
    <2>8. JobsBacked'
      <3>1. \A g \in Fills : g # f => events'[g] = events[g]
        BY <2>1 DEF Rewrites
      <3>2. \A q \in Procs : q # p /\ Working(q)' => JobBacked(q)'
        BY <1>0, <1>1, <1>3, <3>1, OthersBacked
      <3> QED
        BY <2>7, <3>2 DEF JobsBacked
    <2>9. \A g \in Fills : Backed(g, events'[g].done, events'[g].realized)
      BY <2>1, <2>3 DEF Rewrites, BooksInv, EventsBacked
    <2> QED
      BY <1>0, <2>8, <2>9, EventBooks
  <1> QED
    BY <1>0, <1>3, RaisedBooks

\* The COMPLETED checkpoint and the failure checkpoint: the caller lets go of
\* an event whose flags its rows back.
LEMMA FinishBooks ==
    ASSUME Orderly, BooksInv, ShapeInv', Exclusive', NEW p \in Procs, Complete(p) \/ FailCheckpoint(p)
    PROVE  BooksInv'
  <1>0. TypeInv /\ Working(p) /\ UNCHANGED <<fills, Rows>> /\ (Raised(p) \/ Others(p))
    BY CompleteEffect, FailEffect DEF BooksInv, ShapeInv
  <1>1. PICK f \in Fills : f = job[p].fill
    BY <1>0, JobFields
  <1>2. JobBacked(p) /\ EventsBacked
    BY <1>0 DEF BooksInv, JobsBacked
  <1>4. CASE Raised(p)
    BY <1>0, <1>4, RaisedBooks
  <1>5. CASE UNCHANGED events /\ ~Working(p)' /\ Others(p)
    BY <1>0, <1>2, <1>5, LetGoBooks DEF EventsBacked
  <1>6. ASSUME ~Working(p)', Others(p),
               \E e \in Event :
                  /\ Rewrites(f, e)
                  /\ \/ e.done = job[p].state.done /\ e.realized = job[p].state.realized
                     \/ e.done = job[p].claimed.done /\ e.realized = job[p].claimed.realized
        PROVE  BooksInv'
    <2>1. PICK e \in Event :
            /\ Rewrites(f, e)
            /\ \/ e.done = job[p].state.done /\ e.realized = job[p].state.realized
               \/ e.done = job[p].claimed.done /\ e.realized = job[p].claimed.realized
      BY <1>6
    <2>2. Backed(f, e.done, e.realized)
      BY <1>1, <1>2, <2>1 DEF JobBacked
    <2>3. /\ \A g \in Fills : Backed(g, events'[g].done, events'[g].realized)
          /\ \A g \in Fills : g # f => events'[g] = events[g]
      BY <1>2, <2>1, <2>2 DEF Rewrites, EventsBacked
    <2> QED
      BY <1>0, <1>1, <1>6, <2>3, LetGoBooks
  <1>7. CASE Complete(p)
    <2>1. Raised(p) \/ (Completes(p) /\ Others(p))
      BY <1>0, <1>7, CompleteEffect
    <2>2. ASSUME Completes(p)
          PROVE  /\ ~Working(p)'
                 /\ \E e \in Event : /\ Rewrites(f, e) /\ e.done = job[p].state.done
                                     /\ e.realized = job[p].state.realized
      BY <1>1, <2>2 DEF Completes, Working
    <2> QED
      BY <1>4, <1>6, <2>1, <2>2
  <1>8. CASE FailCheckpoint(p)
    <2>1. pc'[p] \in {"idle", "batch", "latch"} /\ Others(p) /\ (UNCHANGED events \/ Fails(p))
      BY <1>0, <1>8, FailEffect
    <2>2. ASSUME Fails(p)
          PROVE  \E e \in Event : /\ Rewrites(f, e) /\ e.done = job[p].claimed.done
                                  /\ e.realized = job[p].claimed.realized
      BY <1>1, <2>2 DEF Fails
    <2> QED
      BY <1>5, <1>6, <2>1, <2>2 DEF Working
  <1> QED
    BY <1>7, <1>8

-----------------------------------------------------------------------------
(* The other writers, and time.                                            *)

\* A recorded sell is covered by the open lots, a recorded buy promises none.
LEMMA RecordingBooks ==
    ASSUME Orderly, BooksInv, ShapeInv', Exclusive', UNCHANGED <<pc, job, events, Rows>>,
           NEW f \in Fills \ fills, Covered(f), fills' = fills \cup {f}
    PROVE  BooksInv'
  <1>0. /\ TypeInv /\ TypeInv' /\ BooksOK /\ fills \subseteq Fills
        /\ UNCHANGED <<Ledgers, lots, liability, attribution, holding>>
    BY DEF BooksInv, ShapeInv, TypeInv, TypeOK, Rows, Ledgers
  <1>1. /\ Owed' = Owed /\ LongUnits' = LongUnits /\ \A g \in Fills : Owed'[g] = Owed[g]
    BY <1>0, LotsKept
  <1>2. Promised'
    <2>1. CASE f \in Buys
      <3>1. (fills \cup {f}) \ Buys = fills \ Buys
        BY <2>1
      <3> QED
        BY <1>0, <1>1, <3>1 DEF BooksOK, Promised
    <2>2. CASE f \notin Buys
      <3>1. Qty[f] + SumFunctionOnSet(Owed, fills \ Buys) <= LongUnits
        BY <2>2 DEF Covered, Owed, Orderly
      <3>2. /\ (fills \cup {f}) \ Buys = (fills \ Buys) \cup {f} /\ f \notin fills \ Buys
            /\ IsFiniteSet(fills \ Buys) /\ \A g \in (fills \ Buys) \cup {f} : Owed[g] \in Int
        BY <1>0, <2>2, Units
      <3>3. SumFunctionOnSet(Owed, (fills \cup {f}) \ Buys) = Owed[f] + SumFunctionOnSet(Owed, fills \ Buys)
        BY <3>2, SumNewElement
      <3>4. /\ Owed[f] <= Qty[f] /\ Owed[f] \in Int /\ Qty[f] \in Nat /\ LongUnits \in Int
            /\ SumFunctionOnSet(Owed, fills \ Buys) \in Int
        BY <1>0, Amounts, Units, LotFields
      <3>5. SumFunctionOnSet(Owed, (fills \cup {f}) \ Buys) <= LongUnits
        BY <3>1, <3>3, <3>4
      <3> QED
        BY <1>1, <3>5 DEF Promised
    <2> QED
      BY <2>1, <2>2
  <1>3. BooksOK'
    <2>1. LotConservation' /\ Sided'
      BY <1>0 DEF BooksOK, LotConservation, LotBalanced, Sided
    <2>2. Exhausted' /\ Attributed' /\ \A g \in Fills : (Owed[g] >= 0)'
      BY <1>0, <1>1 DEF BooksOK, Exhausted, Attributed
    <2> QED
      BY <1>2, <2>1, <2>2 DEF BooksOK
  <1>4. EventsBacked'
    <2> SUFFICES ASSUME NEW g \in Fills PROVE Backed(g, events[g].done, events[g].realized)'
      BY DEF EventsBacked
    <2>1. PICK n, r : n = events[g].done /\ r = events[g].realized
      OBVIOUS
    <2>2. Backed(g, n, r)'
      BY <1>0, <2>1, QuietBacked DEF BooksInv, EventsBacked
    <2> QED
      BY <2>1, <2>2
  <1>5. JobsBacked'
    <2> SUFFICES ASSUME NEW p \in Procs, Working(p)' PROVE JobBacked(p)'
      BY DEF JobsBacked
    <2>1. Working(p) /\ JobBacked(p) /\ job[p].fill \in Fills
      BY <1>0, JobFields DEF Working, BooksInv, JobsBacked
    <2>2. Shrinks /\ cash \subseteq cash' /\ Untouched(job[p].fill)
      BY <1>0, <2>1, QuietRows
    <2> QED
      BY <1>0, <2>1, <2>2, SameJob DEF SameEvent
  <1> QED
    BY <1>3, <1>4, <1>5 DEF BooksInv

\* What attribution, verification and the accounting check write.
LEMMA TablesBooks ==
    ASSUME Orderly, BooksInv, ShapeInv', Exclusive',
           \/ \E f \in Fills : Attribute(f)
           \/ \E o \in Orders : Verification(o)
           \/ Audit \/ AuditLatch
    PROVE  BooksInv'
  <1>0. TypeInv /\ TypeInv' /\ fills \subseteq Fills /\ UNCHANGED <<pc, job, Rows, Ledgers>>
    BY TablesEffect DEF BooksInv, ShapeInv, TypeInv, TypeOK, Rows, Ledgers
  <1>1. ASSUME UNCHANGED fills,
               \A g \in Fills : events'[g].done = events[g].done /\ events'[g].realized = events[g].realized,
               \A g \in Fills : events[g].status = "PROCESSING" => events'[g].status = "PROCESSING"
        PROVE  BooksInv'
    <2>1. JobsBacked'
      <3> SUFFICES ASSUME NEW p \in Procs, Working(p)' PROVE JobBacked(p)'
        BY DEF JobsBacked
      <3>1. Working(p) /\ JobBacked(p) /\ job[p].fill \in Fills
        BY <1>0, JobFields DEF Working, BooksInv, JobsBacked
      <3>2. SameEvent(events'[job[p].fill], events[job[p].fill])
        BY <1>1, <3>1 DEF SameEvent, JobBacked
      <3> QED
        BY <1>0, <3>1, <3>2, QuietRows, SameJob DEF SameEvent
    <2> QED
      BY <1>0, <1>1, <2>1, EventBooks DEF BooksInv, EventsBacked
  <1>2. CASE UNCHANGED <<fills, events>>
    BY <1>1, <1>2
  <1>3. CASE UNCHANGED events /\ \E f \in Fills \ fills : Covered(f) /\ fills' = fills \cup {f}
    BY <1>0, <1>3, RecordingBooks
  <1>4. CASE /\ UNCHANGED fills
             /\ \E f \in fills : \E e \in Event :
                   /\ Rewrites(f, e) /\ e.done = events[f].done /\ e.realized = events[f].realized
                   /\ events[f].status \in {"absent", "PENDING", "RETRYABLE_FAILED"}
    BY <1>0, <1>1, <1>4 DEF Rewrites
  <1>5. \A f \in Fills \ fills : events[f].status = "absent"
    BY DEF BooksInv, ShapeInv, RecordedFirst, Unrecorded
  <1> QED
    BY <1>0, <1>2, <1>3, <1>4, <1>5, TablesEffect

\* A tick changes recorded times only.
LEMMA TickBooks ==
    ASSUME BooksInv, ShapeInv', Exclusive', Tick
    PROVE  BooksInv'
  <1>0. /\ TypeInv /\ TypeInv' /\ fills \subseteq Fills /\ UNCHANGED <<fills, pc, Rows, Ledgers>>
        /\ \A f \in Fills : SameEvent(events'[f], events[f])
        /\ \A p \in Procs :
              /\ job'[p].fill = job[p].fill /\ job'[p].take = job[p].take
              /\ job'[p].rest = job[p].rest /\ job'[p].view = job[p].view
              /\ SameEvent(job'[p].claimed, job[p].claimed)
              /\ SameEvent(job'[p].state, job[p].state)
    BY TickEffect DEF BooksInv, ShapeInv, TypeInv, TypeOK, Rows, Ledgers
  <1>1. JobsBacked'
    <2> SUFFICES ASSUME NEW p \in Procs, Working(p)' PROVE JobBacked(p)'
      BY DEF JobsBacked
    <2>1. Working(p) /\ JobBacked(p) /\ job[p].fill \in Fills
      BY <1>0, JobFields DEF Working, BooksInv, JobsBacked
    <2> QED
      BY <1>0, <2>1, QuietRows, SameJob
  <1> QED
    BY <1>0, <1>1, EventBooks DEF BooksInv, EventsBacked, SameEvent

-----------------------------------------------------------------------------
(* The invariant, and what it says of the books.                           *)

\* Claims are exclusive to begin with, and stay so.
LEMMA InitExclusive == Init => Exclusive
  BY InitOwner DEF Exclusive, OwnerInv

LEMMA NextExclusive ==
    ASSUME Orderly
    PROVE  Exclusive /\ [Next]_vars => Exclusive'
  <1> SUFFICES ASSUME Exclusive, [Next]_vars PROVE Exclusive'
    OBVIOUS
  <1>1. CASE SlowBatches
    BY <1>1 DEF Orderly, Exclusive, ExclusiveClaim
  <1>2. CASE ~SlowBatches
    BY <1>2, NextOwner DEF Exclusive, OwnerInv
  <1> QED
    BY <1>1, <1>2

\* Before the first fill there is nothing in the books.
LEMMA InitBooks == Init => BooksInv
  <1> SUFFICES ASSUME Init PROVE BooksInv
    OBVIOUS
  <1>0. ShapeInv /\ TypeInv /\ IsFiniteSet(Fills)
    BY InitShape, SettlementAssumption DEF ShapeInv
  <1>1. \A f \in Fills : /\ Allocated(f) = 0 /\ Owed[f] = Qty[f] /\ Qty[f] \in Nat
                         /\ lots[f].opened = 0 /\ liability[f] = 0
                         /\ \A l \in Fills : lots[l].closures[f] = 0 /\ attribution[l][f] = 0
    <2>1. ASSUME NEW f \in Fills
          PROVE  /\ lots[f].opened = 0 /\ liability[f] = 0
                 /\ \A l \in Fills : lots[l].closures[f] = 0 /\ attribution[l][f] = 0
      BY DEF Init, NoLot, Nothing
    <2>2. ASSUME NEW f \in Fills
          PROVE  Allocated(f) = 0
      BY <1>0, <2>1, UnrecordedAllocates DEF Init
    <2> QED
      BY <1>0, <2>1, <2>2, Amounts, LotFields
  <1>2. LotConservation
    BY <1>0, <1>1, UnopenedBalances DEF LotConservation
  <1>3. LongUnits = 0
    <2>1. \A l \in Fills : OpenUnits[l] = 0
      BY DEF Init, NoLot, OpenUnits
    <2> QED
      BY <1>0, <2>1, Units, SumOfZeros
  <1>4. Promised
    <2>1. SumFunctionOnSet(Owed, fills \ Buys) = 0
      <3>1. fills \ Buys = {}
        BY DEF Init
      <3> QED
        BY <3>1, SumEmpty
    <2> QED
      BY <1>3, <2>1 DEF Promised
  <1>5. BooksOK
    BY <1>1, <1>2, <1>4 DEF BooksOK, Sided, Exhausted, Attributed
  <1>6. EventsBacked
    BY DEF Init, EventsBacked, Backed, Absent, Pending, Lot, Attribution, Cash, Trade
  <1>7. JobsBacked
    BY DEF Init, JobsBacked, Working
  <1> QED
    BY <1>0, <1>5, <1>6, <1>7, InitExclusive DEF BooksInv

\* Every step keeps the books.
LEMMA NextBooks ==
    ASSUME Orderly
    PROVE  BooksInv /\ [Next]_vars => BooksInv'
  <1> SUFFICES ASSUME BooksInv, [Next]_vars PROVE BooksInv'
    OBVIOUS
  <1>0. ShapeInv' /\ Exclusive' /\ TypeInv /\ TypeInv'
    BY NextShape, NextExclusive DEF BooksInv, ShapeInv
  <1>1. ASSUME NEW p \in Procs, Step(p) \/ LeaseLost(p) \/ Crash(p)
        PROVE  BooksInv'
    <2>1. CASE StartBatch(p) \/ FinishBatch(p) \/ LeaseLost(p) \/ Latch(p) \/ Crash(p)
      <3>1. UNCHANGED <<fills, events, Rows>> /\ ~Working(p)' /\ Others(p)
        BY <2>1, BatchEffect DEF BooksInv, Working
      <3> QED
        BY <1>0, <3>1, LetGoBooks DEF BooksInv, EventsBacked
    <2>2. CASE Claim(p) \/ Checkpoint(p) \/ Complete(p) \/ FailCheckpoint(p)
      BY <1>0, <2>2, ClaimBooks, CheckpointBooks, FinishBooks
    <2>3. CASE LotStage(p)
      <3>1. job[p].fill \in Fills
        BY <1>0, <2>3, JobFields DEF LotStage, PlanLots, CloseLot, OpenRemainder, Working
      <3> QED
        BY <1>0, <2>3, <3>1, PlanBooks, CloseBooks, OpenBooks DEF LotStage
    <2>4. CASE ProjectAttribution(p) \/ ProjectCash(p) \/ WriteHolding(p) \/ ProjectPnl(p)
      BY <1>0, <2>4, AttributionBooks, CashBooks, WriteHoldingBooks, PnlBooks
    <2>5. CASE \/ PreCheck(p) \/ ReadLots(p) \/ ReadHoldingRow(p) \/ ReadTrade(p) \/ WriteTrade(p)
               \/ LaterStages(p)
      BY <1>0, <2>5, ReadingBooks
    <2> QED
      BY <1>1, <2>1, <2>2, <2>3, <2>4, <2>5 DEF Step, HoldingStage, TradeStage
  <1>2. CASE UNCHANGED vars
    <2>1. UNCHANGED <<fills, events, pc, job, Rows, Ledgers>>
      BY <1>2 DEF vars, books, caller, Rows, Ledgers
    <2>2. JobsBacked'
      <3> SUFFICES ASSUME NEW p \in Procs, Working(p)' PROVE JobBacked(p)'
        BY DEF JobsBacked
      <3>1. Working(p) /\ JobBacked(p) /\ job[p].fill \in Fills
        BY <1>0, <2>1, JobFields DEF Working, BooksInv, JobsBacked
      <3>2. Shrinks /\ cash \subseteq cash' /\ Untouched(job[p].fill)
        BY <1>0, <2>1, <3>1, QuietRows
      <3> QED
        BY <1>0, <2>1, <3>1, <3>2, SameJob DEF SameEvent
    <2> QED
      BY <1>0, <2>1, <2>2, EventBooks DEF BooksInv, EventsBacked
  <1> QED
    BY <1>0, <1>1, <1>2, TablesBooks, TickBooks DEF Next

-----------------------------------------------------------------------------
(* The holding row: several callers may write it from lots that have moved  *)
(* since they read them.  The last one to write it, or to move the lots, is *)
(* the one that still compares the two.                                     *)

\* Writing the row or moving the lots leaves the writer to verify.
LEMMA WriterVerifies ==
    ASSUME BooksInv', NEW p \in Procs, Working(p)', NEW f \in fills', f = job'[p].fill,
           Owed'[f] # Qty[f], events'[f].done < Verified, Unconvinced(p)'
    PROVE  RowWatched'
  <1>1. \A q \in Procs : Working(q)' /\ job'[q].fill = f => q = p
    <2>1. \A a, b \in Procs : Working(a)' /\ Working(b)' /\ job'[a].fill = job'[b].fill => a = b
      BY DEF BooksInv, Exclusive, ExclusiveClaim
    <2> QED
      BY <2>1
  <1>2. StillToVerify(f)'
    BY <1>1 DEF StillToVerify
  <1> QED
    BY <1>2 DEF RowWatched

\* A caller whose read of the lots, if any, is the same.
SameView(q) ==
    /\ Working(q) /\ pc'[q] = pc[q] /\ job'[q].fill = job[q].fill
    /\ job'[q].view = job[q].view /\ job'[q].state.done = job[q].state.done

\* A step that writes neither the row nor the lots leaves somebody to verify,
\* unless it sets the verified flag or convinces the caller that would.
LEMMA WatchKept ==
    ASSUME RowWatched, UNCHANGED <<lots, liability, holding>>, fills \subseteq fills', fills \subseteq Fills,
           \A g \in fills : StillToVerify(g) => events'[g].done < Verified,
           \A q \in Procs : Working(q)' /\ holding # LongUnits =>
              SameView(q) \/ Unconvinced(q)' \/ ~StillToVerify(job'[q].fill)
    PROVE  RowWatched'
  <1>1. LongUnits' = LongUnits /\ \A g \in Fills : Owed'[g] = Owed[g]
    BY LotsKept
  <1>2. ASSUME holding' # LongUnits'
        PROVE  \E g \in fills' : StillToVerify(g)'
    <2>1. PICK g \in fills : StillToVerify(g)
      BY <1>1, <1>2 DEF RowWatched
    <2>2. ASSUME NEW q \in Procs, Working(q)', job'[q].fill = g
          PROVE  Unconvinced(q)'
      <3>1. SameView(q) => Unconvinced(q)'
        BY <2>1, <2>2 DEF SameView, StillToVerify, Unconvinced
      <3> QED
        BY <1>1, <1>2, <2>1, <2>2, <3>1
    <2>3. StillToVerify(g)'
      BY <1>1, <2>1, <2>2 DEF StillToVerify
    <2> QED
      BY <2>3
  <1> QED
    BY <1>2 DEF RowWatched

\* A step inside a stage.
LEMMA StageWatched ==
    ASSUME BooksInv, RowWatched, NEW p \in Procs, Stays(p), UNCHANGED <<lots, liability, holding>>,
           holding # LongUnits => Unconvinced(p)' \/ ~StillToVerify(job[p].fill)
    PROVE  RowWatched'
  <1>1. /\ UNCHANGED <<fills, events>> /\ fills \subseteq Fills /\ job'[p].fill = job[p].fill
        /\ \A q \in Procs : q # p => pc'[q] = pc[q] /\ job'[q] = job[q]
    BY DEF Stays, BooksInv, ShapeInv, TypeInv, TypeOK
  <1>2. \A q \in Procs : q # p /\ Working(q)' => SameView(q)
    BY <1>1 DEF SameView, Working
  <1>3. \A g \in fills : StillToVerify(g) => events'[g].done < Verified
    BY <1>1 DEF StillToVerify
  <1> QED
    BY <1>1, <1>2, <1>3, WatchKept

\* The stages of a caller, label by label.
LEMMA StagesWatched ==
    ASSUME Orderly, BooksInv, BooksInv', RowWatched, NEW p \in Procs, OtherStage(p)
    PROVE  RowWatched'
  <1> DEFINE n == job[p].state.done
  <1>0. /\ TypeInv /\ Stays(p) /\ UNCHANGED <<lots, liability>> /\ Working(p) /\ AtStage(p) /\ JobBacked(p)
        /\ pc \in [Procs -> PCs] /\ job \in [Procs -> Job] /\ job[p] \in Job
        /\ job[p].fill \in fills /\ job[p].fill \in Fills /\ n \in 0 .. Flags /\ n = job'[p].state.done
    BY StageStays, JobFields DEF BooksInv, ShapeInv, JobsBacked, JobBacked, CallersShaped, Stays, TypeInv, TypeOK
  <1>1. ASSUME UNCHANGED holding, pc'[p] # "verifyHolding", pc'[p] = "checkpoint" => n + 1 # Verified
        PROVE  RowWatched'
    BY <1>0, <1>1, StageWatched DEF Unconvinced
  <1>2. CASE PreCheck(p)
    <2>1. pc'[p] = "fail" \/ pc'[p] = NextStage(n)
      BY <1>0, <1>2 DEF PreCheck, Raise, Goto
    <2>2. pc'[p] \notin {"verifyHolding", "checkpoint"}
      BY <1>0, <2>1, NextStageFlag
    <2> QED
      BY <1>1, <1>2, <2>2 DEF PreCheck, books
  <1>3. CASE ProjectAttribution(p) \/ ProjectCash(p)
    <2>1. pc'[p] \in {"fail", "checkpoint"} /\ UNCHANGED holding /\ pc[p] \in {"attribution", "cash"}
      BY <1>0, <1>3 DEF ProjectAttribution, ProjectCash, Raise, Goto
    <2>2. n + 1 # Verified
      BY <1>0, <2>1 DEF AtStage, Stages, FlagAt, Attribution, Cash, Verified
    <2> QED
      BY <1>1, <2>1, <2>2
  <1>4. CASE ReadLots(p) \/ ReadHoldingRow(p)
    <2>1. pc'[p] \in {"holdingRow", "writeHolding", "checkpoint"} /\ UNCHANGED holding /\ pc[p] \in {"holding", "holdingRow"}
      BY <1>0, <1>4 DEF ReadLots, ReadHoldingRow, Goto, books
    <2>2. n + 1 # Verified
      BY <1>0, <2>1 DEF AtStage, Stages, FlagAt, Holding, Verified
    <2> QED
      BY <1>1, <2>1, <2>2
  <1>5. CASE WriteHolding(p)
    <2>1. pc[p] = "writeHolding" /\ ((UNCHANGED holding /\ pc'[p] = "fail") \/ pc'[p] = "checkpoint")
      BY <1>0, <1>5 DEF WriteHolding, Raise, Goto
    <2>2. n = Cash
      BY <1>0, <1>5 DEF WriteHolding, AtStage, Stages, FlagAt, Holding, Cash
    <2>3. CASE UNCHANGED holding /\ pc'[p] = "fail"
      BY <1>1, <2>3
    <2>4. CASE pc'[p] = "checkpoint"
      <3>1. PICK f \in fills' : f = job'[p].fill /\ f = job[p].fill
        BY <1>0 DEF Stays
      <3>2. Owed'[f] = 0 /\ Qty[f] > 0 /\ Qty[f] \in Nat
        <4>1. Owed[f] = 0
          BY <1>0, <2>2, <3>1 DEF JobBacked, Backed, Cash, Lot
        <4> QED
          BY <1>0, <3>1, <4>1, LotsKept, LotFields
      <3>3. events'[f].done < Verified
        BY <1>0, <2>2, <3>1 DEF JobBacked, Stays, Cash, Verified
      <3>4. Unconvinced(p)' /\ Working(p)'
        BY <1>0, <2>2, <2>4 DEF Unconvinced, Working, Cash, Verified
      <3>5. Owed'[f] # Qty[f]
        BY <3>2
      <3>6. f = job'[p].fill
        BY <3>1
      <3> HIDE DEF n
      <3> QED
        BY <3>3, <3>4, <3>5, <3>6, WriterVerifies
    <2> QED
      BY <2>1, <2>3, <2>4
  <1>6. CASE TradeStage(p)
    <2>1. /\ pc'[p] \in {"readTrade", "writeTrade", "checkpoint", "fail"} /\ UNCHANGED holding
          /\ pc[p] \in {"trade", "readTrade", "writeTrade"}
      BY <1>0, <1>6 DEF TradeStage, ProjectPnl, ReadTrade, WriteTrade, Raise, Goto, books
    <2>2. n + 1 # Verified
      BY <1>0, <2>1 DEF AtStage, Stages, FlagAt, Trade, Verified
    <2> QED
      BY <1>1, <2>1, <2>2
  <1>7. CASE VerifyLots(p)
    <2>1. UNCHANGED holding /\ pc[p] = "verify"
      BY <1>7 DEF VerifyLots, books
    <2>2. CASE Raise(p, HoldFailure(job[p].fill))
      BY <1>0, <1>1, <2>1, <2>2 DEF Raise, Goto
    <2>3. CASE job' = [job EXCEPT ![p].view.units = OpenUnits] /\ Goto(p, "verifyHolding")
      <3>1. job' = [job EXCEPT ![p].view = [job[p].view EXCEPT !.units = OpenUnits]]
        BY <2>3
      <3>2. UNCHANGED <<fills, events, batch>>
        BY <1>7 DEF VerifyLots
      <3>3. pc'[p] = "verifyHolding" /\ job'[p].view = [job[p].view EXCEPT !.units = OpenUnits]
        <4>1. Goto(p, "verifyHolding") /\ TypeInv /\ Working(p)
          BY <1>0, <2>3
        <4> QED
          BY <3>1, <3>2, <4>1, ViewStays
      <3>4. SumFunction(job'[p].view.units) = LongUnits
        BY <1>0, <3>3 DEF Job, LongUnits
      <3>5. holding # LongUnits => Unconvinced(p)'
        BY <2>1, <3>3, <3>4 DEF Unconvinced
      <3> QED
        BY <1>0, <2>1, <3>5, StageWatched
    <2> QED
      BY <1>7, <2>2, <2>3 DEF VerifyLots
  <1>8. CASE VerifyHolding(p)
    <2>1. UNCHANGED holding /\ pc[p] = "verifyHolding"
      BY <1>8 DEF VerifyHolding, books
    <2>2. CASE Raise(p, "INTEGRITY_VIOLATION")
      BY <1>0, <1>1, <2>1, <2>2 DEF Raise, Goto
    <2>3. CASE SumFunction(job[p].view.units) = holding
      <3>1. ~StillToVerify(job[p].fill)
        BY <1>0, <2>1, <2>3 DEF StillToVerify, Unconvinced
      <3> QED
        BY <1>0, <2>1, <3>1, StageWatched
    <2> QED
      BY <1>8, <2>2, <2>3 DEF VerifyHolding
  <1>9. CASE LatchLiability(p) \/ HoldOrder(p)
    <2>1. pc'[p] \in {"holdOrder", "checkpoint"} /\ UNCHANGED holding /\ pc[p] \in {"liability", "holdOrder"}
      BY <1>0, <1>9 DEF LatchLiability, HoldOrder, Goto, books
    <2>2. n + 1 # Verified
      BY <1>0, <2>1 DEF AtStage, Stages, FlagAt, Flags, Verified
    <2> QED
      BY <1>1, <2>1, <2>2
  <1> QED
    BY <1>2, <1>3, <1>4, <1>5, <1>6, <1>7, <1>8, <1>9 DEF OtherStage, HoldingStage, LaterStages

\* Planning writes nothing; a closure or an opening is still to be verified.
LEMMA LotsWatched ==
    ASSUME Orderly, BooksInv, BooksInv', RowWatched, NEW p \in Procs, LotStage(p)
    PROVE  RowWatched'
  <1> DEFINE n == job[p].state.done
  <1>0. /\ TypeInv /\ ShapeInv' /\ Exclusive' /\ Working(p) /\ pc[p] \in {"lot", "close", "open"}
    BY DEF LotStage, PlanLots, CloseLot, OpenRemainder, Working, BooksInv, ShapeInv
  <1>1. /\ Stays(p) /\ UNCHANGED holding
        /\ pc'[p] \in {"close", "open", "checkpoint", "fail"}
        /\ PlanLots(p) => UNCHANGED <<lots, liability>>
    <2>1. CASE PlanLots(p)
      BY <1>0, <2>1, PlanLotsEffect DEF Plans, LotStep, Rows
    <2>2. CASE CloseLot(p)
      BY <1>0, <2>2, CloseLotEffect DEF Closes, LotStep, PlanLots
    <2>3. CASE OpenRemainder(p)
      BY <1>0, <2>3, OpenRemainderEffect DEF Opens, Overdraws, PlanLots
    <2> QED
      BY <2>1, <2>2, <2>3 DEF LotStage
  <1>2. PICK f \in fills : f = job[p].fill
    BY <1>0 DEF BooksInv, ShapeInv, CallersShaped
  <1>3. /\ f \in Fills /\ f \in fills' /\ f = job'[p].fill /\ n = job'[p].state.done /\ n = 0
        /\ events'[f].done = 0
    <2>1. AtStage(p) /\ JobBacked(p) /\ f \in Fills /\ n \in 0 .. Flags
      BY <1>0, <1>2, JobFields DEF BooksInv, JobsBacked, JobBacked
    <2>2. n = 0
      BY <1>0, <2>1 DEF AtStage, Stages, FlagAt, Lot
    <2> QED
      BY <1>1, <1>2, <2>1, <2>2 DEF Stays, JobBacked
  <1>4. Unconvinced(p)' /\ Working(p)'
    BY <1>1, <1>3 DEF Unconvinced, Verified, Working
  <1>5. CASE UNCHANGED <<lots, liability>>
    BY <1>1, <1>4, <1>5, StageWatched
  <1>6. CASE Enters(f)
    <2>1. Owed'[f] # Qty[f]
      BY <1>0, <1>3, <1>6, Amounts, LotFields DEF Enters
    <2> QED
      BY <1>3, <1>4, <2>1, WriterVerifies DEF Verified
  <1> QED
    BY <1>0, <1>1, <1>2, <1>3, <1>5, <1>6, CloseBooks, OpenBooks DEF LotStage

\* Claims and checkpoints: only a stage's checkpoint can set the verified flag,
\* and the caller that gets there is convinced.
LEMMA EventsWatched ==
    ASSUME BooksInv, RowWatched, NEW p \in Procs,
           Claim(p) \/ Checkpoint(p) \/ Complete(p) \/ FailCheckpoint(p)
    PROVE  RowWatched'
  <1>0. /\ TypeInv /\ fills \subseteq Fills /\ \A g \in Fills : events[g].done \in 0 .. Flags
    <2>1. TypeInv /\ fills \subseteq Fills /\ \A g \in Fills : events[g] \in Event
      BY DEF BooksInv, ShapeInv, TypeInv, TypeOK
    <2> QED
      BY <2>1, EventFields
  <1>1. ASSUME Others(p), UNCHANGED <<fills, Rows>>, Working(p)' => Unconvinced(p)',
               \A g \in fills : StillToVerify(g) => events'[g].done < Verified
        PROVE  RowWatched'
    <2>1. \A q \in Procs : q # p /\ Working(q)' => SameView(q)
      BY <1>1 DEF Others, SameView, Working
    <2> QED
      BY <1>0, <1>1, <2>1, WatchKept DEF Rows
  <1>2. ASSUME Others(p), UNCHANGED <<fills, Rows, events>>, Working(p)' => Unconvinced(p)'
        PROVE  RowWatched'
    BY <1>1, <1>2 DEF StillToVerify
  <1>3. ASSUME Raised(p), UNCHANGED <<fills, Rows>>
        PROVE  RowWatched'
    BY <1>2, <1>3 DEF Raised, Unconvinced
  <1>4. CASE Claim(p)
    <2>1. /\ Others(p) /\ UNCHANGED <<fills, Rows>>
          /\ \/ pc'[p] = "batch" /\ UNCHANGED events
             \/ \E f \in fills : Takes(p, f)
      BY <1>4, ClaimEffect DEF BooksInv
    <2>2. Unconvinced(p)'
      BY <2>1 DEF Unconvinced, Takes
    <2>3. \A g \in fills : events'[g].done = events[g].done
      BY <1>0, <2>1 DEF Takes, Rewrites
    <2> QED
      BY <1>1, <2>1, <2>2, <2>3 DEF StillToVerify
  <1>5. ASSUME Working(p)
        PROVE  /\ job[p].fill \in Fills /\ events[job[p].fill].done = job[p].state.done
               /\ job[p].claimed.done <= job[p].state.done
               /\ job[p].claimed.done \in 0 .. Flags /\ job[p].state.done \in 0 .. Flags
    BY <1>0, <1>5, JobFields DEF BooksInv, JobsBacked, JobBacked
  <1>6. CASE Checkpoint(p)
    <2>1. /\ pc[p] = "checkpoint" /\ Working(p) /\ UNCHANGED <<fills, Rows>>
          /\ Raised(p) \/ (SetsFlag(p) /\ Others(p))
      BY <1>0, <1>6, CheckpointEffect
    <2>2. CASE SetsFlag(p) /\ Others(p)
      <3>1. PICK e \in Event :
              /\ Rewrites(job[p].fill, e) /\ e.done = job[p].state.done + 1
              /\ pc'[p] = NextStage(e.done)
        BY <2>2 DEF SetsFlag
      <3>2. Unconvinced(p)'
        BY <3>1, EventFields, NextStageFlag DEF Unconvinced
      <3>3. ASSUME NEW g \in fills, StillToVerify(g)
            PROVE  events'[g].done < Verified
        <4>1. CASE g = job[p].fill
          <5>1. job[p].state.done + 1 # Verified /\ events[g].done < Verified
            BY <2>1, <3>3, <4>1 DEF StillToVerify, Unconvinced
          <5> QED
            BY <1>5, <2>1, <3>1, <4>1, <5>1 DEF Rewrites, Verified, Flags
        <4>2. CASE g # job[p].fill
          BY <1>0, <3>1, <3>3, <4>2 DEF Rewrites, StillToVerify
        <4> QED
          BY <4>1, <4>2
      <3> QED
        BY <1>1, <2>1, <2>2, <3>2, <3>3
    <2> QED
      BY <1>3, <2>1, <2>2
  <1>7. CASE Complete(p)
    <2>1. /\ Working(p) /\ UNCHANGED <<fills, Rows>> /\ (Raised(p) \/ (Completes(p) /\ Others(p)))
      BY <1>0, <1>7, CompleteEffect
    <2>2. CASE Completes(p) /\ Others(p)
      <3>1. \A g \in fills : events'[g].done = events[g].done
        BY <1>0, <1>5, <2>1, <2>2 DEF Completes, Rewrites
      <3>2. ~Working(p)'
        BY <2>2 DEF Completes, Working
      <3> QED
        BY <1>1, <2>1, <2>2, <3>1, <3>2 DEF StillToVerify
    <2> QED
      BY <1>3, <2>1, <2>2
  <1>8. CASE FailCheckpoint(p)
    <2>1. /\ Working(p) /\ UNCHANGED <<fills, Rows>> /\ Others(p) /\ ~Working(p)'
          /\ UNCHANGED events \/ Fails(p)
      BY <1>0, <1>8, FailEffect DEF Working
    <2>2. \A g \in fills : events'[g].done \in Int /\ events'[g].done <= events[g].done
      BY <1>0, <1>5, <2>1 DEF Fails, Rewrites, Flags
    <2>3. \A g \in fills : StillToVerify(g) => events'[g].done < Verified
      BY <1>0, <2>2 DEF StillToVerify, Verified, Flags
    <2> QED
      BY <1>1, <2>1, <2>3
  <1> QED
    BY <1>4, <1>6, <1>7, <1>8

\* Every step leaves a row that is not that of the lots to somebody to verify.
LEMMA NextWatched ==
    ASSUME Orderly, BooksInv, BooksInv', RowWatched, [Next]_vars
    PROVE  RowWatched'
  <1>0. TypeInv /\ fills \subseteq Fills
    BY DEF BooksInv, ShapeInv, TypeInv, TypeOK
  <1>1. ASSUME UNCHANGED Rows, fills \subseteq fills',
               \A g \in fills : events'[g].done = events[g].done,
               \A q \in Procs : Working(q)' => SameView(q)
        PROVE  RowWatched'
    BY <1>0, <1>1, WatchKept DEF Rows, StillToVerify
  <1>2. ASSUME NEW p \in Procs, Step(p) \/ LeaseLost(p) \/ Crash(p)
        PROVE  RowWatched'
    <2>1. CASE StartBatch(p) \/ FinishBatch(p) \/ LeaseLost(p) \/ Latch(p) \/ Crash(p)
      <3>1. UNCHANGED <<fills, events, Rows>> /\ ~Working(p)' /\ Others(p)
        BY <2>1, BatchEffect DEF BooksInv, Working
      <3>2. \A q \in Procs : Working(q)' => SameView(q)
        BY <3>1 DEF Others, SameView, Working
      <3> QED
        BY <1>1, <3>1, <3>2
    <2> QED
      BY <1>2, <2>1, LotsWatched, StagesWatched, EventsWatched DEF Step, OtherStage
  <1>3. CASE \/ \E f \in Fills : Attribute(f)
             \/ \E o \in Orders : Verification(o)
             \/ Audit \/ AuditLatch
    <2>1. UNCHANGED <<pc, job, Rows>> /\ \A q \in Procs : Working(q)' => SameView(q)
      BY <1>0, <1>3, TablesEffect DEF SameView, Working
    <2>2. fills \subseteq fills' /\ \A g \in fills : events'[g].done = events[g].done
      BY <1>0, <1>3, TablesEffect DEF Rewrites, BooksInv, ShapeInv, RecordedFirst, Unrecorded
    <2> QED
      BY <1>1, <2>1, <2>2
  <1>4. CASE Tick
    <2>1. /\ UNCHANGED <<fills, pc, Rows>> /\ \A f \in Fills : SameEvent(events'[f], events[f])
          /\ \A q \in Procs : /\ job'[q].fill = job[q].fill /\ job'[q].view = job[q].view
                              /\ SameEvent(job'[q].state, job[q].state)
      BY <1>0, <1>4, TickEffect
    <2>2. \A q \in Procs : Working(q)' => SameView(q)
      BY <2>1 DEF SameView, Working, SameEvent
    <2> QED
      BY <1>0, <1>1, <2>1, <2>2 DEF SameEvent
  <1>5. CASE UNCHANGED vars
    BY <1>1, <1>5 DEF vars, books, caller, Rows, SameView, Working
  <1> QED
    BY <1>2, <1>3, <1>4, <1>5 DEF Next

-----------------------------------------------------------------------------
(* What the invariant says of the books.                                   *)

\* While no batch outlives its lease, or only one caller runs, and no sell is
\* executed beyond what was authorised, however many callers work on the books at once and whatever
\* crashes, loses its lease, is held up or retried between two transactions,
\* every lot balances, every fill is allocated at most once and in full when
\* its lot flag is set, COMPLETED is backed by its rows, and the holding row
\* of completed fills is the sum of their lots.
THEOREM BooksStayBalanced == ASSUME Orderly PROVE Spec => []BooksBalance
  <1>1. BooksInv /\ RowWatched => BooksBalance
    <2> SUFFICES ASSUME BooksInv, RowWatched PROVE BooksBalance
      OBVIOUS
    <2>0. TypeInv /\ ShapeInv /\ BooksOK /\ EventsBacked /\ fills \subseteq Fills
      BY DEF BooksInv, ShapeInv, TypeInv, TypeOK
    <2>1. ASSUME NEW f \in Fills
          PROVE  /\ Allocated(f) \in Nat /\ Qty[f] \in Nat /\ Owed[f] = Qty[f] - Allocated(f)
                 /\ Owed[f] >= 0 /\ Backed(f, events[f].done, events[f].realized)
                 /\ liability[f] = 0 /\ lots[f].opened \in Nat
                 /\ SumFunction(ClosedBy(f)) \in Nat
                 /\ Allocated(f) = SumFunction(ClosedBy(f)) + lots[f].opened + liability[f]
                 /\ \A l \in Fills : ClosedBy(f)[l] = lots[l].closures[f]
      BY <2>0, Amounts, LotFields DEF BooksOK, EventsBacked, Sided
    <2>2. FillAllocation
      BY <2>1 DEF FillAllocation, Backed
    <2>3. CompletedIsProven
      <3> SUFFICES ASSUME NEW f \in Fills, events[f].status = "COMPLETED"
                   PROVE  /\ events[f].done = Flags /\ CashProven(f) /\ PnlProven(f, events[f])
                          /\ liability[f] > 0 => latched /\ Held(f)
        BY DEF CompletedIsProven
      <3>1. events[f].done = Flags
        BY <2>0 DEF ShapeInv, CompletedHasFlags
      <3>2. /\ Owed[f] = 0 /\ events[f].realized = ClosedBy(f) /\ f \in cash
            /\ \A l \in Fills : attribution[l][f] = lots[l].closures[f]
            /\ \A l \in Fills : lots[l].closures[f] > 0 => pnl[l][f] = lots[l].closures[f]
        BY <2>1, <3>1 DEF Backed, Flags, Lot, Attribution, Cash, Trade
      <3>3. SumFunction(ClosedBy(f)) + lots[f].opened + liability[f] = Qty[f]
        BY <2>1, <3>2
      <3>4. \A l \in Fills : LotBalanced(l)
        BY <2>0 DEF BooksOK, LotConservation
      <3>5. PnlProven(f, events[f])
        BY <2>1, <3>2, <3>3, <3>4 DEF PnlProven, PnlEvidence
      <3> QED
        BY <2>1, <3>1, <3>2, <3>5 DEF CashProven
    <2>4. SettledHoldingMatchesLots
      <3>1. \A f \in fills : events[f].status = "COMPLETED" => ~(events[f].done < Verified)
        BY <2>0 DEF ShapeInv, CompletedHasFlags, Flags, Verified
      <3> QED
        BY <3>1 DEF SettledHoldingMatchesLots, RowWatched, StillToVerify
    <2> QED
      BY <2>0, <2>2, <2>3, <2>4 DEF BooksBalance, BooksOK
  <1>2. Init => BooksInv /\ RowWatched
    <2> SUFFICES ASSUME Init PROVE BooksInv /\ RowWatched
      OBVIOUS
    <2>1. BooksInv /\ TypeInv
      BY InitBooks DEF BooksInv, ShapeInv
    <2>2. LongUnits = 0
      <3>1. \A l \in Fills : OpenUnits[l] = 0
        BY DEF Init, NoLot, OpenUnits
      <3> QED
        BY <2>1, <3>1, Units, SumOfZeros, SettlementAssumption
    <2> QED
      BY <2>1, <2>2 DEF Init, RowWatched
  <1>3. (BooksInv /\ RowWatched) /\ [Next]_vars => (BooksInv /\ RowWatched)'
    BY NextBooks, NextWatched
  <1> QED
    BY <1>1, <1>2, <1>3, PTL DEF Spec

-----------------------------------------------------------------------------
(* Settlement implements the ledger of FillLedger.                         *)

InBooks == [f \in Fills |-> Allocated(f)]
Completed == {f \in Fills : events[f].status = "COMPLETED"}

\* Nothing enters the books and no event completes: the ledger stutters.
LEMMA LedgerStutters ==
    ASSUME UNCHANGED <<lots, liability>>,
           \A f \in Fills : events'[f].status = "COMPLETED" <=> events[f].status = "COMPLETED"
    PROVE  UNCHANGED <<InBooks, Completed>>
  <1>1. \A f \in Fills : Allocated(f)' = Allocated(f)
    BY LotsKept
  <1>2. InBooks' = [f \in Fills |-> Allocated(f)'] /\ InBooks = [f \in Fills |-> Allocated(f)]
    BY DEF InBooks
  <1>3. Completed' = Completed
    BY DEF Completed
  <1> QED
    BY <1>1, <1>2, <1>3

\* A closure or an opening is a Project step of the ledger.
LEMMA EntersProjects ==
    ASSUME TypeInv, TypeInv', NEW f \in Fills, Enters(f), UNCHANGED events, events[f].status # "COMPLETED"
    PROVE  Ledger!Project(f)
  <1>1. PICK q \in Nat : q > 0 /\ q <= Owed[f] /\ Owed'[f] = Owed[f] - q
    BY DEF Enters
  <1>2. /\ \A g \in Fills : g # f => Allocated(g)' = Allocated(g)
        /\ \A g \in Fills : Owed'[g] = Qty[g] - Allocated(g)' /\ Owed[g] = Qty[g] - Allocated(g)
        /\ Allocated(f) \in Nat /\ Allocated(f)' \in Int /\ Qty[f] \in Nat
    <2>1. \A g \in Fills : g # f => Allocated(g)' = Allocated(g)
      BY KeptAmounts DEF Enters
    <2>2. \A g \in Fills : Owed'[g] = Qty[g] - Allocated(g)' /\ Owed[g] = Qty[g] - Allocated(g)
      BY DEF Owed
    <2>3. Allocated(f) \in Nat /\ Qty[f] \in Nat
      BY Amounts, LotFields
    <2>4. Allocated(f)' \in Int
      <3>1. /\ \A l \in Fills : lots'[l] \in LotRow
            /\ liability'[f] \in Nat /\ lots'[f].opened \in Nat
        BY DEF TypeInv, TypeOK, LotRow
      <3>2. ClosedBy(f)' \in [Fills -> Nat]
        BY <3>1 DEF ClosedBy, LotRow
      <3>3. SumFunction(ClosedBy(f)') \in Nat
        BY <3>2, TakeSum
      <3> QED
        BY <3>1, <3>3 DEF Allocated
    <2> QED
      BY <2>1, <2>2, <2>3, <2>4
  <1>3. Allocated(f)' = Allocated(f) + q /\ q \in 1 .. (Qty[f] - Allocated(f))
    BY <1>1, <1>2
  <1>4. InBooks' = [InBooks EXCEPT ![f] = @ + q]
    <2>1. InBooks' = [g \in Fills |-> Allocated(g)'] /\ InBooks = [g \in Fills |-> Allocated(g)]
      BY DEF InBooks
    <2> QED
      BY <1>2, <1>3, <2>1
  <1>5. Completed' = Completed /\ f \notin Completed /\ InBooks[f] = Allocated(f)
    BY DEF Completed, InBooks
  <1> QED
    BY <1>3, <1>4, <1>5 DEF Ledger!Project, InBooks, Completed

\* The COMPLETED checkpoint is a Settle step of the ledger.
LEMMA CompletesSettles ==
    ASSUME TypeInv, NEW f \in Fills, UNCHANGED <<lots, liability>>, Owed[f] = 0,
           events'[f].status = "COMPLETED", \A g \in Fills : g # f => events'[g] = events[g]
    PROVE  Ledger!Settle(f)
  <1>1. \A g \in Fills : Allocated(g)' = Allocated(g)
    BY LotsKept
  <1>2. InBooks' = InBooks
    <2>1. InBooks' = [g \in Fills |-> Allocated(g)'] /\ InBooks = [g \in Fills |-> Allocated(g)]
      BY DEF InBooks
    <2> QED
      BY <1>1, <2>1
  <1>3. Completed' = Completed \cup {f}
    BY DEF Completed
  <1>4. InBooks[f] = Qty[f]
    <2>1. Allocated(f) \in Nat /\ Qty[f] \in Nat /\ Owed[f] = Qty[f] - Allocated(f)
      BY Amounts, LotFields
    <2>2. Allocated(f) = Qty[f]
      BY <2>1
    <2> QED
      BY <2>2 DEF InBooks
  <1> QED
    BY <1>2, <1>3, <1>4 DEF Ledger!Settle, InBooks, Completed

\* Every step of settlement is a step of the ledger or leaves it alone.
LEMMA NextLedger ==
    ASSUME Orderly, BooksInv, BooksInv', [Next]_vars
    PROVE  [Ledger!Next]_(Ledger!vars)
  <1>0. /\ TypeInv /\ TypeInv' /\ ShapeInv /\ ShapeInv' /\ Exclusive' /\ EventsBacked
        /\ \A p \in Procs : Working(p) => JobBacked(p) /\ job[p].fill \in Fills
    BY JobFields DEF BooksInv, ShapeInv, JobsBacked
  <1>1. ASSUME UNCHANGED <<lots, liability>>,
               \A f \in Fills : events'[f].status = "COMPLETED" <=> events[f].status = "COMPLETED"
        PROVE  UNCHANGED Ledger!vars
    BY <1>1, LedgerStutters DEF Ledger!vars, InBooks, Completed
  <1>2. ASSUME NEW p \in Procs, Step(p) \/ LeaseLost(p) \/ Crash(p)
        PROVE  [Ledger!Next]_(Ledger!vars)
    <2>1. CASE StartBatch(p) \/ FinishBatch(p) \/ LeaseLost(p) \/ Latch(p) \/ Crash(p)
      BY <1>0, <1>1, <2>1, BatchEffect DEF Rows
    <2>2. CASE Claim(p)
      BY <1>0, <1>1, <2>2, ClaimEffect DEF Rows, Takes, Rewrites
    <2>3. CASE Checkpoint(p)
      <3>1. /\ Working(p) /\ UNCHANGED <<lots, liability>> /\ (Raised(p) \/ SetsFlag(p))
        BY <1>0, <2>3, CheckpointEffect DEF Rows
      <3>2. events[job[p].fill].status = "PROCESSING" /\ job[p].state.status = "PROCESSING"
        BY <1>0, <3>1 DEF JobBacked, ShapeInv, CallersShaped
      <3> QED
        BY <1>0, <1>1, <3>1, <3>2 DEF Raised, SetsFlag, Rewrites
    <2>4. CASE Complete(p)
      <3>1. /\ Working(p) /\ pc[p] = "complete" /\ UNCHANGED <<lots, liability>>
            /\ Raised(p) \/ Completes(p)
        BY <1>0, <2>4, CompleteEffect DEF Rows
      <3>2. PICK f \in Fills : f = job[p].fill
        BY <1>0, <3>1
      <3>3. Owed[f] = 0
        BY <1>0, <3>1, <3>2 DEF JobBacked, Backed, ShapeInv, CallersShaped, Flags, Lot
      <3>4. CASE Raised(p)
        BY <1>1, <3>1, <3>4 DEF Raised
      <3>5. CASE Completes(p)
        <4>1. events'[f].status = "COMPLETED" /\ \A g \in Fills : g # f => events'[g] = events[g]
          BY <3>2, <3>5 DEF Completes, Rewrites
        <4> QED
          BY <1>0, <3>1, <3>3, <4>1, CompletesSettles DEF Ledger!Next
      <3> QED
        BY <3>1, <3>4, <3>5
    <2>5. CASE FailCheckpoint(p)
      <3>1. Working(p) /\ UNCHANGED <<lots, liability>> /\ (UNCHANGED events \/ Fails(p))
        BY <1>0, <2>5, FailEffect DEF Rows
      <3>2. events[job[p].fill].status = "PROCESSING"
        BY <1>0, <3>1 DEF JobBacked
      <3> QED
        BY <1>0, <1>1, <3>1, <3>2 DEF Fails, Rewrites
    <2>6. CASE CloseLot(p) \/ OpenRemainder(p)
      <3>1. Working(p)
        BY <2>6 DEF CloseLot, OpenRemainder, Working
      <3>2. PICK f \in Fills : f = job[p].fill
        BY <1>0, <3>1
      <3>3. events[f].status = "PROCESSING" /\ UNCHANGED events
        BY <1>0, <2>6, <3>1, <3>2 DEF JobBacked, CloseLot, OpenRemainder
      <3>4. UNCHANGED <<lots, liability>> \/ Enters(f)
        BY <1>0, <2>6, <3>2, CloseBooks, OpenBooks
      <3> QED
        BY <1>0, <1>1, <3>3, <3>4, EntersProjects DEF Ledger!Next
    <2>7. CASE PlanLots(p) \/ OtherStage(p)
      BY <1>0, <1>1, <2>7, PlanLotsEffect, StageStays DEF Rows, Stays
    <2> QED
      BY <1>2, <2>1, <2>2, <2>3, <2>4, <2>5, <2>6, <2>7 DEF Step, LotStage, OtherStage
  <1>3. CASE \/ \E f \in Fills : Attribute(f)
             \/ \E o \in Orders : Verification(o)
             \/ Audit \/ AuditLatch
    <2>1. \A f \in Fills \ fills : events[f].status = "absent"
      BY <1>0 DEF ShapeInv, RecordedFirst, Unrecorded
    <2>2. UNCHANGED <<lots, liability>>
      BY <1>0, <1>3, TablesEffect DEF Rows
    <2>3. \A f \in Fills : events'[f].status = "COMPLETED" <=> events[f].status = "COMPLETED"
      <3>1. CASE UNCHANGED events
        BY <3>1
      <3>2. CASE \E f \in fills : \E e \in Event :
                   /\ Rewrites(f, e) /\ events[f].status \in {"absent", "PENDING", "RETRYABLE_FAILED"}
                   /\ e.status \in {"PENDING", "INTEGRITY_BLOCKED"}
        BY <3>2 DEF Rewrites
      <3> QED
        BY <1>0, <1>3, <2>1, <3>1, <3>2, TablesEffect
    <2> QED
      BY <1>1, <2>2, <2>3
  <1>4. CASE Tick
    BY <1>0, <1>1, <1>4, TickEffect DEF Rows, SameEvent
  <1>5. CASE UNCHANGED vars
    BY <1>1, <1>5 DEF vars, books
  <1> QED
    BY <1>2, <1>3, <1>4, <1>5 DEF Next

\* Under the same condition settlement implements the ledger of FillLedger: the
\* units of a fill enter lots, closures or liability once, never leave them,
\* and the fill completes, for good, only when all of them are in.
THEOREM SettlementIsALedger == ASSUME Orderly PROVE Spec => ImplementsLedger
  <1>1. Init => Ledger!Init
    <2> SUFFICES ASSUME Init PROVE Ledger!Init
      OBVIOUS
    <2>1. \A f \in Fills : Allocated(f) = 0
      BY InitShape, UnrecordedAllocates DEF Init
    <2>2. \A f \in Fills : events[f].status # "COMPLETED"
      BY DEF Init, Absent, Pending
    <2> QED
      BY <2>1, <2>2 DEF Ledger!Init
  <1>2. BooksInv /\ BooksInv' /\ [Next]_vars => [Ledger!Next]_(Ledger!vars)
    BY NextLedger
  <1> QED
    BY <1>1, <1>2, InitBooks, NextBooks, PTL DEF Spec, ImplementsLedger, Ledger!Spec

-----------------------------------------------------------------------------
(* A lone caller.  Until two callers overlap, what the caller reads of its *)
(* order's fills and events is still there when it writes the trade intent, *)
(* and what a latch was set for is kept by every step.                     *)

OfOrder(o) == {g \in fills : OrderOf[g] = o}
Tells(row, g) == g \in row.filled /\ g \in row.realized

\* A trade intent, or one about to be written, tells of every fill of the order
\* whose event says so, and of no other order's.
TellsAll(row, o) ==
    /\ row.filled \subseteq OfOrder(o) /\ row.realized \subseteq OfOrder(o)
    /\ \A g \in OfOrder(o) : events[g].done >= Trade => Tells(row, g)

\* The caller's copy of the event is the one on file, and its label is that of its flags.
InHand(p) ==
    LET f == job[p].fill  n == job[p].state.done IN
    /\ events[f].status = "PROCESSING" /\ events[f].done = n /\ job[p].claimed.done <= n
    /\ pc[p] \in Stages \ {"checkpoint"} => n + 1 = FlagAt(pc[p])
    /\ pc[p] = "writeTrade" => /\ TellsAll(job[p].view.trade, OrderOf[f])
                               /\ Tells(job[p].view.trade, f)
    /\ pc[p] = "checkpoint" /\ n + 1 = Trade => Tells(intent[OrderOf[f]], f)

OneCaller == \A p, q \in Procs : pc[p] # "idle" /\ pc[q] # "idle" => p = q
InHands == \A p \in Procs : Working(p) => InHand(p)
TradesTold == \A o \in Orders : TellsAll(intent[o], o)

\* Nothing is projected of a fill that is not recorded.
Unstarted == \A f \in Fills \ fills : events[f].done = 0

\* What the session may be latched for.
Genuine ==
    \/ \E f \in Fills : events[f].status \in {"INTEGRITY_BLOCKED", "TERMINAL_FAILED"}
    \/ \E f \in Fills : liability[f] > 0
    \/ \E o \in Orders : dispute[o] # NoDispute

\* Whoever is about to latch has a reason.
LatchesTrue ==
    /\ latched => Genuine
    /\ \A p \in Procs : pc[p] = "latch" => Genuine
    /\ auditor = "idle"
    /\ \A o \in Orders : dispute[o].phase = "none" => dispute[o].todo = {}

LoneBooks == OneCaller /\ InHands /\ TradesTold /\ Unstarted /\ LatchesTrue
LoneInv == ShapeInv /\ (~overlapped => LoneBooks)

\* Where the handlers of a stage go, and which of them writes the intent.
LEMMA StageLabels ==
    ASSUME TypeInv, NEW p \in Procs, LotStage(p) \/ OtherStage(p),
           pc[p] \in Stages \ {"checkpoint"} => job[p].state.done + 1 = FlagAt(pc[p])
    PROVE  /\ pc'[p] \in Stages \ {"checkpoint"} => job[p].state.done + 1 = FlagAt(pc'[p])
           /\ pc'[p] = "writeTrade" => ReadTrade(p)
           /\ pc'[p] = "checkpoint" /\ job[p].state.done + 1 = Trade => WriteTrade(p)
           /\ WriteTrade(p) \/ UNCHANGED intent
           /\ pc'[p] # "latch"
  <1> DEFINE n == job[p].state.done
  <1>0. pc \in [Procs -> PCs] /\ n \in 0 .. Flags
    BY JobFields DEF TypeInv, TypeOK
  <1> USE DEF Goto, Raise, books, FlagAt, Stages, Lot, Attribution, Cash, Holding, Trade, Verified, Flags
  <1>1. CASE PreCheck(p)
    <2>1. CASE pc'[p] = "fail"
      BY <1>1, <2>1 DEF PreCheck
    <2>2. CASE pc'[p] # "fail"
      <3>1. pc'[p] = NextStage(n) /\ UNCHANGED intent
        BY <1>0, <1>1, <2>2 DEF PreCheck
      <3>2. /\ NextStage(n) \in {"lot", "attribution", "cash", "holding", "trade", "verify", "liability", "complete"}
            /\ NextStage(n) # "complete" => n + 1 = FlagAt(NextStage(n))
        BY <1>0, NextStageFlag
      <3> QED
        BY <3>1, <3>2
    <2> QED
      BY <2>1, <2>2
  <1>2. CASE PlanLots(p) \/ CloseLot(p) \/ OpenRemainder(p)
    <2>1. pc[p] \in {"lot", "close", "open"} /\ UNCHANGED intent
      BY <1>2 DEF PlanLots, CloseLot, OpenRemainder
    <2>2. pc'[p] \in {"fail", "close", "open", "checkpoint"}
      BY <1>0, <1>2 DEF PlanLots, CloseLot, OpenRemainder, LotStep
    <2> QED
      BY <2>1, <2>2
  <1>3. CASE ProjectAttribution(p) \/ ProjectCash(p) \/ HoldingStage(p)
    <2>1. UNCHANGED intent
      BY <1>3 DEF ProjectAttribution, ProjectCash, HoldingStage, ReadLots, ReadHoldingRow, WriteHolding
    <2>2. \/ pc[p] \in {"attribution", "cash"} /\ pc'[p] \in {"fail", "checkpoint"}
          \/ /\ pc[p] \in {"holding", "holdingRow", "writeHolding"}
             /\ pc'[p] \in {"fail", "holdingRow", "writeHolding", "checkpoint"}
      BY <1>0, <1>3 DEF ProjectAttribution, ProjectCash, HoldingStage, ReadLots, ReadHoldingRow, WriteHolding
    <2> QED
      BY <2>1, <2>2
  <1>4. CASE ProjectPnl(p)
    BY <1>0, <1>4 DEF ProjectPnl
  <1>5. CASE ReadTrade(p)
    BY <1>0, <1>5 DEF ReadTrade
  <1>6. CASE WriteTrade(p)
    BY <1>0, <1>6 DEF WriteTrade
  <1>7. CASE LaterStages(p)
    <2>1. UNCHANGED intent
      BY <1>7 DEF LaterStages, VerifyLots, VerifyHolding, LatchLiability, HoldOrder
    <2>2. /\ pc[p] \in {"verify", "verifyHolding", "liability", "holdOrder"}
          /\ pc'[p] \in {"fail", "verifyHolding", "holdOrder", "checkpoint"}
          /\ pc'[p] = "verifyHolding" => pc[p] = "verify"
          /\ pc'[p] = "holdOrder" => pc[p] = "liability"
      BY <1>0, <1>7 DEF LaterStages, VerifyLots, VerifyHolding, LatchLiability, HoldOrder
    <2> QED
      BY <2>1, <2>2
  <1> QED
    BY <1>1, <1>2, <1>3, <1>4, <1>5, <1>6, <1>7 DEF LotStage, OtherStage, TradeStage

\* While p is the one caller, the others are idle before and after its step.
LEMMA OthersIdle ==
    ASSUME OneCaller, NEW p \in Procs, pc[p] # "idle",
           \A q \in Procs : q # p => pc'[q] = pc[q]
    PROVE  OneCaller' /\ \A q \in Procs : q # p => ~Working(q)'
  BY DEF OneCaller, Working

\* The steps inside a stage: what is read of the order is complete, and is
\* written as it was read.
LEMMA LoneStage ==
    ASSUME ShapeInv, LoneBooks, NEW p \in Procs, LotStage(p) \/ OtherStage(p)
    PROVE  OneCaller' /\ InHands' /\ TradesTold' /\ Unstarted'
  <1> DEFINE f == job[p].fill
             n == job[p].state.done
  <1>0. TypeInv
    BY DEF ShapeInv
  <1>1. Stays(p)
    BY <1>0, StageStays, PlanLotsEffect, CloseLotEffect, OpenRemainderEffect DEF LotStage
  <1>2. /\ Working(p) /\ InHand(p) /\ f \in fills /\ f \in Fills /\ OrderOf[f] \in Orders
        /\ n \in 0 .. Flags /\ events \in [Fills -> Event] /\ fills \subseteq Fills
    BY <1>0, <1>1, JobFields, LotFields DEF Stays, LoneBooks, InHands, ShapeInv, CallersShaped, TypeInv, TypeOK
  <1>3. /\ job'[p].fill = f /\ job'[p].claimed = job[p].claimed /\ job'[p].state.done = n
        /\ UNCHANGED <<fills, events>>
        /\ \A q \in Procs : q # p => pc'[q] = pc[q] /\ job'[q] = job[q]
    BY <1>1 DEF Stays
  <1>4. /\ pc'[p] \in Stages \ {"checkpoint"} => n + 1 = FlagAt(pc'[p])
        /\ pc'[p] = "writeTrade" => ReadTrade(p)
        /\ pc'[p] = "checkpoint" /\ n + 1 = Trade => WriteTrade(p)
        /\ WriteTrade(p) \/ UNCHANGED intent
    BY <1>0, <1>2, StageLabels DEF InHand
  <1>5. OneCaller' /\ \A q \in Procs : q # p => ~Working(q)'
    BY <1>2, <1>3, OthersIdle DEF Working, LoneBooks
  <1>6. \A r, o : TellsAll(r, o) <=> /\ r.filled \subseteq OfOrder(o)' /\ r.realized \subseteq OfOrder(o)'
                                    /\ \A g \in OfOrder(o)' : events'[g].done >= Trade => Tells(r, g)
    BY <1>3 DEF TellsAll, OfOrder
  <1>7. CASE WriteTrade(p) /\ pc'[p] # "fail"
    <2>1. /\ pc[p] = "writeTrade" /\ pc'[p] = "checkpoint"
          /\ intent' = [intent EXCEPT ![OrderOf[f]] = job[p].view.trade]
      BY <1>0, <1>7 DEF WriteTrade, Raise, Goto, TypeInv, TypeOK
    <2>2. TellsAll(job[p].view.trade, OrderOf[f]) /\ Tells(job[p].view.trade, f)
      BY <1>2, <2>1 DEF InHand
    <2>3. /\ intent'[OrderOf[f]] = job[p].view.trade
          /\ \A o \in Orders : o # OrderOf[f] => intent'[o] = intent[o]
      BY <1>0, <1>2, <2>1 DEF TypeInv, TypeOK
    <2>4. TradesTold'
      <3> SUFFICES ASSUME NEW o \in Orders PROVE TellsAll(intent[o], o)'
        BY DEF TradesTold
      <3>1. TellsAll(intent'[o], o)
        BY <2>2, <2>3 DEF LoneBooks, TradesTold
      <3> QED
        BY <1>6, <3>1 DEF TellsAll, Tells
    <2>5. InHand(p)'
      BY <1>2, <1>3, <1>4, <2>1, <2>2, <2>3 DEF InHand, Tells
    <2> QED
      BY <1>3, <1>5, <2>4, <2>5 DEF LoneBooks, InHands, Unstarted
  <1>8. CASE UNCHANGED intent /\ ~(pc'[p] = "checkpoint" /\ n + 1 = Trade)
    <2>1. TradesTold'
      <3> SUFFICES ASSUME NEW o \in Orders PROVE TellsAll(intent[o], o)'
        BY DEF TradesTold
      <3>1. TellsAll(intent[o], o)
        BY DEF LoneBooks, TradesTold
      <3> QED
        BY <1>6, <1>8, <3>1 DEF TellsAll, Tells
    <2>2. CASE pc'[p] = "writeTrade"
      <3>1. pc[p] = "readTrade" /\ job'[p].view.trade = TradeOf(OrderOf[f])
        <4>1. /\ pc[p] = "readTrade" /\ job[p] \in Job /\ job \in [Procs -> Job]
              /\ job' = [job EXCEPT ![p].view = [job[p].view EXCEPT !.trade = TradeOf(OrderOf[f])]]
          BY <1>0, <1>4, <2>2 DEF ReadTrade, TypeInv, TypeOK
        <4>2. job'[p].view = [job[p].view EXCEPT !.trade = TradeOf(OrderOf[f])]
          BY <4>1 DEF Job
        <4> QED
          BY <4>1, <4>2 DEF Job
      <3>2. n = Holding
        BY <1>2, <3>1 DEF InHand, FlagAt, Stages, Lot, Attribution, Cash, Holding, Trade
      <3>3. \A g \in OfOrder(OrderOf[f]) : events[g].done >= Trade => events[g].done >= Lot
        <4> SUFFICES ASSUME NEW g \in OfOrder(OrderOf[f]) PROVE events[g].done \in 0 .. Flags
          BY DEF Trade, Lot, Flags
        <4> QED
          BY <1>2, EventFields DEF OfOrder
      <3>4. f \in OfOrder(OrderOf[f]) /\ events[f].done >= Lot
        BY <1>2, <3>2 DEF OfOrder, InHand, Holding, Lot
      <3>5. TellsAll(TradeOf(OrderOf[f]), OrderOf[f]) /\ Tells(TradeOf(OrderOf[f]), f)
        BY <3>3, <3>4 DEF TellsAll, Tells, TradeOf, OfOrder
      <3>6. TellsAll(job[p].view.trade, OrderOf[f])'
        <4>1. PICK r, o : r = TradeOf(OrderOf[f]) /\ o = OrderOf[f]
          OBVIOUS
        <4>2. TellsAll(r, o)
          BY <3>5, <4>1
        <4>3. job'[p].view.trade = r /\ OrderOf[job'[p].fill] = o
          BY <1>3, <3>1, <4>1
        <4> QED
          BY <1>6, <4>2, <4>3 DEF TellsAll, Tells
      <3>7. InHand(p)'
        BY <1>2, <1>3, <1>4, <2>2, <3>1, <3>5, <3>6 DEF InHand, Tells
      <3> QED
        BY <1>3, <1>5, <2>1, <3>7 DEF LoneBooks, InHands, Unstarted
    <2>3. CASE pc'[p] # "writeTrade"
      <3>1. InHand(p)'
        BY <1>2, <1>3, <1>4, <1>8, <2>3 DEF InHand
      <3> QED
        BY <1>3, <1>5, <2>1, <3>1 DEF LoneBooks, InHands, Unstarted
    <2> QED
      BY <2>2, <2>3
  <1> QED
    <2>1. WriteTrade(p) /\ pc'[p] = "fail" => UNCHANGED intent
      BY <1>0 DEF WriteTrade, Goto, TypeInv, TypeOK
    <2> QED
      BY <1>4, <1>7, <1>8, <2>1

\* A step that rewrites at most the event in its caller's hands leaves every
\* trade told, if a flag it sets beyond trade_projected is one the intent tells of.
LEMMA LoneRow ==
    ASSUME ShapeInv, TypeInv', LoneBooks, NEW p \in Procs, Others(p), Working(p)' => InHand(p)',
           \A q \in Procs : q # p => pc[q] = "idle",
           UNCHANGED <<fills, intent>>,
           \A g \in Fills :
              \/ events'[g].done <= events[g].done
              \/ g \in fills /\ (events[g].done >= Trade \/ events'[g].done < Trade \/ Tells(intent[OrderOf[g]], g))
    PROVE  OneCaller' /\ InHands' /\ TradesTold' /\ Unstarted'
  <1>0. /\ fills \subseteq Fills
        /\ \A g \in Fills : events[g].done \in 0 .. Flags /\ events'[g].done \in 0 .. Flags
    BY EventFields DEF ShapeInv, TypeInv, TypeOK
  <1>1. OneCaller' /\ InHands'
    BY DEF Others, OneCaller, InHands, Working
  <1>2. TradesTold'
    <2> SUFFICES ASSUME NEW o \in Orders PROVE TellsAll(intent[o], o)'
      BY DEF TradesTold
    <2>1. TellsAll(intent[o], o) /\ OfOrder(o)' = OfOrder(o)
      BY DEF LoneBooks, TradesTold, OfOrder
    <2>2. ASSUME NEW g \in OfOrder(o), events'[g].done >= Trade PROVE Tells(intent[o], g)
      <3>1. g \in Fills /\ OrderOf[g] = o
        BY <1>0 DEF OfOrder
      <3>2. events[g].done >= Trade \/ Tells(intent[o], g)
        BY <1>0, <2>2, <3>1 DEF Trade, Flags
      <3> QED
        BY <2>1, <3>2 DEF TellsAll
    <2> QED
      BY <2>1, <2>2 DEF TellsAll, Tells
  <1>3. Unstarted'
    <2> SUFFICES ASSUME NEW g \in Fills \ fills PROVE events'[g].done = 0
      BY DEF Unstarted
    <2>1. events'[g].done <= events[g].done /\ events[g].done = 0
      BY DEF LoneBooks, Unstarted
    <2> QED
      BY <1>0, <2>1 DEF Flags
  <1> QED
    BY <1>1, <1>2, <1>3

\* The steps that take an event, set its flag or give it up.
LEMMA LoneEvent ==
    ASSUME ShapeInv, TypeInv', LoneBooks, ~overlapped', NEW p \in Procs,
           \/ StartBatch(p) \/ FinishBatch(p) \/ LeaseLost(p) \/ Latch(p) \/ Crash(p)
           \/ Claim(p) \/ Checkpoint(p) \/ Complete(p) \/ FailCheckpoint(p)
    PROVE  OneCaller' /\ InHands' /\ TradesTold' /\ Unstarted'
  <1> DEFINE f == job[p].fill
             n == job[p].state.done
  <1>0. /\ TypeInv /\ events \in [Fills -> Event] /\ fills \subseteq Fills
        /\ \A g \in Fills : events[g].done \in 0 .. Flags
        /\ Working(p) => /\ InHand(p) /\ f \in fills /\ f \in Fills /\ OrderOf[f] \in Orders
                         /\ n \in 0 .. Flags /\ job[p].claimed.done \in 0 .. Flags
                         /\ job[p].state.status = "PROCESSING"
    BY JobFields, LotFields, EventFields DEF ShapeInv, CallersShaped, TypeInv, TypeOK, LoneBooks, InHands
  <1>1. \A q \in Procs : q # p => pc[q] = "idle"
    <2>1. CASE StartBatch(p)
      BY <2>1 DEF StartBatch
    <2>2. CASE ~StartBatch(p)
      <3>1. pc[p] # "idle"
        BY <2>2 DEF FinishBatch, LeaseLost, Latch, Crash, Claim, Checkpoint, Complete, FailCheckpoint
      <3> QED
        BY <3>1 DEF LoneBooks, OneCaller
    <2> QED
      BY <2>1, <2>2
  <1>2. UNCHANGED intent
    BY DEF StartBatch, FinishBatch, LeaseLost, Latch, Crash, Claim, Checkpoint, Complete, FailCheckpoint, books
  <1>3. CASE StartBatch(p) \/ FinishBatch(p) \/ LeaseLost(p) \/ Latch(p) \/ Crash(p)
    <2>1. Others(p) /\ UNCHANGED <<fills, events>> /\ ~Working(p)'
      BY <1>3, BatchEffect DEF Working
    <2>2. \A g \in Fills : events'[g].done <= events[g].done
      BY <1>0, <2>1 DEF Flags
    <2> QED
      BY <1>1, <1>2, <2>1, <2>2, LoneRow
  <1>4. CASE Claim(p)
    <2>1. /\ Others(p) /\ UNCHANGED fills
          /\ \/ pc'[p] = "batch" /\ UNCHANGED events
             \/ \E g \in fills : Takes(p, g)
      BY <1>4, ClaimEffect DEF Rows
    <2>2. CASE pc'[p] = "batch" /\ UNCHANGED events
      <3>1. \A g \in Fills : events'[g].done <= events[g].done
        BY <1>0, <2>2 DEF Flags
      <3> QED
        BY <1>1, <1>2, <2>1, <2>2, <3>1, LoneRow DEF Working
    <2>3. ASSUME NEW g \in fills, Takes(p, g)
          PROVE  OneCaller' /\ InHands' /\ TradesTold' /\ Unstarted'
      <3>1. PICK e \in Event :
              /\ Rewrites(g, e) /\ e.status = "PROCESSING" /\ e.done = events[g].done
              /\ job'[p].fill = g /\ job'[p].claimed = e /\ job'[p].state = e /\ pc'[p] = "precheck"
        BY <2>3 DEF Takes
      <3>2. \A h \in Fills : events'[h].done <= events[h].done
        BY <1>0, <3>1 DEF Rewrites, Flags
      <3>3. InHand(p)'
        BY <1>0, <3>1 DEF InHand, Rewrites, Stages, Flags
      <3> QED
        BY <1>1, <1>2, <2>1, <3>2, <3>3, LoneRow
    <2> QED
      BY <2>1, <2>2, <2>3
  <1>5. ASSUME Raised(p), Working(p), UNCHANGED fills
        PROVE  OneCaller' /\ InHands' /\ TradesTold' /\ Unstarted'
    <2>1. InHand(p)'
      BY <1>0, <1>5 DEF Raised, InHand, Stages
    <2>2. \A g \in Fills : events'[g].done <= events[g].done
      BY <1>0, <1>5 DEF Raised, Flags
    <2> QED
      BY <1>1, <1>2, <1>5, <2>1, <2>2, LoneRow DEF Raised
  <1>6. CASE Checkpoint(p)
    <2>1. /\ pc[p] = "checkpoint" /\ Working(p) /\ UNCHANGED fills
          /\ Raised(p) \/ (SetsFlag(p) /\ Others(p))
      BY <1>0, <1>6, CheckpointEffect
    <2>2. CASE SetsFlag(p) /\ Others(p)
      <3>1. PICK e \in Event :
              /\ Rewrites(f, e) /\ e.status = "PROCESSING" /\ e.done = n + 1
              /\ job'[p].fill = f /\ job'[p].claimed = job[p].claimed /\ job'[p].state = e
              /\ pc'[p] = NextStage(e.done)
        BY <1>0, <2>1, <2>2 DEF SetsFlag
      <3>2. n + 1 \in 0 .. Flags /\ job[p].claimed.done <= n + 1
        BY <1>0, <2>1, <3>1, EventFields DEF InHand, Flags
      <3>3. /\ NextStage(n + 1) \in {"lot", "attribution", "cash", "holding", "trade", "verify", "liability", "complete"}
            /\ NextStage(n + 1) # "complete" => n + 2 = FlagAt(NextStage(n + 1))
        <4>1. (n + 1) + 1 = n + 2
          BY <1>0, <2>1, SMT DEF Flags
        <4> QED
          BY <3>2, <4>1, NextStageFlag
      <3>4. InHand(p)'
        <4>1. (n + 1) + 1 = n + 2
          BY <1>0, <2>1, SMT DEF Flags
        <4>2. events'[f] = e
          BY <3>1 DEF Rewrites
        <4> QED
          BY <3>1, <3>2, <3>3, <4>1, <4>2 DEF InHand, Stages
      <3>5. events[f].done >= Trade \/ e.done < Trade \/ Tells(intent[OrderOf[f]], f)
        BY <1>0, <2>1, <3>1 DEF InHand, Trade, Flags
      <3>6. \A g \in Fills : events'[g].done <= events[g].done \/ g = f
        BY <1>0, <3>1 DEF Rewrites, Flags
      <3> QED
        BY <1>0, <1>1, <1>2, <2>1, <2>2, <3>1, <3>4, <3>5, <3>6, LoneRow DEF Rewrites
    <2> QED
      BY <1>5, <2>1, <2>2
  <1>7. CASE Complete(p)
    <2>1. Working(p) /\ UNCHANGED fills /\ (Raised(p) \/ (Completes(p) /\ Others(p)))
      BY <1>0, <1>7, CompleteEffect
    <2>2. CASE Completes(p) /\ Others(p)
      <3>1. \A g \in Fills : events'[g].done <= events[g].done
        BY <1>0, <2>1, <2>2 DEF Completes, Rewrites, InHand, Flags
      <3>2. ~Working(p)'
        BY <2>2 DEF Completes, Working
      <3> QED
        BY <1>1, <1>2, <2>1, <2>2, <3>1, <3>2, LoneRow
    <2> QED
      BY <1>5, <2>1, <2>2
  <1>8. CASE FailCheckpoint(p)
    <2>1. /\ Working(p) /\ UNCHANGED fills /\ Others(p) /\ ~Working(p)'
          /\ UNCHANGED events \/ Fails(p)
      BY <1>0, <1>8, FailEffect DEF Working
    <2>2. \A g \in Fills : events'[g].done <= events[g].done
      BY <1>0, <2>1 DEF Fails, Rewrites, InHand, Flags
    <2> QED
      BY <1>1, <1>2, <2>1, <2>2, LoneRow
  <1> QED
    BY <1>3, <1>4, <1>6, <1>7, <1>8

\* What happens around the callers leaves their events alone, and time too.
LEMMA LoneAround ==
    ASSUME ShapeInv, ShapeInv', LoneBooks,
           \/ \E f \in Fills : Attribute(f)
           \/ \E o \in Orders : Verification(o)
           \/ Audit \/ AuditLatch \/ Tick \/ UNCHANGED vars
    PROVE  OneCaller' /\ InHands' /\ TradesTold' /\ Unstarted'
  <1>0. /\ TypeInv /\ events \in [Fills -> Event] /\ fills \subseteq Fills /\ fills' \subseteq Fills
        /\ \A g \in Fills \ fills : events[g].status = "absent"
    BY DEF ShapeInv, TypeInv, TypeOK, RecordedFirst, Unrecorded
  <1>1. /\ UNCHANGED <<pc, intent>> /\ fills \subseteq fills'
        /\ \A p \in Procs : /\ job'[p].fill = job[p].fill /\ job'[p].view = job[p].view
                            /\ job'[p].state.done = job[p].state.done
                            /\ job'[p].claimed.done = job[p].claimed.done
        /\ \A g \in Fills : /\ events'[g].done = events[g].done
                            /\ events[g].status = "PROCESSING" => events'[g].status = "PROCESSING"
    <2>1. CASE Tick
      BY <1>0, <2>1, TickEffect DEF SameEvent, Tick, books
    <2>2. CASE UNCHANGED vars
      BY <2>2 DEF vars, caller, books
    <2>3. CASE \/ \E f \in Fills : Attribute(f)
               \/ \E o \in Orders : Verification(o)
               \/ Audit \/ AuditLatch
      <3>1. UNCHANGED intent
        BY <2>3 DEF Attribute, RecordFill, EnqueueSettlement, BlockEvent, Verification, HoldForVerification,
               ReleaseVerification, BeginDispute, PlaceDisputeHold, LatchDispute, Audit, AuditLatch, books
      <3>2. UNCHANGED <<pc, job>> /\ fills \subseteq fills'
        BY <1>0, <2>3, TablesEffect
      <3>3. \A g \in Fills : /\ events'[g].done = events[g].done
                             /\ events[g].status = "PROCESSING" => events'[g].status = "PROCESSING"
        BY <1>0, <2>3, TablesEffect DEF Rewrites
      <3>4. job' = job /\ pc' = pc /\ fills \subseteq fills'
        BY <3>2
      <3>5. \A p \in Procs : /\ job'[p].fill = job[p].fill /\ job'[p].view = job[p].view
                             /\ job'[p].state.done = job[p].state.done
                             /\ job'[p].claimed.done = job[p].claimed.done
        BY <3>4
      <3> QED
        BY <3>1, <3>3, <3>4, <3>5
    <2> QED
      BY <2>1, <2>2, <2>3
  <1>2. \A g \in Fills \ fills : events'[g].done = 0
    BY <1>1 DEF LoneBooks, Unstarted
  <1>3. ASSUME NEW o \in Orders, NEW row, TellsAll(row, o)
        PROVE  /\ row.filled \subseteq OfOrder(o)' /\ row.realized \subseteq OfOrder(o)'
               /\ \A g \in OfOrder(o)' : events'[g].done >= Trade => Tells(row, g)
    <2>1. OfOrder(o) \subseteq OfOrder(o)' /\ OfOrder(o)' \subseteq Fills
      BY <1>0, <1>1 DEF OfOrder
    <2>2. ASSUME NEW g \in OfOrder(o)', events'[g].done >= Trade PROVE Tells(row, g)
      <3>1. g \in fills
        BY <1>2, <2>1, <2>2 DEF Trade
      <3> QED
        BY <1>0, <1>1, <1>3, <2>2, <3>1 DEF TellsAll, OfOrder
    <2> QED
      BY <1>3, <2>1, <2>2 DEF TellsAll
  <1>4. OneCaller' /\ Unstarted'
    BY <1>1, <1>2 DEF LoneBooks, OneCaller, Unstarted
  <1>5. TradesTold'
    <2> SUFFICES ASSUME NEW o \in Orders PROVE TellsAll(intent[o], o)'
      BY DEF TradesTold
    <2>1. TellsAll(intent[o], o) /\ intent'[o] = intent[o]
      BY <1>1 DEF LoneBooks, TradesTold
    <2> QED
      BY <1>3, <2>1 DEF TellsAll, Tells
  <1>6. InHands'
    <2> SUFFICES ASSUME NEW p \in Procs, Working(p)' PROVE InHand(p)'
      BY DEF InHands
    <2>1. Working(p) /\ InHand(p) /\ job[p].fill \in Fills /\ OrderOf[job[p].fill] \in Orders
      BY <1>0, <1>1, JobFields, LotFields DEF LoneBooks, InHands, Working
    <2>2. pc[p] = "writeTrade" => /\ TellsAll(job[p].view.trade, OrderOf[job[p].fill])'
                                  /\ Tells(job[p].view.trade, job[p].fill)'
      BY <1>1, <1>3, <2>1 DEF InHand, TellsAll, Tells
    <2> QED
      BY <1>1, <2>1, <2>2 DEF InHand, Tells
  <1> QED
    BY <1>4, <1>5, <1>6

\* What a step of a caller does to the session: it latches after a verdict of its
\* own, or for a liability it finds.
LEMMA CallerLatches ==
    ASSUME ShapeInv, NEW p \in Procs, Step(p) \/ LeaseLost(p) \/ Crash(p)
    PROVE  /\ UNCHANGED <<dispute, auditor>>
           /\ \A f \in Fills : liability[f] > 0 => liability'[f] = liability[f]
           /\ latched' => latched \/ pc[p] = "latch" \/ \E f \in Fills : liability[f] > 0
           /\ \A q \in Procs : q # p => pc'[q] = pc[q]
           /\ pc'[p] = "latch" =>
                 \E f \in Fills : events'[f].status \in {"INTEGRITY_BLOCKED", "TERMINAL_FAILED"}
  <1>0. /\ TypeInv /\ pc \in [Procs -> PCs] /\ job \in [Procs -> Job] /\ events \in [Fills -> Event]
        /\ liability \in [Fills -> Nat] /\ (Working(p) => job[p].fill \in Fills)
    BY JobFields DEF ShapeInv, TypeInv, TypeOK
  <1> USE DEF books, world
  <1>1. CASE StartBatch(p) \/ FinishBatch(p) \/ LeaseLost(p) \/ Latch(p) \/ Crash(p) \/ Claim(p)
    <2>1. UNCHANGED <<dispute, auditor, liability>> /\ (latched' = latched \/ pc[p] = "latch")
      BY <1>1 DEF StartBatch, FinishBatch, LeaseLost, Latch, Crash, Claim
    <2>2. pc'[p] # "latch" /\ \A q \in Procs : q # p => pc'[q] = pc[q]
      BY <1>0, <1>1 DEF StartBatch, FinishBatch, LeaseLost, Latch, Crash, Claim, EndOfBatch, Goto
    <2> QED
      BY <2>1, <2>2
  <1>2. CASE Checkpoint(p) \/ Complete(p)
    <2>1. UNCHANGED <<dispute, auditor, liability, latched>>
      BY <1>2 DEF Checkpoint, Complete
    <2>2. \A q \in Procs : q # p => pc'[q] = pc[q]
      BY <1>0, <1>2, CheckpointEffect, CompleteEffect DEF Raised, Others
    <2>3. pc'[p] # "latch"
      <3>1. CASE Checkpoint(p)
        <4>1. Raised(p) \/ SetsFlag(p)
          BY <1>0, <3>1, CheckpointEffect
        <4>2. ASSUME SetsFlag(p) PROVE pc'[p] # "latch"
          BY <4>2, NextStageFlag, EventFields DEF SetsFlag
        <4> QED
          BY <4>1, <4>2 DEF Raised
      <3>2. CASE Complete(p)
        BY <1>0, <3>2, CompleteEffect DEF Raised, Completes
      <3> QED
        BY <1>2, <3>1, <3>2
    <2> QED
      BY <2>1, <2>2, <2>3
  <1>3. CASE FailCheckpoint(p)
    <2>0. job[p].fill \in Fills /\ job[p].claimed \in Event
      <3>1. pc[p] = "fail"
        BY <1>3 DEF FailCheckpoint
      <3> QED
        BY <1>0, <3>1, JobFields DEF Working
    <2>1. UNCHANGED <<dispute, auditor, liability, latched>>
      BY <1>3 DEF FailCheckpoint
    <2>2. \A q \in Procs : q # p => pc'[q] = pc[q]
      BY <1>0, <1>3, FailEffect DEF Others
    <2>3. ASSUME pc'[p] = "latch"
          PROVE  events'[job[p].fill].status \in {"INTEGRITY_BLOCKED", "TERMINAL_FAILED"}
      <3>2. /\ events' = [events EXCEPT ![job[p].fill] = Failed(p)]
            /\ Failed(p).status # "RETRYABLE_FAILED"
        BY <1>0, <1>3, <2>3 DEF FailCheckpoint, EndOfBatch, Goto
      <3>3. Failed(p).status \in {"INTEGRITY_BLOCKED", "TERMINAL_FAILED", "RETRYABLE_FAILED"}
        BY <2>0 DEF Failed, FailureStatus, Event
      <3>4. events'[job[p].fill] = Failed(p)
        BY <1>0, <2>0, <3>2
      <3> QED
        BY <3>2, <3>3, <3>4
    <2> QED
      BY <2>0, <2>1, <2>2, <2>3
  <1>4. CASE LotStage(p) \/ OtherStage(p)
    <2>1. Stays(p)
      BY <1>0, <1>4, StageStays, PlanLotsEffect, CloseLotEffect, OpenRemainderEffect DEF LotStage
    <2>2. pc'[p] # "latch" /\ \A q \in Procs : q # p => pc'[q] = pc[q]
      BY <2>1 DEF Stays
    <2>3. CASE LotStage(p)
      <3>1. UNCHANGED <<dispute, auditor, latched>>
        BY <2>3 DEF LotStage, PlanLots, CloseLot, OpenRemainder
      <3>2. \A f \in Fills : liability[f] > 0 => liability'[f] = liability[f]
        <4>1. CASE PlanLots(p) \/ CloseLot(p)
          BY <4>1 DEF PlanLots, CloseLot
        <4>2. CASE OpenRemainder(p)
          <5> DEFINE f == job[p].fill
          <5>1. \/ liability' = liability
                \/ liability' = IF liability[f] > 0 THEN liability ELSE [liability EXCEPT ![f] = job[p].rest]
            BY <4>2 DEF OpenRemainder
          <5> QED
            BY <1>0, <5>1
        <4> QED
          BY <2>3, <4>1, <4>2 DEF LotStage
      <3> QED
        BY <2>2, <3>1, <3>2
    <2>4. CASE PreCheck(p) \/ ProjectAttribution(p) \/ ProjectCash(p)
      BY <2>2, <2>4 DEF PreCheck, ProjectAttribution, ProjectCash
    <2>5. CASE HoldingStage(p) \/ TradeStage(p)
      BY <2>2, <2>5 DEF HoldingStage, ReadLots, ReadHoldingRow, WriteHolding, TradeStage, ProjectPnl,
                        ReadTrade, WriteTrade
    <2>6. CASE VerifyLots(p) \/ VerifyHolding(p) \/ HoldOrder(p)
      BY <2>2, <2>6 DEF VerifyLots, VerifyHolding, HoldOrder
    <2>7. CASE LatchLiability(p)
      <3>1. job[p].fill \in Fills /\ UNCHANGED <<dispute, auditor, liability>>
        <4>1. pc[p] = "liability" /\ UNCHANGED <<dispute, auditor, liability>>
          BY <2>7 DEF LatchLiability
        <4> QED
          BY <1>0, <4>1 DEF Working
      <3>2. UNCHANGED latched \/ liability[job[p].fill] > 0
        BY <2>7 DEF LatchLiability
      <3> QED
        BY <2>2, <3>1, <3>2
    <2> QED
      BY <1>4, <2>3, <2>4, <2>5, <2>6, <2>7 DEF OtherStage, LaterStages
  <1> QED
    BY <1>1, <1>2, <1>3, <1>4 DEF Step, LotStage, HoldingStage, TradeStage, LaterStages, OtherStage

\* A final verdict stands: who writes an event has it in hand, or found it waiting.
LEMMA FinalStands ==
    ASSUME ShapeInv, InHands, [Next]_vars,
           NEW g \in Fills, events[g].status \in {"INTEGRITY_BLOCKED", "TERMINAL_FAILED"}
    PROVE  events'[g].status = events[g].status
  <1>0. /\ TypeInv /\ \A f \in Fills \ fills : events[f].status = "absent"
        /\ \A p \in Procs : Working(p) => events[job[p].fill].status = "PROCESSING" /\ job[p].fill \in Fills
    BY JobFields DEF ShapeInv, InHands, InHand, RecordedFirst, Unrecorded
  <1>1. ASSUME NEW p \in Procs, Step(p) \/ LeaseLost(p) \/ Crash(p)
        PROVE  events'[g].status = events[g].status
    <2>1. CASE StartBatch(p) \/ FinishBatch(p) \/ LeaseLost(p) \/ Latch(p) \/ Crash(p)
      BY <2>1, BatchEffect
    <2>2. CASE Claim(p)
      BY <2>2, ClaimEffect DEF Takes, Rewrites
    <2>3. CASE Checkpoint(p)
      BY <1>0, <2>3, CheckpointEffect DEF Raised, SetsFlag, Rewrites
    <2>4. CASE Complete(p)
      BY <1>0, <2>4, CompleteEffect DEF Raised, Completes, Rewrites
    <2>5. CASE FailCheckpoint(p)
      BY <1>0, <2>5, FailEffect DEF Fails, Rewrites
    <2>6. CASE LotStage(p) \/ OtherStage(p)
      BY <1>0, <2>6, StageStays, PlanLotsEffect, CloseLotEffect, OpenRemainderEffect DEF LotStage, Stays
    <2> QED
      BY <1>1, <2>1, <2>2, <2>3, <2>4, <2>5, <2>6 DEF Step, OtherStage
  <1>2. CASE \/ \E f \in Fills : Attribute(f)
             \/ \E o \in Orders : Verification(o)
             \/ Audit \/ AuditLatch
    BY <1>0, <1>2, TablesEffect DEF Rewrites
  <1>3. CASE Tick
    BY <1>0, <1>3, TickEffect DEF SameEvent
  <1>4. CASE UNCHANGED vars
    BY <1>4 DEF vars
  <1> QED
    BY <1>1, <1>2, <1>3, <1>4 DEF Next

\* What happens around the callers: a dispute goes on to its latch and is never taken
\* back, and without the audit nobody else latches.
LEMMA AroundLatches ==
    ASSUME ~Auditing, ShapeInv, LatchesTrue,
           \/ \E f \in Fills : Attribute(f)
           \/ \E o \in Orders : Verification(o)
           \/ Audit \/ AuditLatch \/ Tick \/ UNCHANGED vars
    PROVE  /\ UNCHANGED <<pc, liability, auditor>>
           /\ \A o \in Orders : /\ dispute[o] # NoDispute => dispute'[o] # NoDispute
                                /\ dispute'[o].phase = "none" => dispute'[o].todo = {}
           /\ latched' => latched \/ \E o \in Orders : dispute[o] # NoDispute
  <1>0. dispute \in [Orders -> Dispute] /\ TypeInv /\ \A f \in Fills : OrderOf[f] \in Orders
    BY LotFields DEF ShapeInv, TypeInv, TypeOK
  <1> USE DEF caller, books, world
  <1>1. CASE Tick \/ UNCHANGED vars \/ \E f \in Fills : RecordFill(f) \/ EnqueueSettlement(f)
    <2>1. UNCHANGED <<pc, liability, auditor, dispute, latched>>
      BY <1>1 DEF Tick, vars, RecordFill, EnqueueSettlement
    <2> QED
      BY <2>1 DEF LatchesTrue
  <1>2. ASSUME NEW f \in Fills, BlockEvent(f)
        PROVE  /\ UNCHANGED <<pc, liability, auditor, latched>>
               /\ \A o \in Orders : /\ dispute[o] # NoDispute => dispute'[o] # NoDispute
                                    /\ dispute'[o].phase = "none" => dispute'[o].todo = {}
    <2> DEFINE d == [dispute[OrderOf[f]] EXCEPT !.todo = @ \ {f}]
    <2>1. UNCHANGED <<pc, liability, auditor, latched>> /\ f \in dispute[OrderOf[f]].todo
      BY <1>2 DEF BlockEvent
    <2>2. dispute[OrderOf[f]].phase # "none"
      BY <1>0, <2>1 DEF LatchesTrue
    <2>3. dispute' = [dispute EXCEPT ![OrderOf[f]] = d]
      BY <1>2 DEF BlockEvent
    <2>4. d.phase = dispute[OrderOf[f]].phase
      BY <1>0 DEF Dispute
    <2> HIDE DEF d
    <2>5. dispute'[OrderOf[f]].phase # "none" /\ \A o \in Orders : o # OrderOf[f] => dispute'[o] = dispute[o]
      BY <1>0, <2>2, <2>3, <2>4
    <2> QED
      BY <2>1, <2>5 DEF LatchesTrue, NoDispute
  <1>3. ASSUME NEW o \in Orders, HoldForVerification(o) \/ ReleaseVerification(o)
        PROVE  UNCHANGED <<pc, liability, auditor, dispute, latched>>
    BY <1>3 DEF HoldForVerification, ReleaseVerification
  <1>4. ASSUME NEW o \in Orders, BeginDispute(o) \/ PlaceDisputeHold(o) \/ LatchDispute(o)
        PROVE  /\ UNCHANGED <<pc, liability, auditor>>
               /\ \A k \in Orders : /\ dispute[k] # NoDispute => dispute'[k] # NoDispute
                                    /\ dispute'[k].phase = "none" => dispute'[k].todo = {}
               /\ latched' => latched \/ dispute[o] # NoDispute
    <2>1. /\ UNCHANGED <<pc, liability, auditor>>
          /\ dispute'[o].phase # "none" /\ \A k \in Orders : k # o => dispute'[k] = dispute[k]
          /\ latched' = latched \/ dispute[o].phase = "latch"
      BY <1>0, <1>4 DEF BeginDispute, PlaceDisputeHold, LatchDispute, Dispute
    <2> QED
      BY <2>1 DEF LatchesTrue, NoDispute
  <1>5. ~Audit /\ ~AuditLatch
    BY DEF Audit, AuditLatch, LatchesTrue
  <1> QED
    <2>1. CASE \E o \in Orders : HoldForVerification(o) \/ ReleaseVerification(o)
      BY <1>3, <2>1 DEF LatchesTrue
    <2> QED
      BY <1>1, <1>2, <1>4, <1>5, <2>1 DEF Attribute, Verification

\* The reason for a latch is never lost, and nobody latches without one.
LEMMA LatchesKept ==
    ASSUME ~Auditing, ShapeInv, InHands, LatchesTrue, [Next]_vars
    PROVE  LatchesTrue'
  <1>1. ASSUME NEW p \in Procs, Step(p) \/ LeaseLost(p) \/ Crash(p)
        PROVE  LatchesTrue'
    <2>1. Genuine => Genuine'
      BY <1>1, CallerLatches, FinalStands DEF Genuine
    <2>2. latched' => Genuine
      BY <1>1, CallerLatches DEF LatchesTrue, Genuine
    <2>3. \A q \in Procs : pc'[q] = "latch" => Genuine'
      <3> SUFFICES ASSUME NEW q \in Procs, pc'[q] = "latch" PROVE Genuine'
        OBVIOUS
      <3>1. CASE q = p
        BY <1>1, <3>1, CallerLatches DEF Genuine
      <3>2. CASE q # p
        BY <1>1, <2>1, <3>2, CallerLatches DEF LatchesTrue
      <3> QED
        BY <3>1, <3>2
    <2>4. UNCHANGED <<dispute, auditor>>
      BY <1>1, CallerLatches
    <2> QED
      BY <2>1, <2>2, <2>3, <2>4 DEF LatchesTrue
  <1>2. CASE \/ \E f \in Fills : Attribute(f)
             \/ \E o \in Orders : Verification(o)
             \/ Audit \/ AuditLatch \/ Tick \/ UNCHANGED vars
    <2>1. Genuine => Genuine'
      BY <1>2, AroundLatches, FinalStands DEF Genuine
    <2>2. latched' => Genuine
      BY <1>2, AroundLatches DEF LatchesTrue, Genuine
    <2> QED
      BY <1>2, <2>1, <2>2, AroundLatches DEF LatchesTrue
  <1> QED
    BY <1>1, <1>2 DEF Next

\* At the beginning nobody has done anything.
LEMMA LoneInit == Init => LoneInv
  <1> SUFFICES ASSUME Init PROVE LoneInv
    OBVIOUS
  <1>1. ShapeInv
    BY InitShape
  <1>2. OneCaller /\ InHands /\ LatchesTrue
    BY DEF Init, OneCaller, InHands, Working, LatchesTrue, NoDispute
  <1>3. \A f \in Fills : events[f].done = 0
    BY DEF Init, Absent, Pending
  <1>4. TradesTold
    BY DEF Init, TradesTold, TellsAll, OfOrder, NoTrade
  <1> QED
    BY <1>1, <1>2, <1>3, <1>4 DEF LoneInv, LoneBooks, Unstarted

\* Only a caller that starts its batch makes two callers overlap: no stage does ...
LEMMA StageOverlaps ==
    ASSUME NEW p \in Procs,
           \/ LotStage(p) \/ ProjectAttribution(p) \/ ProjectCash(p)
           \/ HoldingStage(p) \/ TradeStage(p) \/ LaterStages(p)
    PROVE  overlapped' = overlapped
  <1>1. CASE PlanLots(p)
    BY Zenon, <1>1 DEF PlanLots, world
  <1>2. CASE CloseLot(p)
    BY <1>2 DEF CloseLot, world
  <1>3. CASE OpenRemainder(p)
    BY <1>3 DEF OpenRemainder, world
  <1>4. CASE ProjectAttribution(p)
    BY <1>4 DEF ProjectAttribution, world
  <1>5. CASE ProjectCash(p)
    BY <1>5 DEF ProjectCash, world
  <1>6. CASE ReadLots(p)
    BY <1>6 DEF ReadLots, world
  <1>7. CASE ReadHoldingRow(p)
    BY <1>7 DEF ReadHoldingRow, world
  <1>8. CASE WriteHolding(p)
    BY <1>8 DEF WriteHolding, world
  <1>9. CASE ProjectPnl(p)
    BY <1>9 DEF ProjectPnl, world
  <1>10. CASE ReadTrade(p)
    BY <1>10 DEF ReadTrade, world
  <1>11. CASE WriteTrade(p)
    BY <1>11 DEF WriteTrade, world
  <1>12. CASE VerifyLots(p)
    BY <1>12 DEF VerifyLots, world
  <1>13. CASE VerifyHolding(p)
    BY <1>13 DEF VerifyHolding, world
  <1>14. CASE LatchLiability(p)
    BY <1>14 DEF LatchLiability, world
  <1>15. CASE HoldOrder(p)
    BY <1>15 DEF HoldOrder, world
  <1> QED
    BY <1>1, <1>2, <1>3, <1>4, <1>5, <1>6, <1>7, <1>8, <1>9, <1>10, <1>11, <1>12, <1>13,
      <1>14, <1>15 DEF LotStage, HoldingStage, TradeStage, LaterStages

\* ... nor a claim, a checkpoint or the end of a batch ...
LEMMA EventOverlaps ==
    ASSUME NEW p \in Procs,
           \/ Claim(p) \/ FinishBatch(p) \/ PreCheck(p) \/ Checkpoint(p) \/ Complete(p)
           \/ FailCheckpoint(p) \/ Latch(p) \/ LeaseLost(p) \/ Crash(p)
    PROVE  overlapped' = overlapped
  <1>1. CASE Claim(p)
    BY Zenon, <1>1 DEF Claim, world
  <1>2. CASE FinishBatch(p)
    BY <1>2 DEF FinishBatch, world
  <1>3. CASE PreCheck(p)
    BY <1>3 DEF PreCheck, world
  <1>4. CASE Checkpoint(p)
    BY <1>4 DEF Checkpoint, world
  <1>5. CASE Complete(p)
    BY <1>5 DEF Complete, world
  <1>6. CASE FailCheckpoint(p)
    BY <1>6 DEF FailCheckpoint, world
  <1>7. CASE Latch(p)
    BY <1>7 DEF Latch, world
  <1>8. CASE LeaseLost(p)
    BY <1>8 DEF LeaseLost
  <1>9. CASE Crash(p)
    BY <1>9 DEF Crash
  <1> QED
    BY <1>1, <1>2, <1>3, <1>4, <1>5, <1>6, <1>7, <1>8, <1>9

\* ... nor anything that happens around the callers.
LEMMA AroundOverlaps ==
    ASSUME \/ \E f \in Fills : Attribute(f)
           \/ \E o \in Orders : Verification(o)
           \/ Audit \/ AuditLatch \/ Tick \/ UNCHANGED vars
    PROVE  overlapped' = overlapped
  <1>1. CASE \E f \in Fills : RecordFill(f)
    BY <1>1 DEF RecordFill, world
  <1>2. CASE \E f \in Fills : EnqueueSettlement(f)
    BY <1>2 DEF EnqueueSettlement, world
  <1>3. CASE \E f \in Fills : BlockEvent(f)
    BY <1>3 DEF BlockEvent
  <1>4. CASE \E o \in Orders : HoldForVerification(o)
    BY <1>4 DEF HoldForVerification
  <1>5. CASE \E o \in Orders : ReleaseVerification(o)
    BY <1>5 DEF ReleaseVerification, world
  <1>6. CASE \E o \in Orders : BeginDispute(o)
    BY <1>6 DEF BeginDispute
  <1>7. CASE \E o \in Orders : PlaceDisputeHold(o)
    BY <1>7 DEF PlaceDisputeHold
  <1>8. CASE \E o \in Orders : LatchDispute(o)
    BY <1>8 DEF LatchDispute
  <1>9. CASE Audit
    BY <1>9 DEF Audit
  <1>10. CASE AuditLatch
    BY <1>10 DEF AuditLatch
  <1>11. CASE Tick
    BY Zenon, <1>11 DEF Tick
  <1>12. CASE UNCHANGED vars
    BY <1>12 DEF vars, world
  <1> QED
    BY <1>1, <1>2, <1>3, <1>4, <1>5, <1>6, <1>7, <1>8, <1>9, <1>10, <1>11, <1>12 DEF Attribute, Verification

\* Once two callers have been in their batches at once, that is not forgotten.
LEMMA OverlapStands ==
    ASSUME [Next]_vars, overlapped
    PROVE  overlapped'
  <1>1. ASSUME NEW p \in Procs, StartBatch(p) PROVE overlapped'
    BY <1>1 DEF StartBatch
  <1>2. ASSUME NEW p \in Procs, Step(p) \/ LeaseLost(p) \/ Crash(p), ~StartBatch(p)
        PROVE  overlapped'
    <2>1. overlapped' = overlapped
      BY <1>2, StageOverlaps, EventOverlaps DEF Step
    <2> QED
      BY <2>1
  <1>3. ASSUME \/ \E f \in Fills : Attribute(f)
               \/ \E o \in Orders : Verification(o)
               \/ Audit \/ AuditLatch \/ Tick \/ UNCHANGED vars
        PROVE  overlapped'
    BY <1>3, AroundOverlaps
  <1> QED
    BY <1>1, <1>2, <1>3 DEF Next

\* Every step keeps it, until callers overlap.
LEMMA LoneNext ==
    ASSUME ~Auditing
    PROVE  LoneInv /\ [Next]_vars => LoneInv'
  <1> SUFFICES ASSUME LoneInv, [Next]_vars PROVE LoneInv'
    OBVIOUS
  <1>1. ShapeInv /\ ShapeInv' /\ TypeInv'
    BY NextShape DEF LoneInv, ShapeInv
  <1>2. ASSUME ~overlapped' PROVE ~overlapped
    BY <1>2, OverlapStands
  <1>3. ASSUME ~overlapped' PROVE LoneBooks'
    <2>0. LoneBooks
      BY <1>2, <1>3 DEF LoneInv
    <2>1. LatchesTrue'
      BY <1>1, <2>0, LatchesKept DEF LoneBooks
    <2>2. OneCaller' /\ InHands' /\ TradesTold' /\ Unstarted'
      <3>1. ASSUME NEW p \in Procs, Step(p) \/ LeaseLost(p) \/ Crash(p)
            PROVE  OneCaller' /\ InHands' /\ TradesTold' /\ Unstarted'
        <4>1. CASE LotStage(p) \/ OtherStage(p)
          BY <1>1, <2>0, <4>1, LoneStage
        <4>2. CASE ~(LotStage(p) \/ OtherStage(p))
          BY <1>1, <1>3, <2>0, <3>1, <4>2, LoneEvent DEF Step, OtherStage
        <4> QED
          BY <4>1, <4>2
      <3> QED
        BY <1>1, <2>0, <3>1, LoneAround DEF Next
    <2> QED
      BY <2>1, <2>2 DEF LoneBooks
  <1> QED
    BY <1>1, <1>3 DEF LoneInv

\* What LoneInv says of a completed order and of a latched session.
LEMMA LoneSafe == LoneInv => LoneCallerIsExact
  <1> SUFFICES ASSUME LoneInv, ~overlapped PROVE TradeTotalsComplete /\ LatchIsGenuine
    BY DEF LoneCallerIsExact
  <1>0. ShapeInv /\ LoneBooks /\ intent \in [Orders -> [filled : SUBSET Fills, realized : SUBSET Fills]]
    BY DEF LoneInv, ShapeInv, TypeInv, TypeOK
  <1>1. TradeTotalsComplete
    <2> SUFFICES ASSUME NEW o \in Orders,
                        \A f \in fills : OrderOf[f] = o => events[f].status = "COMPLETED"
                 PROVE  intent[o] = TradeOf(o)
      BY DEF TradeTotalsComplete
    <2>1. \A g \in OfOrder(o) : events[g].done = Flags
      BY <1>0 DEF OfOrder, ShapeInv, CompletedHasFlags, TypeInv, TypeOK
    <2>2. TellsAll(intent[o], o)
      BY <1>0 DEF LoneBooks, TradesTold
    <2>3. intent[o].filled = OfOrder(o) /\ intent[o].realized = OfOrder(o)
      <3>1. \A g \in OfOrder(o) : Tells(intent[o], g)
        BY <2>1, <2>2 DEF TellsAll, Trade, Flags
      <3> QED
        BY <2>2, <3>1 DEF TellsAll, Tells
    <2>4. TradeOf(o) = [filled |-> OfOrder(o), realized |-> OfOrder(o)]
      <3>1. \A g \in OfOrder(o) : events[g].done >= Lot
        BY <2>1 DEF Lot, Flags
      <3>2. {g \in fills : OrderOf[g] = o /\ events[g].done >= Lot} = OfOrder(o)
        BY <3>1 DEF OfOrder
      <3> QED
        BY <3>2 DEF TradeOf, OfOrder
    <2>5. intent[o] \in [filled : SUBSET Fills, realized : SUBSET Fills]
      BY <1>0
    <2> QED
      BY <2>3, <2>4, <2>5
  <1>2. LatchIsGenuine
    BY <1>0 DEF LoneBooks, LatchesTrue, Genuine, LatchIsGenuine
  <1> QED
    BY <1>1, <1>2

\* process_pending, called again whenever the last call is over, by any process and
\* after any crash: a trade intent ends with the totals of its order, and trading is
\* stopped for a genuine failure only, as long as no audit runs beside it.
THEOREM LoneCallersAreExact == ASSUME ~Auditing PROVE Spec => []LoneCallerIsExact
  <1> QED BY LoneInit, LoneNext, LoneSafe, PTL DEF Spec
=============================================================================
