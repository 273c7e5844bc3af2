-------------------------------- MODULE Scanner --------------------------------
(***************************************************************************)
(* The scan cycles (scanner/coordinator.py): what a worker that holds its  *)
(* lane's lease does from the stale runs it closes to the candidates it    *)
(* orders, while the lease may lapse and another worker take the lane.     *)
(*                                                                         *)
(* Candidates are numbered in the order of their composite score, the best *)
(* first.  A gate's verdict, a fetch and the gateway's answer are open.    *)
(***************************************************************************)
EXTENDS Integers, Sequences, FiniteSets, SequencesExt

CONSTANTS
    Workers, LaneOf,  \* processes, and the lane each scans
    Universe,         \* the candidates of a lane
    Outside,          \* assets that may be held and are in no universe
    Monitored,        \* assets the position monitor may reserve
    Correlations,     \* the possible sets of correlated pairs
    Holdings,         \* the possible sets of what is held
    MaxRuns,          \* bound: scan runs of each lane
    MaxCrashes,       \* bound: cycles that die
    None

VARIABLES
    correlated, held,  \* what prices and holdings are
    lease,             \* of each lane: the worker that holds it
    run,               \* the scan_runs table, in the order of creation
    rejected,          \* of each run: its rejected_candidates
    cycle,             \* what each worker is doing
    reserved,          \* of each asset: who reserved it (the monitor may)
    crashes

vars == <<correlated, held, lease, run, rejected, cycle, reserved, crashes>>

Lanes == {LaneOf[w] : w \in Workers}
Candidates == UNION {Universe[l] : l \in Lanes}
Assets == Candidates \cup Outside
Runs == 1..Len(run)
RunStatuses == {"running", "completed", "failed"}

Idle == [pc |-> "idle", run |-> 0, stale |-> {}, discovered |-> {}, todo |-> << >>, scored |-> {},
         approved |-> 0, submitted |-> 0, lost |-> FALSE, since |-> 0]

TypeOK ==
    /\ lease \in [Lanes -> Workers \cup {None}]
    /\ \A r \in Runs : /\ run[r].status \in RunStatuses /\ run[r].old \in BOOLEAN
                       /\ run[r].approved \in Nat /\ run[r].submitted \in 0..run[r].approved
                       /\ rejected[r] \subseteq Candidates
    /\ \A w \in Workers : cycle[w].run \in 0..Len(run) /\ cycle[w].stale \subseteq Runs
    /\ reserved \in [Assets -> Workers \cup {"monitor", None}]

Init ==
    /\ correlated \in Correlations /\ held \in Holdings
    /\ lease = [l \in Lanes |-> None] /\ run = << >> /\ rejected = << >>
    /\ cycle = [w \in Workers |-> Idle] /\ reserved = [a \in Assets |-> None] /\ crashes = 0

-----------------------------------------------------------------------------
(* Ranking.                                                                *)

Known(candidates, unfetched) == (held \ candidates) \ unfetched

(* Of the candidates in their order, those that correlate with nothing     *)
(* that is held (and no candidate) and with no better one that is kept.    *)
Prioritized(candidates, unfetched) ==
    LET order == SetToSortSeq(candidates, <)
        kept[n \in 0..Len(order)] ==
            IF n = 0 THEN {}
            ELSE IF \E other \in Known(candidates, unfetched) \cup kept[n - 1] : {order[n], other} \in correlated
                 THEN kept[n - 1] ELSE kept[n - 1] \cup {order[n]}
    IN kept[Len(order)]

(* Mutant: a demoted candidate is dropped.                                 *)
RankDrops(candidates, unfetched) == SetToSortSeq(Prioritized(candidates, unfetched), <)

(* Mutant: only what is held demotes.                                      *)
RankByHoldings(candidates, unfetched) ==
    LET kept == {c \in candidates : \A h \in Known(candidates, unfetched) : {c, h} \notin correlated} IN
    SetToSortSeq(kept, <) \o SetToSortSeq(candidates \ kept, <)

(* _correlation_adjusted_rank: a stable partition.                         *)
Rank(candidates, unfetched) ==
    LET kept == Prioritized(candidates, unfetched) IN
    SetToSortSeq(kept, <) \o SetToSortSeq(candidates \ kept, <)

-----------------------------------------------------------------------------
(* A cycle.                                                                *)

At(w, pc) == cycle[w].pc = pc
Go(w, pc) == cycle' = [cycle EXCEPT ![w].pc = pc]
Market == <<correlated, held>>
RunsLeft(l) == Cardinality({r \in Runs : run[r].lane = l}) < MaxRuns[l]

(* _run_scan_leg: the lease of the lane, free or lapsed.                   *)
Acquire(w) ==
    /\ At(w, "idle") /\ RunsLeft(LaneOf[w])
    /\ lease[LaneOf[w]] = None
    /\ lease' = [lease EXCEPT ![LaneOf[w]] = w]
    /\ Go(w, "stale")
    /\ UNCHANGED <<Market, run, rejected, reserved, crashes>>

(* The lease lapses while its holder is slow, or dead; the heartbeat tells *)
(* the holder, a while later.                                              *)
Lapse(l) ==
    /\ lease[l] # None
    /\ lease' = [lease EXCEPT ![l] = None]
    /\ UNCHANGED <<Market, run, rejected, cycle, reserved, crashes>>

Notice(w) ==
    /\ ~At(w, "idle") /\ lease[LaneOf[w]] # w /\ ~cycle[w].lost
    /\ cycle' = [cycle EXCEPT ![w].lost = TRUE]
    /\ UNCHANGED <<Market, lease, run, rejected, reserved, crashes>>

(* STALE_SCAN_RUN_SECONDS have passed since the run began.                 *)
Age(r) ==
    /\ run[r].status = "running" /\ ~run[r].old
    /\ run' = [run EXCEPT ![r].old = TRUE]
    /\ UNCHANGED <<Market, lease, rejected, cycle, reserved, crashes>>

(* _reclaim_stale_scan_runs: the running rows of every lane are read, and  *)
(* each one that is old is written over.                                   *)
ReadStale(w) ==
    /\ At(w, "stale")
    /\ cycle' = [cycle EXCEPT ![w].pc = "reclaim",
                              ![w].stale = {r \in Runs : run[r].status = "running" /\ run[r].old}]
    /\ UNCHANGED <<Market, lease, run, rejected, reserved, crashes>>

Reclaim(w) ==
    /\ At(w, "reclaim")
    /\ \E r \in cycle[w].stale :
         /\ run' = [run EXCEPT ![r].status = "failed", ![r].approved = 0, ![r].submitted = 0]
         /\ cycle' = [cycle EXCEPT ![w].stale = @ \ {r}]
    /\ UNCHANGED <<Market, lease, rejected, reserved, crashes>>

Create(w) ==
    /\ At(w, "reclaim") /\ cycle[w].stale = {} /\ RunsLeft(LaneOf[w])
    /\ run' = Append(run, [status |-> "running", old |-> FALSE, lane |-> LaneOf[w], discovered |-> {},
                           approved |-> 0, submitted |-> 0])
    /\ rejected' = Append(rejected, {})
    /\ cycle' = [cycle EXCEPT ![w].pc = "ask", ![w].run = Len(run) + 1]
    /\ UNCHANGED <<Market, lease, reserved, crashes>>

(* The lease is released by its holder alone.                              *)
Released(w) == [lease EXCEPT ![LaneOf[w]] = IF @ = w THEN None ELSE @]

(* _finish: the row this cycle made, whatever has become of it.            *)
Finish(w, status) ==
    /\ run' = [run EXCEPT ![cycle[w].run] = [@ EXCEPT !.status = status, !.discovered = cycle[w].discovered,
                                                      !.approved = cycle[w].approved, !.submitted = cycle[w].submitted]]
    /\ cycle' = [cycle EXCEPT ![w] = Idle]
    /\ lease' = Released(w)

(* SESSION_BLOCKED, the AI's, the broker's or the valuation's failure.     *)
Fail(w) ==
    /\ At(w, "ask") /\ Finish(w, "failed")
    /\ UNCHANGED <<Market, rejected, reserved, crashes>>

Ask(w) ==
    /\ At(w, "ask")
    /\ \E found \in SUBSET Universe[LaneOf[w]] :
         cycle' = [cycle EXCEPT ![w].pc = "score", ![w].discovered = found, ![w].todo = SetToSortSeq(found, <)]
    /\ UNCHANGED <<Market, lease, run, rejected, reserved, crashes>>

Rest(w) == [cycle[w] EXCEPT !.todo = Tail(@)]
Reject(w) == rejected' = [rejected EXCEPT ![cycle[w].run] = @ \cup {Head(cycle[w].todo)}]

(* Pass 1: COMMAND_LEASE_LOST, or one of the gates.                        *)
ScoreRejects(w) ==
    /\ At(w, "score") /\ cycle[w].todo # << >>
    /\ Reject(w) /\ cycle' = [cycle EXCEPT ![w] = Rest(w)]
    /\ UNCHANGED <<Market, lease, run, reserved, crashes>>

Scores(w) ==
    /\ At(w, "score") /\ cycle[w].todo # << >> /\ ~cycle[w].lost
    /\ cycle' = [cycle EXCEPT ![w] = [Rest(w) EXCEPT !.scored = @ \cup {Head(cycle[w].todo)}]]
    /\ UNCHANGED <<Market, lease, run, rejected, reserved, crashes>>

(* Between the passes; the bars of what is held may not come.              *)
Ranks(w) ==
    /\ At(w, "score") /\ cycle[w].todo = << >>
    /\ \E unfetched \in SUBSET held :
         cycle' = [cycle EXCEPT ![w].pc = "trade", ![w].todo = Rank(cycle[w].scored, unfetched)]
    /\ UNCHANGED <<Market, lease, run, rejected, reserved, crashes>>

(* Pass 2, up to the reservation: COMMAND_LEASE_LOST, the quote, the       *)
(* contract, the opening inventory and the adopted assets.                 *)
TradeRejects(w) ==
    /\ At(w, "trade") /\ cycle[w].todo # << >>
    /\ Reject(w) /\ cycle' = [cycle EXCEPT ![w] = Rest(w)]
    /\ UNCHANGED <<Market, lease, run, reserved, crashes>>

(* Mutant: the lease is not looked at again between the passes.            *)
MayTradeAnyway(w) == At(w, "trade") /\ cycle[w].todo # << >>

MayTrade(w) == At(w, "trade") /\ cycle[w].todo # << >> /\ ~cycle[w].lost

Quotes(w) ==
    /\ MayTrade(w)
    /\ Go(w, "reserve")
    /\ UNCHANGED <<Market, lease, run, rejected, reserved, crashes>>

(* SYMBOL_EXECUTION_LOCKED.                                                *)
Locked(w) ==
    /\ At(w, "reserve") /\ reserved[Head(cycle[w].todo)] # None
    /\ Reject(w) /\ cycle' = [cycle EXCEPT ![w] = [Rest(w) EXCEPT !.pc = "trade"]]
    /\ UNCHANGED <<Market, lease, run, reserved, crashes>>

Reserves(w) ==
    /\ At(w, "reserve") /\ reserved[Head(cycle[w].todo)] = None
    /\ reserved' = [reserved EXCEPT ![Head(cycle[w].todo)] = w]
    /\ Go(w, "size")
    /\ UNCHANGED <<Market, lease, run, rejected, crashes>>

(* Its reservation, if it has not lapsed and gone to another.              *)
Freed(w) == [reserved EXCEPT ![Head(cycle[w].todo)] = IF @ = w THEN None ELSE @]

(* An intent in flight, no budget, no price, or nothing after rounding.    *)
SizeRejects(w) ==
    /\ At(w, "size")
    /\ Reject(w) /\ reserved' = Freed(w) /\ cycle' = [cycle EXCEPT ![w] = [Rest(w) EXCEPT !.pc = "trade"]]
    /\ UNCHANGED <<Market, lease, run, crashes>>

(* The opportunity is written and handed to the gateway.                   *)
Approves(w) ==
    /\ At(w, "size")
    /\ cycle' = [cycle EXCEPT ![w].pc = "execute", ![w].approved = @ + 1,
                              ![w].since = IF cycle[w].lost THEN @ + 1 ELSE @]
    /\ UNCHANGED <<Market, lease, run, rejected, reserved, crashes>>

(* The gateway answers: rejected and skipped are not counted.              *)
Executes(w) ==
    /\ At(w, "execute")
    /\ \E counted \in 0..1 :
         cycle' = [cycle EXCEPT ![w] = [Rest(w) EXCEPT !.pc = "trade", !.submitted = @ + counted]]
    /\ reserved' = Freed(w)
    /\ UNCHANGED <<Market, lease, run, rejected, crashes>>

Complete(w) ==
    /\ At(w, "trade") /\ cycle[w].todo = << >>
    /\ Finish(w, "completed")
    /\ UNCHANGED <<Market, rejected, reserved, crashes>>

(* An exception leaves the cycle with its row running; a process that dies *)
(* leaves its lease and its reservation as well, until they lapse.         *)
Raise(w) ==
    /\ ~At(w, "idle") /\ crashes < MaxCrashes
    /\ cycle' = [cycle EXCEPT ![w] = Idle] /\ crashes' = crashes + 1
    /\ lease' = Released(w)
    /\ reserved' = IF cycle[w].pc \in {"size", "execute"} THEN Freed(w) ELSE reserved
    /\ UNCHANGED <<Market, run, rejected>>

Die(w) ==
    /\ ~At(w, "idle") /\ crashes < MaxCrashes
    /\ cycle' = [cycle EXCEPT ![w] = Idle] /\ crashes' = crashes + 1
    /\ UNCHANGED <<Market, lease, run, rejected, reserved>>

(* The monitor reserves and frees; a reservation lapses.                   *)
Reservation(a) ==
    /\ reserved' = [reserved EXCEPT ![a] = IF @ = None THEN "monitor" ELSE None]
    /\ UNCHANGED <<Market, lease, run, rejected, cycle, crashes>>

Step(w) ==
    \/ Acquire(w) \/ Notice(w) \/ ReadStale(w) \/ Reclaim(w) \/ Create(w) \/ Fail(w) \/ Ask(w)
    \/ ScoreRejects(w) \/ Scores(w) \/ Ranks(w) \/ TradeRejects(w) \/ Quotes(w) \/ Locked(w) \/ Reserves(w)
    \/ SizeRejects(w) \/ Approves(w) \/ Executes(w) \/ Complete(w) \/ Raise(w) \/ Die(w)

Next ==
    \/ \E w \in Workers : Step(w)
    \/ \E l \in Lanes : Lapse(l)
    \/ \E r \in Runs : Age(r)
    \/ \E a \in Monitored : Reservation(a)

Spec == Init /\ [][Next]_vars

-----------------------------------------------------------------------------
(* Properties                                                              *)

(* A cycle whose lease is lost gives up the rest of its candidates: it     *)
(* hands at most the one it is busy with to the gateway.                   *)
LossStopsOrders == \A w \in Workers : cycle[w].since <= 1

(* A completed run accounts for each candidate the AI found: rejected with *)
(* a reason, or approved, and never both.                                  *)
EveryCandidateAccounted ==
    \A r \in Runs : run[r].status = "completed" =>
        /\ rejected[r] \subseteq run[r].discovered
        /\ Cardinality(rejected[r]) + run[r].approved = Cardinality(run[r].discovered)

(* A worse candidate comes before a better one only if that one correlates *)
(* with something held or with a candidate better still; and one that      *)
(* correlates with a candidate before it is never before one that          *)
(* correlates with nothing.                                                *)
RankedForSpread ==
    \A w \in Workers : At(w, "trade") =>
        LET todo == cycle[w].todo
            around(c) == {o \in held \cup cycle[w].scored : {c, o} \in correlated}
        IN \A i, j \in DOMAIN todo : i < j =>
             /\ todo[j] < todo[i] => \E o \in around(todo[j]) : o \in held \/ o < todo[j]
             /\ around(todo[j]) = {} => \A k \in 1 .. i - 1 : {todo[k], todo[i]} \notin correlated

(* What correlates with a holding is not preferred to what correlates with *)
(* nothing (false: a held asset that is itself a candidate demotes none).  *)
HeldDemotes ==
    \A w \in Workers : At(w, "trade") =>
        \A i, j \in DOMAIN cycle[w].todo :
            (i < j /\ \A other \in Assets : {cycle[w].todo[j], other} \notin correlated)
            => ~\E other \in held \cap cycle[w].scored : {cycle[w].todo[i], other} \in correlated

(* The verdict on a run stays (false: a stale read writes over it).        *)
VerdictStays == [][\A r \in Runs : run[r].status = "completed" => run'[r].status = "completed"]_vars

(* A scan run, from the AI's candidates to the gateway.                    *)
ScanIsOrderly == LossStopsOrders /\ EveryCandidateAccounted /\ RankedForSpread
=============================================================================
