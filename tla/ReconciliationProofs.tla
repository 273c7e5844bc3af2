------------------------ MODULE ReconciliationProofs ------------------------
(***************************************************************************)
(* Theorems about fill reconciliation (module Reconciliation), for any     *)
(* activities, passes and bounds: nothing a pass has examined at or before *)
(* the cursor is unaccounted for, the cursor never moves back, and an open *)
(* row leaves a running account unlatched only on the way to the latch.    *)
(***************************************************************************)
EXTENDS Reconciliation, SumProofs

-----------------------------------------------------------------------------
(* The inductive invariant.                                                *)

Locals == [pc : Stages, todo : SUBSET Ids, seen : SUBSET Own, used : SUBSET Own,
           exactOnly : BOOLEAN, acts : SUBSET Ids, after : SUBSET Ids, cur : Ids \cup {0},
           reads : SUBSET Ids, since : SUBSET Ids, base : Int, full : BOOLEAN]

\* The stages between the commit of a row and its latch.
BeforeLatch == {"latch_recorded", "latch_late"}

\* The stages a pass reaches only with a cursor.
BeyondCursor == {"record", "latch_recorded", "outcomes", "complete", "classify", "latch_late",
                 "prove", "latch_p1", "baseline"}

\* A pass has read only what the broker reported, and looks for the first
\* activity of what is not empty.
LocalsOK(l) ==
    /\ l.todo \cup l.acts \cup l.after \cup l.reads \cup l.since \subseteq reported
    /\ l.pc = "match" => l.todo # {}
    /\ l.pc = "baseline" => l.reads # {}
    /\ l.pc \in BeyondCursor => cursor # NoCursor

PassesOK == \A p \in Passes : LocalsOK(pass[p])

\* An outcome was written for what is accounted for or matched.
OutcomesBacked == outcomes \subseteq Accounted \cup records

\* Whatever was examined, at or after the cursor, is in one of the tables.
CheckedIsAccounted == checked \subseteq Accounted \cup unresolved \cup (outcomes \cap records)

TypeInv == TypeOK /\ PassesOK

RecInv == TypeInv /\ OutcomesBacked /\ CheckedIsAccounted /\ OpenRowLatches

-----------------------------------------------------------------------------
(* Helpers.                                                                *)

\* A field of the locals at a time.
LEMMA LocalsFields ==
    ASSUME NEW l \in Locals
    PROVE  /\ l.pc \in Stages /\ l.todo \in SUBSET Ids /\ l.seen \in SUBSET Own /\ l.used \in SUBSET Own
           /\ l.exactOnly \in BOOLEAN /\ l.acts \in SUBSET Ids /\ l.after \in SUBSET Ids
           /\ l.cur \in Ids \cup {0} /\ l.reads \in SUBSET Ids /\ l.since \in SUBSET Ids
           /\ l.base \in Int /\ l.full \in BOOLEAN
  BY DEF Locals

\* The type invariant, with the locals by name.
LEMMA TypeLocals == TypeOK => pass \in [Passes -> Locals]
  BY DEF TypeOK, Locals

\* Activities are positive integers, finitely many.
LEMMA ActivityIds == /\ IsFiniteSet(Ids) /\ \A e \in Ids : e \in Int /\ e > 0
                     /\ \A S \in SUBSET Ids : IsFiniteSet(S)
  <1>1. IsFiniteSet(Ids) /\ Ids = 1 .. Cardinality(Ids)
    BY IdsAssumption
  <1>2. Cardinality(Ids) \in Nat
    BY <1>1, FS_CardinalityType
  <1>3. \A S \in SUBSET Ids : IsFiniteSet(S)
    BY <1>1, FS_Subset
  <1> QED
    BY <1>1, <1>2, <1>3

\* The last and the first of some activities are among them.
LEMMA FirstAndLast ==
    ASSUME NEW S \in SUBSET (Ids \cup {0}), S # {}
    PROVE  /\ Max(S) \in S /\ \A y \in S : Max(S) >= y
           /\ Min(S) \in S
  <1>1. IsFiniteSet(Ids \cup {0}) /\ S \in SUBSET Int
    BY ActivityIds, FS_AddElement
  <1>2. IsFiniteSet(S)
    BY <1>1, FS_Subset
  <1> QED
    BY <1>1, <1>2, MaxOfFinite, MinOfFinite

\* The quantity of some activities is an integer.
LEMMA QuantityType ==
    ASSUME NEW S \in SUBSET Ids
    PROVE  Quantity(S) \in Int
  <1>1. Quantity(S) = SumFunctionOnSet(Qty, S)
    BY DEF Quantity, MapThenSumSet, SumFunctionOnSet, FoldFunctionOnSet
  <1>2. IsFiniteSet(S) /\ \A x \in S : Qty[x] \in Int
    BY ActivityIds, IdsAssumption
  <1> QED
    BY <1>1, <1>2, SumType

\* An idle pass has nothing in its hands.
LEMMA IdleType == Idle \in Locals /\ Idle.pc = "idle" /\ LocalsOK(Idle)
  BY DEF Idle, Locals, Stages, LocalsOK, BeyondCursor

\* A pass goes to its next stage with locals that are in order.
LEMMA GoMoves ==
    ASSUME TypeInv, UNCHANGED reported, NEW p \in Passes, NEW l \in Locals, NEW stage \in Stages,
           Go(p, stage, l),
           l.todo \cup l.acts \cup l.after \cup l.reads \cup l.since \subseteq reported,
           stage = "match" => l.todo # {}, stage = "baseline" => l.reads # {},
           stage \in BeyondCursor => cursor' # NoCursor, cursor # NoCursor => cursor' # NoCursor
    PROVE  pass' \in [Passes -> Locals] /\ PassesOK'
  <1> DEFINE m == [l EXCEPT !.pc = stage]
  <1>1. pass \in [Passes -> Locals] /\ pass' = [pass EXCEPT ![p] = m]
    BY TypeLocals DEF TypeInv, Go
  <1>2. /\ m \in Locals /\ m.pc = stage /\ m.todo = l.todo /\ m.acts = l.acts /\ m.after = l.after
        /\ m.reads = l.reads /\ m.since = l.since
    BY DEF Locals
  <1> HIDE DEF m
  <1>3. LocalsOK(m)'
    BY <1>2 DEF LocalsOK
  <1>4. ASSUME NEW q \in Passes
        PROVE  LocalsOK(pass[q])'
    <2>1. CASE q = p
      BY <1>1, <1>3, <2>1
    <2>2. CASE q # p
      BY <1>1, <2>2 DEF LocalsOK, TypeInv, PassesOK
    <2> QED
      BY <2>1, <2>2
  <1> QED
    BY <1>1, <1>2, <1>4 DEF PassesOK

\* A pass ends.
LEMMA LeaveMoves ==
    ASSUME TypeInv, UNCHANGED <<reported, cursor>>, NEW p \in Passes, Leave(p)
    PROVE  pass' \in [Passes -> Locals] /\ PassesOK'
  <1>1. pass \in [Passes -> Locals] /\ pass' = [pass EXCEPT ![p] = Idle]
    BY TypeLocals DEF TypeInv, Leave
  <1>2. LocalsOK(Idle)'
    BY IdleType DEF LocalsOK, Idle
  <1>3. \A q \in Passes : LocalsOK(pass[q])'
    BY <1>1, <1>2 DEF LocalsOK, TypeInv, PassesOK
  <1> QED
    BY <1>1, <1>3, IdleType DEF PassesOK

\* Passes stay in order while they are left alone and more is reported.
LEMMA PassesKept ==
    ASSUME TypeInv, UNCHANGED pass, reported \subseteq reported', cursor # NoCursor => cursor' # NoCursor
    PROVE  PassesOK'
  BY DEF TypeInv, PassesOK, LocalsOK

-----------------------------------------------------------------------------
(* Every step keeps the types.                                             *)

\* The empty database is well typed.
LEMMA InitType == Init => TypeInv
  <1> SUFFICES ASSUME Init PROVE TypeInv
    OBVIOUS
  <1>1. PassesOK
    BY IdleType DEF Init, PassesOK
  <1>2. 0 \in 0 .. MaxNow /\ 0 \in 0 .. MaxFaults
    BY BoundsAssumption
  <1>3. pass \in [Passes -> Locals]
    BY IdleType DEF Init
  <1>4. TypeOK
    <2>1. cursor \in Ids \cup {0, NoCursor} /\ baseline \in [at : Ids \cup {0}, qty : Int]
      BY DEF Init
    <2>2. now \in 0 .. MaxNow /\ faults \in 0 .. MaxFaults
      BY <1>2 DEF Init
    <2>3. /\ booked = {} /\ reported = {} /\ shown = {} /\ linked = {} /\ fills = {} /\ settled = {}
          /\ quarantined = {} /\ unresolved = {} /\ outcomes = {} /\ records = {} /\ checked = {} /\ p1 = {}
          /\ fullDone = FALSE /\ running = FALSE /\ latched = FALSE
      BY DEF Init
    <2> QED
      BY <1>3, <2>1, <2>2, <2>3 DEF TypeOK, Locals
  <1> QED
    BY <1>1, <1>4 DEF TypeInv

\* The broker, the other writers and the operator.
LEMMA WorldType ==
    ASSUME TypeInv,
           \/ Tick \/ NewDay \/ StartRuntime
           \/ \E e \in Ids : Activity(e) \/ QuarantineResolve(e)
    PROVE  TypeInv'
  <1>0. UNCHANGED <<pass, cursor>> /\ reported \subseteq reported'
    BY DEF Tick, NewDay, StartRuntime, Activity, QuarantineResolve, BookLate, Report, Show, Link,
           Attribute, Settle, world, books, ledger, history, session
  <1>1. PassesOK'
    BY <1>0, PassesKept
  <1>2. CASE Tick
    BY <1>1, <1>2, BoundsAssumption
       DEF Tick, TypeInv, TypeOK, books, ledger, history, session
  <1>3. CASE NewDay \/ StartRuntime
    BY <1>1, <1>3 DEF NewDay, StartRuntime, TypeInv, TypeOK, world, books, ledger, history, session
  <1>4. ASSUME NEW e \in Ids, Activity(e) \/ QuarantineResolve(e)
        PROVE  TypeInv'
    BY <1>1, <1>4
       DEF Activity, QuarantineResolve, BookLate, Report, Show, Link, Attribute, Settle, Accounted, Open,
           TypeInv, TypeOK, world, books, ledger, history, session
  <1> QED
    BY <1>2, <1>3, <1>4

\* The bootstrap of the cursor.
LEMMA BootstrapType ==
    ASSUME TypeInv, Bootstrap
    PROVE  TypeInv' /\ cursor' # NoCursor /\ cursor' >= cursor
  <1>0. reported \subseteq Ids /\ cursor = NoCursor
    BY DEF Bootstrap, TypeInv, TypeOK
  <1>1. cursor' = Max(reported \cup {0}) /\ cursor' \in Ids \cup {0}
    BY <1>0, FirstAndLast DEF Bootstrap
  <1>2. cursor' # NoCursor /\ cursor' >= cursor
    BY <1>0, <1>1, ActivityIds DEF NoCursor
  <1>3. PassesOK'
    BY <1>2, PassesKept DEF Bootstrap, world
  <1>4. Quantity(reported) \in Int
    BY <1>0, QuantityType
  <1>5. TypeOK'
    BY <1>1, <1>4 DEF Bootstrap, TypeInv, TypeOK, world, books, session
  <1> QED
    BY <1>2, <1>3, <1>5 DEF TypeInv

\* The first reads of a pass, and the matches it finds.
LEMMA MatchType ==
    ASSUME TypeInv, NEW p \in Passes,
           StartPass(p) \/ ReadWindow(p) \/ MatchFill(p) \/ MatchElsewhere(p)
    PROVE  TypeInv'
  <1> DEFINE l == pass[p]
  <1>0. /\ UNCHANGED <<world, linked, settled, quarantined, ledger, history>>
        /\ reported \subseteq Ids /\ fills \subseteq reported \cap linked /\ fills \subseteq Own
    BY DEF StartPass, ReadWindow, MatchFill, MatchElsewhere, books, session, TypeInv, TypeOK
  <1>1. pass \in [Passes -> Locals] /\ l \in Locals /\ LocalsOK(l)
    BY TypeLocals DEF TypeInv, PassesOK
  <1>2. {"window", "match", "after"} \subseteq Stages \ (BeyondCursor \cup {"baseline"})
    BY DEF Stages, BeyondCursor
  <1>3. CASE StartPass(p)
    <2>1. pass' \in [Passes -> Locals] /\ PassesOK'
      BY <1>0, <1>2, <1>3, IdleType, GoMoves DEF StartPass, Idle, world, ledger
    <2>2. faults' \in 0 .. MaxFaults
      BY <1>3, BoundsAssumption DEF StartPass, Fault, TypeInv, TypeOK
    <2> QED
      BY <1>0, <1>3, <2>1, <2>2
         DEF StartPass, TypeInv, TypeOK, Locals, world, books, ledger, history, session
  <1>4. CASE ReadWindow(p)
    <2> DEFINE window == {e \in reported : e >= now - Lookback}
               m == [Idle EXCEPT !.acts = window, !.todo = window, !.seen = fills, !.exactOnly = Open # {}]
    <2>1. /\ m \in Locals /\ m.todo = window /\ m.acts = window
          /\ m.after = {} /\ m.reads = {} /\ m.since = {}
      BY <1>0, IdleType DEF Locals, Idle
    <2>2. PICK stage \in {"after", "match"} : Go(p, stage, m) /\ (stage = "match" => window # {})
      BY <1>4 DEF ReadWindow
    <2>3. pass' \in [Passes -> Locals] /\ PassesOK'
      <3> HIDE DEF m
      <3> QED
        BY <1>0, <1>2, <2>1, <2>2, GoMoves DEF world, ledger
    <2> QED
      BY <1>0, <1>4, <2>3
         DEF ReadWindow, TypeInv, TypeOK, Locals, world, books, ledger, history, session
  <1>5. ASSUME NEW e, e = Min(l.todo), NEW f \in SUBSET Own, NEW m, m = Matched(l, e, f),
               Go(p, AfterMatch(m), m), At(p, "match")
        PROVE  e \in reported /\ pass' \in [Passes -> Locals] /\ PassesOK'
    <2>1. e \in l.todo /\ l.todo \subseteq reported
      <3>1. l.todo # {} /\ l.todo \in SUBSET (Ids \cup {0}) /\ l.todo \subseteq reported
        BY <1>1, <1>5, LocalsFields DEF LocalsOK, At
      <3> QED
        BY <1>5, <3>1, FirstAndLast
    <2>2. m = [l EXCEPT !.todo = l.todo \ {e}, !.used = l.used \cup f]
      BY <1>1, <1>5 DEF Matched, Locals
    <2>3. /\ m \in Locals /\ m.todo = l.todo \ {e} /\ m.acts = l.acts /\ m.after = l.after
          /\ m.reads = l.reads /\ m.since = l.since
      <3>1. l.todo \ {e} \in SUBSET Ids /\ l.used \cup f \in SUBSET Own
        BY <1>1, <1>5, LocalsFields
      <3> QED
        BY <1>1, <2>2, <3>1 DEF Locals
    <2>4. AfterMatch(m) \in {"after", "match"} /\ (AfterMatch(m) = "match" => m.todo # {})
      BY DEF AfterMatch
    <2>5. m.todo \cup m.acts \cup m.after \cup m.reads \cup m.since \subseteq reported
      BY <1>1, <2>1, <2>3 DEF LocalsOK
    <2> QED
      BY <1>0, <1>2, <1>5, <2>1, <2>3, <2>4, <2>5, GoMoves DEF world, ledger
  <1>6. CASE MatchFill(p)
    <2> DEFINE e == Min(l.todo)
    <2>1. PICK f \in IF Exact(l, e) THEN {e} ELSE Heuristic(l, e) :
            Go(p, AfterMatch(Matched(l, e, {f})), Matched(l, e, {f}))
      BY <1>6 DEF MatchFill
    <2>2. f \in Own
      BY <1>1, <2>1, LocalsFields DEF Exact, Heuristic
    <2>3. e \in reported /\ pass' \in [Passes -> Locals] /\ PassesOK'
      BY <1>5, <1>6, <2>1, <2>2 DEF MatchFill
    <2> QED
      BY <1>0, <1>6, <2>3
         DEF MatchFill, TypeInv, TypeOK, Locals, world, books, ledger, history, session
  <1>7. CASE MatchElsewhere(p)
    <2> DEFINE e == Min(l.todo)
    <2>1. e \in reported /\ pass' \in [Passes -> Locals] /\ PassesOK'
      BY <1>5, <1>7 DEF MatchElsewhere
    <2>2. /\ fills' = fills \/ (e \in linked /\ fills' = fills \cup {e})
          /\ records' = records \/ records' = records \cup {e}
          /\ latched' \in BOOLEAN /\ UNCHANGED <<running, faults>>
      BY <1>7 DEF MatchElsewhere, TypeInv, TypeOK
    <2> HIDE DEF e
    <2> QED
      BY <1>0, <2>1, <2>2 DEF TypeInv, TypeOK, Locals, world, ledger, history
  <1> QED
    BY <1>3, <1>4, <1>6, <1>7

\* C moves to the last activity read, and never back.
LEMMA RecordedCursor ==
    ASSUME TypeInv, NEW p \in Passes, RecordPass(p)
    PROVE  cursor' \in Ids \cup {0} /\ cursor' >= cursor /\ pass[p].after \subseteq reported
  <1> DEFINE l == pass[p]
  <1>1. l \in Locals /\ LocalsOK(l) /\ l.pc = "record"
    BY TypeLocals DEF TypeInv, PassesOK, RecordPass, At
  <1>2. cursor # NoCursor /\ cursor \in Ids \cup {0}
    BY <1>1 DEF LocalsOK, BeyondCursor, TypeInv, TypeOK
  <1>3. l.after \in SUBSET (Ids \cup {0}) /\ l.after \in SUBSET Ids
    BY <1>1, LocalsFields
  <1>4. cursor' = LastRead(l) /\ LastRead(l) >= cursor
    BY DEF RecordPass
  <1>5. LastRead(l) \in Ids \cup {0}
    BY <1>2, <1>3, FirstAndLast DEF LastRead
  <1> QED
    BY <1>1, <1>4, <1>5 DEF LocalsOK

\* The read after the cursor, and what the pass does with it.
LEMMA CursorType ==
    ASSUME TypeInv, NEW p \in Passes,
           \/ NotBootstrapped(p) \/ ReadAfter(p) \/ RecordPass(p) \/ RefuseRegression(p)
           \/ LatchRecorded(p) \/ WriteOutcomes(p)
    PROVE  TypeInv'
  <1> DEFINE l == pass[p]
  <1>0. /\ UNCHANGED <<world, books, records, history>> /\ UNCHANGED running
        /\ reported \subseteq Ids
    BY DEF NotBootstrapped, ReadAfter, RecordPass, RefuseRegression, LatchRecorded, WriteOutcomes,
           session, TypeInv, TypeOK
  <1>1. pass \in [Passes -> Locals] /\ l \in Locals /\ LocalsOK(l)
    BY TypeLocals DEF TypeInv, PassesOK
  <1>2. {"record", "outcomes", "complete", "latch_recorded"} \subseteq (Stages \cap BeyondCursor) \ {"match", "baseline"}
    BY DEF Stages, BeyondCursor
  <1>3. CASE NotBootstrapped(p) \/ RefuseRegression(p)
    <2>1. pass' \in [Passes -> Locals] /\ PassesOK'
      BY <1>3, LeaveMoves DEF NotBootstrapped, RefuseRegression, world, ledger
    <2> QED
      BY <1>0, <1>3, <2>1
         DEF NotBootstrapped, RefuseRegression, TypeInv, TypeOK, Locals, world, books, ledger, history, session
  <1>4. CASE ReadAfter(p)
    <2> DEFINE A == {e \in reported : e > cursor}
               m == [l EXCEPT !.cur = cursor, !.after = A, !.seen = {}, !.used = {}, !.exactOnly = FALSE]
    <2>1. cursor # NoCursor /\ cursor \in Ids \cup {0} /\ UNCHANGED cursor
      BY <1>4 DEF ReadAfter, TypeInv, TypeOK, ledger
    <2>2. A \in SUBSET Ids /\ A \subseteq reported
      BY <1>0
    <2>3. /\ m \in Locals /\ m.todo = l.todo /\ m.acts = l.acts /\ m.after = A
          /\ m.reads = l.reads /\ m.since = l.since
      BY <1>1, <2>1, <2>2 DEF Locals
    <2>4. m.todo \cup m.acts \cup m.after \cup m.reads \cup m.since \subseteq reported
      BY <1>1, <2>2, <2>3 DEF LocalsOK
    <2>5. /\ Go(p, "record", m) \/ Go(p, "outcomes", m)
          /\ UNCHANGED faults \/ Fault
      BY <1>4 DEF ReadAfter
    <2>6. faults' \in 0 .. MaxFaults
      BY <2>5, BoundsAssumption DEF Fault, TypeInv, TypeOK
    <2> HIDE DEF m, A
    <2>7. pass' \in [Passes -> Locals] /\ PassesOK'
      BY <1>0, <1>2, <2>1, <2>3, <2>4, <2>5, GoMoves DEF world
    <2> QED
      BY <1>0, <1>4, <2>6, <2>7
         DEF ReadAfter, TypeInv, TypeOK, Locals, world, books, ledger, history, session
  <1>5. CASE RecordPass(p)
    <2>1. cursor' \in Ids \cup {0} /\ cursor' # NoCursor /\ l.after \subseteq reported
      BY <1>5, RecordedCursor, ActivityIds DEF NoCursor
    <2>2. PICK stage \in {"outcomes", "latch_recorded"} : Go(p, stage, l)
      BY <1>5 DEF RecordPass
    <2>3. pass' \in [Passes -> Locals] /\ PassesOK'
      BY <1>0, <1>1, <1>2, <2>1, <2>2, GoMoves DEF LocalsOK, world
    <2> QED
      BY <1>0, <1>5, <2>1, <2>3
         DEF RecordPass, TypeInv, TypeOK, Locals, world, books, history, session
  <1>6. CASE LatchRecorded(p)
    <2>1. pass' \in [Passes -> Locals] /\ PassesOK'
      <3>1. l.pc = "latch_recorded" /\ cursor # NoCursor /\ UNCHANGED cursor
        BY <1>1, <1>6 DEF LatchRecorded, At, LocalsOK, BeyondCursor, ledger
      <3> QED
        BY <1>0, <1>1, <1>2, <1>6, <3>1, GoMoves DEF LatchRecorded, LocalsOK, world
    <2> QED
      BY <1>0, <1>6, <2>1
         DEF LatchRecorded, TypeInv, TypeOK, Locals, world, books, ledger, history
  <1>7. CASE WriteOutcomes(p)
    <2>1. pass' \in [Passes -> Locals] /\ PassesOK'
      <3>1. l.pc = "outcomes" /\ cursor # NoCursor /\ UNCHANGED cursor
        BY <1>1, <1>7 DEF WriteOutcomes, At, LocalsOK, BeyondCursor
      <3>2. Idle.todo \cup Idle.acts \cup Idle.after \cup Idle.reads \cup Idle.since \subseteq reported
        BY DEF Idle
      <3> QED
        BY <1>0, <1>2, <1>7, <3>1, <3>2, IdleType, GoMoves DEF WriteOutcomes, world
    <2> QED
      BY <1>0, <1>7, <2>1
         DEF WriteOutcomes, Open, TypeInv, TypeOK, Locals, world, books, history, session
  <1> QED
    BY <1>3, <1>4, <1>5, <1>6, <1>7

\* The completeness pass.
LEMMA CompletenessType ==
    ASSUME TypeInv, NEW p \in Passes,
           \/ ReadHistory(p) \/ ReadUnproven(p) \/ ClassifyLate(p) \/ LatchLate(p)
           \/ ProveP1(p) \/ LatchP1(p) \/ NewBaseline(p) \/ Abort(p)
    PROVE  TypeInv'
  <1> DEFINE l == pass[p]
  <1>0. UNCHANGED <<world, books, cursor, records>> /\ UNCHANGED running /\ reported \subseteq Ids
    BY DEF ReadHistory, ReadUnproven, ClassifyLate, LatchLate, ProveP1, LatchP1, NewBaseline, Abort,
           session, ledger, TypeInv, TypeOK
  <1>1. pass \in [Passes -> Locals] /\ l \in Locals /\ LocalsOK(l)
    BY TypeLocals DEF TypeInv, PassesOK
  <1>2. {"classify", "latch_late", "prove", "latch_p1"} \subseteq (Stages \cap BeyondCursor) \ {"match", "baseline"}
    BY DEF Stages, BeyondCursor
  <1>3. CASE ReadHistory(p)
    <2> DEFINE since == {e \in reported : e > baseline.at}
               overlap == {e \in reported : e >= cursor - Overlap}
    <2>1. PICK reads \in SUBSET reported, late \in SUBSET reported, full \in BOOLEAN :
            Go(p, "classify", [Idle EXCEPT !.full = full, !.cur = cursor, !.base = baseline.qty,
                                 !.reads = reads, !.since = late])
      <3>1. /\ (IF ~fullDone THEN reported ELSE since \cup overlap) \in SUBSET reported
            /\ (IF ~fullDone THEN {} ELSE since) \in SUBSET reported
            /\ (~fullDone) \in BOOLEAN
        OBVIOUS
      <3> QED
        BY <1>3, <3>1 DEF ReadHistory
    <2> DEFINE m == [Idle EXCEPT !.full = full, !.cur = cursor, !.base = baseline.qty,
                       !.reads = reads, !.since = late]
    <2>2. cursor \in Ids \cup {0} /\ cursor # NoCursor
      BY <1>1, <1>3 DEF ReadHistory, At, LocalsOK, BeyondCursor, TypeInv, TypeOK
    <2>3. baseline.qty \in Int /\ reads \in SUBSET Ids /\ late \in SUBSET Ids
      BY <1>0 DEF TypeInv, TypeOK
    <2>4. /\ m \in Locals /\ m.todo = {} /\ m.acts = {} /\ m.after = {}
          /\ m.reads = reads /\ m.since = late
      <3>1. /\ Idle \in Locals /\ Idle.todo = {} /\ Idle.acts = {} /\ Idle.after = {}
        BY IdleType DEF Idle
      <3> QED
        BY <2>2, <2>3, <3>1 DEF Locals
    <2>5. Go(p, "classify", m)
      BY <2>1
    <2> HIDE DEF m
    <2>6. pass' \in [Passes -> Locals] /\ PassesOK'
      BY <1>0, <1>2, <2>2, <2>4, <2>5, GoMoves DEF world
    <2> QED
      BY <1>0, <1>3, <2>6
         DEF ReadHistory, TypeInv, TypeOK, Locals, world, books, ledger, history, session
  <1>4. CASE ReadUnproven(p) \/ Abort(p) \/ LatchP1(p)
    <2>1. pass' \in [Passes -> Locals] /\ PassesOK'
      BY <1>0, <1>4, LeaveMoves DEF ReadUnproven, Abort, LatchP1, world
    <2>2. faults' \in 0 .. MaxFaults /\ p1' \subseteq Failures /\ latched' \in BOOLEAN
      <3>1. CASE ReadUnproven(p) \/ Abort(p)
        <4>1. Fault /\ (p1' = {"*"} \/ p1' = p1) /\ latched' = latched
          BY <3>1 DEF ReadUnproven, Abort, history, session
        <4>2. faults' \in 0 .. MaxFaults
          BY <4>1, BoundsAssumption DEF Fault, TypeInv, TypeOK
        <4>3. p1 \subseteq Failures /\ {"*"} \subseteq Failures /\ latched \in BOOLEAN
          BY DEF Failures, TypeInv, TypeOK
        <4> QED
          BY <4>1, <4>2, <4>3
      <3>2. CASE LatchP1(p)
        BY <3>2 DEF LatchP1, history, TypeInv, TypeOK
      <3> QED
        BY <1>4, <3>1, <3>2
    <2>3. UNCHANGED <<ledger, baseline, fullDone>>
      BY <1>4 DEF ReadUnproven, Abort, LatchP1, history
    <2> QED
      BY <1>0, <2>1, <2>2, <2>3 DEF TypeInv, TypeOK, Locals, world, books, ledger
  <1>5. CASE ClassifyLate(p)
    <2>1. PICK stage \in {"prove", "latch_late"} : Go(p, stage, l)
      BY <1>5 DEF ClassifyLate
    <2>2. cursor # NoCursor /\ l.reads \subseteq reported
      BY <1>1, <1>5 DEF ClassifyLate, At, LocalsOK, BeyondCursor
    <2>3. pass' \in [Passes -> Locals] /\ PassesOK'
      BY <1>0, <1>1, <1>2, <2>1, <2>2, GoMoves DEF LocalsOK, world
    <2> QED
      BY <1>0, <1>5, <2>2, <2>3
         DEF ClassifyLate, TypeInv, TypeOK, Locals, world, books, history, session
  <1>6. CASE LatchLate(p)
    <2>1. cursor # NoCursor /\ UNCHANGED cursor
      BY <1>0, <1>1, <1>6 DEF LatchLate, At, LocalsOK, BeyondCursor
    <2>2. pass' \in [Passes -> Locals] /\ PassesOK'
      BY <1>0, <1>1, <1>2, <1>6, <2>1, GoMoves DEF LatchLate, LocalsOK, world
    <2> QED
      BY <1>0, <1>6, <2>2 DEF LatchLate, TypeInv, TypeOK, Locals, world, books, ledger, history
  <1>7. CASE ProveP1(p)
    <2> DEFINE stage == AfterP1(l, P1Failures(l))
               m == IF stage = "baseline" THEN [Idle EXCEPT !.reads = l.reads] ELSE Idle
    <2>1. /\ stage \in {"latch_p1", "baseline", "idle"} /\ (stage = "baseline" => l.reads # {})
      BY DEF AfterP1
    <2>2. cursor # NoCursor /\ l.reads \in SUBSET Ids /\ l.reads \subseteq reported
      BY <1>1, <1>7, LocalsFields DEF ProveP1, At, LocalsOK, BeyondCursor
    <2>3. /\ m \in Locals /\ m.todo = {} /\ m.acts = {} /\ m.after = {} /\ m.since = {}
          /\ m.reads \subseteq reported /\ (stage = "baseline" => m.reads # {})
      BY <2>1, <2>2, IdleType DEF Locals, Idle
    <2>4. Go(p, stage, m)
      BY <1>7 DEF ProveP1
    <2>5. stage \in Stages \ {"match"}
      BY <2>1 DEF Stages
    <2> HIDE DEF m, stage
    <2>6. pass' \in [Passes -> Locals] /\ PassesOK'
      BY <1>0, <2>2, <2>3, <2>4, <2>5, GoMoves DEF world
    <2>7. /\ p1' \subseteq Failures /\ fullDone' \in BOOLEAN /\ UNCHANGED <<ledger, baseline, session, faults>>
      BY <1>7 DEF ProveP1, P1Failures, Failures, TypeInv, TypeOK
    <2> QED
      BY <1>0, <2>6, <2>7 DEF TypeInv, TypeOK, Locals, world, books, ledger, session
  <1>8. CASE NewBaseline(p)
    <2>1. l.reads \in SUBSET (Ids \cup {0}) /\ l.reads \in SUBSET Ids /\ l.reads # {}
      BY <1>1, <1>8, LocalsFields DEF NewBaseline, At, LocalsOK
    <2>2. Max(l.reads) \in Ids \cup {0} /\ Quantity(l.reads) \in Int
      BY <2>1, FirstAndLast, QuantityType
    <2>3. pass' \in [Passes -> Locals] /\ PassesOK'
      BY <1>0, <1>8, LeaveMoves DEF NewBaseline, world
    <2>4. baseline' \in [at : Ids \cup {0}, qty : Int] /\ UNCHANGED <<ledger, p1, fullDone, session, faults>>
      BY <1>8, <2>2 DEF NewBaseline, TypeInv, TypeOK
    <2> QED
      BY <1>0, <2>3, <2>4 DEF TypeInv, TypeOK, Locals, world, books, ledger, session
  <1> QED
    BY <1>3, <1>4, <1>5, <1>6, <1>7, <1>8

\* Every step.
LEMMA NextType ==
    ASSUME TypeInv, [Next]_vars
    PROVE  TypeInv'
  <1>1. CASE \E p \in Passes : PassStep(p) \/ Abort(p)
    BY <1>1, MatchType, CursorType, CompletenessType DEF PassStep
  <1>2. CASE UNCHANGED vars
    BY <1>2 DEF vars, world, session, books, ledger, history, TypeInv, TypeOK, PassesOK, LocalsOK, Accounted, Open
  <1> QED
    BY <1>1, <1>2, WorldType, BootstrapType DEF Next

-----------------------------------------------------------------------------
(* The tables only grow, and what was examined is in one of them.          *)

\* What a step adds to the tables it writes is backed by another table.
LEMMA TablesStep ==
    ASSUME RecInv, Next
    PROVE  /\ Accounted \subseteq Accounted' /\ records \subseteq records'
           /\ unresolved \subseteq unresolved' /\ outcomes \subseteq outcomes'
           /\ outcomes' \subseteq outcomes \cup Accounted' \cup records'
           /\ checked' \subseteq checked \cup Accounted' \cup unresolved' \cup (outcomes' \cap records')
  <1> DEFINE Grows == /\ Accounted \subseteq Accounted' /\ records \subseteq records'
                      /\ unresolved \subseteq unresolved' /\ outcomes \subseteq outcomes'
                      /\ outcomes' \subseteq outcomes \cup Accounted' \cup records'
                      /\ checked' \subseteq checked \cup Accounted' \cup unresolved' \cup (outcomes' \cap records')
  <1> SUFFICES Grows
    OBVIOUS
  <1>0. settled \subseteq fills /\ OutcomesBacked
    BY DEF RecInv, TypeInv, TypeOK
  <1>1. CASE Tick \/ NewDay \/ StartRuntime
    BY <1>1 DEF Tick, NewDay, StartRuntime, Accounted, books, ledger
  <1>2. CASE Bootstrap
    BY <1>2 DEF Bootstrap, Accounted, books
  <1>3. ASSUME NEW e \in Ids, Activity(e) \/ QuarantineResolve(e)
        PROVE  Grows
    BY <1>3 DEF Activity, QuarantineResolve, BookLate, Report, Show, Link, Attribute, Settle, Accounted,
                books, ledger
  <1>4. ASSUME NEW p \in Passes, PassStep(p) \/ Abort(p)
        PROVE  Grows
    <2>1. CASE StartPass(p) \/ ReadWindow(p) \/ MatchFill(p) \/ MatchElsewhere(p)
      BY <2>1 DEF StartPass, ReadWindow, MatchFill, MatchElsewhere, Accounted, books, ledger
    <2>2. CASE \/ NotBootstrapped(p) \/ ReadAfter(p) \/ RefuseRegression(p) \/ LatchRecorded(p)
               \/ ReadHistory(p) \/ ReadUnproven(p) \/ LatchLate(p)
               \/ ProveP1(p) \/ LatchP1(p) \/ NewBaseline(p) \/ Abort(p)
      BY <2>2 DEF NotBootstrapped, ReadAfter, RefuseRegression, LatchRecorded, ReadHistory, ReadUnproven,
                  LatchLate, ProveP1, LatchP1, NewBaseline, Abort, Accounted, books, ledger
    <2>3. CASE RecordPass(p)
      BY <2>3 DEF RecordPass, Accounted, books
    <2>4. CASE WriteOutcomes(p)
      BY <1>0, <2>4 DEF WriteOutcomes, Open, Accounted, books
    <2>5. CASE ClassifyLate(p)
      BY <1>0, <2>5 DEF ClassifyLate, Accounted, books, OutcomesBacked
    <2> QED
      BY <1>4, <2>1, <2>2, <2>3, <2>4, <2>5 DEF PassStep
  <1> QED
    BY <1>1, <1>2, <1>3, <1>4 DEF Next

-----------------------------------------------------------------------------
(* An open row and its latch.                                              *)

\* A step that opens no row, takes no latch away and no pass off its way to
\* the latch keeps the row latched.
LEMMA LatchKept ==
    ASSUME OpenRowLatches, Open' \subseteq Open, running' = running, latched => latched',
           faults > 0 => faults' > 0,
           \A p \in Passes : pass[p].pc \in BeforeLatch =>
               latched' \/ faults' > 0 \/ pass'[p].pc \in BeforeLatch
    PROVE  OpenRowLatches'
  BY DEF OpenRowLatches, BeforeLatch

\* One pass moves: the others stay where they are.
LEMMA GoStage ==
    ASSUME TypeInv, NEW p \in Passes, NEW l \in Locals, NEW stage \in Stages, Go(p, stage, l)
    PROVE  pass'[p].pc = stage /\ \A q \in Passes \ {p} : pass'[q] = pass[q]
  BY TypeLocals DEF TypeInv, Go, Locals

\* A pass that was not about to latch may do whatever opens no row.
LEMMA LatchKeptBy ==
    ASSUME RecInv, NEW p \in Passes, pass[p].pc \notin BeforeLatch,
           \A q \in Passes \ {p} : pass'[q] = pass[q],
           Open' \subseteq Open, running' = running, latched => latched', faults > 0 => faults' > 0
    PROVE  OpenRowLatches'
  <1>1. \A q \in Passes : pass[q].pc \in BeforeLatch => pass'[q].pc \in BeforeLatch
    OBVIOUS
  <1> QED
    BY <1>1, LatchKept DEF RecInv

\* Every step leaves an open row latched, or on its way.
LEMMA LatchStep ==
    ASSUME RecInv, Next
    PROVE  OpenRowLatches'
  <1>0. TypeInv /\ TypeInv' /\ OpenRowLatches
    BY NextType DEF RecInv
  <1>1. CASE Tick \/ NewDay
    BY <1>0, <1>1, LatchKept DEF Tick, NewDay, Open, ledger, session
  <1>2. CASE StartRuntime
    BY <1>2 DEF StartRuntime, OpenRowLatches, Open, ledger
  <1>3. CASE Bootstrap
    BY <1>3 DEF Bootstrap, OpenRowLatches, session
  <1>4. ASSUME NEW e \in Ids, Activity(e) \/ QuarantineResolve(e)
        PROVE  OpenRowLatches'
    <2>1. /\ Open' \subseteq Open /\ UNCHANGED <<running, latched, faults, pass>>
      BY <1>4 DEF Activity, QuarantineResolve, BookLate, Report, Show, Link, Attribute, Settle, Open,
                  ledger, session
    <2> QED
      BY <1>0, <2>1, LatchKept
  <1>5. ASSUME NEW p \in Passes, PassStep(p) \/ Abort(p)
        PROVE  OpenRowLatches'
    <2>0. pass \in [Passes -> Locals]
      BY <1>0, TypeLocals DEF TypeInv
    <2>1. \A q \in Passes \ {p} : pass'[q] = pass[q]
      BY <1>5, <2>0
         DEF PassStep, StartPass, ReadWindow, MatchFill, MatchElsewhere, NotBootstrapped, ReadAfter,
             RecordPass, RefuseRegression, LatchRecorded, WriteOutcomes, ReadHistory, ReadUnproven,
             ClassifyLate, LatchLate, ProveP1, LatchP1, NewBaseline, Abort, Go, Leave
    <2>2. CASE \/ StartPass(p) \/ ReadWindow(p) \/ MatchFill(p) \/ MatchElsewhere(p)
               \/ NotBootstrapped(p) \/ ReadAfter(p) \/ RefuseRegression(p) \/ WriteOutcomes(p)
               \/ ReadHistory(p) \/ ReadUnproven(p) \/ ProveP1(p) \/ NewBaseline(p)
      <3>1. pass[p].pc \notin BeforeLatch
        BY <2>2 DEF StartPass, ReadWindow, MatchFill, MatchElsewhere, NotBootstrapped, ReadAfter,
                    RefuseRegression, WriteOutcomes, ReadHistory, ReadUnproven, ProveP1, NewBaseline,
                    At, BeforeLatch
      <3>2. /\ Open' \subseteq Open /\ running' = running /\ (latched => latched')
        <4>1. CASE ReadWindow(p)
          <5>1. UNCHANGED <<unresolved, outcomes, running>>
            BY <4>1 DEF ReadWindow, ledger
          <5>2. latched => latched'
            BY <4>1, Zenon DEF ReadWindow
          <5> QED
            BY <5>1, <5>2 DEF Open
        <4>2. CASE MatchElsewhere(p)
          <5>1. UNCHANGED <<unresolved, outcomes, running>>
            BY <4>2 DEF MatchElsewhere, ledger
          <5>2. latched => latched'
            BY <4>2, Zenon DEF MatchElsewhere
          <5> QED
            BY <5>1, <5>2 DEF Open
        <4>3. CASE ~ReadWindow(p) /\ ~MatchElsewhere(p)
          BY <2>2, <4>3
             DEF StartPass, MatchFill, NotBootstrapped, ReadAfter, RefuseRegression, WriteOutcomes,
                 ReadHistory, ReadUnproven, ProveP1, NewBaseline, Open, ledger, session
        <4> QED
          BY <4>1, <4>2, <4>3
      <3>3. faults' = faults \/ faults' = faults + 1
        BY <2>2 DEF StartPass, ReadWindow, MatchFill, MatchElsewhere, NotBootstrapped, ReadAfter,
                    RefuseRegression, WriteOutcomes, ReadHistory, ReadUnproven, ProveP1, NewBaseline, Fault
      <3>4. faults > 0 => faults' > 0
        BY <1>0, <3>3, BoundsAssumption DEF TypeInv, TypeOK
      <3> QED
        BY <2>1, <3>1, <3>2, <3>4, LatchKeptBy
    <2>3. CASE LatchRecorded(p) \/ LatchLate(p) \/ LatchP1(p)
      BY <2>3 DEF LatchRecorded, LatchLate, LatchP1, OpenRowLatches
    <2>4. CASE Abort(p)
      <3>1. faults' > 0
        BY <1>0, <2>4, BoundsAssumption DEF Abort, Fault, TypeInv, TypeOK
      <3> QED
        BY <3>1 DEF OpenRowLatches
    <2>5. CASE RecordPass(p) \/ ClassifyLate(p)
      <3>1. /\ pass[p].pc \notin BeforeLatch
            /\ UNCHANGED <<running, latched, faults>>
        BY <2>5 DEF RecordPass, ClassifyLate, At, BeforeLatch, session
      <3>2. CASE unresolved' = unresolved
        <4>1. Open' \subseteq Open
          BY <2>5, <3>2 DEF RecordPass, ClassifyLate, Open
        <4> QED
          BY <2>1, <3>1, <4>1, LatchKeptBy
      <3>3. CASE unresolved' # unresolved
        <4>1. PICK stage \in BeforeLatch : Go(p, stage, pass[p])
          BY <2>5, <3>3 DEF RecordPass, ClassifyLate, BeforeLatch
        <4>2. pass'[p].pc \in BeforeLatch
          BY <1>0, <2>0, <4>1, GoStage DEF BeforeLatch, Stages
        <4> QED
          BY <4>2 DEF OpenRowLatches, BeforeLatch
      <3> QED
        BY <3>2, <3>3
    <2> QED
      BY <1>5, <2>2, <2>3, <2>4, <2>5 DEF PassStep
  <1> QED
    BY <1>1, <1>2, <1>3, <1>4, <1>5 DEF Next

-----------------------------------------------------------------------------
(* The theorems.                                                           *)

\* RecInv is inductive.
LEMMA RecInvInductive == (Init => RecInv) /\ (RecInv /\ [Next]_vars => RecInv')
  <1>1. ASSUME Init PROVE RecInv
    BY <1>1, InitType DEF Init, RecInv, OutcomesBacked, CheckedIsAccounted, OpenRowLatches
  <1>2. ASSUME RecInv, Next PROVE RecInv'
    <2>1. TypeInv'
      BY <1>2, NextType DEF RecInv
    <2>2. OutcomesBacked'
      BY <1>2, TablesStep DEF RecInv, OutcomesBacked
    <2>3. CheckedIsAccounted'
      BY <1>2, TablesStep DEF RecInv, CheckedIsAccounted
    <2> QED
      BY <1>2, <2>1, <2>2, <2>3, LatchStep DEF RecInv
  <1>3. ASSUME RecInv, UNCHANGED vars PROVE RecInv'
    <2>1. TypeInv'
      BY <1>3, NextType DEF RecInv
    <2> QED
      BY <1>3, <2>1
         DEF vars, world, session, books, ledger, history, RecInv, OutcomesBacked, CheckedIsAccounted,
             OpenRowLatches, Accounted, Open
  <1> QED
    BY <1>1, <1>2, <1>3

\* The inductive invariant holds throughout.
LEMMA RecInvHolds == Spec => []RecInv
  BY RecInvInductive, PTL DEF Spec

\* The tables and the locals of the passes keep their types; in particular
\* nothing is attributed, quarantined, recorded or examined that the broker
\* has not reported.
THEOREM ReconciliationTypes == Spec => []TypeOK
  <1>1. RecInv => TypeOK
    BY DEF RecInv, TypeInv
  <1> QED
    BY <1>1, RecInvHolds, PTL

\* K1 as the code keeps it (completeness.py, unresolved.record_pass):
\* whatever any pass examined at or before C is accounted for, has its
\* durable row, or was closed by a match record.  This holds whatever the
\* order in which the broker books, reports and shows activities, and with
\* any number of passes racing on a lapsed lease.
THEOREM ExaminedIsAccounted == Spec => []PassedIsAccounted
  <1>1. RecInv => PassedIsAccounted
    BY DEF RecInv, CheckedIsAccounted, PassedIsAccounted
  <1> QED
    BY <1>1, RecInvHolds, PTL

\* I8: a running account with an open row is latched, or the pass that wrote
\* the row is about to latch it, or a call has failed in between.
THEOREM OpenRowsLatch == Spec => []OpenRowLatches
  <1>1. RecInv => OpenRowLatches
    BY DEF RecInv
  <1> QED
    BY <1>1, RecInvHolds, PTL

\* A step moves the cursor forward or leaves it.
LEMMA CursorStep ==
    ASSUME RecInv, Next, cursor' # cursor
    PROVE  cursor' >= cursor
  <1>1. TypeInv
    BY DEF RecInv
  <1>2. CASE Bootstrap
    BY <1>1, <1>2, BootstrapType
  <1>3. ASSUME NEW p \in Passes, RecordPass(p) PROVE cursor' >= cursor
    BY <1>1, <1>3, RecordedCursor
  <1> QED
    BY <1>2, <1>3
       DEF Next, PassStep, Activity, Tick, NewDay, StartRuntime, BookLate, Report, Show, Link, Attribute,
           Settle, QuarantineResolve, StartPass, ReadWindow, MatchFill, MatchElsewhere, NotBootstrapped,
           ReadAfter, RefuseRegression, LatchRecorded, WriteOutcomes, ReadHistory, ReadUnproven,
           ClassifyLate, LatchLate, ProveP1, LatchP1, NewBaseline, Abort, ledger

\* C never moves back, whichever of the racing passes commits last: the
\* transaction of record_pass refuses FILL_CURSOR_REGRESSION.
THEOREM CursorNeverRegresses == Spec => CursorAdvances
  <1>1. RecInv /\ [Next]_vars => [cursor' >= cursor]_cursor
    BY CursorStep DEF vars, ledger
  <1> QED
    BY <1>1, RecInvHolds, PTL DEF Spec, CursorAdvances
=============================================================================
