------------------------ MODULE TradingSessionProofs ------------------------
(***************************************************************************)
(* Theorems about TradingSession, for every number of operators, scanners, *)
(* lanes and pieces of evidence.                                           *)
(*                                                                         *)
(* The argument.  Every write of evidence empties the set of proofs that   *)
(* still match the tables, so what a reset has seen after its proof is     *)
(* still so at the commit if its proof still matches (ProofsHold).         *)
(***************************************************************************)
EXTENDS TradingSession, TLAPS

\* A proof that still matches was taken without a known defect, and a broker
\* valuation that passed after it left no recorded execution open.
ProofsHold ==
    \A o \in proof :
        /\ op[o] \in {"value", "commit"} => KnownDefects = {}
        /\ op[o] = "commit" => \A e \in Executions : evidence[e] # "recorded"

-----------------------------------------------------------------------------
\* A command at one of its labels goes to another label (Goto keeps op typed).
LEMMA GotoType ==
    ASSUME op \in [Operators -> OpLabels], NEW o \in Operators, NEW to \in OpLabels, Goto(o, to)
    PROVE  op' \in [Operators -> OpLabels]
  BY DEF Goto

\* transition_session writes a well-typed row and leaves no proof.
LEMMA TransitionType ==
    ASSUME NEW s \in States, NEW a \in BOOLEAN, a <=> s \in Resumable, Transition(Row(s, a))
    PROVE  /\ session' \in [state : States, active : BOOLEAN]
           /\ session'.active <=> session'.state \in Resumable
           /\ proof' \in SUBSET Operators
  BY DEF Transition, Row, TouchesEvidence

\* Each step of reset-integrity that only reads goes on or gives up.
LEMMA ResetStepType ==
    ASSUME TypeOK, NEW o \in Operators, NEW from, NEW to \in OpLabels, NEW passes \in BOOLEAN,
           ResetStep(o, from, to, passes)
    PROVE  TypeOK'
  <1>1. Goto(o, to) \/ Goto(o, "idle")
    BY DEF ResetStep
  <1>2. op' \in [Operators -> OpLabels]
    BY <1>1, GotoType DEF TypeOK, OpLabels
  <1> QED
    BY <1>2 DEF TypeOK, ResetStep, market

\* The start commands keep the types.
LEMMA StartCommandType ==
    ASSUME TypeOK, NEW o \in Operators, StartCommand(o)
    PROVE  TypeOK'
  <1>1. CASE CheckResume(o)
    <2>1. op' \in [Operators -> OpLabels]
      BY <1>1, GotoType DEF CheckResume, TypeOK, OpLabels
    <2> QED
      BY <1>1, <2>1 DEF CheckResume, TypeOK, market
  <1>2. CASE LoadForStart(o)
    <2>1. Goto(o, "resumeStart") \/ Goto(o, "start") \/ Goto(o, "idle")
      BY <1>2 DEF LoadForStart
    <2>2. op' \in [Operators -> OpLabels]
      BY <2>1, GotoType DEF TypeOK, OpLabels
    <2> QED
      BY <1>2, <2>2 DEF LoadForStart, TypeOK, market
  <1>3. CASE BrokerUnreachable(o)
    <2>1. op' \in [Operators -> OpLabels]
      BY <1>3, GotoType DEF BrokerUnreachable, TypeOK, OpLabels
    <2> QED
      BY <1>3, <2>1 DEF BrokerUnreachable, TypeOK, market
  <1>4. CASE Start(o)
    <2>1. op' \in [Operators -> OpLabels]
      BY <1>4, GotoType DEF Start, TypeOK, OpLabels
    <2>2. CASE NoTransition
      BY <1>4, <2>1, <2>2 DEF Start, TypeOK, NoTransition, market
    <2>3. CASE Transition(Row("ACTIVE", TRUE))
      BY <1>4, <2>1, <2>3, TransitionType DEF Start, TypeOK, States, Resumable, market
    <2> QED
      BY <1>4, <2>2, <2>3 DEF Start
  <1> QED
    BY <1>1, <1>2, <1>3, <1>4 DEF StartCommand

\* The steps of reset-integrity keep the types.
LEMMA ResetCommandType ==
    ASSUME TypeOK, NEW o \in Operators, ResetCommand(o)
    PROVE  TypeOK'
  <1> USE DEF OpLabels
  <1>1. CASE LoadForReset(o)
    BY <1>1, ResetStepType DEF LoadForReset
  <1>2. CASE CheckUnresolved(o)
    BY <1>2, ResetStepType DEF CheckUnresolved
  <1>3. CASE ReconcilePositions(o)
    BY <1>3, ResetStepType DEF ReconcilePositions
  <1>4. CASE ReconcileAccounting(o)
    BY <1>4, ResetStepType DEF ReconcileAccounting
  <1>5. CASE Value(o)
    BY <1>5, ResetStepType DEF Value
  <1>6. CASE Prove(o)
    <2>1. Goto(o, "idle") \/ Goto(o, "value")
      BY <1>6 DEF Prove
    <2>2. op' \in [Operators -> OpLabels]
      BY <2>1, GotoType DEF TypeOK
    <2> QED
      BY <1>6, <2>2 DEF Prove, TypeOK, market
  <1>7. CASE ResetRefused(o)
    <2>1. op' \in [Operators -> OpLabels]
      BY <1>7, GotoType DEF ResetRefused, TypeOK
    <2> QED
      BY <1>7, <2>1 DEF ResetRefused, TypeOK, market
  <1>8. CASE ResetIntegrity(o)
    <2>1. op' \in [Operators -> OpLabels]
      BY <1>8, GotoType DEF ResetIntegrity, TypeOK
    <2>2. CASE NoTransition
      BY <1>8, <2>1, <2>2 DEF ResetIntegrity, TypeOK, NoTransition, market
    <2>3. CASE Transition(Row("MANUALLY_STOPPED", FALSE))
      BY <1>8, <2>1, <2>3, TransitionType DEF ResetIntegrity, TypeOK, States, Resumable, market
    <2> QED
      BY <1>8, <2>2, <2>3 DEF ResetIntegrity
  <1> QED
    BY <1>1, <1>2, <1>3, <1>4, <1>5, <1>6, <1>7, <1>8 DEF ResetCommand

\* Stop, reset-risk and the two latches keep the types.
LEMMA LatchType ==
    ASSUME TypeOK,
           Stop \/ ResetRisk \/ LatchRiskStop \/ \E l \in Lanes : LatchFinancialIntegrityBlock(l)
    PROVE  TypeOK'
  <1> USE DEF States, Resumable
  <1>1. CASE Stop
    BY <1>1, TransitionType DEF Stop, TypeOK, market
  <1>2. CASE ResetRisk
    BY <1>2, TransitionType DEF ResetRisk, TypeOK, market
  <1>3. CASE LatchRiskStop
    <2>1. CASE NoTransition /\ UNCHANGED unacknowledged
      BY <1>3, <2>1 DEF LatchRiskStop, TypeOK, NoTransition, market
    <2>2. CASE Transition(Row("RISK_STOPPED", FALSE)) /\ unacknowledged' = TRUE
      BY <1>3, <2>2, TransitionType DEF LatchRiskStop, TypeOK, market
    <2> QED
      BY <1>3, <2>1, <2>2 DEF LatchRiskStop
  <1>4. ASSUME NEW l \in Lanes, LatchFinancialIntegrityBlock(l)
        PROVE  TypeOK'
    <2>1. CASE NoTransition
      BY <1>4, <2>1 DEF LatchFinancialIntegrityBlock, TypeOK, NoTransition, market
    <2>2. CASE Transition(Row("FINANCIAL_INTEGRITY_BLOCKED", FALSE))
      BY <1>4, <2>2, TransitionType DEF LatchFinancialIntegrityBlock, TypeOK, market
    <2> QED
      BY <1>4, <2>1, <2>2 DEF LatchFinancialIntegrityBlock
  <1> QED
    BY <1>1, <1>2, <1>3, <1>4

\* The market sync keeps the types.
LEMMA ScannerType ==
    ASSUME TypeOK, NEW s \in Scanners, ReadClock(s) \/ SyncMarketSession(s)
    PROVE  TypeOK'
  <1>1. CASE ReadClock(s)
    BY <1>1 DEF ReadClock, TypeOK, commands, market
  <1>2. CASE SyncMarketSession(s)
    <2> DEFINE closes == session.state = "ACTIVE" /\ reading[s] = "closed"
               opens  == session.state = "MARKET_CLOSED" /\ reading[s] = "open"
    <2>1. reading' \in [Scanners -> {"none", "open", "closed"}]
      BY <1>2 DEF SyncMarketSession, TypeOK
    <2>2. CASE closes /\ Transition(Row("MARKET_CLOSED", session.active))
      BY <1>2, <2>1, <2>2, TransitionType DEF SyncMarketSession, TypeOK, States, Resumable, market
    <2>3. CASE opens /\ Transition(Row("ACTIVE", session.active))
      BY <1>2, <2>1, <2>3, TransitionType DEF SyncMarketSession, TypeOK, States, Resumable, market
    <2>4. CASE NoTransition
      BY <1>2, <2>1, <2>4 DEF SyncMarketSession, TypeOK, NoTransition, market
    <2> QED
      BY <1>2, <2>2, <2>3, <2>4 DEF SyncMarketSession
  <1> QED
    BY <1>1, <1>2

\* The row, the commands and the evidence stay well typed: trading is active
\* exactly in ACTIVE and MARKET_CLOSED (TradingSession.__post_init__).
THEOREM TypeCorrect == Spec => []TypeOK
  <1>1. ASSUME Init PROVE TypeOK
    <2>1. /\ session \in [state : States, active : BOOLEAN]
          /\ session.active <=> session.state \in Resumable
      BY <1>1 DEF Init, Row, States, Resumable
    <2>2. /\ evidence \in [Evidence -> {"none", "at_broker", "recorded", "settled"}]
          /\ op \in [Operators -> OpLabels]
          /\ reading \in [Scanners -> {"none", "open", "closed"}]
      BY <1>1 DEF Init, OpLabels
    <2>3. proof \in SUBSET Operators /\ lane \in SUBSET Lanes /\ flips \in Nat /\ deaths \in Nat
      BY <1>1 DEF Init
    <2>4. riskEvaluation \in BOOLEAN /\ marketOpen \in BOOLEAN /\ unacknowledged \in BOOLEAN
      BY <1>1 DEF Init
    <2> QED
      BY <2>1, <2>2, <2>3, <2>4 DEF TypeOK
  <1>2. TypeOK /\ [Next]_vars => TypeOK'
    <2> SUFFICES ASSUME TypeOK, [Next]_vars PROVE TypeOK'
      OBVIOUS
    <2>1. ASSUME NEW e \in Executions, BrokerExecutes(e) PROVE TypeOK'
      BY <2>1 DEF BrokerExecutes, TypeOK, commands, market
    <2>2. ASSUME NEW e \in Evidence, Settle(e) PROVE TypeOK'
      BY <2>2 DEF Settle, TypeOK, TouchesEvidence, market
    <2>3. ASSUME NEW l \in Lanes, NEW e \in Evidence, Record(l, e) PROVE TypeOK'
      BY <2>3 DEF Record, TypeOK, TouchesEvidence, market
    <2>4. ASSUME NEW l \in Lanes, Reconcile(l) PROVE TypeOK'
      BY <2>4 DEF Reconcile, TypeOK, commands, market
    <2>5. ASSUME NEW l \in Lanes, LaneDies(l) PROVE TypeOK'
      BY <2>5, SMT DEF LaneDies, TypeOK, commands, market
    <2>6. CASE FindBreach
      BY <2>6 DEF FindBreach, TypeOK, commands, market
    <2>7. CASE MarketFlips
      BY <2>7, SMT DEF MarketFlips, TypeOK, commands
    <2>8. CASE UNCHANGED vars
      BY <2>8 DEF TypeOK, vars, commands, market
    <2> QED
      BY <2>1, <2>2, <2>3, <2>4, <2>5, <2>6, <2>7, <2>8, StartCommandType, ResetCommandType,
         LatchType, ScannerType DEF Next, Lane
  <1> QED
    BY <1>1, <1>2, PTL DEF Spec

-----------------------------------------------------------------------------
\* What a step that leaves the evidence alone and sends one command to a label
\* before `value` does to the proofs.
LEMMA ProofsKept ==
    ASSUME TypeOK, ProofsHold, UNCHANGED <<evidence, proof>>, NEW o \in Operators,
           NEW to \in OpLabels \ {"value", "commit"}, Goto(o, to)
    PROVE  ProofsHold'
  BY DEF ProofsHold, Goto, TypeOK, KnownDefects

\* A step that empties the set of proofs has nothing to keep.
LEMMA NoProofs ==
    ASSUME proof' = {}
    PROVE  ProofsHold'
  BY DEF ProofsHold

\* The commands of start keep the proofs or empty them.
LEMMA StartCommandProofs ==
    ASSUME TypeOK, ProofsHold, NEW o \in Operators, StartCommand(o)
    PROVE  ProofsHold'
  <1> USE DEF OpLabels
  <1>1. CASE CheckResume(o)
    BY <1>1, ProofsKept DEF CheckResume
  <1>2. CASE LoadForStart(o)
    BY <1>2, ProofsKept DEF LoadForStart
  <1>3. CASE BrokerUnreachable(o)
    BY <1>3, ProofsKept DEF BrokerUnreachable
  <1>4. CASE Start(o)
    <2>1. CASE NoTransition
      BY <1>4, <2>1, ProofsKept DEF Start, NoTransition
    <2>2. CASE Transition(Row("ACTIVE", TRUE))
      BY <2>2, NoProofs DEF Transition, TouchesEvidence
    <2> QED
      BY <1>4, <2>1, <2>2 DEF Start
  <1> QED
    BY <1>1, <1>2, <1>3, <1>4 DEF StartCommand

\* The steps of reset-integrity establish what ProofsHold says of each label.
LEMMA ResetCommandProofs ==
    ASSUME TypeOK, ProofsHold, NEW o \in Operators, ResetCommand(o)
    PROVE  ProofsHold'
  <1> USE DEF OpLabels
  <1>1. CASE LoadForReset(o)
    BY <1>1, ProofsKept DEF LoadForReset, ResetStep
  <1>2. CASE CheckUnresolved(o)
    BY <1>2, ProofsKept DEF CheckUnresolved, ResetStep
  <1>3. CASE ReconcilePositions(o)
    BY <1>3, ProofsKept DEF ReconcilePositions, ResetStep
  <1>4. CASE ReconcileAccounting(o)
    BY <1>4, ProofsKept DEF ReconcileAccounting, ResetStep
  <1>5. CASE Prove(o)
    <2>1. CASE KnownDefects # {}
      BY <1>5, <2>1, ProofsKept DEF Prove
    <2>2. CASE KnownDefects = {}
      BY <1>5, <2>2 DEF Prove, Goto, TypeOK, ProofsHold, KnownDefects
    <2> QED
      BY <2>1, <2>2
  <1>6. CASE Value(o)
    <2>1. CASE Unaccounted = {}
      BY <1>6, <2>1 DEF Value, ResetStep, Goto, TypeOK, ProofsHold, KnownDefects, Unaccounted
    <2>2. CASE Unaccounted # {}
      BY <1>6, <2>2, ProofsKept DEF Value, ResetStep
    <2> QED
      BY <2>1, <2>2
  <1>7. CASE ResetRefused(o)
    BY <1>7, ProofsKept DEF ResetRefused
  <1>8. CASE ResetIntegrity(o)
    <2>1. CASE NoTransition
      BY <1>8, <2>1, ProofsKept DEF ResetIntegrity, NoTransition
    <2>2. CASE Transition(Row("MANUALLY_STOPPED", FALSE))
      BY <2>2, NoProofs DEF Transition, TouchesEvidence
    <2> QED
      BY <1>8, <2>1, <2>2 DEF ResetIntegrity
  <1> QED
    BY <1>1, <1>2, <1>3, <1>4, <1>5, <1>6, <1>7, <1>8 DEF ResetCommand

\* The conjunction is inductive.
LEMMA ProofsInductive ==
    ASSUME TypeOK, ProofsHold, [Next]_vars
    PROVE  ProofsHold'
  <1>1. CASE UNCHANGED <<evidence, proof, op>>
    BY <1>1 DEF ProofsHold, KnownDefects
  <1>2. CASE proof' = {}
    BY <1>2, NoProofs
  <1>3. ASSUME NEW e \in Executions, BrokerExecutes(e) PROVE ProofsHold'
    <2>1. evidence'[e] = "at_broker" /\ \A f \in Evidence \ {e} : evidence'[f] = evidence[f]
      BY <1>3 DEF BrokerExecutes, TypeOK, Evidence
    <2>2. KnownDefects' \subseteq KnownDefects
      BY <2>1 DEF KnownDefects, Evidence
    <2>3. \A f \in Executions : evidence'[f] = "recorded" => evidence[f] = "recorded"
      BY <2>1 DEF Evidence
    <2> QED
      BY <1>3, <2>2, <2>3 DEF ProofsHold, BrokerExecutes, commands
  <1>4. CASE Stop \/ ResetRisk
    BY <1>2, <1>4 DEF Stop, ResetRisk, Transition, TouchesEvidence
  <1>5. CASE LatchRiskStop
    BY <1>1, <1>2, <1>5 DEF LatchRiskStop, Transition, NoTransition, TouchesEvidence
  <1>6. CASE \E e \in Evidence : Settle(e)
    BY <1>2, <1>6 DEF Settle, TouchesEvidence
  <1>7. ASSUME NEW l \in Lanes, Lane(l) PROVE ProofsHold'
    BY <1>1, <1>2, <1>7 DEF Lane, Record, Reconcile, LatchFinancialIntegrityBlock, LaneDies,
       Transition, NoTransition, TouchesEvidence, commands
  <1>8. CASE FindBreach \/ MarketFlips
    BY <1>1, <1>8 DEF FindBreach, MarketFlips, commands
  <1>9. ASSUME NEW s \in Scanners, ReadClock(s) \/ SyncMarketSession(s) PROVE ProofsHold'
    BY <1>1, <1>2, <1>9 DEF ReadClock, SyncMarketSession, Transition, NoTransition, TouchesEvidence, commands
  <1>10. CASE UNCHANGED vars
    BY <1>1, <1>10 DEF vars, commands
  <1> QED
    BY <1>3, <1>4, <1>5, <1>6, <1>7, <1>8, <1>9, <1>10, StartCommandProofs, ResetCommandProofs DEF Next

\* Both invariants together.
LEMMA ProofsHoldAlways == Spec => [](TypeOK /\ ProofsHold)
  <1>1. Init => ProofsHold
    BY DEF Init, ProofsHold
  <1>2. TypeOK /\ ProofsHold /\ [Next]_vars => ProofsHold'
    BY ProofsInductive
  <1> QED
    BY <1>1, <1>2, TypeCorrect, PTL DEF Spec

-----------------------------------------------------------------------------
\* The steps that change the session row, one disjunct for each writer.
LEMMA SessionWriters ==
    ASSUME [Next]_vars
    PROVE  \/ session' = session
           \/ \E o \in Operators : Start(o) \/ ResetIntegrity(o)
           \/ Stop \/ ResetRisk \/ LatchRiskStop
           \/ \E l \in Lanes : LatchFinancialIntegrityBlock(l)
           \/ \E s \in Scanners : SyncMarketSession(s)
  <1>1. ASSUME NEW o \in Operators, StartCommand(o)
        PROVE  session' = session \/ Start(o)
    BY <1>1 DEF StartCommand, CheckResume, LoadForStart, BrokerUnreachable
  <1>2. ASSUME NEW o \in Operators, ResetCommand(o)
        PROVE  session' = session \/ ResetIntegrity(o)
    BY <1>2 DEF ResetCommand, LoadForReset, CheckUnresolved, ReconcilePositions,
       ReconcileAccounting, ResetStep, Prove, Value, ResetRefused
  <1>3. ASSUME NEW l \in Lanes, Lane(l)
        PROVE  session' = session \/ LatchFinancialIntegrityBlock(l)
    BY <1>3 DEF Lane, Record, Reconcile, LaneDies
  <1>4. CASE (\E e \in Executions : BrokerExecutes(e)) \/ (\E e \in Evidence : Settle(e))
    BY <1>4 DEF BrokerExecutes, Settle
  <1>5. CASE FindBreach \/ MarketFlips
    BY <1>5 DEF FindBreach, MarketFlips
  <1>6. ASSUME NEW s \in Scanners, ReadClock(s) \/ SyncMarketSession(s)
        PROVE  session' = session \/ SyncMarketSession(s)
    BY <1>6 DEF ReadClock
  <1>7. CASE UNCHANGED vars
    BY <1>7 DEF vars
  <1> QED
    BY <1>1, <1>2, <1>3, <1>4, <1>5, <1>6, <1>7 DEF Next

\* Whoever writes the row decides on the row as it is in the transaction, so no
\* writer but its own reset takes a block away.
LEMMA StepsKeepBlocks ==
    ASSUME TypeOK, [Next]_vars
    PROVE  BlockStands
  <1>1. CASE session' = session
    BY <1>1 DEF BlockStands
  <1>2. ASSUME NEW o \in Operators, Start(o) PROVE BlockStands
    BY <1>2 DEF Start, NoTransition, BlockStands, Blocked, StartHardBlocked
  <1>3. ASSUME NEW o \in Operators, ResetIntegrity(o) PROVE BlockStands
    <2>1. op[o] = "commit" /\ op'[o] = "idle"
      BY <1>3 DEF ResetIntegrity, Goto, TypeOK
    <2>2. session.state = "RISK_STOPPED" => session' = session
      BY <1>3 DEF ResetIntegrity, NoTransition, Blocked
    <2> QED
      BY <2>1, <2>2 DEF BlockStands
  <1>4. CASE Stop
    BY <1>4 DEF Stop, BlockStands, Blocked, StopPreserved
  <1>5. CASE ResetRisk
    BY <1>5 DEF ResetRisk, Transition, Row, BlockStands, Blocked
  <1>6. CASE LatchRiskStop
    BY <1>6 DEF LatchRiskStop, NoTransition, BlockStands, Blocked, StopPreserved
  <1>7. ASSUME NEW l \in Lanes, LatchFinancialIntegrityBlock(l) PROVE BlockStands
    BY <1>7 DEF LatchFinancialIntegrityBlock, NoTransition, Transition, Row, BlockStands, Blocked
  <1>8. ASSUME NEW s \in Scanners, SyncMarketSession(s) PROVE BlockStands
    BY <1>8 DEF SyncMarketSession, NoTransition, BlockStands, Blocked
  <1> QED
    BY <1>1, <1>2, <1>3, <1>4, <1>5, <1>6, <1>7, <1>8, SessionWriters

\* A safety block gives way only to its own reset command: a start that waited
\* for the broker, a stop and a stale market clock never take it away.
THEOREM BlocksStand == Spec => BlocksNeedTheirReset
  <1>1. TypeOK /\ [Next]_vars => [BlockStands]_vars
    BY StepsKeepBlocks
  <1> QED
    BY <1>1, TypeCorrect, PTL DEF Spec, BlocksNeedTheirReset

\* A step that turns trading on is the commit of a start.
LEMMA StepsActivateByStart ==
    ASSUME TypeOK, [Next]_vars
    PROVE  StartActivates
  <1>1. CASE session' = session
    BY <1>1 DEF StartActivates
  <1>2. ASSUME NEW o \in Operators, Start(o) PROVE StartActivates
    BY <1>2 DEF Start, Goto, StartActivates, TypeOK
  <1>3. CASE \/ \E o \in Operators : ResetIntegrity(o)
             \/ Stop \/ ResetRisk \/ LatchRiskStop
             \/ \E l \in Lanes : LatchFinancialIntegrityBlock(l)
    <2>1. session' = session \/ ~session'.active
      BY <1>3 DEF ResetIntegrity, Stop, ResetRisk, LatchRiskStop, LatchFinancialIntegrityBlock,
         NoTransition, Transition, Row
    <2> QED
      BY <2>1 DEF StartActivates
  <1>4. ASSUME NEW s \in Scanners, SyncMarketSession(s) PROVE StartActivates
    <2>1. session' = session \/ session'.active = session.active
      BY <1>4 DEF SyncMarketSession, NoTransition, Transition, Row
    <2> QED
      BY <2>1 DEF StartActivates
  <1> QED
    BY <1>1, <1>2, <1>3, <1>4, SessionWriters

\* run_start is the only writer that turns trading on: no scanner revives a
\* session that was stopped or latched while it read the clock.
THEOREM StartActivatesOnly == Spec => OnlyStartActivates
  <1>1. TypeOK /\ [Next]_vars => [StartActivates]_vars
    BY StepsActivateByStart
  <1> QED
    BY <1>1, TypeCorrect, PTL DEF Spec, OnlyStartActivates

\* The two guards of the session row hold together.
THEOREM SessionGuarded == Spec => SessionIsGuarded
  BY BlocksStand, StartActivatesOnly DEF SessionIsGuarded

\* The commit of reset-integrity is the only step out of an integrity block,
\* and ProofsHold says what its proof is worth.
LEMMA StepsProveResets ==
    ASSUME TypeOK, ProofsHold, [Next]_vars
    PROVE  ResetProves
  <1>1. SUFFICES ASSUME Blocked, session'.state # "FINANCIAL_INTEGRITY_BLOCKED"
        PROVE  \A e \in Evidence : evidence[e] # "recorded"
    BY DEF ResetProves
  <1>2. session' # session
    BY <1>1 DEF Blocked
  <1>3. PICK o \in Operators : ResetIntegrity(o)
    <2>1. ASSUME NEW p \in Operators, Start(p) PROVE FALSE
      BY <1>1, <1>2, <2>1 DEF Start, NoTransition, Blocked, StartHardBlocked
    <2>2. ~Stop /\ ~ResetRisk /\ ~LatchRiskStop
      BY <1>1, <1>2 DEF Stop, ResetRisk, LatchRiskStop, NoTransition, Blocked, StopPreserved
    <2>3. ASSUME NEW l \in Lanes, LatchFinancialIntegrityBlock(l) PROVE FALSE
      BY <1>1, <1>2, <2>3 DEF LatchFinancialIntegrityBlock, NoTransition
    <2>4. ASSUME NEW s \in Scanners, SyncMarketSession(s) PROVE FALSE
      BY <1>1, <1>2, <2>4 DEF SyncMarketSession, NoTransition, Blocked
    <2> QED
      BY <1>2, <2>1, <2>2, <2>3, <2>4, SessionWriters
  <1>4. op[o] = "commit" /\ o \in proof
    BY <1>2, <1>3 DEF ResetIntegrity, NoTransition
  <1>5. KnownDefects = {} /\ \A e \in Executions : evidence[e] # "recorded"
    BY <1>4 DEF ProofsHold
  <1> QED
    BY <1>5 DEF KnownDefects, Evidence

\* No reset erases unresolved evidence: when reset-integrity lifts the block, no
\* execution and no defect that anybody has recorded is open.
THEOREM ResetsAreProven == Spec => ResetIsProven
  <1>1. TypeOK /\ ProofsHold /\ [Next]_vars => [ResetProves]_vars
    BY StepsProveResets
  <1> QED
    BY <1>1, ProofsHoldAlways, PTL DEF Spec, ResetIsProven
=============================================================================
