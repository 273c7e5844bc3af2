----------------------------- MODULE Components -----------------------------
(***************************************************************************)
(* The components that are checked apart from each other and proved about, *)
(* each on an instance of its own.  A behaviour is one of one component,   *)
(* the `topic`; its variables are s1, s2, ... and those it does not need   *)
(* stay Empty.  MCComponents adds the topics that are checked only.        *)
(* Variants widens an instance to what the promise of its module excludes: *)
(* the statements at the end fail there.                                   *)
(***************************************************************************)
EXTENDS Integers, FiniteSets, Functions, TLC

CONSTANTS Topics, Variants, Empty

(* The instances of the topics: any.                                          *)
CONSTANTS
    SellOwn, SellExternal, SellQuantity, SellHolding, SellBuys,
    ViewUnits, ViewIntents, UnitOf,
    Oversells, Legacy, Executions, Commands, Oversold, Size, Covers, HappenedAt,
    Passes, OwnBuys, Opening, MaxPosition, MaxTrades, MaxEpisodes, InFlight,
    CalendarEnd, LibraryHours, BrokerHours, Weekends, CheckSpan, FreshFor, DeadlineAfter,
    CalendarLanes, CalendarPasses, CalendarChanges, CalendarCrashes,
    OrderFills, OrderPolls, OrderRechecks,
    Verifiers, Unlocked, EvidenceRows, AccountFills, SourceEdits, ProcessDeaths,
    Activities, OwnActivities, RowsPerPage, LastHour,
    Traded, Crypto, WholeOnly, Multiplier, Unit, Increment, MinOrder, PricesOf, Asked, StopBelow,
    Confidences, Regimes, Spreads, Fee, Profiles, MinLot, CryptoFrom, WholeFrom, TradesFrom,
    OpeningCash, OutsideLots, MaxOrders, MaxSessions

Variant(v) == v \in Variants

VARIABLES topic, s1, s2, s3, s4, s5, s6, s7, s8, s9, s10, s11, s12

vars == <<topic, s1, s2, s3, s4, s5, s6, s7, s8, s9, s10, s11, s12>>

-----------------------------------------------------------------------------
PassBetween == Variant("pass in between")
Sell == INSTANCE SellAuthorization WITH
    Own <- SellOwn, External <- SellExternal, Quantity <- SellQuantity, InitialHolding <- SellHolding,
    MaxBuys <- SellBuys, PassInBetween <- PassBetween, order <- s1, filled <- s2,
    unshown <- s3, buys <- s4, booked <- s5, accounted <- s6, closed <- s7, completed <- s8,
    terminal <- s9, passed <- s10, pc <- s11, view <- s12

SellInit ==
    /\ "sell" \in Topics /\ topic = "sell" /\ Sell!Init
SellNext == topic = "sell" /\ Sell!Next /\ UNCHANGED <<topic>>

-----------------------------------------------------------------------------
View == INSTANCE Exposure WITH
    Units <- ViewUnits, Intents <- ViewIntents, Of <- UnitOf, unit <- s1, status <- s2,
    view <- s3, slipped <- s4, quiet <- s5

ViewInit ==
    /\ "exposure" \in Topics /\ topic = "exposure" /\ View!Init
    /\ s6 = Empty /\ s7 = Empty /\ s8 = Empty /\ s9 = Empty /\ s10 = Empty /\ s11 = Empty /\ s12 = Empty
ViewNext == topic = "exposure" /\ View!Next /\ UNCHANGED <<topic, s6, s7, s8, s9, s10, s11, s12>>

-----------------------------------------------------------------------------
(* Entry's other constants have the names they have there.                   *)
Entry == INSTANCE Entry WITH
    Assets <- Traded, price <- s1, cash <- s2, held <- s3, outside <- s4, order <- s5,
    close <- s6, session <- s7, profile <- s8

EntryInit ==
    /\ "entry" \in Topics /\ topic = "entry" /\ Entry!Init
    /\ s9 = Empty /\ s10 = Empty /\ s11 = Empty /\ s12 = Empty
EntryNext == topic = "entry" /\ Entry!Next /\ UNCHANGED <<topic, s9, s10, s11, s12>>

-----------------------------------------------------------------------------
(* Unlocked are the processes whose commands belong to no generation.        *)
BrokerLags == Variant("lagging broker")
Generation == INSTANCE Verification WITH
    Processes <- Verifiers, Ordinary <- Unlocked, Lag <- BrokerLags, MaxRows <- EvidenceRows,
    MaxFills <- AccountFills, MaxEdits <- SourceEdits, MaxCrashes <- ProcessDeaths,
    None <- Empty, disk <- s1, bound <- s2, checkpoint <- s3, evidence <- s4, rows <- s5,
    lock <- s6, writer <- s7, source <- s8, broker <- s9, proc <- s10, edits <- s11, crashes <- s12

GenerationInit ==
    /\ "verification" \in Topics /\ topic = "verification" /\ Generation!Init
GenerationNext == topic = "verification" /\ Generation!Next /\ UNCHANGED <<topic>>

-----------------------------------------------------------------------------
Quarantine == INSTANCE Quarantine WITH
    Sells <- Oversells, Legacy <- Legacy, Executions <- Executions, Commands <- Commands,
    Excess <- Oversold, Size <- Size, Buys <- Covers, At <- HappenedAt,
    stage <- s1, surplus <- s2, resolved <- s3, used <- s4, corporate <- s5, command <- s6,
    blocked <- s7, reset <- s8, proof <- s9

QuarantineInit ==
    /\ "quarantine" \in Topics /\ topic = "quarantine" /\ Quarantine!Init
    /\ s10 = Empty /\ s11 = Empty /\ s12 = Empty
QuarantineNext == topic = "quarantine" /\ Quarantine!Next /\ UNCHANGED <<topic, s10, s11, s12>>

-----------------------------------------------------------------------------
Adoption == INSTANCE Adoption WITH
    Passes <- Passes, Buys <- OwnBuys, Opening <- Opening, MaxPosition <- MaxPosition,
    MaxTrades <- MaxTrades, MaxEpisodes <- MaxEpisodes, InFlight <- InFlight,
    position <- s1, trades <- s2, buy <- s3, managed <- s4,
    adopted <- s5, holding <- s6, episode <- s7, episodes <- s8, pass <- s9, exit <- s10,
    latched <- s11, overtaken <- s12

AdoptionInit ==
    /\ "adoption" \in Topics /\ topic = "adoption" /\ Adoption!Init
AdoptionNext == topic = "adoption" /\ Adoption!Next /\ UNCHANGED <<topic>>

-----------------------------------------------------------------------------
Calendar == INSTANCE Calendar WITH
    LastDay <- CalendarEnd, Library <- LibraryHours, Brokers <- BrokerHours, Weekend <- Weekends,
    CheckDays <- CheckSpan, FreshSessions <- FreshFor, Ahead <- DeadlineAfter,
    Lanes <- CalendarLanes, MaxPasses <- CalendarPasses, MaxChanges <- CalendarChanges,
    MaxCrashes <- CalendarCrashes, day <- s1, half <- s2, broker <- s3, changes <- s4,
    crashes <- s5, stamps <- s6, checks <- s7, lane <- s8, active <- s9, closedSince <- s10

CalendarInit ==
    /\ "calendar" \in Topics /\ topic = "calendar" /\ Calendar!Init
    /\ s11 = Empty /\ s12 = Empty
CalendarNext == topic = "calendar" /\ Calendar!Next /\ UNCHANGED <<topic, s11, s12>>

-----------------------------------------------------------------------------
Membership == INSTANCE Membership WITH
    Ids <- Activities, Ours <- OwnActivities, PageSize <- RowsPerPage, LastTime <- LastHour,
    time <- s1, at <- s2, linked <- s3, opening <- s4, closing <- s5, pass <- s6, status <- s7,
    population <- s8, missed <- s9, latched <- s10

MembershipInit ==
    /\ "membership" \in Topics /\ topic = "membership" /\ Membership!Init
    /\ s11 = Empty /\ s12 = Empty
MembershipNext == topic = "membership" /\ Membership!Next /\ UNCHANGED <<topic, s11, s12>>

-----------------------------------------------------------------------------
CallsOverlap == Variant("overlapping calls")
Order == INSTANCE OrderHold WITH
    Fills <- OrderFills, Polls <- OrderPolls, Rechecks <- OrderRechecks,
    Overlap <- CallsOverlap, filled <- s1, shown <- s2, event <- s3, hold <- s4,
    latched <- s5, call <- s6, confirmed <- s7

OrderInit ==
    /\ "order" \in Topics /\ topic = "order" /\ Order!Init
    /\ s8 = Empty /\ s9 = Empty /\ s10 = Empty /\ s11 = Empty /\ s12 = Empty
OrderNext == topic = "order" /\ Order!Next /\ UNCHANGED <<topic, s8, s9, s10, s11, s12>>

-----------------------------------------------------------------------------
ASSUME SellAssumed == Sell!SellAssumption
ASSUME ViewAssumed == View!UnitsAssumption
ASSUME EntryAssumed == Entry!EntryAssumption
ASSUME QuarantineAssumed == Quarantine!QuarantineAssumption
ASSUME AdoptionAssumed == Adoption!AdoptionAssumption
ASSUME CalendarAssumed == Calendar!CalendarAssumption
ASSUME GenerationAssumed == Generation!VerificationAssumption
ASSUME MembershipAssumed == Membership!MembershipAssumption

Init ==
    \/ SellInit \/ ViewInit \/ EntryInit \/ GenerationInit \/ QuarantineInit
    \/ AdoptionInit \/ CalendarInit \/ MembershipInit \/ OrderInit
Next ==
    \/ SellNext \/ ViewNext \/ EntryNext \/ GenerationNext \/ QuarantineNext
    \/ AdoptionNext \/ CalendarNext \/ MembershipNext \/ OrderNext

Spec == Init /\ [][Next]_vars

-----------------------------------------------------------------------------
(* What each of them promises; see the modules.                              *)

\* _authorize_sell never gives more than is truly free, whatever lags and
\* whatever happens between its reads.
SellWithinFree == topic = "sell" => Sell!SellWithinFree

\* build_portfolio_view misses no unit that is bought or may still be, and counts
\* none twice when nothing moves between its reads.
ExposureIsCounted == topic = "exposure" => View!ExposureIsCounted

\* size_position gives the largest quantity within every limit at once, and the
\* cash covers all pending buys at the worst price their profiles allowed.
BuysFitTheirLimits == topic = "entry" => Entry!BuysFitTheirLimits

\* A generation is bound whole, opens with what its activities explain, never
\* passes again once it is invalid, and is sealed with all its evidence.  Its
\* population lacks nothing that was posted when its reading began, and what is
\* counted once is never counted differently.
GenerationIsWhole ==
    /\ [](topic = "verification" => Generation!GenerationIsSound)
    /\ [][topic = "verification" => Generation!SealTakesAll]_vars
    /\ [](topic = "membership" => Membership!PopulationIsComplete)
    /\ [][topic = "membership" => Membership!ResolvedStays]_vars

\* Quarantined units balance whatever resolve commands overlap, and the session
\* is never reset over an open record.
QuarantineIsExact ==
    /\ [](topic = "quarantine" => Quarantine!QuarantineBalances)
    /\ [][topic = "quarantine" => Quarantine!ResetFindsNothingOpen]_vars

\* An asset is managed or adopted, never both, and adopted once.
OneOrigin == topic = "adoption" => Adoption!OneOrigin

\* An entry stands on a whole and fresh check of its date, and a deadline counted
\* in doubt is never after the session it stands for.
CalendarSound == topic = "calendar" => Calendar!CalendarSound

\* A fill no call could compare with its order stays out of the books, and a
\* disputed order's hold is never taken away, so that its latch stays too.
OrderIsHeld ==
    /\ [](topic = "order" => Order!BookedIsConfirmed /\ Order!LatchIsHeld)
    /\ [][topic = "order" => Order!HoldStays]_vars

-----------------------------------------------------------------------------
(***************************************************************************)
(* What fails, each with one topic and the variants the comment names (see *)
(* Departures.cfg): behaviour of the code that a document promises away or *)
(* that its callers should know of.                                        *)
(***************************************************************************)
\* A reconciliation pass between the unresolved check and the read of the cursor
\* hides an unresolved sell from _authorize_sell.
\* [sell, "pass in between"]
SellSpansAPass == Sell!SellWithinFree

\* engine.py: "so nothing is counted twice".  A fill the broker shows and nothing
\* has attributed is a remainder of its intent and unmanaged excess.
\* [exposure]
ViewCountsOnce == View!NothingCountedTwice

\* engine.py: "still counted exactly once".  A unit projected between two reads of
\* build_portfolio_view is counted by neither.
\* [exposure]
ViewCountsAll == View!EveryUnitCounted

\* A generation is found invalid while it is frozen, and is dead when it is bound.
\* [verification]
VerdictAfterBinding == Generation!NoVerdictBeforeBinding

\* The broker's positions run ahead of its activities: the opening holds what no
\* activity explains.
\* [verification, "lagging broker"]
OpeningSeesAll == Generation!OpeningIsExact

\* A command permitted before the freeze writes evidence into the generation.
\* [verification, Unlocked = {"q"}]
OfficialEvidence == Generation!EvidenceIsOfficial

\* A record is resolved by an execution older than itself: only the oldest open
\* record is compared with it.
\* [quarantine]
LaterResolves == Quarantine!ResolvedByLaterOnly

\* An oversell settles while a surplus is open: from then on every execution is
\* refused.
\* [quarantine]
RecordsOfOneSign == Quarantine!NeverMixed

\* settlement: "reaching here is an incident".  An adoption overtakes a purchase in
\* flight, and an ordinary fill latches the session.
\* [adoption]
OwnersBuyIsRefused == Adoption!MixedOriginUnreached

\* gateway.py: "With no completed check for today yet" it runs first.  An entry
\* passes on the check of yesterday.
\* [calendar]
EntryReadsToday == Calendar!EntryChecksToday

\* The check that began last decides, though another got the later answer.
\* [calendar]
AnswersInOrder == Calendar!LastAnswerCounts

\* A library session that the broker's answer omits counts as verified.
\* [calendar]
OmissionIsContested == Calendar!OmittedIsContested

\* fill_attribution.py: "that one is permanent ... never automatically".  A hold
\* read as pending is deleted, or written back as pending, after another call has
\* made it a dispute.
\* [order, "overlapping calls"]
DisputeIsPermanent == [][Order!HoldStays]_vars

\* A fill is settled that no call has compared with its order.
\* [order, "overlapping calls"]
ComparedFirst == Order!BookedIsConfirmed

\* An activity that is none of the generation's reopens it after its seal.
\* [membership]
SealOutlivesPosts == Membership!SealHolds
=============================================================================
