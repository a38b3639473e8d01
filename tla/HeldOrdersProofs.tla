--------------------------- MODULE HeldOrdersProofs ---------------------------
(***************************************************************************)
(* Theorems about HeldOrders, for any legs of a decision in any books.      *)
(* A leg never goes back to waiting, an order that is over stays so, and    *)
(* neither the watch nor the operator ends a decision before its last leg;  *)
(* from that follow the hold, the truth of what the watch settled and the   *)
(* block behind a broken fill.                                            *)
(***************************************************************************)
EXTENDS HeldOrders, TLAPS

Settled == {"filled", "skipped", "partially_filled", "rejected_partial"}

Typed ==
    /\ dec \in {"waiting_for_market", "blocked", "completed", "completed_partial", "reviewed_no_action"}
    /\ scope \in {"all", "satellite", "swing"}
    /\ leg \in [Legs -> Settled \cup {"waiting_for_market"}] /\ mismatch \in [Legs -> BOOLEAN]
    /\ settler \in [Legs -> {"executor", "watch", "operator"}] /\ late \in [Legs -> BOOLEAN]
    /\ order \in [Legs -> {"held", "working", "partial", "filled", "failed", "failed_partial"}]
    /\ step \in {"idle", "legs", "settle", "report"} /\ todo \subseteq Legs
    /\ gone \subseteq Legs \ Opens /\ problem \in BOOLEAN
    /\ command \in {"none", "resolve", "resume"} /\ named \subseteq Legs
    /\ says \in {"filled", "skipped"}
    /\ record \in DecisionStates \cup {"none"} /\ published \in DecisionStates \cup {"none"}
    /\ dropped \in BOOLEAN

(* What waits is in the hands of whoever is about to end the decision.          *)
NoLegLeft ==
    /\ step = "settle" => Waiting = {}
    /\ command = "resolve" => Waiting \subseteq named
    /\ Waiting # {} => dec \in {"waiting_for_market", "blocked"}

StockHeld == scope = "satellite" => \A l \in Waiting : Stock[l]

GoneFilled == \A l \in gone : order[l] = "filled"

(* A mismatch is known to the run at hand, or has blocked the whole book.       *)
Broken ==
    /\ problem => step \in {"legs", "settle"}
    /\ ~dropped /\ (\E l \in Legs : mismatch[l]) =>
          problem \/ dec = "reviewed_no_action" \/ (dec = "blocked" /\ scope = "all")

IInv == Typed /\ NoLegLeft /\ StockHeld /\ GoneFilled /\ SettledMeansOver /\ Broken

-----------------------------------------------------------------------------
(* The moves of the ledger that these programs ask for.                        *)
LEMMA Vocabulary ==
    /\ DecisionStates = {"awaiting_publication", "proposed", "approved", "executing",
          "execution_unknown", "waiting_for_market", "blocked", "completed", "completed_partial",
          "rejected", "expired", "superseded", "reviewed_no_action"}
    /\ \A s \in {"blocked", "completed", "completed_partial", "reviewed_no_action"} :
          /\ CanTransition("waiting_for_market", s)
          /\ CanTransition("blocked", s) <=> s = "reviewed_no_action"
          /\ ~CanTransition("completed", s) /\ ~CanTransition("completed_partial", s)
          /\ ~CanTransition("reviewed_no_action", s)
    /\ \A s \in Settled : \A t : ~CanUpdateLeg(s, t)
    /\ \A s \in Settled : s \in LegTerminal
  BY DEF DecisionStates, PendingStates, TerminalStates, CanTransition, AllowedTransitions,
         CanUpdateLeg, LegTerminal, LegResolutions, Settled

LEMMA WaitingOf == Typed => Waiting = {l \in Legs : leg[l] = "waiting_for_market"}
  BY DEF Typed, Waiting, WaitingLegs

(* A decision enters its wait with the hold of the legs that wait.              *)
LEMMA Starts == Init => IInv
  <1> SUFFICES ASSUME Init PROVE IInv
    OBVIOUS
  <1>1. Typed
    <2>1. scope \in {"all", "satellite", "swing"}
      BY DEF Init, ScopeOf
    <2>2. leg \in [Legs -> Settled \cup {"waiting_for_market"}]
      BY DEF Init, Settled
    <2>3. QED
      BY <2>1, <2>2, Vocabulary DEF Init, Typed
  <1>2. NoLegLeft
    BY DEF Init, NoLegLeft
  <1>3. StockHeld
    BY DEF Init, StockHeld, ScopeOf, Waiting
  <1>4. GoneFilled /\ SettledMeansOver /\ Broken
    BY DEF Init, GoneFilled, SettledMeansOver, Broken
  <1>5. QED
    BY <1>1, <1>2, <1>3, <1>4 DEF IInv

-----------------------------------------------------------------------------
(* Steps that touch neither the legs nor the broker.                           *)

(* The decision stays, or is timed out with its legs; the run goes on or ends.  *)
LEMMA DecisionSteps ==
    ASSUME IInv, Typed', UNCHANGED <<leg, mismatch, settler, order>>,
           gone' \in {gone, {}},
           step' = "settle" => Waiting = {},
           command' = "resolve" => command = "resolve" /\ named' = named,
           dec' = dec \/ (dec = "waiting_for_market" /\ dec' = "blocked"),
           scope' = scope,
           \/ problem' = problem /\ dropped' = dropped /\ (problem => step' \in {"legs", "settle"})
           \/ ~problem' /\ dropped' = (dropped \/ problem)
    PROVE  IInv'
  <1>1. Waiting' = Waiting
    BY DEF Waiting
  <1>2. NoLegLeft' /\ StockHeld'
    BY <1>1 DEF IInv, NoLegLeft, StockHeld
  <1>3. GoneFilled' /\ SettledMeansOver'
    BY DEF IInv, GoneFilled, SettledMeansOver
  <1>4. Broken'
    BY DEF IInv, Broken, Typed
  <1>5. QED
    BY <1>2, <1>3, <1>4 DEF IInv

LEMMA RunTypes ==
    ASSUME IInv, UNCHANGED <<leg, mismatch, settler, late, order, command, named, says, scope>>,
           record' \in DecisionStates \cup {"none"}, published' \in DecisionStates \cup {"none"},
           dec' \in {dec, "blocked"}, step' \in {"idle", "legs", "settle", "report"},
           todo' \subseteq Legs, gone' \subseteq Legs \ Opens, problem' \in BOOLEAN, dropped' \in BOOLEAN
    PROVE  Typed'
  BY DEF IInv, Typed

LEMMA TimeOutKeeps ==
    ASSUME IInv, TimeOut, UNCHANGED <<scope, leg, mismatch, settler, late, order, operator, reports>>
    PROVE  IInv'
  <1>1. /\ dec' = dec \/ (dec = "waiting_for_market" /\ dec' = "blocked")
        /\ step' \in {"idle", "report"} /\ todo' = {} /\ gone' = {} /\ problem' = FALSE
        /\ dropped' = (dropped \/ problem)
    BY DEF TimeOut, StopWatch
  <1>2. Typed'
    BY <1>1, RunTypes DEF IInv, Typed, operator, reports
  <1>3. QED
    BY <1>1, <1>2, DecisionSteps DEF operator

LEMMA StopKeeps ==
    ASSUME IInv, StopWatch, UNCHANGED <<decision, late, order, operator>>,
           record' \in DecisionStates \cup {"none"}, published' = published
    PROVE  IInv'
  <1>1. Typed'
    BY RunTypes DEF IInv, Typed, StopWatch, decision, operator, reports
  <1>2. QED
    BY <1>1, DecisionSteps DEF StopWatch, decision, operator

LEMMA WatchQuietKeeps ==
    ASSUME IInv, Sweep \/ SweepBlind \/ ReadFails \/ StillHeld \/ AllOver \/ Refresh \/ Publish \/ WatchDies
    PROVE  IInv'
  <1>1. CASE Sweep
    <2>1. Waiting \subseteq Legs /\ ~problem
      BY <1>1, WaitingOf DEF Sweep, IInv, Broken
    <2>2. Typed'
      BY <1>1, <2>1, RunTypes DEF Sweep, IInv, Typed, decision, operator, reports
    <2>3. Waiting' = Waiting
      BY <1>1 DEF Sweep, Waiting, decision
    <2>4. NoLegLeft' /\ StockHeld'
      BY <1>1, <2>3 DEF Sweep, IInv, NoLegLeft, StockHeld, decision, operator
    <2>5. GoneFilled' /\ SettledMeansOver'
      BY <1>1 DEF Sweep, IInv, GoneFilled, SettledMeansOver, decision
    <2>6. Broken'
      BY <1>1, <2>1 DEF Sweep, IInv, Broken, decision
    <2>7. QED
      BY <2>2, <2>4, <2>5, <2>6 DEF IInv
  <1>2. CASE SweepBlind \/ ReadFails \/ StillHeld
    BY <1>2, TimeOutKeeps DEF SweepBlind, ReadFails, StillHeld
  <1>3. CASE AllOver
    <2>1. Typed'
      BY <1>3, RunTypes DEF AllOver, IInv, Typed, decision, operator, reports
    <2>2. QED
      BY <1>3, <2>1, DecisionSteps DEF AllOver, decision, operator
  <1>4. CASE Refresh
    BY <1>4, StopKeeps, Vocabulary DEF Refresh, IInv, Typed
  <1>5. CASE Publish
    <2>1. Typed'
      BY <1>5, RunTypes DEF Publish, IInv, Typed, decision, watch, operator, reports
    <2>2. QED
      BY <1>5, <2>1, DecisionSteps DEF Publish, decision, watch, operator, IInv, Broken
  <1>6. CASE WatchDies
    BY <1>6, StopKeeps DEF WatchDies, reports, IInv, Typed
  <1>7. QED
    BY <1>1, <1>2, <1>3, <1>4, <1>5, <1>6

(* The run that met a problem blocks the whole book, or drops the problem.      *)
LEMMA SettleKeeps == ASSUME IInv, SettleDecision PROVE IInv'
  <1>1. PICK protected \in BOOLEAN :
          LET final == Final(protected)
          IN  /\ scope' = IF final = "blocked" THEN "all" ELSE scope
              /\ IF CanTransition(dec, final)
                 THEN /\ dec' = final /\ step' = "report"
                      /\ problem' = FALSE /\ UNCHANGED <<todo, gone, dropped>>
                 ELSE UNCHANGED dec /\ StopWatch
    BY DEF SettleDecision
  <1> DEFINE final == Final(protected)
  <1>2. final \in {"blocked", "completed", "completed_partial"} /\ (problem => final = "blocked")
    BY DEF Final
  <1>3. /\ scope' = IF final = "blocked" THEN "all" ELSE scope
        /\ Waiting' = Waiting /\ Waiting = {} /\ step = "settle"
        /\ UNCHANGED <<leg, mismatch, settler, late, order, command, named, says, record, published>>
    BY <1>1 DEF SettleDecision, IInv, NoLegLeft, Waiting, operator, reports
  <1> HIDE DEF final
  <1>4. CASE dec = "waiting_for_market"
    <2>1. dec' = final /\ step' = "report" /\ problem' = FALSE /\ UNCHANGED <<todo, gone, dropped>>
      BY <1>1, <1>2, <1>4, Vocabulary DEF final
    <2>2. Typed'
      BY <1>2, <1>3, <2>1 DEF IInv, Typed
    <2>3. NoLegLeft' /\ StockHeld'
      BY <1>3, <2>1 DEF NoLegLeft, StockHeld
    <2>4. GoneFilled' /\ SettledMeansOver'
      BY <1>3, <2>1 DEF IInv, GoneFilled, SettledMeansOver
    <2>5. Broken'
      BY <1>2, <1>3, <1>4, <2>1 DEF IInv, Broken
    <2>6. QED
      BY <2>2, <2>3, <2>4, <2>5 DEF IInv
  <1>5. CASE dec # "waiting_for_market"
    <2>1. ~CanTransition(dec, final)
      BY <1>2, <1>5, Vocabulary DEF IInv, Typed
    <2>2. UNCHANGED dec /\ StopWatch
      BY <1>1, <2>1 DEF final
    <2>3. Typed'
      BY <1>3, <2>2 DEF IInv, Typed, StopWatch
    <2>4. NoLegLeft' /\ StockHeld'
      BY <1>3, <2>2 DEF StopWatch, NoLegLeft, StockHeld
    <2>5. GoneFilled' /\ SettledMeansOver'
      BY <1>3, <2>2 DEF StopWatch, IInv, GoneFilled, SettledMeansOver
    <2>6. Broken'
      BY <1>3, <2>2 DEF StopWatch, IInv, Broken, Typed
    <2>7. QED
      BY <2>3, <2>4, <2>5, <2>6 DEF IInv
  <1>6. QED
    BY <1>4, <1>5

-----------------------------------------------------------------------------
(* Legs that are settled.                                                      *)

(* What the watch finds of an order is what the order is.                      *)
LEMMA FoundTrue ==
    ASSUME IInv, NEW l \in Legs
    PROVE  /\ Found(l) \in Settled \cup {"none"}
           /\ Found(l) = "filled" => order[l] = "filled"
           /\ Found(l) = "skipped" => order[l] = "failed"
           /\ Found(l) = "rejected_partial" => order[l] = "failed_partial"
  BY DEF IInv, Typed, Found, GoneFilled, Settled

LEMMA LegSettles ==
    ASSUME IInv, NEW l \in Legs, NEW s \in Settled, NEW bad \in BOOLEAN, step = "legs",
           CanUpdateLeg(leg[l], s), LegBecomes(l, s, bad), s = Found(l),
           todo' = todo \ {l}, UNCHANGED <<dec, step, gone, dropped, scope, late, order, operator, reports>>
    PROVE  IInv'
  <1>1. leg[l] = "waiting_for_market"
    BY Vocabulary DEF IInv, Typed
  <1>2. Typed'
    BY DEF LegBecomes, IInv, Typed, operator, reports
  <1>3. Waiting' = Waiting \ {l}
    BY <1>2, WaitingOf, s # "waiting_for_market" DEF LegBecomes, IInv, Typed, Waiting, WaitingLegs, Settled
  <1>4. NoLegLeft' /\ StockHeld'
    BY <1>3 DEF IInv, NoLegLeft, StockHeld, operator
  <1>5. GoneFilled'
    BY DEF IInv, GoneFilled
  <1>6. SettledMeansOver'
    BY FoundTrue DEF LegBecomes, IInv, Typed, SettledMeansOver
  <1>7. Broken'
    BY DEF LegBecomes, IInv, Typed, Broken
  <1>8. QED
    BY <1>2, <1>4, <1>5, <1>6, <1>7 DEF IInv

LEMMA LookKeeps == ASSUME IInv, NEW l \in Legs, LookLeg(l) PROVE IInv'
  <1>1. CASE todo' = todo \ {l} /\ LegStays /\ UNCHANGED <<dec, step, gone, dropped>>
    <2>1. UNCHANGED <<leg, mismatch, settler, problem, dec, step, gone, dropped, scope, late, order, operator, reports>>
      BY <1>1 DEF LookLeg, LegStays
    <2>2. Typed'
      BY <1>1, <2>1, RunTypes DEF IInv, Typed, operator, reports
    <2>3. QED
      BY <2>1, <2>2, DecisionSteps DEF operator, IInv, Broken, NoLegLeft
  <1>2. CASE /\ Found(l) # "none" /\ CanUpdateLeg(leg[l], Found(l))
             /\ \E bad \in BOOLEAN : LegBecomes(l, Found(l), bad)
             /\ todo' = todo \ {l} /\ UNCHANGED <<dec, step, gone, dropped>>
    <2>1. Found(l) \in Settled
      BY <1>2, FoundTrue
    <2>2. QED
      BY <1>2, <2>1, LegSettles DEF LookLeg
  <1>3. CASE UNCHANGED <<leg, mismatch, settler>> /\ TimeOut
    BY <1>3, TimeOutKeeps DEF LookLeg
  <1>4. QED
    BY <1>1, <1>2, <1>3 DEF LookLeg

LEMMA ResolveLegKeeps == ASSUME IInv, NEW l \in Legs, OpsResolveLeg(l) PROVE IInv'
  <1>0. UNCHANGED <<dec, scope, mismatch, late, order, step, todo, gone, problem, record, published, dropped>>
    BY DEF OpsResolveLeg, watch, reports
  <1>1. CASE CanUpdateLeg(leg[l], says)
    <2>1. leg[l] = "waiting_for_market" /\ says \in Settled
      BY <1>1, Vocabulary DEF IInv, Typed, Settled
    <2>2. /\ leg' = [leg EXCEPT ![l] = says] /\ settler' = [settler EXCEPT ![l] = "operator"]
          /\ named' = named \ {l} /\ UNCHANGED <<command, says>>
      BY <1>1 DEF OpsResolveLeg
    <2>3. Typed'
      BY <1>0, <2>1, <2>2 DEF IInv, Typed
    <2>4. Waiting' = Waiting \ {l}
      BY <2>1, <2>2, <2>3 DEF IInv, Typed, Waiting, WaitingLegs, Settled
    <2>5. NoLegLeft' /\ StockHeld'
      BY <1>0, <2>2, <2>4 DEF IInv, NoLegLeft, StockHeld
    <2>6. GoneFilled' /\ SettledMeansOver'
      BY <1>0, <2>2 DEF IInv, Typed, GoneFilled, SettledMeansOver
    <2>7. Broken'
      BY <1>0 DEF IInv, Broken
    <2>8. QED
      BY <2>3, <2>5, <2>6, <2>7 DEF IInv
  <1>2. CASE ~CanUpdateLeg(leg[l], says)
    <2>1. UNCHANGED <<leg, settler>> /\ command' = "none" /\ named' = {} /\ says' = says
      BY <1>2 DEF OpsResolveLeg, Done
    <2>2. Typed'
      BY <1>0, <2>1 DEF IInv, Typed
    <2>3. QED
      BY <1>0, <2>1, <2>2, DecisionSteps DEF IInv, Broken, NoLegLeft
  <1>3. QED
    BY <1>1, <1>2

-----------------------------------------------------------------------------
(* The operator ends a decision behind its last leg.                           *)
LEMMA OperatorEnds == ASSUME IInv, OpsResolved \/ OpsReview PROVE IInv'
  <1>1. /\ dec' = dec \/ dec' = "reviewed_no_action"
        /\ UNCHANGED <<scope, leg, mismatch, settler, late, order, step, todo, gone, problem, record, published, dropped>>
        /\ command' = "none" /\ named' \subseteq Legs /\ says' = says
    BY DEF OpsResolved, OpsReview, Done, watch, operator, reports, IInv, Typed
  <1>2. Waiting = {} /\ Waiting' = Waiting
    <2>1. CASE OpsResolved
      BY <1>1, <2>1 DEF OpsResolved, IInv, NoLegLeft, Waiting
    <2>2. CASE OpsReview
      BY <1>1, <2>2, WaitingOf DEF OpsReview, IInv, Waiting
    <2>3. QED
      BY <2>1, <2>2
  <1>3. Typed'
    BY <1>1 DEF IInv, Typed
  <1>4. NoLegLeft' /\ StockHeld'
    BY <1>1, <1>2 DEF NoLegLeft, StockHeld
  <1>5. GoneFilled' /\ SettledMeansOver'
    BY <1>1 DEF IInv, GoneFilled, SettledMeansOver
  <1>6. Broken'
    BY <1>1 DEF IInv, Broken
  <1>7. QED
    BY <1>3, <1>4, <1>5, <1>6 DEF IInv

LEMMA OperatorQuietKeeps ==
    ASSUME IInv, (\E s \in {"filled", "skipped"} : OpsResolve(s)) \/ ResumeBlocked \/ ResumeStores \/ TerminalDies
    PROVE  IInv'
  <1>1. CASE \E s \in {"filled", "skipped"} : OpsResolve(s)
    <2>1. /\ command' = "resolve" /\ named' = Waiting /\ says' \in {"filled", "skipped"}
          /\ UNCHANGED <<dec, scope, leg, mismatch, settler, late, order, step, todo, gone, problem, record, published, dropped>>
      BY <1>1 DEF OpsResolve, decision, watch, reports
    <2>2. Typed' /\ Waiting' = Waiting
      BY <2>1, WaitingOf DEF IInv, Typed, Waiting
    <2>3. QED
      BY <2>1, <2>2 DEF IInv, NoLegLeft, StockHeld, GoneFilled, SettledMeansOver, Broken
  <1>2. CASE ResumeBlocked \/ ResumeStores \/ TerminalDies
    <2>1. /\ command' \in {"none", "resume"} /\ named' \in {named, {}} /\ says' = says
          /\ UNCHANGED <<dec, scope, leg, mismatch, settler, late, order, step, todo, gone, problem, dropped>>
          /\ record' \in {record, "blocked"} /\ published' \in {published, "none"}
      BY <1>2 DEF ResumeBlocked, ResumeStores, TerminalDies, Done, decision, watch, reports
    <2>2. Typed'
      BY <2>1, Vocabulary DEF IInv, Typed
    <2>3. QED
      BY <2>1, <2>2, DecisionSteps DEF IInv, Broken, NoLegLeft
  <1>3. QED
    BY <1>1, <1>2

(* An order that is over stays so.                                             *)
LEMMA OthersKeep == ASSUME IInv, NEW l \in Legs, DeadlinePasses(l) \/ BrokerMoves(l) PROVE IInv'
  <1>1. UNCHANGED <<dec, scope, leg, mismatch, settler, step, todo, gone, problem, command, named, says,
                    record, published, dropped>>
    BY DEF DeadlinePasses, BrokerMoves, decision, watch, operator, reports
  <1>2. Typed'
    <2>1. late' \in [Legs -> BOOLEAN]
      BY DEF DeadlinePasses, BrokerMoves, IInv, Typed
    <2>2. order' \in [Legs -> {"held", "working", "partial", "filled", "failed", "failed_partial"}]
      BY DEF DeadlinePasses, BrokerMoves, IInv, Typed
    <2>3. QED
      BY <1>1, <2>1, <2>2 DEF IInv, Typed
  <1>3. \A k \in Legs : order[k] \in {"filled", "failed", "failed_partial"} => order'[k] = order[k]
    BY DEF DeadlinePasses, BrokerMoves, OrderMoves, IInv, Typed
  <1>4. GoneFilled' /\ SettledMeansOver'
    BY <1>1, <1>3 DEF IInv, Typed, GoneFilled, SettledMeansOver
  <1>5. NoLegLeft' /\ StockHeld' /\ Broken'
    BY <1>1 DEF IInv, NoLegLeft, StockHeld, Broken, Waiting
  <1>6. QED
    BY <1>2, <1>4, <1>5 DEF IInv

LEMMA StepKeeps == IInv /\ [Next]_vars => IInv'
  <1> SUFFICES ASSUME IInv, [Next]_vars PROVE IInv'
    OBVIOUS
  <1>1. CASE UNCHANGED vars
    BY <1>1 DEF vars, decision, watch, operator, reports, IInv, Typed, NoLegLeft, StockHeld, GoneFilled,
                SettledMeansOver, Broken, Waiting
  <1>2. CASE Next
    BY <1>2, WatchQuietKeeps, SettleKeeps, LookKeeps, ResolveLegKeeps, OperatorEnds, OperatorQuietKeeps,
       OthersKeep DEF Next, WatchStep, OperatorStep
  <1>3. QED
    BY <1>1, <1>2

-----------------------------------------------------------------------------
(* The invariant holds for any legs: what waits is never left by whoever ends   *)
(* the decision (watch.py _resolve_one, approve.py resolve_waiting, review).    *)
THEOREM Inductive == Spec => []IInv
  BY Starts, StepKeeps, PTL DEF Spec

(* An order the ledger still waits for holds its book, for any legs in any      *)
(* books, whoever of watch and operator worked on the decision last.           *)
THEOREM BooksHeld == Spec => []HeldHoldsItsBook
  <1>1. IInv => HeldHoldsItsBook
    <2> SUFFICES ASSUME IInv, NEW l \in Waiting
                 PROVE  /\ Hold # "none" /\ (~Swing[l] => Hold # "swing")
                        /\ (~Stock[l] /\ ~Swing[l] => Hold = "all")
      BY DEF HeldHoldsItsBook
    <2>1. l \in Legs /\ leg[l] = "waiting_for_market" /\ DOMAIN leg = Legs
      BY WaitingOf DEF IInv, Typed
    <2>2. dec \in {"waiting_for_market", "blocked"} /\ \A k \in DOMAIN leg : leg[k] # "unknown"
      BY DEF IInv, Typed, NoLegLeft, Settled
    <2>3. ~Swing[l] => ~OnlySwing(leg, Swing)
      BY <2>1 DEF OnlySwing, UnresolvedLegs
    <2>4. ~Stock[l] => scope # "satellite"
      BY DEF IInv, StockHeld
    <2>5. QED
      BY <2>2, <2>3, <2>4 DEF Hold, HoldOf
  <1>2. QED
    BY <1>1, Inductive, PTL

(* What the watch calls over is over at the broker, for any legs and however    *)
(* the orders move while the watch reads.                                      *)
THEOREM SettledTruly == Spec => []SettledMeansOver
  <1>1. IInv => SettledMeansOver
    BY DEF IInv
  <1>2. QED
    BY <1>1, Inductive, PTL

(* A broken fill blocks the decision and holds the whole book, as long as the   *)
(* run that saw it is the run that settles.                                    *)
THEOREM BrokenFillHolds == Spec => []BrokenFillBlocksAtOnce
  <1>1. IInv => BrokenFillBlocksAtOnce
    <2> SUFFICES ASSUME IInv, ~dropped, \E l \in Legs : mismatch[l], step = "idle"
                 PROVE  /\ dec \notin {"completed", "completed_partial"}
                        /\ dec # "reviewed_no_action" => Hold = "all"
      BY DEF BrokenFillBlocksAtOnce, BrokenFillBlocks
    <2>1. dec = "reviewed_no_action" \/ (dec = "blocked" /\ scope = "all")
      BY DEF IInv, Broken
    <2>2. \A k \in DOMAIN leg : leg[k] # "unknown"
      BY DEF IInv, Typed, Settled
    <2>3. QED
      BY <2>1, <2>2 DEF Hold, HoldOf
  <1>2. QED
    BY <1>1, Inductive, PTL
=============================================================================
