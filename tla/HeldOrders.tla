------------------------------ MODULE HeldOrders ------------------------------
(***************************************************************************)
(* A decision whose orders the broker holds until their market opens       *)
(* (waiting_for_market).  Every 15 minutes the watch looks the orders up,  *)
(* leg by leg, and settles the decision, times it out or leaves it         *)
(* waiting.  The operator terminal works on the same rows without the      *)
(* watch's lock: `ops resolve`, `ops review` and `resume-exec`.  The       *)
(* stored execution record follows the decision in writes of its own.      *)
(*                                                                         *)
(* External: the broker, which fills or cancels a held order at any time.  *)
(***************************************************************************)
EXTENDS LedgerStates

CONSTANTS Legs, Opens, Swing, Stock    \* the legs; the opens (the rest are closes); their sleeve

ASSUME HeldAssumption == /\ Opens \subseteq Legs
                         /\ Swing \in [Legs -> BOOLEAN] /\ Stock \in [Legs -> BOOLEAN]

VARIABLES
    dec, scope, leg,        \* decisions.state, decisions.blocker_scope, legs.state
    mismatch, settler,      \* legs.error names a fill mismatch; who settled the leg
    late,                   \* the leg's waiting_deadline passed, or it has none
    order,                  \* the state of the leg's order at the broker
    step, todo, gone,       \* the watch: its step, legs to look up, positions gone at its start
    problem,                \* `problems` of this watch run is not empty
    command, named, says,   \* the operator's command, the rows it read, what it records
    record, published,      \* final_state of exec_report, and of its published form
    dropped                 \* history: a run that met a problem ended without settling

decision == <<dec, scope, leg, mismatch, settler>>
watch == <<step, todo, gone, problem>>
operator == <<command, named, says>>
reports == <<record, published>>
vars == <<decision, late, order, watch, operator, reports, dropped>>

-----------------------------------------------------------------------------
Waiting == WaitingLegs(leg)

Hold == HoldOf(dec, scope, leg, Swing)

(* The states a decision enters waiting_for_market in (executor _finish): some *)
(* legs over, the others held; its record stored, unless the terminal died.    *)
Init ==
    /\ dec = "waiting_for_market"
    /\ leg \in {f \in [Legs -> {"waiting_for_market", "filled", "skipped"}] : WaitingLegs(f) # {}}
    /\ scope = ScopeOf(leg, Swing, Stock)
    /\ mismatch = [l \in Legs |-> FALSE] /\ settler = [l \in Legs |-> "executor"]
    /\ late = [l \in Legs |-> FALSE]
    /\ order = [l \in Legs |-> IF leg[l] = "filled" THEN "filled"
                               ELSE IF leg[l] = "skipped" THEN "failed" ELSE "held"]
    /\ step = "idle" /\ todo = {} /\ gone = {} /\ problem = FALSE
    /\ command = "none" /\ named = {} /\ says = "skipped"
    /\ record \in {"none", "waiting_for_market"} /\ published = "none"
    /\ dropped = FALSE

-----------------------------------------------------------------------------
(* The watch *)

StopWatch ==
    /\ step' = "idle" /\ todo' = {} /\ gone' = {} /\ problem' = FALSE
    /\ dropped' = (dropped \/ problem)

Due == \E l \in Waiting : late[l]

(* _timeout_if_due: the run ends; a hold past its deadline becomes blocked.     *)
TimeOut ==
    IF dec = "waiting_for_market" /\ Due
    THEN /\ dec' = "blocked"
         /\ step' = "report" /\ todo' = {} /\ gone' = {} /\ problem' = FALSE
         /\ dropped' = (dropped \/ problem)
    ELSE UNCHANGED dec /\ StopWatch

(* _resolve_one reads the book and the rows.                                   *)
Sweep ==
    /\ step = "idle" /\ dec = "waiting_for_market"
    /\ step' = "legs" /\ todo' = Waiting
    /\ gone' = {l \in Legs \ Opens : order[l] = "filled"}
    /\ UNCHANGED <<decision, late, order, problem, operator, reports, dropped>>

(* No broker is connected, or its first read fails.                            *)
SweepBlind ==
    /\ step = "idle" /\ dec = "waiting_for_market" /\ Due
    /\ TimeOut
    /\ UNCHANGED <<scope, leg, mismatch, settler, late, order, operator, reports>>

LegStays == UNCHANGED <<leg, mismatch, settler, problem>>

LegBecomes(l, s, bad) ==
    /\ leg' = [leg EXCEPT ![l] = s]
    /\ mismatch' = [mismatch EXCEPT ![l] = mismatch[l] \/ bad]
    /\ settler' = [settler EXCEPT ![l] = "watch"]
    /\ problem' = (problem \/ bad)

(* Mutant: a close whose position is gone counts as filled, whatever the order says. *)
FoundGone(l) ==
    IF l \notin Opens /\ l \in gone THEN "filled"
    ELSE CASE order[l] = "filled" -> IF l \in Opens THEN "filled" ELSE "none"
           [] order[l] \in {"working", "failed"} -> "skipped"
           [] order[l] = "failed_partial" -> "rejected_partial"
           [] OTHER -> "none"

(* What the watch makes of the order it found: the leg's next state, or none.  *)
Found(l) ==
    IF l \in Opens
    THEN CASE order[l] = "filled" -> "filled"
           [] order[l] = "partial" -> IF late[l] THEN "partially_filled" ELSE "none"
           [] order[l] = "failed" -> "skipped"
           [] order[l] = "failed_partial" -> "rejected_partial"
           [] OTHER -> "none"
    ELSE IF order[l] = "failed" THEN "skipped"
         ELSE IF order[l] # "held" /\ l \in gone THEN "filled" ELSE "none"

(* One row: left waiting (held, partial before its deadline, no answer) or     *)
(* settled; a fill is checked against what was sent.  A row that somebody else *)
(* settled meanwhile raises and ends the run.                                  *)
LookLeg(l) ==
    /\ step = "legs" /\ l \in todo
    /\ \/ todo' = todo \ {l} /\ LegStays /\ UNCHANGED <<dec, step, gone, dropped>>
       \/ /\ Found(l) # "none" /\ CanUpdateLeg(leg[l], Found(l))
          /\ \E bad \in BOOLEAN :
              /\ bad => Found(l) \in {"filled", "partially_filled"} /\ l \in Opens
              /\ LegBecomes(l, Found(l), bad)
          /\ todo' = todo \ {l}
          /\ UNCHANGED <<dec, step, gone, dropped>>
       \/ /\ Found(l) # "none" /\ ~CanUpdateLeg(leg[l], Found(l))
          /\ UNCHANGED <<leg, mismatch, settler>> /\ TimeOut
    /\ UNCHANGED <<scope, late, order, operator, reports>>

(* A failed read ends the run between any two rows, and before the last read.   *)
ReadFails ==
    /\ step \in {"legs", "settle"}
    /\ TimeOut
    /\ UNCHANGED <<scope, leg, mismatch, settler, late, order, operator, reports>>

(* Mutant: the timeout is left to the runs whose read fails.                    *)
StillHeldUntimed ==
    /\ step = "legs" /\ todo = {} /\ Waiting # {}
    /\ StopWatch
    /\ UNCHANGED <<decision, late, order, operator, reports>>

(* The rows again: something still waits, or the decision can be settled.       *)
StillHeld ==
    /\ step = "legs" /\ todo = {} /\ Waiting # {}
    /\ TimeOut
    /\ UNCHANGED <<scope, leg, mismatch, settler, late, order, operator, reports>>

(* Mutant: the last rows are not read again before settling.                   *)
AllOverUnread ==
    /\ step = "legs" /\ todo = {}
    /\ step' = "settle"
    /\ UNCHANGED <<decision, late, order, todo, gone, problem, operator, reports, dropped>>

AllOver ==
    /\ step = "legs" /\ todo = {} /\ Waiting = {}
    /\ step' = "settle"
    /\ UNCHANGED <<decision, late, order, todo, gone, problem, operator, reports, dropped>>

Short == {"rejected", "skipped", "partially_filled", "rejected_partial"}

(* Mutant: a mismatch is recorded, never a block.                              *)
FinalOfRows(protected) ==
    IF ~protected THEN "blocked"
    ELSE IF \E l \in Legs : leg[l] \in Short THEN "completed_partial" ELSE "completed"

(* _final_after_wait; protected: every position known and with its stop-loss.   *)
Final(protected) ==
    IF problem \/ ~protected THEN "blocked"
    ELSE IF \E l \in Legs : leg[l] \in Short THEN "completed_partial" ELSE "completed"

SettleDecision ==
    /\ step = "settle"
    /\ \E protected \in BOOLEAN :
        LET final == Final(protected)
        IN  /\ scope' = IF final = "blocked" THEN "all" ELSE scope
            /\ IF CanTransition(dec, final)
               THEN /\ dec' = final /\ step' = "report"
                    /\ problem' = FALSE /\ UNCHANGED <<todo, gone, dropped>>
               ELSE UNCHANGED dec /\ StopWatch
    /\ UNCHANGED <<leg, mismatch, settler, late, order, operator, reports>>

(* _refresh_report: the stored record takes the outcome.                       *)
Refresh ==
    /\ step = "report"
    /\ record' = IF record = "none" THEN "none" ELSE dec
    /\ StopWatch
    /\ UNCHANGED <<decision, late, order, operator, published>>

(* _executions: once per record, never while the decision waits.               *)
Publish ==
    /\ step = "idle" /\ record # "none" /\ published = "none"
    /\ dec # "waiting_for_market"
    /\ published' = record
    /\ UNCHANGED <<decision, late, order, watch, operator, record, dropped>>

WatchDies ==
    /\ step # "idle"
    /\ StopWatch
    /\ UNCHANGED <<decision, late, order, operator, reports>>

-----------------------------------------------------------------------------
(* The operator terminal *)

Done == command' = "none" /\ named' = {} /\ UNCHANGED says

(* ops resolve: one outcome for every leg that waits.                          *)
OpsResolve(s) ==
    /\ command = "none"
    /\ dec \in {"waiting_for_market", "blocked"} /\ Waiting # {}
    /\ command' = "resolve" /\ named' = Waiting /\ says' = s
    /\ UNCHANGED <<decision, late, order, watch, reports, dropped>>

OpsResolveLeg(l) ==
    /\ command = "resolve" /\ l \in named
    /\ IF CanUpdateLeg(leg[l], says)
       THEN /\ leg' = [leg EXCEPT ![l] = says]
            /\ settler' = [settler EXCEPT ![l] = "operator"]
            /\ named' = named \ {l} /\ UNCHANGED <<command, says>>
       ELSE UNCHANGED <<leg, settler>> /\ Done
    /\ UNCHANGED <<dec, scope, mismatch, late, order, watch, reports, dropped>>

OpsResolved ==
    /\ command = "resolve" /\ named = {}
    /\ dec' = IF CanTransition(dec, "reviewed_no_action") THEN "reviewed_no_action" ELSE dec
    /\ Done
    /\ UNCHANGED <<scope, leg, mismatch, settler, late, order, watch, reports, dropped>>

(* ops review: only what has no active and no waiting leg is cleared.          *)
OpsReview ==
    /\ command = "none"
    /\ dec = "blocked"
    /\ \A l \in Legs : leg[l] \notin LegActive \cup {"waiting_for_market"}
    /\ dec' = "reviewed_no_action"
    /\ UNCHANGED <<scope, leg, mismatch, settler, late, order, watch, operator, reports, dropped>>

(* resume-exec of a blocked decision changes no row of it (nothing leads out of *)
(* blocked but the operator); it replaces the stored record, which is published *)
(* again.                                                                      *)
ResumeBlocked ==
    /\ command = "none" /\ dec = "blocked"
    /\ command' = "resume" /\ UNCHANGED <<named, says>>
    /\ UNCHANGED <<decision, late, order, watch, reports, dropped>>

ResumeStores ==
    /\ command = "resume"
    /\ record' = "blocked" /\ published' = "none"
    /\ Done
    /\ UNCHANGED <<decision, late, order, watch, dropped>>

TerminalDies ==
    /\ command # "none"
    /\ Done
    /\ UNCHANGED <<decision, late, order, watch, reports, dropped>>

-----------------------------------------------------------------------------
(* Time and the broker *)

DeadlinePasses(l) ==
    /\ ~late[l]
    /\ late' = [late EXCEPT ![l] = TRUE]
    /\ UNCHANGED <<decision, order, watch, operator, reports, dropped>>

OrderMoves ==
    {<<"held", "working">>, <<"held", "failed">>, <<"working", "partial">>,
     <<"working", "filled">>, <<"working", "failed">>, <<"partial", "filled">>,
     <<"partial", "failed_partial">>}

BrokerMoves(l) ==
    /\ \E s \in {"working", "partial", "filled", "failed", "failed_partial"} :
        /\ <<order[l], s>> \in OrderMoves
        /\ s = "partial" => l \in Opens
        /\ order' = [order EXCEPT ![l] = s]
    /\ UNCHANGED <<decision, late, watch, operator, reports, dropped>>

WatchStep ==
    \/ Sweep \/ SweepBlind \/ (\E l \in Legs : LookLeg(l)) \/ ReadFails
    \/ StillHeld \/ AllOver \/ SettleDecision \/ Refresh \/ Publish

OperatorStep ==
    \/ (\E s \in {"filled", "skipped"} : OpsResolve(s))
    \/ (\E l \in Legs : OpsResolveLeg(l))
    \/ OpsResolved \/ OpsReview \/ ResumeBlocked \/ ResumeStores

Next ==
    \/ WatchStep \/ WatchDies
    \/ OperatorStep \/ TerminalDies
    \/ \E l \in Legs : DeadlinePasses(l) \/ BrokerMoves(l)

Spec == Init /\ [][Next]_vars

(* The watch job is started every 15 minutes.  From some point on the broker    *)
(* answers for every row and the process gets through the rows; later reads    *)
(* and deaths may still end a run, but not every run.  Deadlines pass.         *)
AnsweredSpec ==
    /\ Spec
    /\ WF_vars(WatchStep)
    /\ SF_vars(StillHeld) /\ SF_vars(AllOver) /\ SF_vars(SettleDecision)
    /\ <>[][todo # {} => ~WatchDies /\ ~ReadFails]_vars
    /\ \A l \in Legs : WF_vars(DeadlinePasses(l))

-----------------------------------------------------------------------------
(* Properties *)

TypeOK ==
    /\ dec \in DecisionStates /\ scope \in {"all", "satellite", "swing"}
    /\ leg \in [Legs -> LegStates] /\ mismatch \in [Legs -> BOOLEAN]
    /\ settler \in [Legs -> {"executor", "watch", "operator"}]
    /\ late \in [Legs -> BOOLEAN]
    /\ order \in [Legs -> {"held", "working", "partial", "filled", "failed", "failed_partial"}]
    /\ step \in {"idle", "legs", "settle", "report"} /\ todo \subseteq Legs
    /\ gone \subseteq Legs \ Opens /\ problem \in BOOLEAN
    /\ command \in {"none", "resolve", "resume"} /\ named \subseteq Legs
    /\ says \in {"filled", "skipped"}
    /\ record \in DecisionStates \cup {"none"} /\ published \in DecisionStates \cup {"none"}
    /\ dropped \in BOOLEAN

(* An order the ledger still waits for holds its book, whoever of watch and     *)
(* operator worked on the decision last and whoever died: it is never the       *)
(* swing book alone for a core order, nor the satellite alone for anything but  *)
(* stock orders (blockers, resolve_waiting, _resolve_one).                      *)
HeldHoldsItsBook ==
    \A l \in Waiting :
        /\ Hold # "none"
        /\ ~Swing[l] => Hold # "swing"
        /\ ~Stock[l] /\ ~Swing[l] => Hold = "all"

(* What the watch calls over is over at the broker: a filled leg filled, a      *)
(* skipped one was cancelled or rejected, also when the book was read before    *)
(* and the order after (_resolve_one; a partial fill past its deadline is the   *)
(* one the code settles early).                                                *)
SettledMeansOver ==
    \A l \in Legs : settler[l] = "watch" =>
        /\ leg[l] = "filled" => order[l] = "filled"
        /\ leg[l] = "skipped" => order[l] = "failed"
        /\ leg[l] = "rejected_partial" => order[l] = "failed_partial"

(* A fill that differs from what was sent blocks the decision and holds the     *)
(* whole book (watch.py: a broken fill holds the whole book).                   *)
BrokenFillBlocks ==
    (\E l \in Legs : mismatch[l]) /\ step = "idle" =>
        /\ dec \notin {"completed", "completed_partial"}
        /\ dec # "reviewed_no_action" => Hold = "all"

(* It does whenever the run that saw the mismatch is the run that settles.      *)
BrokenFillBlocksAtOnce == ~dropped => BrokenFillBlocks

(* A hold past every deadline is taken out of waiting_for_market, as long as    *)
(* the watch runs (_timeout_if_due: the timeout applies on every run).          *)
EveryHoldEnds == dec = "waiting_for_market" ~> dec # "waiting_for_market"

=============================================================================
