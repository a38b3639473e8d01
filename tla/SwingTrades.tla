------------------------------ MODULE SwingTrades ------------------------------
(***************************************************************************)
(* The life of one swing trade.  Its row in the ledger (swing_trades) is    *)
(* written by four programs: the cycle proposes the entry and the exits and *)
(* settles what is over, the executor records fills and closes, the watch   *)
(* records what the broker closed, and the operator terminal drops legs,    *)
(* resolves held orders and reviews.  Cycle and watch share a lock; the     *)
(* executor and the terminal do not hold it.                                *)
(*                                                                         *)
(* The trade's positions are at the broker, where stops, targets and a      *)
(* manual close take them away at any moment.  A decision is a record of    *)
(* its kind, its state and, for each leg, the state of the row and of the   *)
(* order behind it.  Prices, rates and the classification of a close by     *)
(* its rate are left out: `closed_broker` stands for the states a broker    *)
(* close is classified into, `closed_own` for those of our own exits.       *)
(***************************************************************************)
EXTENDS Integers, Sequences

CONSTANTS Positions,      \* positions at the broker, positive numbers
          Fills,          \* the sets of positions an entry order may open
          Begun,          \* the sets of positions the trade may start with, {} for no trade yet
          MaxDecisions    \* bound: how many decisions are made about the trade

ASSUME SwingBounds ==
    /\ Positions \subseteq Nat \ {0} /\ MaxDecisions \in Nat
    /\ Fills \subseteq (SUBSET Positions) \ {{}} /\ Begun \subseteq SUBSET Positions

VARIABLES trade,          \* the row of swing_trades
          decs,           \* the decisions that concern it, oldest first
          live,           \* its positions at the broker
          opened,         \* the positions its entry order ever opened
          watched,        \* watch_positions: what the last watch saw
          run,            \* the executor's run, or NoRun
          snap,           \* the portfolio the running watch read, or NoSnap
          settled         \* the running cycle has settled the trades
vars == <<trade, decs, live, opened, watched, run, snap, settled>>
broker == <<live, opened>>
locked == <<watched, snap, settled>>

Entry == 0                                   \* the leg that opens; closes bear their position
NoRun == [dec |-> 0, sends |-> FALSE]
NoSnap == {-1}
NoTrade == [state |-> "none", entry |-> 0, exit |-> 0, kind |-> "exit", back |-> "open", ids |-> {}]

BrokerCloses == {"closed_broker"}
OwnCloses == {"closed_own"}
Terminal == BrokerCloses \cup OwnCloses \cup {"missed"}
Held == {"open", "open_tp_missing", "partial"}

Transitions ==
    [proposed |-> {"entry_executing", "missed"},
     entry_executing |-> Held \cup {"entry_unknown", "missed"},
     entry_unknown |-> Held \cup {"missed"} \cup BrokerCloses,
     open |-> {"open_tp_missing", "exit_pending"} \cup BrokerCloses,
     partial |-> {"open_tp_missing", "exit_pending"} \cup BrokerCloses,
     open_tp_missing |-> {"open", "partial", "exit_pending"} \cup BrokerCloses,
     exit_pending |-> OwnCloses \cup BrokerCloses \cup Held,
     none |-> {}, missed |-> {}, closed_broker |-> {}, closed_own |-> {}]

(* transition_swing_trade; a move the table refuses is raised and caught.      *)
Moved(t, s) == IF s \in Transitions[t.state] THEN [t EXCEPT !.state = s] ELSE t

Filled == {"filled", "partially_filled"}
Active == {"submitting", "submitted", "unknown"}
Dead == {"rejected", "expired", "superseded", "reviewed_no_action"}
Finished == {"completed", "completed_partial"}

Legs(i) == DOMAIN decs[i].leg
Closes(i) == Legs(i) \ {Entry}
Decision(kind, legs) ==
    [kind |-> kind, state |-> "awaiting", leg |-> [l \in legs |-> "planned"],
     order |-> [l \in legs |-> "none"]]
DecisionIs(i, s) == decs' = [decs EXCEPT ![i].state = s]

(* Either nothing, or an entry that filled and was recorded.                   *)
Init ==
    /\ opened \in Begun /\ live = opened
    /\ watched = {} /\ run = NoRun /\ snap = NoSnap /\ settled = FALSE
    /\ IF opened = {} THEN decs = <<>> /\ trade = NoTrade
       ELSE /\ decs = <<[kind |-> "entry", state |-> "completed", leg |-> [l \in {Entry} |-> "filled"],
                         order |-> [l \in {Entry} |-> "done"]]>>
            /\ trade = [NoTrade EXCEPT !.state = "open", !.entry = 1, !.ids = opened]

-----------------------------------------------------------------------------
(* Rows of the trade: fills and closes *)

(* Mutant: a fill whose trade has no row is left out.                          *)
RecordedKnown(t, i, outcome) ==
    IF t.state \in Terminal \cup {"none"} THEN t
    ELSE [t EXCEPT !.state = IF @ \in {"proposed", "entry_executing", "entry_unknown"}
                             THEN IF outcome = "filled" THEN "open" ELSE "partial" ELSE @,
                   !.entry = i, !.ids = @ \cup opened]

(* record_swing_fill: the leg decides, and a row that is missing is created.   *)
Recorded(t, i, outcome) ==
    IF t.state \in Terminal THEN t
    ELSE [t EXCEPT !.state = IF @ \in {"none", "proposed", "entry_executing", "entry_unknown"}
                             THEN IF outcome = "filled" THEN "open" ELSE "partial"
                             ELSE @,
                   !.entry = i, !.ids = @ \cup opened]

(* The closes of decision i that belong to the trade: those marked with it and *)
(* those of a position it knows (a flatten is not marked).                     *)
OwnLegs(t, i) == {l \in Closes(i) : decs[i].kind = "exit" \/ l \in t.ids}

(* Mutant: one filled close is enough.                                         *)
ClosableByOne(t, i) ==
    /\ t.state \notin Terminal \cup {"none", "proposed", "entry_executing"}
    /\ t.state = "exit_pending" => t.exit \in {0, i}
    /\ \E l \in OwnLegs(t, i) : decs[i].leg[l] = "filled"

(* close_filled_exit: the outcome of every close being filled.  An open trade  *)
(* passes through exit_pending.                                                *)
Closable(t, i) ==
    /\ t.state \notin Terminal \cup {"none", "proposed", "entry_executing"}
    /\ t.state = "exit_pending" => t.exit \in {0, i}
    /\ OwnLegs(t, i) # {} /\ \A l \in OwnLegs(t, i) : decs[i].leg[l] = "filled"

ExitPassed(t, i) ==
    IF t.state = "exit_pending" THEN t
    ELSE [Moved(t, "exit_pending") EXCEPT !.exit = i, !.back = t.state,
                                          !.kind = IF decs[i].kind = "flatten" THEN "halt" ELSE "exit"]

Closed(t, i) == IF Closable(t, i) THEN Moved(ExitPassed(t, i), "closed_own") ELSE t

(* record_swing_close of a trade whose positions the broker closed.            *)
BrokerClosed(t) ==
    IF t.state \in {"none", "proposed", "entry_executing"} THEN t ELSE Moved(t, "closed_broker")

-----------------------------------------------------------------------------
(* The cycle *)

(* Mutant: a decision in doubt counts as over.                                 *)
EntryOverInDoubt(t) ==
    t.entry # 0 /\ decs[t.entry].state \in Dead \cup Finished \cup {"execution_unknown"}

(* settle_swing, proposed: a decision that is over and never sent the entry.   *)
EntryOver(t) ==
    /\ t.entry # 0
    /\ \/ decs[t.entry].state \in Dead
       \/ decs[t.entry].state \in Finished /\ decs[t.entry].leg[Entry] \in {"planned", "skipped"}

(* Mutant: a close the broker rejected keeps the trade pending.                *)
ExitOverUnlessRejected(t) ==
    \/ decs[t.exit].state \in Dead
    \/ /\ decs[t.exit].state \in Finished \cup {"blocked"}
       /\ \A l \in Closes(t.exit) : decs[t.exit].leg[l] \in {"planned", "skipped"}

(* _settle_exit: the exit is over and no close of it was filled or is open.    *)
ExitOver(t) ==
    \/ decs[t.exit].state \in Dead
    \/ /\ decs[t.exit].state \in Finished \cup {"blocked"}
       /\ \A l \in Closes(t.exit) : decs[t.exit].leg[l] \in {"planned", "skipped", "rejected"}

SettledRow(t) ==
    IF t.state = "proposed" THEN IF EntryOver(t) THEN Moved(t, "missed") ELSE t
    ELSE IF t.state = "exit_pending" /\ t.exit # 0
    THEN IF Closable(t, t.exit) THEN Closed(t, t.exit)
         ELSE IF ExitOver(t) THEN Moved(t, t.back) ELSE t
    ELSE t

CycleSettles ==
    /\ snap = NoSnap /\ ~settled
    /\ trade' = SettledRow(trade) /\ settled' = TRUE
    /\ UNCHANGED <<decs, broker, run, watched, snap>>

CycleEnds == settled /\ settled' = FALSE /\ UNCHANGED <<trade, decs, broker, run, watched, snap>>

(* create_decision: what was offered before is superseded.                     *)
Offered(d) ==
    /\ Len(decs) < MaxDecisions
    /\ decs' = Append([i \in DOMAIN decs |->
                         IF decs[i].state = "proposed" THEN [decs[i] EXCEPT !.state = "superseded"]
                         ELSE decs[i]], [d EXCEPT !.state = "proposed"])

(* record_swing_decision; a row that cannot be written is a flag, no more.     *)
ProposesEntry ==
    /\ settled /\ decs = <<>>
    /\ Offered(Decision("entry", {Entry}))
    /\ trade' \in {trade, [trade EXCEPT !.state = "proposed", !.entry = 1]}
    /\ settled' = FALSE /\ UNCHANGED <<broker, run, watched, snap>>

ProposesExit ==
    /\ settled /\ trade.state \in Held /\ trade.ids \cap live # {}
    /\ ~\E i \in DOMAIN decs : decs[i].kind = "flatten" /\ decs[i].state = "proposed"
    /\ Offered(Decision("exit", trade.ids \cap live))
    /\ trade' \in {trade, [Moved(trade, "exit_pending") EXCEPT
                               !.exit = Len(decs) + 1, !.back = trade.state]}
    /\ settled' = FALSE /\ UNCHANGED <<broker, run, watched, snap>>

(* A kill switch flatten, by the cycle or by the watch, over every position.   *)
ProposesFlatten ==
    /\ live # {} /\ \A i \in DOMAIN decs : decs[i].kind # "flatten"
    /\ Offered(Decision("flatten", live))
    /\ UNCHANGED <<trade, broker, run, locked>>

CycleStep == CycleSettles \/ ProposesEntry \/ ProposesExit \/ CycleEnds

-----------------------------------------------------------------------------
(* The operator *)

(* A close whose position is gone: dropped and recorded when it is marked as a *)
(* swing leg, refused when it is not (a flatten).  The record covers the trade, *)
(* whatever else of it is open; it may fail, and the operator may die before   *)
(* the executor starts.                                                        *)
Approves(i) ==
    LET gone == Closes(i) \ live IN
    /\ decs[i].state = "proposed" /\ run = NoRun
    /\ decs[i].kind = "flatten" => gone = {}
    /\ Legs(i) \ gone # {}
    /\ trade' \in {trade, IF gone # {} THEN BrokerClosed(trade) ELSE trade}
    /\ \E starts \in BOOLEAN :
         /\ run' = IF starts THEN [dec |-> i, sends |-> TRUE] ELSE NoRun
         /\ decs' = [decs EXCEPT ![i].state = IF starts THEN "executing" ELSE "approved",
                                 ![i].leg = [l \in Legs(i) |-> IF l \in gone /\ starts
                                                               THEN "skipped" ELSE @[l]]]
    /\ UNCHANGED <<broker, locked>>

Declines(i) ==
    /\ decs[i].state = "proposed"
    /\ \E s \in {"rejected", "expired"} : DecisionIs(i, s)
    /\ UNCHANGED <<trade, broker, run, locked>>

(* ops review: nothing active, nothing waiting.                                *)
Reviews(i) ==
    /\ decs[i].state \in {"blocked", "execution_unknown"}
    /\ \A l \in Legs(i) : decs[i].leg[l] \notin Active \cup {"waiting_for_market"}
    /\ DecisionIs(i, "reviewed_no_action")
    /\ UNCHANGED <<trade, broker, run, locked>>

(* ops resolve: the operator records truly what became of the held orders.     *)
Resolves(i) ==
    /\ decs[i].state \in {"waiting_for_market", "blocked"}
    /\ \E l \in Legs(i) : decs[i].leg[l] = "waiting_for_market"
    /\ \A l \in Legs(i) : decs[i].leg[l] = "waiting_for_market" => decs[i].order[l] \in {"done", "part", "refused"}
    /\ decs' = [decs EXCEPT ![i].state = "reviewed_no_action",
                            ![i].leg = [l \in Legs(i) |->
                                IF @[l] # "waiting_for_market" THEN @[l]
                                ELSE IF decs[i].order[l] = "refused" THEN "skipped" ELSE "filled"]]
    /\ UNCHANGED <<trade, broker, run, locked>>

OperatorStep(i) == Approves(i) \/ Declines(i) \/ Reviews(i) \/ Resolves(i)

-----------------------------------------------------------------------------
(* The executor *)

LegIs(i, l, s) == decs' = [decs EXCEPT ![i].leg[l] = s]

(* The row is written before the order; the order may never leave.             *)
Sends(i, l) ==
    /\ run.dec = i /\ run.sends /\ decs[i].leg[l] = "planned"
    /\ \E o \in {"none", "working"} :
         decs' = [decs EXCEPT ![i].leg[l] = "submitting", ![i].order[l] = o]
    /\ UNCHANGED <<trade, broker, run, locked>>

Accepted(i, l) ==
    /\ run.dec = i /\ decs[i].leg[l] = "submitting" /\ decs[i].order[l] # "none"
    /\ LegIs(i, l, "submitted") /\ UNCHANGED <<trade, broker, run, locked>>

Answer(i, l) ==
    CASE decs[i].order[l] = "done" -> {"filled", "unknown"}
      [] decs[i].order[l] = "part" -> {"partially_filled", "unknown"}
      [] decs[i].order[l] = "refused" -> {"rejected", "unknown"}
      [] decs[i].order[l] = "held" -> {"waiting_for_market", "unknown"}
      [] decs[i].order[l] = "working" -> {"unknown"}
      [] OTHER -> IF run.sends THEN {"rejected", "unknown"} ELSE {"skipped", "unknown"}

(* _resolve: the row takes the outcome, and an entry that filled its trade.    *)
Learns(i, l) ==
    /\ run.dec = i /\ decs[i].leg[l] \in Active
    /\ \E s \in Answer(i, l) :
         /\ s # decs[i].leg[l] /\ LegIs(i, l, s)
         /\ trade' = IF l = Entry /\ s \in Filled THEN Recorded(trade, i, s) ELSE trade
    /\ UNCHANGED <<broker, run, locked>>

(* _settle_swing: every filled entry is recorded (again), its take-profit       *)
(* looked for, every filled close closes the trade.                            *)
Settle(t, i, tpMissing) ==
    IF decs[i].kind = "entry"
    THEN IF decs[i].leg[Entry] \notin Filled THEN t
         ELSE IF tpMissing THEN Moved(Recorded(t, i, decs[i].leg[Entry]), "open_tp_missing")
         ELSE Recorded(t, i, decs[i].leg[Entry])
    ELSE Closed(t, i)

Final(i) ==
    LET legs == {decs[i].leg[l] : l \in Legs(i)} IN
    IF decs[i].state \in Dead THEN {decs[i].state}
    ELSE IF "unknown" \in legs THEN {"execution_unknown"}
    ELSE IF "waiting_for_market" \in legs THEN {"waiting_for_market", "blocked"}
    ELSE IF legs = {"filled"} THEN {"completed", "blocked"} ELSE {"completed_partial", "blocked"}

(* _finish: rows never sent are skipped, the trade is settled, then the        *)
(* decision moves; a death in between leaves it executing.                     *)
Finishes ==
    LET i == run.dec IN
    /\ run # NoRun
    /\ \A l \in Legs(i) : decs[i].leg[l] \notin {"submitting", "submitted"}
    /\ \E tp \in (IF live \cap opened = {} THEN {FALSE} ELSE BOOLEAN) : trade' = Settle(trade, i, tp)
    /\ \E s \in Final(i) \cup {decs[i].state} :
         decs' = [decs EXCEPT ![i].state = s,
                              ![i].leg = [l \in Legs(i) |-> IF @[l] = "planned" THEN "skipped" ELSE @[l]]]
    /\ run' = NoRun
    /\ UNCHANGED <<broker, locked>>

ExecutorDies == run # NoRun /\ run' = NoRun /\ UNCHANGED <<trade, decs, broker, locked>>

(* A death inside close_filled_exit, between its two moves.                    *)
DiesInClose ==
    /\ run # NoRun /\ Closable(trade, run.dec)
    /\ trade' = ExitPassed(trade, run.dec) /\ run' = NoRun
    /\ UNCHANGED <<decs, broker, locked>>

(* resume-exec: look, never send.                                              *)
Resumes(i) ==
    /\ run = NoRun /\ decs[i].state \in {"executing", "execution_unknown", "blocked"}
    /\ run' = [dec |-> i, sends |-> FALSE]
    /\ UNCHANGED <<trade, decs, broker, locked>>

ExecutorStep(i) == Resumes(i) \/ \E l \in Legs(i) : Sends(i, l) \/ Accepted(i, l) \/ Learns(i, l)

-----------------------------------------------------------------------------
(* The broker *)

Works(i, l) ==
    /\ decs[i].order[l] \in {"working", "held"}
    /\ \E o \in {"done", "part", "refused", "held"} \ {decs[i].order[l]} :
         /\ o = "part" => l = Entry
         /\ o \in {"done", "held"} /\ l # Entry => l \in live
         /\ IF l = Entry
            THEN /\ opened' \in IF o \in {"done", "part"} THEN Fills ELSE {opened}
                 /\ live' = IF o \in {"done", "part"} THEN opened' ELSE live
            ELSE /\ live' = IF o = "done" THEN live \ {l} ELSE live
                 /\ UNCHANGED opened
         /\ decs' = [decs EXCEPT ![i].order[l] = o]
    /\ UNCHANGED <<trade, run, locked>>

(* A stop, a target, a manual close.                                           *)
ClosesAlone(p) ==
    /\ p \in live /\ live' = live \ {p}
    /\ UNCHANGED <<trade, decs, opened, run, locked>>

-----------------------------------------------------------------------------
(* The watch *)

WatchReads == snap = NoSnap /\ ~settled /\ snap' = live /\ UNCHANGED <<trade, decs, broker, run, watched, settled>>

(* Closes that are ours: the row says so.                                      *)
Ours == UNION {{l \in Closes(i) : decs[i].leg[l] \in {"filled", "submitted", "waiting_for_market"}} :
               i \in DOMAIN decs}

Vanished == watched \ (snap \cup Ours)

(* _swing_closed: the trade is closed once every position of it is gone.       *)
Gone(t) == t.ids \cap snap = {}

(* _positions; recording may fail, and what the watch saw is kept all the same. *)
WatchJudges ==
    /\ snap # NoSnap
    /\ trade' \in {trade, IF Vanished \cap trade.ids # {} /\ Gone(trade) THEN BrokerClosed(trade) ELSE trade}
    /\ watched' = snap /\ snap' = NoSnap
    /\ UNCHANGED <<decs, broker, run, settled>>

WatchDies == snap # NoSnap /\ snap' = NoSnap /\ UNCHANGED <<trade, decs, broker, run, watched, settled>>

(* _resolve_one: held orders; an entry that fills here never reaches the trade. *)
HeldAnswer(i, l) ==
    IF l = Entry
    THEN CASE decs[i].order[l] = "done" -> "filled"
           [] decs[i].order[l] = "part" -> "partially_filled"
           [] decs[i].order[l] = "refused" -> "skipped"
           [] OTHER -> "waiting_for_market"
    ELSE IF decs[i].order[l] = "refused" THEN "skipped"
    ELSE IF decs[i].order[l] # "held" /\ l \notin live THEN "filled"
    ELSE "waiting_for_market"

WatchSettles(i) ==
    LET now == [l \in Legs(i) |-> IF decs[i].leg[l] = "waiting_for_market"
                                  THEN HeldAnswer(i, l) ELSE decs[i].leg[l]] IN
    /\ snap # NoSnap /\ decs[i].state = "waiting_for_market"
    /\ \E s \in IF \E l \in Legs(i) : now[l] = "waiting_for_market" THEN {"waiting_for_market", "blocked"}
                ELSE {IF \A l \in Legs(i) : now[l] = "filled" THEN "completed" ELSE "completed_partial",
                      "blocked"} :
         decs' = [decs EXCEPT ![i].state = s, ![i].leg = now]
    /\ UNCHANGED <<trade, broker, run, locked>>

WatchStep(i) == WatchSettles(i)

Next ==
    \/ CycleStep \/ ProposesFlatten
    \/ Finishes \/ ExecutorDies \/ DiesInClose
    \/ WatchReads \/ WatchJudges \/ WatchDies
    \/ \E i \in DOMAIN decs : OperatorStep(i) \/ ExecutorStep(i) \/ WatchStep(i) \/ \E l \in Legs(i) : Works(i, l)
    \/ \E p \in Positions : ClosesAlone(p)

Spec == Init /\ [][Next]_vars

-----------------------------------------------------------------------------
(* Properties *)

(* A trade is recorded as closed, by whoever records it, only when no position  *)
(* of it is left at the broker; the approval's own record is the exception     *)
(* (it looks at one leg).  close_filled_exit, _swing_closed, settle_swing.     *)
ClosesWhenGone ==
    [][trade.state \notin Terminal /\ trade'.state \in BrokerCloses \cup OwnCloses
       => trade.ids \cap live = {} \/ \E i \in DOMAIN decs : Approves(i)]_vars

(* When an executor run leaves a decision finished and its entry filled, the    *)
(* trade exists, has moved past its entry and knows every position that the    *)
(* order opened, whatever the cycle, the watch and earlier runs did meanwhile. *)
FilledIsTraded ==
    [][\A i \in DOMAIN decs :
         /\ run.dec = i /\ decs[i].kind = "entry" /\ decs[i].state \notin Finished
         /\ decs'[i].state \in Finished /\ decs'[i].leg[Entry] \in Filled
         => /\ trade'.state \notin {"none", "proposed", "entry_executing", "missed"}
            /\ opened \subseteq trade'.ids]_vars

(* A trade recorded as missed never gets positions: its order opened nothing    *)
(* and can open nothing more, unless the operator put the decision aside.      *)
MissedMeansNothing ==
    trade.state = "missed" /\ decs[trade.entry].state # "reviewed_no_action" =>
        opened = {} /\ decs[trade.entry].order[Entry] \in {"none", "refused"}

(* An exit that is over is settled by the next cycle: its trade can be closed,  *)
(* or given back to be closed again; only an exit of which some closes filled  *)
(* and others did not leaves it pending.                                       *)
OverExitSettles ==
    trade.state = "exit_pending" /\ decs[trade.exit].state \in Dead \cup Finished =>
        \/ Closable(trade, trade.exit) \/ ExitOver(trade)
        \/ \E l, k \in Closes(trade.exit) :
              decs[trade.exit].leg[l] = "filled" /\ decs[trade.exit].leg[k] # "filled"
=============================================================================
