--------------------------- MODULE SwingTradesProofs ---------------------------
(***************************************************************************)
(* Theorems about SwingTrades, for any positions, any fills of an entry and *)
(* any number of decisions.  The entry is the first decision and its order  *)
(* fills once; from then on positions only leave the broker, so every later *)
(* decision closes whatever is left.  What a row says of an order is true,  *)
(* and the row of the trade knows every position once it has left its       *)
(* proposal.                                                              *)
(***************************************************************************)
EXTENDS SwingTrades, TLAPS

LegWords == {"planned", "submitting", "submitted", "unknown", "waiting_for_market",
             "filled", "partially_filled", "rejected", "skipped"}
OrderWords == {"none", "working", "held", "done", "part", "refused"}
Unsent == {"proposed", "approved", "rejected", "expired", "superseded"}
InRun == {"executing", "execution_unknown", "blocked", "reviewed_no_action"}
DecisionWords == Unsent \cup InRun \cup Finished \cup {"waiting_for_market"}
Early == {"none", "proposed", "missed"}
Late == Held \cup {"exit_pending", "closed_broker", "closed_own"}

LegMaps == UNION {[S -> LegWords] : S \in SUBSET Nat}
OrderMaps == UNION {[S -> OrderWords] : S \in SUBSET Nat}
Decisions == [kind : {"entry", "exit", "flatten"}, state : DecisionWords, leg : LegMaps, order : OrderMaps]

Trades == [state : Early \cup Late, entry : {0, 1}, exit : Nat, kind : {"exit", "halt"},
           back : Held, ids : SUBSET Positions]

Typed ==
    /\ decs \in Seq(Decisions) /\ trade \in Trades
    /\ live \subseteq opened /\ opened \subseteq Positions /\ watched \subseteq opened
    /\ snap = NoSnap \/ snap \subseteq opened
    /\ settled \in BOOLEAN
    /\ run \in [dec : Nat, sends : BOOLEAN]

(* The entry is the first decision; any other is about all that is left.       *)
ScopedAs(i, d, at, ever) ==
    /\ DOMAIN d.order = DOMAIN d.leg
    /\ d.kind = "entry" => i = 1 /\ DOMAIN d.leg = {Entry}
    /\ d.kind # "entry" => DOMAIN d.leg # {} /\ DOMAIN d.leg \subseteq ever /\ at \subseteq DOMAIN d.leg

(* What a row says of its order.                                              *)
LegTrue(d, l, at) ==
    /\ d.leg[l] \in Filled => d.order[l] \in {"done", "part"}
    /\ d.leg[l] = "partially_filled" => d.order[l] = "part"
    /\ d.leg[l] \in {"planned", "skipped", "rejected"} => d.order[l] \in {"none", "refused"}
    /\ d.leg[l] = "waiting_for_market" => d.order[l] \in {"held", "done", "part", "refused"}
    /\ l # Entry => d.order[l] # "part"
    /\ l # Entry /\ (d.order[l] = "done" \/ d.leg[l] = "filled") => l \notin at
RowsTrue(d, at) == \A l \in DOMAIN d.leg : LegTrue(d, l, at)

(* What the state of a decision says of its rows.                              *)
StateTrue(d) ==
    /\ d.state \in Unsent => \A l \in DOMAIN d.leg : d.leg[l] = "planned"
    /\ d.state \in Finished \cup {"waiting_for_market"} =>
          \A l \in DOMAIN d.leg : d.leg[l] \notin Active \cup {"planned"}
    /\ d.state \in Finished => \A l \in DOMAIN d.leg : d.leg[l] # "waiting_for_market"

DecisionTrue(i, d, at, ever) == ScopedAs(i, d, at, ever) /\ RowsTrue(d, at) /\ StateTrue(d)

AllTrue == \A i \in DOMAIN decs : DecisionTrue(i, decs[i], live, opened)
RunTrue == run # NoRun => run.dec \in DOMAIN decs /\ decs[run.dec].state \in InRun

(* Positions are opened once, by the entry's order.                            *)
EntryIs(ds, o) == ds # <<>> /\ ds[1].kind = "entry" /\ ds[1].order[Entry] \in o
OpenedOnce == opened # {} <=> EntryIs(decs, {"done", "part"})

(* The watch saw positions: then its picture is no older than their opening.    *)
Watched == snap # NoSnap /\ watched # {} => live \subseteq snap

(* The row of the trade.                                                      *)
RowOf(t, ds, ever) ==
    /\ t.entry # 0 => ds # <<>> /\ ds[1].kind = "entry"
    /\ t.state \in Early => t.ids = {}
    /\ t.state \in Late => t.ids = ever /\ ever # {}
    /\ t.state = "missed" =>
          /\ t.entry = 1
          /\ \/ ds[1].state = "reviewed_no_action"
             \/ ds[1].state \in Dead \cup Finished /\ EntryIs(ds, {"none", "refused"})
    /\ t.state = "exit_pending" => t.exit \in DOMAIN ds /\ ds[t.exit].kind # "entry"
Row == RowOf(trade, decs, opened)

IInv == Typed /\ AllTrue /\ RunTrue /\ OpenedOnce /\ Watched /\ Row

-----------------------------------------------------------------------------
(* Words                                                                    *)

LEMMA Vocabulary ==
    /\ Dead = {"rejected", "expired", "superseded", "reviewed_no_action"}
    /\ Finished = {"completed", "completed_partial"}
    /\ Held = {"open", "open_tp_missing", "partial"}
    /\ Terminal = {"closed_broker", "closed_own", "missed"}
    /\ Active = {"submitting", "submitted", "unknown"}
    /\ Filled = {"filled", "partially_filled"}
    /\ Entry = 0 /\ Entry \notin Positions /\ Positions \subseteq Nat
  BY SwingBounds DEF Dead, Finished, Held, Terminal, BrokerCloses, OwnCloses, Active, Filled, Entry

(* The moves of a trade that the programs ask for.                             *)
LEMMA MovesOf ==
    ASSUME NEW t \in Trades
    PROVE  /\ Moved(t, "closed_broker") =
                 IF t.state \in Held \cup {"exit_pending"} THEN [t EXCEPT !.state = "closed_broker"] ELSE t
           /\ Moved(t, "closed_own") = IF t.state = "exit_pending" THEN [t EXCEPT !.state = "closed_own"] ELSE t
           /\ Moved(t, "exit_pending") = IF t.state \in Held THEN [t EXCEPT !.state = "exit_pending"] ELSE t
           /\ Moved(t, "open_tp_missing") = IF t.state \in {"open", "partial", "exit_pending"}
                                            THEN [t EXCEPT !.state = "open_tp_missing"] ELSE t
           /\ Moved(t, "missed") = IF t.state = "proposed" THEN [t EXCEPT !.state = "missed"] ELSE t
           /\ t.state = "exit_pending" => \A s \in Held : Moved(t, s) = [t EXCEPT !.state = s]
  <1>1. t.state \in {"none", "proposed", "missed", "open", "open_tp_missing", "partial", "exit_pending",
                     "closed_broker", "closed_own"}
    BY Vocabulary DEF Trades, Early, Late
  <1>2. Transitions[t.state] =
          CASE t.state = "proposed" -> {"entry_executing", "missed"}
            [] t.state \in {"open", "partial"} -> {"open_tp_missing", "exit_pending", "closed_broker"}
            [] t.state = "open_tp_missing" -> {"open", "partial", "exit_pending", "closed_broker"}
            [] t.state = "exit_pending" -> {"closed_own", "closed_broker", "open", "open_tp_missing", "partial"}
            [] OTHER -> {}
    BY <1>1 DEF Transitions, BrokerCloses, OwnCloses, Held
  <1>3. QED
    BY <1>1, <1>2 DEF Moved, Held

-----------------------------------------------------------------------------
(* The row of the trade moves                                               *)

(* A fill is recorded: the trade knows what was opened, or it was over.         *)
LEMMA RecordedKeeps ==
    ASSUME Typed, NEW t \in Trades, RowOf(t, decs, opened), opened # {},
           decs # <<>>, decs[1].kind = "entry", NEW o \in Filled
    PROVE  LET r == Recorded(t, 1, o) IN
           /\ r \in Trades /\ RowOf(r, decs, opened)
           /\ r.state \in Late \cup {"missed"} /\ (r.state = "missed" => r = t)
           /\ r.state \in BrokerCloses \cup OwnCloses => r = t
  <1>1. CASE t.state \in Terminal
    BY <1>1, Vocabulary DEF Recorded, Trades, Early, Late, BrokerCloses, OwnCloses
  <1>2. CASE t.state \notin Terminal
    <2> DEFINE r == Recorded(t, 1, o)
    <2>1. t.state \in {"none", "proposed"} \cup Held \cup {"exit_pending"}
      BY <1>2, Vocabulary DEF Trades, Early, Late
    <2>2. t.ids \cup opened = opened
      BY <2>1, Vocabulary DEF RowOf, Early, Late
    <2>3. r = [t EXCEPT !.state = IF t.state \in {"none", "proposed"} THEN IF o = "filled" THEN "open" ELSE "partial"
                                  ELSE t.state,
                        !.entry = 1, !.ids = opened]
      BY <1>2, <2>1, <2>2, Vocabulary DEF Recorded, Trades
    <2>4. r.state \in Held \cup {"exit_pending"} /\ r.entry = 1 /\ r.ids = opened /\ r.exit = t.exit
          /\ (r.state = "exit_pending" => t.state = "exit_pending")
      BY <2>1, <2>3, Vocabulary DEF Trades
    <2>5. r \in Trades
      BY <2>3, <2>4 DEF Trades, Typed, Late
    <2>6. RowOf(r, decs, opened)
      BY <2>4, Vocabulary DEF RowOf, Early, Late
    <2>7. QED
      BY <2>4, <2>5, <2>6, Vocabulary DEF Late, BrokerCloses, OwnCloses
  <1>3. QED
    BY <1>1, <1>2

(* A row that only changes its state, between states that know the positions.  *)
LEMMA StateKeeps ==
    ASSUME NEW t \in Trades, NEW ds, NEW ever, RowOf(t, ds, ever), t.state \in Late,
           NEW s \in Late \ {"exit_pending"}
    PROVE  [t EXCEPT !.state = s] \in Trades /\ RowOf([t EXCEPT !.state = s], ds, ever)
  <1> DEFINE r == [t EXCEPT !.state = s]
  <1>1. r \in Trades /\ r.state = s /\ r.entry = t.entry /\ r.ids = t.ids
    BY DEF Trades
  <1>2. s \notin Early /\ s # "missed"
    BY Vocabulary DEF Early, Late
  <1>3. RowOf(r, ds, ever)
    BY <1>1, <1>2 DEF RowOf
  <1>4. QED
    BY <1>1, <1>3

LEMMA BrokerClosedKeeps ==
    ASSUME NEW t \in Trades, NEW ds, NEW ever, RowOf(t, ds, ever)
    PROVE  BrokerClosed(t) \in Trades /\ RowOf(BrokerClosed(t), ds, ever)
  <1>1. CASE t.state \in Held \cup {"exit_pending"}
    <2>1. t.state \in Late /\ "closed_broker" \in Late \ {"exit_pending"}
          /\ BrokerClosed(t) = [t EXCEPT !.state = "closed_broker"]
      BY <1>1, MovesOf, Vocabulary DEF BrokerClosed, Late
    <2>2. QED
      BY <2>1, StateKeeps
  <1>2. CASE t.state \notin Held \cup {"exit_pending"}
    <2>1. BrokerClosed(t) = t
      BY <1>2, MovesOf DEF BrokerClosed
    <2>2. QED
      BY <2>1
  <1>3. QED
    BY <1>1, <1>2

(* A trade whose closes are filled is open, or waits for its exit.              *)
LEMMA ExitKeeps ==
    ASSUME Typed, AllTrue, NEW t \in Trades, RowOf(t, decs, opened), NEW i \in DOMAIN decs, Closable(t, i)
    PROVE  /\ t.state \in Held \cup {"exit_pending"}
           /\ ExitPassed(t, i) \in Trades /\ RowOf(ExitPassed(t, i), decs, opened)
           /\ ExitPassed(t, i).state = "exit_pending"
           /\ Closed(t, i) = [ExitPassed(t, i) EXCEPT !.state = "closed_own"]
           /\ Closed(t, i) \in Trades /\ RowOf(Closed(t, i), decs, opened)
  <1> DEFINE x == ExitPassed(t, i)
  <1>1. t.state \in Held \cup {"exit_pending"}
    BY Vocabulary DEF Closable, Trades, Early, Late
  <1>2. decs[i].kind # "entry" /\ i \in Nat
    <2>1. DecisionTrue(i, decs[i], live, opened) /\ i \in Nat
      BY DEF AllTrue, Typed
    <2>2. QED
      BY <2>1 DEF Closable, OwnLegs, Closes, Legs, DecisionTrue, ScopedAs
  <1>3. x \in Trades /\ RowOf(x, decs, opened) /\ x.state = "exit_pending"
    <2>1. CASE t.state = "exit_pending"
      BY <2>1 DEF ExitPassed
    <2>2. CASE t.state \in Held
      <3>1. t.state # "exit_pending" /\ t.state \notin Early /\ t.state \in Late
        BY <2>2, Vocabulary DEF Early, Late
      <3>2. x = [[t EXCEPT !.state = "exit_pending"] EXCEPT !.exit = i, !.back = t.state,
                     !.kind = IF decs[i].kind = "flatten" THEN "halt" ELSE "exit"]
        BY <2>2, <3>1, MovesOf DEF ExitPassed
      <3>3. x.state = "exit_pending" /\ x.exit = i /\ x.ids = t.ids /\ x.entry = t.entry
        BY <3>2 DEF Trades
      <3>4. x \in Trades
        BY <1>2, <2>2, <3>2 DEF Trades, Late
      <3>5. RowOf(x, decs, opened)
        BY <1>2, <3>1, <3>3 DEF RowOf, Early
      <3>6. QED
        BY <3>3, <3>4, <3>5
    <2>3. QED
      BY <1>1, <2>1, <2>2
  <1> HIDE DEF x
  <1>4. Closed(t, i) = [x EXCEPT !.state = "closed_own"]
    BY <1>3, MovesOf DEF Closed, x
  <1>5. Closed(t, i) \in Trades /\ RowOf(Closed(t, i), decs, opened)
    BY <1>3, <1>4, StateKeeps DEF Late
  <1>6. QED
    BY <1>1, <1>3, <1>4, <1>5 DEF x

LEMMA ClosedKeeps ==
    ASSUME Typed, AllTrue, NEW t \in Trades, RowOf(t, decs, opened), NEW i \in DOMAIN decs
    PROVE  Closed(t, i) \in Trades /\ RowOf(Closed(t, i), decs, opened)
  <1>1. CASE Closable(t, i)
    BY <1>1, ExitKeeps
  <1>2. CASE ~Closable(t, i)
    BY <1>2 DEF Closed
  <1>3. QED
    BY <1>1, <1>2

-----------------------------------------------------------------------------
(* The decisions move                                                       *)

LEMMA DecisionTypes ==
    ASSUME Typed, NEW i \in DOMAIN decs
    PROVE  /\ decs[i] \in Decisions /\ i \in Nat \ {0} /\ Legs(i) \in SUBSET Nat
           /\ decs[i].leg \in [Legs(i) -> LegWords]
           /\ decs[i].order \in [DOMAIN decs[i].order -> OrderWords]
  <1>1. decs[i] \in Decisions /\ i \in Nat \ {0}
    BY DEF Typed
  <1>2. PICK S \in SUBSET Nat : decs[i].leg \in [S -> LegWords]
    BY <1>1 DEF Decisions, LegMaps
  <1>3. PICK T \in SUBSET Nat : decs[i].order \in [T -> OrderWords]
    BY <1>1 DEF Decisions, OrderMaps
  <1>4. QED
    BY <1>1, <1>2, <1>3 DEF Legs

(* A decision that is over stays so, with its orders unless it was reviewed.    *)
Carries ==
    \A i \in DOMAIN decs :
        /\ i \in DOMAIN decs' /\ decs'[i].kind = decs[i].kind
        /\ decs[i].state \in Dead \cup Finished => decs'[i].state = decs[i].state
        /\ decs[i].state \in (Dead \cup Finished) \ {"reviewed_no_action"} => decs'[i].order = decs[i].order

LEMMA RowCarries ==
    ASSUME Typed, decs' \in Seq(Decisions), Carries, NEW t \in Trades, RowOf(t, decs, opened)
    PROVE  RowOf(t, decs', opened)
  <1>1. decs # <<>> => decs' # <<>> /\ 1 \in DOMAIN decs
    BY DEF Typed, Carries
  <1>2. QED
    BY <1>1, Vocabulary DEF RowOf, Carries, EntryIs

(* One decision moves while nothing is opened or closed at the broker.          *)
LEMMA OneMoves ==
    ASSUME IInv, NEW i \in DOMAIN decs, NEW d \in Decisions, decs' = [decs EXCEPT ![i] = d],
           d.kind = decs[i].kind, DOMAIN d.leg = Legs(i), DOMAIN d.order = Legs(i),
           RowsTrue(d, live), StateTrue(d),
           decs[i].state \in Dead \cup Finished => d.state = decs[i].state,
           d.order = decs[i].order \/ ( /\ decs[i].state \in InRun
                                        /\ decs[i].kind = "entry" =>
                                             {d.order[Entry], decs[i].order[Entry]} \cap {"done", "part"} = {}),
           UNCHANGED <<live, opened>>
    PROVE  /\ decs' \in Seq(Decisions) /\ DOMAIN decs' = DOMAIN decs
           /\ decs'[i] = d /\ \A j \in DOMAIN decs : j # i => decs'[j] = decs[j]
           /\ AllTrue' /\ OpenedOnce' /\ Carries
  <1>1. /\ decs' \in Seq(Decisions) /\ DOMAIN decs' = DOMAIN decs
        /\ decs'[i] = d /\ \A j \in DOMAIN decs : j # i => decs'[j] = decs[j]
    BY DEF IInv, Typed
  <1>2. DecisionTrue(i, d, live, opened)
    BY DEF IInv, AllTrue, DecisionTrue, ScopedAs, Legs
  <1>3. AllTrue'
    BY <1>1, <1>2 DEF IInv, AllTrue
  <1>4. Carries
    BY <1>1, Vocabulary DEF Carries, InRun
  <1>5. OpenedOnce'
    <2>1. CASE i = 1
      <3>1. decs # <<>> /\ decs' # <<>> /\ decs'[1] = d
        BY <1>1, <2>1 DEF IInv, Typed
      <3>2. decs[1].kind = "entry" =>
               (d.order[Entry] \in {"done", "part"} <=> decs[1].order[Entry] \in {"done", "part"})
        BY <2>1
      <3>3. QED
        BY <2>1, <3>1, <3>2 DEF IInv, OpenedOnce, EntryIs
    <2>2. CASE i # 1
      <3>1. 1 \in DOMAIN decs /\ decs # <<>> /\ decs' # <<>> /\ decs'[1] = decs[1]
        BY <1>1, <2>2 DEF IInv, Typed
      <3>2. QED
        BY <3>1 DEF IInv, OpenedOnce, EntryIs
    <2>3. QED
      BY <2>1, <2>2
  <1>6. QED
    BY <1>1, <1>3, <1>4, <1>5

(* The same for a decision that only changes its state and its rows.            *)
LEMMA StateAndRows ==
    ASSUME IInv, NEW i \in DOMAIN decs, NEW s \in DecisionWords, NEW f \in [Legs(i) -> LegWords],
           decs' = [decs EXCEPT ![i] = [decs[i] EXCEPT !.state = s, !.leg = f]],
           \A l \in Legs(i) : f[l] = decs[i].leg[l] \/ LegTrue([decs[i] EXCEPT !.state = s, !.leg = f], l, live),
           s \in Unsent => \A l \in Legs(i) : f[l] = "planned",
           s \in Finished \cup {"waiting_for_market"} => \A l \in Legs(i) : f[l] \notin Active \cup {"planned"},
           s \in Finished => \A l \in Legs(i) : f[l] # "waiting_for_market",
           decs[i].state \in Dead \cup Finished => s = decs[i].state,
           UNCHANGED <<live, opened>>
    PROVE  /\ decs' \in Seq(Decisions) /\ DOMAIN decs' = DOMAIN decs
           /\ decs'[i].state = s /\ decs'[i].leg = f
           /\ \A j \in DOMAIN decs : j # i => decs'[j] = decs[j]
           /\ AllTrue' /\ OpenedOnce' /\ Carries
  <1> DEFINE d == [decs[i] EXCEPT !.state = s, !.leg = f]
  <1>0. decs[i] \in Decisions /\ Legs(i) \in SUBSET Nat /\ DOMAIN decs[i].order = Legs(i)
    BY DecisionTypes DEF IInv, AllTrue, DecisionTrue, ScopedAs, Legs
  <1>1. d.kind = decs[i].kind /\ d.order = decs[i].order /\ d.leg = f /\ d.state = s /\ d \in Decisions
        /\ DOMAIN d.leg = Legs(i) /\ DOMAIN d.order = Legs(i)
    <2>1. f \in LegMaps
      BY <1>0 DEF LegMaps
    <2>2. QED
      BY <1>0, <2>1 DEF Decisions
  <1>2. RowsTrue(d, live)
    BY <1>1 DEF IInv, AllTrue, DecisionTrue, RowsTrue, LegTrue, Legs
  <1>3. StateTrue(d)
    BY <1>1 DEF StateTrue
  <1> HIDE DEF d
  <1>4. decs' = [decs EXCEPT ![i] = d]
    BY DEF d
  <1>5. QED
    BY <1>1, <1>2, <1>3, <1>4, OneMoves

-----------------------------------------------------------------------------
(* The steps                                                                *)

(* What is left to say of a step that moves decisions by the lemmas above.      *)
LEMMA Together ==
    ASSUME IInv, decs' \in Seq(Decisions), DOMAIN decs' = DOMAIN decs, AllTrue', OpenedOnce', Carries,
           UNCHANGED <<live, opened, watched, snap, settled>>,
           trade' \in Trades, RowOf(trade', decs, opened),
           run' \in [dec : Nat, sends : BOOLEAN], RunTrue'
    PROVE  IInv'
  <1>1. Typed' /\ Watched'
    BY DEF IInv, Typed, Watched
  <1>2. Row'
    BY RowCarries DEF IInv, Row
  <1>3. QED
    BY <1>1, <1>2 DEF IInv

(* Steps that leave the decisions and the broker alone.                        *)
LEMMA Still ==
    ASSUME IInv, UNCHANGED <<decs, live, opened>>, trade' \in Trades, RowOf(trade', decs, opened),
           run' \in [dec : Nat, sends : BOOLEAN], RunTrue',
           watched' \subseteq opened, snap' = NoSnap \/ snap' \subseteq opened, settled' \in BOOLEAN, Watched'
    PROVE  IInv'
  BY DEF IInv, Typed, AllTrue, OpenedOnce, Row

LEMMA SettledKeeps ==
    ASSUME IInv
    PROVE  SettledRow(trade) \in Trades /\ RowOf(SettledRow(trade), decs, opened)
  <1>0. trade \in Trades /\ RowOf(trade, decs, opened)
    BY DEF IInv, Typed, Row
  <1>1. CASE trade.state = "proposed" /\ EntryOver(trade)
    <2> DEFINE r == [trade EXCEPT !.state = "missed"]
    <2>1. SettledRow(trade) = r
      BY <1>0, <1>1, MovesOf DEF SettledRow
    <2>2. r \in Trades /\ r.state = "missed" /\ r.entry = trade.entry /\ r.ids = trade.ids
      BY <1>0 DEF Trades, Early
    <2>3. trade.entry = 1 /\ decs # <<>> /\ decs[1].kind = "entry" /\ trade.ids = {} /\ 1 \in DOMAIN decs
      BY <1>0, <1>1 DEF EntryOver, RowOf, Trades, Early, IInv, Typed
    <2>4. Entry \in DOMAIN decs[1].leg /\ DecisionTrue(1, decs[1], live, opened)
      BY <2>3 DEF IInv, AllTrue, DecisionTrue, ScopedAs
    <2>5. \/ decs[1].state = "reviewed_no_action"
          \/ decs[1].state \in Dead \cup Finished /\ decs[1].leg[Entry] \in {"planned", "skipped"}
      BY <1>1, <2>3, <2>4, Vocabulary DEF EntryOver, DecisionTrue, StateTrue, Unsent
    <2>6. \/ decs[1].state = "reviewed_no_action"
          \/ decs[1].state \in Dead \cup Finished /\ EntryIs(decs, {"none", "refused"})
      BY <2>3, <2>4, <2>5 DEF DecisionTrue, RowsTrue, LegTrue, EntryIs
    <2>7. RowOf(r, decs, opened)
      BY <1>0, <1>1, <2>2, <2>3, <2>6, Vocabulary DEF RowOf, Late
    <2>8. QED
      BY <2>1, <2>2, <2>7
  <1>2. CASE trade.state = "exit_pending" /\ trade.exit # 0 /\ Closable(trade, trade.exit)
    BY <1>0, <1>2, ClosedKeeps DEF SettledRow, RowOf, IInv
  <1>3. CASE trade.state = "exit_pending" /\ trade.exit # 0 /\ ~Closable(trade, trade.exit) /\ ExitOver(trade)
    <2>1. trade.back \in Late \ {"exit_pending"} /\ trade.back \in Held
      BY <1>0, Vocabulary DEF Trades, Late
    <2>2. SettledRow(trade) = [trade EXCEPT !.state = trade.back]
      BY <1>0, <1>3, <2>1, MovesOf DEF SettledRow
    <2>3. QED
      BY <1>0, <1>3, <2>1, <2>2, StateKeeps DEF Late
  <1>4. QED
    BY <1>0, <1>1, <1>2, <1>3 DEF SettledRow

LEMMA CycleKeeps == ASSUME IInv, CycleSettles \/ CycleEnds PROVE IInv'
  <1>1. /\ trade' = trade \/ trade' = SettledRow(trade)
        /\ UNCHANGED <<decs, live, opened, run, watched, snap>> /\ settled' \in BOOLEAN
    BY DEF CycleSettles, CycleEnds, broker
  <1>2. trade' \in Trades /\ RowOf(trade', decs, opened)
    BY <1>1, SettledKeeps DEF IInv, Typed, Row
  <1>3. QED
    BY <1>1, <1>2, Still DEF IInv, Typed, RunTrue, Watched

LEMMA RunKeeps ==
    ASSUME IInv, ExecutorDies \/ DiesInClose \/ (\E i \in DOMAIN decs : Resumes(i))
    PROVE  IInv'
  <1>1. UNCHANGED <<decs, live, opened, watched, snap, settled>>
    BY DEF ExecutorDies, DiesInClose, Resumes, broker, locked
  <1>2. run' \in [dec : Nat, sends : BOOLEAN] /\ RunTrue'
    <2>1. CASE ExecutorDies \/ DiesInClose
      <3>1. run' = NoRun /\ NoRun \in [dec : Nat, sends : BOOLEAN]
        BY <2>1 DEF ExecutorDies, DiesInClose, NoRun
      <3>2. QED
        BY <3>1 DEF RunTrue, NoRun
    <2>2. CASE \E i \in DOMAIN decs : Resumes(i)
      <3>1. PICK i \in DOMAIN decs : Resumes(i)
        BY <2>2
      <3>2. i \in Nat
        BY DEF IInv, Typed
      <3>3. QED
        BY <1>1, <3>1, <3>2 DEF Resumes, RunTrue, InRun
    <2>3. QED
      BY <2>1, <2>2
  <1>3. trade' \in Trades /\ RowOf(trade', decs, opened)
    <2>1. CASE DiesInClose
      <3>1. run.dec \in DOMAIN decs
        BY <2>1 DEF DiesInClose, IInv, RunTrue
      <3>2. QED
        BY <2>1, <3>1, ExitKeeps DEF DiesInClose, IInv, Typed, Row
    <2>2. CASE ~DiesInClose
      BY <2>2 DEF ExecutorDies, Resumes, IInv, Typed, Row
    <2>3. QED
      BY <2>1, <2>2
  <1>4. QED
    BY <1>1, <1>2, <1>3, Still DEF IInv, Typed, Watched

LEMMA WatchKeeps == ASSUME IInv, WatchReads \/ WatchJudges \/ WatchDies PROVE IInv'
  <1>1. /\ UNCHANGED <<decs, live, opened, run, settled>>
        /\ trade' = trade \/ trade' = BrokerClosed(trade)
    BY DEF WatchReads, WatchJudges, WatchDies, broker
  <1>2. trade' \in Trades /\ RowOf(trade', decs, opened)
    BY <1>1, BrokerClosedKeeps DEF IInv, Typed, Row
  <1>3. /\ watched' \subseteq opened /\ (snap' = NoSnap \/ snap' \subseteq opened) /\ Watched'
    BY <1>1 DEF WatchReads, WatchJudges, WatchDies, IInv, Typed, Watched
  <1>4. QED
    BY <1>1, <1>2, <1>3, Still DEF IInv, Typed, RunTrue

-----------------------------------------------------------------------------
(* The operator                                                             *)

(* Who holds the decision of the run.                                          *)
LEMMA RunElsewhere ==
    ASSUME IInv, NEW i \in DOMAIN decs, decs[i].state \notin InRun
    PROVE  run.dec # i
  <1>1. i # 0
    BY DEF IInv, Typed
  <1>2. QED
    BY <1>1 DEF IInv, RunTrue, NoRun

LEMMA RunStays ==
    ASSUME IInv, NEW i \in DOMAIN decs, DOMAIN decs' = DOMAIN decs,
           decs[i].state \in InRun => decs'[i].state \in InRun,
           \A j \in DOMAIN decs : j # i => decs'[j] = decs[j],
           run' = run
    PROVE  RunTrue'
  BY DEF IInv, RunTrue, NoRun

LEMMA DeclinesKeeps == ASSUME IInv, NEW i \in DOMAIN decs, Declines(i) \/ Reviews(i) PROVE IInv'
  <1>1. PICK s \in {"rejected", "expired", "reviewed_no_action"} :
          /\ decs' = [decs EXCEPT ![i].state = s]
          /\ \/ decs[i].state = "proposed" /\ s \in Unsent
             \/ decs[i].state \in {"blocked", "execution_unknown"} /\ s = "reviewed_no_action"
    BY DEF Declines, Reviews, DecisionIs, Unsent
  <1>2. UNCHANGED <<trade, live, opened, run, watched, snap, settled>>
    BY DEF Declines, Reviews, broker, locked
  <1>3. s \in DecisionWords /\ decs[i].state \notin Dead \cup Finished /\ s \notin Finished \cup {"waiting_for_market"}
        /\ (decs[i].state \in InRun => s = "reviewed_no_action")
        /\ (s \in Unsent => decs[i].state \in Unsent)
    BY <1>1, Vocabulary DEF DecisionWords, Unsent, InRun
  <1>4. decs[i].leg \in [Legs(i) -> LegWords] /\ StateTrue(decs[i]) /\ decs[i] \in Decisions
    BY DecisionTypes DEF IInv, AllTrue, DecisionTrue
  <1>5. decs' = [decs EXCEPT ![i] = [decs[i] EXCEPT !.state = s, !.leg = decs[i].leg]]
    BY <1>1, <1>4 DEF Decisions
  <1>6. s \in Unsent => \A l \in Legs(i) : decs[i].leg[l] = "planned"
    BY <1>3, <1>4 DEF StateTrue, Legs
  <1>7. /\ decs' \in Seq(Decisions) /\ DOMAIN decs' = DOMAIN decs /\ decs'[i].state = s
        /\ \A j \in DOMAIN decs : j # i => decs'[j] = decs[j]
        /\ AllTrue' /\ OpenedOnce' /\ Carries
    BY <1>2, <1>3, <1>4, <1>5, <1>6, StateAndRows
  <1>8. RunTrue'
    BY <1>2, <1>3, <1>7, RunStays DEF InRun
  <1>9. QED
    BY <1>2, <1>7, <1>8, Together DEF IInv, Typed, Row

LEMMA ResolvesKeeps == ASSUME IInv, NEW i \in DOMAIN decs, Resolves(i) PROVE IInv'
  <1> DEFINE f == [l \in Legs(i) |-> IF decs[i].leg[l] # "waiting_for_market" THEN decs[i].leg[l]
                                     ELSE IF decs[i].order[l] = "refused" THEN "skipped" ELSE "filled"]
             s == "reviewed_no_action"
  <1>1. UNCHANGED <<trade, live, opened, run, watched, snap, settled>>
    BY DEF Resolves, broker, locked
  <1>2. decs[i].leg \in [Legs(i) -> LegWords] /\ decs[i] \in Decisions /\ RowsTrue(decs[i], live)
    BY DecisionTypes DEF IInv, AllTrue, DecisionTrue
  <1>3. decs' = [decs EXCEPT ![i] = [decs[i] EXCEPT !.state = s, !.leg = f]]
    BY <1>2 DEF Resolves, Decisions
  <1>4. f \in [Legs(i) -> LegWords]
    BY <1>2 DEF LegWords
  <1>5. \A l \in Legs(i) : f[l] = decs[i].leg[l] \/ LegTrue([decs[i] EXCEPT !.state = s, !.leg = f], l, live)
    <2> SUFFICES ASSUME NEW l \in Legs(i), decs[i].leg[l] = "waiting_for_market"
                 PROVE  LegTrue([decs[i] EXCEPT !.state = s, !.leg = f], l, live)
      OBVIOUS
    <2>1. decs[i].order[l] \in {"done", "part", "refused"} /\ LegTrue(decs[i], l, live)
      BY <1>2 DEF Resolves, RowsTrue, Legs
    <2> DEFINE d == [decs[i] EXCEPT !.state = s, !.leg = f]
    <2>2. d.order = decs[i].order /\ d.leg[l] = IF decs[i].order[l] = "refused" THEN "skipped" ELSE "filled"
      BY <1>2 DEF Decisions
    <2> HIDE DEF d
    <2>3. LegTrue(d, l, live)
      BY <2>1, <2>2, Vocabulary DEF LegTrue
    <2>4. QED
      BY <2>3 DEF d
  <1>6. s \in DecisionWords /\ s \in InRun /\ s \notin Unsent \cup Finished \cup {"waiting_for_market"}
        /\ decs[i].state \notin Dead \cup Finished
    BY Vocabulary DEF Resolves, DecisionWords, InRun, Unsent
  <1> HIDE DEF f, s
  <1>7. /\ decs' \in Seq(Decisions) /\ DOMAIN decs' = DOMAIN decs /\ decs'[i].state = s
        /\ \A j \in DOMAIN decs : j # i => decs'[j] = decs[j]
        /\ AllTrue' /\ OpenedOnce' /\ Carries
    BY <1>1, <1>3, <1>4, <1>5, <1>6, StateAndRows
  <1>8. RunTrue'
    BY <1>1, <1>6, <1>7, RunStays
  <1>9. QED
    BY <1>1, <1>7, <1>8, Together DEF IInv, Typed, Row

(* Dropped closes are skipped; the executor begins, or the operator dies first. *)
LEMMA ApprovesKeeps == ASSUME IInv, NEW i \in DOMAIN decs, Approves(i) PROVE IInv'
  <1> DEFINE gone == Closes(i) \ live
  <1>1. PICK starts \in BOOLEAN :
          /\ run' = IF starts THEN [dec |-> i, sends |-> TRUE] ELSE NoRun
          /\ decs' = [decs EXCEPT ![i].state = IF starts THEN "executing" ELSE "approved",
                                  ![i].leg = [l \in Legs(i) |-> IF l \in gone /\ starts THEN "skipped" ELSE @[l]]]
    BY DEF Approves
  <1> DEFINE s == IF starts THEN "executing" ELSE "approved"
             f == [l \in Legs(i) |-> IF l \in gone /\ starts THEN "skipped" ELSE decs[i].leg[l]]
  <1>2. /\ UNCHANGED <<live, opened, watched, snap, settled>> /\ run = NoRun /\ decs[i].state = "proposed"
        /\ trade' = trade \/ trade' = BrokerClosed(trade)
    BY DEF Approves, broker, locked
  <1>3. decs[i].leg \in [Legs(i) -> LegWords] /\ decs[i] \in Decisions /\ RowsTrue(decs[i], live)
        /\ StateTrue(decs[i]) /\ i \in Nat
    BY DecisionTypes DEF IInv, AllTrue, DecisionTrue
  <1>4. decs' = [decs EXCEPT ![i] = [decs[i] EXCEPT !.state = s, !.leg = f]]
    BY <1>1, <1>3 DEF Decisions
  <1>5. f \in [Legs(i) -> LegWords] /\ \A l \in Legs(i) : decs[i].leg[l] = "planned"
    BY <1>2, <1>3 DEF LegWords, StateTrue, Unsent, Legs
  <1>6. \A l \in Legs(i) : f[l] = decs[i].leg[l] \/ LegTrue([decs[i] EXCEPT !.state = s, !.leg = f], l, live)
    <2> SUFFICES ASSUME NEW l \in Legs(i), l \in gone, starts
                 PROVE  LegTrue([decs[i] EXCEPT !.state = s, !.leg = f], l, live)
      OBVIOUS
    <2> DEFINE d == [decs[i] EXCEPT !.state = s, !.leg = f]
    <2>1. d.order = decs[i].order /\ d.leg[l] = "skipped" /\ decs[i].leg[l] = "planned" /\ LegTrue(decs[i], l, live)
      BY <1>3, <1>5 DEF Decisions, RowsTrue, Legs
    <2> HIDE DEF d
    <2>2. LegTrue(d, l, live)
      BY <2>1, Vocabulary DEF LegTrue
    <2>3. QED
      BY <2>2 DEF d
  <1>7. s \in DecisionWords /\ s \notin Finished \cup {"waiting_for_market"} /\ (s \in Unsent => f = decs[i].leg)
        /\ decs[i].state \notin Dead \cup Finished /\ (starts => s \in InRun)
    BY <1>2, <1>3, Vocabulary DEF DecisionWords, InRun, Unsent
  <1> HIDE DEF f, s
  <1>8. /\ decs' \in Seq(Decisions) /\ DOMAIN decs' = DOMAIN decs /\ decs'[i].state = s
        /\ AllTrue' /\ OpenedOnce' /\ Carries
    BY <1>2, <1>4, <1>5, <1>6, <1>7, StateAndRows
  <1>9. run' \in [dec : Nat, sends : BOOLEAN] /\ RunTrue'
    <2>1. CASE starts
      BY <1>1, <1>3, <1>7, <1>8, <2>1 DEF RunTrue
    <2>2. CASE ~starts
      BY <1>1, <2>2 DEF RunTrue, NoRun
    <2>3. QED
      BY <2>1, <2>2
  <1>10. trade' \in Trades /\ RowOf(trade', decs, opened)
    BY <1>2, BrokerClosedKeeps DEF IInv, Typed, Row
  <1>11. QED
    BY <1>2, <1>8, <1>9, <1>10, Together

-----------------------------------------------------------------------------
(* The executor                                                             *)

LEMMA InTheRun ==
    ASSUME IInv, NEW i \in DOMAIN decs, run.dec = i
    PROVE  run # NoRun /\ decs[i].state \in InRun
  <1>1. i # 0
    BY DEF IInv, Typed
  <1>2. QED
    BY <1>1 DEF IInv, RunTrue, NoRun

(* The leg of the entry is the entry's alone.                                  *)
LEMMA EntryLeg ==
    ASSUME IInv, NEW i \in DOMAIN decs, Entry \in Legs(i) \/ decs[i].kind = "entry"
    PROVE  i = 1 /\ decs # <<>> /\ decs[1].kind = "entry" /\ Legs(i) = {Entry}
  <1>1. ScopedAs(i, decs[i], live, opened) /\ opened \subseteq Positions
    BY DEF IInv, Typed, AllTrue, DecisionTrue
  <1>2. QED
    BY <1>1, Vocabulary DEF ScopedAs, Legs

LEMMA SendsKeeps == ASSUME IInv, NEW i \in DOMAIN decs, NEW l \in Legs(i), Sends(i, l) PROVE IInv'
  <1>1. PICK o \in {"none", "working"} :
          decs' = [decs EXCEPT ![i].leg[l] = "submitting", ![i].order[l] = o]
    BY DEF Sends
  <1>2. UNCHANGED <<trade, live, opened, run, watched, snap, settled>> /\ decs[i].leg[l] = "planned"
        /\ decs[i].state \in InRun
    BY InTheRun DEF Sends, broker, locked
  <1>3. decs[i] \in Decisions /\ decs[i].leg \in [Legs(i) -> LegWords] /\ decs[i].order \in [Legs(i) -> OrderWords]
        /\ Legs(i) \in SUBSET Nat /\ RowsTrue(decs[i], live)
    BY DecisionTypes DEF IInv, AllTrue, DecisionTrue, ScopedAs, Legs
  <1> DEFINE f == [decs[i].leg EXCEPT ![l] = "submitting"]
             g == [decs[i].order EXCEPT ![l] = o]
             d == [decs[i] EXCEPT !.leg = f, !.order = g]
  <1>4. decs' = [decs EXCEPT ![i] = d]
    BY <1>1, <1>3 DEF Decisions
  <1>5. f \in [Legs(i) -> LegWords] /\ g \in [Legs(i) -> OrderWords] /\ f[l] = "submitting" /\ g[l] = o
        /\ \A k \in Legs(i) : k # l => f[k] = decs[i].leg[k] /\ g[k] = decs[i].order[k]
    BY <1>3 DEF LegWords, OrderWords
  <1>6. d.kind = decs[i].kind /\ d.state = decs[i].state /\ d.leg = f /\ d.order = g /\ d \in Decisions
    <2>1. f \in LegMaps /\ g \in OrderMaps
      BY <1>3, <1>5 DEF LegMaps, OrderMaps
    <2>2. QED
      BY <1>3, <2>1 DEF Decisions
  <1> HIDE DEF f, g, d
  <1>7. RowsTrue(d, live)
    <2> SUFFICES ASSUME NEW k \in Legs(i) PROVE LegTrue(d, k, live)
      BY <1>5, <1>6 DEF RowsTrue
    <2>1. LegTrue(decs[i], k, live)
      BY <1>3 DEF RowsTrue, Legs
    <2>2. CASE k = l
      BY <1>5, <1>6, <2>2, Vocabulary DEF LegTrue
    <2>3. CASE k # l
      BY <1>5, <1>6, <2>1, <2>3 DEF LegTrue
    <2>4. QED
      BY <2>2, <2>3
  <1>8. StateTrue(d)
    BY <1>2, <1>6, Vocabulary DEF StateTrue, InRun, Unsent
  <1>9. decs[i].kind = "entry" => {d.order[Entry], decs[i].order[Entry]} \cap {"done", "part"} = {}
    <2> SUFFICES ASSUME decs[i].kind = "entry" PROVE {d.order[Entry], decs[i].order[Entry]} \cap {"done", "part"} = {}
      OBVIOUS
    <2>1. l = Entry
      BY EntryLeg
    <2>2. LegTrue(decs[i], l, live)
      BY <1>3 DEF RowsTrue, Legs
    <2>3. QED
      BY <1>2, <1>5, <1>6, <2>1, <2>2 DEF LegTrue
  <1>10. /\ decs' \in Seq(Decisions) /\ DOMAIN decs' = DOMAIN decs /\ decs'[i] = d
         /\ \A j \in DOMAIN decs : j # i => decs'[j] = decs[j]
         /\ AllTrue' /\ OpenedOnce' /\ Carries
    BY <1>2, <1>4, <1>5, <1>6, <1>7, <1>8, <1>9, OneMoves
  <1>11. RunTrue'
    BY <1>2, <1>6, <1>10, RunStays
  <1>12. QED
    BY <1>2, <1>10, <1>11, Together DEF IInv, Typed, Row

(* One leg of the run takes a state that is true of its order.                  *)
LEMMA LegMoves ==
    ASSUME IInv, NEW i \in DOMAIN decs, NEW l \in Legs(i), NEW s \in LegWords, LegIs(i, l, s),
           decs[i].state \in InRun, LegTrue([decs[i] EXCEPT !.leg[l] = s], l, live),
           UNCHANGED <<live, opened, run, watched, snap, settled>>,
           trade' \in Trades, RowOf(trade', decs, opened)
    PROVE  IInv'
  <1> DEFINE d == [decs[i] EXCEPT !.leg[l] = s]
  <1>1. /\ decs[i] \in Decisions /\ decs[i].leg \in [Legs(i) -> LegWords] /\ Legs(i) \in SUBSET Nat
        /\ DOMAIN decs[i].order = Legs(i) /\ RowsTrue(decs[i], live)
    BY DecisionTypes DEF IInv, AllTrue, DecisionTrue, ScopedAs, Legs
  <1>2. [decs[i].leg EXCEPT ![l] = s] \in LegMaps
    BY <1>1 DEF LegMaps
  <1>3. /\ d.kind = decs[i].kind /\ d.state = decs[i].state /\ d.order = decs[i].order
        /\ DOMAIN d.leg = Legs(i) /\ d \in Decisions
        /\ \A k \in Legs(i) : k # l => d.leg[k] = decs[i].leg[k]
    BY <1>1, <1>2 DEF Decisions
  <1>4. decs' = [decs EXCEPT ![i] = d]
    BY DEF LegIs
  <1>5. LegTrue(d, l, live)
    OBVIOUS
  <1> HIDE DEF d
  <1>6. RowsTrue(d, live)
    <2> SUFFICES ASSUME NEW k \in Legs(i) PROVE LegTrue(d, k, live)
      BY <1>3 DEF RowsTrue
    <2>1. CASE k = l
      BY <1>5, <2>1
    <2>2. CASE k # l
      BY <1>1, <1>3, <2>2 DEF RowsTrue, LegTrue, Legs
    <2>3. QED
      BY <2>1, <2>2
  <1>7. StateTrue(d)
    BY <1>3, Vocabulary DEF StateTrue, InRun, Unsent
  <1>8. /\ decs' \in Seq(Decisions) /\ DOMAIN decs' = DOMAIN decs /\ decs'[i] = d
        /\ \A j \in DOMAIN decs : j # i => decs'[j] = decs[j]
        /\ AllTrue' /\ OpenedOnce' /\ Carries
    BY <1>1, <1>3, <1>4, <1>6, <1>7, OneMoves
  <1>9. RunTrue'
    BY <1>3, <1>8, RunStays
  <1>10. QED
    BY <1>8, <1>9, Together DEF IInv, Typed

LEMMA AcceptedKeeps == ASSUME IInv, NEW i \in DOMAIN decs, NEW l \in Legs(i), Accepted(i, l) PROVE IInv'
  <1>1. decs[i] \in Decisions /\ decs[i].leg \in [Legs(i) -> LegWords] /\ LegTrue(decs[i], l, live)
        /\ decs[i].state \in InRun
    BY DecisionTypes, InTheRun DEF Accepted, IInv, AllTrue, DecisionTrue, RowsTrue, Legs
  <1> DEFINE d == [decs[i] EXCEPT !.leg[l] = "submitted"]
  <1>2. d.order = decs[i].order /\ d.leg[l] = "submitted"
    BY <1>1 DEF Decisions
  <1> HIDE DEF d
  <1>3. LegTrue(d, l, live)
    BY <1>1, <1>2, Vocabulary DEF LegTrue
  <1>4. QED
    BY <1>1, <1>3, LegMoves DEF Accepted, broker, locked, IInv, Typed, Row, LegWords, d

LEMMA LearnsKeeps == ASSUME IInv, NEW i \in DOMAIN decs, NEW l \in Legs(i), Learns(i, l) PROVE IInv'
  <1>1. decs[i] \in Decisions /\ decs[i].leg \in [Legs(i) -> LegWords] /\ LegTrue(decs[i], l, live)
        /\ decs[i].state \in InRun /\ decs[i].order[l] \in OrderWords
    BY DecisionTypes, InTheRun DEF Learns, IInv, AllTrue, DecisionTrue, ScopedAs, RowsTrue, Legs
  <1>2. PICK s \in Answer(i, l) :
          /\ LegIs(i, l, s)
          /\ trade' = IF l = Entry /\ s \in Filled THEN Recorded(trade, i, s) ELSE trade
    BY DEF Learns
  <1>3. /\ s \in LegWords /\ s # "planned"
        /\ s \in Filled => decs[i].order[l] \in {"done", "part"}
        /\ s = "filled" => decs[i].order[l] = "done"
        /\ s = "partially_filled" => decs[i].order[l] = "part"
        /\ s \in {"skipped", "rejected"} => decs[i].order[l] \in {"none", "refused"}
        /\ s = "waiting_for_market" => decs[i].order[l] = "held"
    BY <1>1, Vocabulary DEF Answer, LegWords, OrderWords
  <1> DEFINE d == [decs[i] EXCEPT !.leg[l] = s]
  <1>4. d.order = decs[i].order /\ d.leg[l] = s
    BY <1>1 DEF Decisions
  <1> HIDE DEF d
  <1>5. LegTrue(d, l, live)
    BY <1>1, <1>3, <1>4 DEF LegTrue
  <1>6. trade' \in Trades /\ RowOf(trade', decs, opened)
    <2>1. CASE l = Entry /\ s \in Filled
      <3>1. i = 1 /\ decs # <<>> /\ decs[1].kind = "entry" /\ decs[1].order[Entry] \in {"done", "part"}
        BY <1>3, <2>1, EntryLeg
      <3>2. opened # {}
        BY <3>1 DEF IInv, OpenedOnce, EntryIs
      <3>3. QED
        BY <1>2, <2>1, <3>1, <3>2, RecordedKeeps DEF IInv, Typed, Row
    <2>2. CASE ~(l = Entry /\ s \in Filled)
      BY <1>2, <2>2 DEF IInv, Typed, Row
    <2>3. QED
      BY <2>1, <2>2
  <1>7. QED
    BY <1>1, <1>2, <1>3, <1>5, <1>6, LegMoves DEF Learns, broker, locked, d

(* The trade is settled behind the run.                                        *)
LEMMA SettleKeeps ==
    ASSUME IInv, NEW i \in DOMAIN decs, NEW tp \in BOOLEAN
    PROVE  Settle(trade, i, tp) \in Trades /\ RowOf(Settle(trade, i, tp), decs, opened)
  <1>0. trade \in Trades /\ RowOf(trade, decs, opened) /\ Typed /\ AllTrue
    BY DEF IInv, Typed, Row
  <1>1. CASE decs[i].kind = "entry" /\ decs[i].leg[Entry] \in Filled
    <2> DEFINE r == Recorded(trade, i, decs[i].leg[Entry])
    <2>1. i = 1 /\ decs # <<>> /\ Entry \in DOMAIN decs[1].leg
      BY <1>1, EntryLeg DEF Legs
    <2>2. LegTrue(decs[1], Entry, live)
      BY <2>1 DEF IInv, AllTrue, DecisionTrue, RowsTrue
    <2>3. opened # {}
      BY <1>1, <2>1, <2>2 DEF LegTrue, IInv, OpenedOnce, EntryIs
    <2>4. r \in Trades /\ RowOf(r, decs, opened) /\ r.state \in Late \cup {"missed"}
      BY <1>0, <1>1, <2>1, <2>3, RecordedKeeps
    <2> HIDE DEF r
    <2>5. Moved(r, "open_tp_missing") \in Trades /\ RowOf(Moved(r, "open_tp_missing"), decs, opened)
      <3>1. CASE r.state \in {"open", "partial", "exit_pending"}
        <4>1. r.state \in Late /\ "open_tp_missing" \in Late \ {"exit_pending"}
          BY <3>1, Vocabulary DEF Late
        <4>2. QED
          BY <2>4, <3>1, <4>1, MovesOf, StateKeeps
      <3>2. CASE r.state \notin {"open", "partial", "exit_pending"}
        BY <2>4, <3>2, MovesOf
      <3>3. QED
        BY <3>1, <3>2
    <2>6. Settle(trade, i, tp) = IF tp THEN Moved(r, "open_tp_missing") ELSE r
      BY <1>1 DEF Settle, r
    <2>7. QED
      BY <2>4, <2>5, <2>6
  <1>2. CASE decs[i].kind = "entry" /\ decs[i].leg[Entry] \notin Filled
    BY <1>0, <1>2 DEF Settle
  <1>3. CASE decs[i].kind # "entry"
    BY <1>0, <1>3, ClosedKeeps DEF Settle
  <1>4. QED
    BY <1>1, <1>2, <1>3

(* What a run leaves behind of its decision.                                   *)
LEMMA FinalOf ==
    ASSUME IInv, NEW i \in DOMAIN decs, decs[i].state \in InRun, NEW s \in Final(i) \cup {decs[i].state}
    PROVE  /\ s \in DecisionWords \ Unsent
           /\ decs[i].state \in Dead \cup Finished => s = decs[i].state
           /\ s \in Finished \cup {"waiting_for_market"} => \A l \in Legs(i) : decs[i].leg[l] # "unknown"
           /\ s \in Finished => \A l \in Legs(i) : decs[i].leg[l] # "waiting_for_market"
  <1> DEFINE legs == {decs[i].leg[l] : l \in Legs(i)}
  <1>1. \A l \in Legs(i) : decs[i].leg[l] \in legs
    OBVIOUS
  <1>2. decs[i].state \notin Finished \cup {"waiting_for_market"} \cup Unsent /\ decs[i].state \in DecisionWords
    BY Vocabulary DEF InRun, Unsent, DecisionWords
  <1>3. Final(i) = IF decs[i].state \in Dead THEN {decs[i].state}
                   ELSE IF "unknown" \in legs THEN {"execution_unknown"}
                   ELSE IF "waiting_for_market" \in legs THEN {"waiting_for_market", "blocked"}
                   ELSE IF legs = {"filled"} THEN {"completed", "blocked"} ELSE {"completed_partial", "blocked"}
    BY DEF Final
  <1> HIDE DEF legs
  <1>4. QED
    BY <1>1, <1>2, <1>3, Vocabulary DEF DecisionWords, InRun, Unsent

LEMMA FinishesKeeps == ASSUME IInv, Finishes PROVE IInv'
  <1> DEFINE i == run.dec
  <1>1. i \in DOMAIN decs /\ decs[i].state \in InRun
    BY DEF Finishes, IInv, RunTrue
  <1>2. PICK s \in Final(i) \cup {decs[i].state} :
          decs' = [decs EXCEPT ![i].state = s,
                               ![i].leg = [l \in Legs(i) |-> IF @[l] = "planned" THEN "skipped" ELSE @[l]]]
    BY DEF Finishes
  <1>3. PICK tp \in BOOLEAN : trade' = Settle(trade, i, tp)
    BY DEF Finishes
  <1>4. /\ UNCHANGED <<live, opened, watched, snap, settled>> /\ run' = NoRun
        /\ \A l \in Legs(i) : decs[i].leg[l] \notin {"submitting", "submitted"}
    BY DEF Finishes, broker, locked
  <1> DEFINE f == [l \in Legs(i) |-> IF decs[i].leg[l] = "planned" THEN "skipped" ELSE decs[i].leg[l]]
  <1>5. decs[i].leg \in [Legs(i) -> LegWords] /\ decs[i] \in Decisions /\ RowsTrue(decs[i], live)
    BY <1>1, DecisionTypes DEF IInv, AllTrue, DecisionTrue
  <1>6. decs' = [decs EXCEPT ![i] = [decs[i] EXCEPT !.state = s, !.leg = f]]
    BY <1>2, <1>5 DEF Decisions
  <1>7. f \in [Legs(i) -> LegWords]
    BY <1>5 DEF LegWords
  <1>8. \A l \in Legs(i) : f[l] = decs[i].leg[l] \/ LegTrue([decs[i] EXCEPT !.state = s, !.leg = f], l, live)
    <2> SUFFICES ASSUME NEW l \in Legs(i), decs[i].leg[l] = "planned"
                 PROVE  LegTrue([decs[i] EXCEPT !.state = s, !.leg = f], l, live)
      OBVIOUS
    <2> DEFINE d == [decs[i] EXCEPT !.state = s, !.leg = f]
    <2>1. d.order = decs[i].order /\ d.leg[l] = "skipped" /\ LegTrue(decs[i], l, live)
      BY <1>5 DEF Decisions, RowsTrue, Legs
    <2> HIDE DEF d
    <2>2. LegTrue(d, l, live)
      BY <2>1, Vocabulary DEF LegTrue
    <2>3. QED
      BY <2>2 DEF d
  <1>9. /\ s \in DecisionWords /\ s \notin Unsent
        /\ decs[i].state \in Dead \cup Finished => s = decs[i].state
        /\ s \in Finished \cup {"waiting_for_market"} => \A l \in Legs(i) : f[l] \notin Active \cup {"planned"}
        /\ s \in Finished => \A l \in Legs(i) : f[l] # "waiting_for_market"
    BY <1>1, <1>4, FinalOf, Vocabulary
  <1>10. trade' \in Trades /\ RowOf(trade', decs, opened)
    BY <1>1, <1>3, SettleKeeps
  <1> HIDE DEF f, i
  <1>11. /\ decs' \in Seq(Decisions) /\ DOMAIN decs' = DOMAIN decs
         /\ AllTrue' /\ OpenedOnce' /\ Carries
    BY <1>1, <1>4, <1>6, <1>7, <1>8, <1>9, StateAndRows
  <1>12. run' \in [dec : Nat, sends : BOOLEAN] /\ RunTrue'
    BY <1>4 DEF RunTrue, NoRun
  <1>13. QED
    BY <1>4, <1>10, <1>11, <1>12, Together

-----------------------------------------------------------------------------
(* The watch settles held orders                                            *)

LEMMA WatchSettlesKeeps == ASSUME IInv, NEW i \in DOMAIN decs, WatchSettles(i) PROVE IInv'
  <1> DEFINE f == [l \in Legs(i) |-> IF decs[i].leg[l] = "waiting_for_market"
                                     THEN HeldAnswer(i, l) ELSE decs[i].leg[l]]
  <1>1. PICK s \in {"waiting_for_market", "blocked", "completed", "completed_partial"} :
          /\ decs' = [decs EXCEPT ![i].state = s, ![i].leg = f]
          /\ s \in Finished => \A l \in Legs(i) : f[l] # "waiting_for_market"
    BY Vocabulary DEF WatchSettles
  <1>2. /\ UNCHANGED <<trade, live, opened, run, watched, snap, settled>>
        /\ decs[i].state = "waiting_for_market"
    BY DEF WatchSettles, broker, locked
  <1>3. /\ decs[i].leg \in [Legs(i) -> LegWords] /\ decs[i] \in Decisions /\ RowsTrue(decs[i], live)
        /\ StateTrue(decs[i]) /\ decs[i].order \in [Legs(i) -> OrderWords]
    BY DecisionTypes DEF IInv, AllTrue, DecisionTrue, ScopedAs, Legs
  <1>4. \A l \in Legs(i) : decs[i].leg[l] = "waiting_for_market" =>
           LET a == HeldAnswer(i, l)
               o == decs[i].order[l] IN
           /\ a \in {"filled", "partially_filled", "skipped", "waiting_for_market"}
           /\ o \in {"held", "done", "part", "refused"}
           /\ a \in Filled => o \in {"done", "part"}
           /\ a = "partially_filled" => o = "part"
           /\ a = "skipped" => o = "refused"
           /\ a = "filled" => (l # Entry => l \notin live)
    BY <1>3, Vocabulary DEF HeldAnswer, RowsTrue, LegTrue, Legs
  <1>5. f \in [Legs(i) -> LegWords]
    BY <1>3, <1>4 DEF LegWords
  <1>6. decs' = [decs EXCEPT ![i] = [decs[i] EXCEPT !.state = s, !.leg = f]]
    BY <1>1, <1>3 DEF Decisions
  <1>7. \A l \in Legs(i) : f[l] = decs[i].leg[l] \/ LegTrue([decs[i] EXCEPT !.state = s, !.leg = f], l, live)
    <2> SUFFICES ASSUME NEW l \in Legs(i), decs[i].leg[l] = "waiting_for_market"
                 PROVE  LegTrue([decs[i] EXCEPT !.state = s, !.leg = f], l, live)
      OBVIOUS
    <2> DEFINE d == [decs[i] EXCEPT !.state = s, !.leg = f]
    <2>1. d.order = decs[i].order /\ d.leg[l] = HeldAnswer(i, l) /\ LegTrue(decs[i], l, live)
      BY <1>3 DEF Decisions, RowsTrue, Legs
    <2> HIDE DEF d
    <2>2. LegTrue(d, l, live)
      BY <1>4, <2>1, Vocabulary DEF LegTrue
    <2>3. QED
      BY <2>2 DEF d
  <1>8. /\ s \in DecisionWords /\ s \notin Unsent /\ decs[i].state \notin Dead \cup Finished \cup InRun
        /\ \A l \in Legs(i) : f[l] \notin Active \cup {"planned"}
    BY <1>2, <1>3, <1>4, Vocabulary DEF DecisionWords, Unsent, InRun, StateTrue, Legs
  <1> HIDE DEF f
  <1>9. /\ decs' \in Seq(Decisions) /\ DOMAIN decs' = DOMAIN decs
        /\ \A j \in DOMAIN decs : j # i => decs'[j] = decs[j]
        /\ AllTrue' /\ OpenedOnce' /\ Carries
    BY <1>1, <1>2, <1>5, <1>6, <1>7, <1>8, StateAndRows
  <1>10. RunTrue'
    BY <1>2, <1>8, <1>9, RunStays
  <1>11. QED
    BY <1>2, <1>9, <1>10, Together DEF IInv, Typed, Row

-----------------------------------------------------------------------------
(* A decision is made                                                       *)

(* What was offered before is superseded; the new decision is the last.         *)
LEMMA Appended ==
    ASSUME IInv, NEW d, Offered(d), UNCHANGED <<live, opened>>,
           NEW new \in Decisions, new = [d EXCEPT !.state = "proposed"],
           DecisionTrue(Len(decs) + 1, new, live, opened),
           decs = <<>> => opened = {} /\ (new.kind = "entry" => new.order[Entry] = "none")
    PROVE  /\ decs' \in Seq(Decisions) /\ DOMAIN decs' = DOMAIN decs \cup {Len(decs) + 1}
           /\ decs'[Len(decs) + 1] = new
           /\ AllTrue' /\ OpenedOnce' /\ Carries
           /\ \A i \in DOMAIN decs : decs[i].state \in InRun => decs'[i] = decs[i]
  <1> DEFINE old(i) == IF decs[i].state = "proposed" THEN [decs[i] EXCEPT !.state = "superseded"] ELSE decs[i]
             olds == [i \in DOMAIN decs |-> old(i)]
  <1>0. decs \in Seq(Decisions) /\ decs' = Append(olds, new)
    BY DEF Offered, IInv, Typed
  <1>1. \A i \in DOMAIN decs : old(i) \in Decisions
    <2> SUFFICES ASSUME NEW i \in DOMAIN decs PROVE old(i) \in Decisions
      OBVIOUS
    <2>1. decs[i] \in Decisions /\ "superseded" \in DecisionWords
      BY <1>0 DEF DecisionWords, Unsent
    <2>2. QED
      BY <2>1 DEF Decisions
  <1>2. olds \in Seq(Decisions) /\ Len(olds) = Len(decs) /\ DOMAIN olds = DOMAIN decs
    BY <1>0, <1>1
  <1>3. \A i \in DOMAIN decs :
          /\ old(i).kind = decs[i].kind /\ old(i).leg = decs[i].leg /\ old(i).order = decs[i].order
          /\ old(i).state = IF decs[i].state = "proposed" THEN "superseded" ELSE decs[i].state
    BY <1>0 DEF Decisions
  <1>4. \A i \in DOMAIN decs : DecisionTrue(i, old(i), live, opened)
    <2> SUFFICES ASSUME NEW i \in DOMAIN decs PROVE DecisionTrue(i, old(i), live, opened)
      OBVIOUS
    <2>1. DecisionTrue(i, decs[i], live, opened)
      BY DEF IInv, AllTrue
    <2>2. ScopedAs(i, old(i), live, opened) /\ RowsTrue(old(i), live)
      BY <1>3, <2>1 DEF DecisionTrue, ScopedAs, RowsTrue, LegTrue
    <2>3. StateTrue(old(i))
      BY <1>3, <2>1, Vocabulary DEF DecisionTrue, StateTrue, Unsent
    <2>4. QED
      BY <2>2, <2>3 DEF DecisionTrue
  <1>5. \A i \in DOMAIN decs : olds[i] = old(i) /\ (decs[i].state \in InRun => old(i) = decs[i])
    BY DEF InRun
  <1> HIDE DEF old, olds
  <1>6. /\ decs' \in Seq(Decisions) /\ DOMAIN decs' = DOMAIN decs \cup {Len(decs) + 1}
        /\ decs'[Len(decs) + 1] = new /\ \A i \in DOMAIN decs : decs'[i] = old(i)
    BY <1>0, <1>1, <1>2, <1>5
  <1>7. AllTrue'
    BY <1>4, <1>6 DEF AllTrue
  <1>8. Carries
    BY <1>3, <1>6, Vocabulary DEF Carries
  <1>9. OpenedOnce'
    <2>1. CASE decs = <<>>
      <3>1. decs' # <<>> /\ decs'[1] = new
        BY <1>6, <2>1
      <3>2. QED
        BY <2>1, <3>1 DEF OpenedOnce, EntryIs
    <2>2. CASE decs # <<>>
      <3>1. 1 \in DOMAIN decs /\ decs' # <<>>
        BY <1>0, <1>6, <2>2
      <3>2. decs'[1].kind = decs[1].kind /\ decs'[1].order = decs[1].order
        BY <1>3, <1>6, <3>1
      <3>3. QED
        BY <2>2, <3>1, <3>2 DEF IInv, OpenedOnce, EntryIs
    <2>3. QED
      BY <2>1, <2>2
  <1>10. QED
    BY <1>5, <1>6, <1>7, <1>8, <1>9

(* A new decision: nothing was sent.                                           *)
Made(kind, legs) == [Decision(kind, legs) EXCEPT !.state = "proposed"]

LEMMA NewDecision ==
    ASSUME NEW kind \in {"entry", "exit", "flatten"}, NEW legs \in SUBSET Nat, NEW at
    PROVE  /\ Made(kind, legs).kind = kind
           /\ DOMAIN Made(kind, legs).leg = legs /\ DOMAIN Made(kind, legs).order = legs
           /\ \A l \in legs : Made(kind, legs).order[l] = "none"
           /\ Made(kind, legs) \in Decisions /\ RowsTrue(Made(kind, legs), at) /\ StateTrue(Made(kind, legs))
  <1> DEFINE d == [kind |-> kind, state |-> "proposed", leg |-> [l \in legs |-> "planned"],
                   order |-> [l \in legs |-> "none"]]
  <1>1. Made(kind, legs) = d
    BY DEF Decision, Made
  <1>2. d \in Decisions
    <2>1. [l \in legs |-> "planned"] \in LegMaps /\ [l \in legs |-> "none"] \in OrderMaps
      BY DEF LegMaps, OrderMaps, LegWords, OrderWords
    <2>2. QED
      BY <2>1 DEF Decisions, DecisionWords, Unsent
  <1>3. RowsTrue(d, at) /\ StateTrue(d)
    BY Vocabulary DEF RowsTrue, LegTrue, StateTrue, Unsent
  <1>4. d.kind = kind /\ DOMAIN d.leg = legs /\ DOMAIN d.order = legs /\ \A l \in legs : d.order[l] = "none"
    OBVIOUS
  <1> HIDE DEF d
  <1>5. QED
    BY <1>1, <1>2, <1>3, <1>4

(* What is left to say of a step that makes a decision.                         *)
LEMMA Grown ==
    ASSUME IInv, decs' \in Seq(Decisions), DOMAIN decs \subseteq DOMAIN decs', AllTrue', OpenedOnce',
           \A i \in DOMAIN decs : decs[i].state \in InRun => decs'[i] = decs[i],
           UNCHANGED <<live, opened, run, watched, snap>>, settled' \in BOOLEAN,
           trade' \in Trades, RowOf(trade', decs', opened)
    PROVE  IInv'
  <1>1. Typed' /\ Watched'
    BY DEF IInv, Typed, Watched
  <1>2. RunTrue' /\ Row'
    BY DEF IInv, RunTrue, NoRun, Row
  <1>3. QED
    BY <1>1, <1>2 DEF IInv

(* Before the first decision the broker holds nothing of the trade.             *)
LEMMA NothingYet ==
    ASSUME IInv, decs = <<>>
    PROVE  opened = {} /\ live = {} /\ trade.state \in {"none", "proposed"} /\ trade.ids = {} /\ trade.entry = 0
  BY DEF IInv, Typed, OpenedOnce, EntryIs, Row, RowOf, Trades, Early, Late

(* An exit or a flatten is over all that is left.                              *)
LEMMA NewClose ==
    ASSUME IInv, live # {}, NEW kind \in {"exit", "flatten"}, Offered(Decision(kind, live)),
           UNCHANGED <<live, opened>>
    PROVE  /\ decs' \in Seq(Decisions) /\ DOMAIN decs' = DOMAIN decs \cup {Len(decs) + 1}
           /\ decs'[Len(decs) + 1].kind = kind
           /\ AllTrue' /\ OpenedOnce' /\ Carries
           /\ \A i \in DOMAIN decs : decs[i].state \in InRun => decs'[i] = decs[i]
  <1> DEFINE new == Made(kind, live)
  <1>1. live \in SUBSET Nat /\ live \subseteq opened /\ decs # <<>>
    BY Vocabulary, NothingYet DEF IInv, Typed
  <1>2. /\ new.kind = kind /\ DOMAIN new.leg = live /\ DOMAIN new.order = live
        /\ new \in Decisions /\ RowsTrue(new, live) /\ StateTrue(new)
    BY <1>1, NewDecision, ZenonT(60)
  <1>3. new = [Decision(kind, live) EXCEPT !.state = "proposed"]
    BY DEF Made
  <1> HIDE DEF new
  <1>4. DecisionTrue(Len(decs) + 1, new, live, opened)
    BY <1>1, <1>2 DEF DecisionTrue, ScopedAs
  <1>5. QED
    BY <1>1, <1>2, <1>3, <1>4, Appended

LEMMA ProposesFlattenKeeps == ASSUME IInv, ProposesFlatten PROVE IInv'
  <1>1. live # {} /\ Offered(Decision("flatten", live))
        /\ UNCHANGED <<trade, live, opened, run, watched, snap, settled>>
    BY DEF ProposesFlatten, broker, locked
  <1>2. /\ decs' \in Seq(Decisions) /\ DOMAIN decs' = DOMAIN decs \cup {Len(decs) + 1}
        /\ AllTrue' /\ OpenedOnce' /\ Carries
        /\ \A i \in DOMAIN decs : decs[i].state \in InRun => decs'[i] = decs[i]
    BY <1>1, NewClose
  <1>3. trade' \in Trades /\ RowOf(trade', decs', opened) /\ settled' \in BOOLEAN
    BY <1>1, <1>2, RowCarries DEF IInv, Typed, Row
  <1>4. QED
    BY <1>1, <1>2, <1>3, Grown

LEMMA ProposesExitKeeps == ASSUME IInv, ProposesExit PROVE IInv'
  <1>0. trade \in Trades /\ RowOf(trade, decs, opened) /\ trade.state \in Held /\ Len(decs) + 1 \in Nat
    BY DEF ProposesExit, IInv, Typed, Row
  <1>1. trade.ids \cap live = live /\ live # {}
    BY <1>0 DEF ProposesExit, RowOf, Late, IInv, Typed
  <1>2. Offered(Decision("exit", live)) /\ UNCHANGED <<live, opened, run, watched, snap>> /\ settled' = FALSE
    BY <1>1 DEF ProposesExit, broker
  <1>3. /\ decs' \in Seq(Decisions) /\ DOMAIN decs' = DOMAIN decs \cup {Len(decs) + 1}
        /\ decs'[Len(decs) + 1].kind = "exit"
        /\ AllTrue' /\ OpenedOnce' /\ Carries
        /\ \A i \in DOMAIN decs : decs[i].state \in InRun => decs'[i] = decs[i]
    BY <1>1, <1>2, NewClose
  <1>4. RowOf(trade, decs', opened)
    BY <1>0, <1>3, RowCarries DEF IInv
  <1>5. trade' \in Trades /\ RowOf(trade', decs', opened)
    <2> DEFINE r == [[trade EXCEPT !.state = "exit_pending"] EXCEPT !.exit = Len(decs) + 1, !.back = trade.state]
    <2>1. trade' = trade \/ trade' = r
      BY <1>0, MovesOf DEF ProposesExit
    <2>2. /\ r.state = "exit_pending" /\ r.exit = Len(decs) + 1 /\ r.ids = trade.ids /\ r.entry = trade.entry
          /\ r \in Trades
      BY <1>0 DEF Trades, Late
    <2>3. trade.state \in Late /\ r.state \notin Early
      BY <1>0, <2>2, Vocabulary DEF Late, Early
    <2> HIDE DEF r
    <2>4. RowOf(r, decs', opened)
      BY <1>3, <1>4, <2>2, <2>3 DEF RowOf
    <2>5. QED
      BY <1>0, <1>4, <2>1, <2>2, <2>4
  <1>6. QED
    BY <1>2, <1>3, <1>5, Grown

LEMMA ProposesEntryKeeps == ASSUME IInv, ProposesEntry PROVE IInv'
  <1> DEFINE new == Made("entry", {Entry})
  <1>0. /\ opened = {} /\ live = {} /\ trade.state \in {"none", "proposed"} /\ trade.ids = {} /\ trade.entry = 0
        /\ decs = <<>> /\ Len(decs) = 0 /\ trade \in Trades
    BY NothingYet DEF ProposesEntry, IInv, Typed
  <1>1. Offered(Decision("entry", {Entry})) /\ UNCHANGED <<live, opened, run, watched, snap>> /\ settled' = FALSE
    BY DEF ProposesEntry, broker
  <1>2. /\ new.kind = "entry" /\ DOMAIN new.leg = {Entry} /\ DOMAIN new.order = {Entry}
        /\ new.order[Entry] = "none" /\ new \in Decisions /\ RowsTrue(new, live) /\ StateTrue(new)
    <2>1. {Entry} \in SUBSET Nat
      BY DEF Entry
    <2>2. QED
      BY <2>1, NewDecision
  <1>3. new = [Decision("entry", {Entry}) EXCEPT !.state = "proposed"]
    BY DEF Made
  <1> HIDE DEF new
  <1>4. DecisionTrue(Len(decs) + 1, new, live, opened)
    BY <1>0, <1>2 DEF DecisionTrue, ScopedAs
  <1>5. /\ decs' \in Seq(Decisions) /\ DOMAIN decs' = DOMAIN decs \cup {Len(decs) + 1}
        /\ decs'[Len(decs) + 1] = new /\ AllTrue' /\ OpenedOnce'
        /\ \A i \in DOMAIN decs : decs[i].state \in InRun => decs'[i] = decs[i]
    BY <1>0, <1>1, <1>2, <1>3, <1>4, Appended
  <1>6. decs' # <<>> /\ decs'[1].kind = "entry"
    <2>1. 1 \in DOMAIN decs' /\ decs'[1] = new
      BY <1>0, <1>5
    <2>2. QED
      BY <1>2, <1>5, <2>1
  <1>7. trade' \in Trades /\ RowOf(trade', decs', opened)
    <2> DEFINE r == [trade EXCEPT !.state = "proposed", !.entry = 1]
    <2>1. trade' = trade \/ trade' = r
      BY DEF ProposesEntry
    <2>2. r.state = "proposed" /\ r.entry = 1 /\ r.ids = {} /\ r \in Trades
      BY <1>0 DEF Trades, Early
    <2> HIDE DEF r
    <2>3. trade'.state \in {"none", "proposed"} /\ trade'.ids = {} /\ trade' \in Trades
      BY <1>0, <2>1, <2>2
    <2>4. QED
      BY <1>6, <2>3, Vocabulary DEF RowOf, Late
  <1>8. QED
    BY <1>1, <1>5, <1>7, Grown

-----------------------------------------------------------------------------
(* The broker                                                               *)

(* What holds of a decision goes on holding when positions leave.               *)
LEMMA Leaves ==
    ASSUME NEW i, NEW d, NEW at, NEW ever, DecisionTrue(i, d, at, ever), NEW less \in SUBSET at
    PROVE  DecisionTrue(i, d, less, ever)
  BY DEF DecisionTrue, ScopedAs, RowsTrue, LegTrue

LEMMA ClosesAloneKeeps == ASSUME IInv, NEW p \in Positions, ClosesAlone(p) PROVE IInv'
  <1>1. live' \in SUBSET live /\ UNCHANGED <<trade, decs, opened, run, watched, snap, settled>>
    BY DEF ClosesAlone, locked
  <1>2. AllTrue'
    BY <1>1, Leaves DEF IInv, AllTrue
  <1>3. QED
    BY <1>1, <1>2 DEF IInv, Typed, RunTrue, OpenedOnce, Watched, Row

(* An order the broker still works on belongs to a row in doubt, or held.       *)
LEMMA Pending ==
    ASSUME IInv, NEW i \in DOMAIN decs, NEW l \in Legs(i), decs[i].order[l] \in {"working", "held"}
    PROVE  /\ decs[i].leg[l] \in Active \cup {"waiting_for_market"}
           /\ decs[i].state \notin (Dead \cup Finished) \ {"reviewed_no_action"}
  <1>1. LegTrue(decs[i], l, live) /\ StateTrue(decs[i]) /\ decs[i].leg[l] \in LegWords /\ l \in DOMAIN decs[i].leg
    BY DecisionTypes DEF IInv, AllTrue, DecisionTrue, RowsTrue, Legs
  <1>2. decs[i].leg[l] \in Active \cup {"waiting_for_market"}
    BY <1>1, Vocabulary DEF LegTrue, LegWords
  <1>3. QED
    BY <1>1, <1>2, Vocabulary DEF StateTrue, Unsent

(* The order of one leg moves: its decision is as true as its leg.              *)
LEMMA OrderMoves ==
    ASSUME IInv, NEW i \in DOMAIN decs, NEW l \in Legs(i), NEW o \in OrderWords,
           decs' = [decs EXCEPT ![i].order[l] = o]
    PROVE  /\ decs' \in Seq(Decisions) /\ DOMAIN decs' = DOMAIN decs
           /\ \A j \in DOMAIN decs : decs'[j].kind = decs[j].kind /\ decs'[j].state = decs[j].state
                                     /\ decs'[j].leg = decs[j].leg
           /\ \A j \in DOMAIN decs : j # i => decs'[j] = decs[j]
           /\ DOMAIN decs'[i].order = Legs(i) /\ decs'[i].order[l] = o
           /\ \A k \in Legs(i) : k # l => decs'[i].order[k] = decs[i].order[k]
  <1>1. /\ decs[i] \in Decisions /\ Legs(i) \in SUBSET Nat
        /\ decs[i].order \in [Legs(i) -> OrderWords] /\ decs \in Seq(Decisions)
    BY DecisionTypes DEF IInv, Typed, AllTrue, DecisionTrue, ScopedAs, Legs
  <1> DEFINE g == [decs[i].order EXCEPT ![l] = o]
             d == [decs[i] EXCEPT !.order = g]
  <1>2. decs' = [decs EXCEPT ![i] = d]
    BY <1>1 DEF Decisions
  <1>3. g \in [Legs(i) -> OrderWords] /\ g[l] = o /\ \A k \in Legs(i) : k # l => g[k] = decs[i].order[k]
    BY <1>1
  <1>4. g \in OrderMaps
    BY <1>1, <1>3 DEF OrderMaps
  <1>5. d \in Decisions /\ d.kind = decs[i].kind /\ d.state = decs[i].state /\ d.leg = decs[i].leg /\ d.order = g
    BY <1>1, <1>4 DEF Decisions
  <1> HIDE DEF g, d
  <1>6. decs' \in Seq(Decisions) /\ DOMAIN decs' = DOMAIN decs /\ decs'[i] = d
        /\ \A j \in DOMAIN decs : j # i => decs'[j] = decs[j]
    BY <1>1, <1>2, <1>5, SMTT(30)
  <1>7. QED
    BY <1>3, <1>5, <1>6

(* The entry is filled, held or refused.  It is the only decision, and nothing  *)
(* of the trade was ever at the broker.                                        *)
LEMMA EntryWorks ==
    ASSUME IInv, NEW i \in DOMAIN decs, NEW l \in Legs(i), Works(i, l), l = Entry
    PROVE  IInv'
  <1>1. /\ i = 1 /\ decs # <<>> /\ decs[1].kind = "entry" /\ Legs(1) = {Entry}
        /\ decs[1].order[Entry] \in {"working", "held"}
    BY EntryLeg DEF Works
  <1>2. PICK o \in {"done", "part", "refused", "held"} :
          /\ decs' = [decs EXCEPT ![i].order[l] = o]
          /\ opened' \in IF o \in {"done", "part"} THEN Fills ELSE {opened}
          /\ live' = IF o \in {"done", "part"} THEN opened' ELSE live
    BY <1>1 DEF Works
  <1>3. UNCHANGED <<trade, run, watched, snap, settled>>
    BY DEF Works, locked
  <1>4. opened = {} /\ live = {} /\ watched = {} /\ (snap = NoSnap \/ snap = {})
    BY <1>1 DEF IInv, Typed, OpenedOnce, EntryIs
  <1>5. DOMAIN decs = {1}
    <2>1. \A j \in DOMAIN decs : j = 1
      <3> SUFFICES ASSUME NEW j \in DOMAIN decs, j # 1 PROVE FALSE
        OBVIOUS
      <3>1. ScopedAs(j, decs[j], live, opened)
        BY DEF IInv, AllTrue, DecisionTrue
      <3>2. QED
        BY <1>4, <3>1 DEF ScopedAs
    <2>2. QED
      BY <1>1, <2>1 DEF IInv, Typed
  <1>6. /\ opened' \subseteq Positions /\ live' \subseteq opened'
        /\ (opened' # {} <=> o \in {"done", "part"})
    BY <1>2, <1>4, SwingBounds
  <1>7. /\ decs' \in Seq(Decisions) /\ DOMAIN decs' = {1} /\ decs' # <<>>
        /\ decs'[1].kind = "entry" /\ decs'[1].state = decs[1].state /\ decs'[1].leg = decs[1].leg
        /\ DOMAIN decs'[1].order = {Entry} /\ decs'[1].order[Entry] = o
    <2>1. o \in OrderWords /\ Entry \in Legs(1) /\ 1 \in DOMAIN decs
      BY <1>1, <1>5 DEF OrderWords
    <2>2. /\ decs' \in Seq(Decisions) /\ DOMAIN decs' = DOMAIN decs
          /\ decs'[i].kind = decs[i].kind /\ decs'[i].state = decs[i].state /\ decs'[i].leg = decs[i].leg
          /\ DOMAIN decs'[i].order = Legs(i) /\ decs'[i].order[l] = o
      <3>1. decs' = [decs EXCEPT ![i].order[l] = o] /\ o \in OrderWords
        BY <1>2, <2>1
      <3>2. QED
        BY <3>1, OrderMoves, ZenonT(60)
    <2>3. 1 \in DOMAIN decs'
      BY <2>1, <2>2
    <2>4. QED
      BY <1>1, <1>5, <2>2, <2>3
  <1>8. /\ decs[1].leg[Entry] \in Active \cup {"waiting_for_market"}
        /\ decs[1].state \notin (Dead \cup Finished) \ {"reviewed_no_action"}
    BY <1>1, <1>5, Pending
  <1>9. AllTrue'
    <2>1. ScopedAs(1, decs'[1], live', opened')
      BY <1>1, <1>7 DEF ScopedAs, Legs
    <2>2. RowsTrue(decs'[1], live')
      BY <1>1, <1>2, <1>7, <1>8, Vocabulary DEF RowsTrue, LegTrue, Legs
    <2>3. StateTrue(decs'[1])
      BY <1>5, <1>7 DEF StateTrue, IInv, AllTrue, DecisionTrue
    <2>4. QED
      BY <1>7, <2>1, <2>2, <2>3 DEF AllTrue, DecisionTrue
  <1>10. OpenedOnce'
    BY <1>6, <1>7 DEF OpenedOnce, EntryIs
  <1>11. Row'
    <2>1. trade.state \in Early /\ trade.ids = {} /\ trade.state # "exit_pending"
      BY <1>4, Vocabulary DEF IInv, Typed, Trades, Row, RowOf, Early, Late
    <2>2. trade.state = "missed" => trade.entry = 1 /\ decs[1].state = "reviewed_no_action"
      BY <1>8 DEF IInv, Row, RowOf
    <2>3. QED
      BY <1>3, <1>7, <2>1, <2>2, Vocabulary DEF Row, RowOf, Early, Late
  <1>12. RunTrue'
    BY <1>3, <1>5, <1>7 DEF IInv, RunTrue, NoRun
  <1>13. Typed' /\ Watched'
    BY <1>3, <1>4, <1>6, <1>7 DEF IInv, Typed, Watched
  <1>14. QED
    BY <1>9, <1>10, <1>11, <1>12, <1>13 DEF IInv

(* A close is filled, held or refused: positions only leave.                    *)
LEMMA CloseWorks ==
    ASSUME IInv, NEW i \in DOMAIN decs, NEW l \in Legs(i), Works(i, l), l # Entry
    PROVE  IInv'
  <1>1. PICK o \in {"done", "part", "refused", "held"} :
          /\ decs' = [decs EXCEPT ![i].order[l] = o] /\ o # "part"
          /\ live' = IF o = "done" THEN live \ {l} ELSE live
    BY DEF Works
  <1>2. UNCHANGED <<trade, opened, run, watched, snap, settled>> /\ live' \in SUBSET live
        /\ decs[i].order[l] \in {"working", "held"} /\ o \in OrderWords
    BY <1>1 DEF Works, locked, OrderWords
  <1>3. decs[i].kind # "entry" /\ DecisionTrue(i, decs[i], live, opened)
    BY EntryLeg DEF IInv, AllTrue, DecisionTrue
  <1>4. /\ decs' \in Seq(Decisions) /\ DOMAIN decs' = DOMAIN decs
        /\ \A j \in DOMAIN decs : decs'[j].kind = decs[j].kind /\ decs'[j].state = decs[j].state
                                  /\ decs'[j].leg = decs[j].leg
        /\ \A j \in DOMAIN decs : j # i => decs'[j] = decs[j]
        /\ DOMAIN decs'[i].order = Legs(i) /\ decs'[i].order[l] = o
        /\ \A k \in Legs(i) : k # l => decs'[i].order[k] = decs[i].order[k]
    BY <1>1, <1>2, OrderMoves, ZenonT(60)
  <1>5. /\ decs[i].leg[l] \in Active \cup {"waiting_for_market"}
        /\ decs[i].state \notin (Dead \cup Finished) \ {"reviewed_no_action"}
    BY <1>2, Pending
  <1>6. DecisionTrue(i, decs[i], live', opened)
    BY <1>2, <1>3, Leaves
  <1>7. DecisionTrue(i, decs'[i], live', opened)
    <2>1. ScopedAs(i, decs'[i], live', opened) /\ StateTrue(decs'[i])
      BY <1>4, <1>6 DEF DecisionTrue, ScopedAs, StateTrue, Legs
    <2>2. RowsTrue(decs'[i], live')
      <3> SUFFICES ASSUME NEW k \in Legs(i) PROVE LegTrue(decs'[i], k, live')
        BY <1>4 DEF RowsTrue, Legs
      <3>1. CASE k = l
        <4>1. /\ decs'[i].leg[l] \in Active \cup {"waiting_for_market"} /\ decs'[i].order[l] = o
              /\ o \in {"done", "refused", "held"} /\ (o = "done" => l \notin live')
          BY <1>1, <1>4, <1>5
        <4>2. LegTrue(decs'[i], l, live')
          BY <4>1, Vocabulary DEF LegTrue
        <4>3. QED
          BY <3>1, <4>2
      <3>2. CASE k # l
        BY <1>4, <1>6, <3>2 DEF DecisionTrue, RowsTrue, LegTrue, Legs
      <3>3. QED
        BY <3>1, <3>2
    <2>3. QED
      BY <2>1, <2>2 DEF DecisionTrue
  <1>8. AllTrue'
    <2> SUFFICES ASSUME NEW j \in DOMAIN decs PROVE DecisionTrue(j, decs'[j], live', opened)
      BY <1>2, <1>4 DEF AllTrue
    <2>1. CASE j = i
      BY <1>7, <2>1
    <2>2. CASE j # i
      BY <1>2, <1>4, <2>2, Leaves DEF IInv, AllTrue
    <2>3. QED
      BY <2>1, <2>2
  <1>9. Carries
    <2> SUFFICES ASSUME NEW j \in DOMAIN decs
                 PROVE  /\ j \in DOMAIN decs' /\ decs'[j].kind = decs[j].kind
                        /\ decs[j].state \in Dead \cup Finished => decs'[j].state = decs[j].state
                        /\ decs[j].state \in (Dead \cup Finished) \ {"reviewed_no_action"} =>
                              decs'[j].order = decs[j].order
      BY DEF Carries
    <2>1. QED
      BY <1>4, <1>5
  <1>10. OpenedOnce'
    <2>1. 1 \in DOMAIN decs /\ decs # <<>> /\ decs' # <<>>
      BY <1>4 DEF IInv, Typed
    <2>2. EntryIs(decs', {"done", "part"}) <=> EntryIs(decs, {"done", "part"})
      BY <1>3, <1>4, <2>1 DEF EntryIs
    <2>3. QED
      BY <1>2, <2>2 DEF IInv, OpenedOnce
  <1>11. Typed' /\ Watched'
    BY <1>2, <1>4 DEF IInv, Typed, Watched
  <1>12. Row'
    BY <1>2, <1>4, <1>9, RowCarries DEF IInv, Typed, Row
  <1>13. RunTrue'
    BY <1>2, <1>4 DEF IInv, RunTrue
  <1>14. QED
    BY <1>8, <1>10, <1>11, <1>12, <1>13 DEF IInv

-----------------------------------------------------------------------------
(* The invariant                                                            *)

LEMMA StepKeeps == ASSUME IInv, [Next]_vars PROVE IInv'
  <1>1. CASE CycleStep \/ ProposesFlatten
    BY <1>1, CycleKeeps, ProposesEntryKeeps, ProposesExitKeeps, ProposesFlattenKeeps DEF CycleStep
  <1>2. CASE Finishes \/ ExecutorDies \/ DiesInClose
    BY <1>2, FinishesKeeps, RunKeeps
  <1>3. CASE WatchReads \/ WatchJudges \/ WatchDies
    BY <1>3, WatchKeeps
  <1>4. CASE \E i \in DOMAIN decs : OperatorStep(i) \/ ExecutorStep(i) \/ WatchStep(i)
    <2>1. PICK i \in DOMAIN decs : OperatorStep(i) \/ ExecutorStep(i) \/ WatchStep(i)
      BY <1>4
    <2>2. CASE OperatorStep(i)
      BY <2>2, ApprovesKeeps, DeclinesKeeps, ResolvesKeeps DEF OperatorStep
    <2>3. CASE ExecutorStep(i)
      BY <2>3, RunKeeps, SendsKeeps, AcceptedKeeps, LearnsKeeps DEF ExecutorStep
    <2>4. CASE WatchStep(i)
      BY <2>4, WatchSettlesKeeps DEF WatchStep
    <2>5. QED
      BY <2>1, <2>2, <2>3, <2>4
  <1>5. CASE \E i \in DOMAIN decs : \E l \in Legs(i) : Works(i, l)
    BY <1>5, EntryWorks, CloseWorks
  <1>6. CASE \E p \in Positions : ClosesAlone(p)
    BY <1>6, ClosesAloneKeeps
  <1>7. CASE UNCHANGED vars
    BY <1>7 DEF vars, IInv, Typed, AllTrue, RunTrue, OpenedOnce, Watched, Row
  <1>8. QED
    BY <1>1, <1>2, <1>3, <1>4, <1>5, <1>6, <1>7 DEF Next

LEMMA InitIInv == ASSUME Init PROVE IInv
  <1>0. /\ opened \subseteq Positions /\ live = opened /\ watched = {} /\ run = NoRun /\ snap = NoSnap
        /\ settled = FALSE
    BY SwingBounds DEF Init
  <1>1. run \in [dec : Nat, sends : BOOLEAN] /\ RunTrue
    BY <1>0 DEF NoRun, RunTrue
  <1>2. CASE opened = {}
    <2>1. decs = <<>> /\ trade = NoTrade
      BY <1>2 DEF Init
    <2>2. NoTrade \in Trades
      BY DEF NoTrade, Trades, Early, Held
    <2>3. RowOf(NoTrade, decs, opened)
      BY Vocabulary DEF NoTrade, RowOf, Late
    <2>4. decs \in Seq(Decisions) /\ DOMAIN decs = {}
      BY <2>1
    <2>5. Typed /\ Watched
      BY <1>0, <1>1, <2>1, <2>2, <2>4 DEF Typed, Watched
    <2>6. AllTrue /\ OpenedOnce /\ Row
      BY <1>2, <2>1, <2>3, <2>4 DEF AllTrue, OpenedOnce, EntryIs, Row
    <2>7. QED
      BY <1>1, <2>5, <2>6 DEF IInv
  <1>3. CASE opened # {}
    <2> DEFINE d == [kind |-> "entry", state |-> "completed", leg |-> [l \in {Entry} |-> "filled"],
                     order |-> [l \in {Entry} |-> "done"]]
               t == [NoTrade EXCEPT !.state = "open", !.entry = 1, !.ids = opened]
    <2>1. decs = <<d>> /\ trade = t
      BY <1>3 DEF Init
    <2>2. [l \in {Entry} |-> "filled"] \in LegMaps /\ [l \in {Entry} |-> "done"] \in OrderMaps
      <3>1. {Entry} \in SUBSET Nat
        BY DEF Entry
      <3>2. [l \in {Entry} |-> "filled"] \in [{Entry} -> LegWords] /\ [l \in {Entry} |-> "done"] \in [{Entry} -> OrderWords]
        BY DEF LegWords, OrderWords
      <3>3. QED
        BY <3>1, <3>2 DEF LegMaps, OrderMaps
    <2>3. d \in Decisions /\ DOMAIN d.leg = {Entry} /\ DOMAIN d.order = {Entry} /\ d.kind = "entry"
          /\ d.state = "completed" /\ d.leg[Entry] = "filled" /\ d.order[Entry] = "done"
      BY <2>2 DEF Decisions, DecisionWords, Finished
    <2>4. t \in Trades /\ t.state = "open" /\ t.entry = 1 /\ t.ids = opened
      BY <1>0 DEF NoTrade, Trades, Late, Early, Held
    <2> HIDE DEF d, t
    <2>5. decs \in Seq(Decisions) /\ DOMAIN decs = {1} /\ decs[1] = d /\ decs # <<>>
      BY <2>1, <2>3
    <2>6. DecisionTrue(1, d, live, opened)
      BY <2>3, Vocabulary DEF DecisionTrue, ScopedAs, RowsTrue, LegTrue, StateTrue, Unsent
    <2>7. RowOf(t, decs, opened)
      BY <1>3, <2>3, <2>4, <2>5, Vocabulary DEF RowOf, Early
    <2>8. AllTrue /\ OpenedOnce
      BY <1>3, <2>3, <2>5, <2>6 DEF AllTrue, OpenedOnce, EntryIs
    <2>9. Row
      BY <2>1, <2>7 DEF Row
    <2>10. Typed /\ Watched
      BY <1>0, <1>1, <2>1, <2>4, <2>5 DEF Typed, Watched
    <2>11. QED
      BY <1>1, <2>8, <2>9, <2>10 DEF IInv
  <1>4. QED
    BY <1>2, <1>3

(* The rows of the ledger agree with the broker and with each other in every   *)
(* reachable state, whatever cycle, watch, executor and operator did (db.py,   *)
(* cycle.py settle_swing, executor.py _settle_swing, watch.py _swing_closed).  *)
THEOREM Inductive == Spec => []IInv
  <1>1. Init => IInv
    BY InitIInv
  <1>2. IInv /\ [Next]_vars => IInv'
    BY StepKeeps
  <1>3. QED
    BY <1>1, <1>2, PTL DEF Spec

-----------------------------------------------------------------------------
(* The properties                                                           *)

(* An exit or a flatten is wholly about the positions of the trade.             *)
LEMMA OwnAll ==
    ASSUME IInv, NEW i \in DOMAIN decs, decs[i].kind # "entry",
           NEW t \in Trades, RowOf(t, decs, opened), t.state \in Late
    PROVE  OwnLegs(t, i) = Legs(i) /\ Closes(i) = Legs(i) /\ Legs(i) # {} /\ live \subseteq Legs(i)
  <1>1. ScopedAs(i, decs[i], live, opened) /\ opened \subseteq Positions /\ t.ids = opened
    BY DEF IInv, Typed, AllTrue, DecisionTrue, RowOf
  <1>2. QED
    BY <1>1, Vocabulary DEF ScopedAs, OwnLegs, Closes, Legs

(* Once every close is filled, nothing is left.                                *)
LEMMA CloseGone ==
    ASSUME IInv, NEW i \in DOMAIN decs, NEW t \in Trades, RowOf(t, decs, opened), Closable(t, i)
    PROVE  live = {}
  <1>1. t.state \in Late
    BY ExitKeeps, Vocabulary DEF IInv, Late
  <1>2. decs[i].kind # "entry"
    <2>1. DecisionTrue(i, decs[i], live, opened)
      BY DEF IInv, AllTrue
    <2>2. QED
      BY <2>1 DEF Closable, OwnLegs, Closes, Legs, DecisionTrue, ScopedAs
  <1>3. \A l \in Legs(i) : decs[i].leg[l] = "filled" /\ l # Entry
    BY <1>1, <1>2, OwnAll DEF Closable, Closes
  <1>4. RowsTrue(decs[i], live)
    BY DEF IInv, AllTrue, DecisionTrue
  <1>5. QED
    BY <1>1, <1>2, <1>3, <1>4, OwnAll DEF RowsTrue, LegTrue, Legs

(* A trade that settle_swing records as missed has, and can get, no position,   *)
(* for any fills and any number of decisions.                                  *)
THEOREM MissedTruly == Spec => []MissedMeansNothing
  <1>1. IInv => MissedMeansNothing
    <2> SUFFICES ASSUME IInv, trade.state = "missed", decs[trade.entry].state # "reviewed_no_action"
                 PROVE  opened = {} /\ decs[trade.entry].order[Entry] \in {"none", "refused"}
      BY DEF MissedMeansNothing
    <2>1. trade.entry = 1 /\ EntryIs(decs, {"none", "refused"})
      BY DEF IInv, Row, RowOf
    <2>2. QED
      BY <2>1 DEF EntryIs, IInv, OpenedOnce
  <1>2. QED
    BY <1>1, Inductive, PTL

(* An exit that is over is settled by the next cycle (_settle_exit), unless     *)
(* some of its closes were filled and others were not.                         *)
THEOREM ExitsSettle == Spec => []OverExitSettles
  <1>1. IInv => OverExitSettles
    <2> DEFINE i == trade.exit
    <2> SUFFICES ASSUME IInv, trade.state = "exit_pending", decs[i].state \in Dead \cup Finished
                 PROVE  \/ Closable(trade, i) \/ ExitOver(trade)
                        \/ \E l, k \in Closes(i) : decs[i].leg[l] = "filled" /\ decs[i].leg[k] # "filled"
      BY DEF OverExitSettles
    <2>1. trade \in Trades /\ RowOf(trade, decs, opened) /\ trade.state \in Late
      BY DEF IInv, Typed, Row, Late
    <2>2. i \in DOMAIN decs /\ decs[i].kind # "entry"
      BY <2>1 DEF RowOf
    <2>3. OwnLegs(trade, i) = Legs(i) /\ Closes(i) = Legs(i) /\ Legs(i) # {}
      BY <2>1, <2>2, OwnAll
    <2>4. CASE decs[i].state \in Dead
      BY <2>4 DEF ExitOver
    <2>5. CASE decs[i].state \in Finished
      <3>1. StateTrue(decs[i]) /\ RowsTrue(decs[i], live) /\ decs[i].leg \in [Legs(i) -> LegWords]
        BY <2>2, DecisionTypes DEF IInv, AllTrue, DecisionTrue
      <3>2. \A l \in Legs(i) : l # Entry
        BY <2>3 DEF Closes
      <3>3. \A l \in Legs(i) : decs[i].leg[l] \in {"filled", "rejected", "skipped"}
        <4> SUFFICES ASSUME NEW l \in Legs(i) PROVE decs[i].leg[l] \in {"filled", "rejected", "skipped"}
          OBVIOUS
        <4>1. decs[i].leg[l] \in LegWords \ (Active \cup {"planned", "waiting_for_market"})
          BY <2>5, <3>1 DEF StateTrue, Legs
        <4>2. decs[i].leg[l] # "partially_filled"
          BY <3>1, <3>2 DEF RowsTrue, LegTrue, Legs
        <4>3. QED
          BY <4>1, <4>2, Vocabulary DEF LegWords
      <3>4. CASE \A l \in Legs(i) : decs[i].leg[l] = "filled"
        BY <2>3, <3>4, Vocabulary DEF Closable
      <3>5. CASE \A l \in Legs(i) : decs[i].leg[l] # "filled"
        BY <2>3, <2>5, <3>3, <3>5 DEF ExitOver
      <3>6. QED
        BY <2>3, <3>4, <3>5
    <2>6. QED
      BY <2>4, <2>5
  <1>2. QED
    BY <1>1, Inductive, PTL

Shut == BrokerCloses \cup OwnCloses

LEMMA ShutWords == Shut = {"closed_broker", "closed_own"} /\ Shut \subseteq Terminal
  BY DEF Shut, BrokerCloses, OwnCloses, Terminal

(* Settling the row, a fill or a run shuts a trade only when nothing is left.   *)
LEMMA SettledGone ==
    ASSUME IInv, trade.state \notin Terminal, SettledRow(trade).state \in Shut
    PROVE  live = {}
  <1>0. trade \in Trades /\ RowOf(trade, decs, opened)
    BY DEF IInv, Typed, Row
  <1>1. CASE trade.state = "proposed"
    <2>1. SettledRow(trade).state \in {"proposed", "missed"}
      BY <1>0, <1>1, MovesOf DEF SettledRow, Trades
    <2>2. QED
      BY <2>1, ShutWords
  <1>2. CASE trade.state = "exit_pending" /\ trade.exit # 0
    <2>1. CASE Closable(trade, trade.exit)
      BY <1>0, <1>2, <2>1, CloseGone DEF RowOf
    <2>2. CASE ~Closable(trade, trade.exit)
      <3>1. SettledRow(trade).state \in Held \cup {"exit_pending"}
        BY <1>0, <1>2, <2>2, MovesOf DEF SettledRow, Trades
      <3>2. QED
        BY <3>1, ShutWords, Vocabulary
    <2>3. QED
      BY <2>1, <2>2
  <1>3. CASE trade.state # "proposed" /\ ~(trade.state = "exit_pending" /\ trade.exit # 0)
    BY <1>3, ShutWords DEF SettledRow
  <1>4. QED
    BY <1>1, <1>2, <1>3

LEMMA SettleGone ==
    ASSUME IInv, NEW i \in DOMAIN decs, NEW tp \in BOOLEAN, trade.state \notin Terminal,
           Settle(trade, i, tp).state \in Shut
    PROVE  live = {}
  <1>0. trade \in Trades /\ RowOf(trade, decs, opened) /\ Typed
    BY DEF IInv, Typed, Row
  <1>1. CASE decs[i].kind = "entry"
    <2>1. CASE decs[i].leg[Entry] \notin Filled
      BY <1>1, <2>1, ShutWords DEF Settle
    <2>2. CASE decs[i].leg[Entry] \in Filled
      <3> DEFINE r == Recorded(trade, i, decs[i].leg[Entry])
      <3>1. r \in Trades /\ r.state \notin Shut
        <4>1. i = 1 /\ decs # <<>> /\ decs[1].kind = "entry" /\ Entry \in DOMAIN decs[1].leg
          BY <1>1, EntryLeg DEF Legs
        <4>2. LegTrue(decs[1], Entry, live)
          BY <4>1 DEF IInv, AllTrue, DecisionTrue, RowsTrue
        <4>3. opened # {}
          BY <2>2, <4>1, <4>2 DEF LegTrue, IInv, OpenedOnce, EntryIs
        <4>4. r \in Trades /\ (r.state \in Shut => r = trade)
          BY <1>0, <2>2, <4>1, <4>3, RecordedKeeps DEF Shut
        <4>5. QED
          BY <4>4, ShutWords
      <3> HIDE DEF r
      <3>2. Moved(r, "open_tp_missing").state \notin Shut
        BY <3>1, MovesOf, ShutWords DEF Trades
      <3>3. QED
        BY <1>1, <2>2, <3>1, <3>2 DEF Settle, r
    <2>3. QED
      BY <2>1, <2>2
  <1>2. CASE decs[i].kind # "entry"
    <2>1. CASE Closable(trade, i)
      BY <1>0, <2>1, CloseGone
    <2>2. CASE ~Closable(trade, i)
      BY <1>2, <2>2, ShutWords DEF Settle, Closed
    <2>3. QED
      BY <2>1, <2>2
  <1>3. QED
    BY <1>1, <1>2

(* A broker close seen by the watch: the whole trade is gone.                   *)
LEMMA JudgedGone ==
    ASSUME IInv, WatchJudges, trade.state \notin Terminal, trade'.state \in Shut
    PROVE  trade.ids \cap live = {}
  <1>1. Vanished \cap trade.ids # {} /\ Gone(trade)
    BY ShutWords DEF WatchJudges
  <1>2. live \subseteq snap
    BY <1>1 DEF Vanished, WatchJudges, IInv, Watched
  <1>3. QED
    BY <1>1, <1>2 DEF Gone

(* Nobody but the approval records a close while a position is open:           *)
(* close_filled_exit, settle_swing and the watch all wait for the last one.    *)
THEOREM ClosedTruly == Spec => ClosesWhenGone
  <1>1. ASSUME IInv, [Next]_vars, trade.state \notin Terminal, trade'.state \in Shut
        PROVE  trade.ids \cap live = {} \/ \E i \in DOMAIN decs : Approves(i)
    <2>0. trade \in Trades /\ Typed /\ AllTrue /\ RowOf(trade, decs, opened) /\ trade'.state # trade.state
      BY <1>1, ShutWords DEF IInv, Typed, Row
    <2>1. CASE CycleStep \/ ProposesFlatten
      <3>1. CASE CycleSettles
        BY <1>1, <3>1, SettledGone DEF CycleSettles
      <3>2. CASE ProposesEntry
        <4>1. trade'.state \in {trade.state, "proposed"}
          BY <2>0, <3>2 DEF ProposesEntry, Trades
        <4>2. QED
          BY <1>1, <4>1, ShutWords
      <3>3. CASE ProposesExit
        <4> DEFINE m == Moved(trade, "exit_pending")
        <4>1. m.state \in {trade.state, "exit_pending"} /\ m \in Trades
          BY <2>0, MovesOf DEF Trades, Late
        <4>2. trade' = trade \/ trade' = [m EXCEPT !.exit = Len(decs) + 1, !.back = trade.state]
          BY <3>3 DEF ProposesExit
        <4> HIDE DEF m
        <4>3. trade'.state \in {trade.state, "exit_pending"}
          BY <4>1, <4>2 DEF Trades
        <4>4. QED
          BY <1>1, <4>3, ShutWords
      <3>4. CASE CycleEnds \/ ProposesFlatten
        BY <2>0, <3>4 DEF CycleEnds, ProposesFlatten
      <3>5. QED
        BY <2>1, <3>1, <3>2, <3>3, <3>4 DEF CycleStep
    <2>2. CASE Finishes \/ ExecutorDies \/ DiesInClose
      <3>1. CASE Finishes
        <4>1. run.dec \in DOMAIN decs
          BY <1>1, <3>1 DEF Finishes, IInv, RunTrue
        <4>2. PICK tp \in BOOLEAN : trade' = Settle(trade, run.dec, tp)
          BY <3>1 DEF Finishes
        <4>3. QED
          BY <1>1, <4>1, <4>2, SettleGone
      <3>2. CASE DiesInClose
        <4>1. trade'.state = "exit_pending"
          BY <1>1, <2>0, <3>2, ExitKeeps DEF DiesInClose, IInv, RunTrue
        <4>2. QED
          BY <1>1, <4>1, ShutWords
      <3>3. CASE ExecutorDies
        BY <2>0, <3>3 DEF ExecutorDies
      <3>4. QED
        BY <2>2, <3>1, <3>2, <3>3
    <2>3. CASE WatchReads \/ WatchJudges \/ WatchDies
      BY <1>1, <2>0, <2>3, JudgedGone DEF WatchReads, WatchDies
    <2>4. CASE \E i \in DOMAIN decs : OperatorStep(i) \/ ExecutorStep(i) \/ WatchStep(i)
      <3>1. PICK i \in DOMAIN decs : OperatorStep(i) \/ ExecutorStep(i) \/ WatchStep(i)
        BY <2>4
      <3>2. CASE Approves(i)
        BY <3>2
      <3>3. CASE \E l \in Legs(i) : Learns(i, l)
        <4>1. PICK l \in Legs(i) : Learns(i, l)
          BY <3>3
        <4>2. PICK s \in Answer(i, l) : trade' = IF l = Entry /\ s \in Filled THEN Recorded(trade, i, s) ELSE trade
          BY <4>1 DEF Learns
        <4>3. l = Entry /\ s \in Filled /\ trade' = Recorded(trade, i, s)
          BY <2>0, <4>2
        <4>4. i = 1 /\ decs # <<>> /\ decs[1].kind = "entry" /\ LegTrue(decs[1], Entry, live)
              /\ decs[1].order[Entry] \in OrderWords
          BY <1>1, <4>3, EntryLeg, DecisionTypes DEF IInv, AllTrue, DecisionTrue, ScopedAs, RowsTrue, Legs
        <4>5. decs[1].order[Entry] \in {"done", "part"}
          BY <4>2, <4>3, <4>4, Vocabulary DEF Answer, OrderWords
        <4>6. opened # {}
          BY <1>1, <4>4, <4>5 DEF IInv, OpenedOnce, EntryIs
        <4>7. trade' = trade
          BY <1>1, <2>0, <4>3, <4>4, <4>6, RecordedKeeps DEF Shut
        <4>8. QED
          BY <2>0, <4>7
      <3>4. CASE Declines(i) \/ Reviews(i) \/ Resolves(i) \/ Resumes(i) \/ WatchSettles(i)
                 \/ \E l \in Legs(i) : Sends(i, l) \/ Accepted(i, l)
        <4>1. trade' = trade
          BY <3>4 DEF Declines, Reviews, Resolves, Resumes, WatchSettles, Sends, Accepted
        <4>2. QED
          BY <2>0, <4>1
      <3>5. QED
        BY <3>1, <3>2, <3>3, <3>4 DEF OperatorStep, ExecutorStep, WatchStep
    <2>5. CASE \E i \in DOMAIN decs : \E l \in Legs(i) : Works(i, l)
      BY <2>0, <2>5 DEF Works
    <2>6. CASE \E p \in Positions : ClosesAlone(p)
      BY <2>0, <2>6 DEF ClosesAlone
    <2>7. CASE UNCHANGED vars
      BY <2>0, <2>7 DEF vars
    <2>8. QED
      BY <1>1, <2>1, <2>2, <2>3, <2>4, <2>5, <2>6, <2>7 DEF Next
  <1>2. IInv /\ [Next]_vars =>
          [trade.state \notin Terminal /\ trade'.state \in BrokerCloses \cup OwnCloses
             => trade.ids \cap live = {} \/ \E i \in DOMAIN decs : Approves(i)]_vars
    BY <1>1 DEF Shut
  <1>3. QED
    BY <1>2, Inductive, PTL DEF Spec, ClosesWhenGone

-----------------------------------------------------------------------------
(* Only the run finishes the decision it holds.                                *)
LEMMA RunAloneFinishes ==
    ASSUME IInv, [Next]_vars, NEW i \in DOMAIN decs, run.dec = i, decs'[i].state \in Finished
    PROVE  Finishes
  <1>0. decs[i].state \in InRun /\ decs[i].state \notin Finished /\ decs \in Seq(Decisions)
        /\ run # NoRun /\ decs'[i] # decs[i]
    BY InTheRun, Vocabulary DEF InRun, IInv, Typed
  <1>1. CASE CycleStep \/ ProposesFlatten
    <2>1. CASE \E d : Offered(d)
      <3>1. decs'[i] = decs[i]
        BY <1>0, <2>1 DEF Offered, InRun
      <3>2. QED
        BY <1>0, <3>1
    <2>2. CASE CycleSettles \/ CycleEnds
      BY <1>0, <2>2 DEF CycleSettles, CycleEnds
    <2>3. QED
      BY <1>1, <2>1, <2>2 DEF CycleStep, ProposesEntry, ProposesExit, ProposesFlatten
  <1>2. CASE Finishes
    BY <1>2
  <1>3. CASE ExecutorDies \/ DiesInClose \/ WatchReads \/ WatchJudges \/ WatchDies
             \/ (\E p \in Positions : ClosesAlone(p)) \/ UNCHANGED vars
    BY <1>0, <1>3 DEF ExecutorDies, DiesInClose, WatchReads, WatchJudges, WatchDies, ClosesAlone, vars
  <1>4. CASE \E j \in DOMAIN decs : OperatorStep(j) \/ ExecutorStep(j) \/ WatchStep(j)
                                    \/ \E l \in Legs(j) : Works(j, l)
    <2>1. PICK j \in DOMAIN decs : OperatorStep(j) \/ ExecutorStep(j) \/ WatchStep(j)
                                   \/ \E l \in Legs(j) : Works(j, l)
      BY <1>4
    <2>2. decs[i] \in Decisions /\ decs[j] \in Decisions
      BY <1>0
    <2>3. CASE Approves(j)
      BY <1>0, <2>3 DEF Approves
    <2>4. CASE Declines(j) \/ Reviews(j)
      <3>1. PICK s \in {"rejected", "expired", "reviewed_no_action"} : decs' = [decs EXCEPT ![j].state = s]
        BY <2>4 DEF Declines, Reviews, DecisionIs
      <3>2. decs'[i] = IF i = j THEN [decs[i] EXCEPT !.state = s] ELSE decs[i]
        BY <1>0, <3>1
      <3>3. QED
        BY <1>0, <2>2, <3>2, Vocabulary DEF Decisions
    <2>5. CASE Resolves(j)
      <3>1. decs[j].state \in {"waiting_for_market", "blocked"}
            /\ \E f : decs' = [decs EXCEPT ![j].state = "reviewed_no_action", ![j].leg = f]
        BY <2>5 DEF Resolves
      <3>2. i = j => decs'[i].state = "reviewed_no_action"
        BY <1>0, <2>2, <3>1 DEF Decisions
      <3>3. i # j => decs'[i] = decs[i]
        BY <1>0, <3>1
      <3>4. QED
        BY <1>0, <3>2, <3>3, Vocabulary
    <2>6. CASE WatchSettles(j)
      <3>1. decs[j].state = "waiting_for_market"
            /\ \E s, f : decs' = [decs EXCEPT ![j].state = s, ![j].leg = f]
        BY <2>6 DEF WatchSettles
      <3>2. i # j
        BY <1>0, <3>1 DEF InRun
      <3>3. decs'[i] = decs[i]
        BY <1>0, <3>1, <3>2
      <3>4. QED
        BY <1>0, <3>3
    <2>7. CASE Resumes(j)
      BY <1>0, <2>7 DEF Resumes
    <2>8. CASE \E l \in Legs(j) : Sends(j, l) \/ Accepted(j, l) \/ Learns(j, l) \/ Works(j, l)
      <3>1. PICK l \in Legs(j) : Sends(j, l) \/ Accepted(j, l) \/ Learns(j, l) \/ Works(j, l)
        BY <2>8
      <3>2. CASE Sends(j, l)
        <4>1. PICK o : decs' = [decs EXCEPT ![j].leg[l] = "submitting", ![j].order[l] = o]
          BY <3>2 DEF Sends
        <4>2. decs'[i].state = decs[i].state
          BY <1>0, <2>2, <4>1 DEF Decisions
        <4>3. QED
          BY <1>0, <4>2
      <3>3. CASE Accepted(j, l) \/ Learns(j, l)
        <4>1. PICK s : decs' = [decs EXCEPT ![j].leg[l] = s]
          BY <3>3 DEF Accepted, Learns, LegIs
        <4>2. decs'[i].state = decs[i].state
          BY <1>0, <2>2, <4>1 DEF Decisions
        <4>3. QED
          BY <1>0, <4>2
      <3>4. CASE Works(j, l)
        <4>1. PICK o : decs' = [decs EXCEPT ![j].order[l] = o]
          BY <3>4 DEF Works
        <4>2. decs'[i].state = decs[i].state
          BY <1>0, <2>2, <4>1 DEF Decisions
        <4>3. QED
          BY <1>0, <4>2
      <3>5. QED
        BY <3>1, <3>2, <3>3, <3>4
    <2>9. QED
      BY <2>1, <2>3, <2>4, <2>5, <2>6, <2>7, <2>8 DEF OperatorStep, ExecutorStep, WatchStep
  <1>5. QED
    BY <1>1, <1>2, <1>3, <1>4 DEF Next

(* An entry that an executor run finishes as filled is on record in the ledger, *)
(* with every position its order opened (_settle_swing, record_swing_fill).    *)
THEOREM FillsRecorded == Spec => FilledIsTraded
  <1> DEFINE P(i) == /\ run.dec = i /\ decs[i].kind = "entry" /\ decs[i].state \notin Finished
                     /\ decs'[i].state \in Finished /\ decs'[i].leg[Entry] \in Filled
                     => /\ trade'.state \notin {"none", "proposed", "entry_executing", "missed"}
                        /\ opened \subseteq trade'.ids
  <1>1. ASSUME IInv, [Next]_vars, NEW i \in DOMAIN decs, run.dec = i, decs[i].kind = "entry",
               decs'[i].state \in Finished, decs'[i].leg[Entry] \in Filled
        PROVE  /\ trade'.state \notin {"none", "proposed", "entry_executing", "missed"}
               /\ opened \subseteq trade'.ids
    <2>1. Finishes /\ decs[i].state \in InRun
      BY <1>1, RunAloneFinishes, InTheRun
    <2>2. PICK s \in Final(i) \cup {decs[i].state} :
            decs' = [decs EXCEPT ![i].state = s,
                                 ![i].leg = [l \in Legs(i) |-> IF @[l] = "planned" THEN "skipped" ELSE @[l]]]
      BY <1>1, <2>1 DEF Finishes
    <2>3. PICK tp \in BOOLEAN : trade' = Settle(trade, i, tp)
      BY <1>1, <2>1 DEF Finishes
    <2>4. /\ i = 1 /\ decs # <<>> /\ decs[1].kind = "entry" /\ Legs(1) = {Entry} /\ decs \in Seq(Decisions)
          /\ decs[1] \in Decisions /\ LegTrue(decs[1], Entry, live)
      BY <1>1, EntryLeg, DecisionTypes DEF IInv, Typed, AllTrue, DecisionTrue, RowsTrue, Legs
    <2>5. decs'[1].state = s /\ decs'[1].leg[Entry] = IF decs[1].leg[Entry] = "planned" THEN "skipped" ELSE decs[1].leg[Entry]
      BY <1>1, <2>2, <2>4 DEF Decisions
    <2>6. decs[1].leg[Entry] \in Filled /\ s \in Finished
      BY <1>1, <2>4, <2>5, Vocabulary
    <2>7. decs[1].state # "reviewed_no_action" /\ decs[1].state \notin Finished
      BY <1>1, <2>1, <2>4, <2>6, FinalOf, Vocabulary DEF InRun
    <2>8. opened # {} /\ decs[1].order[Entry] \in {"done", "part"}
      BY <1>1, <2>4, <2>6 DEF LegTrue, IInv, OpenedOnce, EntryIs
    <2>9. trade \in Trades /\ RowOf(trade, decs, opened) /\ Typed
      BY <1>1 DEF IInv, Typed, Row
    <2>10. trade.state # "missed"
      BY <2>1, <2>4, <2>7, <2>8, <2>9, Vocabulary DEF RowOf, EntryIs, InRun
    <2> DEFINE r == Recorded(trade, 1, decs[1].leg[Entry])
    <2>11. r \in Trades /\ RowOf(r, decs, opened) /\ r.state \in Late \cup {"missed"} /\ r.state # "missed"
      BY <2>4, <2>6, <2>8, <2>9, <2>10, RecordedKeeps
    <2> HIDE DEF r
    <2>12. r.ids = opened /\ r.state \in Late
      BY <2>11 DEF RowOf
    <2>13. Moved(r, "open_tp_missing").ids = opened /\ Moved(r, "open_tp_missing").state \in Late
      BY <2>11, <2>12, MovesOf, Vocabulary DEF Trades, Late
    <2>14. trade' = r \/ trade' = Moved(r, "open_tp_missing")
      BY <1>1, <2>3, <2>4, <2>6 DEF Settle, r
    <2>15. QED
      BY <2>12, <2>13, <2>14, Vocabulary DEF Late
  <1>2. IInv /\ [Next]_vars => [\A i \in DOMAIN decs : P(i)]_vars
    BY <1>1
  <1>3. QED
    BY <1>2, Inductive, PTL DEF Spec, FilledIsTraded
=============================================================================
