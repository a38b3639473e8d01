------------------------------ MODULE CycleProofs ------------------------------
(***************************************************************************)
(* Theorems about Cycle, for any lines, any stock sleeve and any number of  *)
(* slots, about the swing book inside it, for any tickers, bounds and      *)
(* pauses, and about the deliberation it asks for its target (Council), for *)
(* any lines, replicates and market.  The theorems of Cycle rest on what    *)
(* the place of the running cycle says of the decision of its slot: how     *)
(* much of it is stored, and that it was opened before evidence is          *)
(* consumed.  Those of the book count an entry from its admission on, and   *)
(* rest on nothing being on offer while a cycle runs and on no loaded set   *)
(* of pauses missing one that is on.                                        *)
(***************************************************************************)
EXTENDS SwingBook, Council, DataInduction, FiniteSetTheorems, TLAPS

Rows == [state : DecisionStates \cup {Absent, "over"}, kind : Kinds \cup {Absent},
         legs : BOOLEAN, scope : {"all", "satellite"}]

Runs == [at : {"idle", "read", "evaluate", "decide", "legs", "record", "publish", "consume"},
         halted : BOOLEAN, can : SUBSET Lines, legs : SUBSET Lines, kind : Kinds \cup {Absent}]

Typed ==
    /\ slot \in Slots /\ recorded \subseteq Slots
    /\ dec \in [Slots -> Rows]
    /\ run \in Runs

Beyond == {"proposed", "executing", "waiting_for_market"}

(* How much of the decision the running cycle has stored.                      *)
Stored ==
    /\ run.at = "record" /\ run.kind # Absent /\ dec[slot].state = "awaiting_publication"
          => dec[slot].legs
    /\ run.at = "publish" =>
          slot \in recorded /\ (dec[slot].state = "awaiting_publication" => dec[slot].legs)

(* Evidence is consumed behind an opened proposal.                             *)
Opened == run.at = "consume" => dec[slot].state \notin {Absent, "awaiting_publication"}

IInv == Typed /\ Stored /\ Opened /\ OfferIsComplete

-----------------------------------------------------------------------------
(* The words of the ledger that this module compares with each other.          *)
LEMMA Vocabulary ==
    /\ DecisionStates = {"awaiting_publication", "proposed", "approved", "executing",
          "execution_unknown", "waiting_for_market", "blocked", "completed", "completed_partial",
          "rejected", "expired", "superseded", "reviewed_no_action"}
    /\ PendingStates = {"awaiting_publication", "proposed"}
    /\ Kinds = {"flatten", "compliance", "rebalance", "smoke"}
    /\ Absent = "absent"
  BY DEF DecisionStates, PendingStates, TerminalStates, Kinds, Absent

LEMMA RowTypes == NoDecision \in Rows /\ Over \in Rows
  BY Vocabulary DEF NoDecision, Over, Rows

(* Before the first slot nothing is stored and no cycle runs.                  *)
LEMMA Starting == Init => IInv
  <1> SUFFICES ASSUME Init PROVE IInv
    OBVIOUS
  <1>1. Typed
    BY CycleAssumption, Vocabulary, RowTypes DEF Init, Typed, Slots, Runs, Idle
  <1>2. Stored /\ Opened
    BY DEF Init, Stored, Opened, Idle
  <1>3. OfferIsComplete
    BY Vocabulary DEF Init, OfferIsComplete, NoDecision
  <1>4. QED
    BY <1>1, <1>2, <1>3 DEF IInv

(* A step that leaves slot, records and decisions alone and only moves the run  *)
(* to a place that claims nothing new.                                         *)
LEMMA RunMoves ==
    ASSUME IInv, UNCHANGED <<slot, dec>>, recorded' \in {recorded, recorded \cup {slot}}, run' \in Runs,
           run'.at \notin {"publish", "consume"},
           run'.at = "record" => run'.kind = Absent
    PROVE  IInv'
  <1>1. Typed'
    BY DEF IInv, Typed
  <1>2. Stored' /\ Opened'
    BY DEF Stored, Opened
  <1>3. OfferIsComplete'
    BY DEF IInv, OfferIsComplete
  <1>4. QED
    BY <1>1, <1>2, <1>3 DEF IInv

(* The row of one slot becomes over, or moves on with the legs it has: what     *)
(* expiry, supersession, the operator and the executor do to decisions.        *)
LEMMA RowsMove ==
    ASSUME IInv, UNCHANGED <<slot, recorded, run>>, dec' \in [Slots -> Rows],
           \A s \in Slots :
              \/ dec'[s] = dec[s]
              \/ dec'[s] = Over
              \/ dec[s].state \in Beyond /\ dec'[s].state \in Beyond /\ dec'[s].legs = dec[s].legs
    PROVE  IInv'
  <1>1. Typed'
    BY DEF IInv, Typed
  <1>2. Over.state = "over"
    BY DEF Over, NoDecision
  <1>3. Stored' /\ Opened'
    BY <1>2, Vocabulary DEF IInv, Typed, Stored, Opened, Beyond
  <1>4. OfferIsComplete'
    BY <1>2 DEF IInv, OfferIsComplete, Beyond
  <1>5. QED
    BY <1>1, <1>3, <1>4 DEF IInv

-----------------------------------------------------------------------------
(* One lemma an action of the cycle.                                           *)

LEMMA StartsKeeps == ASSUME IInv, Starts PROVE IInv'
  <1>1. run' \in Runs /\ run'.at = "read"
    BY Vocabulary DEF Starts, Idle, Runs
  <1>2. dec' = Expired /\ dec' \in [Slots -> Rows] /\ UNCHANGED <<slot, recorded>>
    BY RowTypes DEF Starts, Expired, IInv, Typed
  <1>3. \A s \in Slots : dec'[s] \in {dec[s], Over}
    BY <1>2 DEF Expired
  <1>4. Typed'
    BY <1>1, <1>2 DEF IInv, Typed
  <1>5. Stored' /\ Opened'
    BY <1>1 DEF Stored, Opened
  <1>6. OfferIsComplete'
    BY <1>2, <1>3 DEF IInv, OfferIsComplete, Over, NoDecision
  <1>7. QED
    BY <1>4, <1>5, <1>6 DEF IInv

LEMMA QuietKeeps == ASSUME IInv, Skips \/ Reads \/ Evaluates \/ Dies PROVE IInv'
  <1>0. Idle \in Runs
    BY Vocabulary DEF Idle, Runs
  <1>1. CASE Skips
    BY <1>0, <1>1, RunMoves DEF Skips, Idle
  <1>2. CASE Reads
    <2>1. run' \in Runs /\ run'.at = "evaluate"
      BY <1>2 DEF Reads, IInv, Typed, Runs
    <2>2. QED
      BY <1>2, <2>1, RunMoves DEF Reads, ledger
  <1>3. CASE Evaluates
    <2>1. PICK legs \in SUBSET ((run.can \ Held) \cap Changed), kind \in {"rebalance", "compliance", Absent} :
             run' = [run EXCEPT !.at = "decide",
                        !.legs = IF run.halted \/ kind # "rebalance" THEN {} ELSE legs,
                        !.kind = IF run.halted THEN "flatten"
                                 ELSE IF Held = Lines THEN Absent ELSE kind]
      BY <1>3 DEF Evaluates
    <2>2. legs \in SUBSET Lines /\ kind \in Kinds \cup {Absent} /\ "flatten" \in Kinds
      BY Vocabulary DEF Changed
    <2>3. run' \in Runs /\ run'.at = "decide"
      BY <2>1, <2>2 DEF IInv, Typed, Runs
    <2>4. QED
      BY <1>3, <2>3, RunMoves DEF Evaluates, ledger
  <1>4. CASE Dies
    BY <1>0, <1>4, RunMoves DEF Dies, Idle, ledger
  <1>5. QED
    BY <1>1, <1>2, <1>3, <1>4

LEMMA DecidesKeeps == ASSUME IInv, Decides PROVE IInv'
  <1>0. Idle \in Runs /\ [run EXCEPT !.at = "record"] \in Runs /\ [run EXCEPT !.at = "legs"] \in Runs
    BY Vocabulary DEF Idle, Runs, IInv, Typed
  <1>1. CASE run.kind = Absent
    <2>1. run' = [run EXCEPT !.at = "record"] /\ run'.at = "record" /\ run'.kind = Absent
      BY <1>1 DEF Decides, IInv, Typed, Runs
    <2>2. QED
      BY <1>0, <1>1, <2>1, RunMoves DEF Decides
  <1>2. CASE run.kind # Absent /\ \E s \in Pending : Priority[dec[s].kind] > Priority[run.kind]
    <2>1. run' = Idle /\ UNCHANGED <<slot, recorded, dec>>
      BY <1>2, Zenon DEF Decides
    <2>2. QED
      BY <1>0, <2>1, RunMoves DEF Idle
  <1>3. CASE run.kind # Absent /\ ~\E s \in Pending : Priority[dec[s].kind] > Priority[run.kind]
    <2> DEFINE New == [state |-> "awaiting_publication", kind |-> run.kind, legs |-> FALSE, scope |-> "all"]
    <2>1. New \in Rows
      BY Vocabulary DEF Rows, IInv, Typed, Runs
    <2>2. /\ dec' = [s \in Slots |-> IF s = slot THEN New ELSE IF s \in Pending THEN Over ELSE dec[s]]
          /\ run' = [run EXCEPT !.at = "legs"] /\ UNCHANGED <<slot, recorded>>
      BY <1>3 DEF Decides
    <2>3. \A s \in Slots : dec'[s] \in {New, Over, dec[s]}
      BY <2>2
    <2>4. dec' \in [Slots -> Rows] /\ run'.at = "legs"
      BY <2>1, <2>2, RowTypes DEF IInv, Typed, Runs
    <2>5. Typed'
      BY <1>0, <2>2, <2>4 DEF IInv, Typed
    <2>6. Stored' /\ Opened'
      BY <2>4 DEF Stored, Opened
    <2>7. OfferIsComplete'
      BY <2>2, <2>3 DEF IInv, OfferIsComplete, Over, NoDecision
    <2>8. QED
      BY <2>5, <2>6, <2>7 DEF IInv
  <1>4. QED
    BY <1>1, <1>2, <1>3

LEMMA InsertsLegsKeeps == ASSUME IInv, InsertsLegs PROVE IInv'
  <1>1. slot \in Slots /\ run' \in Runs /\ run'.at = "record"
    BY DEF InsertsLegs, IInv, Typed, Runs
  <1>2. dec' \in [Slots -> Rows] /\ dec'[slot].legs
    BY <1>1 DEF InsertsLegs, IInv, Typed, Rows
  <1>3. \A s \in Slots : dec'[s].state = dec[s].state /\ (dec[s].legs => dec'[s].legs)
    BY <1>2 DEF InsertsLegs, IInv, Typed, Rows
  <1>4. Typed'
    BY <1>1, <1>2 DEF InsertsLegs, IInv, Typed
  <1>5. Stored' /\ Opened'
    BY <1>1, <1>2 DEF InsertsLegs, Stored, Opened
  <1>6. OfferIsComplete'
    BY <1>3 DEF InsertsLegs, IInv, OfferIsComplete
  <1>7. QED
    BY <1>4, <1>5, <1>6 DEF IInv

LEMMA RecordsKeeps == ASSUME IInv, Records PROVE IInv'
  <1>0. Idle \in Runs
    BY Vocabulary DEF Idle, Runs
  <1>1. CASE run.kind = Absent
    BY <1>0, <1>1, RunMoves DEF Records, Idle
  <1>2. CASE run.kind # Absent
    <2>1. run' \in Runs /\ run'.at = "publish" /\ recorded' = recorded \cup {slot} /\ UNCHANGED <<slot, dec>>
      BY <1>2 DEF Records, IInv, Typed, Runs
    <2>2. Typed'
      BY <2>1 DEF IInv, Typed
    <2>3. Stored' /\ Opened'
      BY <1>2, <2>1 DEF Records, IInv, Stored, Opened
    <2>4. OfferIsComplete'
      BY <2>1 DEF IInv, OfferIsComplete
    <2>5. QED
      BY <2>2, <2>3, <2>4 DEF IInv
  <1>3. QED
    BY <1>1, <1>2

LEMMA OpensKeeps == ASSUME IInv, Opens PROVE IInv'
  <1>0. Idle \in Runs
    BY Vocabulary DEF Idle, Runs
  <1>1. CASE run' = Idle /\ UNCHANGED dec
    BY <1>0, <1>1, RunMoves DEF Opens, Idle
  <1>2. CASE /\ dec[slot].state = "awaiting_publication"
             /\ dec' = [dec EXCEPT ![slot].state = "proposed"]
             /\ run' = [run EXCEPT !.at = "consume"]
    <2>1. slot \in Slots /\ slot \in recorded /\ dec[slot].legs
      BY <1>2 DEF Opens, IInv, Typed, Stored
    <2>2. dec' \in [Slots -> Rows] /\ dec'[slot].state = "proposed" /\ dec'[slot].legs
      BY <1>2, <2>1, Vocabulary DEF IInv, Typed, Rows
    <2>3. \A s \in Slots \ {slot} : dec'[s] = dec[s]
      BY <1>2 DEF IInv, Typed
    <2>4. run' \in Runs /\ run'.at = "consume" /\ UNCHANGED <<slot, recorded>>
      BY <1>2 DEF Opens, IInv, Typed, Runs
    <2>5. Typed'
      BY <2>2, <2>4 DEF IInv, Typed
    <2>6. Stored' /\ Opened'
      BY <2>2, <2>4, Vocabulary DEF Stored, Opened
    <2>7. OfferIsComplete'
      BY <2>1, <2>2, <2>3, <2>4 DEF IInv, OfferIsComplete
    <2>8. QED
      BY <2>5, <2>6, <2>7 DEF IInv
  <1>3. QED
    BY <1>1, <1>2 DEF Opens

LEMMA ConsumesKeeps == ASSUME IInv, Consumes PROVE IInv'
  <1>1. Idle \in Runs
    BY Vocabulary DEF Idle, Runs
  <1>2. QED
    BY <1>1, RunMoves DEF Consumes, Idle

LEMMA NextSlotKeeps == ASSUME IInv, NextSlot PROVE IInv'
  <1>1. slot' \in Slots /\ UNCHANGED <<recorded, dec, run>> /\ run.at = "idle"
    BY CycleAssumption DEF NextSlot, ledger, IInv, Typed, Slots
  <1>2. QED
    BY <1>1 DEF IInv, Typed, Stored, Opened, OfferIsComplete

(* The operator and the executor only move decisions that were opened, or end  *)
(* them.                                                                      *)
LEMMA OthersKeep ==
    ASSUME IInv, NEW s \in Slots, Approve(s) \/ Reject(s) \/ Finishes(s) \/ Waits(s)
    PROVE  IInv'
  <1>1. dec[s] \in Rows /\ UNCHANGED <<slot, recorded, run>>
    BY DEF IInv, Typed, Approve, Reject, Finishes, Waits, Move
  <1>2. \E to \in Rows : /\ dec' = [dec EXCEPT ![s] = to]
                         /\ to = Over \/ (dec[s].state \in Beyond /\ to.state \in Beyond /\ to.legs = dec[s].legs)
    <2>1. CASE Approve(s)
      <3> DEFINE to == [dec[s] EXCEPT !.state = "executing"]
      <3>1. dec' = [dec EXCEPT ![s] = to] /\ dec[s].state = "proposed"
        BY <2>1 DEF Approve, Move
      <3>2. to \in Rows /\ to.state = "executing" /\ to.legs = dec[s].legs
        BY <1>1, Vocabulary DEF Rows
      <3>3. QED
        BY <3>1, <3>2 DEF Beyond
    <2>2. CASE Reject(s) \/ Finishes(s)
      BY <2>2, RowTypes DEF Reject, Finishes, Move
    <2>3. CASE Waits(s)
      <3>1. PICK scope \in {"all", "satellite"} :
               Move(s, {"executing"}, [dec[s] EXCEPT !.state = "waiting_for_market", !.scope = scope])
        BY <2>3 DEF Waits
      <3> DEFINE to == [dec[s] EXCEPT !.state = "waiting_for_market", !.scope = scope]
      <3>2. dec' = [dec EXCEPT ![s] = to] /\ dec[s].state = "executing"
        BY <3>1 DEF Move
      <3>3. to \in Rows /\ to.state = "waiting_for_market" /\ to.legs = dec[s].legs
        BY <1>1, Vocabulary DEF Rows
      <3>4. QED
        BY <3>2, <3>3 DEF Beyond
    <2>4. QED
      BY <2>1, <2>2, <2>3
  <1>3. dec' \in [Slots -> Rows]
    BY <1>2 DEF IInv, Typed
  <1>4. \A t \in Slots : t # s => dec'[t] = dec[t]
    BY <1>2 DEF IInv, Typed
  <1>5. dec'[s] = Over \/ (dec[s].state \in Beyond /\ dec'[s].state \in Beyond /\ dec'[s].legs = dec[s].legs)
    BY <1>2 DEF IInv, Typed
  <1>6. QED
    BY <1>1, <1>3, <1>4, <1>5, RowsMove

LEMMA StepKeeps == IInv /\ [Next]_vars => IInv'
  <1> SUFFICES ASSUME IInv, [Next]_vars PROVE IInv'
    OBVIOUS
  <1>1. CASE UNCHANGED vars
    BY <1>1 DEF vars, ledger, IInv, Typed, Stored, Opened, OfferIsComplete
  <1>2. CASE Next
    BY <1>2, StartsKeeps, QuietKeeps, DecidesKeeps, InsertsLegsKeeps, RecordsKeeps, OpensKeeps,
       ConsumesKeeps, NextSlotKeeps, OthersKeep DEF Next, CycleStep
  <1>3. QED
    BY <1>1, <1>2

-----------------------------------------------------------------------------
(* In every reachable state the invariant holds: the place of the running cycle *)
(* says how much of the decision of its slot is stored (cycle.py, _run).        *)
THEOREM Inductive == Spec => []IInv
  BY Starting, StepKeeps, PTL DEF Spec

(* Wherever a cycle died before, a decision the operator can act on has its     *)
(* legs and the record of its cycle, for any number of slots.                  *)
THEOREM OffersComplete == Spec => []OfferIsComplete
  <1>1. IInv => OfferIsComplete
    BY DEF IInv
  <1>2. QED
    BY <1>1, Inductive, PTL

(* Only Consumes writes the fingerprints, and only those of the acting lines.   *)
LEMMA OnlyConsumes ==
    ASSUME IInv, [Next]_vars, stored # NoMap, NEW l \in Lines, stored'[l] # stored[l]
    PROVE  l \in run.can /\ dec[slot].state \notin {Absent, "awaiting_publication"}
  <1>1. Consumes
    BY DEF Next, CycleStep, Starts, Skips, Reads, Evaluates, Decides, InsertsLegs, Records, Opens,
           Dies, NextSlot, Approve, Reject, Finishes, Waits, Move, vars, ledger
  <1>2. stored'[l] = IF l \in Acting THEN MaterialKey(l) ELSE stored[l]
    BY <1>1 DEF Consumes, ConsumeFingerprints
  <1>3. QED
    BY <1>1, <1>2 DEF Consumes, Acting, IInv, Opened

(* After the first proposal, evidence is used up only by lines admitted in a    *)
(* cycle whose proposal was opened, whatever failed or died before.            *)
THEOREM EvidenceKept == Spec => EvidenceWaits
  <1>1. IInv /\ [Next]_vars =>
           [stored # NoMap =>
              \A l \in Lines : stored'[l] # stored[l] =>
                 l \in run.can /\ dec[slot].state \notin {Absent, "awaiting_publication"}]_vars
    BY OnlyConsumes
  <1>2. QED
    BY <1>1, Inductive, PTL DEF Spec, EvidenceWaits

-----------------------------------------------------------------------------
(* The swing book.  Its stage lives inside the cycle, so that what holds of the *)
(* cycle holds with it.                                                       *)

LEMMA BookStep == [BookNext]_bookVars => [Next]_vars
  <1> SUFFICES ASSUME [BookNext]_bookVars PROVE [Next]_vars
    OBVIOUS
  <1>1. CASE UNCHANGED bookVars
    BY <1>1 DEF bookVars
  <1>2. CASE Settles \/ LoadsPauses \/ SavesPauses \/ Passes \/ SavesLift
    BY <1>2 DEF Settles, LoadsPauses, SavesPauses, Passes, SavesLift
  <1>3. CASE EvaluatesBook \/ DecidesBook \/ OtherStep \/ Around
    BY <1>3 DEF EvaluatesBook, DecidesBook, OtherStep, Around, Next, CycleStep
  <1>4. CASE \E t \in Tickers : RecordsTrade(t)
    BY <1>4 DEF RecordsTrade
  <1>5. CASE \E s \in Slots, t \in Tickers : Fills(s, t) \/ Closes(s, t)
    BY <1>5 DEF Fills, Closes
  <1>6. CASE \E p \in Pauses : LoadsLift(p)
    BY <1>6 DEF LoadsLift
  <1>7. QED
    BY <1>1, <1>2, <1>3, <1>4, <1>5, <1>6 DEF BookNext

(* The cycle with its swing stage is still the cycle: the stage, the lift and    *)
(* the fills change nothing of the decisions, records and evidence (run_swing).  *)
THEOREM BookIsCycle == BookSpec => Spec
  <1>1. BookInit => Init
    BY DEF BookInit
  <1>2. QED
    BY <1>1, BookStep, PTL DEF BookSpec, Spec

TradeStates == {Absent, "proposed", "orphan", "open", "bare", "lost", "gone"}

BookTyped ==
    /\ trade \in [Slots -> [Tickers -> TradeStates]]
    /\ stage \in [at : {"settle", "load", "save", "pass", "done"},
                  loaded : SUBSET Pauses, entries : SUBSET Tickers]
    /\ pause \subseteq Pauses

(* What the pass admitted is admitted under no pause; what is loaded to be saved *)
(* again misses no pause that is on, in the cycle and in the lift.             *)
StageSays ==
    /\ stage.entries # {} => stage.at = "done" /\ pause = {}
    /\ run.at = "idle" => stage.entries = {}
    /\ stage.at = "save" => pause \subseteq stage.loaded
    /\ lift.loaded \subseteq pause

(* The rows that count and the entries that are still to become rows.          *)
Kept == Trades(Sized) \cup {<<slot, t>> : t \in stage.entries}

Fits(B) == Cardinality(B) <= MaxOpen /\ \A a, b \in B : a[2] = b[2] => a = b

(* While a cycle runs up to its opening no decision is proposed, and none is made *)
(* for a slot to come.                                                        *)
Unoffered ==
    /\ run.at \notin {"idle", "consume"} => \A s \in Slots : dec[s].state # "proposed"
    /\ \A s \in Slots : s > slot => dec[s].state = Absent

(* What the running cycle is about to offer.                                   *)
Offering == run.at \in {"legs", "publish"} \/ (run.at = "record" /\ run.kind # Absent)

OfferSays == Offering /\ pause # {} => \A t \in Tickers : trade[slot][t] \notin {"proposed", "lost"}

BInv == IInv /\ BookTyped /\ StageSays /\ Fits(Kept) /\ Unoffered /\ OfferSays /\ NoOfferUnderPause

LEMMA FiniteBook == IsFiniteSet(Slots \X Tickers)
  <1>1. IsFiniteSet(Slots)
    BY FS_Interval, CycleAssumption DEF Slots
  <1>2. QED
    BY <1>1, FS_Product, SwingBookAssumption

(* A book that fits still fits with fewer rows.                                *)
LEMMA Shrinks ==
    ASSUME NEW B \in SUBSET (Slots \X Tickers), NEW C \in SUBSET B, Fits(B)
    PROVE  Fits(C)
  <1>1. IsFiniteSet(B)
    BY FiniteBook, FS_Subset
  <1>2. IsFiniteSet(C) /\ Cardinality(C) <= Cardinality(B) /\ Cardinality(B) \in Nat /\ Cardinality(C) \in Nat
    BY <1>1, FS_Subset, FS_CardinalityType
  <1>3. Cardinality(C) <= MaxOpen
    BY <1>2, SwingBookAssumption DEF Fits
  <1>4. QED
    BY <1>3 DEF Fits

LEMMA KeptRows == ASSUME BInv PROVE Kept \in SUBSET (Slots \X Tickers)
  BY DEF BInv, IInv, Typed, BookTyped, Kept, Trades

(* Rows that stop counting, and entries that are dropped or become rows.       *)
LEMMA KeepsRoom ==
    ASSUME BInv,
           \A s \in Slots, t \in Tickers : trade'[s][t] \in Sized =>
               trade[s][t] \in Sized \/ (s = slot /\ t \in stage.entries),
           stage'.entries \subseteq stage.entries, stage'.entries # {} => slot' = slot
    PROVE  Fits(Kept)'
  <1>1. Kept' \subseteq Kept
    BY DEF Kept, Trades
  <1>2. Kept \in SUBSET (Slots \X Tickers) /\ Fits(Kept)
    BY KeptRows DEF BInv
  <1>3. Fits(Kept')
    BY <1>1, <1>2, Shrinks
  <1>4. QED
    BY <1>3 DEF Fits

(* No step but an opening makes a decision proposed.                           *)
LEMMA Calm ==
    ASSUME BInv, pause' \subseteq pause,
           \A s \in Slots : dec'[s].state = "proposed" => dec[s].state = "proposed",
           \A s \in Slots, t \in Tickers :
               trade'[s][t] \in {"proposed", "lost"} => trade[s][t] \in {"proposed", "lost"}
    PROVE  NoOfferUnderPause'
  BY DEF BInv, NoOfferUnderPause, Trades

-----------------------------------------------------------------------------
(* Unoffered is about the cycle alone.                                         *)
LEMMA UnofferedKeeps == ASSUME IInv, Unoffered, [Next]_vars PROVE Unoffered'
  <1> USE Vocabulary
  <1>0. slot \in Slots /\ dec \in [Slots -> Rows] /\ run \in Runs /\ \A s \in Slots : s \in Nat
    BY DEF IInv, Typed, Slots
  <1>o. Over.state = "over" /\ Idle.at = "idle"
    BY DEF Over, NoDecision, Idle
  <1>1. CASE UNCHANGED vars
    BY <1>1 DEF vars, ledger, Unoffered
  <1>2. CASE Starts
    <2>1. UNCHANGED slot /\ \A s \in Slots : dec'[s] = IF s < slot /\ dec[s].state \in PendingStates THEN Over ELSE dec[s]
      BY <1>2 DEF Starts, Expired
    <2>2. dec[slot].state # "proposed"
      BY <1>0, <1>2 DEF Starts, IInv, OfferIsComplete
    <2>3. \A s \in Slots : dec'[s].state # "proposed" /\ (s > slot => dec'[s].state = Absent)
      BY <2>1, <2>2, <1>0, <1>o, CycleAssumption DEF Unoffered, Slots
    <2>4. QED
      BY <2>1, <2>3 DEF Unoffered
  <1>3. CASE Skips \/ Reads \/ Evaluates \/ Records \/ Consumes \/ Dies
    <2>1. UNCHANGED <<slot, dec>>
      BY <1>3 DEF Skips, Reads, Evaluates, Records, Consumes, Dies, ledger
    <2>2. run'.at = "idle" \/ run.at \notin {"idle", "consume"}
      BY <1>3, <1>o DEF Skips, Reads, Evaluates, Records, Consumes, Dies
    <2>3. QED
      BY <2>1, <2>2 DEF Unoffered
  <1>4. CASE Decides
    <2>1. run.at = "decide" /\ UNCHANGED slot
      BY <1>4 DEF Decides
    <2>2. \A s \in Slots : dec'[s].state \in {dec[s].state, "over", "awaiting_publication"}
                          /\ (dec'[s].state # dec[s].state => s = slot \/ s \in Pending)
      <3>1. CASE UNCHANGED dec
        BY <3>1
      <3>2. CASE dec' = [s \in Slots |->
                         IF s = slot
                         THEN [state |-> "awaiting_publication", kind |-> run.kind, legs |-> FALSE,
                               scope |-> "all"]
                         ELSE IF s \in Pending THEN Over
                         ELSE dec[s]]
        BY <3>2, <1>o
      <3>3. QED
        BY <1>4, <3>1, <3>2 DEF Decides
    <2>3. QED
      BY <2>1, <2>2, <1>0, CycleAssumption DEF Unoffered, Pending, Slots
  <1>5. CASE InsertsLegs
    <2>1. run.at = "legs" /\ UNCHANGED slot /\ \A s \in Slots : dec'[s].state = dec[s].state
      BY <1>5, <1>0 DEF InsertsLegs, Rows
    <2>2. QED
      BY <2>1 DEF Unoffered
  <1>6. CASE Opens
    <2>1. run'.at \in {"idle", "consume"} /\ UNCHANGED slot /\ \A s \in Slots : s # slot => dec'[s] = dec[s]
      BY <1>6, <1>0, <1>o DEF Opens, Runs
    <2>2. QED
      BY <2>1, <1>0, CycleAssumption DEF Unoffered, Slots
  <1>7. CASE NextSlot
    BY <1>7, <1>0 DEF NextSlot, ledger, Unoffered
  <1>8. CASE \E s \in Slots : Approve(s) \/ Reject(s) \/ Finishes(s) \/ Waits(s)
    <2>1. PICK s \in Slots : Approve(s) \/ Reject(s) \/ Finishes(s) \/ Waits(s)
      BY <1>8
    <2>2. /\ UNCHANGED <<slot, run>> /\ dec[s].state \in {"awaiting_publication", "proposed", "executing", "waiting_for_market"}
          /\ \A u \in Slots : u # s => dec'[u] = dec[u]
          /\ dec'[s].state \in {"executing", "over", "waiting_for_market"}
      BY ZenonT(30), <2>1, <1>0, <1>o DEF Approve, Reject, Finishes, Waits, Move, Rows
    <2>3. QED
      BY <2>2, <1>0 DEF Unoffered
  <1>9. QED
    BY <1>1, <1>2, <1>3, <1>4, <1>5, <1>6, <1>7, <1>8 DEF Next, CycleStep

-----------------------------------------------------------------------------
(* One lemma an action of the swing stage and of what is around it.            *)
BookPart == BookTyped /\ StageSays /\ Fits(Kept) /\ OfferSays /\ NoOfferUnderPause

LEMMA SettlesKeeps == ASSUME BInv, Settles PROVE BookPart'
  <1>1. /\ UNCHANGED <<slot, dec, run, pause, lift>> /\ run.at = "evaluate"
        /\ stage' = [stage EXCEPT !.at = "load"] /\ stage.at = "settle"
    BY DEF Settles, InStage, vars, ledger
  <1>2. /\ trade' \in [Slots -> [Tickers -> TradeStates]]
        /\ \A s \in Slots, t \in Tickers : trade'[s][t] \in {trade[s][t], "gone"}
    BY DEF Settles, BInv, BookTyped, TradeStates
  <1>3. BookTyped' /\ stage'.entries = stage.entries /\ stage'.at = "load"
    BY <1>1, <1>2 DEF BInv, BookTyped
  <1>4. StageSays'
    BY <1>1, <1>3 DEF BInv, StageSays
  <1>5. Fits(Kept)'
    BY <1>1, <1>2, <1>3, KeepsRoom DEF Sized
  <1>6. OfferSays' /\ NoOfferUnderPause'
    BY <1>1, <1>2, Calm DEF OfferSays, Offering
  <1>7. QED
    BY <1>3, <1>4, <1>5, <1>6 DEF BookPart

LEMMA LoadsPausesKeeps == ASSUME BInv, LoadsPauses PROVE BookPart'
  <1>1. /\ UNCHANGED <<slot, dec, run, trade, pause, lift>> /\ run.at = "evaluate"
        /\ stage' = [stage EXCEPT !.at = "save", !.loaded = pause] /\ stage.at = "load"
    BY DEF LoadsPauses, InStage, vars, ledger
  <1>2. BookTyped' /\ stage'.entries = stage.entries /\ stage'.at = "save" /\ stage'.loaded = pause
    BY <1>1 DEF BInv, BookTyped
  <1>3. StageSays'
    BY <1>1, <1>2 DEF BInv, StageSays
  <1>4. Fits(Kept)'
    BY <1>1, <1>2, KeepsRoom
  <1>5. OfferSays' /\ NoOfferUnderPause'
    BY <1>1, Calm DEF OfferSays, Offering
  <1>6. QED
    BY <1>2, <1>3, <1>4, <1>5 DEF BookPart

(* A pause that engages finds nothing on offer: a cycle runs.                   *)
LEMMA SavesPausesKeeps == ASSUME BInv, Unoffered', SavesPauses PROVE BookPart'
  <1>1. /\ UNCHANGED <<slot, dec, run, trade, lift>> /\ run.at = "evaluate" /\ stage.at = "save"
        /\ stage' = [stage EXCEPT !.at = "pass", !.loaded = {}]
    BY DEF SavesPauses, InStage, vars, ledger
  <1>2. pause \subseteq stage.loaded /\ stage.entries = {}
    BY <1>1 DEF BInv, StageSays
  <1>3. pause \subseteq pause' /\ pause' \subseteq Pauses
    BY <1>2 DEF SavesPauses, BInv, BookTyped
  <1>4. BookTyped' /\ stage'.entries = {} /\ stage'.at = "pass"
    BY <1>1, <1>2, <1>3 DEF BInv, BookTyped
  <1>5. StageSays'
    BY <1>1, <1>3, <1>4 DEF BInv, StageSays
  <1>6. Fits(Kept)'
    BY <1>1, <1>4, KeepsRoom
  <1>7. OfferSays'
    BY <1>1 DEF OfferSays, Offering
  <1>8. NoOfferUnderPause'
    BY <1>1 DEF Unoffered, NoOfferUnderPause, Trades
  <1>9. QED
    BY <1>4, <1>5, <1>6, <1>7, <1>8 DEF BookPart

(* What the pass admits fits beside the rows that count.                        *)
LEMMA AdmitsFitting ==
    ASSUME BInv, NEW entries \in SUBSET Tickers, Admissible(entries)
    PROVE  Fits(Trades(Sized) \cup {<<slot, t>> : t \in entries})
  <1> DEFINE new == {<<slot, t>> : t \in entries}
             pair == [t \in entries |-> <<slot, t>>]
  <1>1. IsFiniteSet(entries) /\ Cardinality(entries) \in Nat
    BY SwingBookAssumption, FS_Subset, FS_CardinalityType
  <1>2. pair \in Surjection(entries, new)
    BY DEF Surjection
  <1>3. IsFiniteSet(new) /\ Cardinality(new) <= Cardinality(entries) /\ Cardinality(new) \in Nat
    BY <1>1, <1>2, FS_Surjection, FS_CardinalityType
  <1>4. Trades(Sized) \in SUBSET (Slots \X Tickers) /\ IsFiniteSet(Trades(Sized)) /\ Cardinality(Trades(Sized)) \in Nat
    BY FiniteBook, FS_Subset, FS_CardinalityType DEF Trades
  <1>5. Cardinality(Trades(Sized) \cup new) <= Cardinality(Trades(Sized)) + Cardinality(new)
    <2>1. Cardinality(Trades(Sized) \cup new)
            = Cardinality(Trades(Sized)) + Cardinality(new) - Cardinality(Trades(Sized) \cap new)
      BY <1>3, <1>4, FS_Union
    <2>2. Cardinality(Trades(Sized) \cap new) \in Nat
      BY <1>4, FS_Subset, FS_CardinalityType
    <2>3. QED
      BY <2>1, <2>2, <1>3, <1>4
  <1>6. Cardinality(Trades(Sized) \cup new) <= MaxOpen
    <2>1. Cardinality(Trades(Sized)) + Cardinality(entries) <= MaxOpen
      BY DEF Admissible, Counted
    <2>2. IsFiniteSet(Trades(Sized) \cup new) /\ Cardinality(Trades(Sized) \cup new) \in Nat
      BY <1>3, <1>4, FS_Union, FS_CardinalityType
    <2>3. QED
      BY <2>1, <2>2, <1>1, <1>3, <1>4, <1>5, SwingBookAssumption
  <1>7. \A a, b \in Trades(Sized) : a[2] = b[2] => a = b
    BY DEF BInv, Fits, Kept
  <1>8. \A a \in Trades(Sized) : a[2] \notin entries
    BY DEF Admissible, Counted
  <1>9. QED
    BY <1>6, <1>7, <1>8 DEF Fits

LEMMA PassesKeeps == ASSUME BInv, Passes PROVE BookPart'
  <1>1. PICK entries \in SUBSET Tickers :
           /\ entries # {} => Admissible(entries)
           /\ stage' = [stage EXCEPT !.at = "done", !.entries = entries]
    BY DEF Passes
  <1>2. UNCHANGED <<slot, dec, run, trade, pause, lift>> /\ run.at = "evaluate" /\ stage.at = "pass"
    BY DEF Passes, InStage, vars, ledger
  <1>3. BookTyped' /\ stage'.entries = entries /\ stage'.at = "done"
    BY <1>1, <1>2 DEF BInv, BookTyped
  <1>4. StageSays'
    BY <1>1, <1>2, <1>3 DEF BInv, StageSays, Admissible
  <1>5. Fits(Kept)'
    <2>1. CASE entries = {}
      BY <1>2, <1>3, <2>1, KeepsRoom
    <2>2. CASE entries # {}
      BY <1>1, <1>2, <1>3, <2>2, AdmitsFitting DEF Kept, Trades, Fits
    <2>3. QED
      BY <2>1, <2>2
  <1>6. OfferSays' /\ NoOfferUnderPause'
    BY <1>2, Calm DEF OfferSays, Offering
  <1>7. QED
    BY <1>3, <1>4, <1>5, <1>6 DEF BookPart

LEMMA EvaluatesBookKeeps == ASSUME BInv, EvaluatesBook PROVE BookPart'
  <1>1. /\ UNCHANGED <<slot, dec, trade, pause, lift>> /\ run.at = "evaluate" /\ run'.at = "decide"
        /\ stage' \in {stage, [stage EXCEPT !.entries = {}]}
    BY DEF EvaluatesBook, Evaluates, ledger, BInv, IInv, Typed, Runs
  <1>2. BookTyped' /\ stage'.entries \subseteq stage.entries /\ stage'.at = stage.at /\ stage'.loaded = stage.loaded
    BY <1>1 DEF BInv, BookTyped
  <1>3. StageSays'
    BY <1>1, <1>2 DEF BInv, StageSays
  <1>4. Fits(Kept)'
    BY <1>1, <1>2, KeepsRoom
  <1>5. OfferSays' /\ NoOfferUnderPause'
    BY <1>1, Calm DEF OfferSays, Offering
  <1>6. QED
    BY <1>2, <1>3, <1>4, <1>5 DEF BookPart

(* The row of an entry counts as the entry did.                                *)
LEMMA RecordsTradeKeeps == ASSUME BInv, Unoffered', NEW t \in Tickers, RecordsTrade(t) PROVE BookPart'
  <1>1. /\ UNCHANGED <<slot, dec, run, pause, lift>> /\ run.at = "record" /\ t \in stage.entries /\ slot \in Slots
        /\ stage' = [stage EXCEPT !.entries = @ \ {t}] /\ pause = {}
    BY DEF RecordsTrade, vars, ledger, BInv, StageSays, IInv, Typed
  <1>2. PICK row \in {"proposed", "lost"} :
           trade' = [trade EXCEPT ![slot][t] = IF @ = Absent THEN row ELSE @]
    BY DEF RecordsTrade
  <1>3. /\ trade' \in [Slots -> [Tickers -> TradeStates]]
        /\ \A s \in Slots, u \in Tickers : trade'[s][u] = trade[s][u] \/ (s = slot /\ u = t)
    BY <1>1, <1>2 DEF BInv, BookTyped, TradeStates
  <1>4. BookTyped' /\ stage'.entries \subseteq stage.entries /\ stage'.at = stage.at /\ stage'.loaded = stage.loaded
    BY <1>1, <1>3 DEF BInv, BookTyped
  <1>5. StageSays'
    BY <1>1, <1>4 DEF BInv, StageSays
  <1>6. Fits(Kept)'
    BY <1>1, <1>3, <1>4, KeepsRoom
  <1>7. OfferSays' /\ NoOfferUnderPause'
    BY <1>1 DEF OfferSays, NoOfferUnderPause
  <1>8. QED
    BY <1>4, <1>5, <1>6, <1>7 DEF BookPart

(* A second run of a slot takes over what the first one left: nothing of it is  *)
(* on offer any more.                                                         *)
LEMMA DecidesBookKeeps == ASSUME BInv, Unoffered', DecidesBook PROVE BookPart'
  <1>0. run' \in Runs /\ slot \in Slots
    BY DecidesKeeps DEF DecidesBook, BInv, IInv, Typed
  <1>1. /\ UNCHANGED <<slot, pause, lift>> /\ run.at = "decide" /\ run'.at \in {"idle", "legs", "record"}
        /\ run'.at = "record" => run'.kind = Absent
        /\ run'.at = "idle" => UNCHANGED dec
    BY DEF DecidesBook, Decides, Idle, BInv, IInv, Typed, Runs
  <1>2. /\ trade' \in [Slots -> [Tickers -> TradeStates]]
        /\ \A s \in Slots, t \in Tickers :
              \/ trade'[s][t] = trade[s][t]
              \/ trade[s][t] = "proposed" /\ trade'[s][t] = "orphan"
              \/ trade'[s][t] = Absent
        /\ run'.at = "legs" => \A t \in Tickers : trade'[slot][t] \notin {"proposed", "lost"}
    <2>1. CASE run'.at # "legs"
      BY <2>1 DEF DecidesBook, BInv, BookTyped
    <2>2. CASE run'.at = "legs"
      BY <1>0, <2>2 DEF DecidesBook, BInv, BookTyped, TradeStates, Absent
    <2>3. QED
      BY <2>1, <2>2
  <1>3. stage' = IF run'.at = "idle" THEN NoStage ELSE stage
    BY DEF DecidesBook
  <1>4. BookTyped' /\ stage'.entries \subseteq stage.entries
    BY <1>1, <1>2, <1>3 DEF BInv, BookTyped, NoStage
  <1>5. StageSays'
    BY <1>1, <1>3 DEF BInv, StageSays, NoStage
  <1>6. Fits(Kept)'
    BY <1>1, <1>2, <1>4, KeepsRoom DEF Sized, Absent
  <1>7. OfferSays'
    BY <1>1, <1>2 DEF OfferSays, Offering
  <1>8. NoOfferUnderPause'
    <2>1. CASE run'.at = "idle"
      BY <1>1, <1>2, <2>1, Calm DEF Absent
    <2>2. CASE run'.at # "idle"
      BY <1>1, <2>2 DEF Unoffered, NoOfferUnderPause, Trades
    <2>3. QED
      BY <2>1, <2>2
  <1>9. QED
    BY <1>4, <1>5, <1>6, <1>7, <1>8 DEF BookPart

(* The opening is where something goes on offer: nothing of it is, if a pause is on. *)
LEMMA OtherStepKeeps == ASSUME BInv, OtherStep PROVE BookPart'
  <1> DEFINE before == Starts \/ Skips \/ Reads \/ InsertsLegs \/ Consumes \/ Dies \/ Records
  <1>0. slot \in Slots /\ dec \in [Slots -> Rows] /\ run \in Runs /\ \A s \in Slots : s \in Nat
    BY DEF BInv, IInv, Typed, Slots
  <1>1. UNCHANGED <<slot, trade, pause, lift>> /\ stage' = IF run'.at = "idle" THEN NoStage ELSE stage
    BY DEF OtherStep, Starts, Skips, Reads, InsertsLegs, Opens, Consumes, Dies, Records, ledger
  <1>2. before \/ Opens
    BY DEF OtherStep
  <1>3. run'.at = "idle" \/ run'.at = "read" \/ run.at # "idle"
    <2>1. CASE Starts
      BY <2>1, <1>0 DEF Starts, Idle, Runs
    <2>2. CASE Skips \/ Reads \/ InsertsLegs \/ Opens \/ Consumes \/ Dies \/ Records
      BY <2>2 DEF Skips, Reads, InsertsLegs, Opens, Consumes, Dies, Records
    <2>3. QED
      BY <1>2, <2>1, <2>2
  <1>4. Offering' => Offering
    <2>1. CASE Records
      BY <2>1, <1>0 DEF Records, Offering, Idle, Runs
    <2>2. CASE Starts \/ Skips \/ Reads \/ Consumes \/ Dies
      <3>1. run'.at \in {"idle", "read", "evaluate"}
        <4>1. CASE Starts \/ Skips \/ Consumes \/ Dies
          BY <4>1 DEF Starts, Skips, Consumes, Dies, Idle
        <4>2. CASE Reads
          BY <4>2, <1>0 DEF Reads, Runs
        <4>3. QED
          BY <2>2, <4>1, <4>2
      <3>2. QED
        BY <3>1 DEF Offering
    <2>3. CASE InsertsLegs \/ Opens
      BY <2>3, <1>0 DEF InsertsLegs, Opens, Offering
    <2>4. QED
      BY <1>2, <2>1, <2>2, <2>3
  <1>5. BookTyped' /\ stage'.entries \subseteq stage.entries
    BY <1>1 DEF BInv, BookTyped, NoStage
  <1>6. StageSays'
    BY <1>1, <1>3 DEF BInv, StageSays, NoStage
  <1>7. Fits(Kept)'
    BY <1>1, <1>5, KeepsRoom
  <1>8. OfferSays'
    BY <1>1, <1>4 DEF BInv, OfferSays
  <1>9. NoOfferUnderPause'
    <2>1. CASE before
      <3>1. \A s \in Slots : dec'[s].state = "proposed" => dec[s].state = "proposed"
        <4>1. CASE Starts
          BY <4>1, <1>0 DEF Starts, Expired, Over, NoDecision
        <4>2. CASE InsertsLegs
          BY <4>2, <1>0 DEF InsertsLegs, Rows
        <4>3. CASE Skips \/ Reads \/ Consumes \/ Dies \/ Records
          BY <4>3 DEF Skips, Reads, Consumes, Dies, Records, ledger
        <4>4. QED
          BY <2>1, <4>1, <4>2, <4>3
      <3>2. QED
        BY <1>1, <3>1, Calm
    <2>2. CASE Opens
      <3>1. run.at = "publish" /\ \A s \in Slots : s # slot => dec'[s] = dec[s]
        BY <2>2, <1>0 DEF Opens
      <3>2. pause # {} => \A t \in Tickers : trade[slot][t] \notin {"proposed", "lost"}
        BY <3>1 DEF BInv, OfferSays, Offering
      <3>3. \A s \in Slots : s # slot => dec'[s].state # "proposed"
        BY <3>1 DEF BInv, Unoffered
      <3>4. QED
        BY <1>1, <3>2, <3>3 DEF NoOfferUnderPause, Trades
    <2>3. QED
      BY <1>2, <2>1, <2>2
  <1>10. QED
    BY <1>5, <1>6, <1>7, <1>8, <1>9 DEF BookPart

(* The clock and the operator take nothing into the book and put nothing on offer. *)
LEMMA AroundKeeps == ASSUME BInv, Around PROVE BookPart'
  <1>0. dec \in [Slots -> Rows]
    BY DEF BInv, IInv, Typed
  <1>1. UNCHANGED <<run, trade, pause, stage, lift>> /\ (slot' = slot \/ run.at = "idle")
    BY DEF Around, book, NextSlot, Approve, Reject, Finishes, Waits, Move, ledger
  <1>2. \A s \in Slots : dec'[s].state = "proposed" => dec[s].state = "proposed"
    <2>1. CASE NextSlot
      BY <2>1 DEF NextSlot, ledger
    <2>2. CASE \E s \in Slots : Approve(s) \/ Reject(s) \/ Finishes(s) \/ Waits(s)
      BY <2>2, <1>0 DEF Approve, Reject, Finishes, Waits, Move, Rows, Over, NoDecision
    <2>3. QED
      BY <2>1, <2>2 DEF Around
  <1>3. BookTyped' /\ StageSays'
    BY <1>1 DEF BInv, BookTyped, StageSays
  <1>4. Fits(Kept)'
    <2>1. stage.entries # {} => slot' = slot
      BY <1>1 DEF BInv, StageSays
    <2>2. QED
      BY <1>1, <2>1, KeepsRoom
  <1>5. OfferSays'
    BY <1>1 DEF BInv, OfferSays, Offering
  <1>6. NoOfferUnderPause'
    BY <1>1, <1>2, Calm
  <1>7. QED
    BY <1>3, <1>4, <1>5, <1>6 DEF BookPart

(* A row that becomes a position counts as before, one that closes no longer.    *)
LEMMA FillsKeeps == ASSUME BInv, NEW s \in Slots, NEW t \in Tickers, Fills(s, t) \/ Closes(s, t) PROVE BookPart'
  <1>1. UNCHANGED <<slot, dec, run, pause, stage, lift>>
    BY DEF Fills, Closes, vars, ledger
  <1>2. /\ trade' \in [Slots -> [Tickers -> TradeStates]]
        /\ \A u \in Slots, w \in Tickers :
              \/ trade'[u][w] = trade[u][w]
              \/ trade[u][w] = "proposed" /\ trade'[u][w] = "open"
              \/ trade'[u][w] \in {"bare", "gone"}
    BY DEF Fills, Closes, BInv, BookTyped, TradeStates
  <1>3. BookTyped' /\ StageSays'
    BY <1>1, <1>2 DEF BInv, BookTyped, StageSays
  <1>4. Fits(Kept)'
    BY <1>1, <1>2, KeepsRoom DEF Sized
  <1>5. OfferSays'
    BY <1>1, <1>2 DEF BInv, IInv, Typed, OfferSays, Offering
  <1>6. NoOfferUnderPause'
    BY <1>1, <1>2, Calm
  <1>7. QED
    BY <1>3, <1>4, <1>5, <1>6 DEF BookPart

(* A lift loads and writes back no pause that is not on: only a cycle engages one. *)
LEMMA LoadsLiftKeeps == ASSUME BInv, NEW p \in Pauses, LoadsLift(p) PROVE BookPart'
  <1>1. UNCHANGED <<slot, dec, run, trade, stage, pause>> /\ lift'.loaded = pause
    BY DEF LoadsLift, vars, ledger
  <1>2. BookTyped' /\ StageSays'
    BY <1>1 DEF BInv, BookTyped, StageSays
  <1>3. Fits(Kept)'
    BY <1>1, KeepsRoom
  <1>4. OfferSays' /\ NoOfferUnderPause'
    BY <1>1, Calm DEF BInv, OfferSays, Offering
  <1>5. QED
    BY <1>2, <1>3, <1>4 DEF BookPart

LEMMA SavesLiftKeeps == ASSUME BInv, SavesLift PROVE BookPart'
  <1>1. UNCHANGED <<slot, dec, run, trade, stage>> /\ pause' \subseteq pause /\ lift'.loaded \subseteq pause'
    BY DEF SavesLift, NoLift, vars, ledger, BInv, StageSays
  <1>2. BookTyped' /\ StageSays'
    BY <1>1 DEF BInv, BookTyped, StageSays
  <1>3. Fits(Kept)'
    BY <1>1, KeepsRoom
  <1>4. OfferSays' /\ NoOfferUnderPause'
    BY <1>1, Calm DEF BInv, OfferSays, Offering
  <1>5. QED
    BY <1>2, <1>3, <1>4 DEF BookPart

LEMMA BookStarts == BookInit => BInv
  <1> SUFFICES ASSUME BookInit PROVE BInv
    OBVIOUS
  <1>1. IInv
    BY Starting DEF BookInit
  <1>2. \A s \in Slots, t \in Tickers : trade[s][t] = "absent"
    BY DEF BookInit, Absent
  <1>3. Trades(Sized) = {} /\ Kept = {}
    BY <1>2 DEF BookInit, NoStage, Trades, Sized, Kept
  <1>4. Fits(Kept)
    BY <1>3, FS_EmptySet, SwingBookAssumption DEF Fits
  <1>5. BookTyped /\ StageSays
    BY DEF BookInit, Init, BookTyped, StageSays, NoStage, NoLift, Idle, TradeStates, Absent
  <1>6. Unoffered
    BY DEF BookInit, Init, Unoffered, Idle, NoDecision, Absent
  <1>7. OfferSays /\ NoOfferUnderPause
    BY DEF BookInit, OfferSays, NoOfferUnderPause
  <1>8. QED
    BY <1>1, <1>4, <1>5, <1>6, <1>7 DEF BInv

LEMMA BookStepKeeps == BInv /\ [BookNext]_bookVars => BInv'
  <1> SUFFICES ASSUME BInv, [BookNext]_bookVars PROVE BInv'
    OBVIOUS
  <1>1. IInv'
    BY BookStep, StepKeeps DEF BInv
  <1>2. Unoffered'
    BY BookStep, UnofferedKeeps DEF BInv
  <1>3. BookPart'
    <2>1. CASE UNCHANGED bookVars
      BY <2>1 DEF bookVars, book, vars, ledger, BInv, BookPart, BookTyped, StageSays, Fits, Kept, Trades,
         OfferSays, Offering, NoOfferUnderPause
    <2>2. CASE Settles \/ LoadsPauses \/ SavesPauses \/ Passes
      BY <1>2, <2>2, SettlesKeeps, LoadsPausesKeeps, SavesPausesKeeps, PassesKeeps
    <2>3. CASE EvaluatesBook \/ DecidesBook \/ OtherStep \/ Around
      BY <1>2, <2>3, EvaluatesBookKeeps, DecidesBookKeeps, OtherStepKeeps, AroundKeeps
    <2>4. CASE \E t \in Tickers : RecordsTrade(t)
      BY <1>2, <2>4, RecordsTradeKeeps
    <2>5. CASE \E s \in Slots, t \in Tickers : Fills(s, t) \/ Closes(s, t)
      BY <2>5, FillsKeeps
    <2>6. CASE \E p \in Pauses : LoadsLift(p)
      BY <2>6, LoadsLiftKeeps
    <2>7. CASE SavesLift
      BY <2>7, SavesLiftKeeps
    <2>8. QED
      BY <2>1, <2>2, <2>3, <2>4, <2>5, <2>6, <2>7 DEF BookNext
  <1>4. QED
    BY <1>1, <1>2, <1>3 DEF BInv, BookPart

(* What holds of the swing book in every state, from slot to slot.              *)
THEOREM BookInductive == BookSpec => []BInv
  BY BookStarts, BookStepKeeps, PTL DEF BookSpec

(* The positions and the offers in the ledger are never more than the capacity    *)
(* and never two of one ticker (swing/rules.book_check with ledger/swing.py),   *)
(* however often cycles die, run again or are overtaken by a fill.             *)
THEOREM BookAlwaysFits == BookSpec => []BookFits
  <1>1. BInv => BookFits
    <2> SUFFICES ASSUME BInv PROVE BookFits
      OBVIOUS
    <2>1. Kept \in SUBSET (Slots \X Tickers) /\ Trades(Sized) \in SUBSET Kept /\ Fits(Kept)
      BY KeptRows DEF BInv, Kept
    <2>2. Fits(Trades(Sized))
      BY <2>1, Shrinks
    <2>3. QED
      BY <2>2 DEF Fits, BookFits
  <1>2. QED
    BY <1>1, BookInductive, PTL

(* While a pause is on, no entry is on offer to the operator (swing/brake.py with *)
(* the cycle's pass and its openings), whatever a lift that overlaps writes back. *)
THEOREM PausedOffersNothing == BookSpec => []NoOfferUnderPause
  BY BookInductive, PTL DEF BInv

-----------------------------------------------------------------------------
(* Council: what the deliberation may decide.  No lone move and no cut without *)
(* a shock are facts about the audit of the replies, so they need no invariant *)
(* but who was heard; the budget needs one: the answers are no more than the    *)
(* stages before this one were allowed and the calls of this one that have one. *)

-----------------------------------------------------------------------------
(* No lone move *)

(* What the audit of the replies leaves: an agreement of two, or no change.       *)
LEMMA AgreementOfTwo ==
    ASSUME NEW m, NEW reps, NEW l \in Universe,
           Aggregate(reps, m).basis \in {"council", "council_partial_reference"},
           Aggregate(reps, m).levels[l] # m.line[l].ref
    PROVE  \E i, j \in Replicates :
               /\ i # j /\ reps[i].valid /\ reps[j].valid
               /\ ActionClass(reps[i].levels[l], m.line[l]) = ActionClass(Aggregate(reps, m).levels[l], m.line[l])
               /\ ActionClass(reps[j].levels[l], m.line[l]) = ActionClass(Aggregate(reps, m).levels[l], m.line[l])
<1> DEFINE valid == {i \in Replicates : reps[i].valid}
           best == reps[Medoid(valid, reps)].levels
           share == Sharing(l, best[l], valid, reps, m)
           sum == Aggregate(reps, m)
<1>1. ~(Cardinality(valid) < 2)
  BY DEF Aggregate
<1>2. sum.levels[l] = best[l] /\ ~(Cardinality(share) < 2)
  <2> HIDE DEF best
  <2>1. sum.levels = [k \in Universe |-> IF k \in {x \in Universe : Cardinality(Sharing(x, best[x], valid, reps, m)) < 2}
                                          THEN m.line[k].ref ELSE best[k]]
    BY <1>1 DEF Aggregate, best
  <2> QED
    BY <2>1
<1>3. IsFiniteSet(share) /\ Cardinality(share) >= 2 /\ share \subseteq valid
  <2>1. share \subseteq Replicates /\ IsFiniteSet(Replicates) /\ share \subseteq valid
    BY AuthorityConstants DEF Sharing
  <2>2. IsFiniteSet(share) /\ Cardinality(share) \in Nat
    BY <2>1, FS_Subset, FS_CardinalityType
  <2> QED
    BY <1>2, <2>1, <2>2
<1>4. PICK i, j \in share : i # j
  <2> HIDE DEF share
  <2> QED
    BY <1>3, TwoMembers
<1>5. ASSUME NEW k \in share
      PROVE  k \in Replicates /\ reps[k].valid /\ ActionClass(reps[k].levels[l], m.line[l]) = ActionClass(sum.levels[l], m.line[l])
  <2> HIDE DEF best, sum
  <2> QED
    BY <1>2, <1>3, <1>5 DEF Sharing
<1> QED
  BY <1>4, <1>5

LEMMA AuditsAgree ==
    ASSUME Audits, heard \subseteq Replicates
    PROVE  NoLoneMove'
<1> DEFINE reps == [i \in Replicates |-> Replicate(replies'[i], Cards, market)]
           sum == Aggregate(reps, market)
<1>1. PICK said : /\ replies' = [i \in Replicates |-> IF i \in heard THEN <<said[i]>> ELSE <<>>]
                  /\ Ends(sum.basis, sum.levels)
  BY DEF Audits
<1>2. result' = [basis |-> sum.basis, levels |-> sum.levels] /\ UNCHANGED <<market, drafts, heard>>
  BY <1>1 DEF Audits, Ends
<1>3. Cards' = Cards
  BY <1>2 DEF Cards
<1> SUFFICES ASSUME result'.basis \in {"council", "council_partial_reference"},
                    NEW l \in Universe, result'.levels[l] # market.line[l].ref
             PROVE  \E i, j \in heard :
                        /\ i # j
                        /\ \A k \in {i, j} :
                             LET rep == Replicate(replies'[k], Cards, market) IN
                             /\ rep.valid
                             /\ ActionClass(rep.levels[l], market.line[l]) = ActionClass(result'.levels[l], market.line[l])
  <2> HIDE DEF reps, sum
  <2> QED
    BY <1>2, <1>3 DEF NoLoneMove
<1>4. PICK i, j \in Replicates :
        /\ i # j /\ reps[i].valid /\ reps[j].valid
        /\ ActionClass(reps[i].levels[l], market.line[l]) = ActionClass(sum.levels[l], market.line[l])
        /\ ActionClass(reps[j].levels[l], market.line[l]) = ActionClass(sum.levels[l], market.line[l])
  <2> HIDE DEF reps
  <2> QED
    BY <1>2, AgreementOfTwo
<1>5. ASSUME NEW k \in Replicates, reps[k].valid PROVE k \in heard
  <2> SUFFICES ASSUME k \notin heard PROVE FALSE
    OBVIOUS
  <2>1. replies'[k] = <<>>
    BY <1>1
  <2>2. reps[k].valid = FALSE
    BY <2>1 DEF Replicate
  <2> QED
    BY <1>5, <2>2
<1>6. \A k \in Replicates : reps[k] = Replicate(replies'[k], Cards, market)
  OBVIOUS
<1> QED
  <2> HIDE DEF reps, sum
  <2> QED
    BY <1>2, <1>4, <1>5, <1>6

(* A step keeps the outcome, or ends without the council's say, or audits.        *)
OverIsOver == phase \in {"start", "done"} => calls = << >>
LEMMA CouncilSteps ==
    ASSUME CouncilNext, OverIsOver
    PROVE  /\ OverIsOver'
           /\ phase' # "done" \/ GivesUp \/ SkipsHalted \/ SkipsStill \/ TimesOut \/ Audits
<1>1. ASSUME NEW c \in DOMAIN calls, Replies(c) \/ Misreplies(c) \/ Fails(c) \/ Refused(c)
      PROVE  UNCHANGED phase /\ phase \notin {"start", "done"}
  BY <1>1 DEF Replies, Misreplies, Fails, Refused, Calling, OverIsOver
<1>2. CASE AsksAgain
  BY <1>2 DEF AsksAgain, Enters, StageOver, OverIsOver
<1>3. CASE GivesUp \/ SkipsHalted \/ SkipsStill \/ TimesOut
  BY <1>3 DEF GivesUp, SkipsHalted, SkipsStill, TimesOut, Ends, OverIsOver
<1>4. CASE HearsAnalysts \/ HearsDebate \/ HearsManager \/ HearsControl \/ Begins
  BY <1>4 DEF HearsAnalysts, HearsDebate, HearsManager, HearsControl, Begins, Enters, OverIsOver
<1>5. CASE Audits
  BY <1>5 DEF Audits, Ends, OverIsOver
<1> QED
  BY <1>1, <1>2, <1>3, <1>4, <1>5 DEF CouncilNext, OverIsOver

LEMMA HeardReplicates ==
    ASSUME CouncilNext, heard \subseteq Replicates
    PROVE  heard' \subseteq Replicates
<1>1. ASSUME NEW c \in DOMAIN calls, Replies(c) \/ Misreplies(c) \/ Fails(c) \/ Refused(c)
      PROVE  heard' \subseteq Replicates
  BY <1>1 DEF Replies, Misreplies, Fails, Refused, Calling
<1>2. CASE HearsManager
  BY <1>2 DEF HearsManager
<1> QED
  BY <1>1, <1>2 DEF CouncilNext, AsksAgain, GivesUp, SkipsHalted, SkipsStill, TimesOut, HearsAnalysts,
     HearsDebate, HearsControl, Begins, Audits

(* For any replies, lines and ladders: a line leaves its reference only when *)
(* two valid replicates move it the same way (deliberation/agreement.py).    *)
THEOREM LoneRepliesMoveNothing == CouncilSpec => []NoLoneMove
<1> DEFINE Inv == OverIsOver /\ heard \subseteq Replicates /\ NoLoneMove
<1>1. CouncilInit => Inv
  BY DEF CouncilInit, OverIsOver, NoLoneMove
<1>2. Inv /\ [CouncilNext]_councilVars => Inv'
  <2> SUFFICES ASSUME Inv, [CouncilNext]_councilVars PROVE Inv'
    OBVIOUS
  <2>1. CASE UNCHANGED councilVars
    BY <2>1 DEF councilVars, OverIsOver, NoLoneMove, Cards
  <2>2. CASE CouncilNext
    <3>1. OverIsOver' /\ heard' \subseteq Replicates
      BY <2>2, CouncilSteps, HeardReplicates
    <3>2. NoLoneMove'
      <4>1. CASE phase' # "done"
        BY <4>1 DEF NoLoneMove
      <4>2. CASE GivesUp \/ SkipsHalted \/ SkipsStill \/ TimesOut
        <5>1. result'.basis \in {"council_unavailable", "halted", "code_only"}
          BY <4>2 DEF GivesUp, SkipsHalted, SkipsStill, TimesOut, Ends
        <5> QED
          BY <5>1 DEF NoLoneMove
      <4> QED
        BY <2>2, <4>1, <4>2, CouncilSteps, AuditsAgree
    <3> QED
      BY <3>1, <3>2
  <2> QED
    BY <2>1, <2>2
<1> QED
  BY <1>1, <1>2, PTL DEF CouncilSpec

-----------------------------------------------------------------------------
(* A cut needs a shock *)

(* What the market says of a line that could be cut.                           *)
Cuttable(m, l) ==
    /\ m.kill \notin LATCHED
    /\ m.line[l].trend = "up" /\ m.line[l].core /\ ~m.line[l].frozen
    /\ m.line[l].ref \in Int /\ m.line[l].current \in Int

(* Without a card that opens the band, no level inside it is a cut.               *)
LEMMA BandHolds ==
    ASSUME NEW m, NEW l, Cuttable(m, l), NEW cards, ~QualifyingCut(l, cards), NEW x \in Int
    PROVE  Clip(x, Band(l, cards, m)) >= Low(m.line[l].ref, m.line[l].current)
<1> DEFINE ref == m.line[l].ref
           now == m.line[l].current
           line == m.line[l]
           open == IF ~line.deviates THEN <<ref, ref>> ELSE CoreBand(line, QualifyingCut(l, cards))
<1>1. ref \in Int /\ now \in Int /\ line.trend = "up" /\ line.core /\ ~line.frozen /\ m.kill \notin LATCHED
  BY DEF Cuttable
<1>2. \E lo, hi \in Int : open = <<lo, hi>> /\ lo = ref /\ lo <= hi
  <2>1. CASE ~line.deviates
    BY <1>1, <2>1
  <2>2. CASE line.deviates
    <3> DEFINE top == IF line.lever THEN Low(line.ref + 2, 6) ELSE line.ref
    <3>1. CoreBand(line, QualifyingCut(l, cards)) = <<Low(High(ref - 0, 0), ref), High(top, ref)>>
      BY <1>1 DEF CoreBand
    <3>2. Low(High(ref - 0, 0), ref) = ref /\ High(top, ref) \in Int /\ ref <= High(top, ref)
      BY <1>1 DEF Low, High
    <3> QED
      BY <1>1, <2>2, <3>1, <3>2
  <2> QED
    BY <2>1, <2>2
<1>3. PICK hi \in Int : open = <<ref, hi>> /\ ref <= hi
  BY <1>2
<1>4. Band(l, cards, m) \in {open, Into(open, NoAddInterval(now))}
  BY <1>1 DEF Band
<1>5. CASE Band(l, cards, m) = open
  BY <1>1, <1>3, <1>5 DEF Clip, Low, High
<1>6. CASE Band(l, cards, m) = Into(open, NoAddInterval(now))
  <2> DEFINE a == Clip(ref, <<Low(0, now), High(0, now)>>)
             b == High(a, Clip(hi, <<Low(0, now), High(0, now)>>))
  <2>1. Band(l, cards, m) = <<a, b>>
    BY <1>3, <1>6 DEF Into, NoAddInterval
  <2>2. a \in Int /\ b \in Int /\ a >= Low(ref, now) /\ a <= b
    BY <1>1 DEF Clip, Low, High
  <2>3. Clip(x, <<a, b>>) >= a
    <3> HIDE DEF a, b
    <3> QED
      BY <2>2 DEF Clip, Low, High
  <2>4. Clip(x, <<a, b>>) \in Int /\ Low(ref, now) \in Int
    <3> HIDE DEF a, b
    <3> QED
      BY <1>1, <2>2 DEF Clip, Low, High
  <2> QED
    <3> HIDE DEF a, b
    <3> QED
      BY <2>1, <2>2, <2>3, <2>4
<1> QED
  BY <1>4, <1>5, <1>6

(* A card that opens the band of a line rests on a shock.                        *)
LEMMA VolCardsSeen ==
    ASSUME NEW m, NEW l, QualifyingCut(l, VolCards(m))
    PROVE  l \in m.shocked
<1>1. PICK c \in VolCards(m) : l \in c.scope
  BY DEF QualifyingCut
<1>2. PICK k \in m.shocked \cap Admitted(m) :
        c = [type |-> "vol_shock", scope |-> {k}, direction |-> "risk_down", qualifying |-> TRUE]
  BY <1>1 DEF VolCards
<1> QED
  BY <1>1, <1>2

LEMMA CutSeen ==
    ASSUME NEW l, QualifyingCut(l, Cards)
    PROVE  l \in market.shocked \/ SeenTogether(l)
<1>1. PICK c \in Cards : c.type \in {"vol_shock", "news_material"} /\ c.qualifying /\ l \in c.scope
  BY DEF QualifyingCut
<1>2. CASE c \in VolCards(market)
  <2>1. QualifyingCut(l, VolCards(market))
    BY <1>1, <1>2 DEF QualifyingCut
  <2> QED
    BY <2>1, VolCardsSeen
<1>3. CASE c \in CheckDrafts("news", drafts.news, market)
  <2>1. PICK d \in drafts.news :
          /\ ~DraftProblem("news", d, market)
          /\ c = [type |-> d.type, scope |-> d.scope, direction |-> d.direction, qualifying |-> Corroborated(d, market)]
    BY <1>3 DEF CheckDrafts
  <2>2. Corroborated(d, market) /\ l \in d.scope
    BY <1>1, <2>1
  <2>3. PICK v \in VolCards(market) : v.scope \cap d.scope # {}
    BY <2>2 DEF Corroborated
  <2>4. PICK k \in market.shocked : v.scope = {k}
    BY <2>3 DEF VolCards
  <2>5. d.known /\ d.type = "news_material" /\ ~d.filing /\ d.scope \cap market.shocked # {}
    BY <2>1, <2>2, <2>3, <2>4 DEF DraftProblem, Corroborated
  <2> QED
    BY <2>2, <2>5 DEF SeenTogether
<1>4. CASE c \in CheckDrafts("macro", drafts.macro, market)
  <2>1. PICK d \in drafts.macro : ~DraftProblem("macro", d, market) /\ c.type = d.type
    BY <1>4 DEF CheckDrafts
  <2>2. c.type = "macro_context"
    BY <2>1 DEF DraftProblem, Writes
  <2> QED
    BY <1>1, <2>2
<1> QED
  BY <1>1, <1>2, <1>3, <1>4 DEF Cards

-----------------------------------------------------------------------------
(* The audit keeps every level a whole number.                                  *)
AuditRuns == [levels : [Universe -> Int], taken : SUBSET Universe, reverted : Int]

LEMMA AuditedWhole ==
    ASSUME NEW decision, Parses(decision), NEW cards, NEW m, \A l \in Universe : m.line[l].ref \in Int
    PROVE  Audited(decision, cards, m).levels \in [Universe -> Int]
<1> DEFINE S == DOMAIN decision.devs
           Step(r, i) == LET d == decision.devs[i] IN
                         IF Reverts(i, d, r.taken, cards, m) THEN [r EXCEPT !.reverted = @ + 1]
                         ELSE [r EXCEPT !.levels[d.line] = d.level, !.taken = @ \cup {d.line}]
           base == [levels |-> References(m), taken |-> {}, reverted |-> 0]
           seq == [i \in S |-> i]
           Body(F) == [T \in SUBSET S |-> IF T = {} THEN base ELSE LET i == Max(T) IN Step(F[T \ {i}], seq[i])]
           it == CHOOSE F : F = Body(F)
           st == [p \in S \X AuditRuns |-> Step(p[2], p[1])]
           pk == LastOf(S)
<1>1. PICK n \in 0 .. 3 : S = 1 .. n
  BY DEF Parses
<1>2. IsFiniteSet(S) /\ \A T \in SUBSET S : T # {} => pk[T] \in T
  <2>1. n \in Nat /\ IsFiniteSet(1 .. n)
    BY FS_Interval
  <2>2. \A T \in SUBSET (1 .. n) : T # {} => LastOf(1 .. n)[T] \in T
    BY <2>1, LastIsIn
  <2> QED
    BY <1>1, <2>1, <2>2
<1>3. base \in AuditRuns
  BY DEF AuditRuns, References
<1>4. ASSUME NEW r \in AuditRuns, NEW i \in S PROVE Step(r, i) \in AuditRuns
  <2> DEFINE d == decision.devs[i]
  <2>1. d.level \in Int
    BY DEF Parses
  <2>2. CASE Reverts(i, d, r.taken, cards, m)
    BY <2>2 DEF AuditRuns
  <2>3. CASE ~Reverts(i, d, r.taken, cards, m)
    <3>1. d.line \in Universe
      BY <2>3 DEF Reverts
    <3>2. [r.levels EXCEPT ![d.line] = d.level] \in [Universe -> Int]
      BY <2>1, <3>1 DEF AuditRuns
    <3> QED
      BY <2>3, <3>1, <3>2 DEF AuditRuns
  <2> QED
    BY <2>2, <2>3
<1>5. st \in [S \X AuditRuns -> AuditRuns]
  <2>1. \A p \in S \X AuditRuns : Step(p[2], p[1]) \in AuditRuns
    <3> HIDE DEF Step
    <3> QED
      BY <1>4
  <2> HIDE DEF Step
  <2> QED
    BY <2>1
<1>6. PICK G \in [SUBSET S -> AuditRuns] : Peeling(G, S, base, st, pk)
  <2> HIDE DEF S, base, st, pk
  <2> QED
    BY <1>2, <1>3, <1>5, SubsetRecursion
<1>7. ASSUME NEW T \in SUBSET S, T # {}, NEW r \in AuditRuns
      PROVE  pk[T] = Max(T) /\ st[<<pk[T], r>>] = LET i == Max(T) IN Step(r, seq[i])
  <2>1. pk[T] = Max(T)
    BY DEF LastOf, Max
  <2>2. pk[T] \in S
    BY <1>2, <1>7
  <2>3. st[<<pk[T], r>>] = Step(r, pk[T])
    <3> HIDE DEF Step, pk
    <3> QED
      BY <2>2
  <2>4. seq[pk[T]] = pk[T]
    BY <2>2
  <2> HIDE DEF pk, Step, seq, st
  <2> QED
    BY <2>1, <2>3, <2>4
<1>8. G = Body(G)
  <2>1. ASSUME NEW T \in SUBSET S PROVE G[T] = Body(G)[T]
    <3>1. G[T] = IF T = {} THEN base ELSE st[<<pk[T], G[T \ {pk[T]}]>>]
      BY <1>6 DEF Peeling
    <3>2. CASE T = {}
      <4> HIDE DEF Step, base, st, pk
      <4> QED
        BY <3>1, <3>2
    <3>3. CASE T # {}
      <4>1. G[T \ {pk[T]}] \in AuditRuns
        <5> HIDE DEF pk
        <5> QED
          OBVIOUS
      <4> HIDE DEF Step, base, st, pk, seq
      <4>2. pk[T] = Max(T) /\ G[T] = Step(G[T \ {Max(T)}], seq[Max(T)])
        BY <1>7, <3>1, <3>3, <4>1
      <4> QED
        BY <3>3, <4>2
    <3> QED
      BY <3>2, <3>3
  <2> HIDE DEF Step, base
  <2> QED
    BY <2>1
<1>9. it = Body(it)
  <2> HIDE DEF Body
  <2> QED
    BY <1>8
<1> HIDE DEF it
<1>10. \A T \in SUBSET S : it[T] \in AuditRuns
  <2> DEFINE P == {T \in SUBSET S : it[T] \in AuditRuns}
  <2>1. ASSUME NEW T \in SUBSET S, \A U \in SUBSET T : U # T => U \in P PROVE T \in P
    <3>1. it[T] = IF T = {} THEN base ELSE LET i == Max(T) IN Step(it[T \ {i}], seq[i])
      <4> HIDE DEF Step, base, seq
      <4> QED
        BY <1>9
    <3>2. CASE T = {}
      BY <1>3, <3>1, <3>2
    <3>3. CASE T # {}
      <4>1. Max(T) \in T
        BY <1>2, <1>3, <1>7, <3>3
      <4>2. T \ {Max(T)} \in P /\ seq[Max(T)] = Max(T)
        BY <2>1, <4>1
      <4> HIDE DEF Step, base, seq
      <4> QED
        BY <1>4, <3>1, <3>3, <4>1, <4>2
    <3> QED
      BY <3>2, <3>3
  <2>2. SUBSET S \subseteq P
    <3> HIDE DEF P, S
    <3> QED
      BY <1>2, <2>1, SubsetInduction
  <2> QED
    BY <2>2
<1>11. Audited(decision, cards, m).levels = it[S].levels
  BY DEF Audited, FoldLeftDomain, FoldLeft, MapThenFoldSet, it
<1> QED
  BY <1>10, <1>11 DEF AuditRuns

(* The medoid is one of the valid replicates.                                   *)
LEMMA DistanceWhole ==
    ASSUME NEW valid, IsFiniteSet(valid), NEW reps, \A i \in valid : reps[i].levels \in [Universe -> Int],
           NEW i \in valid
    PROVE  Distance(i, valid, reps) \in Int
<1>1. ASSUME NEW a \in [Universe -> Int], NEW b \in [Universe -> Int] PROVE Apart(a, b) \in Int
  <2> DEFINE f == [l \in Universe |-> Size(a[l] - b[l])]
  <2>1. \A l \in Universe : f[l] \in Int
    BY DEF Size, High
  <2>2. SumFunctionOnSet(f, Universe) \in Int
    <3>1. IntOn(f, Universe) /\ IsFiniteSet(Universe)
      BY <2>1, AuthorityConstants DEF IntOn
    <3> HIDE DEF f
    <3> QED
      BY <3>1, SumFacts
  <2> QED
    BY <2>2 DEF Apart, SumFunction
<1> DEFINE g == [j \in valid |-> Apart(reps[i].levels, reps[j].levels)]
<1>2. IntOn(g, valid)
  BY <1>1 DEF IntOn
<1>3. SumFunctionOnSet(g, valid) \in Int
  <2> HIDE DEF g
  <2> QED
    BY <1>2, SumFacts
<1> QED
  BY <1>3 DEF Distance, SumFunction

LEMMA MedoidIsValid ==
    ASSUME NEW valid \in SUBSET Replicates, valid # {}, NEW reps,
           \A i \in valid : reps[i].levels \in [Universe -> Int]
    PROVE  Medoid(valid, reps) \in valid
<1> DEFINE far == [i \in valid |-> Distance(i, valid, reps)]
<1>1. IsFiniteSet(valid) /\ valid \subseteq Nat
  BY AuthorityConstants, FS_Subset
<1>2. far \in [valid -> Int] /\ \A i \in valid : far[i] = Distance(i, valid, reps)
  BY <1>1, DistanceWhole
<1> HIDE DEF far
<1>3. PICK x \in valid : \A j \in valid : far[x] <= far[j]
  BY <1>1, <1>2, LeastValue
<1> DEFINE near == {j \in valid : far[j] = far[x]}
<1>4. PICK i \in near : \A j \in near : i <= j
  <2>1. near \in SUBSET Nat /\ near # {}
    BY <1>1
  <2> HIDE DEF near
  <2> QED
    BY <2>1, LeastNumber
<1>5. i \in valid /\ \A j \in valid : far[i] < far[j] \/ (far[i] = far[j] /\ i <= j)
  <2>1. i \in valid /\ far[i] = far[x] /\ \A j \in valid : far[j] \in Int /\ far[x] \in Int
    BY <1>2
  <2>2. ASSUME NEW j \in valid PROVE far[i] < far[j] \/ (far[i] = far[j] /\ i <= j)
    <3>1. CASE far[j] = far[x]
      BY <1>4, <2>1, <3>1
    <3>2. CASE far[j] # far[x]
      BY <1>3, <2>1, <3>2
    <3> QED
      BY <3>1, <3>2
  <2> QED
    BY <2>1, <2>2
<1>6. \E k \in valid : \A j \in valid :
        LET di == Distance(k, valid, reps)
            dj == Distance(j, valid, reps)
        IN di < dj \/ (di = dj /\ k <= j)
  BY <1>2, <1>5
<1> QED
  BY <1>6 DEF Medoid

-----------------------------------------------------------------------------
(* Where the levels of a result come from: the reference, or a whole level put in *)
(* the band.                                                                  *)
LEMMA ReplicateWhole ==
    ASSUME NEW reply, reply = <<>> \/ Parses(reply[1]), NEW cards, NEW m,
           \A l \in Universe : m.line[l].ref \in Int
    PROVE  \E v \in [Universe -> Int] : Replicate(reply, cards, m).levels = EnforceAuthority(v, cards, m)
<1>1. CASE reply = <<>>
  <2>1. References(m) \in [Universe -> Int]
    BY DEF References
  <2> QED
    BY <1>1, <2>1 DEF Replicate
<1>2. CASE reply # <<>>
  <2>1. Audited(reply[1], cards, m).levels \in [Universe -> Int]
    BY <1>2, AuditedWhole
  <2> QED
    BY <1>2, <2>1 DEF Replicate
<1> QED
  BY <1>1, <1>2

LineTyped(line) == /\ line.ref \in Int /\ line.current \in Int
                   /\ line.trend \in {"up", "mixed", "down", "none"}

LEMMA ClipWhole ==
    ASSUME NEW x \in Int, NEW a \in Int, NEW b \in Int
    PROVE  Clip(x, <<a, b>>) \in Int
BY DEF Clip, Low, High

LEMMA BandWhole ==
    ASSUME NEW m, NEW l, LineTyped(m.line[l]), NEW cards, NEW x \in Int
    PROVE  Clip(x, Band(l, cards, m)) \in Int
<1> DEFINE line == m.line[l]
           cut == QualifyingCut(l, cards)
           open == IF ~line.deviates THEN <<line.ref, line.ref>>
                   ELSE IF line.core THEN CoreBand(line, cut) ELSE OverlayBand(line)
<1>1. line.ref \in Int /\ line.current \in Int /\ line.trend \in {"up", "mixed", "down", "none"}
  BY DEF LineTyped
<1>2. CASE m.kill \in LATCHED \/ line.frozen \/ line.trend = "none"
  <2>1. Band(l, cards, m) \in {<<0, 0>>, <<line.current, line.current>>}
    BY <1>2 DEF Band
  <2>2. Clip(x, <<0, 0>>) \in Int /\ Clip(x, <<line.current, line.current>>) \in Int
    BY <1>1, ClipWhole
  <2> QED
    BY <2>1, <2>2
<1>3. CASE ~(m.kill \in LATCHED \/ line.frozen \/ line.trend = "none")
  <2>1. \E a, b \in Int : open = <<a, b>>
    <3>1. CASE ~line.deviates
      BY <1>1, <3>1
    <3>2. CASE line.deviates /\ line.core
      <4> DEFINE bot == High(line.ref - (IF cut THEN 2 ELSE 0), 0)
                 top == IF line.lever THEN Low(line.ref + 2, 6) ELSE line.ref
      <4>1. bot \in Int /\ top \in Int
        <5>1. CASE cut
          BY <1>1, <5>1 DEF Low, High
        <5>2. CASE ~cut
          BY <1>1, <5>2 DEF Low, High
        <5> QED
          BY <5>1, <5>2
      <4>2. CASE line.trend = "up"
        <5>1. CoreBand(line, cut) = <<Low(bot, line.ref), High(top, line.ref)>>
          BY <4>2 DEF CoreBand
        <5>2. Low(bot, line.ref) \in Int /\ High(top, line.ref) \in Int
          <6> HIDE DEF bot, top
          <6> QED
            BY <1>1, <4>1 DEF Low, High
        <5> QED
          BY <3>2, <5>1, <5>2
      <4>3. CASE line.trend = "mixed"
        <5>1. CoreBand(line, cut) = <<Low(0, line.ref), High(4, line.ref)>>
          BY <4>3 DEF CoreBand
        <5> QED
          BY <1>1, <3>2, <5>1 DEF Low, High
      <4>4. CASE line.trend = "down"
        <5>1. CoreBand(line, cut) \in {<<Low(-2, line.ref), High(1, line.ref)>>, <<Low(0, line.ref), High(1, line.ref)>>}
          BY <4>4 DEF CoreBand
        <5> QED
          BY <1>1, <3>2, <5>1 DEF Low, High
      <4> QED
        BY <1>1, <1>3, <4>2, <4>3, <4>4
    <3>3. CASE line.deviates /\ ~line.core
      <4>1. \E lo, hi \in Int : OverlayBand(line) = <<lo, hi>>
        <5>1. CASE line.trend = "up"
          BY <5>1 DEF OverlayBand, High
        <5>2. CASE line.trend = "mixed"
          BY <5>2 DEF OverlayBand, High
        <5>3. CASE line.trend = "down"
          BY <5>3 DEF OverlayBand, High
        <5> QED
          BY <1>1, <1>3, <5>1, <5>2, <5>3
      <4> QED
        BY <3>3, <4>1
    <3> QED
      BY <3>1, <3>2, <3>3
  <2>2. PICK a, b \in Int : open = <<a, b>>
    BY <2>1
  <2>3. Band(l, cards, m) \in {open, Into(open, NoAddInterval(line.current))}
    BY <1>3 DEF Band
  <2> HIDE DEF open
  <2>4. \E c, d \in Int : Into(<<a, b>>, NoAddInterval(line.current)) = <<c, d>>
    BY <1>1 DEF Into, NoAddInterval, Clip, Low, High
  <2> QED
    BY <2>2, <2>3, <2>4, ClipWhole
<1> QED
  BY <1>2, <1>3

LEMMA InTheBand ==
    ASSUME NEW cards, NEW v \in [Universe -> Int], market \in Markets, NEW l \in Universe, Cuttable(market, l),
           EnforceAuthority(v, cards, market)[l] < Low(market.line[l].ref, market.line[l].current)
    PROVE  QualifyingCut(l, cards)
<1> SUFFICES ASSUME ~QualifyingCut(l, cards) PROVE FALSE
  OBVIOUS
<1>1. EnforceAuthority(v, cards, market)[l] = Clip(v[l], Band(l, cards, market)) /\ v[l] \in Int
  BY DEF EnforceAuthority
<1>2. Clip(v[l], Band(l, cards, market)) >= Low(market.line[l].ref, market.line[l].current)
  BY <1>1, BandHolds
<1>3. Clip(v[l], Band(l, cards, market)) \in Int /\ Low(market.line[l].ref, market.line[l].current) \in Int
  <2>1. LineTyped(market.line[l])
    BY CouncilConstants DEF LineTyped
  <2>2. Low(market.line[l].ref, market.line[l].current) \in Int
    BY <2>1 DEF LineTyped, Low
  <2> QED
    BY <1>1, <2>1, <2>2, BandWhole
<1> QED
  BY <1>1, <1>2, <1>3

LEMMA AuditsCut ==
    ASSUME Audits, market \in Markets, heard \subseteq Replicates, NEW l \in Universe, Cuttable(market, l),
           result'.levels[l] < Low(market.line[l].ref, market.line[l].current)
    PROVE  QualifyingCut(l, Cards)
<1> DEFINE reps == [i \in Replicates |-> Replicate(replies'[i], Cards, market)]
           sum == Aggregate(reps, market)
           valid == {i \in Replicates : reps[i].valid}
<1>1. PICK said \in [heard -> {d \in Decisions(Cards) : Parses(d)}] :
        /\ replies' = [i \in Replicates |-> IF i \in heard THEN <<said[i]>> ELSE <<>>]
        /\ Ends(sum.basis, sum.levels)
  BY DEF Audits
<1>2. result'.levels = sum.levels
  BY <1>1 DEF Ends
<1>3. \A k \in Universe : LineTyped(market.line[k])
  BY CouncilConstants DEF LineTyped
<1>4. ASSUME NEW i \in Replicates
      PROVE  \E v \in [Universe -> Int] : reps[i].levels = EnforceAuthority(v, Cards, market)
  <2>1. replies'[i] = <<>> \/ Parses(replies'[i][1])
    BY <1>1
  <2>2. \A k \in Universe : market.line[k].ref \in Int
    BY <1>3 DEF LineTyped
  <2> QED
    BY <2>1, <2>2, ReplicateWhole
<1>5. \A i \in Replicates : reps[i].levels \in [Universe -> Int]
  <2> SUFFICES ASSUME NEW i \in Replicates PROVE reps[i].levels \in [Universe -> Int]
    OBVIOUS
  <2>1. PICK v \in [Universe -> Int] : reps[i].levels = EnforceAuthority(v, Cards, market)
    BY <1>4
  <2>2. \A k \in Universe : Clip(v[k], Band(k, Cards, market)) \in Int
    BY <1>3, BandWhole
  <2> QED
    BY <2>1, <2>2 DEF EnforceAuthority
<1>6. sum.levels[l] = market.line[l].ref \/ \E i \in Replicates : sum.levels[l] = reps[i].levels[l]
  <2>1. CASE Cardinality(valid) < 2
    BY <2>1 DEF Aggregate, References
  <2>2. CASE ~(Cardinality(valid) < 2)
    <3> DEFINE best == reps[Medoid(valid, reps)].levels
    <3>1. valid \in SUBSET Replicates /\ valid # {}
      <4>1. valid \in SUBSET Replicates
        OBVIOUS
      <4>2. valid # {}
        <5> HIDE DEF valid
        <5> QED
          BY <2>2, FS_EmptySet
      <4> QED
        BY <4>1, <4>2
    <3>2. Medoid(valid, reps) \in valid
      <4> HIDE DEF valid, reps
      <4> QED
        BY <1>5, <3>1, MedoidIsValid
    <3>3. sum.levels = [k \in Universe |-> IF k \in {x \in Universe : Cardinality(Sharing(x, best[x], valid, reps, market)) < 2}
                                            THEN market.line[k].ref ELSE best[k]]
      BY <2>2 DEF Aggregate
    <3> HIDE DEF valid, reps, sum
    <3> QED
      BY <3>1, <3>2, <3>3
  <2> QED
    BY <2>1, <2>2
<1>7. CASE sum.levels[l] = market.line[l].ref
  <2>1. market.line[l].ref \in Int /\ market.line[l].current \in Int
    BY <1>3 DEF LineTyped
  <2> HIDE DEF sum
  <2> QED
    BY <1>2, <1>7, <2>1 DEF Low
<1>8. CASE \E i \in Replicates : sum.levels[l] = reps[i].levels[l]
  <2>1. PICK i \in Replicates : sum.levels[l] = reps[i].levels[l]
    BY <1>8
  <2>2. PICK v \in [Universe -> Int] : reps[i].levels = EnforceAuthority(v, Cards, market)
    BY <1>4
  <2> HIDE DEF sum, reps
  <2> QED
    BY <1>2, <2>1, <2>2, InTheBand
<1> QED
  BY <1>6, <1>7, <1>8

(* For any cards and replies: an uptrend line goes below both its reference  *)
(* and its holding only on a shock the code has seen, on it or on a line a   *)
(* news card names with it (bands and audit).                                *)
THEOREM CutsNeedShocks == CouncilSpec => []CutNeedsShock
<1> DEFINE Inv == OverIsOver /\ market \in Markets /\ heard \subseteq Replicates /\ CutNeedsShock
<1>1. CouncilInit => Inv
  BY DEF CouncilInit, OverIsOver, CutNeedsShock
<1>2. Inv /\ [CouncilNext]_councilVars => Inv'
  <2> SUFFICES ASSUME Inv, [CouncilNext]_councilVars PROVE Inv'
    OBVIOUS
  <2>1. CASE UNCHANGED councilVars
    BY <2>1 DEF councilVars, OverIsOver, CutNeedsShock, SeenTogether
  <2>2. CASE CouncilNext
    <3>1. OverIsOver' /\ heard' \subseteq Replicates
      BY <2>2, CouncilSteps, HeardReplicates
    <3>2. UNCHANGED market
      BY <2>2 DEF CouncilNext, Replies, Misreplies, Fails, Refused, Calling, AsksAgain, GivesUp, SkipsHalted,
         SkipsStill, TimesOut, HearsAnalysts, HearsDebate, HearsManager, HearsControl, Begins, Audits
    <3>3. CutNeedsShock'
      <4> SUFFICES ASSUME NEW l \in Universe, phase' = "done", Cuttable(market, l),
                          result'.levels[l] < Low(market.line[l].ref, market.line[l].current)
                   PROVE  l \in market.shocked \/ SeenTogether(l)'
        BY CouncilConstants, <3>2 DEF CutNeedsShock, Cuttable
      <4>1. market.line[l].ref \in Int /\ market.line[l].current \in Int
        BY DEF Cuttable
      <4>2. References(market) \in [Universe -> Int] /\ References(market)[l] = market.line[l].ref
        BY CouncilConstants DEF References
      <4>3. CASE GivesUp
        <5>1. result'.levels[l] = market.line[l].ref
          BY <4>2, <4>3 DEF GivesUp, Ends
        <5> QED
          BY <4>1, <5>1 DEF Low
      <4>4. CASE SkipsStill \/ TimesOut
        <5>1. result'.levels = EnforceAuthority(References(market), VolCards(market), market)
          BY <4>4 DEF SkipsStill, TimesOut, Ends, CodeLevels
        <5> QED
          BY <4>2, <5>1, InTheBand, VolCardsSeen
      <4>5. CASE SkipsHalted
        BY <4>5 DEF SkipsHalted, Cuttable
      <4>6. CASE Audits
        <5>1. SeenTogether(l)' = SeenTogether(l)
          BY <4>6 DEF Audits, SeenTogether
        <5> QED
          BY <4>6, <5>1, AuditsCut, CutSeen
      <4> QED
        BY <2>2, <4>3, <4>4, <4>5, <4>6, CouncilSteps
    <3> QED
      BY <3>1, <3>2, <3>3
  <2> QED
    BY <2>1, <2>2
<1> QED
  BY <1>1, <1>2, PTL DEF CouncilSpec

-----------------------------------------------------------------------------
(* The budget of answers                                                     *)

Stages == {"news", "macro", "single_agent"}
Calls == Cardinality(Replicates)
One(K, x, n) == IF x \in K THEN n ELSE 0

LEMMA CallsNat == Calls \in Nat
BY AuthorityConstants, FS_CardinalityType DEF Calls

LEMMA StagesFinite == IsFiniteSet(Stages) /\ \A K \in SUBSET Stages : IsFiniteSet(K)
<1>1. IsFiniteSet({}) /\ IsFiniteSet({"news"}) /\ IsFiniteSet({"news"} \cup {"macro"})
  BY FS_EmptySet, FS_Singleton, FS_Union
<1>2. IsFiniteSet(({"news"} \cup {"macro"}) \cup {"single_agent"})
  BY <1>1, FS_Singleton, FS_Union
<1>3. Stages = ({"news"} \cup {"macro"}) \cup {"single_agent"}
  BY DEF Stages
<1> QED
  BY <1>2, <1>3, FS_Subset

LEMMA PlannedIs ==
    ASSUME NEW K \in SUBSET Stages
    PROVE  Planned(K) = 3 + Calls + One(K, "news", 1) + One(K, "macro", 1) + One(K, "single_agent", Calls)
<1> DEFINE f == [r \in K |-> CallsOf(r)]
           K1 == K \ {"news"}
           K2 == K1 \ {"macro"}
           K3 == K2 \ {"single_agent"}
<1>1. \A r \in K : f[r] = IF r = "single_agent" THEN Calls ELSE 1
  BY DEF CallsOf, Calls
<1>2. IntOn(f, K) /\ IsFiniteSet(K)
  BY <1>1, CallsNat, StagesFinite DEF IntOn
<1>3. Planned(K) = 3 + Calls + SumFunctionOnSet(f, K)
  BY DEF Planned, SumFunction, Calls
<1> HIDE DEF f
<1>4. SumFunctionOnSet(f, K) = (IF "news" \in K THEN f["news"] ELSE 0) + SumFunctionOnSet(f, K1)
  <2>1. Peels(f, K, "news")
    BY <1>2, SumPeel
  <2> QED
    BY <2>1 DEF Peels
<1>5. SumFunctionOnSet(f, K1) = (IF "macro" \in K1 THEN f["macro"] ELSE 0) + SumFunctionOnSet(f, K2)
  <2>1. K1 \in SUBSET K
    OBVIOUS
  <2> HIDE DEF K1
  <2>2. Peels(f, K1, "macro")
    BY <1>2, <2>1, SumPeel
  <2> QED
    BY <2>2 DEF Peels
<1>6. SumFunctionOnSet(f, K2) = (IF "single_agent" \in K2 THEN f["single_agent"] ELSE 0) + SumFunctionOnSet(f, K3)
  <2>1. K2 \in SUBSET K
    OBVIOUS
  <2> HIDE DEF K2
  <2>2. Peels(f, K2, "single_agent")
    BY <1>2, <2>1, SumPeel
  <2> QED
    BY <2>2 DEF Peels
<1>7. SumFunctionOnSet(f, K3) = 0
  <2>1. K3 = {} /\ IntOn(f, K3) /\ IsFiniteSet(K3)
    BY <1>2, FS_EmptySet DEF Stages, IntOn
  <2> HIDE DEF K3
  <2> QED
    BY <2>1, SumFacts
<1>8. /\ "news" \in K => f["news"] = 1
      /\ "macro" \in K => f["macro"] = 1
      /\ "single_agent" \in K => f["single_agent"] = Calls
      /\ "macro" \in K1 <=> "macro" \in K
      /\ "single_agent" \in K2 <=> "single_agent" \in K
  BY <1>1
<1>9. SumFunctionOnSet(f, K) = One(K, "news", 1) + (One(K, "macro", 1) + (One(K, "single_agent", Calls) + 0))
  <2>1. SumFunctionOnSet(f, K2) = One(K, "single_agent", Calls) + 0
    BY <1>6, <1>7, <1>8 DEF One
  <2>2. SumFunctionOnSet(f, K1) = One(K, "macro", 1) + (One(K, "single_agent", Calls) + 0)
    BY <1>5, <1>8, <2>1 DEF One
  <2> QED
    BY <1>4, <1>8, <2>2 DEF One
<1>10. One(K, "news", 1) \in Int /\ One(K, "macro", 1) \in Int /\ One(K, "single_agent", Calls) \in Int
  BY CallsNat DEF One
<1> QED
  BY <1>3, <1>9, <1>10, CallsNat

LEMMA PlannedWhole == \A K \in SUBSET Stages : Planned(K) \in Int
BY PlannedIs, CallsNat DEF One

(* The plan is inside the budget, but for the stages nothing can drop.            *)
LEMMA PlanFits ==
    ASSUME NEW m \in Markets
    PROVE  /\ PlanStages(m) \in SUBSET Stages /\ KeptStages(m) \in SUBSET PlanStages(m)
           /\ Planned(PlanStages(m)) <= High(m.budget, Planned({}))
<1> DEFINE left(k) == Optional(m) \ {DropOrder[i] : i \in 1..k}
           enough == {k \in 0..3 : k = 3 \/ Planned(left(k)) <= m.budget}
<1>1. PICK k \in enough : \A j \in enough : k <= j
  <2>1. enough \in SUBSET Nat /\ enough # {}
    OBVIOUS
  <2> HIDE DEF enough
  <2> QED
    BY <2>1, LeastNumber
<1>2. Min(enough) \in enough
  <2> HIDE DEF enough
  <2> QED
    BY <1>1 DEF Min
<1>3. PlanStages(m) = left(Min(enough))
  BY DEF PlanStages
<1>4. left(Min(enough)) \in SUBSET Stages
  <2> HIDE DEF enough
  <2> QED
    BY DEF Optional, Stages
<1>5. CASE Min(enough) = 3
  <2>1. {DropOrder[i] : i \in 1..3} = Stages
    BY DEF DropOrder, Stages
  <2>2. left(3) = {}
    BY <2>1 DEF Optional, Stages
  <2>3. Planned(left(3)) = Planned({}) /\ Planned({}) \in Int /\ m.budget \in Int
    BY <2>2, PlannedIs, CallsNat, CouncilConstants DEF One
  <2>4. Planned({}) <= High(m.budget, Planned({}))
    BY <2>3 DEF High
  <2> HIDE DEF enough, left
  <2> QED
    BY <1>3, <1>4, <1>5, <2>3, <2>4 DEF KeptStages
<1>6. CASE Min(enough) # 3
  <2>1. Planned(left(Min(enough))) <= m.budget
    BY <1>2, <1>6
  <2>2. Planned(PlanStages(m)) \in Int /\ Planned({}) \in Int /\ m.budget \in Int
    <3>1. {} \in SUBSET Stages
      OBVIOUS
    <3> HIDE DEF enough, left
    <3> QED
      BY <1>3, <1>4, <3>1, PlannedWhole, CouncilConstants
  <2>3. Planned(PlanStages(m)) <= m.budget
    BY <1>3, <2>1
  <2>4. Planned(PlanStages(m)) <= High(m.budget, Planned({}))
    BY <2>2, <2>3 DEF High
  <2> HIDE DEF enough, left
  <2> QED
    BY <1>3, <1>4, <2>4 DEF KeptStages
<1> QED
  BY <1>5, <1>6

-----------------------------------------------------------------------------
(* How many answers the plan allows before a stage begins.                      *)
Analysts == One(KeptStages(market), "news", 1) + One(KeptStages(market), "macro", 1)
Allowed(s) ==
    CASE s \in {"start", "specialists"} -> 0
      [] s = "debate" -> Analysts
      [] s = "pm" -> Analysts + 3
      [] s = "single_agent" -> Analysts + 3 + Calls
      [] OTHER -> Planned(PlanStages(market))

CallStates == [status : {"asked", "ok", "down", "parse_fail"}, turn : {1, 2}, step : Int]
IsAnswered(r) == r.turn = 2 \/ r.status = "ok"
Answered == {c \in DOMAIN calls : IsAnswered(calls[c])}
Phases == {"start", "specialists", "debate", "pm", "single_agent", "audit", "done"}

CallsTyped ==
    /\ market \in Markets /\ phase \in Phases
    /\ IF phase \in {"start", "done"} THEN calls = << >>
       ELSE calls \in [StageCalls(market, phase) -> CallStates]
    /\ phase = "single_agent" => "single_agent" \in KeptStages(market)
DownIsUnanswered == \A c \in DOMAIN calls : calls[c].status = "down" => calls[c].turn = 1
RebuttalWaits == phase = "debate" /\ calls[Bear].status # "ok" => calls[Rebuttal] = Asked
AnswersCounted == answers \in Int /\ answers <= Allowed(phase) + Cardinality(Answered)
BudgetInv == CallsTyped /\ DownIsUnanswered /\ RebuttalWaits /\ AnswersCounted

LEMMA StageSizes ==
    ASSUME market \in Markets, NEW s \in Phases
    PROVE  /\ IsFiniteSet(StageCalls(market, s))
           /\ Cardinality(StageCalls(market, s)) =
                CASE s = "specialists" -> Analysts
                  [] s = "debate" -> 3
                  [] s \in {"pm", "single_agent"} -> Calls
                  [] OTHER -> 0
<1> DEFINE C == StageCalls(market, s)
           K == KeptStages(market)
<1>1. CASE s = "specialists"
  <2> DEFINE N == {<<r, 1>> : r \in K \cap {"news"}}
             M == {<<r, 1>> : r \in K \cap {"macro"}}
  <2>1. C = N \cup M /\ N \cap M = {}
    BY <1>1 DEF StageCalls
  <2>2. IsFiniteSet(N) /\ Cardinality(N) = One(K, "news", 1)
    <3>1. CASE "news" \in K
      <4>1. N = {<<"news", 1>>}
        BY <3>1
      <4> HIDE DEF N
      <4> QED
        BY <3>1, <4>1, FS_Singleton DEF One
    <3>2. CASE "news" \notin K
      <4>1. N = {}
        BY <3>2
      <4> HIDE DEF N
      <4> QED
        BY <3>2, <4>1, FS_EmptySet DEF One
    <3> QED
      BY <3>1, <3>2
  <2>3. IsFiniteSet(M) /\ Cardinality(M) = One(K, "macro", 1)
    <3>1. CASE "macro" \in K
      <4>1. M = {<<"macro", 1>>}
        BY <3>1
      <4> HIDE DEF M
      <4> QED
        BY <3>1, <4>1, FS_Singleton DEF One
    <3>2. CASE "macro" \notin K
      <4>1. M = {}
        BY <3>2
      <4> HIDE DEF M
      <4> QED
        BY <3>2, <4>1, FS_EmptySet DEF One
    <3> QED
      BY <3>1, <3>2
  <2>4. Cardinality(N \cap M) = 0
    BY <2>1, FS_EmptySet
  <2> HIDE DEF N, M
  <2>5. IsFiniteSet(N \cup M) /\ Cardinality(N \cup M) = Cardinality(N) + Cardinality(M) - Cardinality(N \cap M)
    BY <2>2, <2>3, FS_Union
  <2>6. Cardinality(N) \in Int /\ Cardinality(M) \in Int
    BY <2>2, <2>3, FS_CardinalityType
  <2>7. Cardinality(N \cup M) = Analysts
    BY <2>2, <2>3, <2>4, <2>5, <2>6 DEF Analysts
  <2> QED
    BY <1>1, <2>1, <2>5, <2>7
<1>2. CASE s = "debate"
  <2> DEFINE A == {Bull}
             B == A \cup {Bear}
  <2>1. C = B \cup {Rebuttal}
    BY <1>2 DEF StageCalls, Bull, Bear, Rebuttal
  <2>2. IsFiniteSet(A) /\ Cardinality(A) = 1
    BY FS_Singleton
  <2>3. IsFiniteSet(B) /\ Cardinality(B) = 2
    <3>1. Bear \notin A
      BY DEF Bull, Bear
    <3> HIDE DEF A
    <3> QED
      BY <2>2, <3>1, OneMore
  <2>4. IsFiniteSet(C) /\ Cardinality(C) = 3
    <3>1. Rebuttal \notin B
      BY DEF Bull, Bear, Rebuttal
    <3> HIDE DEF B, C
    <3> QED
      BY <2>1, <2>3, <3>1, OneMore
  <2> QED
    BY <1>2, <2>4
<1>3. CASE s \in {"pm", "single_agent"}
  <2> DEFINE g == [i \in Replicates |-> <<s, i>>]
  <2>1. C = {<<s, i>> : i \in Replicates}
    BY <1>3 DEF StageCalls
  <2>2. g \in Bijection(Replicates, C)
    BY <2>1 DEF Bijection, Injection, Surjection, IsInjective
  <2>3. ExistsBijection(Replicates, C)
    BY <2>2 DEF ExistsBijection
  <2>4. IsFiniteSet(C) /\ Cardinality(C) = Cardinality(Replicates)
    <3> HIDE DEF C
    <3> QED
      BY <2>3, AuthorityConstants, FS_Bijection
  <2> QED
    BY <1>3, <2>4 DEF Calls
<1>4. CASE s \in {"start", "audit", "done"}
  <2>1. C = {}
    BY <1>4 DEF StageCalls
  <2> QED
    BY <1>4, <2>1, FS_EmptySet
<1> QED
  BY <1>1, <1>2, <1>3, <1>4 DEF Phases

LEMMA AllowedFits ==
    ASSUME market \in Markets, NEW s \in Phases, s = "single_agent" => "single_agent" \in KeptStages(market)
    PROVE  /\ Allowed(s) \in Int /\ Cardinality(StageCalls(market, s)) \in Int
           /\ 0 <= Cardinality(StageCalls(market, s))
           /\ Allowed(s) + Cardinality(StageCalls(market, s)) <= Planned(PlanStages(market))
<1> DEFINE P == PlanStages(market)
           K == KeptStages(market)
<1>1. P \in SUBSET Stages /\ K \in SUBSET P
  BY PlanFits
<1>2. Planned(P) = 3 + Calls + One(P, "news", 1) + One(P, "macro", 1) + One(P, "single_agent", Calls)
  <2> HIDE DEF P
  <2> QED
    BY <1>1, PlannedIs
<1>3. /\ Calls \in Nat
      /\ One(K, "news", 1) \in 0 .. 1 /\ One(K, "macro", 1) \in 0 .. 1
      /\ One(P, "news", 1) \in 0 .. 1 /\ One(P, "macro", 1) \in 0 .. 1
      /\ One(K, "news", 1) <= One(P, "news", 1) /\ One(K, "macro", 1) <= One(P, "macro", 1)
      /\ One(P, "single_agent", Calls) \in Nat
      /\ "single_agent" \in K => One(P, "single_agent", Calls) = Calls
  <2> HIDE DEF P, K
  <2> QED
    BY <1>1, CallsNat DEF One
<1> HIDE DEF P
<1>4. Cardinality(StageCalls(market, s)) =
                CASE s = "specialists" -> Analysts
                  [] s = "debate" -> 3
                  [] s \in {"pm", "single_agent"} -> Calls
                  [] OTHER -> 0
  BY StageSizes
<1>5. Analysts \in Nat /\ Analysts <= One(P, "news", 1) + One(P, "macro", 1)
  BY <1>3 DEF Analysts
<1>6. Planned(P) \in Int
  BY <1>2, <1>3
<1>7. CASE s = "start"
  BY <1>2, <1>3, <1>4, <1>7 DEF Allowed, P
<1>8. CASE s = "specialists"
  BY <1>2, <1>3, <1>4, <1>5, <1>8 DEF Allowed, P
<1>9. CASE s = "debate"
  BY <1>2, <1>3, <1>4, <1>5, <1>9 DEF Allowed, P
<1>10. CASE s = "pm"
  BY <1>2, <1>3, <1>4, <1>5, <1>10 DEF Allowed, P
<1>11. CASE s = "single_agent"
  BY <1>2, <1>3, <1>4, <1>5, <1>11 DEF Allowed, P
<1>12. CASE s \in {"audit", "done"}
  BY <1>4, <1>6, <1>12 DEF Allowed, P
<1> QED
  BY <1>7, <1>8, <1>9, <1>10, <1>11, <1>12 DEF Phases

(* What one step of a call does to it.                                          *)
LEMMA CallStep ==
    ASSUME BudgetInv, NEW c \in DOMAIN calls, Replies(c) \/ Misreplies(c) \/ Fails(c) \/ Refused(c)
    PROVE  /\ UNCHANGED <<market, phase>> /\ phase \notin {"start", "done"}
           /\ calls[c] \in CallStates /\ calls[c].status = "asked" /\ MayRun(c)
           /\ \E r \in CallStates :
                /\ calls' = [calls EXCEPT ![c] = r]
                /\ r.status = "down" => r.turn = 1
                /\ IsAnswered(calls[c]) => IsAnswered(r) /\ answers' = answers
                /\ ~IsAnswered(calls[c]) => answers' = answers + IF IsAnswered(r) THEN 1 ELSE 0
<1>1. /\ phase \notin {"start", "done"} /\ calls \in [StageCalls(market, phase) -> CallStates]
      /\ Running(c) /\ Calling
  BY DEF BudgetInv, CallsTyped, Replies, Misreplies, Fails, Refused
<1>2. calls[c] \in CallStates /\ calls[c].status = "asked" /\ MayRun(c) /\ UNCHANGED <<market, phase>>
  BY <1>1 DEF Running, CallOver, Calling
<1>3. calls[c].turn \in {1, 2} /\ calls[c].step \in Int /\ answers \in Int
  BY <1>2 DEF CallStates, BudgetInv, AnswersCounted
<1> DEFINE Done(r) == /\ calls' = [calls EXCEPT ![c] = r]
                      /\ r.status = "down" => r.turn = 1
                      /\ IsAnswered(calls[c]) => IsAnswered(r) /\ answers' = answers
                      /\ ~IsAnswered(calls[c]) => answers' = answers + IF IsAnswered(r) THEN 1 ELSE 0
<1>4. CASE Replies(c)
  <2> DEFINE r == [calls[c] EXCEPT !.status = "ok"]
  <2>1. r \in CallStates /\ r.turn = calls[c].turn /\ r.status = "ok"
    BY <1>2 DEF CallStates
  <2>2. calls' = [calls EXCEPT ![c] = r]
    BY <1>4 DEF Replies, CallEnds
  <2>3. answers' = answers + IF calls[c].turn = 1 THEN 1 ELSE 0
    BY <1>4 DEF Replies, Counts
  <2> HIDE DEF r
  <2>4. Done(r)
    BY <1>2, <1>3, <2>1, <2>2, <2>3 DEF IsAnswered
  <2> QED
    BY <1>1, <1>2, <2>1, <2>4
<1>5. CASE Misreplies(c) /\ calls[c].turn = 1
  <2> DEFINE r == [Asked EXCEPT !.turn = 2]
  <2>1. r \in CallStates /\ r.turn = 2 /\ r.status = "asked"
    BY DEF CallStates, Asked
  <2>2. calls' = [calls EXCEPT ![c] = r]
    BY <1>5 DEF Misreplies
  <2>3. answers' = answers + 1
    BY <1>5 DEF Misreplies, Counts
  <2> HIDE DEF r
  <2>4. Done(r)
    BY <1>2, <1>3, <1>5, <2>1, <2>2, <2>3 DEF IsAnswered
  <2> QED
    BY <1>1, <1>2, <2>1, <2>4
<1>6. CASE Misreplies(c) /\ calls[c].turn = 2
  <2> DEFINE r == [calls[c] EXCEPT !.status = "parse_fail"]
  <2>1. r \in CallStates /\ r.turn = 2 /\ r.status = "parse_fail"
    BY <1>2, <1>6 DEF CallStates
  <2>2. calls' = [calls EXCEPT ![c] = r]
    BY <1>6 DEF Misreplies, CallEnds
  <2>3. answers' = answers
    BY <1>3, <1>6 DEF Misreplies, Counts
  <2> HIDE DEF r
  <2>4. Done(r)
    BY <1>2, <1>3, <1>6, <2>1, <2>2, <2>3 DEF IsAnswered
  <2> QED
    BY <1>1, <1>2, <2>1, <2>4
<1>7. CASE Fails(c) /\ calls[c].step < Ladder
  <2> DEFINE r == [calls[c] EXCEPT !.step = @ + 1]
  <2>1. r \in CallStates /\ r.turn = calls[c].turn /\ r.status = "asked"
    BY <1>2, <1>3 DEF CallStates
  <2>2. calls' = [calls EXCEPT ![c] = r]
    BY <1>7 DEF Fails
  <2>3. answers' = answers
    BY <1>7 DEF Fails
  <2> HIDE DEF r
  <2>4. Done(r)
    BY <1>2, <1>3, <2>1, <2>2, <2>3 DEF IsAnswered
  <2> QED
    BY <1>1, <1>2, <2>1, <2>4
<1>8. CASE Lost(c) /\ UNCHANGED answers
  <2> DEFINE r == [calls[c] EXCEPT !.status = IF calls[c].turn = 1 THEN "down" ELSE "parse_fail"]
  <2>1. r \in CallStates /\ r.turn = calls[c].turn /\ r.status = IF calls[c].turn = 1 THEN "down" ELSE "parse_fail"
    BY <1>2, <1>3 DEF CallStates
  <2>2. calls' = [calls EXCEPT ![c] = r]
    BY <1>8 DEF Lost, CallEnds
  <2> HIDE DEF r
  <2>4. Done(r)
    BY <1>2, <1>3, <1>8, <2>1, <2>2 DEF IsAnswered
  <2> QED
    BY <1>1, <1>2, <2>1, <2>4
<1>9. CASE Misreplies(c)
  BY <1>3, <1>5, <1>6, <1>9
<1>10. CASE Fails(c)
  BY <1>7, <1>8, <1>10 DEF Fails
<1>11. CASE Refused(c)
  BY <1>8, <1>11 DEF Refused
<1> QED
  BY <1>4, <1>9, <1>10, <1>11

LEMMA AnsweredFinite ==
    ASSUME CallsTyped
    PROVE  /\ IsFiniteSet(DOMAIN calls) /\ IsFiniteSet(Answered) /\ Cardinality(Answered) \in Nat
           /\ phase \in {"start", "done"} => Answered = {} /\ Cardinality(Answered) = 0
           /\ phase \notin {"start", "done"} =>
                DOMAIN calls = StageCalls(market, phase) /\ Cardinality(Answered) <= Cardinality(StageCalls(market, phase))
<1>1. CASE phase \in {"start", "done"}
  <2>1. DOMAIN calls = {} /\ Answered = {}
    BY <1>1 DEF CallsTyped, Answered
  <2> QED
    BY <1>1, <2>1, FS_EmptySet
<1>2. CASE phase \notin {"start", "done"}
  <2>1. DOMAIN calls = StageCalls(market, phase) /\ Answered \subseteq DOMAIN calls
    BY <1>2 DEF CallsTyped, Answered
  <2>2. IsFiniteSet(StageCalls(market, phase))
    BY StageSizes DEF CallsTyped
  <2>3. IsFiniteSet(Answered) /\ Cardinality(Answered) <= Cardinality(StageCalls(market, phase))
    BY <2>1, <2>2, FS_Subset
  <2> QED
    BY <1>2, <2>1, <2>2, <2>3, FS_CardinalityType
<1> QED
  BY <1>1, <1>2

LEMMA BudgetInvGives == BudgetInv => AnswersFitBudget
<1> SUFFICES ASSUME BudgetInv PROVE AnswersFitBudget
  OBVIOUS
<1>1. market \in Markets /\ phase \in Phases /\ CallsTyped
      /\ (phase = "single_agent" => "single_agent" \in KeptStages(market))
  BY DEF BudgetInv, CallsTyped
<1>2. Planned(PlanStages(market)) <= High(market.budget, Planned({})) /\ PlanStages(market) \in SUBSET Stages
  BY <1>1, PlanFits
<1>3. /\ Allowed(phase) \in Int /\ Cardinality(StageCalls(market, phase)) \in Int
      /\ 0 <= Cardinality(StageCalls(market, phase))
      /\ Allowed(phase) + Cardinality(StageCalls(market, phase)) <= Planned(PlanStages(market))
  BY <1>1, AllowedFits
<1>4. Cardinality(Answered) \in Nat /\ Cardinality(Answered) <= Cardinality(StageCalls(market, phase))
  BY <1>1, <1>3, AnsweredFinite
<1>5. Planned(PlanStages(market)) \in Int
  BY <1>2, PlannedWhole
<1>6. answers <= Planned(PlanStages(market))
  BY <1>3, <1>4, <1>5 DEF BudgetInv, AnswersCounted
<1> QED
  BY <1>2, <1>6 DEF AnswersFitBudget

LEMMA EnterKeeps ==
    ASSUME CallsTyped, answers' = answers, market' = market, NEW s \in Phases \ {"start", "done"}, NEW n,
           s = "single_agent" => "single_agent" \in KeptStages(market),
           Enters(s, n), answers \in Int, answers <= Allowed(s)
    PROVE  BudgetInv'
<1>1. phase' = s /\ calls' = [c \in StageCalls(market, s) |-> Asked]
  BY DEF Enters
<1>2. Asked \in CallStates /\ Asked.status = "asked" /\ Asked.turn = 1
  BY DEF Asked, CallStates
<1> HIDE DEF Asked
<1>3. CallsTyped'
  <2>1. calls' \in [StageCalls(market, s) -> CallStates]
    BY <1>1, <1>2
  <2>2. StageCalls(market, s)' = StageCalls(market', phase') /\ KeptStages(market') = KeptStages(market)
    BY <1>1
  <2> QED
    BY <1>1, <2>1, <2>2 DEF CallsTyped
<1>4. DOMAIN calls' = StageCalls(market, s) /\ \A c \in DOMAIN calls' : calls'[c] = Asked
  BY <1>1
<1>5. DownIsUnanswered'
  BY <1>2, <1>4 DEF DownIsUnanswered
<1>6. RebuttalWaits'
  <2>1. CASE s = "debate"
    <3>1. Rebuttal \in DOMAIN calls'
      BY <1>4, <2>1 DEF Rebuttal, StageCalls
    <3> QED
      BY <1>4, <3>1 DEF RebuttalWaits
  <2> QED
    BY <1>1, <2>1 DEF RebuttalWaits
<1>7. Answered' = {} /\ Cardinality(Answered') = 0
  <2>1. Answered' = {}
    BY <1>2, <1>4 DEF Answered, IsAnswered
  <2> QED
    BY <2>1, FS_EmptySet
<1>8. Allowed(s)' = Allowed(s) /\ Allowed(phase)' = Allowed(s)'
  BY <1>1 DEF Allowed, Analysts
<1>9. Allowed(s) \in Int
  BY AllowedFits DEF CallsTyped
<1>10. AnswersCounted'
  <2>1. Cardinality(Answered)' = 0
    BY <1>7
  <2> QED
    BY <1>8, <1>9, <2>1 DEF AnswersCounted
<1> QED
  BY <1>3, <1>5, <1>6, <1>10 DEF BudgetInv

LEMMA EndKeeps ==
    ASSUME BudgetInv, answers' = answers, market' = market, NEW b, NEW v, Ends(b, v)
    PROVE  BudgetInv'
<1>1. phase' = "done" /\ calls' = << >>
  BY DEF Ends
<1>2. CallsTyped'
  BY <1>1 DEF BudgetInv, CallsTyped, Phases
<1>3. Answered' = {} /\ DOMAIN calls' = {}
  BY <1>1 DEF Answered
<1>4. Cardinality(Answered') = 0
  BY <1>3, FS_EmptySet
<1>5. Allowed(phase)' = Planned(PlanStages(market))
  BY <1>1 DEF Allowed
<1>6. answers <= Planned(PlanStages(market)) /\ Planned(PlanStages(market)) \in Int
  BY BudgetInvGives, PlanFits, PlannedWhole DEF AnswersFitBudget, BudgetInv, CallsTyped
<1>7. AnswersCounted'
  <2>1. Cardinality(Answered)' = 0
    BY <1>4
  <2> QED
    BY <1>5, <1>6, <2>1 DEF AnswersCounted, BudgetInv
<1> QED
  BY <1>1, <1>2, <1>3, <1>7 DEF BudgetInv, DownIsUnanswered, RebuttalWaits

LEMMA CallKeeps ==
    ASSUME BudgetInv, NEW c \in DOMAIN calls, Replies(c) \/ Misreplies(c) \/ Fails(c) \/ Refused(c)
    PROVE  BudgetInv'
<1>1. /\ market' = market /\ phase' = phase /\ phase \notin {"start", "done"}
      /\ calls[c] \in CallStates /\ calls[c].status = "asked" /\ MayRun(c)
  BY CallStep
<1>2. PICK r \in CallStates :
        /\ calls' = [calls EXCEPT ![c] = r]
        /\ r.status = "down" => r.turn = 1
        /\ IsAnswered(calls[c]) => IsAnswered(r) /\ answers' = answers
        /\ ~IsAnswered(calls[c]) => answers' = answers + IF IsAnswered(r) THEN 1 ELSE 0
  BY CallStep
<1>3. calls \in [StageCalls(market, phase) -> CallStates] /\ calls' \in [StageCalls(market, phase) -> CallStates]
  BY <1>1, <1>2 DEF BudgetInv, CallsTyped
<1>4. calls'[c] = r /\ \A d \in DOMAIN calls : d # c => calls'[d] = calls[d]
  BY <1>2, <1>3
<1>5. DOMAIN calls' = DOMAIN calls
  BY <1>2
<1>6. CallsTyped'
  <2>1. StageCalls(market', phase') = StageCalls(market, phase) /\ KeptStages(market') = KeptStages(market)
    BY <1>1
  <2> QED
    BY <1>1, <1>3, <2>1 DEF BudgetInv, CallsTyped
<1>7. DownIsUnanswered'
  BY <1>2, <1>4, <1>5 DEF BudgetInv, DownIsUnanswered
<1>8. RebuttalWaits'
  <2> SUFFICES ASSUME phase = "debate", calls'[Bear].status # "ok" PROVE calls'[Rebuttal] = Asked
    BY <1>1 DEF RebuttalWaits
  <2>1. Bear \in DOMAIN calls /\ Rebuttal \in DOMAIN calls /\ Bear # Rebuttal
    BY <1>3 DEF Bear, Rebuttal, StageCalls
  <2>2. CASE c = Rebuttal
    BY <1>1, <1>4, <2>1, <2>2 DEF MayRun
  <2>3. CASE c # Rebuttal
    <3>1. calls[Bear].status # "ok"
      BY <1>1, <1>4, <2>1
    <3> QED
      BY <1>4, <2>1, <2>3, <3>1 DEF BudgetInv, RebuttalWaits
  <2> QED
    BY <2>2, <2>3
<1>9. AnswersCounted'
  <2>1. IsFiniteSet(Answered) /\ Cardinality(Answered) \in Nat
    BY AnsweredFinite DEF BudgetInv
  <2>2. Allowed(phase)' = Allowed(phase) /\ Allowed(phase) \in Int /\ answers \in Int
        /\ answers <= Allowed(phase) + Cardinality(Answered)
    BY <1>1, AllowedFits DEF BudgetInv, CallsTyped, AnswersCounted, Allowed, Analysts
  <2>3. CASE IsAnswered(calls[c]) \/ ~IsAnswered(r)
    <3>1. Answered' = Answered /\ answers' = answers
      BY <1>2, <1>4, <1>5, <2>2, <2>3 DEF Answered
    <3>2. Cardinality(Answered)' = Cardinality(Answered)
      BY <3>1
    <3> QED
      BY <2>2, <3>1, <3>2 DEF AnswersCounted
  <2>4. CASE ~IsAnswered(calls[c]) /\ IsAnswered(r)
    <3>1. Answered' = Answered \cup {c} /\ c \notin Answered /\ answers' = answers + 1
      BY <1>2, <1>4, <1>5, <2>4 DEF Answered
    <3>2. Cardinality(Answered') = Cardinality(Answered) + 1
      BY <2>1, <3>1, OneMore
    <3>3. Cardinality(Answered)' = Cardinality(Answered) + 1
      BY <3>2
    <3> QED
      BY <2>1, <2>2, <3>1, <3>3 DEF AnswersCounted
  <2> QED
    BY <2>3, <2>4
<1> QED
  BY <1>6, <1>7, <1>8, <1>9 DEF BudgetInv

(* The answers of a stage that is over are no more than its calls.               *)
LEMMA StageCounted ==
    ASSUME BudgetInv, phase \notin {"start", "done"}
    PROVE  /\ answers \in Int /\ Allowed(phase) \in Int
           /\ answers <= Allowed(phase) + Cardinality(StageCalls(market, phase))
<1>1. Cardinality(Answered) \in Nat /\ Cardinality(Answered) <= Cardinality(StageCalls(market, phase))
  BY AnsweredFinite DEF BudgetInv
<1>2. Allowed(phase) \in Int /\ Cardinality(StageCalls(market, phase)) \in Int
  BY AllowedFits DEF BudgetInv, CallsTyped
<1> QED
  BY <1>1, <1>2 DEF BudgetInv, AnswersCounted

(* A stage is asked again only when nothing was answered in it.                  *)
LEMMA AgainUnanswered ==
    ASSUME BudgetInv, StageOver, Down
    PROVE  answers <= Allowed(phase) /\ phase \notin {"start", "done"}
<1>1. phase \notin {"start", "done"} /\ calls \in [StageCalls(market, phase) -> CallStates]
  BY DEF StageOver, BudgetInv, CallsTyped
<1>2. ASSUME NEW c \in DOMAIN calls PROVE ~IsAnswered(calls[c])
  <2>1. CASE CallOver(c)
    <3>1. calls[c].status = "down"
      BY <2>1 DEF Down, Made
    <3>2. calls[c].turn = 1
      BY <3>1 DEF BudgetInv, DownIsUnanswered
    <3> QED
      BY <3>1, <3>2 DEF IsAnswered
  <2>2. CASE ~CallOver(c)
    <3>1. c = Rebuttal /\ ~MayRun(c)
      BY <2>2 DEF StageOver
    <3>2. calls[Bear].status # "ok"
      BY <3>1 DEF MayRun, Bear, Rebuttal
    <3>3. phase = "debate"
      BY <1>1, <3>1 DEF Rebuttal, StageCalls, Phases, BudgetInv, CallsTyped
    <3>4. calls[c] = Asked
      BY <3>1, <3>2, <3>3 DEF BudgetInv, RebuttalWaits
    <3> QED
      BY <3>4 DEF IsAnswered, Asked
  <2> QED
    BY <2>1, <2>2
<1>3. Answered = {} /\ Cardinality(Answered) = 0
  <2>1. Answered = {}
    BY <1>2 DEF Answered
  <2> QED
    BY <2>1, FS_EmptySet
<1>4. Allowed(phase) \in Int
  BY AllowedFits DEF BudgetInv, CallsTyped
<1> QED
  BY <1>1, <1>3, <1>4 DEF BudgetInv, AnswersCounted

(* For any ladder, budget and number of stage retries: a run counts no more  *)
(* answers than its plan of calls, and the plan fits the budget.             *)
THEOREM RetriesBuyNoAnswers == CouncilSpec => []AnswersFitBudget
<1>1. CouncilInit => BudgetInv
  <2> SUFFICES ASSUME CouncilInit PROVE BudgetInv
    OBVIOUS
  <2>1. CallsTyped
    BY DEF CouncilInit, CallsTyped, Phases
  <2>2. Answered = {} /\ DOMAIN calls = {}
    BY DEF CouncilInit, Answered
  <2>3. Cardinality(Answered) = 0
    BY <2>2, FS_EmptySet
  <2>4. answers = 0 /\ Allowed(phase) = 0 /\ phase = "start"
    BY DEF CouncilInit, Allowed
  <2> QED
    BY <2>1, <2>2, <2>3, <2>4 DEF BudgetInv, DownIsUnanswered, RebuttalWaits, AnswersCounted
<1>2. BudgetInv /\ [CouncilNext]_councilVars => BudgetInv'
  <2> SUFFICES ASSUME BudgetInv, [CouncilNext]_councilVars PROVE BudgetInv'
    OBVIOUS
  <2> USE DEF BudgetInv
  <2>1. CASE UNCHANGED councilVars
    BY <2>1 DEF councilVars, CallsTyped, DownIsUnanswered, RebuttalWaits, AnswersCounted, Answered, Allowed, Analysts
  <2>2. ASSUME NEW c \in DOMAIN calls, Replies(c) \/ Misreplies(c) \/ Fails(c) \/ Refused(c) PROVE BudgetInv'
    BY <2>2, CallKeeps
  <2> HIDE DEF BudgetInv
  <2>a. CallsTyped /\ market \in Markets /\ phase \in Phases
        /\ (phase = "single_agent" => "single_agent" \in KeptStages(market))
    BY DEF BudgetInv, CallsTyped
  <2>b. Allowed(phase) \in Int /\ answers \in Int
    BY <2>a, AllowedFits DEF BudgetInv, AnswersCounted
  <2>c. /\ phase # "start" /\ phase # "done" => answers <= Allowed(phase) + Cardinality(StageCalls(market, phase))
        /\ Cardinality(StageCalls(market, phase)) =
                CASE phase = "specialists" -> Analysts
                  [] phase = "debate" -> 3
                  [] phase \in {"pm", "single_agent"} -> Calls
                  [] OTHER -> 0
    BY <2>a, StageCounted, StageSizes
  <2>d. Analysts \in Nat /\ Calls \in Nat
    BY CallsNat DEF Analysts, One
  <2>3. CASE AsksAgain
    BY <2>3, <2>a, <2>b, AgainUnanswered, EnterKeeps DEF AsksAgain
  <2>4. CASE GivesUp \/ SkipsHalted \/ SkipsStill \/ TimesOut
    BY <2>4, EndKeeps DEF GivesUp, SkipsHalted, SkipsStill, TimesOut
  <2>5. CASE Audits
    <3>1. \E b, v : Ends(b, v)
      BY <2>5 DEF Audits
    <3> QED
      BY <2>5, <3>1, EndKeeps DEF Audits
  <2>6. CASE Begins
    <3>1. answers <= 0
      <4>1. phase = "start" /\ Cardinality(Answered) = 0 /\ Allowed(phase) = 0
        BY <2>6, <2>a, AnsweredFinite DEF Begins, Allowed
      <4> QED
        BY <2>b, <4>1 DEF BudgetInv, AnswersCounted
    <3>2. answers <= Allowed("specialists") /\ answers <= Allowed("debate")
      BY <2>b, <2>d, <3>1 DEF Allowed
    <3> DEFINE s == IF KeptStages(market) \cap {"news", "macro"} # {} THEN "specialists" ELSE "debate"
    <3>3. Enters(s, 0) /\ answers' = answers /\ market' = market
      BY <2>6 DEF Begins
    <3>4. s \in Phases \ {"start", "done"} /\ s # "single_agent" /\ answers <= Allowed(s)
      BY <3>2 DEF Phases
    <3> HIDE DEF s
    <3> QED
      BY <2>a, <2>b, <3>3, <3>4, EnterKeeps
  <2>7. CASE HearsAnalysts
    <3>1. Enters("debate", 0) /\ answers' = answers /\ market' = market /\ phase = "specialists"
      BY <2>7 DEF HearsAnalysts
    <3>2. answers <= Allowed("debate")
      BY <2>b, <2>c, <2>d, <3>1 DEF Allowed
    <3>3. "debate" \in Phases \ {"start", "done"}
      BY DEF Phases
    <3> QED
      BY <2>a, <2>b, <3>1, <3>2, <3>3, EnterKeeps
  <2>8. CASE HearsDebate
    <3>1. Enters("pm", 0) /\ answers' = answers /\ market' = market /\ phase = "debate"
      BY <2>8 DEF HearsDebate
    <3>2. answers <= Allowed("pm")
      BY <2>b, <2>c, <2>d, <3>1 DEF Allowed
    <3>3. "pm" \in Phases \ {"start", "done"}
      BY DEF Phases
    <3> QED
      BY <2>a, <2>b, <3>1, <3>2, <3>3, EnterKeeps
  <2>9. CASE HearsManager
    <3> DEFINE s == IF "single_agent" \in KeptStages(market) THEN "single_agent" ELSE "audit"
    <3>1. Enters(s, 0) /\ answers' = answers /\ market' = market /\ phase = "pm"
      BY <2>9 DEF HearsManager
    <3>2. answers <= Analysts + 3 + Calls
      BY <2>b, <2>c, <2>d, <3>1 DEF Allowed
    <3>3. CASE s = "single_agent"
      <4>1. answers <= Allowed("single_agent") /\ "single_agent" \in Phases \ {"start", "done"}
            /\ "single_agent" \in KeptStages(market)
        BY <3>2, <3>3 DEF Allowed, Phases
      <4> QED
        BY <2>a, <2>b, <3>1, <3>3, <4>1, EnterKeeps
    <3>4. CASE s = "audit"
      <4>1. answers <= Allowed("audit")
        <5>1. Allowed("pm") + Cardinality(StageCalls(market, "pm")) <= Planned(PlanStages(market))
          BY <2>a, <3>1, AllowedFits
        <5>2. Allowed("audit") \in Int
          BY <2>a, AllowedFits DEF Phases
        <5> QED
          BY <2>b, <2>c, <2>d, <3>1, <5>1, <5>2 DEF Allowed
      <4>2. "audit" \in Phases \ {"start", "done"}
        BY DEF Phases
      <4> QED
        BY <2>a, <2>b, <3>1, <3>4, <4>1, <4>2, EnterKeeps
    <3> QED
      BY <3>3, <3>4
  <2>10. CASE HearsControl
    <3>1. Enters("audit", 0) /\ answers' = answers /\ market' = market /\ phase = "single_agent"
      BY <2>10 DEF HearsControl
    <3>2. Allowed("single_agent") + Cardinality(StageCalls(market, "single_agent")) <= Planned(PlanStages(market))
      BY <2>a, <3>1, AllowedFits
    <3>3. Allowed("audit") \in Int /\ Allowed("audit") = Planned(PlanStages(market))
      BY <2>a, AllowedFits DEF Phases, Allowed
    <3>4. answers <= Allowed("audit") /\ "audit" \in Phases \ {"start", "done"}
      BY <2>b, <2>c, <2>d, <3>1, <3>2, <3>3 DEF Phases
    <3> QED
      BY <2>a, <2>b, <3>1, <3>4, EnterKeeps
  <2> QED
    BY <2>1, <2>2, <2>3, <2>4, <2>5, <2>6, <2>7, <2>8, <2>9, <2>10 DEF CouncilNext
<1> QED
  BY <1>1, <1>2, BudgetInvGives, PTL DEF CouncilSpec
=============================================================================
