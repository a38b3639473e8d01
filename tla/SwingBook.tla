------------------------------- MODULE SwingBook -------------------------------
(***************************************************************************)
(* The swing book from slot to slot, inside the cycle it runs in (Cycle):   *)
(* the stage settles what earlier slots offered, latches the pauses, reads  *)
(* the book, and admits entries by the rules that look at the whole book:   *)
(* capacity, one trade a ticker, the weekly cap and the pauses.  What it    *)
(* admits is offered in the cycle's proposal; the operator approves it, the *)
(* executor fills it, and positions close while later cycles run.           *)
(*                                                                         *)
(* The pauses are one row of the ledger that the cycle and the operator's   *)
(* lift each load, change and save; the lift takes no lock.                 *)
(*                                                                         *)
(* A trade is named by its slot and ticker.  How one trade's row, legs and  *)
(* positions agree is SwingTrades; here an open trade stands for every      *)
(* state with a position, and its close for every way to lose it.  The      *)
(* rules about one idea alone (liquidity, levels, costs, earnings) and the  *)
(* council behind it are the choice of the ideas that come to the pass.     *)
(* Left out: a read of the pauses that fails counts as no pause (brake.load). *)
(***************************************************************************)
EXTENDS Cycle

CONSTANTS Tickers,       \* the names the ideas are about
          MaxOpen,       \* capacity.max_open (S2)
          Pauses,        \* of the losses (s15), of the skeptic (canary)
          MaxNew, Week   \* capacity.max_new_7d (S3) and its window, in slots

ASSUME SwingBookAssumption ==
    MaxOpen \in Nat /\ MaxNew \in Nat /\ Week \in Nat /\ IsFiniteSet(Tickers)

VARIABLES trade,      \* the trade a slot made of a ticker
          pause,      \* runtime swing_brake: which pauses are on
          stage,      \* the swing stage of the running cycle
          lift        \* the operator's lift: the pause, and the row as it was loaded

book == <<trade, pause, stage, lift>>
bookVars == <<vars, book>>

NoStage == [at |-> "settle", loaded |-> {}, entries |-> {}]
NoLift == [of |-> "none", loaded |-> {}]

(* models.py: a proposal counts like a position, also one whose decision a       *)
(* second run of its slot replaced (`orphan`).  An entry whose row could not be *)
(* written is `lost`, and the row a fill then makes itself is `bare`: it knows   *)
(* no size, and the rules leave it out.                                       *)
Sized == {"proposed", "orphan", "open"}
ActiveStates == Sized \cup {"bare"}

BookInit ==
    /\ Init
    /\ trade = [s \in Slots |-> [t \in Tickers |-> Absent]]
    /\ pause = {} /\ stage = NoStage /\ lift = NoLift

-----------------------------------------------------------------------------
(* The stage: between the reads of the cycle and its risk engine *)

InStage(at) == run.at = "evaluate" /\ stage.at = at

Trades(states) == {st \in Slots \X Tickers : trade[st[1]][st[2]] \in states}

(* settle_swing: a proposal whose decision is over becomes missed, except one   *)
(* whose entry was sent and whose fate nobody recorded; one row may fail.      *)
Settles ==
    /\ InStage("settle")
    /\ \E missed \in SUBSET (Trades({"orphan"}) \cup
                             {st \in Trades({"proposed"}) : dec[st[1]].state = "over"}) :
          trade' = [s \in Slots |-> [t \in Tickers |->
                       IF <<s, t>> \in missed THEN "gone" ELSE trade[s][t]]]
    /\ stage' = [stage EXCEPT !.at = "load"]
    /\ UNCHANGED <<vars, pause, lift>>

LoadsPauses ==
    /\ InStage("load")
    /\ stage' = [stage EXCEPT !.at = "save", !.loaded = pause]
    /\ UNCHANGED <<vars, trade, pause, lift>>

(* brake.step: the loss of the book and the grades of the skeptic engage a       *)
(* pause, nothing here releases one; saved as a whole when something changed    *)
(* (note_canary saves always).                                                *)
SavesPauses ==
    /\ InStage("save")
    /\ \E engaged \in SUBSET Pauses :
          pause' \in {stage.loaded \cup engaged} \cup (IF engaged = {} THEN {pause} ELSE {})
    /\ stage' = [stage EXCEPT !.at = "pass", !.loaded = {}]
    /\ UNCHANGED <<vars, trade, lift>>

(* _book_state: entries_7d.  A trade that has closed is no longer counted.      *)
EntriesOfWeek == {st \in Trades(ActiveStates \ {"proposed"}) : slot - st[1] < Week}

(* Mutant: an offer does not count until it is filled.                         *)
CountedOnceOpen == Trades({"open"})

(* BookState.trades.                                                          *)
Counted == Trades(Sized)

(* final_pass with book_check: one after the other, each against the book with  *)
(* those accepted before it.                                                  *)
Admissible(entries) ==
    /\ entries \cap {st[2] : st \in Counted} = {}
    /\ Cardinality(Counted) + Cardinality(entries) <= MaxOpen
    /\ Cardinality(EntriesOfWeek) + Cardinality(entries) <= MaxNew
    /\ pause = {} /\ ~run.halted

(* The pass at a swing slot; at another slot, without sources or after an error *)
(* the stage admits nothing.                                                  *)
Passes ==
    /\ InStage("pass")
    /\ \E entries \in SUBSET Tickers :
          /\ entries # {} => Admissible(entries)
          /\ stage' = [stage EXCEPT !.at = "done", !.entries = entries]
    /\ UNCHANGED <<vars, trade, pause, lift>>

(* The engine and the planner keep some of the entries (all, for the pass chose *)
(* any number); a blocker of the whole book and a latched switch keep none.    *)
EvaluatesBook ==
    /\ stage.at = "done"
    /\ Evaluates
    /\ stage' = IF run'.kind \in {"rebalance", "compliance"} THEN stage
                ELSE [stage EXCEPT !.entries = {}]
    /\ UNCHANGED <<trade, pause, lift>>

(* record_swing_decision, after the legs: a row for each entry, each in a        *)
(* transaction of its own that may fail: a second run of the slot names its     *)
(* trades like the first, and a row that is there already is refused.          *)
RecordsTrade(t) ==
    /\ run.at = "record" /\ run.kind # Absent /\ t \in stage.entries
    /\ \E row \in {"proposed", "lost"} :
          /\ row = "proposed" => trade[slot][t] = Absent
          /\ trade' = [trade EXCEPT ![slot][t] = IF @ = Absent THEN row ELSE @]
    /\ stage' = [stage EXCEPT !.entries = @ \ {t}]
    /\ UNCHANGED <<vars, pause, lift>>

(* create_decision: it replaces what an earlier run of this slot left pending.   *)
DecidesBook ==
    /\ Decides
    /\ trade' = IF run'.at = "legs"
                THEN [trade EXCEPT ![slot] = [t \in Tickers |->
                          CASE @[t] = "proposed" -> "orphan" [] @[t] = "lost" -> Absent [] OTHER -> @[t]]]
                ELSE trade
    /\ stage' = IF run'.at = "idle" THEN NoStage ELSE stage
    /\ UNCHANGED <<pause, lift>>

(* The other steps of the cycle; a new cycle begins a new stage.               *)
OtherStep ==
    /\ \/ Starts \/ Skips \/ Reads \/ InsertsLegs \/ Opens \/ Consumes \/ Dies
       \/ Records /\ stage.entries = {}
    /\ stage' = IF run'.at = "idle" THEN NoStage ELSE stage
    /\ UNCHANGED <<trade, pause, lift>>

-----------------------------------------------------------------------------
(* Around the cycle *)

(* The decision side of Cycle, where a slot's own trades stay as they are.     *)
Around ==
    /\ \/ NextSlot
       \/ \E s \in Slots : Approve(s) \/ Reject(s) \/ Finishes(s) \/ Waits(s)
    /\ UNCHANGED book

(* record_swing_fill by the executor; without a row it makes one.  (An entry the  *)
(* broker holds is recorded when the terminal resumes, or never.)               *)
Fills(s, t) ==
    /\ dec[s].state = "executing"
    /\ trade[s][t] \in {"proposed", "lost"}
    /\ trade' = [trade EXCEPT ![s][t] = IF @ = "lost" THEN "bare" ELSE "open"]
    /\ UNCHANGED <<vars, pause, stage, lift>>

(* A stop, a target, an exit or the operator's own hand.                       *)
Closes(s, t) ==
    /\ trade[s][t] \in {"open", "bare"}
    /\ trade' = [trade EXCEPT ![s][t] = "gone"]
    /\ UNCHANGED <<vars, pause, stage, lift>>

(* lift_in_ledger: refused when the pause is not on.                           *)
LoadsLift(p) ==
    /\ lift = NoLift /\ p \in pause
    /\ lift' = [of |-> p, loaded |-> pause]
    /\ UNCHANGED <<vars, trade, pause, stage>>

SavesLift ==
    /\ lift # NoLift
    /\ pause' = lift.loaded \ {lift.of}
    /\ lift' = NoLift
    /\ UNCHANGED <<vars, trade, stage>>

BookNext ==
    \/ Settles \/ LoadsPauses \/ SavesPauses \/ Passes \/ EvaluatesBook \/ DecidesBook \/ OtherStep \/ Around
    \/ \E t \in Tickers : RecordsTrade(t)
    \/ \E s \in Slots, t \in Tickers : Fills(s, t) \/ Closes(s, t)
    \/ \E p \in Pauses : LoadsLift(p)
    \/ SavesLift

BookSpec == BookInit /\ [][BookNext]_bookVars

-----------------------------------------------------------------------------
(* Properties *)

(* What the ledger knows as positions or offers never exceeds the capacity, and  *)
(* never two of one name: although cycles die half-way, a second run replaces   *)
(* the offer of the first, and the executor fills while the next cycle reads.  *)
BookFits ==
    /\ Cardinality(Trades(Sized)) <= MaxOpen
    /\ \A a, b \in Trades(Sized) : a[2] = b[2] => a = b

(* While a pause is on, the operator has no entry to approve: offers made       *)
(* before it engaged have expired, and the pass reads it after it engaged,     *)
(* whatever a lift that overlaps the cycle writes back.                       *)
NoOfferUnderPause ==
    pause # {} => \A st \in Trades({"proposed", "lost"}) : dec[st[1]].state # "proposed"
=============================================================================
