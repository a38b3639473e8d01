------------------------------ MODULE OrderBook ------------------------------
(***************************************************************************)
(* What execution/executor.py promises of the legs of an approved plan,    *)
(* whatever process executes or resumes it, crashes, or reads outdated     *)
(* rows: the process, the write-ahead states of a row, the answers and the *)
(* polls are gone.  A leg is kept, dropped before anything is sent, or     *)
(* asked for; an asked leg is placed at most once, and is over only in a   *)
(* way its order at the broker bears out.                                  *)
(***************************************************************************)
EXTENDS Naturals

CONSTANTS Legs, Kind, Swing, Deps

VARIABLES stage,    \* leg -> planned, asked, waiting_for_market, or how it is over
          order,    \* leg -> its order: none, live, or what became of it
          placed    \* leg -> how many orders of it the broker received

vars == <<stage, order, placed>>

Opens == {l \in Legs : Kind[l] = "open"}
Closes == {l \in Legs : Kind[l] = "close"}
SwingTargets == {l \in Legs : Kind[l] \in {"set_tp", "modify_tp"} /\ Swing[l]}

Traded == {"filled", "partially_filled", "rejected_partial"}

Init ==
    /\ stage = [l \in Legs |-> "planned"]
    /\ order = [l \in Legs |-> "none"]
    /\ placed = [l \in Legs |-> 0]

-----------------------------------------------------------------------------
(* Planned legs: dropped, or asked for                                        *)

Planned == {l \in Legs : stage[l] = "planned"}

Drop(D) ==
    /\ stage' = [l \in Legs |-> IF l \in D THEN "skipped" ELSE stage[l]]
    /\ UNCHANGED <<order, placed>>

(* What an open waits for: the closes it must not outrun and its own legs; a   *)
(* take-profit waits for its open to trade.                                   *)
Funded(l) ==
    /\ \A c \in Closes : (Swing[c] => Swing[l]) => stage[c] = "filled"
    /\ \A d \in Deps[l] : stage[d] = "filled"

Due(l) ==
    /\ l \in Opens => Funded(l)
    /\ Kind[l] = "modify_tp" => \A d \in Deps[l] : stage[d] \in Traded

(* A leg whose end is unknown stops every other; a swing take-profit in doubt  *)
(* stops only the swing opens.                                                *)
Alone(l) ==
    \A m \in Legs \ {l} :
        stage[m] = "asked" => m \in SwingTargets /\ ~(l \in Opens /\ Swing[l])

Ask(l) ==
    /\ stage[l] = "planned" /\ Due(l) /\ Alone(l)
    /\ stage' = [stage EXCEPT ![l] = "asked"]
    /\ UNCHANGED <<order, placed>>

-----------------------------------------------------------------------------
(* The broker                                                                 *)

Place(l) ==
    /\ stage[l] = "asked" /\ order[l] = "none" /\ placed[l] = 0
    /\ order' = [order EXCEPT ![l] = "live"]
    /\ placed' = [placed EXCEPT ![l] = 1]
    /\ UNCHANGED stage

Becomes(o) ==
    CASE o = "live" -> {"partial", "filled", "failed"}
      [] o = "partial" -> {"filled", "failed_partial"}
      [] o = "none" -> {"gone"}
      [] OTHER -> {}

BrokerMoves(l) ==
    /\ \E s \in Becomes(order[l]) : order' = [order EXCEPT ![l] = s]
    /\ UNCHANGED <<stage, placed>>

-----------------------------------------------------------------------------
(* What is learned of an asked leg, and the order that bears it out.  A close  *)
(* whose position is gone has filled; only a trade can wait for its market,    *)
(* only an open can fill in part.                                             *)

Bears(l, s) ==
    \/ s = "asked"
    \/ /\ s = "waiting_for_market" /\ l \in Opens \cup Closes
       /\ order[l] \notin {"none", "gone"}
    \/ s = "filled" /\ order[l] \in {"filled"} \cup (IF l \in Closes THEN {"gone"} ELSE {})
    \/ /\ s = "partially_filled" /\ l \in Opens
       /\ order[l] \in {"partial", "filled", "failed_partial"}
    \/ s = "rejected_partial" /\ l \in Opens /\ order[l] = "failed_partial"
    \/ s = "rejected" /\ order[l] \in {"none", "failed", "gone"}
    \/ /\ s = "skipped"
       /\ l \in Opens => order[l] = "none"
       /\ l \in Closes => order[l] # "live"

Learn(l) ==
    /\ stage[l] \in {"asked", "waiting_for_market"}
    /\ \E s \in {"asked", "waiting_for_market", "rejected", "skipped"} \cup Traded :
        /\ Bears(l, s)
        /\ stage' = [stage EXCEPT ![l] = s]
    /\ UNCHANGED <<order, placed>>

-----------------------------------------------------------------------------
(* A step is the ledger's or the broker's, never both.                        *)

LedgerStep ==
    /\ stage' # stage
    /\ (\E l \in Legs : Ask(l) \/ Learn(l)) \/ (\E D \in SUBSET Planned : Drop(D))

BrokerStep ==
    /\ order' # order
    /\ \E l \in Legs : Place(l) \/ BrokerMoves(l)

Next == LedgerStep \/ BrokerStep

Spec == Init /\ [][Next]_vars

=============================================================================
