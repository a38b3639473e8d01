--------------------------------- MODULE Cycle ---------------------------------
(***************************************************************************)
(* One slot after the other: what a cycle (cycle.py, _run) reads, stores   *)
(* and leaves behind when a step fails or the process dies.  It reads the  *)
(* broker and the evidence of its slot, evaluates, stores its decision,    *)
(* the legs and its record, publishes, opens the proposal and consumes the *)
(* evidence the proposal was made on: each in a transaction of its own,    *)
(* while the operator approves and the executor fills.                    *)
(*                                                                         *)
(* The evidence each line has consumed outlives a cycle and steers the     *)
(* next ones (runtime.py: a discretionary target needs new evidence).      *)
(*                                                                         *)
(* Not followed: a forced re-run of a recorded slot, the paper book, and   *)
(* how the council, the engine and the swing stage choose (any choice they *)
(* may make is taken); Publication and KillSwitch follow the document and  *)
(* the switch.                                                            *)
(***************************************************************************)
EXTENDS Naturals, FiniteSets, LedgerStates

CONSTANTS Lines, Satellite,  \* the lines of the policy; those of the stock sleeve
          LastSlot           \* bound: slots followed

ASSUME CycleAssumption ==
    /\ Satellite \subseteq Lines
    /\ LastSlot \in Nat \ {0}

VARIABLES slot,      \* the slot it is now
          ev,        \* its evidence: a fingerprint for each line and one for the market
          stored,    \* last_material_fingerprints: the key each line consumed last (absent: no map)
          recorded,  \* slots with a cycle record
          dec,       \* the decision of each slot
          run        \* what the running cycle holds in memory

ledger == <<stored, recorded, dec>>
vars == <<slot, ev, ledger, run>>

Slots == 1 .. LastSlot
Market == "_global"
Absent == "absent"
Fingerprints == [Lines \cup {Market} -> {0, 1}]

NoDecision == [state |-> Absent, kind |-> Absent, legs |-> FALSE, scope |-> "all"]

(* A decision in one of its terminal states: nothing reads it any more.         *)
Over == [NoDecision EXCEPT !.state = "over"]

NoKey == <<>>
NoMap == [l \in Lines |-> NoKey]

Idle == [at |-> "idle", halted |-> FALSE, can |-> {}, legs |-> {}, kind |-> Absent]

Init ==
    /\ slot = 1 /\ ev = [f \in Lines \cup {Market} |-> 0]
    /\ stored = NoMap
    /\ recorded = {} /\ dec = [s \in Slots |-> NoDecision]
    /\ run = Idle

-----------------------------------------------------------------------------
(* runtime.py: the evidence of a line is its own fingerprint with the market's. *)

MaterialKey(l) == <<ev[Market], ev[l]>>

(* material_changes: without a map every line counts as changed.               *)
Changed == {l \in Lines : stored[l] # MaterialKey(l)}

(* consume_fingerprints: by the lines that could act, at the first write by all. *)
ConsumeFingerprints(acting) ==
    [l \in Lines |-> IF stored = NoMap \/ l \in acting THEN MaterialKey(l) ELSE stored[l]]

(* ledger.blockers(), as the lines it holds.  (A blocked decision or one in      *)
(* doubt holds the same lines as one that waits.)                              *)
Held ==
    LET holding == {s \in Slots : dec[s].state = "waiting_for_market"}
    IN  IF \E s \in holding : dec[s].scope = "all" THEN Lines
        ELSE IF holding # {} THEN Satellite ELSE {}

-----------------------------------------------------------------------------
(* The cycle.  Its lock keeps a second one out: run.at is not idle.            *)

(* Mutant: the offers of earlier slots are not expired.                          *)
NothingExpires == dec

Expired == [s \in Slots |-> IF s < slot /\ dec[s].state \in PendingStates
                            THEN Over ELSE dec[s]]

Starts ==
    /\ run.at = "idle" /\ slot \notin recorded
    /\ dec' = Expired
    /\ run' = [Idle EXCEPT !.at = "read"]
    /\ UNCHANGED <<slot, ev, stored, recorded>>

(* Missed, no disk, or the broker cannot be read: a bare record, no decision.  *)
Skips ==
    /\ run.at = "read"
    /\ recorded' = recorded \cup {slot}
    /\ run' = Idle
    /\ UNCHANGED <<slot, ev, stored, dec>>

(* The snapshot, the switch, the lines that can act (admitted by the fact pack,  *)
(* and not of the satellite when the corporate-action check holds it), and the  *)
(* council.                                                                   *)
Reads ==
    /\ run.at = "read"
    /\ \E halted \in BOOLEAN, can \in SUBSET Lines :
          run' = [run EXCEPT !.at = "evaluate", !.halted = halted, !.can = can]
    /\ UNCHANGED <<slot, ev, ledger>>

(* The engine moves admitted lines that nothing holds, at the council's wish    *)
(* those with new evidence (run.legs); no leg, a failed plan or an open smoke   *)
(* position make no proposal; a latched switch makes a flatten.                *)
Evaluates ==
    /\ run.at = "evaluate"
    /\ \E legs \in SUBSET ((run.can \ Held) \cap Changed),
          kind \in {"rebalance", "compliance", Absent} :
          /\ run' = [run EXCEPT !.at = "decide",
                        !.legs = IF run.halted \/ kind # "rebalance" THEN {} ELSE legs,
                        !.kind = IF run.halted THEN "flatten"
                                 ELSE IF Held = Lines THEN Absent ELSE kind]
    /\ UNCHANGED <<slot, ev, ledger>>

Pending == {s \in Slots : dec[s].state \in PendingStates}

(* create_decision supersedes what is pending; a pending decision of a higher   *)
(* priority makes it raise, and the cycle with it.                             *)
Decides ==
    /\ run.at = "decide"
    /\ IF run.kind = Absent
       THEN run' = [run EXCEPT !.at = "record"] /\ UNCHANGED dec
       ELSE IF \E s \in Pending : Priority[dec[s].kind] > Priority[run.kind]
       THEN run' = Idle /\ UNCHANGED dec
       ELSE /\ dec' = [s \in Slots |->
                         IF s = slot
                         THEN [state |-> "awaiting_publication", kind |-> run.kind, legs |-> FALSE,
                               scope |-> "all"]
                         ELSE IF s \in Pending THEN Over
                         ELSE dec[s]]
            /\ run' = [run EXCEPT !.at = "legs"]
    /\ UNCHANGED <<slot, ev, stored, recorded>>

(* insert_legs, a transaction of its own.                                      *)
InsertsLegs ==
    /\ run.at = "legs"
    /\ dec' = [dec EXCEPT ![slot].legs = TRUE]
    /\ run' = [run EXCEPT !.at = "record"]
    /\ UNCHANGED <<slot, ev, stored, recorded>>

(* Mutant: the proposal is opened before the cycle is recorded.                  *)
RecordsLast ==
    /\ run.at = "record"
    /\ run' = IF run.kind = Absent THEN Idle ELSE [run EXCEPT !.at = "publish", !.halted = FALSE]
    /\ recorded' = IF run.kind = Absent THEN recorded \cup {slot} ELSE recorded
    /\ UNCHANGED <<slot, ev, stored, dec>>

Records ==
    /\ run.at = "record"
    /\ recorded' = recorded \cup {slot}
    /\ run' = IF run.kind = Absent THEN Idle ELSE [run EXCEPT !.at = "publish", !.halted = FALSE]
    /\ UNCHANGED <<slot, ev, stored, dec>>

(* Publication says when it may be opened; when its document cannot be redacted  *)
(* or its commitment was not published, it never is.                           *)
Opens ==
    /\ run.at = "publish"
    /\ \/ /\ dec[slot].state = "awaiting_publication"
          /\ dec' = [dec EXCEPT ![slot].state = "proposed"]
          /\ run' = [run EXCEPT !.at = "consume"]
       \/ run' = Idle /\ UNCHANGED dec
    /\ UNCHANGED <<slot, ev, stored, recorded>>

(* Mutant: the admission of the pack is not looked at.                           *)
ActingOfAll == Lines \ Held

(* evidence_lines: admitted, and not held by a blocker, which are read again.   *)
Acting == run.can \ Held

Consumes ==
    /\ run.at = "consume"
    /\ stored' = ConsumeFingerprints(Acting)
    /\ run' = Idle
    /\ UNCHANGED <<slot, ev, recorded, dec>>

(* An exception nothing catches, or the process dies.                          *)
Dies ==
    /\ run.at # "idle"
    /\ run' = Idle
    /\ UNCHANGED <<slot, ev, ledger>>

-----------------------------------------------------------------------------
(* Around the cycle.                                                          *)

NextSlot ==
    /\ run.at = "idle" /\ slot < LastSlot
    /\ slot' = slot + 1 /\ ev' \in Fingerprints
    /\ UNCHANGED <<ledger, run>>

(* approve and the executor: what a decision may go through, as its own modules  *)
(* follow it.                                                                 *)
Move(s, from, to) ==
    /\ dec[s].state \in from
    /\ dec' = [dec EXCEPT ![s] = to]
    /\ UNCHANGED <<slot, ev, stored, recorded, run>>

Approve(s) == Move(s, {"proposed"}, [dec[s] EXCEPT !.state = "executing"])

Reject(s) == Move(s, PendingStates, Over)

Finishes(s) == Move(s, {"executing", "waiting_for_market"}, Over)

Waits(s) ==
    \E scope \in {"all", "satellite"} :
        Move(s, {"executing"}, [dec[s] EXCEPT !.state = "waiting_for_market", !.scope = scope])

CycleStep ==
    \/ Starts \/ Skips \/ Reads \/ Evaluates \/ Decides \/ InsertsLegs
    \/ Records \/ Opens \/ Consumes \/ Dies

Next ==
    \/ CycleStep \/ NextSlot
    \/ \E s \in Slots : Approve(s) \/ Reject(s) \/ Finishes(s) \/ Waits(s)

Spec == Init /\ [][Next]_vars

-----------------------------------------------------------------------------
(* Properties *)

TypeOK ==
    /\ slot \in Slots /\ ev \in Fingerprints
    /\ stored = NoMap \/ stored \in [Lines -> {0, 1} \X {0, 1}]
    /\ recorded \subseteq Slots
    /\ \A s \in Slots : dec[s].state \in DecisionStates \cup {Absent, "over"}

(* After the first proposal, evidence is used up only by lines that were        *)
(* admitted in a cycle whose proposal was opened: new bars that land while the  *)
(* market of a line is closed still count when it opens, whatever was proposed  *)
(* for other lines, failed or died before (runtime.consume_fingerprints).       *)
EvidenceWaits ==
    [][stored # NoMap =>
         \A l \in Lines : stored'[l] # stored[l] =>
             l \in run.can /\ dec[slot].state \notin {Absent, "awaiting_publication"}]_vars

(* What the operator is offered is complete: a decision beyond its publication   *)
(* has its legs and its cycle's record, wherever cycles before it died, so no    *)
(* later start of the same slot decides again beside it (cycle_exists).         *)
OfferIsComplete ==
    \A s \in Slots :
        dec[s].state \in {"proposed", "executing", "waiting_for_market"}
            => dec[s].legs /\ s \in recorded

=============================================================================
