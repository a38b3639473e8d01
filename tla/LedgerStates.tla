----------------------------- MODULE LedgerStates -----------------------------
(***************************************************************************)
(* The vocabulary and the transition tables of ledger/states.py: what a    *)
(* decision and a leg may be, and the moves the ledger accepts.  The       *)
(* tables are relations: sets of pairs <<from, to>>.                       *)
(***************************************************************************)

Kinds == {"flatten", "compliance", "rebalance", "smoke"}

Priority == [flatten |-> 3, compliance |-> 2, rebalance |-> 1, smoke |-> 0]

PendingStates == {"awaiting_publication", "proposed"}

TerminalStates == {"completed", "completed_partial", "rejected", "expired",
                   "superseded", "reviewed_no_action"}

DecisionStates ==
    PendingStates \cup TerminalStates \cup
    {"approved", "executing", "execution_unknown", "waiting_for_market", "blocked"}

AllowedTransitions ==
    ({"awaiting_publication"}
        \X {"proposed", "rejected", "expired", "superseded", "blocked"})
    \cup ({"proposed"}
        \X {"approved", "rejected", "expired", "superseded", "blocked",
            "reviewed_no_action"})
    \cup ({"approved"} \X {"executing", "expired", "rejected", "blocked"})
    \cup ({"executing"}
        \X {"completed", "completed_partial", "blocked", "execution_unknown",
            "waiting_for_market"})
    \cup ({"execution_unknown"}
        \X {"completed", "completed_partial", "blocked", "reviewed_no_action",
            "waiting_for_market"})
    \cup ({"waiting_for_market"}
        \X {"completed", "completed_partial", "blocked", "reviewed_no_action"})
    \cup ({"blocked"} \X {"reviewed_no_action"})

(* Mutant: a decision in doubt is executed again instead of resumed.            *)
CanTransitionAgain(from, to) ==
    <<from, to>> \in AllowedTransitions \cup {<<"execution_unknown", "executing">>}

(* Mutant: an expired decision may be published again.                         *)
CanTransitionRenewed(from, to) ==
    <<from, to>> \in AllowedTransitions \cup {<<"expired", "proposed">>}

CanTransition(from, to) == <<from, to>> \in AllowedTransitions

LegActive == {"submitting", "submitted", "in_flight", "unknown"}

LegResolutions == {"filled", "partially_filled", "rejected", "rejected_partial"}

LegTerminal == LegResolutions \cup {"skipped"}

LegStates == LegActive \cup LegTerminal \cup {"planned", "waiting_for_market"}

LegTransitions ==
    ({"planned"} \X {"submitting", "skipped"})
    \cup ({"submitting"}
        \X ({"submitting", "submitted", "in_flight", "unknown", "skipped"}
            \cup LegResolutions))
    \cup ({"submitted", "in_flight"}
        \X ({"in_flight", "unknown", "waiting_for_market"} \cup LegResolutions))
    \cup ({"unknown"}
        \X ({"submitted", "in_flight", "skipped", "waiting_for_market"}
            \cup LegResolutions))
    \cup ({"waiting_for_market"} \X ({"unknown", "skipped"} \cup LegResolutions))

(* update_leg: a terminal leg never changes; any other may be written again    *)
(* in its state or moved along the table.                                      *)
CanUpdateLeg(from, to) ==
    /\ from \notin LegTerminal
    /\ from = to \/ <<from, to>> \in LegTransitions

-----------------------------------------------------------------------------
(* What a decision holds.  leg maps its legs to their states; swing says which *)
(* of them are swing legs.                                                    *)

UnresolvedLegs(leg) ==
    {l \in DOMAIN leg : leg[l] \in LegActive \cup {"waiting_for_market", "planned"}}

(* _only_swing_unresolved: something is unresolved, and it is all swing.       *)
OnlySwing(leg, swing) ==
    UnresolvedLegs(leg) # {} /\ \A l \in UnresolvedLegs(leg) : swing[l]

WaitingLegs(leg) == {l \in DOMAIN leg : leg[l] = "waiting_for_market"}

(* blockers(): what the decision holds for the next cycle's new risk.          *)
HoldOf(dec, scope, leg, swing) ==
    LET swingScoped == scope = "swing" /\ OnlySwing(leg, swing)
    IN  IF \E l \in DOMAIN leg : leg[l] = "unknown"
        THEN IF swingScoped THEN "swing" ELSE "all"
        ELSE IF dec \notin {"blocked", "execution_unknown", "waiting_for_market"} THEN "none"
        ELSE IF swingScoped THEN "swing"
        ELSE IF scope = "satellite" /\ dec # "execution_unknown" THEN "satellite"
        ELSE "all"

(* The executor's _blocker_scope: a hold of swing orders, of stock orders, or   *)
(* of the whole book.                                                         *)
ScopeOf(leg, swing, stock) ==
    LET waiting == WaitingLegs(leg)
    IN  IF waiting # {} /\ \A l \in waiting : swing[l] THEN "swing"
        ELSE IF waiting # {} /\ \A l \in waiting : stock[l] THEN "satellite"
        ELSE "all"

=============================================================================
