---------------------------- MODULE ProposalSlot ----------------------------
(***************************************************************************)
(* What the decisions table promises the operator, with every decision     *)
(* state but "open for approval" and "approved" abstracted away: one slot. *)
(* A new proposal takes the slot (whoever held it is out for good), the    *)
(* holder can be withdrawn, and only the holder can be granted.  A         *)
(* decision enters the slot at most once, so it is granted at most once.   *)
(***************************************************************************)
CONSTANTS Decisions, None

VARIABLES offer,     \* the decision open for approval, or None
          offered,   \* every decision that ever took the slot
          granted    \* the decisions the operator approved

vars == <<offer, offered, granted>>

Init == offer = None /\ offered = {} /\ granted = {}

Offer(d) ==
    /\ d \notin offered
    /\ offer' = d
    /\ offered' = offered \cup {d}
    /\ UNCHANGED granted

Withdraw ==
    /\ offer # None
    /\ offer' = None
    /\ UNCHANGED <<offered, granted>>

Grant ==
    /\ offer # None
    /\ granted' = granted \cup {offer}
    /\ offer' = None
    /\ UNCHANGED offered

Next == (\E d \in Decisions : Offer(d)) \/ Withdraw \/ Grant

Spec == Init /\ [][Next]_vars

=============================================================================
