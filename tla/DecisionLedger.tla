---------------------------- MODULE DecisionLedger ----------------------------
(***************************************************************************)
(* The decisions table of the private ledger (ledger/db.py) under the      *)
(* state machine of ledger/states.py.  Every write of the code is one      *)
(* BEGIN IMMEDIATE transaction, so every operation is one action; the      *)
(* callers (cycle, watch, operator terminal, executor) are left free here: *)
(* any caller may invoke any operation at any time, and what is proved of  *)
(* this module holds whatever order the processes come in.  A refused call *)
(* (PriorityConflict, InvalidTransition, ApprovalRefused) changes nothing  *)
(* and is a disabled action.                                               *)
(***************************************************************************)
EXTENDS Integers, LedgerStates

CONSTANTS Decisions,     \* the decision ids that may ever be created
          None,          \* "no decision" (superseded_by IS NULL)
          MaxTime        \* bound of the clock (one tick: one proposal window)

ASSUME NoneAssumption == None \notin Decisions
ASSUME MaxTimeAssumption == MaxTime \in Nat

VARIABLES clock,         \* the time the callers pass as `now`
          state,         \* decisions.state, or "absent" before the row exists
          kind,          \* decisions.kind
          validUntil,    \* decisions.valid_until
          supersededBy,  \* decisions.superseded_by
          events         \* the append-only decision_events log

vars == <<clock, state, kind, validUntil, supersededBy, events>>

-----------------------------------------------------------------------------
Actors == {"system", "operator", "watch", "executor"}

(* The calls of transition in the code, as <<target, actor>>.  Any actor may   *)
(* ask for `approved`; nobody asks for expired or superseded (expire_stale and *)
(* create_decision write those two themselves).                                *)
Calls ==
    ({"approved"} \X Actors)
    \cup ({"proposed"} \X {"system"})
    \cup ({"rejected", "reviewed_no_action"} \X {"operator"})
    \cup ({"executing", "execution_unknown", "waiting_for_market"} \X {"executor"})
    \cup ({"completed", "completed_partial", "blocked"} \X {"executor", "watch"})

Event(d, from, to, actor) == [id |-> d, from |-> from, to |-> to, actor |-> actor]

-----------------------------------------------------------------------------
Init ==
    /\ clock = 0
    /\ state = [d \in Decisions |-> "absent"]
    /\ kind = [d \in Decisions |-> "rebalance"]
    /\ validUntil = [d \in Decisions |-> 0]
    /\ supersededBy = [d \in Decisions |-> None]
    /\ events = {}

Pending == {d \in Decisions : state[d] \in PendingStates}

(* Mutant: a decision of the same priority is neither superseded nor refused.   *)
CreateBeside(d, k, s, until, actor) ==
    /\ state[d] = "absent"
    /\ s \in PendingStates
    /\ \A p \in Pending : Priority[kind[p]] <= Priority[k]
    /\ LET superseded == {p \in Pending : Priority[kind[p]] < Priority[k]}
       IN  /\ state' = [x \in Decisions |->
                            IF x = d THEN s
                            ELSE IF x \in superseded THEN "superseded" ELSE state[x]]
           /\ supersededBy' = [x \in Decisions |->
                            IF x \in superseded THEN d ELSE supersededBy[x]]
           /\ events' = events
                \cup {Event(p, state[p], "superseded", actor) : p \in superseded}
                \cup {Event(d, "absent", s, actor)}
    /\ kind' = [kind EXCEPT ![d] = k]
    /\ validUntil' = [validUntil EXCEPT ![d] = until]
    /\ UNCHANGED clock

(* create_decision: refused while a pending decision of a higher priority     *)
(* exists; otherwise supersedes every pending decision and inserts the row,   *)
(* all in one transaction.                                                    *)
Create(d, k, s, until, actor) ==
    /\ state[d] = "absent"
    /\ s \in PendingStates
    /\ \A p \in Pending : Priority[kind[p]] <= Priority[k]
    /\ LET superseded == {p \in Pending : Priority[kind[p]] <= Priority[k]}
       IN  /\ state' = [x \in Decisions |->
                            IF x = d THEN s
                            ELSE IF x \in superseded THEN "superseded" ELSE state[x]]
           /\ supersededBy' = [x \in Decisions |->
                            IF x \in superseded THEN d ELSE supersededBy[x]]
           /\ events' = events
                \cup {Event(p, state[p], "superseded", actor) : p \in superseded}
                \cup {Event(d, "absent", s, actor)}
    /\ kind' = [kind EXCEPT ![d] = k]
    /\ validUntil' = [validUntil EXCEPT ![d] = until]
    /\ UNCHANGED clock

(* transition: compare-and-set along AllowedTransitions; only the operator    *)
(* may approve.                                                               *)
Transition(d, to, actor) ==
    /\ state[d] # "absent"
    /\ to = "approved" => actor = "operator"
    /\ CanTransition(state[d], to)
    /\ state' = [state EXCEPT ![d] = to]
    /\ events' = events \cup {Event(d, state[d], to, actor)}
    /\ UNCHANGED <<clock, kind, validUntil, supersededBy>>

Stale == {d \in Pending : validUntil[d] <= clock}

(* expire_stale: one UPDATE over every pending row whose valid_until passed.  *)
ExpireStale ==
    /\ Stale # {}
    /\ state' = [d \in Decisions |-> IF d \in Stale THEN "expired" ELSE state[d]]
    /\ events' = events \cup {Event(d, state[d], "expired", "system") : d \in Stale}
    /\ UNCHANGED <<clock, kind, validUntil, supersededBy>>

Tick ==
    /\ clock < MaxTime
    /\ clock' = clock + 1
    /\ UNCHANGED <<state, kind, validUntil, supersededBy, events>>

CreateSome ==
    \E d \in Decisions, k \in Kinds, s \in PendingStates, until \in 0 .. MaxTime :
        Create(d, k, s, until, "system")

TransitionSome ==
    \E d \in Decisions, call \in Calls : Transition(d, call[1], call[2])

Next == CreateSome \/ TransitionSome \/ ExpireStale \/ Tick

Spec == Init /\ [][Next]_vars

-----------------------------------------------------------------------------
(* Properties *)

TypeOK ==
    /\ clock \in 0 .. MaxTime
    /\ state \in [Decisions -> DecisionStates \cup {"absent"}]
    /\ kind \in [Decisions -> Kinds]
    /\ validUntil \in [Decisions -> 0 .. MaxTime]
    /\ supersededBy \in [Decisions -> Decisions \cup {None}]
    /\ events \subseteq [id : Decisions, from : DecisionStates \cup {"absent"},
                         to : DecisionStates, actor : Actors]

(* At most one decision is open for approval, whatever cycle, watch and smoke  *)
(* tickets create and in whatever order (create_decision supersedes or         *)
(* refuses; nothing re-opens a decision).                                      *)
AtMostOnePending == \A p, q \in Pending : p = q

(* A superseded decision lost to a decision that exists and whose priority is  *)
(* not lower: no sequence of proposals lets a rebalance or a smoke ticket push *)
(* out a pending flatten (states.py, PRIORITY).                                *)
SupersededUpward ==
    \A d \in Decisions : state[d] = "superseded" =>
        /\ supersededBy[d] \in Decisions
        /\ state[supersededBy[d]] # "absent"
        /\ Priority[kind[d]] <= Priority[kind[supersededBy[d]]]

ApprovalEvent(d) == Event(d, "proposed", "approved", "operator")

ExecutionStates == {"approved", "executing", "completed", "completed_partial",
                    "execution_unknown", "waiting_for_market"}

(* A decision is executing or executed only if the log holds the operator's    *)
(* approval of the published proposal: no path through blocked, waiting or     *)
(* review reaches an execution state around the human.                         *)
ExecutedOnlyApproved ==
    \A d \in Decisions : state[d] \in ExecutionStates => ApprovalEvent(d) \in events

(* A decision never comes back to a state it has left: no approval, execution  *)
(* or review can happen twice, and a final state is final.                     *)
NeverRevisits ==
    \A d \in Decisions : state'[d] # state[d] =>
        \A e \in events : e.id = d => e.from # state'[d]

NoRevisit == [][NeverRevisits]_vars

(* The abstract promise: one slot that proposals take turns in (ProposalSlot). *)
OnOffer == IF Pending = {} THEN None ELSE CHOOSE p \in Pending : TRUE

Created == {d \in Decisions : state[d] # "absent"}

Approved == {d \in Decisions : ApprovalEvent(d) \in events}

Slot == INSTANCE ProposalSlot WITH
            offer <- OnOffer, offered <- Created, granted <- Approved

(* Seen through the slot, no decision is approved without holding it, and none *)
(* that lost it gets it back.                                                  *)
ImplementsSlot == Slot!Spec

=============================================================================
