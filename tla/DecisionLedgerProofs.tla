------------------------ MODULE DecisionLedgerProofs ------------------------
(***************************************************************************)
(* Theorems of DecisionLedger for any set of decisions and any clock       *)
(* bound.  The inductive invariant is IInv: the types, the single pending  *)
(* decision, the superseder's rank, and the log (every event moves its     *)
(* decision up in Rank, and the log holds an approval behind every         *)
(* execution state).                                                       *)
(*                                                                         *)
(* From Drafted on: what an approval hands to the executor, for any book,  *)
(* any weights and any limits (PlanApproval and, under it, Plans).  The    *)
(* inductive invariant is ApprovalInv.                                     *)
(***************************************************************************)
EXTENDS DecisionLedger, PlanApproval, DataInduction, SequenceTheorems, TLAPS

(* How far along its life a decision in a given state is.                  *)
Rank(s) ==
    IF s = "absent" THEN 0
    ELSE IF s = "awaiting_publication" THEN 1
    ELSE IF s = "proposed" THEN 2
    ELSE IF s = "approved" THEN 3
    ELSE IF s = "executing" THEN 4
    ELSE IF s = "execution_unknown" THEN 5
    ELSE IF s = "waiting_for_market" THEN 6
    ELSE IF s = "blocked" THEN 7
    ELSE 8

(* Every event left a state of lower rank than its decision is in now.     *)
LogRanked == \A e \in events : Rank(e.from) < Rank(state[e.id])

IInv ==
    /\ TypeOK
    /\ AtMostOnePending
    /\ SupersededUpward
    /\ ExecutedOnlyApproved
    /\ LogRanked

-----------------------------------------------------------------------------
(* The transition table only moves up in Rank, and never into a pending    *)
(* state other than awaiting_publication to proposed.                      *)
LEMMA MovesClimb ==
    ASSUME NEW from \in DecisionStates, NEW to \in DecisionStates,
           CanTransition(from, to)
    PROVE  /\ Rank(from) < Rank(to)
           /\ from # "absent"
           /\ to \in PendingStates => from \in PendingStates
           /\ from # "superseded"
           /\ to \in ExecutionStates \ {"approved"} => from \in ExecutionStates
           /\ to = "approved" => from = "proposed"
  BY DEF CanTransition, AllowedTransitions, DecisionStates, PendingStates,
         TerminalStates, Rank, ExecutionStates

(* Every call of the ledger keeps its rows and its log well typed.          *)
LEMMA StepTypeOK ==
    ASSUME TypeOK, Next
    PROVE  TypeOK'
  <1>1. CASE CreateSome
    <2> PICK d \in Decisions, k \in Kinds, s \in PendingStates, until \in 0 .. MaxTime :
            Create(d, k, s, until, "system")
      BY <1>1 DEF CreateSome
    <2>1. state' \in [Decisions -> DecisionStates \cup {"absent"}]
      BY DEF Create, TypeOK, DecisionStates, TerminalStates, PendingStates
    <2>2. events' \subseteq [id : Decisions, from : DecisionStates \cup {"absent"},
                               to : DecisionStates, actor : Actors]
      BY DEF Create, TypeOK, DecisionStates, TerminalStates, PendingStates, Pending,
             Event, Actors
    <2>3. supersededBy' \in [Decisions -> Decisions \cup {None}]
      BY DEF Create, TypeOK
    <2>4. QED
      BY <2>1, <2>2, <2>3 DEF Create, TypeOK
  <1>2. CASE TransitionSome
    <2> PICK d \in Decisions, call \in Calls : Transition(d, call[1], call[2])
      BY <1>2 DEF TransitionSome
    <2>1. call[1] \in DecisionStates /\ call[2] \in Actors
      BY DEF Calls, Actors, DecisionStates, TerminalStates, PendingStates
    <2>2. QED
      BY <2>1 DEF Transition, TypeOK, Event
  <1>3. CASE ExpireStale
    BY <1>3 DEF ExpireStale, Stale, Pending, TypeOK, DecisionStates, TerminalStates,
           Event, Actors
  <1>4. CASE Tick
    BY <1>4, MaxTimeAssumption DEF Tick, TypeOK
  <1>5. QED
    BY <1>1, <1>2, <1>3, <1>4 DEF Next

-----------------------------------------------------------------------------
(* What one step does to the table: every decision that moves climbs, only  *)
(* a new decision becomes pending, and the log grows by the moves made.     *)
LEMMA StepClimbs ==
    ASSUME TypeOK, Next, NEW d \in Decisions, state'[d] # state[d]
    PROVE  Rank(state[d]) < Rank(state'[d])
  <1>1. CASE CreateSome
    BY <1>1 DEF CreateSome, Create, TypeOK, Rank, Pending, PendingStates
  <1>2. CASE TransitionSome
    <2> PICK x \in Decisions, call \in Calls : Transition(x, call[1], call[2])
      BY <1>2 DEF TransitionSome
    <2>1. x = d /\ state'[d] = call[1]
      BY DEF Transition, TypeOK
    <2>2. call[1] \in DecisionStates
      BY DEF Calls, DecisionStates, TerminalStates, PendingStates
    <2>3. state[d] \in DecisionStates /\ CanTransition(state[d], call[1])
      BY <2>1 DEF Transition, TypeOK
    <2>4. QED
      BY <2>1, <2>2, <2>3, MovesClimb
  <1>3. CASE ExpireStale
    BY <1>3 DEF ExpireStale, Stale, Pending, PendingStates, TypeOK, Rank
  <1>4. CASE Tick
    BY <1>4 DEF Tick
  <1>5. QED
    BY <1>1, <1>2, <1>3, <1>4 DEF Next

(* The log only records moves: a new event leaves the state its decision    *)
(* was in, which is not the state the decision is in now.                   *)
LEMMA LogRecordsMoves ==
    ASSUME TypeOK, Next, NEW e \in events', e \notin events
    PROVE  /\ e.id \in Decisions
           /\ e.from = state[e.id]
           /\ state'[e.id] # state[e.id]
  <1>1. CASE CreateSome
    <2> PICK d \in Decisions, k \in Kinds, s \in PendingStates, until \in 0 .. MaxTime :
            Create(d, k, s, until, "system")
      BY <1>1 DEF CreateSome
    <2>1. d \notin Pending /\ state[d] = "absent"
      BY DEF Create, Pending, PendingStates
    <2>2. CASE e = Event(d, "absent", s, "system")
      BY <2>1, <2>2 DEF Create, Event, TypeOK, PendingStates
    <2>3. CASE \E p \in Pending : e = Event(p, state[p], "superseded", "system")
      BY <2>1, <2>3 DEF Create, Event, TypeOK, Pending, PendingStates
    <2>4. QED
      BY <2>2, <2>3 DEF Create
  <1>2. CASE TransitionSome
    <2> PICK d \in Decisions, call \in Calls : Transition(d, call[1], call[2])
      BY <1>2 DEF TransitionSome
    <2>1. e = Event(d, state[d], call[1], call[2]) /\ state'[d] = call[1]
      BY DEF Transition, TypeOK
    <2>2. state'[d] # state[d]
      BY <2>1, MovesClimb DEF Transition, CanTransition, AllowedTransitions
    <2>3. QED
      BY <2>1, <2>2 DEF Event
  <1>3. CASE ExpireStale
    BY <1>3 DEF ExpireStale, Stale, Pending, PendingStates, TypeOK, Event
  <1>4. CASE Tick
    BY <1>4 DEF Tick
  <1>5. QED
    BY <1>1, <1>2, <1>3, <1>4 DEF Next

-----------------------------------------------------------------------------
(* The step of each conjunct of IInv. *)

(* No call leaves a second decision on offer: a create first supersedes the *)
(* one pending, and no move of the table leads back to a pending state.     *)
LEMMA StepAtMostOnePending ==
    ASSUME TypeOK, AtMostOnePending, Next
    PROVE  AtMostOnePending'
  <1>1. CASE CreateSome
    BY <1>1 DEF CreateSome, Create, TypeOK, AtMostOnePending, Pending, PendingStates
  <1>2. CASE TransitionSome
    <2> PICK d \in Decisions, call \in Calls : Transition(d, call[1], call[2])
      BY <1>2 DEF TransitionSome
    <2>1. call[1] \in PendingStates => state[d] \in PendingStates
      BY DEF Transition, CanTransition, AllowedTransitions, PendingStates
    <2>2. Pending' \subseteq Pending
      BY <2>1 DEF Transition, TypeOK, Pending
    <2>3. QED
      BY <2>2 DEF AtMostOnePending
  <1>3. CASE ExpireStale
    BY <1>3 DEF ExpireStale, AtMostOnePending, Pending, PendingStates
  <1>4. CASE Tick
    BY <1>4 DEF Tick, AtMostOnePending, Pending
  <1>5. QED
    BY <1>1, <1>2, <1>3, <1>4 DEF Next

(* A decision is superseded only by a create of at least its priority; any  *)
(* other step leaves the superseded ones alone.                             *)
LEMMA StepSupersededUpward ==
    ASSUME TypeOK, SupersededUpward, Next
    PROVE  SupersededUpward'
  <1>1. CASE CreateSome
    <2> PICK d \in Decisions, k \in Kinds, s \in PendingStates, until \in 0 .. MaxTime :
            Create(d, k, s, until, "system")
      BY <1>1 DEF CreateSome
    <2> SUFFICES ASSUME NEW x \in Decisions, state'[x] = "superseded"
                 PROVE  /\ supersededBy'[x] \in Decisions
                        /\ state'[supersededBy'[x]] # "absent"
                        /\ Priority[kind'[x]] <= Priority[kind'[supersededBy'[x]]]
      BY DEF SupersededUpward
    <2>1. x # d /\ state'[d] # "absent" /\ kind'[d] = k /\ kind'[x] = kind[x]
      BY DEF Create, TypeOK, PendingStates
    <2>2. CASE x \in Pending
      BY <2>1, <2>2 DEF Create, TypeOK
    <2>3. CASE x \notin Pending
      <3>1. state[x] = "superseded" /\ supersededBy'[x] = supersededBy[x]
        BY <2>1, <2>3 DEF Create, TypeOK
      <3>2. supersededBy[x] \in Decisions /\ state[supersededBy[x]] # "absent"
        BY <3>1 DEF SupersededUpward
      <3>3. supersededBy[x] # d
        BY <3>2 DEF Create
      <3>4. /\ state'[supersededBy[x]] # "absent"
            /\ kind'[supersededBy[x]] = kind[supersededBy[x]]
        BY <3>2, <3>3 DEF Create, TypeOK
      <3>5. QED
        BY <2>1, <3>1, <3>2, <3>4 DEF SupersededUpward
    <2>4. QED
      BY <2>2, <2>3
  <1>2. CASE TransitionSome
    <2> PICK d \in Decisions, call \in Calls : Transition(d, call[1], call[2])
      BY <1>2 DEF TransitionSome
    <2>1. call[1] # "superseded" /\ call[1] # "absent"
      BY DEF Calls
    <2>2. QED
      BY <2>1 DEF Transition, TypeOK, SupersededUpward
  <1>3. CASE ExpireStale
    BY <1>3 DEF ExpireStale, TypeOK, SupersededUpward
  <1>4. CASE Tick
    BY <1>4 DEF Tick, SupersededUpward
  <1>5. QED
    BY <1>1, <1>2, <1>3, <1>4 DEF Next

(* A decision enters an execution state only from approved or from another  *)
(* execution state, and the log never loses an event.                       *)
LEMMA StepExecutedOnlyApproved ==
    ASSUME TypeOK, ExecutedOnlyApproved, Next
    PROVE  ExecutedOnlyApproved'
  <1> SUFFICES ASSUME NEW x \in Decisions, state'[x] \in ExecutionStates
               PROVE  ApprovalEvent(x) \in events'
    BY DEF ExecutedOnlyApproved, ApprovalEvent, Event
  <1>0. events \subseteq events'
    BY DEF Next, CreateSome, Create, TransitionSome, Transition, ExpireStale, Tick
  <1>1. CASE state[x] \in ExecutionStates
    BY <1>0, <1>1 DEF ExecutedOnlyApproved
  <1>2. CASE state[x] \notin ExecutionStates
    <2>1. TransitionSome
      BY <1>2 DEF Next, CreateSome, Create, ExpireStale, Tick, TypeOK, ExecutionStates,
                  PendingStates
    <2> PICK d \in Decisions, call \in Calls : Transition(d, call[1], call[2])
      BY <2>1 DEF TransitionSome
    <2>2. x = d /\ state'[x] = call[1]
      BY <1>2 DEF Transition, TypeOK
    <2>3. call[1] = "approved" /\ state[x] = "proposed"
      BY <1>2, <2>2 DEF Transition, CanTransition, AllowedTransitions, ExecutionStates
    <2>4. call[2] = "operator"
      BY <2>3 DEF Transition
    <2>5. QED
      BY <2>2, <2>3, <2>4 DEF Transition, ApprovalEvent
  <1>3. QED
    BY <1>1, <1>2

(* Whatever an event left behind stays below the state its decision is in   *)
(* now.                                                                     *)
LEMMA StepLogRanked ==
    ASSUME TypeOK, LogRanked, Next
    PROVE  LogRanked'
  <1> SUFFICES ASSUME NEW e \in events'
               PROVE  Rank(e.from) < Rank(state'[e.id])
    BY DEF LogRanked, Rank
  <1>1. CASE e \in events
    <2>1. e.id \in Decisions /\ Rank(e.from) < Rank(state[e.id])
      BY <1>1 DEF LogRanked, TypeOK
    <2>2. CASE state'[e.id] = state[e.id]
      BY <2>1, <2>2
    <2>3. CASE state'[e.id] # state[e.id]
      <3>1. Rank(state[e.id]) < Rank(state'[e.id])
        BY <2>1, <2>3, StepClimbs
      <3>2. QED
        BY <2>1, <3>1 DEF Rank
    <2>4. QED
      BY <2>2, <2>3
  <1>2. CASE e \notin events
    BY <1>2, LogRecordsMoves, StepClimbs
  <1>3. QED
    BY <1>1, <1>2

(* The invariant of the module holds initially and survives every step.     *)
LEMMA Inductive == Spec => []IInv
  <1>1. Init => IInv
    BY MaxTimeAssumption
       DEF Init, IInv, TypeOK, AtMostOnePending, SupersededUpward, ExecutedOnlyApproved,
           LogRanked, Pending, PendingStates, DecisionStates, Kinds, ExecutionStates
  <1>2. IInv /\ [Next]_vars => IInv'
    <2> SUFFICES ASSUME IInv, [Next]_vars PROVE IInv'
      OBVIOUS
    <2>1. CASE Next
      BY <2>1, StepTypeOK, StepAtMostOnePending, StepSupersededUpward,
         StepExecutedOnlyApproved, StepLogRanked DEF IInv
    <2>2. CASE UNCHANGED vars
      BY <2>2 DEF vars, IInv, TypeOK, AtMostOnePending, SupersededUpward,
                  ExecutedOnlyApproved, LogRanked, Pending, ApprovalEvent, Event, Rank
    <2>3. QED
      BY <2>1, <2>2
  <1>3. QED
    BY <1>1, <1>2, PTL DEF Spec

-----------------------------------------------------------------------------
(* Every row of the table keeps its types (ledger/db.py refuses any other   *)
(* value of state, kind and actor).                                         *)
THEOREM TypeCorrect == Spec => []TypeOK
  BY Inductive, PTL DEF IInv

(* For any number of proposals by cycle, watch and smoke tickets, at most   *)
(* one decision is open for approval (create_decision).                     *)
THEOREM OnePending == Spec => []AtMostOnePending
  BY Inductive, PTL DEF IInv

(* No sequence of proposals pushes out one of higher priority               *)
(* (create_decision, PriorityConflict).                                     *)
THEOREM NeverOutranked == Spec => []SupersededUpward
  BY Inductive, PTL DEF IInv

(* Whatever the processes call, a decision that executes or has executed    *)
(* was approved by the operator while it was proposed (transition).         *)
THEOREM ApprovedBeforeExecuted == Spec => []ExecutedOnlyApproved
  BY Inductive, PTL DEF IInv

(* A decision never returns to a state it has left (transition along        *)
(* ALLOWED_TRANSITIONS, create_decision, expire_stale).                     *)
THEOREM NeverBack == Spec => NoRevisit
  <1>1. IInv /\ [Next]_vars => [NeverRevisits]_vars
    <2> SUFFICES ASSUME IInv, Next PROVE NeverRevisits
      OBVIOUS
    <2> SUFFICES ASSUME NEW d \in Decisions, state'[d] # state[d],
                        NEW e \in events, e.id = d
                 PROVE  e.from # state'[d]
      BY DEF NeverRevisits
    <2>1. Rank(e.from) < Rank(state[d])
      BY DEF IInv, LogRanked
    <2>2. Rank(state[d]) < Rank(state'[d])
      BY StepClimbs DEF IInv
    <2>3. QED
      BY <2>1, <2>2 DEF Rank
  <1>2. QED
    BY <1>1, Inductive, PTL DEF Spec, NoRevisit

-----------------------------------------------------------------------------
(* The refinement: OnOffer names the one pending decision, and the approvals *)
(* in the log are exactly the grants.                                        *)

(* With at most one pending decision, OnOffer names it.                     *)
LEMMA OnOfferNames ==
    ASSUME AtMostOnePending, NEW p \in Pending
    PROVE  OnOffer = p
  BY DEF AtMostOnePending, OnOffer

(* The same after the step.                                                 *)
LEMMA OnOfferNamesNext ==
    ASSUME AtMostOnePending', NEW p \in Pending'
    PROVE  OnOffer' = p
  BY DEF AtMostOnePending, OnOffer

(* A create is an offer of the slot, whether or not it supersedes.          *)
LEMMA CreateOffers ==
    ASSUME IInv, AtMostOnePending', CreateSome
    PROVE  Slot!Next
  <1> PICK d \in Decisions, k \in Kinds, s \in PendingStates, until \in 0 .. MaxTime :
          Create(d, k, s, until, "system")
    BY DEF CreateSome
  <1>1. d \notin Created /\ Created' = Created \cup {d}
    BY DEF Create, Created, IInv, TypeOK, Pending, PendingStates
  <1>2. Approved' = Approved
    BY DEF Create, Approved, ApprovalEvent, Event, PendingStates
  <1>3. d \in Pending'
    BY DEF Create, Pending, IInv, TypeOK
  <1>4. OnOffer' = d
    BY <1>3, OnOfferNamesNext
  <1>5. QED
    BY <1>1, <1>2, <1>4 DEF Slot!Next, Slot!Offer

(* A transition grants the decision on offer, withdraws it, or is none of   *)
(* the slot's concern.                                                      *)
LEMMA TransitionGrantsOrWithdraws ==
    ASSUME IInv, AtMostOnePending', TransitionSome
    PROVE  Slot!Next \/ UNCHANGED <<OnOffer, Created, Approved>>
  <1> PICK d \in Decisions, call \in Calls : Transition(d, call[1], call[2])
    BY DEF TransitionSome
  <1> USE DEF IInv, TypeOK
  <1>1. Created' = Created
    BY DEF Transition, Created, Calls
  <1>2. CASE call[1] = "approved"
    <2>1. d \in Pending /\ Pending' = Pending \ {d}
      BY <1>2 DEF Transition, CanTransition, AllowedTransitions, Pending, PendingStates
    <2>2. OnOffer = d /\ OnOffer' = None /\ d # None
      BY <2>1, OnOfferNames, NoneAssumption DEF OnOffer, AtMostOnePending
    <2>3. Approved' = Approved \cup {d}
      BY <1>2 DEF Transition, CanTransition, AllowedTransitions, Approved,
                  ApprovalEvent, Event
    <2>4. QED
      BY <1>1, <2>2, <2>3 DEF Slot!Next, Slot!Grant
  <1>3. CASE call[1] # "approved"
    <2>1. Approved' = Approved
      BY <1>3 DEF Transition, Approved, ApprovalEvent, Event
    <2>2. CASE d \in Pending /\ call[1] \notin PendingStates
      <3>1. Pending' = Pending \ {d}
        BY <2>2 DEF Transition, Pending
      <3>2. OnOffer = d /\ OnOffer' = None /\ d # None
        BY <2>2, <3>1, OnOfferNames, NoneAssumption DEF OnOffer, AtMostOnePending
      <3>3. QED
        BY <1>1, <2>1, <3>2 DEF Slot!Next, Slot!Withdraw
    <2>3. CASE ~(d \in Pending /\ call[1] \notin PendingStates)
      <3>1. Pending' = Pending
        BY <2>3 DEF Transition, CanTransition, AllowedTransitions, Pending, PendingStates
      <3>2. OnOffer' = OnOffer
        BY <3>1 DEF OnOffer
      <3>3. QED
        BY <1>1, <2>1, <3>2
    <2>4. QED
      BY <2>2, <2>3
  <1>4. QED
    BY <1>2, <1>3

(* An expiry withdraws the decision on offer.                               *)
LEMMA ExpiryWithdraws ==
    ASSUME IInv, ExpireStale
    PROVE  Slot!Next
  <1> USE DEF IInv, TypeOK
  <1>1. PICK d \in Pending : d \in Stale
    BY DEF ExpireStale, Stale
  <1>2. Pending' = {}
    BY <1>1 DEF ExpireStale, Stale, Pending, PendingStates, AtMostOnePending
  <1>3. OnOffer = d /\ OnOffer' = None /\ d # None
    BY <1>1, <1>2, OnOfferNames, NoneAssumption DEF OnOffer, Pending
  <1>4. Created' = Created
    BY DEF ExpireStale, Created, Stale, Pending, PendingStates
  <1>5. Approved' = Approved
    BY DEF ExpireStale, Approved, ApprovalEvent, Event
  <1>6. QED
    BY <1>3, <1>4, <1>5 DEF Slot!Next, Slot!Withdraw

(* The decisions table implements the slot: whatever the processes do, a    *)
(* decision is approved only while it is the one on offer, and a decision   *)
(* that lost the offer (superseded, expired, rejected) never gets it back.  *)
THEOREM LedgerImplementsSlot == Spec => ImplementsSlot
  <1>1. Init => Slot!Init
    BY DEF Init, Slot!Init, OnOffer, Created, Approved, Pending, PendingStates
  <1>2. IInv /\ IInv' /\ [Next]_vars => [Slot!Next]_Slot!vars
    <2> SUFFICES ASSUME IInv, IInv', [Next]_vars
                 PROVE  Slot!Next \/ UNCHANGED <<OnOffer, Created, Approved>>
      BY DEF Slot!vars
    <2>1. CASE CreateSome
      BY <2>1, CreateOffers DEF IInv
    <2>2. CASE TransitionSome
      BY <2>2, TransitionGrantsOrWithdraws DEF IInv
    <2>3. CASE ExpireStale
      BY <2>3, ExpiryWithdraws
    <2>4. CASE Tick \/ UNCHANGED vars
      <3>1. state' = state /\ events' = events
        BY <2>4 DEF Tick, vars
      <3>2. Pending' = Pending /\ Created' = Created /\ Approved' = Approved
        BY <3>1 DEF Pending, Created, Approved, ApprovalEvent, Event
      <3>3. QED
        BY <3>2 DEF OnOffer
    <2>5. QED
      BY <2>1, <2>2, <2>3, <2>4 DEF Next
  <1>3. QED
    BY <1>1, <1>2, Inductive, PTL DEF Spec, ImplementsSlot, Slot!Spec


-----------------------------------------------------------------------------
(* What is true of every leg the planner drafts: only an open raises a weight,  *)
(* a reduction waits for nothing, and so does an entry of the swing book.       *)
Drafted(leg) ==
    /\ leg.inc = (leg.kind = "open")
    /\ Reduces(leg) => leg.deps = {}
    /\ leg.swing /\ leg.kind = "open" => leg.deps = {}
DraftsOf(legs) == IsFiniteSet(legs) /\ \A leg \in legs : Drafted(leg)

LEMMA DraftsJoin ==
    /\ DraftsOf({})
    /\ \A S, T : DraftsOf(S) /\ DraftsOf(T) => DraftsOf(S \cup T)
BY FS_EmptySet, FS_Union DEF DraftsOf

LEMMA ManyDrafts ==
    ASSUME NEW F, IsFiniteSet(F), \A legs \in F : DraftsOf(legs)
    PROVE  DraftsOf(UNION F)
<1>1. IsFiniteSet(UNION F)
  BY FS_UNION DEF DraftsOf
<1> QED
  BY <1>1 DEF DraftsOf

LEMMA ClosesDraft ==
    ASSUME NEW ps, IsFiniteSet(ps)
    PROVE  DraftsOf({Close(p) : p \in ps})
<1> DEFINE f == [p \in ps |-> Close(p)]
<1>1. {Close(p) : p \in ps} = {f[p] : p \in ps}
  OBVIOUS
<1>2. IsFiniteSet({f[p] : p \in ps})
  <2> HIDE DEF f
  <2> QED
    BY FiniteImage
<1>3. \A p \in ps : Drafted(Close(p))
  BY DEF Drafted, Close, Leg, Reduces
<1> QED
  BY <1>1, <1>2, <1>3 DEF DraftsOf

LEMMA OneClose == \A p : DraftsOf({Close(p)})
<1> TAKE p
<1>1. IsFiniteSet({p})
  BY FS_Singleton
<1>2. {Close(q) : q \in {p}} = {Close(p)}
  OBVIOUS
<1> QED
  BY <1>1, <1>2, ClosesDraft

LEMMA OpenDrafts ==
    ASSUME NEW rule, NEW l, NEW dw, NEW deps, l \in Swing => deps = {}
    PROVE  /\ DraftsOf(Open(rule, l, dw, deps))
           /\ \A leg \in Open(rule, l, dw, deps) : leg.line = l /\ leg.kind = "open"
<1> DEFINE o == [Leg(OpenOf(l), "open", l, Side(dw), dw) EXCEPT !.deps = deps]
<1>1. o.inc = TRUE /\ o.kind = "open" /\ o.deps = deps /\ o.swing = (l \in Swing) /\ o.line = l
  BY DEF Leg
<1>2. Drafted(o)
  <2> HIDE DEF o
  <2> QED
    BY <1>1 DEF Drafted, Reduces
<1>3. Open(rule, l, dw, deps) \in {{}, {o}}
  BY DEF Open
<1> HIDE DEF o
<1>4. IsFiniteSet({}) /\ IsFiniteSet({o})
  BY FS_EmptySet, FS_Singleton
<1> QED
  BY <1>1, <1>2, <1>3, <1>4 DEF DraftsOf

LEMMA TrimDrafts ==
    ASSUME NEW rule, NEW p, p.line \notin Swing, NEW w
    PROVE  DraftsOf(Trim(rule, p, w))
<1>1. DraftsOf({Close(p)})
  BY OneClose
<1>2. \A dw, deps : DraftsOf(Open(rule, p.line, dw, deps))
  BY OpenDrafts
<1>3. DraftsOf({ClosePart(p, w)})
  <2>1. Drafted(ClosePart(p, w))
    BY DEF Drafted, ClosePart, Leg, Reduces
  <2> QED
    BY <2>1, FS_Singleton DEF DraftsOf
<1>4. \A rest : DraftsOf({Close(p)} \cup Open(rule, p.line, Side(p.w) * rest, {CloseOf(p)}))
  BY <1>1, <1>2, DraftsJoin
<1> QED
  BY <1>1, <1>3, <1>4, DraftsJoin DEF Trim

LEMMA ReduceDrafts ==
    ASSUME NEW rule, NEW ps, IsFiniteSet(ps), \A p \in ps : p.line \notin Swing, NEW w
    PROVE  DraftsOf(Reduce(rule, ps, w))
<1> DEFINE Newer(p) == Exposure({q \in ps : q.id > p.id})
           whole == {q \in ps : Newer(q) + Size(q.w) <= w}
           part == {q \in ps : Newer(q) < w /\ w < Newer(q) + Size(q.w)}
           f == [p \in part |-> Trim(rule, p, w - Newer(p))]
<1>1. IsFiniteSet(whole) /\ IsFiniteSet(part) /\ part \subseteq ps
  BY FS_Subset
<1>2. DraftsOf({Close(p) : p \in whole})
  <2> HIDE DEF whole
  <2> QED
    BY <1>1, ClosesDraft
<1>3. DraftsOf(UNION {f[p] : p \in part})
  <2>1. IsFiniteSet({f[p] : p \in part})
    <3> HIDE DEF f, part
    <3> QED
      BY <1>1, FiniteImage
  <2>2. \A p \in part : DraftsOf(f[p])
    <3> HIDE DEF Newer
    <3> QED
      BY <1>1, TrimDrafts
  <2> HIDE DEF f, part
  <2> QED
    BY <2>1, <2>2, ManyDrafts
<1>4. Reduce(rule, ps, w) = {Close(p) : p \in whole} \cup UNION {f[p] : p \in part}
  BY DEF Reduce
<1> HIDE DEF whole, part, f
<1> QED
  BY <1>2, <1>3, <1>4, DraftsJoin

LEMMA LineDrafts ==
    ASSUME NEW rule, NEW l, l \notin Swing, NEW target, NEW ps, IsFiniteSet(ps), \A p \in ps : p.line = l
    PROVE  DraftsOf(PlanLine(rule, l, target, ps))
<1> DEFINE closes == {Close(p) : p \in ps}
<1>1. DraftsOf(closes) /\ DraftsOf({})
  BY ClosesDraft, DraftsJoin
<1>2. \A dw, deps : DraftsOf(Open(rule, l, dw, deps))
  BY OpenDrafts
<1>3. \A w : DraftsOf(Reduce(rule, ps, w))
  BY ReduceDrafts
<1>4. \A deps : DraftsOf(closes \cup Open(rule, l, target, deps))
  <2> HIDE DEF closes
  <2> QED
    BY <1>1, <1>2, DraftsJoin
<1> QED
  BY <1>1, <1>2, <1>3, <1>4 DEF PlanLine

LEMMA SwingDrafts ==
    ASSUME NEW rule, NEW l, NEW order, NEW ps, IsFiniteSet(ps)
    PROVE  DraftsOf(PlanSwing(rule, l, order, ps))
<1> DEFINE closes == {Close(p) : p \in ps}
           entry == Open(rule, l, order.w, {})
           tp(e) == [Leg(<<"tp", l>>, "modify_tp", l, e.side, 0) EXCEPT !.deps = {e.id}]
           patched == {x \in entry : order.patch}
           f == [e \in patched |-> tp(e)]
           set(p) == Leg(<<"tp", p.id>>, "set_tp", l, Side(p.w), 0)
           g == [p \in ps |-> set(p)]
<1>1. DraftsOf(closes) /\ DraftsOf({}) /\ DraftsOf(entry)
  BY ClosesDraft, DraftsJoin, OpenDrafts
<1>2. DraftsOf({tp(e) : e \in patched})
  <2>1. IsFiniteSet(patched)
    BY <1>1, FS_Subset DEF DraftsOf
  <2>2. IsFiniteSet({f[e] : e \in patched})
    <3> HIDE DEF f, patched
    <3> QED
      BY <2>1, FiniteImage
  <2>3. {f[e] : e \in patched} = {tp(e) : e \in patched}
    OBVIOUS
  <2>4. \A e : Drafted(tp(e))
    BY DEF Drafted, Leg, Reduces
  <2> HIDE DEF tp, patched
  <2> QED
    BY <2>2, <2>3, <2>4 DEF DraftsOf
<1>3. DraftsOf({set(p) : p \in ps})
  <2>1. IsFiniteSet({g[p] : p \in ps})
    <3> HIDE DEF g
    <3> QED
      BY FiniteImage
  <2>2. {g[p] : p \in ps} = {set(p) : p \in ps}
    OBVIOUS
  <2>3. \A p : Drafted(set(p))
    BY DEF Drafted, Leg, Reduces
  <2> HIDE DEF set
  <2> QED
    BY <2>1, <2>2, <2>3 DEF DraftsOf
<1>4. DraftsOf(entry \cup {tp(e) : e \in patched})
  <2> HIDE DEF tp, patched, entry
  <2> QED
    BY <1>1, <1>2, DraftsJoin
<1>5. PlanSwing(rule, l, order, ps) \in {{}, closes, {set(p) : p \in ps}, entry \cup {tp(e) : e \in patched}}
  BY DEF PlanSwing
<1> QED
  <2> HIDE DEF closes, entry, tp, patched, set
  <2> QED
    BY <1>1, <1>3, <1>4, <1>5

-----------------------------------------------------------------------------
(* Ordering and capping add no leg: each is a fold that keeps a sequence of      *)
(* drafts.                                                                  *)
LEMMA Interval == \A n \in Nat : IsFiniteSet(1 .. n) /\ Cardinality(1 .. n) = n
<1> TAKE n \in Nat
<1>1. IsFiniteSet(1 .. n) /\ Cardinality(1 .. n) = IF 1 > n THEN 0 ELSE n - 1 + 1
  BY FS_Interval
<1> QED
  BY <1>1

LEMMA InsertedKeeps ==
    ASSUME NEW D, NEW leg \in D, NEW s \in Seq(D)
    PROVE  Inserted(leg, s) \in Seq(D)
<1> DEFINE before == {i \in DOMAIN s : Before(s[i], leg)}
           n == Cardinality(before)
<1>1. DOMAIN s = 1 .. Len(s) /\ Len(s) \in Nat /\ \A i \in 1 .. Len(s) : s[i] \in D
  OBVIOUS
<1>2. n \in Nat /\ n <= Len(s)
  <2>1. IsFiniteSet(1 .. Len(s)) /\ Cardinality(1 .. Len(s)) = Len(s)
    BY <1>1, Interval
  <2>2. before \in SUBSET (1 .. Len(s))
    BY <1>1
  <2> HIDE DEF before
  <2> QED
    BY <2>1, <2>2, FS_Subset, FS_CardinalityType
<1> HIDE DEF n
<1>3. SubSeq(s, 1, n) \in Seq(D)
  BY <1>1, <1>2, SubSeqProperties
<1>4. SubSeq(s, n + 1, Len(s)) \in Seq(D)
  BY <1>1, <1>2, SubSeqProperties
<1>5. Inserted(leg, s) = SubSeq(s, 1, n) \o <<leg>> \o SubSeq(s, n + 1, Len(s))
  <2>1. (n + 1) - 1 = n
    BY <1>2
  <2> QED
    BY <2>1 DEF Inserted, InsertAt, n
<1>6. <<leg>> \in Seq(D)
  OBVIOUS
<1>7. SubSeq(s, 1, n) \o <<leg>> \in Seq(D)
  BY <1>3, <1>6, ConcatProperties
<1> QED
  BY <1>4, <1>5, <1>7, ConcatProperties

LEMMA OrderedKeeps ==
    ASSUME NEW D, IsFiniteSet(D)
    PROVE  Ordered(D) \in Seq(D)
<1> DEFINE Body(F) == [T \in SUBSET D |-> IF T = {} THEN <<>> ELSE LET x == CHOOSE y \in T : TRUE IN Inserted(x, F[T \ {x}])]
           it == CHOOSE F : F = Body(F)
           st == [p \in D \X Seq(D) |-> Inserted(p[1], p[2])]
           pk == Picked(D)
<1>1. \A T \in SUBSET D : T # {} => pk[T] \in T /\ pk[T] = CHOOSE y \in T : TRUE
  BY DEF Picked, AnyOf
<1>2. <<>> \in Seq(D) /\ st \in [D \X Seq(D) -> Seq(D)]
  BY InsertedKeeps
<1>3. PICK G \in [SUBSET D -> Seq(D)] : Peeling(G, D, <<>>, st, pk)
  <2> HIDE DEF st, pk
  <2> QED
    BY <1>1, <1>2, SubsetRecursion
<1>4. G = Body(G)
  <2>1. ASSUME NEW T \in SUBSET D PROVE G[T] = Body(G)[T]
    <3>1. G[T] = IF T = {} THEN <<>> ELSE st[<<pk[T], G[T \ {pk[T]}]>>]
      BY <1>3 DEF Peeling
    <3>2. CASE T = {}
      BY <3>1, <3>2
    <3>3. CASE T # {}
      <4>1. pk[T] \in D /\ pk[T] = CHOOSE y \in T : TRUE
        BY <1>1, <3>3
      <4>2. T \ {pk[T]} \in SUBSET D
        OBVIOUS
      <4>3. G[T \ {pk[T]}] \in Seq(D)
        <5> HIDE DEF pk
        <5> QED
          BY <4>2
      <4>4. G[T] = Inserted(pk[T], G[T \ {pk[T]}])
        <5> HIDE DEF pk
        <5> QED
          BY <3>1, <3>3, <4>1, <4>3
      <4> HIDE DEF pk, st
      <4> QED
        BY <3>3, <4>1, <4>4
    <3> QED
      BY <3>2, <3>3
  <2> HIDE DEF st, pk
  <2> QED
    BY <2>1
<1>5. it = Body(it)
  <2> HIDE DEF Body
  <2> QED
    BY <1>4
<1> HIDE DEF it
<1>6. \A T \in SUBSET D : it[T] \in Seq(D)
  <2> DEFINE P == {T \in SUBSET D : it[T] \in Seq(D)}
  <2>1. ASSUME NEW T \in SUBSET D, \A U \in SUBSET T : U # T => U \in P PROVE T \in P
    <3>1. it[T] = IF T = {} THEN <<>> ELSE LET x == CHOOSE y \in T : TRUE IN Inserted(x, it[T \ {x}])
      BY <1>5
    <3>2. CASE T = {}
      BY <1>2, <3>1, <3>2
    <3>3. CASE T # {}
      <4> DEFINE x == CHOOSE y \in T : TRUE
      <4>1. x \in T
        BY <3>3
      <4>2. T \ {x} \in P
        BY <2>1, <4>1
      <4> QED
        BY <3>1, <3>3, <4>1, <4>2, InsertedKeeps
    <3> QED
      BY <3>2, <3>3
  <2>2. SUBSET D \subseteq P
    <3> HIDE DEF P
    <3> QED
      BY <2>1, SubsetInduction
  <2> QED
    BY <2>2
<1>7. Ordered(D) = it[D]
  BY DEF Ordered, FoldSet, MapThenFoldSet, it
<1> QED
  BY <1>6, <1>7

LEMMA CappedKeeps ==
    ASSUME NEW D, NEW s \in Seq(D), NEW ref
    PROVE  Capped(s, ref) \in Seq(D)
<1> DEFINE S == DOMAIN s
           Step(kept, leg) == IF Room(kept, leg, ref) THEN Append(kept, leg) ELSE kept
           Body(F) == [T \in SUBSET S |-> IF T = {} THEN <<>> ELSE LET i == Max(T) IN Step(F[T \ {i}], s[i])]
           it == CHOOSE F : F = Body(F)
           st == [p \in S \X Seq(D) |-> Step(p[2], s[p[1]])]
           pk == LastOf(S)
<1>1. S = 1 .. Len(s) /\ Len(s) \in Nat /\ \A i \in S : s[i] \in D
  OBVIOUS
<1>2. IsFiniteSet(S) /\ \A T \in SUBSET S : T # {} => pk[T] \in T /\ pk[T] = Max(T)
  <2>1. \A n \in Nat : \A T \in SUBSET (1 .. n) : T # {} => LastOf(1 .. n)[T] \in T
    BY LastIsIn
  <2>2. \A T \in SUBSET S : pk[T] = Max(T)
    BY DEF LastOf, Max
  <2> QED
    BY <1>1, <2>1, <2>2, Interval
<1>3. ASSUME NEW kept \in Seq(D), NEW leg \in D PROVE Step(kept, leg) \in Seq(D)
  OBVIOUS
<1> HIDE DEF Step
<1>4. <<>> \in Seq(D) /\ st \in [S \X Seq(D) -> Seq(D)]
  BY <1>1, <1>3
<1>5. PICK G \in [SUBSET S -> Seq(D)] : Peeling(G, S, <<>>, st, pk)
  <2> HIDE DEF S, st, pk
  <2> QED
    BY <1>2, <1>4, SubsetRecursion
<1>6. G = Body(G)
  <2>1. ASSUME NEW T \in SUBSET S PROVE G[T] = Body(G)[T]
    <3>1. G[T] = IF T = {} THEN <<>> ELSE st[<<pk[T], G[T \ {pk[T]}]>>]
      BY <1>5 DEF Peeling
    <3>2. CASE T = {}
      BY <3>1, <3>2
    <3>3. CASE T # {}
      <4>1. pk[T] \in S /\ pk[T] = Max(T) /\ T \ {pk[T]} \in SUBSET S
        BY <1>2, <3>3
      <4> HIDE DEF pk, S
      <4>2. G[T \ {pk[T]}] \in Seq(D)
        BY <4>1
      <4>3. G[T] = Step(G[T \ {pk[T]}], s[pk[T]])
        BY <3>1, <3>3, <4>1, <4>2
      <4> HIDE DEF st
      <4> QED
        BY <3>3, <4>1, <4>3
    <3> QED
      BY <3>2, <3>3
  <2> HIDE DEF S, st, pk
  <2> QED
    BY <2>1
<1>7. it = Body(it)
  <2> HIDE DEF Body
  <2> QED
    BY <1>6
<1> HIDE DEF it
<1>8. \A T \in SUBSET S : it[T] \in Seq(D)
  <2> DEFINE P == {T \in SUBSET S : it[T] \in Seq(D)}
  <2>1. ASSUME NEW T \in SUBSET S, \A U \in SUBSET T : U # T => U \in P PROVE T \in P
    <3>1. it[T] = IF T = {} THEN <<>> ELSE LET i == Max(T) IN Step(it[T \ {i}], s[i])
      <4> HIDE DEF S
      <4> QED
        BY <1>7
    <3>2. CASE T = {}
      BY <1>4, <3>1, <3>2
    <3>3. CASE T # {}
      <4>1. Max(T) \in T
        BY <1>2, <3>3
      <4>2. T \ {Max(T)} \in P /\ s[Max(T)] \in D
        BY <1>1, <2>1, <4>1
      <4> HIDE DEF S
      <4> QED
        BY ZenonT(30), <1>3, <3>1, <3>3, <4>2
    <3> QED
      BY <3>2, <3>3
  <2>2. SUBSET S \subseteq P
    <3>1. IsFiniteSet(S)
      BY <1>2
    <3> HIDE DEF P, S
    <3> QED
      BY <2>1, <3>1, SubsetInduction
  <2> QED
    BY <2>2
<1>9. Capped(s, ref) = it[S]
  BY DEF Capped, FoldLeft, MapThenFoldSet, it, Step
<1> QED
  BY <1>8, <1>9

Complete(s) == \A i \in DOMAIN s : s[i].deps \subseteq Ids(s)

LEMMA CompleteGrows ==
    ASSUME NEW D, NEW kept \in Seq(D), Complete(kept), NEW leg \in D, leg.deps \subseteq Ids(kept)
    PROVE  Complete(Append(kept, leg))
<1> DEFINE t == Append(kept, leg)
           n == Len(kept)
<1>1. /\ n \in Nat /\ DOMAIN kept = 1 .. n /\ DOMAIN t = 1 .. n + 1 /\ t[n + 1] = leg
      /\ \A i \in 1 .. n : t[i] = kept[i]
  OBVIOUS
<1>2. Ids(kept) = {kept[i].id : i \in 1 .. n} /\ Ids(t) = {t[i].id : i \in 1 .. n + 1}
  BY <1>1 DEF Ids, ToSet
<1> HIDE DEF t, n
<1>3. Ids(kept) \subseteq Ids(t)
  BY <1>1, <1>2
<1>4. ASSUME NEW i \in DOMAIN t PROVE t[i].deps \subseteq Ids(t)
  <2>1. i = n + 1 \/ i \in 1 .. n
    BY <1>1
  <2> QED
    BY <1>1, <1>3, <2>1 DEF Complete
<1> QED
  BY <1>4 DEF Complete, t

LEMMA SupportedKeeps ==
    ASSUME NEW D, NEW s \in Seq(D)
    PROVE  Supported(s) \in {t \in Seq(D) : Complete(t)}
<1> DEFINE V == {t \in Seq(D) : Complete(t)}
           S == DOMAIN s
           Step(kept, leg) ==
             IF leg.deps \subseteq Ids(kept) THEN Append(kept, leg) ELSE kept
           Body(F) == [T \in SUBSET S |-> IF T = {} THEN <<>> ELSE LET i == Max(T) IN Step(F[T \ {i}], s[i])]
           it == CHOOSE F : F = Body(F)
           st == [p \in S \X V |-> Step(p[2], s[p[1]])]
           pk == LastOf(S)
<1>1. S = 1 .. Len(s) /\ Len(s) \in Nat /\ \A i \in S : s[i] \in D
  OBVIOUS
<1>2. IsFiniteSet(S) /\ \A T \in SUBSET S : T # {} => pk[T] \in T /\ pk[T] = Max(T)
  <2>1. \A n \in Nat : \A T \in SUBSET (1 .. n) : T # {} => LastOf(1 .. n)[T] \in T
    BY LastIsIn
  <2>2. \A T \in SUBSET S : pk[T] = Max(T)
    BY DEF LastOf, Max
  <2> QED
    BY <1>1, <2>1, <2>2, Interval
<1>3. ASSUME NEW kept \in V, NEW leg \in D PROVE Step(kept, leg) \in V
  <2>1. kept \in Seq(D) /\ Complete(kept) /\ Append(kept, leg) \in Seq(D)
    OBVIOUS
  <2>2. leg.deps \subseteq Ids(kept) => Complete(Append(kept, leg))
    BY <2>1, CompleteGrows
  <2> QED
    BY <2>1, <2>2
<1> HIDE DEF Step
<1>40. <<>> \in V
  BY DEF Complete
<1> HIDE DEF V
<1>4. <<>> \in V /\ st \in [S \X V -> V]
  BY <1>1, <1>3, <1>40
<1>5. PICK G \in [SUBSET S -> V] : Peeling(G, S, <<>>, st, pk)
  <2> HIDE DEF S, st, pk
  <2> QED
    BY <1>2, <1>4, SubsetRecursion
<1>6. G = Body(G)
  <2>1. ASSUME NEW T \in SUBSET S PROVE G[T] = Body(G)[T]
    <3>1. G[T] = IF T = {} THEN <<>> ELSE st[<<pk[T], G[T \ {pk[T]}]>>]
      BY <1>5 DEF Peeling
    <3>2. CASE T = {}
      BY <3>1, <3>2
    <3>3. CASE T # {}
      <4>1. pk[T] \in S /\ pk[T] = Max(T) /\ T \ {pk[T]} \in SUBSET S
        BY <1>2, <3>3
      <4> HIDE DEF pk, S
      <4>2. G[T \ {pk[T]}] \in V
        BY <4>1
      <4>3. G[T] = Step(G[T \ {pk[T]}], s[pk[T]])
        BY <3>1, <3>3, <4>1, <4>2
      <4> HIDE DEF st
      <4> QED
        BY <3>3, <4>1, <4>3
    <3> QED
      BY <3>2, <3>3
  <2> HIDE DEF S, st, pk
  <2> QED
    BY <2>1
<1>7. it = Body(it)
  <2> HIDE DEF Body
  <2> QED
    BY <1>6
<1> HIDE DEF it
<1>8. \A T \in SUBSET S : it[T] \in V
  <2> DEFINE P == {T \in SUBSET S : it[T] \in V}
  <2>1. ASSUME NEW T \in SUBSET S, \A U \in SUBSET T : U # T => U \in P PROVE T \in P
    <3>1. it[T] = IF T = {} THEN <<>> ELSE LET i == Max(T) IN Step(it[T \ {i}], s[i])
      <4> HIDE DEF S
      <4> QED
        BY <1>7
    <3>2. CASE T = {}
      BY <1>4, <3>1, <3>2
    <3>3. CASE T # {}
      <4>1. Max(T) \in T
        BY <1>2, <3>3
      <4>2. T \ {Max(T)} \in P /\ s[Max(T)] \in D
        BY <1>1, <2>1, <4>1
      <4> HIDE DEF S
      <4> QED
        BY <1>3, <3>1, <3>3, <4>2
    <3> QED
      BY <3>2, <3>3
  <2>2. SUBSET S \subseteq P
    <3>1. IsFiniteSet(S)
      BY <1>2
    <3> HIDE DEF P, S
    <3> QED
      BY <2>1, <3>1, SubsetInduction
  <2> QED
    BY <2>2
<1>9. Supported(s) = it[S]
  BY DEF Supported, FoldLeft, MapThenFoldSet, it, Step
<1> QED
  BY <1>8, <1>9 DEF V

(* The legs of a proposal are finitely many drafts.                             *)
ProposalSound ==
    /\ IsFiniteSet(Legs) /\ Len(plan) \in Nat /\ Cardinality(Legs) <= Len(plan)
    /\ \A leg \in Legs : Drafted(leg)

LEMMA FromDrafts ==
    ASSUME NEW D, DraftsOf(D), plan \in Seq(D)
    PROVE  ProposalSound
<1>1. DOMAIN plan = 1 .. Len(plan) /\ Len(plan) \in Nat /\ \A i \in DOMAIN plan : plan[i] \in D
  OBVIOUS
<1>2. IsFiniteSet(DOMAIN plan) /\ Cardinality(DOMAIN plan) = Len(plan)
  BY <1>1, Interval
<1>3. Legs = {plan[i] : i \in DOMAIN plan}
  BY DEF Legs, ToSet
<1>4. IsFiniteSet(Legs) /\ Cardinality(Legs) <= Cardinality(DOMAIN plan)
  <2>1. plan \in [DOMAIN plan -> Legs] /\ plan \in Surjection(DOMAIN plan, Legs)
    BY <1>1, <1>3 DEF Surjection
  <2> QED
    BY <1>2, <2>1, FS_Surjection
<1>5. \A leg \in Legs : Drafted(leg)
  BY <1>1, <1>3 DEF DraftsOf
<1> QED
  BY <1>1, <1>2, <1>4, <1>5 DEF ProposalSound

Drafts ==
    (UNION {PlanLine(want.rule[l], l, want.target[l], On(base, l)) : l \in {k \in Core : k \in DOMAIN want.target}})
    \cup (UNION {PlanSwing(want.rule[l], l, want.order[l], On(base, l)) : l \in Swing})

(* What the planner orders, caps and thins out; what is left has the legs it waits *)
(* for.                                                                        *)
LEMMA DraftsPlanned ==
    ASSUME ApprovalInit, want.kind # "flatten"
    PROVE  DraftsOf(Drafts) /\ plan \in Seq(Drafts) /\ Complete(plan)
<1>1. IsFiniteSet(base)
  BY ApprovalConstants DEF ApprovalInit
<1>2. \A l : IsFiniteSet(On(base, l)) /\ \A p \in On(base, l) : p.line = l
  BY <1>1, FS_Subset DEF On
<1> DEFINE C == {k \in Core : k \in DOMAIN want.target}
           f == [l \in C |-> PlanLine(want.rule[l], l, want.target[l], On(base, l))]
           g == [l \in Swing |-> PlanSwing(want.rule[l], l, want.order[l], On(base, l))]
           D == (UNION {f[l] : l \in C}) \cup (UNION {g[l] : l \in Swing})
<1>3. IsFiniteSet(C) /\ IsFiniteSet(Swing) /\ \A l \in C : l \notin Swing
  BY PlanConstants, FS_Subset
<1>4. \A l \in C : DraftsOf(f[l])
  <2> HIDE DEF C
  <2> QED
    BY <1>2, <1>3, LineDrafts
<1>5. \A l \in Swing : DraftsOf(g[l])
  BY <1>2, SwingDrafts
<1>6. DraftsOf(UNION {f[l] : l \in C})
  <2> HIDE DEF f, C
  <2>1. IsFiniteSet({f[l] : l \in C})
    BY <1>3, FiniteImage
  <2> QED
    BY <1>4, <2>1, ManyDrafts
<1>7. DraftsOf(UNION {g[l] : l \in Swing})
  <2> HIDE DEF g
  <2>1. IsFiniteSet({g[l] : l \in Swing})
    BY <1>3, FiniteImage
  <2> QED
    BY <1>5, <2>1, ManyDrafts
<1>8. DraftsOf(D)
  <2> HIDE DEF f, g, C
  <2> QED
    BY <1>6, <1>7, DraftsJoin
<1>9. D = Drafts
  <2>1. UNION {f[l] : l \in C} = UNION {PlanLine(want.rule[l], l, want.target[l], On(base, l)) : l \in C}
    OBVIOUS
  <2>2. UNION {g[l] : l \in Swing} = UNION {PlanSwing(want.rule[l], l, want.order[l], On(base, l)) : l \in Swing}
    OBVIOUS
  <2> HIDE DEF f, g
  <2> QED
    BY <2>1, <2>2 DEF Drafts
<1>10. plan = Supported(Capped(Ordered(Drafts), want.ref))
  BY DEF ApprovalInit, BuildPlan, Drafts
<1> HIDE DEF D
<1>11. Ordered(Drafts) \in Seq(Drafts)
  BY <1>8, <1>9, OrderedKeeps DEF DraftsOf
<1>12. Capped(Ordered(Drafts), want.ref) \in Seq(Drafts)
  BY <1>11, CappedKeeps
<1>13. plan \in {t \in Seq(Drafts) : Complete(t)}
  BY <1>10, <1>12, SupportedKeeps
<1> QED
  BY <1>8, <1>9, <1>13

LEMMA ProposedSound ==
    ASSUME ApprovalInit
    PROVE  ProposalSound
<1>1. IsFiniteSet(base)
  BY ApprovalConstants DEF ApprovalInit
<1>2. CASE want.kind = "flatten"
  <2> DEFINE D == {Close(p) : p \in base}
  <2>1. DraftsOf(D)
    BY <1>1, ClosesDraft
  <2>2. plan = Ordered(D)
    BY <1>2 DEF ApprovalInit, BuildFlatten
  <2> HIDE DEF D
  <2>3. plan \in Seq(D)
    BY <2>1, <2>2, OrderedKeeps DEF DraftsOf
  <2> QED
    BY <2>1, <2>3, FromDrafts
<1>3. CASE want.kind # "flatten"
  BY <1>3, DraftsPlanned, FromDrafts
<1> QED
  BY <1>2, <1>3

-----------------------------------------------------------------------------
(* The rounds of the market hours end before the legs do.                        *)
LEMMA RoundGrows ==
    ASSUME NEW d \in SUBSET Legs
    PROVE  DropRound(d) \in SUBSET Legs /\ d \subseteq DropRound(d)
BY DEF DropRound, Gives

LEMMA RoundsEnd ==
    ASSUME ProposalSound
    PROVE  MarketHoursDrops \in SUBSET Legs /\ DropRound(MarketHoursDrops) = MarketHoursDrops
<1> DEFINE start == {leg \in Legs : Closed(leg)}
           Body(F) == [n \in Nat |-> IF n = 0 THEN start ELSE DropRound(F[n - 1])]
           round == CHOOSE F : F = Body(F)
           st == [p \in Nat \X SUBSET Legs |-> DropRound(p[2])]
<1>1. start \in SUBSET Legs /\ st \in [Nat \X SUBSET Legs -> SUBSET Legs]
  BY RoundGrows
<1>2. PICK G \in [Nat -> SUBSET Legs] : Iterates(G, start, st)
  <2> HIDE DEF start, st
  <2> QED
    BY <1>1, NumberRecursion
<1> HIDE DEF start
<1>3. G = Body(G)
  <2>1. ASSUME NEW n \in Nat PROVE G[n] = Body(G)[n]
    <3>1. G[n] = IF n = 0 THEN start ELSE st[<<n, G[n - 1]>>]
      BY <1>2 DEF Iterates
    <3>2. n # 0 => n - 1 \in Nat /\ G[n - 1] \in SUBSET Legs
      OBVIOUS
    <3>3. n # 0 => st[<<n, G[n - 1]>>] = DropRound(G[n - 1])
      BY <3>2
    <3> HIDE DEF st
    <3> QED
      BY <3>1, <3>3
  <2> HIDE DEF st
  <2> QED
    BY <2>1
<1>4. round = Body(round)
  <2> HIDE DEF Body
  <2> QED
    BY <1>3
<1>5. MarketHoursDrops = round[Len(plan)]
  BY DEF MarketHoursDrops, round, start
<1> HIDE DEF round
<1>6. \A n \in Nat : round[n] = IF n = 0 THEN start ELSE DropRound(round[n - 1])
  BY <1>4
<1> DEFINE P == {n \in Nat : /\ round[n] \in SUBSET Legs
                             /\ DropRound(round[n]) = round[n] \/ Cardinality(round[n]) >= n}
<1>7. P = Nat
  <2>1. 0 \in P
    <3>1. round[0] = start
      BY <1>6
    <3>2. Cardinality(start) \in Nat
      BY <1>1, FS_Subset, FS_CardinalityType DEF ProposalSound
    <3> QED
      BY <1>1, <3>1, <3>2
  <2>2. ASSUME NEW n \in P PROVE n + 1 \in P
    <3> DEFINE a == round[n]
               b == round[n + 1]
    <3>1. n \in Nat /\ n + 1 \in Nat /\ b = DropRound(a) /\ a \in SUBSET Legs
      <4>1. n \in Nat /\ n + 1 \in Nat /\ n + 1 # 0 /\ (n + 1) - 1 = n
        OBVIOUS
      <4> QED
        BY <1>6, <4>1
    <3>2. DropRound(a) = a \/ Cardinality(a) >= n
      OBVIOUS
    <3> HIDE DEF a, b
    <3>3. b \in SUBSET Legs /\ a \subseteq b
      BY <3>1, RoundGrows
    <3>4. CASE b = a
      <4>1. DropRound(b) = b
        BY <3>1, <3>4
      <4> QED
        BY <3>1, <3>3, <4>1 DEF b
    <3>5. CASE b # a
      <4>1. IsFiniteSet(a) /\ IsFiniteSet(b) /\ Cardinality(a) \in Nat /\ Cardinality(b) \in Nat
        BY <3>1, <3>3, FS_Subset, FS_CardinalityType DEF ProposalSound
      <4>2. Cardinality(a) < Cardinality(b)
        <5>1. Cardinality(a) <= Cardinality(b) /\ (Cardinality(a) = Cardinality(b) => a = b)
          BY <3>3, <4>1, FS_Subset
        <5> QED
          BY <3>5, <4>1, <5>1
      <4>3. Cardinality(b) >= n + 1
        BY <3>1, <3>2, <3>5, <4>1, <4>2
      <4> QED
        BY <3>1, <3>3, <4>3 DEF b
    <3> QED
      BY <3>4, <3>5
  <2> HIDE DEF P
  <2>3. P \in SUBSET Nat
    BY DEF P
  <2> QED
    BY <2>1, <2>2, <2>3, NumberInduction
<1> DEFINE last == round[Len(plan)]
<1>8. Len(plan) \in P
  BY <1>7 DEF ProposalSound
<1>9. last \in SUBSET Legs /\ (DropRound(last) = last \/ Cardinality(last) >= Len(plan))
  BY <1>8
<1>10. CASE Cardinality(last) >= Len(plan)
  <2>1. IsFiniteSet(Legs) /\ Cardinality(last) <= Cardinality(Legs) /\ (Cardinality(last) = Cardinality(Legs) => last = Legs)
    BY <1>9, FS_Subset DEF ProposalSound
  <2>2. Cardinality(last) \in Nat /\ Cardinality(Legs) \in Nat
    BY <1>9, FS_Subset, FS_CardinalityType DEF ProposalSound
  <2>3. last = Legs
    <3> HIDE DEF last
    <3> QED
      BY <1>10, <2>1, <2>2 DEF ProposalSound
  <2>4. DropRound(Legs) = Legs
    BY RoundGrows
  <2> QED
    BY <1>5, <2>3, <2>4
<1> QED
  BY <1>5, <1>9, <1>10

(* On the screen and after it: the market's drops are closed under the rules,    *)
(* the other drops are swing legs, and an exit among them has no position left.  *)
SwingDrops(d) == d \subseteq Legs /\ \A leg \in d : leg.swing /\ (Reduces(leg) => Gone(leg))
ApprovalInv ==
    /\ ProposalSound
    /\ stage \in {"proposed", "shown", "approved"}
    /\ stage # "proposed" => DropRound(late) = late /\ late \subseteq Legs /\ SwingDrops(swing)
    /\ stage = "approved" => sent = Legs \ (late \cup swing)

LEMMA CascadeKeeps ==
    ASSUME ProposalSound, NEW drops, NEW d, SwingDrops(d), NEW closed
    PROVE  SwingDrops(CascadeRound(drops, d, closed)) /\ d \subseteq CascadeRound(drops, d, closed)
<1> DEFINE exit == \E leg \in drops \cup d : leg.swing /\ Reduces(leg) /\ leg \notin closed
           more == {leg \in Legs \ drops : leg.swing /\ (leg.deps \cap IdsOf(drops \cup d) # {} \/ (exit /\ leg.inc))}
<1>1. CascadeRound(drops, d, closed) = d \cup more
  BY DEF CascadeRound
<1>2. ASSUME NEW leg \in more PROVE leg \in Legs /\ leg.swing /\ ~Reduces(leg)
  <2>1. leg \in Legs /\ leg.swing /\ Drafted(leg) /\ (leg.deps # {} \/ leg.inc)
    BY DEF ProposalSound
  <2>2. Reduces(leg) => leg.kind # "open"
    BY DEF Reduces
  <2> QED
    BY <2>1, <2>2 DEF Drafted
<1> HIDE DEF more
<1> QED
  BY <1>1, <1>2 DEF SwingDrops

LEMMA CascadesKeep ==
    ASSUME ProposalSound, NEW drops, NEW d, SwingDrops(d), NEW closed
    PROVE  SwingDrops(SwingCascade(drops, d, closed)) /\ d \subseteq SwingCascade(drops, d, closed)
<1> DEFINE one == CascadeRound(drops, d, closed)
           two == CascadeRound(drops, one, closed)
<1>1. SwingDrops(one) /\ d \subseteq one
  BY CascadeKeeps
<1>2. SwingDrops(two) /\ one \subseteq two
  <2> HIDE DEF one
  <2> QED
    BY <1>1, CascadeKeeps
<1>3. SwingDrops(CascadeRound(drops, two, closed)) /\ two \subseteq CascadeRound(drops, two, closed)
  <2> HIDE DEF two
  <2> QED
    BY <1>2, CascadeKeeps
<1> QED
  BY <1>1, <1>2, <1>3 DEF SwingCascade

LEMMA ShowsKeeps == ASSUME ApprovalInv, Shows PROVE ApprovalInv'
<1> DEFINE drops == MarketHoursDrops
           first == SwingCascade(drops, SwingNotLive, {})
           gone == {leg \in Legs \ (drops \cup first) : Gone(leg)}
           unwanted == first \cup gone \cup (Runaway \ drops)
           all == SwingCascade(drops, unwanted, gone)
<1>1. CASE Refused
  <2>1. ProposalSound'
    BY <1>1 DEF ApprovalInv, Refused, proposal, ProposalSound, Legs, Drafted
  <2> QED
    BY <1>1, <2>1 DEF Refused, ApprovalInv
<1>2. CASE /\ late' = drops /\ swing' = all /\ stage' = "shown" /\ UNCHANGED <<proposal, market, sent>>
           /\ \A leg \in gone : leg.swing
  <2>1. SwingDrops(SwingNotLive)
    BY DEF ApprovalInv, ProposalSound, SwingDrops, SwingNotLive, Drafted, Reduces
  <2>2. SwingDrops(first)
    <3> HIDE DEF drops
    <3> QED
      BY <2>1, CascadesKeep DEF ApprovalInv
  <2>3. SwingDrops(unwanted)
    <3>1. SwingDrops(gone)
      BY <1>2 DEF SwingDrops
    <3>2. SwingDrops(Runaway)
      BY DEF SwingDrops, Runaway, Reduces
    <3> HIDE DEF first, gone, drops
    <3> QED
      BY <2>2, <3>1, <3>2 DEF SwingDrops
  <2>4. SwingDrops(all)
    <3> HIDE DEF unwanted, gone, drops
    <3> QED
      BY <2>3, CascadesKeep DEF ApprovalInv
  <2>5. drops \subseteq Legs /\ DropRound(drops) = drops
    BY RoundsEnd DEF ApprovalInv
  <2> HIDE DEF drops, all, gone
  <2>6. UNCHANGED <<plan, want, book>>
    BY <1>2 DEF proposal, market
  <2>7. ProposalSound' /\ DropRound(late)' = DropRound(drops) /\ SwingDrops(swing)'
    BY <1>2, <2>4, <2>6 DEF ApprovalInv, ProposalSound, Legs, Drafted, DropRound, Gives, IdsOf, SwingDrops, Gone
  <2>8. Legs' = Legs
    BY <2>6 DEF Legs
  <2> QED
    BY <1>2, <2>5, <2>7, <2>8 DEF ApprovalInv
<1>3. Refused \/ (late' = drops /\ swing' = all /\ stage' = "shown" /\ UNCHANGED <<proposal, market, sent>>
                  /\ \A leg \in gone : leg.swing)
  BY DEF Shows
<1> HIDE DEF drops, all, gone
<1> QED
  BY <1>1, <1>2, <1>3

LEMMA ConfirmsKeeps == ASSUME ApprovalInv, Confirms PROVE ApprovalInv'
<1> DEFINE more == swing \cup (Runaway \ (late \cup swing))
           closed == {leg \in swing : Gone(leg)}
           all == SwingCascade(late, more, closed)
<1>1. CASE Refused
  <2>1. ProposalSound'
    BY <1>1 DEF ApprovalInv, Refused, proposal, ProposalSound, Legs, Drafted
  <2> QED
    BY <1>1, <2>1 DEF Refused, ApprovalInv
<1>2. CASE stage' = "approved" /\ swing' = all /\ sent' = Legs \ (late \cup all) /\ UNCHANGED <<proposal, market, late>>
  <2>0. stage = "shown"
    BY DEF Confirms
  <2>1. SwingDrops(more)
    <3>1. SwingDrops(Runaway)
      BY DEF SwingDrops, Runaway, Reduces
    <3> QED
      BY <2>0, <3>1 DEF ApprovalInv, SwingDrops
  <2>2. SwingDrops(all)
    <3> HIDE DEF more, closed
    <3> QED
      BY <2>1, CascadesKeep DEF ApprovalInv
  <2> HIDE DEF all
  <2>3. UNCHANGED <<plan, want, book, late>>
    BY <1>2 DEF proposal, market
  <2>4. Legs' = Legs
    BY <2>3 DEF Legs
  <2>5. ProposalSound' /\ DropRound(late)' = DropRound(late) /\ SwingDrops(swing)'
    BY <1>2, <2>2, <2>3 DEF ApprovalInv, ProposalSound, Legs, Drafted, DropRound, Gives, IdsOf, SwingDrops, Gone
  <2> QED
    BY <1>2, <2>0, <2>3, <2>4, <2>5 DEF ApprovalInv
<1>3. Refused \/ (stage' = "approved" /\ swing' = all /\ sent' = Legs \ (late \cup all) /\ UNCHANGED <<proposal, market, late>>)
  BY DEF Confirms
<1> HIDE DEF all
<1> QED
  BY <1>1, <1>2, <1>3

(* What the market does leaves the screen as it is; a position never comes back.  *)
LEMMA MarketKeeps ==
    ASSUME ApprovalInv, UNCHANGED <<proposal, late, swing, stage, sent>>, book' \subseteq book
    PROVE  ApprovalInv'
<1>1. UNCHANGED <<plan, want>>
  BY DEF proposal
<1>2. Legs' = Legs
  BY <1>1 DEF Legs
<1>3. ProposalSound' /\ DropRound(late)' = DropRound(late)
  BY <1>1, <1>2 DEF ApprovalInv, ProposalSound, Drafted, DropRound, Gives, IdsOf
<1>4. SwingDrops(swing) => SwingDrops(swing)'
  BY <1>2 DEF SwingDrops, Gone
<1> QED
  BY <1>2, <1>3, <1>4 DEF ApprovalInv

LEMMA ApprovalInductive == ApprovalSpec => []ApprovalInv
<1>1. ApprovalInit => ApprovalInv
  BY ProposedSound DEF ApprovalInit, ApprovalInv
<1>2. ApprovalInv /\ [ApprovalNext]_approvalVars => ApprovalInv'
  <2> SUFFICES ASSUME ApprovalInv, [ApprovalNext]_approvalVars PROVE ApprovalInv'
    OBVIOUS
  <2>1. CASE Leaves
    <3>1. ProposalSound'
      BY <2>1 DEF ApprovalInv, Leaves, Refused, proposal, ProposalSound, Legs, Drafted
    <3> QED
      BY <2>1, <3>1 DEF Leaves, Refused, ApprovalInv
  <2>2. CASE (\E l \in Lines : Turns(l)) \/ (\E l \in Swing : Runs(l)) \/ (\E p \in book : ClosesAlone(p))
    BY <2>2, MarketKeeps DEF Turns, Runs, ClosesAlone
  <2>3. CASE UNCHANGED approvalVars
    BY <2>3, MarketKeeps DEF approvalVars, proposal
  <2> QED
    BY <2>1, <2>2, <2>3, ShowsKeeps, ConfirmsKeeps DEF ApprovalNext
<1> QED
  BY <1>1, <1>2, PTL DEF ApprovalSpec

(* Risk first (ReductionsFirst), for every book, every want and any turns of the *)
(* market: a core reduction that is not sent was dropped with the market's hours, *)
(* and their rules then drop every leg that adds risk; a swing exit that is not   *)
(* sent has either lost its position or taken the entries with it.               *)
THEOREM RiskFirst == ApprovalSpec => []ReductionsFirst
<1>1. ApprovalInv => ReductionsFirst
  <2> SUFFICES ASSUME ApprovalInv, Handed, want.kind = "rebalance",
                      NEW leg \in Legs \ sent, NEW open \in sent
               PROVE  /\ ~leg.inc /\ ~leg.swing => ~open.inc
                      /\ leg.swing /\ Reduces(leg) /\ ~Gone(leg) => ~(open.swing /\ open.inc)
    BY DEF ReductionsFirst
  <2>1. sent = Legs \ (late \cup swing) /\ DropRound(late) = late /\ SwingDrops(swing)
    BY DEF ApprovalInv, Handed
  <2>2. leg \in late \/ leg \in swing
    BY <2>1
  <2>3. open \in Legs /\ open \notin late
    BY <2>1
  <2>4. ASSUME leg \in late, ~leg.inc, ~leg.swing PROVE ~open.inc
    BY <2>1, <2>3, <2>4 DEF DropRound
  <2>5. ASSUME leg \in late, leg.swing, Reduces(leg) PROVE ~(open.swing /\ open.inc)
    BY <2>1, <2>3, <2>5 DEF DropRound
  <2>6. ASSUME leg \in swing PROVE leg.swing /\ (Reduces(leg) => Gone(leg))
    BY <2>1, <2>6 DEF SwingDrops
  <2> QED
    BY <2>2, <2>4, <2>5, <2>6
<1> QED
  BY <1>1, ApprovalInductive, PTL

(* A trim stays a trim (TrimStaysTrim), for every book and want: the rules of the *)
(* market's hours drop the close of a re-open with it, and nothing else drops a  *)
(* re-open, because an entry of the swing book gives nothing back.               *)
THEOREM TrimsStayTrims == ApprovalSpec => []TrimStaysTrim
<1>1. ApprovalInv => TrimStaysTrim
  <2> SUFFICES ASSUME ApprovalInv, Handed, want.kind = "rebalance",
                      NEW open \in Legs, open.kind = "open", open \notin sent
               PROVE  Gives(open) \cap sent = {}
    BY DEF TrimStaysTrim
  <2>1. sent = Legs \ (late \cup swing) /\ DropRound(late) = late /\ SwingDrops(swing)
    BY DEF ApprovalInv, Handed
  <2>2. CASE open \in late
    <3>1. Gives(open) \subseteq DropRound(late)
      BY <2>2 DEF DropRound
    <3> QED
      BY <2>1, <3>1
  <2>3. CASE open \in swing
    <3>1. open.swing /\ Drafted(open)
      BY <2>1, <2>3 DEF SwingDrops, ApprovalInv, ProposalSound
    <3>2. open.deps = {}
      BY <3>1 DEF Drafted
    <3> QED
      BY <3>2 DEF Gives
  <2> QED
    BY <2>1, <2>2, <2>3
<1> QED
  BY <1>1, ApprovalInductive, PTL

-----------------------------------------------------------------------------
(* The weight of a set of positions, and what legs add to it.                    *)
Held(ps) ==
    /\ IsFiniteSet(ps) /\ \A p \in ps : p.id \in Int /\ p.w \in Int
    /\ \A p, q \in ps : p.id = q.id => p = q
Effect(D) == Total([leg \in D |-> leg.dw])

LEMMA TotalIsSum == \A f : Total(f) = SumFunctionOnSet(f, DOMAIN f)
BY DEF Total, FoldFunction, SumFunctionOnSet

LEMMA WeightIsSum ==
    ASSUME NEW ps, Held(ps), NEW f, \A p \in ps : f[p] = p.w, NEW R \in SUBSET ps
    PROVE  Weight(R) = SumFunctionOnSet(f, R) /\ Weight(R) \in Int
<1> DEFINE g == [p \in R |-> p.w]
<1>1. IsFiniteSet(R) /\ IntOn(f, R) /\ IntOn(g, R) /\ DOMAIN g = R /\ \A p \in R : f[p] = g[p]
  BY FS_Subset DEF Held, IntOn
<1>2. Weight(R) = SumFunctionOnSet(g, R)
  BY TotalIsSum DEF Weight
<1> HIDE DEF g
<1>3. SumFunctionOnSet(f, R) = SumFunctionOnSet(g, R) /\ SumFunctionOnSet(g, R) \in Int
  BY <1>1, SumAgrees, SumFacts
<1> QED
  BY <1>2, <1>3

LEMMA ExposureIsSum ==
    ASSUME NEW ps, Held(ps), NEW f, \A p \in ps : f[p] = Size(p.w), NEW R \in SUBSET ps
    PROVE  Exposure(R) = SumFunctionOnSet(f, R) /\ Exposure(R) \in Int
<1> DEFINE g == [p \in R |-> Size(p.w)]
<1>1. IsFiniteSet(R) /\ IntOn(f, R) /\ IntOn(g, R) /\ DOMAIN g = R /\ \A p \in R : f[p] = g[p]
  BY FS_Subset DEF Held, IntOn, Size
<1>2. Exposure(R) = SumFunctionOnSet(g, R)
  BY TotalIsSum DEF Exposure
<1> HIDE DEF g
<1>3. SumFunctionOnSet(f, R) = SumFunctionOnSet(g, R) /\ SumFunctionOnSet(g, R) \in Int
  BY <1>1, SumAgrees, SumFacts
<1> QED
  BY <1>2, <1>3

LEMMA EffectIsSum ==
    ASSUME NEW D, IsFiniteSet(D), \A leg \in D : leg.dw \in Int, NEW f, \A leg \in D : f[leg] = leg.dw, NEW R \in SUBSET D
    PROVE  Effect(R) = SumFunctionOnSet(f, R) /\ Effect(R) \in Int
<1> DEFINE g == [leg \in R |-> leg.dw]
<1>1. IsFiniteSet(R) /\ IntOn(f, R) /\ IntOn(g, R) /\ DOMAIN g = R /\ \A leg \in R : f[leg] = g[leg]
  BY FS_Subset DEF IntOn
<1>2. Effect(R) = SumFunctionOnSet(g, R)
  BY TotalIsSum DEF Effect
<1> HIDE DEF g
<1>3. SumFunctionOnSet(f, R) = SumFunctionOnSet(g, R) /\ SumFunctionOnSet(g, R) \in Int
  BY <1>1, SumAgrees, SumFacts
<1> QED
  BY <1>2, <1>3

(* Exposures add up, and a set has at least that of a part.                       *)
LEMMA ExposureFacts ==
    ASSUME NEW ps, Held(ps)
    PROVE  /\ \A R \in SUBSET ps : Exposure(R) \in Int /\ Exposure(R) >= 0
           /\ \A R \in SUBSET ps : \A Q \in SUBSET R : Exposure(R) = Exposure(Q) + Exposure(R \ Q)
           /\ \A p \in ps : Exposure({p}) = Size(p.w)
           /\ Exposure({}) = 0
<1> DEFINE f == [p \in ps |-> Size(p.w)]
<1>0. IntOn(f, ps) /\ IsFiniteSet(ps) /\ \A p \in ps : f[p] = Size(p.w) /\ f[p] >= 0
  BY DEF Held, IntOn, Size
<1> HIDE DEF f
<1>1. \A R \in SUBSET ps : Exposure(R) = SumFunctionOnSet(f, R) /\ Exposure(R) \in Int
  BY <1>0, ExposureIsSum
<1>2. \A R \in SUBSET ps : IsFiniteSet(R) /\ IntOn(f, R)
  BY <1>0, FS_Subset DEF IntOn
<1>3. ASSUME NEW R \in SUBSET ps PROVE Exposure(R) >= 0
  BY <1>0, <1>1, <1>2, SumNatural DEF IntOn
<1>4. ASSUME NEW R \in SUBSET ps, NEW Q \in SUBSET R PROVE Exposure(R) = Exposure(Q) + Exposure(R \ Q)
  <2>1. SumFunctionOnSet(f, R) = SumFunctionOnSet(f, Q) + SumFunctionOnSet(f, R \ Q)
    BY <1>2, SumSplit
  <2>2. Q \in SUBSET ps /\ R \ Q \in SUBSET ps
    OBVIOUS
  <2> QED
    BY <1>1, <2>1, <2>2
<1>5. SumFunctionOnSet(f, {}) = 0
  BY <1>2, SumFacts
<1>6. Exposure({}) = 0
  BY <1>1, <1>5
<1>7. ASSUME NEW p \in ps PROVE Exposure({p}) = Size(p.w)
  <2>1. SumFunctionOnSet(f, {p}) = f[p] + SumFunctionOnSet(f, {p} \ {p})
    BY <1>2, SumFacts
  <2>2. {p} \ {p} = {} /\ f[p] \in Int
    BY <1>0 DEF IntOn
  <2>3. Exposure({p}) = f[p]
    BY <1>1, <1>5, <2>1, <2>2
  <2> QED
    BY <1>0, <2>3
<1> QED
  BY <1>1, <1>3, <1>4, <1>6, <1>7

(* A line held on one side weighs its exposure, up to the sign.                   *)
Signed(ps, s) == s \in {1, -1} /\ (\A R \in SUBSET ps : Weight(R) = s * Exposure(R)) /\ \A p \in ps : p.w = s * Size(p.w)

LEMMA OneSign ==
    ASSUME NEW ps, Held(ps), OneSided(ps)
    PROVE  \E s \in {1, -1} : Signed(ps, s)
<1> DEFINE f == [p \in ps |-> p.w]
           e == [p \in ps |-> Size(p.w)]
           m == [p \in ps |-> -p.w]
<1>0. \A p \in ps : f[p] = p.w /\ e[p] = Size(p.w) /\ m[p] = -p.w /\ p.w \in Int /\ Size(p.w) \in Int
  BY DEF Held, Size
<1>00. IntOn(f, ps) /\ IntOn(e, ps) /\ IntOn(m, ps) /\ IsFiniteSet(ps)
  BY DEF Held, IntOn, Size
<1> HIDE DEF f, e, m
<1>1. \A R \in SUBSET ps : /\ Weight(R) = SumFunctionOnSet(f, R) /\ Weight(R) \in Int
                           /\ Exposure(R) = SumFunctionOnSet(e, R) /\ Exposure(R) \in Int
  BY <1>0, WeightIsSum, ExposureIsSum
<1>2. \A R \in SUBSET ps : IsFiniteSet(R) /\ IntOn(f, R) /\ IntOn(e, R) /\ IntOn(m, R)
  BY <1>00, FS_Subset DEF IntOn
<1>3. (\A p \in ps : p.w >= 0) \/ (\A p \in ps : p.w <= 0)
  BY <1>0 DEF OneSided, Side
<1>4. CASE \A p \in ps : p.w >= 0
  <2>1. \A p \in ps : f[p] = e[p] /\ p.w = 1 * Size(p.w)
    BY <1>0, <1>4 DEF Size
  <2>2. \A R \in SUBSET ps : SumFunctionOnSet(f, R) = SumFunctionOnSet(e, R)
    BY <1>2, <2>1, SumAgrees
  <2> QED
    BY <1>1, <2>1, <2>2 DEF Signed
<1>5. CASE \A p \in ps : p.w <= 0
  <2>1. \A p \in ps : m[p] = e[p] /\ p.w = (-1) * Size(p.w)
    BY <1>0, <1>5 DEF Size
  <2>2. \A R \in SUBSET ps : SumFunctionOnSet(m, R) = SumFunctionOnSet(e, R)
    BY <1>2, <2>1, SumAgrees
  <2>3. ASSUME NEW R \in SUBSET ps PROVE SumFunctionOnSet(m, R) = -SumFunctionOnSet(f, R)
    BY <1>0, <1>2, SumNegated
  <2>4. ASSUME NEW R \in SUBSET ps PROVE Weight(R) = (-1) * Exposure(R)
    BY <1>1, <2>2, <2>3
  <2> QED
    BY <2>1, <2>4 DEF Signed
<1> QED
  BY <1>3, <1>4, <1>5

LEMMA EffectFacts ==
    ASSUME NEW D, IsFiniteSet(D), \A leg \in D : leg.dw \in Int
    PROVE  /\ \A R \in SUBSET D : Effect(R) \in Int /\ Effect(D) = Effect(R) + Effect(D \ R)
           /\ \A leg \in D : Effect({leg}) = leg.dw
           /\ Effect({}) = 0
<1> DEFINE f == [leg \in D |-> leg.dw]
<1>0. IntOn(f, D) /\ \A leg \in D : f[leg] = leg.dw
  BY DEF IntOn
<1> HIDE DEF f
<1>1. \A R \in SUBSET D : Effect(R) = SumFunctionOnSet(f, R) /\ Effect(R) \in Int
  BY <1>0, EffectIsSum
<1>2. ASSUME NEW R \in SUBSET D PROVE Effect(D) = Effect(R) + Effect(D \ R)
  <2>1. SumFunctionOnSet(f, D) = SumFunctionOnSet(f, R) + SumFunctionOnSet(f, D \ R)
    BY <1>0, SumSplit
  <2>2. D \in SUBSET D /\ D \ R \in SUBSET D
    OBVIOUS
  <2> QED
    BY <1>1, <2>1, <2>2
<1>3. \A R \in SUBSET D : IsFiniteSet(R) /\ IntOn(f, R)
  BY <1>0, FS_Subset DEF IntOn
<1>4. SumFunctionOnSet(f, {}) = 0
  BY <1>3, SumFacts
<1>5. ASSUME NEW leg \in D PROVE Effect({leg}) = leg.dw
  <2>1. SumFunctionOnSet(f, {leg}) = f[leg] + SumFunctionOnSet(f, {leg} \ {leg})
    BY <1>3, SumFacts
  <2>2. {leg} \ {leg} = {} /\ f[leg] \in Int
    BY <1>0 DEF IntOn
  <2> QED
    BY <1>0, <1>1, <1>4, <2>1, <2>2
<1> QED
  BY <1>1, <1>2, <1>4, <1>5

(* A position and the close of it name each other; closes take its weight away.   *)
Closes(C) == {Close(p) : p \in C}

LEMMA CloseFields ==
    \A p : /\ Close(p).id = CloseOf(p) /\ Close(p).kind = "close" /\ Close(p).dw = -p.w /\ Close(p).line = p.line
           /\ Close(p).side = Side(p.w) /\ Close(p).deps = {} /\ Close(p).inc = FALSE
BY DEF Close, Leg

LEMMA CloseNames ==
    ASSUME NEW ps, Held(ps), NEW p \in ps, NEW q \in ps, CloseOf(p) = CloseOf(q) \/ Close(p) = Close(q)
    PROVE  p = q
<1>1. CloseOf(p) = CloseOf(q)
  BY CloseFields
<1>2. p.id = q.id
  BY <1>1 DEF CloseOf
<1> QED
  BY <1>2 DEF Held

LEMMA ClosesEffect ==
    ASSUME NEW ps, Held(ps), NEW C \in SUBSET ps
    PROVE  Effect(Closes(C)) = -Weight(C) /\ Weight(C) \in Int /\ IsFiniteSet(Closes(C))
<1> DEFINE h == [p \in C |-> Close(p)]
           w == [p \in ps |-> p.w]
           g == [p \in C |-> -p.w]
           f == [leg \in Closes(C) |-> leg.dw]
<1>1. IsFiniteSet(C) /\ IntOn(w, C) /\ IntOn(g, C) /\ \A p \in C : g[p] = -w[p]
  BY FS_Subset DEF Held, IntOn
<1>2. Closes(C) = {h[p] : p \in C}
  BY DEF Closes
<1>3. OneToOne(h, C)
  BY CloseNames DEF OneToOne
<1>4. \A leg \in Closes(C) : leg.dw \in Int
  BY CloseFields DEF Closes, Held
<1>5. \A p \in C : f[h[p]] = g[p]
  BY CloseFields DEF Closes
<1>6. \A leg \in Closes(C) : f[leg] = leg.dw
  OBVIOUS
<1>7. \A p \in ps : w[p] = p.w
  OBVIOUS
<1> HIDE DEF h, w, g, f
<1>8. IsFiniteSet(Closes(C))
  BY <1>1, <1>2, FiniteImage
<1>9. SumFunctionOnSet(f, Closes(C)) = SumFunctionOnSet(g, C)
  BY <1>1, <1>2, <1>3, <1>5, SumImage
<1>10. SumFunctionOnSet(g, C) = -SumFunctionOnSet(w, C)
  BY <1>1, SumNegated
<1>11. Effect(Closes(C)) = SumFunctionOnSet(f, Closes(C))
  BY <1>4, <1>6, <1>8, EffectIsSum
<1>12. Weight(C) = SumFunctionOnSet(w, C) /\ Weight(C) \in Int
  BY <1>7, WeightIsSum
<1> QED
  BY <1>8, <1>9, <1>10, <1>11, <1>12

(* Closes, and at most one leg of another kind.                                   *)
ClosedBy(D, ps) == {p \in ps : Close(p) \in D}

LEMMA Drawn ==
    ASSUME NEW ps, Held(ps), NEW o, o.kind # "close", o.dw \in Int, NEW D, D \subseteq Closes(ps) \cup {o}
    PROVE  /\ D \ {o} = Closes(ClosedBy(D, ps)) /\ Effect(D \ {o}) = -Weight(ClosedBy(D, ps))
           /\ Effect(D) = -Weight(ClosedBy(D, ps)) + IF o \in D THEN o.dw ELSE 0
<1> DEFINE C == ClosedBy(D, ps)
<1>1. C \in SUBSET ps
  BY DEF ClosedBy
<1>2. D \ {o} = Closes(C)
  BY CloseFields DEF Closes, ClosedBy
<1> HIDE DEF C
<1>3. Effect(Closes(C)) = -Weight(C) /\ Weight(C) \in Int /\ IsFiniteSet(Closes(C))
  BY <1>1, ClosesEffect
<1>4. CASE o \notin D
  <2>1. D \ {o} = D
    BY <1>4
  <2>2. Effect(D \ {o}) = -Weight(C)
    BY <1>2, <1>3
  <2>3. Effect(D) = Effect(D \ {o})
    BY <2>1
  <2>4. Effect(D) = -Weight(C) + 0
    BY <1>3, <2>2, <2>3
  <2> QED
    BY <1>2, <1>4, <2>2, <2>4 DEF C
<1>5. CASE o \in D
  <2>1. D = Closes(C) \cup {o} /\ D \ Closes(C) = {o}
    BY <1>2, <1>5, CloseFields DEF Closes
  <2>2. IsFiniteSet(D)
    BY <1>3, <2>1, FS_AddElement
  <2>3. \A leg \in D : leg.dw \in Int
    BY <1>1, <2>1, CloseFields DEF Closes, Held
  <2>4. Effect(D) = Effect(Closes(C)) + Effect(D \ Closes(C)) /\ Effect({o}) = o.dw
    BY <1>2, <1>5, <2>2, <2>3, EffectFacts
  <2> QED
    BY <1>2, <1>3, <1>5, <2>1, <2>4 DEF C
<1> QED
  BY <1>4, <1>5

-----------------------------------------------------------------------------
(* What a reduction by w closes whole stays inside w, newest first, and at most   *)
(* one position lies across.                                                    *)
Newer(ps, p) == {q \in ps : q.id > p.id}
Whole(ps, w) == {q \in ps : Exposure(Newer(ps, q)) + Size(q.w) <= w}
Across(ps, w) == {q \in ps : Exposure(Newer(ps, q)) < w /\ w < Exposure(Newer(ps, q)) + Size(q.w)}

LEMMA ExposureGrows ==
    ASSUME NEW ps, Held(ps), NEW R \in SUBSET ps, NEW Q \in SUBSET R
    PROVE  Exposure(Q) <= Exposure(R)
<1>1. Exposure(R) = Exposure(Q) + Exposure(R \ Q)
  BY ExposureFacts
<1>2. Exposure(Q) \in Int /\ Exposure(R \ Q) \in Int /\ Exposure(R \ Q) >= 0
  BY ExposureFacts
<1> QED
  BY <1>1, <1>2

LEMMA ExposureJoin ==
    ASSUME NEW ps, Held(ps), NEW R \in SUBSET ps, NEW p \in ps
    PROVE  /\ p \notin R => Exposure(R \cup {p}) = Exposure(R) + Size(p.w)
           /\ p \in R => Exposure(R) = Exposure(R \ {p}) + Size(p.w)
           /\ Size(p.w) \in Int /\ Size(p.w) >= 0
<1>1. Exposure({p}) = Size(p.w) /\ Size(p.w) \in Int /\ Size(p.w) >= 0
  BY ExposureFacts DEF Held, Size
<1>2. ASSUME p \in R PROVE Exposure(R) = Exposure(R \ {p}) + Size(p.w)
  <2>1. Exposure(R) = Exposure({p}) + Exposure(R \ {p}) /\ Exposure(R \ {p}) \in Int
    BY <1>2, ExposureFacts
  <2> QED
    BY <1>1, <2>1
<1>3. ASSUME p \notin R PROVE Exposure(R \cup {p}) = Exposure(R) + Size(p.w)
  <2>1. (R \cup {p}) \ {p} = R /\ R \cup {p} \in SUBSET ps
    BY <1>3
  <2>2. p \in R \cup {p} /\ {p} \in SUBSET (R \cup {p})
    OBVIOUS
  <2>3. Exposure(R \cup {p}) = Exposure({p}) + Exposure((R \cup {p}) \ {p})
    BY <2>1, <2>2, ExposureFacts
  <2>4. Exposure((R \cup {p}) \ {p}) = Exposure(R) /\ Exposure(R) \in Int
    BY <2>1, ExposureFacts
  <2> QED
    BY <1>1, <2>3, <2>4
<1> QED
  BY <1>1, <1>2, <1>3

LEMMA WholeFits ==
    ASSUME NEW ps, Held(ps), NEW w \in Int, w >= 0
    PROVE  Exposure(Whole(ps, w)) <= w
<1> DEFINE S == Whole(ps, w)
<1>1. S \in SUBSET ps /\ IsFiniteSet(S)
  BY FS_Subset DEF Whole, Held
<1>2. CASE S = {}
  BY <1>2, ExposureFacts
<1>3. CASE S # {}
  <2> DEFINE id == [p \in S |-> p.id]
  <2>1. id \in [S -> Int] /\ \A p \in S : id[p] = p.id
    BY <1>1 DEF Held
  <2>2. PICK p \in S : \A q \in S : id[p] <= id[q]
    <3> HIDE DEF id, S
    <3> QED
      BY <1>1, <1>3, <2>1, LeastValue
  <2>3. p \in ps /\ \A q \in S : p.id <= q.id /\ q.id \in Int
    BY <1>1, <2>1, <2>2 DEF Held
  <2>4. S \ {p} \subseteq Newer(ps, p)
    BY <1>1, <2>3 DEF Newer, Held
  <2>5. Exposure(Newer(ps, p)) + Size(p.w) <= w
    BY DEF Whole
  <2> HIDE DEF S
  <2>6. Exposure(S) = Exposure(S \ {p}) + Size(p.w) /\ Size(p.w) \in Int
    BY SMTT(30), <1>1, <2>3, ExposureJoin
  <2>7. Newer(ps, p) \in SUBSET ps
    BY DEF Newer
  <2>8. Exposure(S \ {p}) <= Exposure(Newer(ps, p))
    BY <2>4, <2>7, ExposureGrows
  <2>9. Exposure(S \ {p}) \in Int /\ Exposure(Newer(ps, p)) \in Int
    BY <1>1, <2>7, ExposureFacts
  <2> QED
    BY <2>5, <2>6, <2>8, <2>9 DEF S
<1> QED
  BY <1>2, <1>3

LEMMA OlderFollows ==
    ASSUME NEW ps, Held(ps), NEW p \in ps, NEW q \in ps, q.id < p.id
    PROVE  Exposure(Newer(ps, q)) >= Exposure(Newer(ps, p)) + Size(p.w)
<1>1. p.id \in Int /\ q.id \in Int
  BY DEF Held
<1>2. Newer(ps, q) \in SUBSET ps /\ p \in Newer(ps, q)
  BY <1>1 DEF Newer
<1>3. Newer(ps, p) \subseteq Newer(ps, q) \ {p}
  BY <1>1 DEF Newer, Held
<1>4. Exposure(Newer(ps, q)) = Exposure(Newer(ps, q) \ {p}) + Size(p.w) /\ Size(p.w) \in Int
  BY <1>2, ExposureJoin
<1>5. Exposure(Newer(ps, p)) <= Exposure(Newer(ps, q) \ {p})
  BY <1>2, <1>3, ExposureGrows
<1>6. Newer(ps, p) \in SUBSET ps /\ Newer(ps, q) \ {p} \in SUBSET ps
  BY DEF Newer
<1>7. Exposure(Newer(ps, p)) \in Int /\ Exposure(Newer(ps, q) \ {p}) \in Int
  BY <1>6, ExposureFacts
<1> QED
  BY <1>4, <1>5, <1>7

LEMMA OneAcross ==
    ASSUME NEW ps, Held(ps), NEW w \in Int, NEW p \in Across(ps, w)
    PROVE  Across(ps, w) = {p} /\ Whole(ps, w) \subseteq Newer(ps, p)
<1>1. p \in ps /\ Exposure(Newer(ps, p)) < w /\ w < Exposure(Newer(ps, p)) + Size(p.w)
  BY DEF Across
<1>2. \A q \in ps : Exposure(Newer(ps, q)) \in Int /\ Size(q.w) \in Int /\ Size(q.w) >= 0 /\ q.id \in Int
  <2> TAKE q \in ps
  <2>1. Newer(ps, q) \in SUBSET ps
    BY DEF Newer
  <2> QED
    BY <2>1, ExposureFacts DEF Held, Size
<1>3. ASSUME NEW q \in Across(ps, w) PROVE q = p
  <2>1. q \in ps /\ Exposure(Newer(ps, q)) < w /\ w < Exposure(Newer(ps, q)) + Size(q.w)
    BY DEF Across
  <2>2. ~(q.id < p.id)
    <3> SUFFICES ASSUME q.id < p.id PROVE FALSE
      OBVIOUS
    <3>1. Exposure(Newer(ps, q)) >= Exposure(Newer(ps, p)) + Size(p.w)
      BY <1>1, <2>1, OlderFollows
    <3> QED
      BY <1>1, <1>2, <2>1, <3>1
  <2>3. ~(p.id < q.id)
    <3> SUFFICES ASSUME p.id < q.id PROVE FALSE
      OBVIOUS
    <3>1. Exposure(Newer(ps, p)) >= Exposure(Newer(ps, q)) + Size(q.w)
      BY <1>1, <2>1, OlderFollows
    <3> QED
      BY <1>1, <1>2, <2>1, <3>1
  <2>4. p.id = q.id
    BY <1>1, <1>2, <2>1, <2>2, <2>3
  <2> QED
    BY <1>1, <2>1, <2>4 DEF Held
<1>4. ASSUME NEW q \in Whole(ps, w) PROVE q \in Newer(ps, p)
  <2>1. q \in ps /\ Exposure(Newer(ps, q)) + Size(q.w) <= w
    BY DEF Whole
  <2>2. ~(q.id < p.id)
    <3> SUFFICES ASSUME q.id < p.id PROVE FALSE
      OBVIOUS
    <3>1. Exposure(Newer(ps, q)) >= Exposure(Newer(ps, p)) + Size(p.w)
      BY <1>1, <2>1, OlderFollows
    <3> QED
      BY <1>1, <1>2, <2>1, <3>1
  <2>3. q.id # p.id
    <3> SUFFICES ASSUME q.id = p.id PROVE FALSE
      OBVIOUS
    <3>1. q = p
      BY <1>1, <2>1 DEF Held
    <3> QED
      BY <1>1, <1>2, <2>1, <3>1
  <2>4. q.id > p.id
    BY <1>1, <1>2, <2>1, <2>2, <2>3
  <2> QED
    BY <2>1, <2>4 DEF Newer
<1> QED
  BY <1>3, <1>4

-----------------------------------------------------------------------------
(* Where a line ends: without an open it is cut toward zero, never past its aim   *)
(* but for the two reasons of the broker; with one it ends between its weight and *)
(* its aim, and what the open gives back is known.                               *)
Ends(ps, D) == Weight(ps) + Effect(D)
Between(a, x, b) == (a <= x /\ x <= b) \/ (b <= x /\ x <= a)

NotBelow(rule, aim, ps, r, s) ==
    r = Exposure(ps) \/ s * aim <= r \/ rule.partial = "no" \/ s * aim - r < rule.min
CutTo(rule, aim, ps, D, r, s) ==
    /\ Weight(ps) = s * Exposure(ps) /\ Ends(ps, D) = s * r
    /\ 0 <= r /\ r <= Exposure(ps) /\ NotBelow(rule, aim, ps, r, s)
Cut(rule, aim, ps, D) == \E s \in {1, -1} : \E r \in Int : CutTo(rule, aim, ps, D, r, s)

GivesBack(ps, D, o) == \E p \in ps : Close(p) \in D /\ CloseOf(p) \in o.deps /\ Close(p).side = o.side /\ p.line = o.line
Raised(aim, ps, D, o) ==
    /\ Ends(ps, D) \in Int /\ Between(Weight(ps), Ends(ps, D), aim)
    /\ \/ Ends(ps, D) = aim /\ Ends(ps, D \ {o}) = Weight(ps) /\ Size(Weight(ps)) <= Size(aim)
       \/ Ends(ps, D \ {o}) = 0
       \/ GivesBack(ps, D, o)

NoOpen(D) == \A leg \in D : leg.kind # "open"
LineEnds(rule, aim, ps, D) ==
    \/ NoOpen(D) /\ Cut(rule, aim, ps, D)
    \/ \E o \in D : o.kind = "open" /\ NoOpen(D \ {o}) /\ Raised(aim, ps, D, o)

LEMMA CutByCloses ==
    ASSUME NEW ps, Held(ps), NEW s, Signed(ps, s), NEW aim \in Int, NEW rule, rule.min \in Int, NEW B \in SUBSET ps,
           \/ Exposure(B) = 0 \/ s * aim <= Exposure(ps) - Exposure(B) \/ rule.partial = "no"
           \/ s * aim - (Exposure(ps) - Exposure(B)) < rule.min,
           NEW D, D \subseteq Closes(B)
    PROVE  NoOpen(D) /\ Cut(rule, aim, ps, D)
<1> DEFINE C == {p \in B : Close(p) \in D}
           r == Exposure(ps) - Exposure(C)
<1>1. C \in SUBSET B /\ C \in SUBSET ps /\ D = Closes(C)
  BY DEF Closes
<1>2. NoOpen(D)
  BY CloseFields DEF NoOpen, Closes
<1> HIDE DEF C
<1>3. Effect(D) = -Weight(C) /\ Weight(C) = s * Exposure(C) /\ Weight(ps) = s * Exposure(ps) /\ s \in {1, -1}
  BY <1>1, ClosesEffect DEF Signed
<1>4. Exposure(ps) \in Int /\ Exposure(C) \in Int /\ Exposure(B) \in Int /\ Exposure(C) >= 0
  BY <1>1, ExposureFacts
<1>5. Exposure(C) <= Exposure(B) /\ Exposure(C) <= Exposure(ps)
  BY <1>1, ExposureGrows
<1>6. Ends(ps, D) = s * r
  BY <1>3, <1>4 DEF Ends
<1>7. NotBelow(rule, aim, ps, r, s)
  <2>1. s * aim \in Int
    BY <1>3
  <2>2. CASE Exposure(B) = 0
    BY <1>4, <1>5, <2>2 DEF NotBelow
  <2>3. CASE s * aim <= Exposure(ps) - Exposure(B)
    BY <1>4, <1>5, <2>1, <2>3 DEF NotBelow
  <2>4. CASE s * aim - (Exposure(ps) - Exposure(B)) < rule.min
    BY <1>4, <1>5, <2>1, <2>4 DEF NotBelow
  <2> QED
    BY <2>2, <2>3, <2>4 DEF NotBelow
<1>8. r \in Int /\ 0 <= r /\ r <= Exposure(ps)
  BY <1>4, <1>5
<1> HIDE DEF r
<1>9. CutTo(rule, aim, ps, D, r, s)
  BY <1>3, <1>6, <1>7, <1>8 DEF CutTo
<1> QED
  BY <1>2, <1>3, <1>8, <1>9 DEF Cut

(* An open.                                                                     *)
Opened(l, dw, deps) == [Leg(OpenOf(l), "open", l, Side(dw), dw) EXCEPT !.deps = deps]

OpensAs(rule, l, dw, deps, o) ==
    /\ o.kind = "open" /\ o.kind # "close" /\ o.dw = dw /\ o.deps = deps /\ o.side = Side(dw) /\ o.line = l
    /\ o.id = OpenOf(l) /\ o.id[1] = "open" /\ Open(rule, l, dw, deps) \in {{}, {o}}

LEMMA OpenFields ==
    ASSUME NEW rule, NEW l, NEW dw, NEW deps
    PROVE  OpensAs(rule, l, dw, deps, Opened(l, dw, deps))
<1>1. Opened(l, dw, deps).id = <<"open", l>>
  BY DEF Opened, Leg, OpenOf
<1>2. <<"open", l>>[1] = "open" /\ "open" # "close"
  OBVIOUS
<1> QED
  BY <1>1, <1>2 DEF Opened, Leg, Open, OpensAs, OpenOf

LEMMA OpenAlone ==
    ASSUME NEW ps, Held(ps), OneSided(ps), NEW aim \in Int, NEW rule, rule.min \in Int, NEW l, NEW dw \in Int,
           aim = Weight(ps) + dw, Size(Weight(ps)) <= Size(aim),
           NEW D, D \subseteq Open(rule, l, dw, {})
    PROVE  LineEnds(rule, aim, ps, D)
<1> DEFINE o == Opened(l, dw, {})
<1>1. o.kind = "open" /\ o.kind # "close" /\ o.dw = dw /\ Open(rule, l, dw, {}) \in {{}, {o}}
  BY OpenFields DEF OpensAs
<1> HIDE DEF o
<1>2. PICK s \in {1, -1} : Signed(ps, s)
  BY OneSign
<1>3. CASE D = {}
  <2>1. D \subseteq Closes({}) /\ Exposure({}) = 0
    BY <1>3, ExposureFacts
  <2> QED
    BY <1>2, <2>1, CutByCloses DEF LineEnds
<1>4. CASE D = {o}
  <2>1. D \subseteq Closes(ps) \cup {o} /\ ClosedBy(D, ps) = {}
    BY <1>1, <1>4, CloseFields DEF ClosedBy
  <2>2. Effect(D) = -Weight({}) + dw /\ Effect(D \ {o}) = -Weight({})
    BY <1>1, <1>4, <2>1, Drawn
  <2>3. Weight({}) = 0 /\ Weight(ps) \in Int
    <3>1. Weight({}) = s * Exposure({}) /\ Weight(ps) = s * Exposure(ps)
      BY <1>2 DEF Signed
    <3> QED
      BY <3>1, ExposureFacts
  <2>4. Ends(ps, D) = aim /\ Ends(ps, D \ {o}) = Weight(ps)
    BY <2>2, <2>3 DEF Ends
  <2>5. Raised(aim, ps, D, o)
    BY <2>3, <2>4 DEF Raised, Between
  <2>6. NoOpen(D \ {o})
    BY <1>4 DEF NoOpen
  <2> QED
    BY <1>1, <1>4, <2>5, <2>6 DEF LineEnds
<1> QED
  BY <1>1, <1>3, <1>4

(* A leg that waits for a close has it in D.                                      *)
LEMMA ClosesAwaited ==
    ASSUME NEW ps, Held(ps), NEW o, o.kind = "open", o.id[1] = "open", NEW D, D \subseteq Closes(ps) \cup {o},
           o.deps \subseteq IdsOf(D), NEW p \in ps, CloseOf(p) \in o.deps
    PROVE  Close(p) \in D
<1>1. PICK leg \in D : leg.id = CloseOf(p)
  BY DEF IdsOf
<1>2. leg # o
  BY <1>1 DEF CloseOf
<1>3. PICK q \in ps : leg = Close(q)
  BY <1>2 DEF Closes
<1>4. q = p
  BY <1>1, <1>3, CloseFields, CloseNames
<1> QED
  BY <1>3, <1>4

(* A flip: the open waits for every close.                                        *)
LEMMA FlipEnds ==
    ASSUME NEW ps, Held(ps), OneSided(ps), NEW aim \in Int, NEW rule, rule.min \in Int, NEW l,
           Side(aim) # Side(Weight(ps)), aim # 0,
           NEW D, D \subseteq Closes(ps) \cup Open(rule, l, aim, {CloseOf(p) : p \in ps}),
           \A leg \in D : leg.deps \subseteq IdsOf(D)
    PROVE  LineEnds(rule, aim, ps, D)
<1> DEFINE all == {CloseOf(p) : p \in ps}
           o == Opened(l, aim, all)
<1>0. D \subseteq Closes(ps) \cup Open(rule, l, aim, all) /\ \A p \in ps : CloseOf(p) \in all
  OBVIOUS
<1> HIDE DEF all
<1>00. OpensAs(rule, l, aim, all, o)
  BY OpenFields
<1> HIDE DEF o
<1>1. /\ o.kind = "open" /\ o.kind # "close" /\ o.dw = aim /\ o.dw \in Int
      /\ o.deps = all /\ o.id[1] = "open"
      /\ D \subseteq Closes(ps) \cup {o}
  BY <1>0, <1>00 DEF OpensAs
<1>2. PICK s \in {1, -1} : Signed(ps, s)
  BY OneSign
<1>3. Weight(ps) = s * Exposure(ps) /\ Exposure(ps) \in Int /\ Exposure(ps) >= 0 /\ Weight(ps) \in Int
  BY <1>2, ExposureFacts DEF Signed
<1>4. CASE o \notin D
  <2>1. D \subseteq Closes(ps)
    BY <1>1, <1>4
  <2>2. Exposure(ps) = 0 \/ s * aim <= Exposure(ps) - Exposure(ps)
    BY <1>3 DEF Side
  <2> QED
    BY <1>2, <2>1, <2>2, CutByCloses DEF LineEnds
<1>5. CASE o \in D
  <2>1. ASSUME NEW p \in ps PROVE Close(p) \in D
    <3>1. CloseOf(p) \in o.deps /\ o.deps \subseteq IdsOf(D)
      BY <1>0, <1>1, <1>5
    <3> QED
      BY <1>1, <3>1, ClosesAwaited
  <2>2. ClosedBy(D, ps) = ps
    BY <2>1 DEF ClosedBy
  <2>3. Effect(D) = -Weight(ps) + aim /\ Effect(D \ {o}) = -Weight(ps) /\ D \ {o} = Closes(ps)
    <3>1. /\ D \ {o} = Closes(ClosedBy(D, ps)) /\ Effect(D \ {o}) = -Weight(ClosedBy(D, ps))
          /\ Effect(D) = -Weight(ClosedBy(D, ps)) + IF o \in D THEN o.dw ELSE 0
      BY <1>1, Drawn
    <3> QED
      BY <1>1, <1>5, <2>2, <3>1
  <2>4. Ends(ps, D) = aim /\ Ends(ps, D \ {o}) = 0
    BY <1>3, <2>3 DEF Ends
  <2>5. Raised(aim, ps, D, o)
    BY <1>3, <2>4 DEF Raised, Between
  <2>6. NoOpen(D \ {o})
    BY <2>3, CloseFields DEF NoOpen, Closes
  <2> QED
    BY <1>1, <1>5, <2>5, <2>6 DEF LineEnds
<1> QED
  BY <1>4, <1>5

-----------------------------------------------------------------------------
(* A reduction.                                                                 *)
LEMMA PartFields ==
    \A p, w : /\ ClosePart(p, w).kind = "partial_close" /\ ClosePart(p, w).kind # "close" /\ ClosePart(p, w).kind # "open"
              /\ ClosePart(p, w).dw = -Side(p.w) * w
BY DEF ClosePart, Leg

LEMMA ClosedOfWhole ==
    ASSUME NEW ps, Held(ps), NEW B \in SUBSET ps, NEW o, o.kind # "close", NEW D, D \subseteq Closes(B) \cup {o}
    PROVE  ClosedBy(D, ps) \subseteq B /\ D \subseteq Closes(ps) \cup {o} /\ \A leg \in D \ {o} : leg.kind = "close"
<1>1. ASSUME NEW p \in ClosedBy(D, ps) PROVE p \in B
  <2>1. p \in ps /\ Close(p) \in D /\ Close(p) # o
    BY CloseFields DEF ClosedBy
  <2>2. PICK q \in B : Close(p) = Close(q)
    BY <2>1 DEF Closes
  <2> QED
    BY <2>1, <2>2, CloseNames
<1> QED
  BY <1>1, CloseFields DEF Closes

(* The position that lies across, with what is newer.                             *)
LEMMA AcrossFacts ==
    ASSUME NEW ps, Held(ps), NEW w \in Int, NEW p \in Across(ps, w)
    PROVE  /\ p \in ps /\ Exposure(Newer(ps, p)) \in Int /\ Size(p.w) \in Int
           /\ Exposure(Newer(ps, p)) < w /\ w < Exposure(Newer(ps, p)) + Size(p.w)
           /\ \A C \in SUBSET Whole(ps, w) : Exposure(C) \in Int /\ 0 <= Exposure(C) /\ Exposure(C) <= Exposure(Newer(ps, p))
           /\ \A C \in SUBSET (Whole(ps, w) \cup {p}) :
                 p \in C => /\ Exposure(C) = Exposure(C \ {p}) + Size(p.w)
                            /\ C \ {p} \in SUBSET Whole(ps, w)
<1>1. p \in ps /\ Exposure(Newer(ps, p)) < w /\ w < Exposure(Newer(ps, p)) + Size(p.w)
  BY DEF Across
<1>2. Newer(ps, p) \in SUBSET ps /\ Whole(ps, w) \subseteq Newer(ps, p)
  BY OneAcross DEF Newer
<1>3. Exposure(Newer(ps, p)) \in Int /\ Size(p.w) \in Int
  BY <1>1, <1>2, ExposureFacts DEF Held, Size
<1>4. ASSUME NEW C \in SUBSET Whole(ps, w)
      PROVE  Exposure(C) \in Int /\ 0 <= Exposure(C) /\ Exposure(C) <= Exposure(Newer(ps, p))
  <2>1. C \in SUBSET ps /\ C \in SUBSET Newer(ps, p)
    BY <1>2
  <2>2. Exposure(C) \in Int /\ Exposure(C) >= 0
    BY <2>1, ExposureFacts
  <2>3. Exposure(C) <= Exposure(Newer(ps, p))
    BY <1>2, <2>1, ExposureGrows
  <2> QED
    BY <2>2, <2>3
<1>5. ASSUME NEW C \in SUBSET (Whole(ps, w) \cup {p}), p \in C
      PROVE  Exposure(C) = Exposure(C \ {p}) + Size(p.w) /\ C \ {p} \in SUBSET Whole(ps, w)
  <2>1. C \in SUBSET ps
    BY <1>1 DEF Whole
  <2>2. Exposure(C) = Exposure(C \ {p}) + Size(p.w)
    BY <1>1, <1>5, <2>1, ExposureJoin
  <2> QED
    BY <2>2
<1> QED
  BY <1>1, <1>3, <1>4, <1>5

(* The position across is closed in part.                                         *)
LEMMA PartEnds ==
    ASSUME NEW ps, Held(ps), NEW s, Signed(ps, s), NEW aim \in Int, NEW rule, rule.min \in Int, NEW w \in Int,
           w = Exposure(ps) - s * aim, s * aim > 0, NEW p \in Across(ps, w),
           NEW v, v = w - Exposure(Newer(ps, p)), NEW D, D \subseteq Closes(Whole(ps, w)) \cup {ClosePart(p, v)}
    PROVE  NoOpen(D) /\ Cut(rule, aim, ps, D)
<1> DEFINE o == ClosePart(p, v)
           C == ClosedBy(D, ps)
<1>1. o.kind # "close" /\ o.kind # "open" /\ o.dw = -Side(p.w) * v
  BY PartFields
<1>2. D \subseteq Closes(Whole(ps, w)) \cup {o}
  OBVIOUS
<1> HIDE DEF o
<1>3. Whole(ps, w) \in SUBSET ps
  BY DEF Whole
<1>4. C \subseteq Whole(ps, w) /\ D \subseteq Closes(ps) \cup {o} /\ \A leg \in D \ {o} : leg.kind = "close"
  <2> DEFINE B == Whole(ps, w)
  <2>1. B \in SUBSET ps /\ D \subseteq Closes(B) \cup {o} /\ o.kind # "close"
    BY <1>1, <1>2, <1>3
  <2> HIDE DEF B
  <2>2. C \subseteq B /\ D \subseteq Closes(ps) \cup {o} /\ \A leg \in D \ {o} : leg.kind = "close"
    BY <2>1, ClosedOfWhole
  <2> QED
    BY <2>2 DEF B
<1>5. NoOpen(D)
  BY <1>1, <1>4 DEF NoOpen
<1>6. /\ p \in ps /\ Exposure(Newer(ps, p)) \in Int /\ Size(p.w) \in Int
      /\ Exposure(Newer(ps, p)) < w /\ w < Exposure(Newer(ps, p)) + Size(p.w)
      /\ Exposure(C) \in Int /\ 0 <= Exposure(C) /\ Exposure(C) <= Exposure(Newer(ps, p))
  <2> HIDE DEF C
  <2> QED
    BY <1>4, AcrossFacts
<1>7. v \in Int /\ v > 0
  BY <1>6
<1>8. s \in {1, -1} /\ Weight(ps) = s * Exposure(ps) /\ Weight(C) = s * Exposure(C) /\ p.w = s * Size(p.w)
      /\ Exposure(ps) \in Int
  <2>1. C \in SUBSET ps
    BY <1>3, <1>4
  <2> HIDE DEF C
  <2> QED
    BY <1>6, <2>1, ExposureFacts DEF Signed
<1>9. Side(p.w) = s
  <2>1. p.w \in Int
    BY <1>6 DEF Held
  <2>2. Size(p.w) > 0
    BY <1>6
  <2> QED
    BY <1>6, <1>8, <2>1, <2>2 DEF Side
<1>10. CASE o \notin D
  <2>1. D \subseteq Closes(Whole(ps, w)) /\ Exposure(Whole(ps, w)) <= w /\ Exposure(Whole(ps, w)) \in Int
    BY <1>2, <1>3, <1>6, <1>10, WholeFits, ExposureFacts
  <2>2. s * aim \in Int
    BY <1>8
  <2>3. s * aim <= Exposure(ps) - Exposure(Whole(ps, w))
    BY <1>8, <2>1, <2>2
  <2> QED
    BY <1>3, <2>1, <2>3, CutByCloses
<1>11. CASE o \in D
  <2> DEFINE r == Exposure(ps) - Exposure(C) - v
  <2>1. o.dw \in Int /\ o.dw = -(s * v)
    BY <1>1, <1>7, <1>8, <1>9
  <2>2. Effect(D) = -Weight(C) + o.dw
    <3>1. Effect(D) = -Weight(C) + IF o \in D THEN o.dw ELSE 0
      <4> HIDE DEF C
      <4> QED
        BY <1>1, <1>4, <2>1, Drawn DEF C
    <3> QED
      BY <1>11, <3>1
  <2> HIDE DEF C
  <2>3. r \in Int /\ s * aim <= r /\ 0 <= r /\ r <= Exposure(ps)
    <3>1. s * aim \in Int
      BY <1>8
    <3> QED
      BY <1>6, <1>7, <1>8, <3>1
  <2>4. Ends(ps, D) = s * r
    BY <1>6, <1>7, <1>8, <2>1, <2>2 DEF Ends
  <2> HIDE DEF r
  <2>5. CutTo(rule, aim, ps, D, r, s)
    BY <1>8, <2>3, <2>4 DEF CutTo, NotBelow
  <2> QED
    BY <1>5, <1>8, <2>3, <2>5 DEF Cut
<1> QED
  BY <1>10, <1>11

(* The position across is closed and what it should have left is opened again.    *)
LEMMA ReopenEnds ==
    ASSUME NEW ps, Held(ps), NEW s, Signed(ps, s), NEW aim \in Int, NEW rule, rule.min \in Int, NEW w \in Int,
           w = Exposure(ps) - s * aim, s * aim > 0, NEW p \in Across(ps, w), rule.partial = "no",
           NEW rest, rest = Size(p.w) - (w - Exposure(Newer(ps, p))),
           NEW D, D \subseteq Closes(Whole(ps, w) \cup {p}) \cup Open(rule, p.line, Side(p.w) * rest, {CloseOf(p)}),
           \A leg \in D : leg.deps \subseteq IdsOf(D)
    PROVE  LineEnds(rule, aim, ps, D)
<1> DEFINE B == Whole(ps, w) \cup {p}
           o == Opened(p.line, Side(p.w) * rest, {CloseOf(p)})
           C == ClosedBy(D, ps)
<1>0. OpensAs(rule, p.line, Side(p.w) * rest, {CloseOf(p)}, o)
  BY OpenFields
<1>1. B \in SUBSET ps
  BY DEF Whole, Across
<1> HIDE DEF o
<1>2. /\ o.kind = "open" /\ o.kind # "close" /\ o.dw = Side(p.w) * rest /\ o.deps = {CloseOf(p)} /\ o.id[1] = "open"
      /\ o.side = Side(Side(p.w) * rest) /\ o.line = p.line /\ D \subseteq Closes(B) \cup {o}
  BY <1>0 DEF OpensAs
<1>3. C \subseteq B /\ D \subseteq Closes(ps) \cup {o} /\ \A leg \in D \ {o} : leg.kind = "close"
  <2> HIDE DEF B
  <2> QED
    BY <1>1, <1>2, ClosedOfWhole
<1>4. CASE o \notin D
  <2>1. D \subseteq Closes(B)
    BY <1>2, <1>4
  <2> HIDE DEF B
  <2> QED
    BY <1>1, <2>1, CutByCloses DEF LineEnds
<1>5. CASE o \in D
  <2>1. p \in ps /\ CloseOf(p) \in o.deps /\ o.deps \subseteq IdsOf(D)
    BY <1>2, <1>5 DEF Across
  <2>2. Close(p) \in D
    BY <1>2, <1>3, <2>1, ClosesAwaited
  <2>3. p \in C
    BY <2>1, <2>2 DEF ClosedBy
  <2>4. C \in SUBSET ps
    BY <1>1, <1>3
  <2>5. /\ Exposure(Newer(ps, p)) \in Int /\ Size(p.w) \in Int
        /\ Exposure(Newer(ps, p)) < w /\ w < Exposure(Newer(ps, p)) + Size(p.w)
        /\ Exposure(C) = Exposure(C \ {p}) + Size(p.w)
        /\ Exposure(C \ {p}) \in Int /\ 0 <= Exposure(C \ {p}) /\ Exposure(C \ {p}) <= Exposure(Newer(ps, p))
    <3> HIDE DEF C
    <3>1. C \in SUBSET (Whole(ps, w) \cup {p})
      BY <1>3
    <3>2. C \ {p} \in SUBSET Whole(ps, w)
      BY <3>1
    <3>3. Exposure(C) = Exposure(C \ {p}) + Size(p.w)
      BY <2>3, <3>1, AcrossFacts
    <3> QED
      BY <3>2, <3>3, AcrossFacts
  <2>6. s \in {1, -1} /\ Weight(ps) = s * Exposure(ps) /\ Weight(C) = s * Exposure(C) /\ p.w = s * Size(p.w)
        /\ Exposure(ps) \in Int
    <3> HIDE DEF C
    <3> QED
      BY <2>1, <2>4, ExposureFacts DEF Signed
  <2>7. rest \in Int /\ rest > 0 /\ Size(p.w) > 0
    BY <2>5
  <2>8. Side(p.w) = s
    <3>1. p.w \in Int
      BY <2>1 DEF Held
    <3> QED
      BY <2>5, <2>6, <2>7, <3>1 DEF Side
  <2>9. Side(Side(p.w) * rest) = s /\ o.dw \in Int /\ o.dw = s * rest
    BY <1>2, <2>6, <2>7, <2>8 DEF Side
  <2>10. Effect(D) = -Weight(C) + o.dw
    <3>1. Effect(D) = -Weight(C) + IF o \in D THEN o.dw ELSE 0
      <4> HIDE DEF C
      <4> QED
        BY <1>2, <1>3, <2>9, Drawn DEF C
    <3> QED
      BY <1>5, <3>1
  <2> HIDE DEF C
  <2> DEFINE r == Exposure(ps) - Exposure(C \ {p}) - (w - Exposure(Newer(ps, p)))
  <2>11. s * aim \in Int
    BY <2>6
  <2>12. r \in Int /\ s * aim <= r /\ r <= Exposure(ps)
    BY <2>5, <2>6, <2>11
  <2>13. Ends(ps, D) = s * r
    <3>1. Ends(ps, D) = s * Exposure(ps) + (-(s * Exposure(C)) + s * rest)
      BY <2>6, <2>9, <2>10 DEF Ends
    <3>2. r = Exposure(ps) - Exposure(C) + rest
      BY <2>5, <2>6, <2>7
    <3>3. Exposure(C) \in Int
      BY <2>5
    <3> HIDE DEF r
    <3> QED
      BY <2>6, <2>7, <2>12, <3>1, <3>2, <3>3
  <2> HIDE DEF r
  <2>14. Ends(ps, D) \in Int /\ Between(Weight(ps), Ends(ps, D), aim)
    BY <2>6, <2>11, <2>12, <2>13 DEF Between
  <2>15. GivesBack(ps, D, o)
    BY <1>2, <2>1, <2>2, <2>8, <2>9, CloseFields DEF GivesBack
  <2>16. NoOpen(D \ {o})
    BY <1>3 DEF NoOpen
  <2> QED
    BY <1>2, <1>5, <2>14, <2>15, <2>16 DEF LineEnds, Raised
<1> QED
  BY <1>4, <1>5

LEMMA ReduceEnds ==
    ASSUME NEW ps, Held(ps), OneSided(ps), NEW aim \in Int, aim # 0, NEW rule, rule.min \in Int, 
           Side(aim) = Side(Weight(ps)), Size(aim) < Size(Weight(ps)),
           NEW D, D \subseteq Reduce(rule, ps, Size(Weight(ps)) - Size(aim)),
           \A leg \in D : leg.deps \subseteq IdsOf(D)
    PROVE  LineEnds(rule, aim, ps, D)
<1> DEFINE w == Size(Weight(ps)) - Size(aim)
           across == Across(ps, w)
           rest(p) == Size(p.w) - (w - Exposure(Newer(ps, p)))
           trims == UNION {Trim(rule, p, w - Exposure(Newer(ps, p))) : p \in across}
<1>1. Reduce(rule, ps, w) = Closes(Whole(ps, w)) \cup trims
  BY DEF Reduce, Closes, Whole, Across, Newer
<1>2. D \subseteq Closes(Whole(ps, w)) \cup trims
  <2> HIDE DEF trims
  <2> QED
    BY <1>1
<1>3. PICK s \in {1, -1} : Signed(ps, s)
  BY OneSign
<1>4. Weight(ps) = s * Exposure(ps) /\ Exposure(ps) \in Int /\ Exposure(ps) >= 0
  BY <1>3, ExposureFacts DEF Signed
<1>5. Size(Weight(ps)) = Exposure(ps) /\ Exposure(ps) > 0 /\ Size(aim) = s * aim /\ s * aim > 0 /\ s * aim \in Int
  BY <1>4 DEF Size, Side
<1>6. w = Exposure(ps) - s * aim /\ w \in Int /\ w > 0
  BY <1>4, <1>5
<1>7. Whole(ps, w) \in SUBSET ps
  BY DEF Whole
<1> HIDE DEF w
<1>8. Exposure(Whole(ps, w)) <= w /\ Exposure(Whole(ps, w)) \in Int
  BY <1>6, <1>7, WholeFits, ExposureFacts
<1>9. s * aim <= Exposure(ps) - Exposure(Whole(ps, w))
  BY <1>4, <1>5, <1>6, <1>8
<1>10. ASSUME D \subseteq Closes(Whole(ps, w)) PROVE LineEnds(rule, aim, ps, D)
  BY <1>3, <1>7, <1>9, <1>10, CutByCloses DEF LineEnds
<1>11. CASE across = {}
  <2>1. trims = {}
    BY <1>11
  <2> QED
    BY <1>2, <1>10, <2>1
<1>12. ASSUME NEW p \in across PROVE LineEnds(rule, aim, ps, D)
  <2> DEFINE v == w - Exposure(Newer(ps, p))
             B == Whole(ps, w) \cup {p}
  <2>1. across = {p}
    BY <1>6, OneAcross
  <2>2. trims = Trim(rule, p, v)
    BY <2>1
  <2>3. /\ p \in ps /\ Exposure(Newer(ps, p)) \in Int /\ Size(p.w) \in Int
        /\ Exposure(Newer(ps, p)) < w /\ w < Exposure(Newer(ps, p)) + Size(p.w)
        /\ Exposure(B) \in Int /\ Exposure(B) <= Exposure(Newer(ps, p)) + Size(p.w)
    <3>1. p \in B /\ B \in SUBSET (Whole(ps, w) \cup {p}) /\ B \in SUBSET ps
      BY <1>7 DEF Across
    <3>2. Exposure(B) = Exposure(B \ {p}) + Size(p.w) /\ B \ {p} \in SUBSET Whole(ps, w)
      <4> HIDE DEF B
      <4> QED
        BY <1>6, <3>1, AcrossFacts
    <3>3. Exposure(B \ {p}) \in Int /\ Exposure(B \ {p}) <= Exposure(Newer(ps, p))
      <4> HIDE DEF B
      <4> QED
        BY <1>6, <3>2, AcrossFacts
    <3>4. /\ p \in ps /\ Exposure(Newer(ps, p)) \in Int /\ Size(p.w) \in Int
          /\ Exposure(Newer(ps, p)) < w /\ w < Exposure(Newer(ps, p)) + Size(p.w)
      BY <1>6, AcrossFacts
    <3> QED
      BY <3>2, <3>3, <3>4
  <2> HIDE DEF trims, v, across
  <2>4. \/ Trim(rule, p, v) = {}
        \/ rest(p) < rule.min /\ Trim(rule, p, v) = {Close(p)}
        \/ /\ rule.partial = "no"
           /\ Trim(rule, p, v) = {Close(p)} \cup Open(rule, p.line, Side(p.w) * rest(p), {CloseOf(p)})
        \/ Trim(rule, p, v) = {ClosePart(p, v)}
    BY DEF Trim, v
  <2>5. CASE Trim(rule, p, v) = {}
    BY <1>2, <1>10, <2>2, <2>5
  <2>6. CASE rest(p) < rule.min /\ Trim(rule, p, v) = {Close(p)}
    <3>1. D \subseteq Closes(B) /\ B \in SUBSET ps
      BY <1>2, <1>7, <2>2, <2>3, <2>6 DEF Closes
    <3>2. s * aim - (Exposure(ps) - Exposure(B)) < rule.min
      <4> HIDE DEF B
      <4> QED
        BY <1>4, <1>5, <1>6, <2>3, <2>6
    <3> HIDE DEF B
    <3> QED
      BY <1>3, <3>1, <3>2, CutByCloses DEF LineEnds
  <2>7. CASE /\ rule.partial = "no"
             /\ Trim(rule, p, v) = {Close(p)} \cup Open(rule, p.line, Side(p.w) * rest(p), {CloseOf(p)})
    <3>1. D \subseteq Closes(B) \cup Open(rule, p.line, Side(p.w) * rest(p), {CloseOf(p)})
      BY <1>2, <2>2, <2>7 DEF Closes
    <3>2. p \in Across(ps, w)
      BY DEF across
    <3> QED
      BY <1>3, <1>5, <1>6, <2>7, <3>1, <3>2, ReopenEnds
  <2>8. CASE Trim(rule, p, v) = {ClosePart(p, v)}
    <3>1. D \subseteq Closes(Whole(ps, w)) \cup {ClosePart(p, v)} /\ p \in Across(ps, w)
      BY <1>2, <2>2, <2>8 DEF across
    <3> QED
      BY <1>3, <1>5, <1>6, <3>1, PartEnds DEF LineEnds, v
  <2> QED
    BY <2>4, <2>5, <2>6, <2>7, <2>8
<1> QED
  BY <1>11, <1>12

(* Every line held on one side, for every set of its legs that has what they wait  *)
(* for.                                                                        *)
LEMMA LegsEnd ==
    ASSUME NEW ps, Held(ps), OneSided(ps), NEW aim \in Int, NEW rule, rule.min \in Int, NEW l,
           NEW D, D \subseteq PlanLine(rule, l, aim, ps), \A leg \in D : leg.deps \subseteq IdsOf(D)
    PROVE  LineEnds(rule, aim, ps, D)
<1> DEFINE now == Weight(ps)
<1>1. PICK s \in {1, -1} : Signed(ps, s)
  BY OneSign
<1>2. now = s * Exposure(ps) /\ Exposure(ps) \in Int /\ Exposure(ps) >= 0 /\ now \in Int /\ Exposure({}) = 0
  BY <1>1, ExposureFacts DEF Signed
<1>3. CASE D = {}
  <2>1. D \subseteq Closes({}) /\ {} \in SUBSET ps
    BY <1>3
  <2> QED
    BY <1>1, <1>2, <2>1, CutByCloses DEF LineEnds
<1>4. CASE aim # now /\ aim = 0
  <2>1. D \subseteq Closes(ps)
    BY <1>4 DEF PlanLine, Closes
  <2>2. s * aim <= Exposure(ps) - Exposure(ps) /\ ps \in SUBSET ps
    BY <1>1, <1>2, <1>4
  <2> QED
    BY <1>1, <2>1, <2>2, CutByCloses DEF LineEnds
<1>5. CASE aim # now /\ aim # 0 /\ ps = {}
  <2>1. D \subseteq Open(rule, l, aim, {})
    BY <1>5 DEF PlanLine
  <2>2. now = 0
    BY <1>2, <1>5
  <2>3. aim = now + aim /\ Size(now) <= Size(aim)
    BY <2>2 DEF Size
  <2> HIDE DEF now
  <2> QED
    BY <2>1, <2>3, OpenAlone DEF now
<1>6. CASE aim # now /\ aim # 0 /\ ps # {} /\ Side(aim) # Side(now)
  <2>1. D \subseteq Closes(ps) \cup Open(rule, l, aim, {CloseOf(p) : p \in ps})
    BY <1>6 DEF PlanLine, Closes
  <2> QED
    BY <1>6, <2>1, FlipEnds
<1>7. CASE aim # now /\ aim # 0 /\ ps # {} /\ Side(aim) = Side(now) /\ Size(aim) > Size(now)
  <2>1. D \subseteq Open(rule, l, aim - now, {})
    BY <1>7 DEF PlanLine
  <2>2. aim = now + (aim - now) /\ aim - now \in Int /\ Size(now) <= Size(aim)
    BY <1>2, <1>7 DEF Size
  <2> HIDE DEF now
  <2> QED
    BY <2>1, <2>2, OpenAlone DEF now
<1>8. CASE aim # now /\ aim # 0 /\ ps # {} /\ Side(aim) = Side(now) /\ ~(Size(aim) > Size(now))
  <2>1. D \subseteq Reduce(rule, ps, Size(now) - Size(aim))
    BY <1>8 DEF PlanLine
  <2>2. Size(aim) < Size(now)
    BY <1>2, <1>8 DEF Size, Side
  <2> QED
    BY <1>8, <2>1, <2>2, ReduceEnds
<1>9. CASE aim = now
  <2>1. D = {}
    BY <1>9 DEF PlanLine
  <2> QED
    BY <1>3, <2>1
<1> QED
  BY <1>4, <1>5, <1>6, <1>7, <1>8, <1>9

-----------------------------------------------------------------------------
(* A leg belongs to one line, and a close names a position of it.                 *)
NamesClose(id, ps) == id[1] = "close" => \E q \in ps : id = CloseOf(q)
LegOf(leg, l, ps) == leg.line = l /\ leg.swing = (l \in Swing) /\ NamesClose(leg.id, ps)
CoreLegOf(leg, l, ps) == LegOf(leg, l, ps) /\ leg.deps \subseteq {CloseOf(p) : p \in ps}

LEMMA ClosesOf ==
    ASSUME NEW ps, NEW l, \A p \in ps : p.line = l, NEW p \in ps, NEW w
    PROVE  CoreLegOf(Close(p), l, ps) /\ CoreLegOf(ClosePart(p, w), l, ps)
BY DEF CoreLegOf, LegOf, NamesClose, Close, ClosePart, Leg

LEMMA OpensOf ==
    ASSUME NEW ps, NEW l, NEW rule, NEW dw, NEW deps, NEW leg \in Open(rule, l, dw, deps)
    PROVE  LegOf(leg, l, ps) /\ leg.deps = deps
<1> DEFINE o == [Leg(OpenOf(l), "open", l, Side(dw), dw) EXCEPT !.deps = deps]
<1>1. o.deps = deps /\ o.swing = (l \in Swing) /\ o.line = l /\ o.id = <<"open", l>>
  BY DEF Leg, OpenOf
<1>2. leg = o
  BY DEF Open
<1>3. <<"open", l>>[1] # "close"
  OBVIOUS
<1> HIDE DEF o
<1> QED
  BY <1>1, <1>2, <1>3 DEF LegOf, NamesClose

LEMMA TrimOf ==
    ASSUME NEW ps, NEW l, \A p \in ps : p.line = l, NEW p \in ps, NEW w, NEW rule, NEW leg \in Trim(rule, p, w)
    PROVE  CoreLegOf(leg, l, ps)
<1>1. p.line = l
  OBVIOUS
<1>2. \/ leg = Close(p) \/ leg = ClosePart(p, w)
      \/ leg \in Open(rule, p.line, Side(p.w) * (Size(p.w) - w), {CloseOf(p)})
  BY DEF Trim
<1>3. ASSUME leg \in Open(rule, p.line, Side(p.w) * (Size(p.w) - w), {CloseOf(p)}) PROVE CoreLegOf(leg, l, ps)
  <2>1. LegOf(leg, p.line, ps) /\ leg.deps = {CloseOf(p)}
    BY <1>3, OpensOf
  <2> QED
    BY <1>1, <2>1 DEF CoreLegOf
<1> QED
  BY <1>2, <1>3, ClosesOf

LEMMA LineOf ==
    ASSUME NEW ps, NEW l, \A p \in ps : p.line = l, NEW rule, NEW target, NEW leg \in PlanLine(rule, l, target, ps)
    PROVE  CoreLegOf(leg, l, ps)
<1> DEFINE all == {CloseOf(p) : p \in ps}
           closes == {Close(p) : p \in ps}
           cut == Size(Weight(ps)) - Size(target)
<1>1. \A c \in closes : CoreLegOf(c, l, ps)
  BY ClosesOf
<1>2. ASSUME NEW dw, NEW deps \in {{}, all}, leg \in Open(rule, l, dw, deps) PROVE CoreLegOf(leg, l, ps)
  <2>1. LegOf(leg, l, ps) /\ leg.deps = deps
    BY <1>2, OpensOf
  <2> QED
    BY <2>1 DEF CoreLegOf
<1>3. ASSUME leg \in Reduce(rule, ps, cut) PROVE CoreLegOf(leg, l, ps)
  <2>1. (leg \in closes) \/ \E p \in ps : \E w : leg \in Trim(rule, p, w)
    BY <1>3 DEF Reduce
  <2> QED
    BY <1>1, <2>1, TrimOf
<1>4. \/ leg \in closes \/ leg \in Reduce(rule, ps, cut)
      \/ \E dw : \E deps \in {{}, all} : leg \in Open(rule, l, dw, deps)
  BY DEF PlanLine
<1> HIDE DEF closes, all, cut
<1> QED
  BY <1>1, <1>2, <1>3, <1>4

LEMMA SwingOf ==
    ASSUME NEW ps, NEW l, \A p \in ps : p.line = l, NEW rule, NEW order, NEW leg \in PlanSwing(rule, l, order, ps)
    PROVE  LegOf(leg, l, ps)
<1> DEFINE closes == {Close(p) : p \in ps}
           entry == Open(rule, l, order.w, {})
           tp(e) == [Leg(<<"tp", l>>, "modify_tp", l, e.side, 0) EXCEPT !.deps = {e.id}]
           set(p) == Leg(<<"tp", p.id>>, "set_tp", l, Side(p.w), 0)
<1>1. \A c \in closes : LegOf(c, l, ps)
  BY ClosesOf DEF CoreLegOf
<1>2. \A e \in entry : LegOf(e, l, ps)
  BY OpensOf
<1>3. \A e : LegOf(tp(e), l, ps)
  <2> TAKE e
  <2>1. tp(e).line = l /\ tp(e).swing = (l \in Swing) /\ tp(e).id = <<"tp", l>>
    BY DEF Leg
  <2>2. <<"tp", l>>[1] # "close"
    OBVIOUS
  <2> HIDE DEF tp
  <2> QED
    BY <2>1, <2>2 DEF LegOf, NamesClose
<1>4. \A p : LegOf(set(p), l, ps)
  <2> TAKE p
  <2>1. set(p).line = l /\ set(p).swing = (l \in Swing) /\ set(p).id = <<"tp", p.id>>
    BY DEF Leg
  <2>2. <<"tp", p.id>>[1] # "close"
    OBVIOUS
  <2> HIDE DEF set
  <2> QED
    BY <2>1, <2>2 DEF LegOf, NamesClose
<1>5. leg \in closes \/ leg \in entry \/ (\E e : leg = tp(e)) \/ \E p : leg = set(p)
  BY DEF PlanSwing
<1> HIDE DEF closes, entry, tp, set
<1> QED
  BY <1>1, <1>2, <1>3, <1>4, <1>5

(* The proposal of a rebalance, line by line: a core leg is one its line's plan    *)
(* has, and what it waits for is another leg of the line.                         *)
LineLegs(done, l) == {leg \in done : leg.line = l}
LinesPlanned ==
    want.kind = "rebalance" =>
        /\ base \in Books /\ want \in Wants
        /\ \A leg \in Legs :
              leg.line \in Core =>
                  /\ ~leg.swing /\ leg.line \in DOMAIN want.target
                  /\ leg \in PlanLine(want.rule[leg.line], leg.line, want.target[leg.line], On(base, leg.line))
                  /\ leg.deps \subseteq {CloseOf(p) : p \in On(base, leg.line)} /\ leg.deps \subseteq IdsOf(Legs)
        /\ \A leg \in Legs : NamesClose(leg.id, On(base, leg.line))

LEMMA LinesPlannedFirst == ApprovalInit => LinesPlanned
<1> SUFFICES ASSUME ApprovalInit, want.kind = "rebalance" PROVE LinesPlanned
  BY DEF LinesPlanned
<1>1. base \in Books /\ want \in Wants
  BY DEF ApprovalInit
<1>2. plan \in Seq(Drafts) /\ Complete(plan)
  BY DraftsPlanned
<1>3. DOMAIN plan = 1 .. Len(plan) /\ \A i \in DOMAIN plan : plan[i] \in Drafts
  BY <1>2
<1>4. Legs = {plan[i] : i \in DOMAIN plan}
  BY DEF Legs, ToSet
<1>5. Ids(plan) = IdsOf(Legs)
  BY DEF Ids, IdsOf, Legs
<1>6. \A leg \in Legs : leg \in Drafts /\ leg.deps \subseteq IdsOf(Legs)
  BY <1>2, <1>3, <1>4, <1>5 DEF Complete
<1>7. \A l : \A p \in On(base, l) : p.line = l
  BY DEF On
<1>8. ASSUME NEW leg \in Legs
      PROVE  /\ NamesClose(leg.id, On(base, leg.line))
             /\ leg.line \in Core =>
                  /\ ~leg.swing /\ leg.line \in DOMAIN want.target
                  /\ leg \in PlanLine(want.rule[leg.line], leg.line, want.target[leg.line], On(base, leg.line))
                  /\ leg.deps \subseteq {CloseOf(p) : p \in On(base, leg.line)}
  <2>1. CASE \E l \in {k \in Core : k \in DOMAIN want.target} : leg \in PlanLine(want.rule[l], l, want.target[l], On(base, l))
    <3>1. PICK l \in {k \in Core : k \in DOMAIN want.target} : leg \in PlanLine(want.rule[l], l, want.target[l], On(base, l))
      BY <2>1
    <3>2. CoreLegOf(leg, l, On(base, l))
      BY <1>7, <3>1, LineOf
    <3>3. l \notin Swing /\ l \in DOMAIN want.target
      BY PlanConstants
    <3> QED
      BY <3>1, <3>2, <3>3 DEF CoreLegOf, LegOf
  <2>2. CASE \E l \in Swing : leg \in PlanSwing(want.rule[l], l, want.order[l], On(base, l))
    <3>1. PICK l \in Swing : leg \in PlanSwing(want.rule[l], l, want.order[l], On(base, l))
      BY <2>2
    <3>2. LegOf(leg, l, On(base, l)) /\ l \notin Core
      BY <1>7, <3>1, SwingOf, PlanConstants
    <3> QED
      BY <3>2 DEF LegOf
  <2> QED
    BY <1>6, <2>1, <2>2 DEF Drafts
<1> QED
  BY <1>1, <1>6, <1>8 DEF LinesPlanned

LEMMA LinesStayPlanned == ApprovalSpec => []LinesPlanned
<1>1. LinesPlanned /\ [ApprovalNext]_approvalVars => LinesPlanned'
  <2> SUFFICES ASSUME LinesPlanned, [ApprovalNext]_approvalVars PROVE LinesPlanned'
    OBVIOUS
  <2>1. UNCHANGED <<base, want, plan>>
    BY DEF ApprovalNext, approvalVars, Shows, Confirms, Leaves, Turns, Runs, ClosesAlone, Refused, proposal
  <2>2. Legs' = Legs
    BY <2>1 DEF Legs
  <2> QED
    BY <2>1, <2>2 DEF LinesPlanned, IdsOf, NamesClose
<1> QED
  BY <1>1, LinesPlannedFirst, PTL DEF ApprovalSpec

(* What is sent of a line, and all that is planned of it, has what it waits for:   *)
(* nothing that is sent waits for a leg the market dropped, and the other drops    *)
(* are of the swing book.                                                       *)
LEMMA LineComplete ==
    ASSUME ApprovalInv, LinesPlanned, want.kind = "rebalance", NEW l \in Core,
           NEW done, done = Legs \/ (Handed /\ done = sent)
    PROVE  /\ LineLegs(done, l) # {} => l \in DOMAIN want.target
           /\ l \in DOMAIN want.target => LineLegs(done, l) \subseteq PlanLine(want.rule[l], l, want.target[l], On(base, l))
           /\ \A leg \in LineLegs(done, l) : ~leg.swing /\ leg.deps \subseteq IdsOf(LineLegs(done, l))
           /\ done \subseteq Legs
<1>1. done \subseteq Legs /\ (done # Legs => done = Legs \ (late \cup swing) /\ DropRound(late) = late /\ SwingDrops(swing))
  BY DEF ApprovalInv, Handed
<1>2. ASSUME NEW leg \in LineLegs(done, l), NEW d \in leg.deps PROVE d \in IdsOf(LineLegs(done, l))
  <2>1. leg \in Legs /\ leg \in done /\ leg.line = l
    BY <1>1 DEF LineLegs
  <2>2. PICK p \in On(base, l) : d = CloseOf(p)
    BY <2>1 DEF LinesPlanned
  <2>3. PICK x \in Legs : x.id = d
    BY <2>1 DEF LinesPlanned, IdsOf
  <2>4. PICK q \in On(base, x.line) : x.id = CloseOf(q)
    <3>1. x.id[1] = "close"
      BY <2>2, <2>3 DEF CloseOf
    <3> QED
      BY <3>1 DEF LinesPlanned, NamesClose
  <2>5. p.id = q.id
    BY <2>2, <2>3, <2>4 DEF CloseOf
  <2>6. x.line = l
    <3>1. p \in base /\ q \in base /\ p.line = l /\ q.line = x.line
      BY DEF On
    <3>2. p = q
      BY <2>5, <3>1, ApprovalConstants DEF LinesPlanned
    <3> QED
      BY <3>1, <3>2
  <2>7. x \in done
    <3> SUFFICES ASSUME x \notin done PROVE FALSE
      OBVIOUS
    <3>1. done = Legs \ (late \cup swing) /\ DropRound(late) = late /\ SwingDrops(swing)
      BY <1>1
    <3>2. x \in late \/ x \in swing
      BY <3>1
    <3>3. x \notin swing
      BY <2>6, <3>1 DEF LinesPlanned, SwingDrops
    <3>4. leg \in DropRound(late)
      BY <2>1, <2>3, <3>2, <3>3 DEF DropRound, IdsOf
    <3> QED
      BY <2>1, <3>1, <3>4
  <2> QED
    BY <2>3, <2>6, <2>7 DEF LineLegs, IdsOf
<1>3. \A leg \in LineLegs(done, l) : leg \in Legs /\ leg.line = l
  BY <1>1 DEF LineLegs
<1> QED
  BY <1>1, <1>2, <1>3 DEF LinesPlanned

LEMMA BaseHeld ==
    ASSUME LinesPlanned, want.kind = "rebalance", NEW l
    PROVE  Held(On(base, l)) /\ Weight(On(base, l)) \in Int
<1>1. Held(base)
  BY ApprovalConstants DEF LinesPlanned, Held
<1>2. Held(On(base, l))
  BY <1>1, FS_Subset DEF Held, On
<1> DEFINE ps == On(base, l)
           f == [p \in ps |-> p.w]
<1>3. \A p \in ps : f[p] = p.w
  OBVIOUS
<1>4. Weight(ps) \in Int
  <2>1. ps \in SUBSET ps /\ Held(ps)
    BY <1>2
  <2> HIDE DEF ps, f
  <2> QED
    BY <1>3, <2>1, WeightIsSum
<1> QED
  BY <1>2, <1>4

LEMMA AfterEnds == \A done, l : After(base, done, l) = Ends(On(base, l), LineLegs(done, l))
BY DEF After, Ends, Effect, LineLegs

(* A line without legs stays.                                                    *)
LEMMA NoLegs ==
    ASSUME NEW ps, Weight(ps) \in Int
    PROVE  Ends(ps, {}) = Weight(ps)
<1>1. IsFiniteSet({}) /\ \A leg \in {} : leg.dw \in Int
  BY FS_EmptySet
<1>2. Effect({}) = 0
  BY <1>1, EffectFacts
<1> QED
  BY <1>2 DEF Ends

LEMMA LineSettles ==
    ASSUME ApprovalInv, LinesPlanned, want.kind = "rebalance", NEW l \in Core, l \in DOMAIN want.target, OneSided(On(base, l)),
           NEW done, done = Legs \/ (Handed /\ done = sent)
    PROVE  LineEnds(want.rule[l], want.target[l], On(base, l), LineLegs(done, l))
<1>1. Held(On(base, l))
  BY BaseHeld
<1>2. want.target[l] \in Int /\ want.rule[l].min \in Int
  BY ApprovalConstants DEF LinesPlanned
<1>3. /\ LineLegs(done, l) \subseteq PlanLine(want.rule[l], l, want.target[l], On(base, l))
      /\ \A leg \in LineLegs(done, l) : leg.deps \subseteq IdsOf(LineLegs(done, l))
  BY LineComplete
<1> QED
  BY <1>1, <1>2, <1>3, LegsEnd

(* No line overshoots (NoLineOvershoots), for every book, every want and whatever  *)
(* was dropped between the plan and the approval: without its open a line is cut   *)
(* toward zero newest first, and the cuts add up to what the plan takes off, or to *)
(* less than the smallest position more, or to the whole position that cannot be   *)
(* closed in part; with its open it has every close the open waits for.           *)
THEOREM LinesLand == ApprovalSpec => []NoLineOvershoots
<1>1. ApprovalInv /\ LinesPlanned => NoLineOvershoots
  <2> SUFFICES ASSUME ApprovalInv, LinesPlanned, Handed, want.kind = "rebalance",
                      NEW l \in Core \cap DOMAIN want.target, OneSided(On(base, l))
               PROVE  LET end == After(base, sent, l)
                          now == Weight(On(base, l))
                          aim == want.target[l]
                      IN \/ (now <= end /\ end <= aim) \/ (aim <= end /\ end <= now)
                         \/ /\ Size(end) < Size(now) /\ Side(end) * Side(now) >= 0
                            /\ want.rule[l].partial = "no" \/ Size(aim) - Size(end) < want.rule[l].min
    BY DEF NoLineOvershoots
  <2> DEFINE end == After(base, sent, l)
             now == Weight(On(base, l))
             aim == want.target[l]
             E == Exposure(On(base, l))
             least == want.rule[l].min
  <2>1. end = Ends(On(base, l), LineLegs(sent, l)) /\ now \in Int /\ aim \in Int /\ least \in Int
    BY AfterEnds, BaseHeld, ApprovalConstants DEF LinesPlanned
  <2>2. LineEnds(want.rule[l], aim, On(base, l), LineLegs(sent, l))
    BY LineSettles
  <2>3. E \in Int
    <3>1. Held(On(base, l)) /\ On(base, l) \in SUBSET On(base, l)
      BY BaseHeld
    <3> QED
      BY <3>1, ExposureFacts
  <2>4. CASE Cut(want.rule[l], aim, On(base, l), LineLegs(sent, l))
    <3>1. PICK s \in {1, -1} : \E r \in Int : CutTo(want.rule[l], aim, On(base, l), LineLegs(sent, l), r, s)
      BY <2>4 DEF Cut
    <3>2. PICK r \in Int : CutTo(want.rule[l], aim, On(base, l), LineLegs(sent, l), r, s)
      BY <3>1
    <3>3. /\ now = s * E /\ end = s * r /\ 0 <= r /\ r <= E
          /\ r = E \/ s * aim <= r \/ want.rule[l].partial = "no" \/ s * aim - r < least
      BY <2>1, <3>2 DEF CutTo, NotBelow
    <3> HIDE DEF end, now, aim, E, least
    <3>4. CASE r = E \/ s * aim <= r
      <4>1. (now <= end /\ end <= aim) \/ (aim <= end /\ end <= now)
        BY <2>1, <2>3, <3>3, <3>4
      <4> QED
        BY <4>1 DEF end, now, aim
    <3>5. CASE r # E /\ s * aim > r /\ (want.rule[l].partial = "no" \/ s * aim - r < least)
      <4>1. Size(end) = r /\ Size(now) = E /\ Size(aim) = s * aim
        BY <2>1, <2>3, <3>3, <3>5 DEF Size
      <4>2. Side(end) * Side(now) >= 0
        BY <2>1, <2>3, <3>3 DEF Side
      <4>3. Size(end) < Size(now) /\ (want.rule[l].partial = "no" \/ Size(aim) - Size(end) < least)
        BY <2>3, <3>3, <3>5, <4>1
      <4> QED
        BY <4>2, <4>3 DEF end, now, aim, least
    <3>6. s * aim \in Int
      BY <2>1
    <3> QED
      BY <3>3, <3>4, <3>5, <3>6
  <2>5. CASE \E o \in LineLegs(sent, l) : Raised(aim, On(base, l), LineLegs(sent, l), o)
    <3>1. Between(now, end, aim)
      BY <2>1, <2>5 DEF Raised
    <3> QED
      BY <3>1 DEF Between
  <2> QED
    BY <2>2, <2>4, <2>5 DEF LineEnds
<1> QED
  BY <1>1, ApprovalInductive, LinesStayPlanned, PTL

-----------------------------------------------------------------------------
(* The gross of the core.                                                       *)
Single == {k \in Core : OneSided(On(base, k))}

LEMMA GrossCompares ==
    ASSUME LinesPlanned, want.kind = "rebalance", NEW a, NEW b,
           \A l \in Single : /\ After(base, a, l) \in Int /\ After(base, b, l) \in Int
                             /\ Size(After(base, a, l)) <= Size(After(base, b, l))
    PROVE  CoreGross(a) <= CoreGross(b)
<1> DEFINE f == [l \in Single |-> Size(After(base, a, l))]
           g == [l \in Single |-> Size(After(base, b, l))]
<1>1. IsFiniteSet(Single)
  BY PlanConstants, FS_Subset DEF Single
<1>2. IntOn(f, Single) /\ IntOn(g, Single) /\ (\A l \in Single : f[l] <= g[l]) /\ DOMAIN f = Single /\ DOMAIN g = Single
  BY DEF IntOn, Size
<1>3. CoreGross(a) = SumFunctionOnSet(f, DOMAIN f) /\ CoreGross(b) = SumFunctionOnSet(g, DOMAIN g)
  BY TotalIsSum DEF CoreGross, Single
<1> HIDE DEF f, g
<1> QED
  BY <1>1, <1>2, <1>3, SumMonotone

(* Where a line ends is a whole number, and without an open it is no larger.       *)
LEMMA EndIsInt ==
    ASSUME ApprovalInv, LinesPlanned, want.kind = "rebalance", NEW l \in Single, NEW done, done = Legs \/ (Handed /\ done = sent)
    PROVE  /\ After(base, done, l) \in Int
           /\ NoOpen(LineLegs(done, l)) => Size(After(base, done, l)) <= Size(Weight(On(base, l)))
<1> DEFINE end == After(base, done, l)
           now == Weight(On(base, l))
           D == LineLegs(done, l)
           E == Exposure(On(base, l))
<1>0. l \in Core /\ OneSided(On(base, l))
  BY DEF Single
<1>1. end = Ends(On(base, l), D) /\ now \in Int
  BY AfterEnds, BaseHeld
<1>2. CASE l \notin DOMAIN want.target
  <2>1. D = {}
    BY <1>0, <1>2, LineComplete
  <2>2. end = now
    BY <1>1, <2>1, NoLegs
  <2> HIDE DEF end, now
  <2>3. Size(end) <= Size(now)
    BY <1>1, <2>2 DEF Size
  <2> QED
    BY <1>1, <2>2, <2>3 DEF end, now
<1>3. CASE l \in DOMAIN want.target
  <2>1. LineEnds(want.rule[l], want.target[l], On(base, l), D)
    BY <1>0, <1>3, LineSettles
  <2>2. CASE Cut(want.rule[l], want.target[l], On(base, l), D)
    <3>1. PICK s \in {1, -1}, r \in Int : CutTo(want.rule[l], want.target[l], On(base, l), D, r, s)
      BY <2>2 DEF Cut
    <3>2. now = s * E /\ end = s * r /\ 0 <= r /\ r <= E
      BY <1>1, <3>1 DEF CutTo
    <3>3. E \in Int
      <4>1. Held(On(base, l)) /\ On(base, l) \in SUBSET On(base, l)
        BY BaseHeld
      <4> QED
        BY <4>1, ExposureFacts
    <3> HIDE DEF end, now, E, D
    <3>4. end \in Int /\ Size(end) <= Size(now)
      BY <3>2, <3>3 DEF Size
    <3> QED
      BY <3>4 DEF end, now
  <2>3. CASE \E o \in D : o.kind = "open" /\ Raised(want.target[l], On(base, l), D, o)
    <3>1. end \in Int /\ ~NoOpen(D)
      BY <1>1, <2>3 DEF Raised, NoOpen
    <3> QED
      BY <3>1
  <2> HIDE DEF D
  <2> QED
    BY <2>1, <2>2, <2>3 DEF LineEnds
<1> QED
  BY <1>2, <1>3

(* When every reduction of the core is sent, each line ends no further out than in *)
(* the whole plan: an open that is dropped takes the close it gives back with it.  *)
LEMMA InsideThePlan ==
    ASSUME ApprovalInv, LinesPlanned, TrimStaysTrim, want.kind = "rebalance", Handed, NEW l \in Single,
           \A leg \in Legs \ sent : leg.inc \/ leg.swing
    PROVE  Size(After(base, sent, l)) <= Size(After(base, Legs, l))
<1> DEFINE D == LineLegs(sent, l)
           L == LineLegs(Legs, l)
           ps == On(base, l)
<1>0. l \in Core /\ OneSided(ps) /\ ps = On(base, l)
  BY DEF Single
<1>1. After(base, sent, l) = Ends(ps, D) /\ After(base, Legs, l) = Ends(ps, L) /\ Ends(ps, D) \in Int /\ Ends(ps, L) \in Int
  BY AfterEnds, EndIsInt
<1>2. D \subseteq L /\ \A leg \in L \ D : leg \in Legs \ sent /\ leg.kind = "open"
  <2>1. sent \subseteq Legs
    BY <1>0, LineComplete
  <2>2. \A leg \in L : ~leg.swing /\ leg \in Legs
    BY <1>0, LineComplete DEF LineLegs
  <2>3. \A leg \in L \ D : leg \in Legs \ sent /\ leg.line = l
    BY DEF LineLegs
  <2>4. \A leg \in Legs : leg.inc = (leg.kind = "open")
    BY DEF ApprovalInv, ProposalSound, Drafted
  <2> QED
    BY <2>1, <2>2, <2>3, <2>4 DEF LineLegs
<1>3. CASE D = L
  BY <1>1, <1>3 DEF Size
<1>4. ASSUME D # L PROVE Size(Ends(ps, D)) <= Size(Ends(ps, L))
  <2>1. PICK x \in L : x \notin D
    BY <1>2, <1>4
  <2>2. l \in DOMAIN want.target
    BY <1>0, <2>1, LineComplete
  <2>3. LineEnds(want.rule[l], want.target[l], ps, L)
    BY <1>0, <2>2, LineSettles
  <2>4. ~NoOpen(L)
    BY <1>2, <2>1 DEF NoOpen
  <2>5. PICK o \in L : o.kind = "open" /\ NoOpen(L \ {o}) /\ Raised(want.target[l], ps, L, o)
    BY <2>3, <2>4 DEF LineEnds
  <2>6. x = o /\ D = L \ {o} /\ o \in Legs \ sent
    BY <1>2, <2>1, <2>5 DEF NoOpen
  <2>7. ~GivesBack(ps, L, o)
    <3> SUFFICES ASSUME GivesBack(ps, L, o) PROVE FALSE
      OBVIOUS
    <3>1. PICK p \in ps : Close(p) \in L /\ CloseOf(p) \in o.deps /\ Close(p).side = o.side /\ p.line = o.line
      BY DEF GivesBack
    <3>2. Close(p) \in Gives(o)
      BY <3>1, CloseFields DEF Gives, LineLegs, Reduces
    <3>3. Close(p) \notin sent
      BY <2>5, <2>6, <3>2 DEF TrimStaysTrim
    <3>4. Close(p) \in L \ D
      BY <3>1, <3>3 DEF LineLegs
    <3>5. Close(p).kind = "open"
      BY <1>2, <3>4
    <3> QED
      BY <3>5, CloseFields
  <2>8. \/ Ends(ps, L) = want.target[l] /\ Ends(ps, D) = Weight(ps) /\ Size(Weight(ps)) <= Size(want.target[l])
        \/ Ends(ps, D) = 0
    BY <2>5, <2>6, <2>7 DEF Raised
  <2> QED
    BY <1>1, <2>8 DEF Size
<1> QED
  BY <1>1, <1>3, <1>4

(* The core book stays inside (GrossInside): when a reduction is missing no risk is *)
(* added and every line ends no larger than it is; otherwise every line ends no     *)
(* larger than in the whole plan.                                                *)
THEOREM GrossStaysInside == ApprovalSpec => []GrossInside
<1>1. ApprovalInv /\ LinesPlanned /\ ReductionsFirst /\ TrimStaysTrim => GrossInside
  <2> SUFFICES ASSUME ApprovalInv, LinesPlanned, ReductionsFirst, TrimStaysTrim, Handed, want.kind = "rebalance"
               PROVE  CoreGross(sent) <= CoreGross({}) \/ CoreGross(sent) <= CoreGross(Legs)
    BY DEF GrossInside
  <2>1. \A l \in Single : After(base, sent, l) \in Int /\ After(base, Legs, l) \in Int
    BY EndIsInt
  <2>2. \A l \in Single : After(base, {}, l) = Weight(On(base, l)) /\ Weight(On(base, l)) \in Int
    <3> TAKE l \in Single
    <3>1. LineLegs({}, l) = {} /\ Weight(On(base, l)) \in Int
      BY BaseHeld DEF LineLegs
    <3> QED
      BY <3>1, AfterEnds, NoLegs
  <2>3. CASE \E leg \in Legs \ sent : ~leg.inc /\ ~leg.swing
    <3>1. \A open \in sent : ~open.inc
      BY <2>3 DEF ReductionsFirst
    <3>2. ASSUME NEW l \in Single PROVE NoOpen(LineLegs(sent, l))
      <4>1. l \in Core
        BY DEF Single
      <4>2. \A leg \in LineLegs(sent, l) : leg \in sent /\ leg \in Legs
        BY <4>1, LineComplete DEF LineLegs
      <4> QED
        BY <3>1, <4>2 DEF NoOpen, ApprovalInv, ProposalSound, Drafted
    <3>3. \A l \in Single : Size(After(base, sent, l)) <= Size(After(base, {}, l))
      BY <2>2, <3>2, EndIsInt
    <3> QED
      BY <2>1, <2>2, <3>3, GrossCompares
  <2>4. CASE \A leg \in Legs \ sent : leg.inc \/ leg.swing
    <3>1. \A l \in Single : Size(After(base, sent, l)) <= Size(After(base, Legs, l))
      BY <2>4, InsideThePlan
    <3> QED
      BY <2>1, <3>1, GrossCompares
  <2> QED
    BY <2>3, <2>4
<1> QED
  BY <1>1, ApprovalInductive, LinesStayPlanned, RiskFirst, TrimsStayTrims, PTL
=============================================================================
