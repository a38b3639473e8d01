------------------------------- MODULE Executor -------------------------------
(***************************************************************************)
(* execution/executor.py: one approved decision executed against the       *)
(* broker leg by leg, and its recovery by resume.  Between any two ledger  *)
(* writes or broker calls the process may crash or meet an unexpected      *)
(* error; the broker moves on by itself, and its answers may be lost.  A   *)
(* second terminal may start a resume at any time: it reads the rows       *)
(* before it takes the executor lock.                                      *)
(*                                                                         *)
(* External: the broker.  A write that returns ambiguously was delivered   *)
(* before the lookups start or never will be (60 s window), and an order   *)
(* that exists is found by any lookup that answers.                        *)
(***************************************************************************)
EXTENDS Integers, FiniteSets, LedgerStates

CONSTANTS Legs,            \* the plan's leg numbers (seq)
          Kind,            \* leg -> kind ("close" stands for partial_close too)
          Swing,           \* leg -> is it a swing leg (leg.is_swing)
          Stock,           \* leg -> is it a stock on a satellite line
          Deps,            \* leg -> depends_on
          MaxAttempts,     \* MAX_WRITE_ATTEMPTS
          CancelVerified,  \* CANCEL_ROUTE_VERIFIED of the write client
          NoLeg

LegKinds == {"close", "modify_sl", "set_tp", "open", "modify_tp"}

ASSUME LegsAssumption == Legs \subseteq Nat /\ IsFiniteSet(Legs) /\ NoLeg \notin Legs
ASSUME PlanAssumption == /\ Kind \in [Legs -> LegKinds]
                         /\ Swing \in [Legs -> BOOLEAN]
                         /\ Stock \in [Legs -> BOOLEAN]
                         /\ Deps \in [Legs -> SUBSET Legs]
ASSUME AttemptsAssumption == MaxAttempts \in Nat \ {0} /\ CancelVerified \in BOOLEAN

VARIABLES
    dec, scope,           \* decisions.state and decisions.blocker_scope
    leg, oid, mismatch,   \* legs.state; order_id known; error names an exposure mismatch
    order, placed,        \* the broker: the state of the leg's order; how many it received
    pc, mode,             \* the process under the lock: its step, execute or resume
    cur, attempt, seen,   \* the leg it is at, its attempt, the last order status read
    todo, flags, before,  \* legs not visited yet, the _Run flags, positions at the start
    rows, pending,        \* the rows a resume read; has it read them and not locked yet
    stale, raised         \* history: a resume ran on outdated rows; why _fail_closed ran

ledger == <<dec, scope, leg, oid, mismatch>>
broker == <<order, placed>>
process == <<pc, mode, cur, attempt, seen, todo, flags, before>>
vars == <<ledger, broker, process, rows, pending, stale, raised>>

-----------------------------------------------------------------------------
(* The plan *)

Opens == {l \in Legs : Kind[l] = "open"}
Closes == {l \in Legs : Kind[l] = "close"}
Targets == {l \in Legs : Kind[l] \in {"set_tp", "modify_tp"}}
Filled == {"filled", "partially_filled", "rejected_partial"}

(* closes, modifications, core opens, swing opens, take-profits of the opens  *)
Phase(l) ==
    IF Kind[l] = "close" THEN 1
    ELSE IF Kind[l] \in {"modify_sl", "set_tp"} THEN 2
    ELSE IF Kind[l] = "open" /\ ~Swing[l] THEN 3
    ELSE IF Kind[l] = "open" THEN 4
    ELSE 5

Precedes(l, m) == Phase(l) < Phase(m) \/ (Phase(l) = Phase(m) /\ l < m)

(* What approve.py's market_hours_drops may drop from a rebalance: a set      *)
(* closed under the drop rule, the dependencies and the re-open rule.         *)
DropClosed(D) ==
    /\ (\E l \in D \ Opens : ~Swing[l]) => Opens \subseteq D
    /\ (\E l \in D \cap Closes : Swing[l]) => {l \in Opens : Swing[l]} \subseteq D
    /\ \A l \in Legs : Deps[l] \cap D # {} => l \in D
    /\ \A l \in D \cap Opens : Deps[l] \cap Closes \subseteq D

-----------------------------------------------------------------------------
(* The ledger as the executor uses it *)

Unresolved == UnresolvedLegs(leg)

OnlySwingUnresolved == OnlySwing(leg, Swing)

Waiting == WaitingLegs(leg)

(* Mutant: any held order that is not a swing leg's frees the core.            *)
BlockerScopeAlwaysSatellite ==
    IF Waiting # {} /\ \A l \in Waiting : Swing[l] THEN "swing"
    ELSE IF Waiting # {} THEN "satellite"
    ELSE "all"

BlockerScope == ScopeOf(leg, Swing, Stock)

(* _scope: a swing scope the ledger refuses becomes the whole book.           *)
GrantedScope(wanted) == IF wanted = "swing" /\ ~OnlySwingUnresolved THEN "all" ELSE wanted

Hold == HoldOf(dec, scope, leg, Swing)

Put(l, s, known, bad) ==
    /\ leg' = [leg EXCEPT ![l] = s]
    /\ oid' = [oid EXCEPT ![l] = oid[l] \/ known]
    /\ mismatch' = [mismatch EXCEPT ![l] = mismatch[l] \/ bad]
    /\ UNCHANGED <<dec, scope>>

NoRows == [leg |-> [l \in Legs |-> "planned"], oid |-> [l \in Legs |-> FALSE],
           bad |-> [l \in Legs |-> FALSE]]

Stop ==
    /\ pc' = "idle" /\ mode' = "none"
    /\ cur' = NoLeg /\ attempt' = 0 /\ seen' = "none"
    /\ todo' = {} /\ flags' = {} /\ before' = {}

(* _fail_closed: legs in flight become unknown, the decision execution_unknown *)
FailClosed(cause) ==
    /\ leg' = [l \in Legs |-> IF leg[l] \in {"submitting", "submitted", "in_flight"}
                              THEN "unknown" ELSE leg[l]]
    /\ dec' = IF CanTransition(dec, "execution_unknown") THEN "execution_unknown" ELSE dec
    /\ raised' = cause
    /\ rows' = IF mode = "resume" THEN NoRows ELSE rows
    /\ Stop
    /\ UNCHANGED <<scope, oid, mismatch, broker, pending, stale>>

-----------------------------------------------------------------------------
(* One leg at a time *)

Continue == IF mode = "execute" THEN "next" ELSE "recover"

(* update_leg to s; flow is what the process does if the ledger accepts it.    *)
Update(l, s, known, bad, flow) ==
    IF CanUpdateLeg(leg[l], s)
    THEN /\ Put(l, s, known, bad)
         /\ flow
         /\ UNCHANGED <<broker, mode, before, rows, pending, stale, raised>>
    ELSE FailClosed("illegal")

(* The leg is over: its state, the flags it raises, on to the next one.        *)
Settle(l, s, new, known, bad) ==
    Update(l, s, known, bad,
           /\ flags' = flags \cup new
           /\ todo' = todo \ {l}
           /\ pc' = Continue /\ cur' = NoLeg /\ attempt' = 0 /\ seen' = "none")

GoTo(step) == pc' = step /\ UNCHANGED <<cur, attempt, todo, flags>>

(* Mutant: an exposure mismatch does not halt the run.                         *)
HaltedByUnknownOnly == "unknown" \in flags

Halted == flags \cap {"unknown", "blocked"} # {}

First(l) == l \in todo /\ \A m \in todo \ {l} : Precedes(l, m)

Turn(l) == pc = "next" /\ ~Halted /\ First(l)

(* Mutant: a failed swing leg stops the core too.                              *)
StopAllAfter(l) == {"stop_opens"}

(* _stop_after and _stop_for_close *)
StopAfter(l) == IF Swing[l] THEN {"stop_swing"} ELSE {"stop_opens"}

(* Mutant: a close that did not go stops nothing.                              *)
StopIfOpen(l) == IF l \in Opens THEN StopAfter(l) ELSE {}

StopIfTrade(l) == IF l \in Opens \cup Closes THEN StopAfter(l) ELSE {}

OpenStopped(l) ==
    \/ "stop_opens" \in flags
    \/ "refreshed" \in flags /\ Swing[l] /\ "stop_swing" \in flags

DepsMet(l) ==
    /\ l \in Opens => \A d \in Deps[l] : leg[d] = "filled"
    /\ Kind[l] = "modify_tp" => Deps[l] # {} /\ \A d \in Deps[l] : leg[d] \in Filled

-----------------------------------------------------------------------------
(* execute *)

Init ==
    /\ dec = "approved" /\ scope = "all"
    /\ leg = [l \in Legs |-> "planned"]
    /\ oid = [l \in Legs |-> FALSE] /\ mismatch = [l \in Legs |-> FALSE]
    /\ order = [l \in Legs |-> "none"] /\ placed = [l \in Legs |-> 0]
    /\ pc = "idle" /\ mode = "none"
    /\ cur = NoLeg /\ attempt = 0 /\ seen = "none"
    /\ todo = {} /\ flags = {} /\ before = {}
    /\ rows = NoRows /\ pending = FALSE
    /\ stale = FALSE /\ raised = "no"

Begin(D) ==
    /\ pc = "idle" /\ dec = "approved"
    /\ DropClosed(D)
    /\ dec' = "executing"
    /\ leg' = [l \in Legs |-> IF l \in D THEN "skipped" ELSE leg[l]]
    /\ pc' = "next" /\ mode' = "execute"
    /\ todo' = Legs \ D
    /\ flags' = IF D = {} THEN {} ELSE {"partial"}
    /\ before' = {l \in Closes : order[l] # "gone"}
    /\ UNCHANGED <<scope, oid, mismatch, broker, cur, attempt, seen, rows, pending,
                   stale, raised>>

Only(A) == A /\ UNCHANGED <<ledger, broker, mode, before, rows, pending, stale, raised>>

SendingOver ==
    /\ pc = "next" /\ (Halted \/ todo = {})
    /\ Only(GoTo("finish") /\ UNCHANGED seen)

(* _run_opens: the equity refresh before the first open; if it fails no open    *)
(* is sent.                                                                    *)
RefreshEquity(l) ==
    /\ Turn(l) /\ l \in Opens
    /\ flags \cap {"refreshed", "stop_opens"} = {}
    /\ \E new \in {{"refreshed"}, {"refreshed", "stop_opens", "no_equity"}} :
           Only(flags' = flags \cup new /\ UNCHANGED <<pc, cur, attempt, seen, todo>>)

LeavePlanned(l) ==
    /\ Turn(l) /\ l \in Opens /\ OpenStopped(l)
    /\ Only(todo' = todo \ {l} /\ UNCHANGED <<pc, cur, attempt, seen, flags>>)

Ready(l) ==
    /\ Turn(l)
    /\ l \in Opens => "refreshed" \in flags /\ ~OpenStopped(l)

(* Not sent: the position is gone, a dependency did not fill, the market is    *)
(* closed, the leg is invalid, nothing is left after the refresh.              *)
SkipLeg(l) ==
    /\ Ready(l)
    /\ \E new \in {{}, StopIfTrade(l)} :
        /\ l \in Closes => new # {}
        /\ l \in Opens /\ ~DepsMet(l) => new = {}
        /\ Settle(l, "skipped", {"partial"} \cup new, FALSE, FALSE)

(* _tp_leg: the take-profit is at the broker already.                          *)
TargetAlreadySet(l) ==
    /\ Ready(l) /\ l \in Targets /\ DepsMet(l)
    /\ Settle(l, "filled", {}, FALSE, FALSE)

(* _submit: the leg is `submitting` in the ledger before anything is sent.     *)
Submit(l) ==
    /\ Ready(l) /\ DepsMet(l)
    /\ l \in Closes => l \in before
    /\ Update(l, "submitting", FALSE, FALSE,
              pc' = "sending" /\ cur' = l /\ UNCHANGED <<attempt, seen, todo, flags>>)

TooManyRequests ==
    /\ pc = "sending" /\ attempt + 1 < MaxAttempts
    /\ Update(cur, "submitting", FALSE, FALSE,
              attempt' = attempt + 1 /\ UNCHANGED <<pc, cur, seen, todo, flags>>)

Refused ==
    /\ pc = "sending"
    /\ Settle(cur, "rejected", {"partial"} \cup StopIfTrade(cur), FALSE, FALSE)

Deliver(l) ==
    /\ order[l] # "gone"
    /\ order' = [order EXCEPT ![l] = "working"]
    /\ placed' = [placed EXCEPT ![l] = placed[l] + 1]

Sent(step) ==
    /\ pc' = step
    /\ UNCHANGED <<ledger, mode, cur, attempt, seen, todo, flags, before, rows, pending,
                   stale, raised>>

Accepted == pc = "sending" /\ Deliver(cur) /\ Sent("accepted")

(* Mutant: a timeout is retried like a 429.                                    *)
AmbiguousRetried ==
    /\ pc = "sending"
    /\ Deliver(cur) \/ UNCHANGED broker
    /\ Sent("sending")

Ambiguous ==
    /\ pc = "sending"
    /\ Deliver(cur) \/ UNCHANGED broker
    /\ Sent(IF cur \in Opens THEN "find" ELSE "poll")

PersistSubmitted ==
    /\ pc = "accepted"
    /\ \E known \in BOOLEAN :
        /\ known => cur \in Opens \cup Closes
        /\ Update(cur, "submitted", known, FALSE, GoTo("poll") /\ UNCHANGED seen)

-----------------------------------------------------------------------------
(* Outcomes of an open: _find_open, _poll_open, _settle_open, _cancel_waiting *)

(* resume: the leg's row was written before its write could have been answered *)
Unanswered(l) == ~rows.oid[l] /\ rows.leg[l] \in {"submitting", "unknown"}

FoundOpen ==
    /\ pc = "find" /\ order[cur] # "none"
    /\ LET flow == GoTo("poll") /\ seen' = order[cur]
       IN  IF mode = "execute" \/ rows.leg[cur] = "submitting" \/ ~rows.oid[cur]
           THEN Update(cur, "submitted", TRUE, FALSE, flow)
           ELSE Only(flow)

(* Mutant: an unanswered lookup counts as not found.                           *)
OpenNotFoundUnclean ==
    /\ pc = "find"
    /\ IF mode = "resume" /\ Unanswered(cur)
       THEN Settle(cur, "skipped", {"partial"}, FALSE, FALSE)
       ELSE Settle(cur, "unknown", {"unknown"}, FALSE, FALSE)

(* No lookup of the window found it: proof of absence only if all answered.    *)
OpenNotFound ==
    /\ pc = "find"
    /\ IF mode = "resume" /\ order[cur] = "none" /\ Unanswered(cur)
       THEN \/ Settle(cur, "skipped", {"partial"}, FALSE, FALSE)
            \/ Settle(cur, "unknown", {"unknown"}, FALSE, FALSE)
       ELSE Settle(cur, "unknown", {"unknown"}, FALSE, FALSE)

LookOpen ==
    /\ pc = "poll" /\ cur \in Opens
    /\ order[cur] # "none" /\ seen \notin {"filled", "failed", "failed_partial"}
    /\ LET flow == GoTo("poll") /\ seen' = order[cur]
       IN  IF order[cur] = "working"
           THEN Update(cur, "in_flight", FALSE, FALSE, flow)
           ELSE Only(flow)

Wait(l) ==
    Settle(l, "waiting_for_market",
           {"waiting"} \cup (IF l \in Opens THEN StopAfter(l) ELSE {"stop_opens"}),
           TRUE, FALSE)

(* Mutant: no end of the poll window.                                          *)
SettleOpenWhenOver(l, status) ==
    /\ status \in {"filled", "failed"}
    /\ Settle(l, IF status = "filled" THEN "filled" ELSE "rejected", {}, TRUE, FALSE)

SettleOpenAs(l, status) ==
    \/ status \in {"none", "working"} /\ Settle(l, "unknown", {"unknown"}, status # "none", FALSE)
    \/ \E bad \in BOOLEAN :
         LET block == IF bad THEN {"blocked"} ELSE {}
         IN  \/ status = "filled" /\ Settle(l, "filled", block, TRUE, bad)
             \/ /\ status = "partial"
                /\ Settle(l, "partially_filled", {"partial"} \cup block, TRUE, bad)
    \/ status = "failed" /\ Settle(l, "rejected", {"partial"} \cup StopAfter(l), TRUE, FALSE)
    \/ /\ status = "failed_partial"
       /\ Settle(l, "rejected_partial", {"partial"} \cup StopAfter(l), TRUE, FALSE)

CanCancel == CancelVerified /\ mode = "execute"

SettleOpen ==
    /\ pc = "poll" /\ cur \in Opens
    /\ \/ SettleOpenAs(cur, seen)
       \/ seen = "held" /\ ~CanCancel /\ Wait(cur)

Cancel ==
    /\ pc = "poll" /\ cur \in Opens /\ seen = "held" /\ CanCancel
    /\ \/ order[cur] = "held" /\ order' = [order EXCEPT ![cur] = "failed"]
       \/ UNCHANGED order
    /\ UNCHANGED placed
    /\ Sent("recheck")

Recheck ==
    /\ pc = "recheck"
    /\ \/ Wait(cur)
       \/ order[cur] # "held" /\ SettleOpenAs(cur, order[cur])

-----------------------------------------------------------------------------
(* Outcomes of a close (_await_close, _settle_close) and of a PATCH           *)

Known(l) == IF mode = "resume" THEN rows.oid[l] ELSE oid[l]

LookClose ==
    /\ pc = "poll" /\ cur \in Closes /\ Known(cur)
    /\ Only(GoTo("poll") /\ seen' = IF order[cur] = "held" THEN "held" ELSE "none")

CloseUnknown(l) == Settle(l, "unknown", {"unknown"}, FALSE, FALSE)

SettleClose ==
    /\ pc = "poll" /\ cur \in Closes
    /\ \/ order[cur] \in {"filled", "gone"} /\ Settle(cur, "filled", {}, FALSE, FALSE)
       \/ /\ Known(cur) /\ order[cur] = "failed"
          /\ Settle(cur, "rejected", {"partial"} \cup StopAfter(cur), FALSE, FALSE)
       \/ seen = "held" /\ Wait(cur)
       \/ seen # "held" /\ ~(mode = "resume" /\ Unanswered(cur)) /\ CloseUnknown(cur)

(* resume, unconfirmed, no order id: is a close pending at the broker?         *)
AskPendingClose ==
    /\ pc = "poll" /\ cur \in Closes /\ seen # "held"
    /\ mode = "resume" /\ Unanswered(cur)
    /\ Only(GoTo("pending_close") /\ UNCHANGED seen)

PendingClose ==
    /\ pc = "pending_close"
    /\ \/ /\ order[cur] \notin {"working", "held"}
          /\ Settle(cur, "skipped", {"partial", "stop_opens"}, FALSE, FALSE)
       \/ CloseUnknown(cur)

(* _tp_unknown: a swing take-profit in doubt stops the swing only              *)
PatchUnknown(l) ==
    IF l \in Targets /\ Swing[l] THEN {"swing_unknown", "stop_swing"} ELSE {"unknown"}

SettlePatch ==
    /\ pc = "poll" /\ cur \notin Opens \cup Closes
    /\ \/ order[cur] = "filled" /\ Settle(cur, "filled", {}, FALSE, FALSE)
       \/ IF mode = "resume" /\ rows.leg[cur] \in {"submitting", "unknown"}
          THEN Settle(cur, "skipped", {"partial"}, FALSE, FALSE)
          ELSE Settle(cur, "unknown", PatchUnknown(cur), FALSE, FALSE)

-----------------------------------------------------------------------------
(* resume: the rows are read first, the lock is taken afterwards              *)

ResumableStates == {"executing", "execution_unknown", "blocked"}

Rows == [leg |-> leg, oid |-> oid, bad |-> mismatch]

ResumeRead ==
    /\ ~pending /\ mode # "resume" /\ dec \in ResumableStates
    /\ rows' = Rows /\ pending' = TRUE
    /\ UNCHANGED <<ledger, broker, process, stale, raised>>

ResumeLocked ==
    /\ pending /\ pc # "idle"
    /\ rows' = NoRows /\ pending' = FALSE
    /\ UNCHANGED <<ledger, broker, process, stale, raised>>

ResumeStart ==
    /\ pending /\ pc = "idle"
    /\ pc' = "recover" /\ mode' = "resume"
    /\ todo' = Legs /\ pending' = FALSE
    /\ stale' = (stale \/ rows # Rows)
    /\ UNCHANGED <<ledger, broker, cur, attempt, seen, flags, before, rows, raised>>

(* Mutant: a resumed run forgets the held orders.                              *)
AccountForgetsWaiting(l) ==
    (IF rows.leg[l] \in LegTerminal \ {"filled"} THEN {"partial"} ELSE {})
    \cup (IF rows.bad[l] THEN {"blocked"} ELSE {})

(* _account_existing *)
Account(l) ==
    (IF rows.leg[l] = "waiting_for_market" THEN {"waiting", "stop_opens"} ELSE {})
    \cup (IF rows.leg[l] \in LegTerminal \ {"filled"} THEN {"partial"} ELSE {})
    \cup (IF rows.bad[l] THEN {"blocked"} ELSE {})

Recover(l) ==
    /\ pc = "recover" /\ l \in todo /\ \A m \in todo : l <= m
    /\ IF rows.leg[l] \in LegActive
       THEN Only(/\ pc' = IF l \in Opens THEN "find" ELSE "poll"
                 /\ cur' = l /\ UNCHANGED <<attempt, seen, todo, flags>>)
       ELSE Only(/\ flags' = flags \cup Account(l) /\ todo' = todo \ {l}
                 /\ UNCHANGED <<pc, cur, attempt, seen>>)

RecoveryOver == pc = "recover" /\ todo = {} /\ Only(GoTo("finish") /\ UNCHANGED seen)

-----------------------------------------------------------------------------
(* _finish *)

SkipPlanned ==
    /\ pc = "finish"
    /\ leg' = [l \in Legs |-> IF leg[l] = "planned" THEN "skipped" ELSE leg[l]]
    /\ flags' = IF \E l \in Legs : leg[l] = "planned" THEN flags \cup {"partial"} ELSE flags
    /\ pc' = "reconcile"
    /\ UNCHANGED <<dec, scope, oid, mismatch, broker, mode, cur, attempt, seen, todo, before,
                   rows, pending, stale, raised>>

(* The post-execution reconcile as _final_state reads it.                     *)
Reconciles == {"unreadable", "unprotected", "drift", "ok"}

FinalState(rec) ==
    IF flags \cap {"unknown", "swing_unknown"} # {} THEN "execution_unknown"
    ELSE IF "blocked" \in flags \/ rec \in {"unreadable", "unprotected"} THEN "blocked"
    ELSE IF "waiting" \in flags THEN "waiting_for_market"
    ELSE IF "partial" \in flags THEN "completed_partial"
    ELSE IF rec = "ok" THEN "completed" ELSE "blocked"

Conclude ==
    /\ pc = "reconcile"
    /\ \E rec \in Reconciles :
         LET final == FinalState(rec)
             moves == dec # final /\ CanTransition(dec, final)
         IN  /\ dec' = IF moves THEN final ELSE dec
             /\ scope' = IF moves /\ final = "waiting_for_market" THEN GrantedScope(BlockerScope)
                         ELSE IF moves /\ final = "execution_unknown" /\ OnlySwingUnresolved
                              THEN "swing" ELSE scope
    /\ rows' = IF mode = "resume" THEN NoRows ELSE rows
    /\ Stop
    /\ UNCHANGED <<leg, oid, mismatch, broker, pending, stale, raised>>

-----------------------------------------------------------------------------
(* Failures, the broker, and the whole *)

Crash ==
    /\ pc # "idle"
    /\ Stop
    /\ rows' = IF mode = "resume" THEN NoRows ELSE rows
    /\ UNCHANGED <<ledger, broker, pending, stale, raised>>

Fault == pc # "idle" /\ FailClosed("error")

OrderMoves ==
    ({"working", "held"} \X {"filled", "failed"})
    \cup {<<"working", "held">>, <<"working", "partial">>, <<"held", "partial">>,
          <<"partial", "filled">>, <<"partial", "failed_partial">>, <<"none", "gone">>}

BrokerMoves(l) ==
    /\ \E s \in {"held", "partial", "filled", "failed", "failed_partial", "gone"} :
        /\ <<order[l], s>> \in OrderMoves
        /\ s \in {"partial", "failed_partial"} => l \in Opens
        /\ s = "held" => l \in Opens \cup Closes
        /\ s = "gone" => l \in Closes
        /\ order' = [order EXCEPT ![l] = s]
    /\ UNCHANGED <<ledger, placed, process, rows, pending, stale, raised>>

ExecuteStep ==
    \/ \E D \in SUBSET Legs : Begin(D)
    \/ SendingOver
    \/ \E l \in Legs : \/ RefreshEquity(l) \/ LeavePlanned(l) \/ SkipLeg(l)
                       \/ TargetAlreadySet(l) \/ Submit(l)
    \/ TooManyRequests \/ Refused \/ Accepted \/ Ambiguous \/ PersistSubmitted

OutcomeStep ==
    \/ FoundOpen \/ OpenNotFound \/ LookOpen \/ SettleOpen \/ Cancel \/ Recheck
    \/ LookClose \/ SettleClose \/ AskPendingClose \/ PendingClose \/ SettlePatch

RecoverStep == (\E l \in Legs : Recover(l)) \/ RecoveryOver

FinishStep == SkipPlanned \/ Conclude

Next ==
    \/ ExecuteStep \/ OutcomeStep \/ RecoverStep \/ FinishStep
    \/ ResumeRead \/ ResumeLocked \/ ResumeStart
    \/ Crash \/ Fault
    \/ \E l \in Legs : BrokerMoves(l)

Spec == Init /\ [][Next]_vars

(* A started process keeps taking its steps: its polls and its retries are     *)
(* bounded by the code, whatever the broker answers.                           *)
RunStep == pc # "idle" /\ (ExecuteStep \/ OutcomeStep \/ RecoverStep \/ FinishStep)

FairSpec == Spec /\ WF_vars(RunStep)

-----------------------------------------------------------------------------
(* Properties *)

OrderStates == {"none", "working", "held", "partial", "filled", "failed", "failed_partial",
                "gone"}

Steps == {"idle", "next", "sending", "accepted", "find", "poll", "recheck", "pending_close",
          "recover", "finish", "reconcile"}

Flags == {"unknown", "blocked", "partial", "stop_opens", "stop_swing", "swing_unknown",
          "waiting", "refreshed", "no_equity"}

TypeOK ==
    /\ dec \in DecisionStates /\ scope \in {"all", "satellite", "swing"}
    /\ leg \in [Legs -> LegStates]
    /\ oid \in [Legs -> BOOLEAN] /\ mismatch \in [Legs -> BOOLEAN]
    /\ order \in [Legs -> OrderStates] /\ placed \in [Legs -> Nat]
    /\ pc \in Steps /\ mode \in {"none", "execute", "resume"}
    /\ cur \in Legs \cup {NoLeg} /\ attempt \in 0 .. MaxAttempts
    /\ seen \in OrderStates
    /\ todo \subseteq Legs /\ flags \subseteq Flags /\ before \subseteq Legs
    /\ rows \in [leg : [Legs -> LegStates], oid : [Legs -> BOOLEAN], bad : [Legs -> BOOLEAN]]
    /\ pending \in BOOLEAN /\ stale \in BOOLEAN /\ raised \in {"no", "error", "illegal"}

(* The broker receives at most one order of a leg, whatever is lost, retried,  *)
(* crashed and resumed: an ambiguous write is never sent again, and resume     *)
(* never sends (_submit, resume).                                              *)
AtMostOneOrder == \A l \in Legs : placed[l] <= 1

(* The ledger never denies an order the broker has: an open it calls planned   *)
(* or skipped was never placed, and what it calls rejected or filled is so at   *)
(* the broker (the write-ahead `submitting`, the clean not-found of resume).    *)
LedgerAdmitsOrders ==
    /\ \A l \in Opens : leg[l] \in {"planned", "skipped"} => placed[l] = 0
    /\ \A l \in Opens \cup Closes : leg[l] = "rejected" => order[l] \in {"none", "failed", "gone"}
    /\ \A l \in Opens : leg[l] = "filled" => order[l] = "filled"

(* An open is on the market only after every close it must not outrun filled:  *)
(* a core open after the core closes, a swing open after all closes, through   *)
(* drops, rejections, held orders, crashes and resumes (stop_opens).           *)
FundedOpens ==
    \A m \in Opens, c \in Closes :
        placed[m] > 0 /\ (Swing[c] => Swing[m]) => leg[c] = "filled"

(* The process, its crashes and its resumes are one way to keep the book of    *)
(* OrderBook: the legs in hand or in doubt are the asked ones.                 *)
Stage == [l \in Legs |-> IF leg[l] \in LegActive THEN "asked" ELSE leg[l]]

Fate == [l \in Legs |-> IF order[l] \in {"working", "held"} THEN "live" ELSE order[l]]

Book == INSTANCE OrderBook WITH stage <- Stage, order <- Fate

(* However the processes, the crashes, the lost answers and the outdated rows  *)
(* interleave: no order leaves but of a leg that was due and alone in doubt,   *)
(* at most one of a leg, and what the ledger ends up saying of a leg is borne  *)
(* out by its order (execute, resume).                                        *)
ImplementsOrderBook == Book!Spec

(* A leg is sent only when every earlier one is settled and within tolerance;  *)
(* the one doubt allowed is a swing take-profit, and then no swing open is     *)
(* sent (run.unknown, run.blocked, swing_unknown).                             *)
SentInDoubt(l) ==
    /\ leg[l] = "planned" /\ leg'[l] = "submitting"
    /\ \E m \in Legs \ {l} :
        \/ leg[m] \in {"submitting", "submitted", "in_flight"} \/ mismatch[m]
        \/ leg[m] = "unknown" /\ ~(m \in Targets /\ Swing[m] /\ ~(l \in Opens /\ Swing[l]))

NothingSentInDoubt == [][\A l \in Legs : ~SentInDoubt(l)]_vars

(* A completed decision has no leg left to resolve, and `completed` means every *)
(* leg filled: nothing live is hidden behind a final state.                    *)
FinalMeansResolved ==
    /\ dec \in {"completed", "completed_partial"} => Unresolved = {}
    /\ dec = "completed" => \A l \in Legs : leg[l] = "filled"

(* The same for every resume whose rows were still true when it took the lock. *)
FreshFinalMeansResolved == ~stale => FinalMeansResolved

(* A decision that stopped short holds the book its unresolved legs belong to: *)
(* never nothing, never the swing book alone while a core leg is open, and the *)
(* satellite alone only for stock orders (_scope, blockers).  Only for resumes *)
(* whose rows were true: on outdated rows a resume takes a held stock order    *)
(* for all there is and frees the core beside a core order it never looked up. *)
HoldsItsBook ==
    ~stale /\ pc = "idle" /\ dec \in {"execution_unknown", "blocked", "waiting_for_market"} =>
        /\ Hold # "none"
        /\ (\E l \in Unresolved : ~Swing[l]) => Hold # "swing"
        /\ (\E l \in Unresolved : ~Stock[l] /\ ~Swing[l]) => Hold = "all"

(* The core opens are stopped only by a core leg that did not fill or by the   *)
(* equity refresh (_stop_for_close: core legs are never dropped because of a   *)
(* swing leg).                                                                 *)
Short(l) == leg[l] \in LegStates \ {"planned", "submitting", "submitted", "in_flight", "filled"}

CoreStoppedByCore ==
    mode = "execute" /\ "stop_opens" \in flags =>
        "no_equity" \in flags \/ \E l \in Opens \cup Closes : ~Swing[l] /\ Short(l)

(* What the code does keep of it: the only swing leg that stops the core is a  *)
(* close the broker holds for its market (_wait).                              *)
CoreStoppedByCoreOrHeldClose ==
    CoreStoppedByCore \/ \E l \in Closes : leg[l] = "waiting_for_market"

(* A close that resume marks skipped ("close never executed; position intact") *)
(* did not execute and is not about to.                                        *)
SkippedCloseNotExecuted ==
    \A l \in Closes : leg[l] = "skipped" => order[l] \notin {"working", "held", "filled"}

(* Every run under the lock ends, whatever the broker answers or fails to      *)
(* answer (bounded polls and attempts).                                        *)
EveryRunEnds == pc # "idle" ~> pc = "idle"

=============================================================================
