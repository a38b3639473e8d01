---------------------------- MODULE ExecutorProofs ----------------------------
(***************************************************************************)
(* Theorems of Executor for every plan: any legs, kinds, sleeves and       *)
(* dependencies, any number of attempts, with or without a cancel route;   *)
(* that it implements OrderBook; and of the RateLimiter it asks before     *)
(* each write.                                                              *)
(***************************************************************************)
EXTENDS Executor, RateLimiter, TLAPS

-----------------------------------------------------------------------------
(* Types.  Most actions end in Settle, Update or FailClosed, so those carry *)
(* the argument.                                                           *)

LegRecords == [leg : [Legs -> LegStates], oid : [Legs -> BOOLEAN], bad : [Legs -> BOOLEAN]]

(* The rows a resume starts from are leg records.                           *)
LEMMA NoRowsType == NoRows \in LegRecords
  BY DEF NoRows, LegRecords, LegStates, LegActive, LegTerminal, LegResolutions

(* Failing closed keeps the types.                                          *)
LEMMA FailClosedType ==
    ASSUME TypeOK, NEW cause \in {"error", "illegal"}, FailClosed(cause)
    PROVE  TypeOK'
  <1>1. leg' \in [Legs -> LegStates]
    BY DEF FailClosed, TypeOK, LegStates, LegActive
  <1>2. dec' \in DecisionStates
    BY DEF FailClosed, TypeOK, DecisionStates
  <1>3. rows' \in LegRecords
    BY NoRowsType DEF FailClosed, TypeOK, LegRecords
  <1>4. QED
    BY <1>1, <1>2, <1>3, AttemptsAssumption
       DEF FailClosed, Stop, TypeOK, LegRecords, Steps, OrderStates, broker

(* A write of one leg row keeps the types of the ledger.                    *)
LEMMA PutType ==
    ASSUME TypeOK, NEW l \in Legs, NEW s \in LegStates, NEW known \in BOOLEAN,
           NEW bad \in BOOLEAN, Put(l, s, known, bad)
    PROVE  /\ leg' \in [Legs -> LegStates]
           /\ oid' \in [Legs -> BOOLEAN]
           /\ mismatch' \in [Legs -> BOOLEAN]
           /\ dec' \in DecisionStates /\ scope' \in {"all", "satellite", "swing"}
  BY DEF Put, TypeOK

(* Settling the current leg keeps the types, also when the ledger refuses   *)
(* the move.                                                                *)
LEMMA SettleType ==
    ASSUME TypeOK, NEW l \in Legs, NEW s \in LegStates, NEW new \in SUBSET Flags,
           NEW known \in BOOLEAN, NEW bad \in BOOLEAN, Settle(l, s, new, known, bad)
    PROVE  TypeOK'
  <1>1. CASE CanUpdateLeg(leg[l], s)
    <2>1. Put(l, s, known, bad)
      BY <1>1 DEF Settle, Update
    <2>2. QED
      BY <1>1, <2>1, PutType, AttemptsAssumption
         DEF Settle, Update, Continue, TypeOK, Steps, OrderStates, broker
  <1>2. CASE ~CanUpdateLeg(leg[l], s)
    BY <1>2, FailClosedType DEF Settle, Update
  <1>3. QED
    BY <1>1, <1>2

(* The stops a leg can set are flags of a run.                              *)
LEMMA FlagTypes ==
    ASSUME NEW l \in Legs
    PROVE  /\ StopAfter(l) \in SUBSET Flags
           /\ StopIfTrade(l) \in SUBSET Flags
           /\ PatchUnknown(l) \in SUBSET Flags
           /\ Account(l) \in SUBSET Flags
  BY DEF StopAfter, StopIfTrade, PatchUnknown, Account, Flags

(* The states of a leg, listed.                                             *)
LEMMA LegVocabulary ==
    {"planned", "submitting", "submitted", "in_flight", "unknown", "skipped", "filled",
     "partially_filled", "rejected", "rejected_partial", "waiting_for_market"} = LegStates
  BY DEF LegStates, LegActive, LegTerminal, LegResolutions

(* An update that keeps the leg current: only the process moves on.         *)
LEMMA UpdateType ==
    ASSUME TypeOK, NEW l \in Legs, NEW s \in LegStates, NEW known \in BOOLEAN,
           NEW bad \in BOOLEAN, NEW ACTION flow, Update(l, s, known, bad, flow),
           flow => /\ pc' \in Steps /\ cur' \in Legs \cup {NoLeg}
                   /\ attempt' \in 0 .. MaxAttempts /\ seen' \in OrderStates
                   /\ todo' \subseteq Legs /\ flags' \subseteq Flags
    PROVE  TypeOK'
  <1>1. CASE CanUpdateLeg(leg[l], s)
    <2>1. Put(l, s, known, bad)
      BY <1>1 DEF Update
    <2>2. QED
      BY <1>1, <2>1, PutType DEF Update, TypeOK, broker
  <1>2. CASE ~CanUpdateLeg(leg[l], s)
    BY <1>2, FailClosedType DEF Update
  <1>3. QED
    BY <1>1, <1>2

(* Leaving a leg to wait for its market keeps the types.                    *)
LEMMA WaitType ==
    ASSUME TypeOK, NEW l \in Legs, Wait(l) PROVE TypeOK'
  BY SettleType, FlagTypes, LegVocabulary DEF Wait, Flags

(* Settling an open by what the broker says of it keeps the types.          *)
LEMMA SettleOpenType ==
    ASSUME TypeOK, NEW l \in Legs, NEW status \in OrderStates, SettleOpenAs(l, status)
    PROVE  TypeOK'
  <1> USE FlagTypes, LegVocabulary DEF Flags
  <1>1. CASE Settle(l, "unknown", {"unknown"}, status # "none", FALSE)
    BY <1>1, SettleType
  <1>2. ASSUME NEW bad \in BOOLEAN,
               Settle(l, "filled", IF bad THEN {"blocked"} ELSE {}, TRUE, bad)
        PROVE  TypeOK'
    BY <1>2, SettleType
  <1>3. ASSUME NEW bad \in BOOLEAN,
               Settle(l, "partially_filled", {"partial"} \cup IF bad THEN {"blocked"} ELSE {},
                      TRUE, bad)
        PROVE  TypeOK'
    BY <1>3, SettleType
  <1>4. CASE Settle(l, "rejected", {"partial"} \cup StopAfter(l), TRUE, FALSE)
    BY <1>4, SettleType
  <1>5. CASE Settle(l, "rejected_partial", {"partial"} \cup StopAfter(l), TRUE, FALSE)
    BY <1>5, SettleType
  <1>6. QED
    BY <1>1, <1>2, <1>3, <1>4, <1>5 DEF SettleOpenAs

(* What every step between two polls leaves of the process.                 *)
LEMMA GoToType ==
    ASSUME TypeOK, NEW step \in Steps, GoTo(step), seen' \in OrderStates
    PROVE  /\ pc' \in Steps /\ cur' \in Legs \cup {NoLeg}
           /\ attempt' \in 0 .. MaxAttempts /\ seen' \in OrderStates
           /\ todo' \subseteq Legs /\ flags' \subseteq Flags
  BY DEF GoTo, TypeOK

(* A step of the process alone keeps the types.                             *)
LEMMA OnlyType ==
    ASSUME TypeOK, NEW ACTION flow, Only(flow),
           flow => /\ pc' \in Steps /\ cur' \in Legs \cup {NoLeg}
                   /\ attempt' \in 0 .. MaxAttempts /\ seen' \in OrderStates
                   /\ todo' \subseteq Legs /\ flags' \subseteq Flags
    PROVE  TypeOK'
  BY DEF Only, TypeOK, ledger, broker

(* The leg the process is at is a leg of the plan.                          *)
AtALeg == pc \in {"sending", "accepted", "find", "poll", "recheck", "pending_close"} => cur \in Legs

(* The steps of an execution (begin, turn, send, answer) keep the types.    *)
LEMMA ExecuteType ==
    ASSUME TypeOK, AtALeg, ExecuteStep
    PROVE  TypeOK'
  <1> USE AttemptsAssumption DEF Steps, OrderStates, Flags
  <1>1. ASSUME NEW D \in SUBSET Legs, Begin(D) PROVE TypeOK'
    BY <1>1, LegVocabulary DEF Begin, TypeOK, DecisionStates, Closes, broker
  <1>2. CASE SendingOver
    BY <1>2 DEF SendingOver, Only, GoTo, TypeOK, ledger, broker
  <1>3. ASSUME NEW l \in Legs, RefreshEquity(l) PROVE TypeOK'
    BY <1>3 DEF RefreshEquity, Only, TypeOK, ledger, broker
  <1>4. ASSUME NEW l \in Legs, LeavePlanned(l) PROVE TypeOK'
    BY <1>4 DEF LeavePlanned, Only, TypeOK, ledger, broker
  <1>5. ASSUME NEW l \in Legs, SkipLeg(l) PROVE TypeOK'
    <2> PICK new \in {{}, StopIfTrade(l)} :
              Settle(l, "skipped", {"partial"} \cup new, FALSE, FALSE)
      BY <1>5 DEF SkipLeg
    <2>1. {"partial"} \cup new \in SUBSET Flags
      BY FlagTypes
    <2>2. QED
      BY <2>1, SettleType, LegVocabulary
  <1>6. ASSUME NEW l \in Legs, TargetAlreadySet(l) PROVE TypeOK'
    BY <1>6, SettleType, LegVocabulary DEF TargetAlreadySet
  <1>7. ASSUME NEW l \in Legs, Submit(l) PROVE TypeOK'
    <2>1. Update(l, "submitting", FALSE, FALSE,
                 pc' = "sending" /\ cur' = l /\ UNCHANGED <<attempt, seen, todo, flags>>)
      BY <1>7 DEF Submit
    <2>2. QED
      BY <2>1, UpdateType, LegVocabulary, ZenonT(60) DEF TypeOK
  <1>8. CASE TooManyRequests
    <2>1. Update(cur, "submitting", FALSE, FALSE,
                 attempt' = attempt + 1 /\ UNCHANGED <<pc, cur, seen, todo, flags>>)
      BY <1>8 DEF TooManyRequests
    <2>2. cur \in Legs /\ attempt + 1 \in 0 .. MaxAttempts
      BY <1>8 DEF TooManyRequests, AtALeg, TypeOK
    <2>3. QED
      BY <2>1, <2>2, UpdateType, LegVocabulary, ZenonT(60) DEF TypeOK
  <1>9. CASE Refused
    BY <1>9, SettleType, LegVocabulary, FlagTypes DEF Refused, AtALeg
  <1>10. CASE Accepted
    BY <1>10 DEF Accepted, Deliver, Sent, TypeOK, AtALeg, ledger
  <1>11. CASE Ambiguous
    BY <1>11 DEF Ambiguous, Deliver, Sent, TypeOK, AtALeg, ledger, broker
  <1>12. CASE PersistSubmitted
    <2> DEFINE flow == GoTo("poll") /\ UNCHANGED seen
    <2>1. PICK known \in BOOLEAN : Update(cur, "submitted", known, FALSE, flow)
      BY <1>12 DEF PersistSubmitted
    <2>2. cur \in Legs
      BY <1>12 DEF PersistSubmitted, AtALeg
    <2>3. ASSUME flow
          PROVE  /\ pc' \in Steps /\ cur' \in Legs \cup {NoLeg}
                 /\ attempt' \in 0 .. MaxAttempts /\ seen' \in OrderStates
                 /\ todo' \subseteq Legs /\ flags' \subseteq Flags
      BY <2>3, GoToType DEF TypeOK
    <2> HIDE DEF flow
    <2>4. QED
      BY <2>1, <2>2, <2>3, UpdateType, LegVocabulary
  <1>13. QED
    BY <1>1, <1>2, <1>3, <1>4, <1>5, <1>6, <1>7, <1>8, <1>9, <1>10, <1>11, <1>12
       DEF ExecuteStep

(* The steps that find out what became of an order keep the types.          *)
LEMMA OutcomeType ==
    ASSUME TypeOK, AtALeg, OutcomeStep
    PROVE  TypeOK'
  <1>0. "poll" \in Steps /\ "pending_close" \in Steps /\ seen \in OrderStates
        /\ {"unknown"} \in SUBSET Flags /\ {"partial"} \in SUBSET Flags
    BY DEF Steps, TypeOK, Flags
  <1> USE LegVocabulary
  <1>1. CASE FoundOpen
    <2> DEFINE flow == GoTo("poll") /\ seen' = order[cur]
    <2>1. cur \in Legs /\ order[cur] \in OrderStates
      BY <1>1 DEF FoundOpen, AtALeg, TypeOK
    <2>2. ASSUME flow
          PROVE  /\ pc' \in Steps /\ cur' \in Legs \cup {NoLeg}
                 /\ attempt' \in 0 .. MaxAttempts /\ seen' \in OrderStates
                 /\ todo' \subseteq Legs /\ flags' \subseteq Flags
      BY <1>0, <2>1, <2>2, GoToType
    <2>3. Update(cur, "submitted", TRUE, FALSE, flow) \/ Only(flow)
      BY <1>1 DEF FoundOpen
    <2> HIDE DEF flow
    <2>4. QED
      BY <2>1, <2>2, <2>3, UpdateType, OnlyType
  <1>2. CASE OpenNotFound
    <2>1. \/ Settle(cur, "skipped", {"partial"}, FALSE, FALSE)
          \/ Settle(cur, "unknown", {"unknown"}, FALSE, FALSE)
      BY <1>2 DEF OpenNotFound
    <2>2. cur \in Legs
      BY <1>2 DEF OpenNotFound, AtALeg
    <2>3. QED
      BY <1>0, <2>1, <2>2, SettleType
  <1>3. CASE LookOpen
    <2> DEFINE flow == GoTo("poll") /\ seen' = order[cur]
    <2>1. cur \in Legs /\ order[cur] \in OrderStates
      BY <1>3 DEF LookOpen, AtALeg, TypeOK
    <2>2. ASSUME flow
          PROVE  /\ pc' \in Steps /\ cur' \in Legs \cup {NoLeg}
                 /\ attempt' \in 0 .. MaxAttempts /\ seen' \in OrderStates
                 /\ todo' \subseteq Legs /\ flags' \subseteq Flags
      BY <1>0, <2>1, <2>2, GoToType
    <2>3. Update(cur, "in_flight", FALSE, FALSE, flow) \/ Only(flow)
      BY <1>3 DEF LookOpen
    <2> HIDE DEF flow
    <2>4. QED
      BY <2>1, <2>2, <2>3, UpdateType, OnlyType
  <1>4. CASE SettleOpen
    BY <1>0, <1>4, SettleOpenType, WaitType DEF SettleOpen, AtALeg
  <1>5. CASE Cancel
    BY <1>5 DEF Cancel, Sent, TypeOK, AtALeg, Steps, OrderStates, ledger
  <1>6. CASE Recheck
    <2>1. cur \in Legs /\ order[cur] \in OrderStates
      BY <1>6 DEF Recheck, AtALeg, TypeOK
    <2>2. QED
      BY <1>6, <2>1, SettleOpenType, WaitType DEF Recheck
  <1>7. CASE LookClose
    <2> DEFINE flow == GoTo("poll") /\ seen' = IF order[cur] = "held" THEN "held" ELSE "none"
    <2>1. ASSUME flow
          PROVE  /\ pc' \in Steps /\ cur' \in Legs \cup {NoLeg}
                 /\ attempt' \in 0 .. MaxAttempts /\ seen' \in OrderStates
                 /\ todo' \subseteq Legs /\ flags' \subseteq Flags
      BY <1>0, <2>1, GoToType DEF OrderStates
    <2>2. Only(flow)
      BY <1>7 DEF LookClose
    <2> HIDE DEF flow
    <2>3. QED
      BY <2>1, <2>2, OnlyType
  <1>8. CASE SettleClose
    <2>1. cur \in Legs /\ {"partial"} \cup StopAfter(cur) \in SUBSET Flags
      BY <1>0, <1>8, FlagTypes DEF SettleClose, AtALeg
    <2>2. \/ Settle(cur, "filled", {}, FALSE, FALSE)
          \/ Settle(cur, "rejected", {"partial"} \cup StopAfter(cur), FALSE, FALSE)
          \/ Wait(cur)
          \/ Settle(cur, "unknown", {"unknown"}, FALSE, FALSE)
      BY <1>8 DEF SettleClose, CloseUnknown
    <2>3. QED
      BY <1>0, <2>1, <2>2, SettleType, WaitType
  <1>9. CASE AskPendingClose
    <2> DEFINE flow == GoTo("pending_close") /\ UNCHANGED seen
    <2>1. ASSUME flow
          PROVE  /\ pc' \in Steps /\ cur' \in Legs \cup {NoLeg}
                 /\ attempt' \in 0 .. MaxAttempts /\ seen' \in OrderStates
                 /\ todo' \subseteq Legs /\ flags' \subseteq Flags
      BY <1>0, <2>1, GoToType
    <2>2. Only(flow)
      BY <1>9 DEF AskPendingClose
    <2> HIDE DEF flow
    <2>3. QED
      BY <2>1, <2>2, OnlyType
  <1>10. CASE PendingClose
    <2>1. cur \in Legs /\ {"partial", "stop_opens"} \in SUBSET Flags
      BY <1>10 DEF PendingClose, AtALeg, Flags
    <2>2. \/ Settle(cur, "skipped", {"partial", "stop_opens"}, FALSE, FALSE)
          \/ Settle(cur, "unknown", {"unknown"}, FALSE, FALSE)
      BY <1>10 DEF PendingClose, CloseUnknown
    <2>3. QED
      BY <1>0, <2>1, <2>2, SettleType
  <1>11. CASE SettlePatch
    <2>1. cur \in Legs /\ PatchUnknown(cur) \in SUBSET Flags
      BY <1>11, FlagTypes DEF SettlePatch, AtALeg
    <2>2. \/ Settle(cur, "filled", {}, FALSE, FALSE)
          \/ Settle(cur, "skipped", {"partial"}, FALSE, FALSE)
          \/ Settle(cur, "unknown", PatchUnknown(cur), FALSE, FALSE)
      BY <1>11 DEF SettlePatch
    <2>3. QED
      BY <1>0, <2>1, <2>2, SettleType
  <1>12. QED
    BY <1>1, <1>2, <1>3, <1>4, <1>5, <1>6, <1>7, <1>8, <1>9, <1>10, <1>11 DEF OutcomeStep

(* Recovery, conclusion, crashes and the broker keep the types.             *)
LEMMA RestType ==
    ASSUME TypeOK, Next, ~ExecuteStep, ~OutcomeStep
    PROVE  TypeOK'
  <1> USE AttemptsAssumption, LegVocabulary DEF ledger, broker
  <1>1. ASSUME NEW l \in Legs, Recover(l) PROVE TypeOK'
    BY <1>1, FlagTypes DEF Recover, Only, TypeOK, Steps
  <1>2. CASE RecoveryOver
    BY <1>2 DEF RecoveryOver, Only, GoTo, TypeOK, Steps
  <1>3. CASE SkipPlanned
    BY <1>3 DEF SkipPlanned, TypeOK, Steps, Flags
  <1>4. CASE Conclude
    <2> PICK rec \in Reconciles :
          LET final == FinalState(rec)
              moves == dec # final /\ CanTransition(dec, final)
          IN  /\ dec' = IF moves THEN final ELSE dec
              /\ scope' = IF moves /\ final = "waiting_for_market" THEN GrantedScope(BlockerScope)
                          ELSE IF moves /\ final = "execution_unknown" /\ OnlySwingUnresolved
                               THEN "swing" ELSE scope
      BY <1>4 DEF Conclude
    <2>1. FinalState(rec) \in DecisionStates
      BY DEF FinalState, DecisionStates, TerminalStates
    <2>2. GrantedScope(BlockerScope) \in {"all", "satellite", "swing"}
      BY DEF GrantedScope, BlockerScope, ScopeOf
    <2>3. dec' \in DecisionStates /\ scope' \in {"all", "satellite", "swing"}
      BY <2>1, <2>2 DEF TypeOK
    <2>4. rows' \in LegRecords
      BY <1>4, NoRowsType DEF Conclude, TypeOK, LegRecords
    <2>5. QED
      BY <1>4, <2>3, <2>4 DEF Conclude, Stop, TypeOK, LegRecords, Steps, OrderStates
  <1>5. CASE ResumeRead
    BY <1>5 DEF ResumeRead, Rows, TypeOK, process
  <1>6. CASE ResumeLocked
    BY <1>6, NoRowsType DEF ResumeLocked, LegRecords, TypeOK, process
  <1>7. CASE ResumeStart
    BY <1>7 DEF ResumeStart, TypeOK, Steps
  <1>8. CASE Crash
    BY <1>8, NoRowsType DEF Crash, Stop, TypeOK, LegRecords, Steps, OrderStates
  <1>9. CASE Fault
    BY <1>9, FailClosedType DEF Fault
  <1>10. ASSUME NEW l \in Legs, BrokerMoves(l) PROVE TypeOK'
    BY <1>10 DEF BrokerMoves, TypeOK, OrderStates, process
  <1>11. QED
    BY <1>1, <1>2, <1>3, <1>4, <1>5, <1>6, <1>7, <1>8, <1>9, <1>10
       DEF Next, RecoverStep, FinishStep

-----------------------------------------------------------------------------
(* The invariant.  Orders leave only from the step `sending`, so the argument *)
(* follows the current leg there: an execute run visits each planned leg     *)
(* once, and a resume never sends.                                          *)

(* Only an execute run sends; between two legs it is at none.                *)
Process ==
    /\ AtALeg
    /\ pc \in {"find", "recheck"} => cur \in Opens
    /\ pc = "pending_close" => cur \in Closes
    /\ pc \in {"next", "sending", "accepted", "recheck"} => mode = "execute"
    /\ pc \in {"idle", "next", "recover"} => cur = NoLeg /\ seen = "none"
    /\ pc = "sending" => leg[cur] = "submitting" /\ seen = "none"

(* A decision is approved until its one execute run begins.                  *)
Approval == dec = "approved" => pc = "idle" /\ ~pending /\ \A l \in Legs : leg[l] = "planned"

(* The legs an execute run has not reached are as they were planned.         *)
Unvisited ==
    mode = "execute" /\ pc # "reconcile" => \A l \in todo \ {cur} : leg[l] = "planned"

(* What was sent: nothing for a planned leg, nothing yet for the leg at hand. *)
Sends ==
    /\ \A l \in Legs : leg[l] = "planned" => placed[l] = 0
    /\ pc = "sending" => placed[cur] = 0
    /\ AtMostOneOrder

(* The broker has exactly the orders it received, and a final status read of  *)
(* an open stays true.                                                       *)
Orders ==
    /\ \A l \in Legs :
        /\ placed[l] = 0 => order[l] \in {"none", "gone"}
        /\ order[l] = "none" => placed[l] = 0
        /\ l \in Opens => order[l] # "gone"
    /\ cur \in Opens /\ seen \in {"filled", "failed"} => order[cur] = seen

SendInv == TypeOK /\ Process /\ Approval /\ Unvisited /\ Sends

LedgerInv == SendInv /\ Orders /\ LedgerAdmitsOrders

-----------------------------------------------------------------------------
(* SendInv is inductive. *)

Kept == Process /\ Approval /\ Unvisited /\ Sends

(* Every step keeps the types.                                              *)
LEMMA TypeStep ==
    ASSUME TypeOK, Process, [Next]_vars
    PROVE  TypeOK'
  <1>1. CASE UNCHANGED vars
    BY <1>1 DEF vars, ledger, broker, process, TypeOK
  <1>2. CASE Next
    BY <1>2, ExecuteType, OutcomeType, RestType DEF Process
  <1>3. QED
    BY <1>1, <1>2

(* Failing closed sends nothing and leaves no leg open to be sent.          *)
LEMMA FailClosedKeeps ==
    ASSUME SendInv, pc # "idle", NEW cause, FailClosed(cause)
    PROVE  Kept'
  BY LegsAssumption DEF FailClosed, Stop, SendInv, Kept, TypeOK, Process, AtALeg, Approval,
     Unvisited, Sends, AtMostOneOrder, broker

(* The end of a leg: the leg at hand, or one of todo that is not sent.        *)
LEMMA SettleKeeps ==
    ASSUME SendInv, pc \notin {"idle", "reconcile"}, NEW l \in Legs, cur \in {l, NoLeg},
           NEW s \in LegStates \ {"planned"}, NEW new, NEW known, NEW bad,
           Settle(l, s, new, known, bad)
    PROVE  Kept'
  <1>1. CASE CanUpdateLeg(leg[l], s)
    BY <1>1, LegsAssumption
       DEF Settle, Update, Put, Continue, SendInv, Kept, TypeOK, Process, AtALeg, Approval,
           Unvisited, Sends, AtMostOneOrder, broker
  <1>2. CASE ~CanUpdateLeg(leg[l], s)
    BY <1>2, FailClosedKeeps DEF Settle, Update
  <1>3. QED
    BY <1>1, <1>2

(* A write to the leg at hand that leaves it at hand, not at `sending`.       *)
LEMMA UpdateKeeps ==
    ASSUME SendInv, pc \in {"accepted", "find", "poll"}, cur \in Legs,
           NEW s \in LegStates \ {"planned"}, NEW known, NEW bad, NEW ACTION flow,
           Update(cur, s, known, bad, flow),
           flow => GoTo("poll")
    PROVE  Kept'
  <1>1. CASE CanUpdateLeg(leg[cur], s)
    BY <1>1, LegsAssumption
       DEF Update, Put, GoTo, SendInv, Kept, TypeOK, Process, AtALeg, Approval,
           Unvisited, Sends, AtMostOneOrder, broker
  <1>2. CASE ~CanUpdateLeg(leg[cur], s)
    BY <1>2, FailClosedKeeps DEF Update
  <1>3. QED
    BY <1>1, <1>2

(* A leg left to wait is never sent again.                                  *)
LEMMA WaitKeeps ==
    ASSUME SendInv, pc \notin {"idle", "reconcile"}, cur \in Legs, Wait(cur)
    PROVE  Kept'
  BY SettleKeeps, LegVocabulary DEF Wait

(* An open that was settled is never sent again.                            *)
LEMMA SettleOpenKeeps ==
    ASSUME SendInv, pc \notin {"idle", "reconcile"}, cur \in Legs, NEW status,
           SettleOpenAs(cur, status)
    PROVE  Kept'
  <1> USE LegVocabulary
  <1>1. CASE Settle(cur, "unknown", {"unknown"}, status # "none", FALSE)
    BY <1>1, SettleKeeps
  <1>2. ASSUME NEW bad \in BOOLEAN,
               Settle(cur, "filled", IF bad THEN {"blocked"} ELSE {}, TRUE, bad)
        PROVE  Kept'
    BY <1>2, SettleKeeps
  <1>3. ASSUME NEW bad \in BOOLEAN,
               Settle(cur, "partially_filled", {"partial"} \cup IF bad THEN {"blocked"} ELSE {},
                      TRUE, bad)
        PROVE  Kept'
    BY <1>3, SettleKeeps
  <1>4. CASE Settle(cur, "rejected", {"partial"} \cup StopAfter(cur), TRUE, FALSE)
    BY <1>4, SettleKeeps
  <1>5. CASE Settle(cur, "rejected_partial", {"partial"} \cup StopAfter(cur), TRUE, FALSE)
    BY <1>5, SettleKeeps
  <1>6. QED
    BY <1>1, <1>2, <1>3, <1>4, <1>5 DEF SettleOpenAs

(* The steps of an execution keep the invariant of sending: a leg is sent   *)
(* only while it has no order, and the row is written before.               *)
LEMMA ExecuteKeeps ==
    ASSUME SendInv, ExecuteStep
    PROVE  Kept'
  <1> USE LegVocabulary
  <1>0. /\ pc = "next" => cur = NoLeg /\ seen = "none"
        /\ \A l \in Legs : First(l) /\ pc = "next" => leg[l] = "planned" /\ placed[l] = 0
    BY LegsAssumption DEF SendInv, TypeOK, Process, Unvisited, Sends, First
  <1>1. ASSUME NEW D \in SUBSET Legs, Begin(D) PROVE Kept'
    BY <1>1, LegsAssumption
       DEF Begin, SendInv, Kept, TypeOK, Process, AtALeg, Approval, Unvisited, Sends,
           AtMostOneOrder, broker
  <1>2. CASE SendingOver
    BY <1>2, LegsAssumption
       DEF SendingOver, Only, GoTo, SendInv, Kept, TypeOK, Process, AtALeg, Approval, Unvisited,
           Sends, AtMostOneOrder, ledger, broker
  <1>3. ASSUME NEW l \in Legs, RefreshEquity(l) PROVE Kept'
    BY <1>3 DEF RefreshEquity, Turn, Only, SendInv, Kept, TypeOK, Process, AtALeg, Approval,
           Unvisited, Sends, AtMostOneOrder, ledger, broker
  <1>4. ASSUME NEW l \in Legs, LeavePlanned(l) PROVE Kept'
    BY <1>4 DEF LeavePlanned, Turn, Only, SendInv, Kept, TypeOK, Process, AtALeg, Approval,
           Unvisited, Sends, AtMostOneOrder, ledger, broker
  <1>5. ASSUME NEW l \in Legs, SkipLeg(l) PROVE Kept'
    <2>1. pc = "next" /\ \E new : Settle(l, "skipped", new, FALSE, FALSE)
      BY <1>5 DEF SkipLeg, Ready, Turn
    <2>2. QED
      BY <1>0, <2>1, SettleKeeps
  <1>6. ASSUME NEW l \in Legs, TargetAlreadySet(l) PROVE Kept'
    BY <1>0, <1>6, SettleKeeps DEF TargetAlreadySet, Ready, Turn
  <1>7. ASSUME NEW l \in Legs, Submit(l) PROVE Kept'
    <2>1. /\ pc = "next" /\ First(l) /\ l \in todo
          /\ Update(l, "submitting", FALSE, FALSE,
                    pc' = "sending" /\ cur' = l /\ UNCHANGED <<attempt, seen, todo, flags>>)
      BY <1>7 DEF Submit, Ready, Turn, First
    <2>2. CASE CanUpdateLeg(leg[l], "submitting")
      <3>1. /\ leg' = [leg EXCEPT ![l] = "submitting"] /\ pc' = "sending" /\ cur' = l
            /\ UNCHANGED <<dec, placed, mode, pending, seen, todo>>
        BY <2>1, <2>2 DEF Update, Put, broker
      <3>2. QED
        BY <1>0, <2>1, <3>1, LegsAssumption DEF SendInv, Kept, TypeOK, Process, AtALeg, Approval, Unvisited,
           Sends, AtMostOneOrder
    <2>3. CASE ~CanUpdateLeg(leg[l], "submitting")
      BY <2>1, <2>3, FailClosedKeeps DEF Update
    <2>4. QED
      BY <2>2, <2>3
  <1>8. CASE TooManyRequests
    <2>1. CASE CanUpdateLeg(leg[cur], "submitting")
      <3>1. /\ leg' = [leg EXCEPT ![cur] = "submitting"] /\ pc = "sending"
            /\ UNCHANGED <<dec, placed, pc, cur, mode, pending, seen, todo>>
        BY <1>8, <2>1 DEF TooManyRequests, Update, Put, broker
      <3>2. QED
        BY <3>1 DEF SendInv, Kept, TypeOK, Process, AtALeg, Approval, Unvisited, Sends,
           AtMostOneOrder
    <2>2. CASE ~CanUpdateLeg(leg[cur], "submitting")
      BY <1>8, <2>2, FailClosedKeeps DEF TooManyRequests, Update
    <2>3. QED
      BY <2>1, <2>2
  <1>9. CASE Refused
    BY <1>9, SettleKeeps DEF Refused, SendInv, Process, AtALeg
  <1>10. CASE Accepted
    BY <1>10, LegsAssumption
       DEF Accepted, Deliver, Sent, SendInv, Kept, TypeOK, Process, AtALeg, Approval, Unvisited,
           Sends, AtMostOneOrder, ledger
  <1>11. CASE Ambiguous
    BY <1>11, LegsAssumption
       DEF Ambiguous, Deliver, Sent, SendInv, Kept, TypeOK, Process, AtALeg, Approval, Unvisited,
           Sends, AtMostOneOrder, ledger, broker
  <1>12. CASE PersistSubmitted
    <2> DEFINE flow == GoTo("poll") /\ UNCHANGED seen
    <2>1. PICK known \in BOOLEAN : Update(cur, "submitted", known, FALSE, flow)
      BY <1>12 DEF PersistSubmitted
    <2>2. pc = "accepted" /\ cur \in Legs
      BY <1>12 DEF PersistSubmitted, SendInv, Process, AtALeg
    <2>3. flow => GoTo("poll")
      OBVIOUS
    <2> HIDE DEF flow
    <2>4. QED
      BY <2>1, <2>2, <2>3, UpdateKeeps
  <1>13. QED
    BY <1>1, <1>2, <1>3, <1>4, <1>5, <1>6, <1>7, <1>8, <1>9, <1>10, <1>11, <1>12
       DEF ExecuteStep

(* Finding out what became of an order sends nothing.                       *)
LEMMA OutcomeKeeps ==
    ASSUME SendInv, OutcomeStep
    PROVE  Kept'
  <1> USE LegVocabulary
  <1>0. pc \in {"find", "poll", "recheck", "pending_close"} => cur \in Legs
    BY DEF SendInv, Process, AtALeg
  <1>1. ASSUME NEW ACTION flow, pc \in {"find", "poll"}, flow => GoTo("poll"), Only(flow)
        PROVE  Kept'
    BY <1>0, <1>1 DEF Only, GoTo, SendInv, Kept, TypeOK, Process, AtALeg, Approval, Unvisited,
       Sends, AtMostOneOrder, ledger, broker
  <1>2. CASE FoundOpen \/ LookOpen
    <2> DEFINE flow == GoTo("poll") /\ seen' = order[cur]
    <2>1. /\ pc \in {"find", "poll"}
          /\ \/ Update(cur, "submitted", TRUE, FALSE, flow)
             \/ Update(cur, "in_flight", FALSE, FALSE, flow)
             \/ Only(flow)
      BY <1>2 DEF FoundOpen, LookOpen
    <2>2. flow => GoTo("poll")
      OBVIOUS
    <2> HIDE DEF flow
    <2>3. CASE Only(flow)
      BY <1>1, <2>1, <2>2, <2>3
    <2>4. CASE ~Only(flow)
      BY <1>0, <2>1, <2>2, <2>4, UpdateKeeps
    <2>5. QED
      BY <2>3, <2>4
  <1>3. CASE OpenNotFound
    BY <1>0, <1>3, SettleKeeps DEF OpenNotFound
  <1>4. CASE SettleOpen
    BY <1>0, <1>4, SettleOpenKeeps, WaitKeeps DEF SettleOpen
  <1>5. CASE Cancel
    <2>1. /\ pc = "poll" /\ cur \in Opens /\ mode = "execute" /\ pc' = "recheck"
          /\ UNCHANGED <<dec, leg, placed, mode, cur, seen, todo, pending>>
      BY <1>5 DEF Cancel, CanCancel, Sent, ledger
    <2>2. QED
      BY <1>0, <2>1 DEF SendInv, Kept, Process, AtALeg, Approval, Unvisited, Sends, AtMostOneOrder
  <1>6. CASE Recheck
    BY <1>0, <1>6, SettleOpenKeeps, WaitKeeps DEF Recheck
  <1>7. CASE LookClose
    <2> DEFINE flow == GoTo("poll") /\ seen' = IF order[cur] = "held" THEN "held" ELSE "none"
    <2>1. pc = "poll" /\ Only(flow) /\ (flow => GoTo("poll"))
      BY <1>7 DEF LookClose
    <2> HIDE DEF flow
    <2>2. QED
      BY <1>1, <2>1
  <1>8. CASE SettleClose
    BY <1>0, <1>8, SettleKeeps, WaitKeeps DEF SettleClose, CloseUnknown
  <1>9. CASE AskPendingClose
    <2>1. /\ pc = "poll" /\ cur \in Closes /\ pc' = "pending_close"
          /\ UNCHANGED <<dec, leg, placed, mode, cur, todo, pending>>
      BY <1>9 DEF AskPendingClose, Only, GoTo, ledger, broker
    <2>2. QED
      BY <1>0, <2>1 DEF SendInv, Kept, Process, AtALeg, Approval, Unvisited, Sends, AtMostOneOrder
  <1>10. CASE PendingClose
    BY <1>0, <1>10, SettleKeeps DEF PendingClose, CloseUnknown
  <1>11. CASE SettlePatch
    BY <1>0, <1>11, SettleKeeps DEF SettlePatch
  <1>12. QED
    BY <1>2, <1>3, <1>4, <1>5, <1>6, <1>7, <1>8, <1>9, <1>10, <1>11 DEF OutcomeStep

(* Recovery is lookups only, a crash leaves no run that could send, and the *)
(* broker opens no order by itself.                                         *)
LEMMA RestKeeps ==
    ASSUME SendInv, Next, ~ExecuteStep, ~OutcomeStep
    PROVE  Kept'
  <1> USE DEF SendInv, Kept, TypeOK, Process, AtALeg, Approval, Unvisited, Sends, AtMostOneOrder,
           ledger, broker, process
  <1>1. ASSUME NEW l \in Legs, Recover(l) PROVE Kept'
    <2>1. /\ pc = "recover" /\ cur = NoLeg /\ seen = "none"
          /\ UNCHANGED <<dec, leg, placed, mode, seen, pending>>
          /\ \/ /\ pc' = IF l \in Opens THEN "find" ELSE "poll"
                /\ cur' = l /\ todo' = todo
             \/ pc' = pc /\ cur' = cur /\ todo' = todo \ {l}
      BY <1>1 DEF Recover, Only
    <2>2. QED
      BY <2>1, LegsAssumption
  <1>2. CASE RecoveryOver
    BY <1>2 DEF RecoveryOver, Only, GoTo
  <1>3. CASE SkipPlanned
    BY <1>3 DEF SkipPlanned
  <1>4. CASE Conclude
    <2>1. /\ pc = "reconcile" /\ (dec' = "approved" => dec = "approved")
          /\ Stop /\ UNCHANGED <<leg, placed, pending>>
      BY <1>4 DEF Conclude, FinalState
    <2>2. QED
      BY <2>1 DEF Stop
  <1>5. CASE ResumeRead
    BY <1>5 DEF ResumeRead, ResumableStates
  <1>6. CASE ResumeLocked
    BY <1>6 DEF ResumeLocked
  <1>7. CASE ResumeStart
    BY <1>7 DEF ResumeStart
  <1>8. CASE Crash
    BY <1>8 DEF Crash, Stop
  <1>9. CASE Fault
    BY <1>9, FailClosedKeeps DEF Fault
  <1>10. ASSUME NEW l \in Legs, BrokerMoves(l) PROVE Kept'
    BY <1>10 DEF BrokerMoves
  <1>11. QED
    BY <1>1, <1>2, <1>3, <1>4, <1>5, <1>6, <1>7, <1>8, <1>9, <1>10
       DEF Next, RecoverStep, FinishStep

(* Every step keeps the invariant of sending.                               *)
LEMMA SendInvStep == SendInv /\ [Next]_vars => SendInv'
  <1> SUFFICES ASSUME SendInv, [Next]_vars PROVE SendInv'
    OBVIOUS
  <1>1. TypeOK'
    BY TypeStep DEF SendInv
  <1>2. Kept'
    <2>1. CASE UNCHANGED vars
      BY <2>1 DEF vars, ledger, broker, process, SendInv, Kept, Process, AtALeg, Approval,
         Unvisited, Sends, AtMostOneOrder
    <2>2. CASE Next
      BY <2>2, ExecuteKeeps, OutcomeKeeps, RestKeeps
    <2>3. QED
      BY <2>1, <2>2
  <1>3. QED
    BY <1>1, <1>2 DEF SendInv, Kept

(* The invariant of sending holds before the first step.                    *)
LEMMA SendInvInit == Init => SendInv
  <1> SUFFICES ASSUME Init PROVE SendInv
    OBVIOUS
  <1>1. TypeOK
    <2>1. rows \in LegRecords
      BY NoRowsType DEF Init
    <2>2. dec \in DecisionStates /\ leg \in [Legs -> LegStates]
      BY LegVocabulary DEF Init, DecisionStates
    <2>3. oid \in [Legs -> BOOLEAN] /\ mismatch \in [Legs -> BOOLEAN]
      BY DEF Init
    <2>4. order \in [Legs -> OrderStates] /\ placed \in [Legs -> Nat]
      BY DEF Init, OrderStates
    <2>5. attempt \in 0 .. MaxAttempts
      BY AttemptsAssumption DEF Init
    <2>6. QED
      BY <2>1, <2>2, <2>3, <2>4, <2>5 DEF Init, TypeOK, LegRecords, OrderStates, Steps
  <1>2. Process /\ Approval /\ Unvisited /\ Sends
    BY DEF Init, Process, AtALeg, Approval, Unvisited, Sends, AtMostOneOrder
  <1>3. QED
    BY <1>1, <1>2 DEF SendInv

(* Where the process stands determines which legs may have an order at the  *)
(* broker, in every reachable state: the invariant the theorems below rest  *)
(* on (executor.py, _submit writes the row before it sends and a resume     *)
(* never sends).                                                            *)
THEOREM SendInvariant == Spec => []SendInv
  BY SendInvInit, SendInvStep, PTL DEF Spec

(* The executor and the ledger rows it writes are always well typed: every leg *)
(* state, every run flag and every decision state it stores is a declared one. *)
THEOREM TypeCorrect == Spec => []TypeOK
  <1>1. SendInv => TypeOK
    BY DEF SendInv
  <1>2. QED
    BY <1>1, SendInvariant, PTL

(* Whatever is lost, retried, crashed and resumed, the broker receives at most *)
(* one order of each leg of the plan (_submit, resume).                        *)
THEOREM OneOrderPerLeg == Spec => []AtMostOneOrder
  <1>1. SendInv => AtMostOneOrder
    BY DEF SendInv, Sends
  <1>2. QED
    BY <1>1, SendInvariant, PTL

-----------------------------------------------------------------------------
(* What the ledger says of orders.  A leg that is over stays as it is (the    *)
(* leg table), and so does an order the broker has finished (OrderMoves).     *)

Told == Orders /\ LedgerAdmitsOrders

(* What a new state of the leg at hand claims of its order.                   *)
Claim(l, s) ==
    /\ l \in Opens /\ s = "skipped" => placed[l] = 0
    /\ l \in Opens \cup Closes /\ s = "rejected" => order[l] \in {"none", "failed", "gone"}
    /\ l \in Opens /\ s = "filled" => order[l] = "filled"

(* Failing closed leaves rows that still admit every order.                 *)
LEMMA FailClosedTells ==
    ASSUME LedgerInv, NEW cause, FailClosed(cause)
    PROVE  Told'
  BY LegsAssumption
     DEF FailClosed, Stop, LedgerInv, SendInv, Told, Orders, LedgerAdmitsOrders, TypeOK, Opens,
         Closes, broker

(* A row written with a claim that is true of the broker admits its order.  *)
LEMMA PutTells ==
    ASSUME LedgerInv, NEW l \in Legs, NEW s \in LegStates \ {"planned"}, NEW known, NEW bad,
           Put(l, s, known, bad), Claim(l, s), UNCHANGED broker
    PROVE  LedgerAdmitsOrders'
  BY DEF LedgerInv, SendInv, TypeOK, LedgerAdmitsOrders, Claim, Put, broker, Opens, Closes

(* Settling the current leg truthfully keeps the ledger honest, also when   *)
(* the move is refused.                                                     *)
LEMMA SettleTells ==
    ASSUME LedgerInv, NEW l \in Legs, NEW s \in LegStates \ {"planned"}, NEW new, NEW known,
           NEW bad, Claim(l, s), Settle(l, s, new, known, bad)
    PROVE  Told'
  <1>1. CASE CanUpdateLeg(leg[l], s)
    <2>1. Put(l, s, known, bad) /\ UNCHANGED broker /\ cur' = NoLeg
      BY <1>1 DEF Settle, Update
    <2>2. Orders'
      BY <2>1, LegsAssumption DEF LedgerInv, Orders, broker, Opens
    <2>3. QED
      BY <2>1, <2>2, PutTells DEF Told
  <1>2. CASE ~CanUpdateLeg(leg[l], s)
    BY <1>2, FailClosedTells DEF Settle, Update
  <1>3. QED
    BY <1>1, <1>2

(* A row in flight denies no order.                                         *)
LEMMA UpdateTells ==
    ASSUME LedgerInv, NEW l \in Legs, NEW s \in {"submitting", "submitted", "in_flight"},
           NEW known, NEW bad, NEW ACTION flow, Update(l, s, known, bad, flow),
           flow => (cur' \in Opens /\ seen' \in {"filled", "failed"} => order[cur'] = seen')
    PROVE  Told'
  <1>1. CASE CanUpdateLeg(leg[l], s)
    <2>1. Put(l, s, known, bad) /\ UNCHANGED broker /\ flow
      BY <1>1 DEF Update
    <2>2. Orders'
      BY <2>1 DEF LedgerInv, Orders, broker, Opens
    <2>3. Claim(l, s)
      BY DEF Claim
    <2>4. QED
      BY <2>1, <2>2, <2>3, LegVocabulary, PutTells DEF Told
  <1>2. CASE ~CanUpdateLeg(leg[l], s)
    BY <1>2, FailClosedTells DEF Update
  <1>3. QED
    BY <1>1, <1>2

(* A step of the process that writes nothing.                                 *)
LEMMA OnlyTells ==
    ASSUME LedgerInv, NEW ACTION flow, Only(flow),
           flow => (cur' \in Opens /\ seen' \in {"filled", "failed"} => order[cur'] = seen')
    PROVE  Told'
  BY DEF Only, Told, LedgerInv, Orders, LedgerAdmitsOrders, ledger, broker, Opens, Closes

(* A row that waits for its market denies no order.                         *)
LEMMA WaitTells ==
    ASSUME LedgerInv, cur \in Legs, Wait(cur)
    PROVE  Told'
  BY SettleTells, LegVocabulary DEF Wait, Claim

(* An open settled by the state of its order keeps the ledger honest.       *)
LEMMA SettleOpenTells ==
    ASSUME LedgerInv, cur \in Opens, NEW status, SettleOpenAs(cur, status),
           status \in {"filled", "failed"} => order[cur] = status
    PROVE  Told'
  <1> USE LegVocabulary DEF Claim
  <1>0. cur \in Legs /\ cur \notin Closes
    BY DEF Opens, Closes
  <1>1. CASE Settle(cur, "unknown", {"unknown"}, status # "none", FALSE)
    BY <1>0, <1>1, SettleTells
  <1>2. ASSUME NEW bad \in BOOLEAN, status = "filled",
               Settle(cur, "filled", IF bad THEN {"blocked"} ELSE {}, TRUE, bad)
        PROVE  Told'
    BY <1>0, <1>2, SettleTells
  <1>3. ASSUME NEW bad \in BOOLEAN,
               Settle(cur, "partially_filled", {"partial"} \cup IF bad THEN {"blocked"} ELSE {},
                      TRUE, bad)
        PROVE  Told'
    BY <1>0, <1>3, SettleTells
  <1>4. CASE status = "failed"
             /\ Settle(cur, "rejected", {"partial"} \cup StopAfter(cur), TRUE, FALSE)
    BY <1>0, <1>4, SettleTells
  <1>5. CASE Settle(cur, "rejected_partial", {"partial"} \cup StopAfter(cur), TRUE, FALSE)
    BY <1>0, <1>5, SettleTells
  <1>6. QED
    BY <1>1, <1>2, <1>3, <1>4, <1>5 DEF SettleOpenAs

(* The steps of an execution never write a row that denies an order.        *)
LEMMA ExecuteTells ==
    ASSUME LedgerInv, ExecuteStep
    PROVE  Told'
  <1> USE LegVocabulary
  <1>0. /\ pc = "next" => cur = NoLeg /\ seen = "none"
        /\ pc = "sending" => /\ cur \in Legs /\ leg[cur] = "submitting"
                             /\ order[cur] \in {"none", "gone"} /\ seen = "none"
        /\ \A l \in Legs : First(l) /\ pc = "next" => leg[l] = "planned" /\ placed[l] = 0
    BY LegsAssumption
       DEF LedgerInv, SendInv, TypeOK, Process, AtALeg, Unvisited, Sends, Orders, First
  <1>1. ASSUME NEW D \in SUBSET Legs, Begin(D) PROVE Told'
    <2>1. /\ \A l \in Legs : leg[l] = "planned" /\ leg'[l] \in {"planned", "skipped"}
          /\ UNCHANGED <<broker, cur, seen>>
      BY <1>1 DEF Begin, LedgerInv, SendInv, TypeOK, Approval
    <2>2. QED
      BY <2>1 DEF Told, LedgerInv, SendInv, Sends, Orders, LedgerAdmitsOrders, broker, Opens,
         Closes
  <1>2. CASE SendingOver
    BY <1>2 DEF SendingOver, Only, GoTo, Told, LedgerInv, Orders, LedgerAdmitsOrders, ledger,
       broker, Opens, Closes
  <1>3. ASSUME NEW l \in Legs, RefreshEquity(l) \/ LeavePlanned(l) PROVE Told'
    BY <1>3 DEF RefreshEquity, LeavePlanned, Only, Told, LedgerInv, Orders, LedgerAdmitsOrders,
       ledger, broker, Opens, Closes
  <1>4. ASSUME NEW l \in Legs, SkipLeg(l) PROVE Told'
    <2>1. First(l) /\ pc = "next" /\ \E new : Settle(l, "skipped", new, FALSE, FALSE)
      BY <1>4 DEF SkipLeg, Ready, Turn
    <2>2. Claim(l, "skipped")
      BY <1>0, <2>1 DEF Claim
    <2>3. QED
      BY <2>1, <2>2, SettleTells
  <1>5. ASSUME NEW l \in Legs, TargetAlreadySet(l) PROVE Told'
    <2>1. Claim(l, "filled") /\ Settle(l, "filled", {}, FALSE, FALSE)
      BY <1>5 DEF TargetAlreadySet, Claim, Targets, Opens
    <2>2. QED
      BY <2>1, SettleTells
  <1>6. ASSUME NEW l \in Legs, Submit(l) PROVE Told'
    <2> DEFINE flow == pc' = "sending" /\ cur' = l /\ UNCHANGED <<attempt, seen, todo, flags>>
    <2>1. pc = "next" /\ Update(l, "submitting", FALSE, FALSE, flow)
      BY <1>6 DEF Submit, Ready, Turn
    <2>2. flow => (cur' \in Opens /\ seen' \in {"filled", "failed"} => order[cur'] = seen')
      BY <1>0, <2>1
    <2> HIDE DEF flow
    <2>3. QED
      BY <2>1, <2>2, UpdateTells
  <1>7. CASE TooManyRequests
    <2> DEFINE flow == attempt' = attempt + 1 /\ UNCHANGED <<pc, cur, seen, todo, flags>>
    <2>1. pc = "sending" /\ Update(cur, "submitting", FALSE, FALSE, flow)
      BY <1>7 DEF TooManyRequests
    <2>2. flow => (cur' \in Opens /\ seen' \in {"filled", "failed"} => order[cur'] = seen')
      BY <1>0, <2>1
    <2> HIDE DEF flow
    <2>3. QED
      BY <1>0, <2>1, <2>2, UpdateTells
  <1>8. CASE Refused
    <2>1. cur \in Legs /\ Claim(cur, "rejected")
      BY <1>0, <1>8 DEF Refused, Claim
    <2>2. QED
      BY <1>8, <2>1, SettleTells DEF Refused
  <1>9. CASE Accepted \/ Ambiguous
    <2>1. /\ pc = "sending" /\ UNCHANGED <<leg, cur, seen>>
          /\ \/ /\ order[cur] # "gone"
                /\ order' = [order EXCEPT ![cur] = "working"]
                /\ placed' = [placed EXCEPT ![cur] = placed[cur] + 1]
             \/ UNCHANGED broker
      BY <1>9 DEF Accepted, Ambiguous, Deliver, Sent, ledger, broker
    <2>2. QED
      BY <1>0, <2>1 DEF Told, LedgerInv, SendInv, TypeOK, Orders, LedgerAdmitsOrders, Opens,
         Closes, broker
  <1>10. CASE PersistSubmitted
    <2> DEFINE flow == GoTo("poll") /\ UNCHANGED seen
    <2>1. PICK known \in BOOLEAN : Update(cur, "submitted", known, FALSE, flow)
      BY <1>10 DEF PersistSubmitted
    <2>2. cur \in Legs
      BY <1>10 DEF PersistSubmitted, LedgerInv, SendInv, Process, AtALeg
    <2>3. flow => (cur' \in Opens /\ seen' \in {"filled", "failed"} => order[cur'] = seen')
      BY DEF GoTo, LedgerInv, Orders
    <2> HIDE DEF flow
    <2>4. QED
      BY <2>1, <2>2, <2>3, UpdateTells
  <1>11. QED
    BY <1>1, <1>2, <1>3, <1>4, <1>5, <1>6, <1>7, <1>8, <1>9, <1>10 DEF ExecuteStep

(* What the process writes after it looked is what the broker has.          *)
LEMMA OutcomeTells ==
    ASSUME LedgerInv, OutcomeStep
    PROVE  Told'
  <1> USE LegVocabulary
  <1>0. /\ pc \in {"find", "poll", "recheck", "pending_close"} => cur \in Legs
        /\ cur \in Opens /\ seen \in {"filled", "failed"} => order[cur] = seen
        /\ Opens \subseteq Legs /\ Opens \cap Closes = {} /\ Opens \cap Targets = {}
    BY DEF LedgerInv, SendInv, Process, AtALeg, Orders, Opens, Closes, Targets
  <1>1. CASE FoundOpen \/ LookOpen
    <2> DEFINE flow == GoTo("poll") /\ seen' = order[cur]
    <2>1. /\ pc \in {"find", "poll"}
          /\ \/ Update(cur, "submitted", TRUE, FALSE, flow)
             \/ Update(cur, "in_flight", FALSE, FALSE, flow)
             \/ Only(flow)
      BY <1>1 DEF FoundOpen, LookOpen
    <2>2. flow => (cur' \in Opens /\ seen' \in {"filled", "failed"} => order[cur'] = seen')
      BY DEF GoTo
    <2> HIDE DEF flow
    <2>3. CASE Only(flow)
      BY <2>2, <2>3, OnlyTells
    <2>4. CASE ~Only(flow)
      BY <1>0, <2>1, <2>2, <2>4, UpdateTells
    <2>5. QED
      BY <2>3, <2>4
  <1>2. CASE OpenNotFound
    <2>1. /\ cur \in Legs /\ Claim(cur, "unknown")
          /\ order[cur] = "none" => Claim(cur, "skipped")
      BY <1>0, <1>2 DEF OpenNotFound, Claim, LedgerInv, Orders
    <2>2. QED
      BY <1>2, <2>1, SettleTells DEF OpenNotFound
  <1>3. CASE SettleOpen
    BY <1>0, <1>3, SettleOpenTells, WaitTells DEF SettleOpen
  <1>4. CASE Cancel
    <2>1. /\ UNCHANGED <<leg, placed, cur, seen>> /\ cur \in Legs /\ seen = "held"
          /\ \/ order[cur] = "held" /\ order' = [order EXCEPT ![cur] = "failed"]
             \/ UNCHANGED order
      BY <1>0, <1>4 DEF Cancel, Sent, ledger
    <2>2. QED
      BY <2>1 DEF Told, LedgerInv, SendInv, TypeOK, Orders, LedgerAdmitsOrders, Opens, Closes
  <1>5. CASE Recheck
    <2>1. cur \in Opens
      BY <1>5 DEF Recheck, LedgerInv, SendInv, Process
    <2>2. QED
      BY <1>0, <1>5, <2>1, SettleOpenTells, WaitTells DEF Recheck
  <1>6. CASE LookClose
    <2> DEFINE flow == GoTo("poll") /\ seen' = IF order[cur] = "held" THEN "held" ELSE "none"
    <2>1. Only(flow)
      BY <1>6 DEF LookClose
    <2>2. flow => (cur' \in Opens /\ seen' \in {"filled", "failed"} => order[cur'] = seen')
      OBVIOUS
    <2> HIDE DEF flow
    <2>3. QED
      BY <2>1, <2>2, OnlyTells
  <1>7. CASE SettleClose
    <2>1. /\ cur \in Legs /\ Claim(cur, "unknown") /\ Claim(cur, "filled")
          /\ order[cur] = "failed" => Claim(cur, "rejected")
      BY <1>0, <1>7 DEF SettleClose, Claim
    <2>2. QED
      BY <1>7, <2>1, SettleTells, WaitTells DEF SettleClose, CloseUnknown
  <1>8. CASE AskPendingClose
    <2> DEFINE flow == GoTo("pending_close") /\ UNCHANGED seen
    <2>1. Only(flow)
      BY <1>8 DEF AskPendingClose
    <2>2. flow => (cur' \in Opens /\ seen' \in {"filled", "failed"} => order[cur'] = seen')
      BY <1>0 DEF GoTo
    <2> HIDE DEF flow
    <2>3. QED
      BY <2>1, <2>2, OnlyTells
  <1>9. CASE PendingClose
    <2>1. cur \in Closes
      BY <1>9 DEF PendingClose, LedgerInv, SendInv, Process
    <2>2. cur \in Legs /\ Claim(cur, "unknown") /\ Claim(cur, "skipped")
      BY <1>0, <2>1 DEF Claim, Closes
    <2>3. QED
      BY <1>9, <2>2, SettleTells DEF PendingClose, CloseUnknown
  <1>10. CASE SettlePatch
    <2>1. /\ cur \in Legs /\ Claim(cur, "unknown") /\ Claim(cur, "skipped")
          /\ Claim(cur, "filled")
      BY <1>0, <1>10 DEF SettlePatch, Claim
    <2>2. QED
      BY <1>10, <2>1, SettleTells DEF SettlePatch
  <1>11. QED
    BY <1>1, <1>2, <1>3, <1>4, <1>5, <1>6, <1>7, <1>8, <1>9, <1>10 DEF OutcomeStep

(* Recovery, conclusion, crashes and the moves of the broker never leave a  *)
(* row that denies an order.                                                *)
LEMMA RestTells ==
    ASSUME LedgerInv, Next, ~ExecuteStep, ~OutcomeStep
    PROVE  Told'
  <1> USE DEF Told, Orders, LedgerAdmitsOrders, Opens, Closes, ledger, broker, process
  <1>1. ASSUME NEW l \in Legs, Recover(l) PROVE Told'
    <2>1. pc = "recover" /\ seen = "none" /\ UNCHANGED <<leg, order, placed, seen>>
      BY <1>1 DEF Recover, Only, LedgerInv, SendInv, Process
    <2>2. QED
      BY <2>1 DEF LedgerInv
  <1>2. CASE RecoveryOver
    BY <1>2 DEF RecoveryOver, Only, GoTo, LedgerInv
  <1>3. CASE SkipPlanned
    BY <1>3 DEF SkipPlanned, LedgerInv, SendInv, Sends, TypeOK
  <1>4. CASE Conclude
    BY <1>4 DEF Conclude, Stop, LedgerInv
  <1>5. CASE ResumeRead
    BY <1>5 DEF ResumeRead, LedgerInv
  <1>6. CASE ResumeLocked
    BY <1>6 DEF ResumeLocked, LedgerInv
  <1>7. CASE ResumeStart
    BY <1>7 DEF ResumeStart, LedgerInv
  <1>8. CASE Crash
    BY <1>8 DEF Crash, Stop, LedgerInv
  <1>9. CASE Fault
    BY <1>9, FailClosedTells DEF Fault
  <1>10. ASSUME NEW l \in Legs, BrokerMoves(l) PROVE Told'
    BY <1>10 DEF BrokerMoves, OrderMoves, LedgerInv, SendInv, TypeOK, Sends
  <1>11. QED
    BY <1>1, <1>2, <1>3, <1>4, <1>5, <1>6, <1>7, <1>8, <1>9, <1>10
       DEF Next, RecoverStep, FinishStep

(* Every step keeps the ledger honest.                                      *)
LEMMA LedgerInvStep == LedgerInv /\ [Next]_vars => LedgerInv'
  <1> SUFFICES ASSUME LedgerInv, [Next]_vars PROVE LedgerInv'
    OBVIOUS
  <1>1. SendInv'
    BY SendInvStep DEF LedgerInv
  <1>2. Told'
    <2>1. CASE UNCHANGED vars
      BY <2>1 DEF vars, ledger, broker, process, LedgerInv, Told, Orders, LedgerAdmitsOrders,
         Opens, Closes
    <2>2. CASE Next
      BY <2>2, ExecuteTells, OutcomeTells, RestTells
    <2>3. QED
      BY <2>1, <2>2
  <1>3. QED
    BY <1>1, <1>2 DEF LedgerInv, Told

(* The ledger never denies an order the broker has: an open it calls planned or *)
(* skipped was never placed, one it calls filled filled, and nothing it calls   *)
(* rejected is at the market (the write-ahead `submitting` of _submit, the      *)
(* clean not-found of resume).                                                 *)
THEOREM OrdersAdmitted == Spec => []LedgerAdmitsOrders
  <1>1. Init => LedgerInv
    <2>1. Init => Orders /\ LedgerAdmitsOrders
      BY DEF Init, Orders, LedgerAdmitsOrders, Opens, Closes
    <2>2. QED
      BY <2>1, SendInvInit DEF LedgerInv
  <1>2. LedgerInv => LedgerAdmitsOrders
    BY DEF LedgerInv
  <1>3. QED
    BY <1>1, <1>2, LedgerInvStep, PTL DEF Spec

-----------------------------------------------------------------------------
(* What a run knows when it sends.  An execute run carries its doubts in its   *)
(* flags: the rows behind the leg at hand are over, or a flag stops what may   *)
(* not follow them.                                                           *)

InFlight == {"submitting", "submitted", "in_flight"}

(* A doubt about leg l has the flag that stops what must not follow it.        *)
Flagged(l, f) ==
    \/ "unknown" \in f
    \/ l \in Targets /\ Swing[l] /\ "stop_swing" \in f

(* What an execute run knows of the legs behind it.                           *)
Doubts ==
    mode = "execute" =>
        /\ \A l \in Legs : l # cur => leg[l] \notin InFlight
        /\ \A l \in Legs : leg[l] = "unknown" => Flagged(l, flags)
        /\ \A l \in Legs : mismatch[l] => "blocked" \in flags

(* A close that is over filled, or stops the opens that must follow it.        *)
Stopped(c, f) ==
    \/ f \cap {"unknown", "stop_opens"} # {}
    \/ Swing[c] /\ "stop_swing" \in f
Freed(c) ==
    \/ leg[c] = "filled"
    \/ Stopped(c, flags)
    \/ \A m \in todo \cap Opens : Swing[c] /\ ~Swing[m]
Passed == mode = "execute" => \A c \in Closes \ todo : Freed(c)

Funded(m) == \A c \in Closes : (Swing[c] => Swing[m]) => leg[c] = "filled"
Funds == FundedOpens /\ (pc = "sending" /\ cur \in Opens => Funded(cur))

(* Before its one run the decision has met no doubt.                           *)
Fresh == dec = "approved" => \A l \in Legs : ~mismatch[l]

(* Only a resume recovers.                                                    *)
Places == pc = "recover" => mode # "execute"

Knows == Fresh /\ Doubts /\ Passed /\ Funds /\ Places
RunInv == SendInv /\ Knows

(* What every step keeps.                                                     *)
Careful == \A l \in Legs : ~SentInDoubt(l)
Learned == Knows' /\ Careful

-----------------------------------------------------------------------------
(* One leg                                                                  *)

(* A run that fails closed is over, and nothing filled is taken back.          *)
LEMMA FailClosedLearned ==
    ASSUME RunInv, pc # "idle", NEW cause, FailClosed(cause)
    PROVE  Learned
  <1>1. /\ mode' = "none" /\ pc' = "idle" /\ placed' = placed /\ mismatch' = mismatch
        /\ dec' # "approved"
        /\ \A l \in Legs : leg'[l] = IF leg[l] \in InFlight THEN "unknown" ELSE leg[l]
    BY DEF FailClosed, Stop, broker, RunInv, SendInv, Approval, InFlight
  <1>2. FundedOpens'
    BY <1>1 DEF FundedOpens, RunInv, Knows, Funds, Opens, Closes, InFlight
  <1>3. Careful
    BY <1>1 DEF Careful, SentInDoubt
  <1>4. QED
    BY <1>1, <1>2, <1>3 DEF Learned, Knows, Fresh, Doubts, Passed, Funds, Places

(* What the end of a leg must tell the run.                                    *)
Tells(l, s, new, bad) ==
    /\ s = "unknown" => Flagged(l, new)
    /\ bad => "blocked" \in new
    /\ l \in Closes => s = "filled" \/ Stopped(l, new)

(* The end of a leg, told to the run.                                         *)
LEMMA SettleLearned ==
    ASSUME RunInv, pc \notin {"idle", "reconcile"}, NEW l \in Legs, cur \in {l, NoLeg},
           NEW s \in LegStates \ (InFlight \cup {"planned"}), NEW new, NEW known, NEW bad \in BOOLEAN,
           mode = "execute" => Tells(l, s, new, bad),
           Settle(l, s, new, known, bad)
    PROVE  Learned
  <1>1. CASE CanUpdateLeg(leg[l], s)
    <2>1. /\ leg' = [leg EXCEPT ![l] = s] /\ mismatch' = [mismatch EXCEPT ![l] = mismatch[l] \/ bad]
          /\ flags' = flags \cup new /\ todo' = todo \ {l} /\ pc' = Continue
          /\ UNCHANGED <<dec, placed, mode>>
      BY <1>1 DEF Settle, Update, Put, broker
    <2>2. /\ leg \in [Legs -> LegStates] /\ mismatch \in [Legs -> BOOLEAN]
          /\ dec # "approved" /\ pc' # "sending" /\ leg[l] # "filled"
      BY <1>1, <2>1 DEF RunInv, SendInv, TypeOK, Approval, Continue, CanUpdateLeg, LegTerminal, LegResolutions
    <2>3. /\ leg'[l] = s /\ mismatch'[l] = (mismatch[l] \/ bad)
          /\ \A k \in Legs : k # l => leg'[k] = leg[k] /\ mismatch'[k] = mismatch[k]
      BY <2>1, <2>2
    <2>4. Fresh' /\ Careful
      BY <2>1, <2>2, <2>3 DEF Fresh, Careful, SentInDoubt, InFlight
    <2>5. Doubts'
      <3> SUFFICES ASSUME mode = "execute" PROVE Doubts'
        BY <2>1 DEF Doubts
      <3>1. \A k \in Legs : k # l => leg[k] \notin InFlight
        BY LegsAssumption DEF RunInv, Knows, Doubts
      <3>2. \A k \in Legs : leg'[k] \notin InFlight
        BY <2>3, <3>1
      <3>3. \A k \in Legs : leg'[k] = "unknown" => Flagged(k, flags')
        BY <2>1, <2>3 DEF RunInv, Knows, Doubts, Tells, Flagged
      <3>4. \A k \in Legs : mismatch'[k] => "blocked" \in flags'
        BY <2>1, <2>2, <2>3 DEF RunInv, Knows, Doubts, Tells
      <3>5. QED
        BY <3>2, <3>3, <3>4 DEF Doubts
    <2>6. Passed'
      <3> SUFFICES ASSUME mode = "execute", NEW c \in Closes \ todo' PROVE Freed(c)'
        BY <2>1 DEF Passed
      <3>1. CASE c = l
        BY <2>1, <2>3, <3>1 DEF Freed, Stopped, Tells
      <3>2. CASE c # l
        BY <2>1, <2>3, <3>2 DEF Freed, Stopped, RunInv, Knows, Passed, Closes
      <3>3. QED
        BY <3>1, <3>2
    <2>7. Funds'
      BY <2>1, <2>2, <2>3 DEF RunInv, Knows, Funds, FundedOpens, Opens, Closes
    <2>8. QED
      BY <2>1, <2>4, <2>5, <2>6, <2>7 DEF Learned, Knows, Places, Continue
  <1>2. CASE ~CanUpdateLeg(leg[l], s)
    BY <1>2, FailClosedLearned DEF Settle, Update
  <1>3. QED
    BY <1>1, <1>2

(* A write to the leg at hand that leaves it at hand tells the run nothing.    *)
LEMMA UpdateLearned ==
    ASSUME RunInv, pc \in {"accepted", "find", "poll"}, cur \in Legs,
           NEW s \in {"submitted", "in_flight"}, NEW known, NEW ACTION flow,
           Update(cur, s, known, FALSE, flow), flow => GoTo("poll")
    PROVE  Learned
  <1>1. CASE CanUpdateLeg(leg[cur], s)
    <2>1. /\ leg' = [leg EXCEPT ![cur] = s] /\ mismatch' = [mismatch EXCEPT ![cur] = mismatch[cur] \/ FALSE]
          /\ pc' = "poll" /\ UNCHANGED <<dec, placed, mode, cur, flags, todo>>
      BY <1>1 DEF Update, Put, GoTo, broker
    <2>2. /\ leg \in [Legs -> LegStates] /\ mismatch \in [Legs -> BOOLEAN]
          /\ dec # "approved" /\ leg[cur] # "filled"
      BY <1>1 DEF RunInv, SendInv, TypeOK, Approval, CanUpdateLeg, LegTerminal, LegResolutions
    <2>3. /\ leg'[cur] = s /\ mismatch' = mismatch
          /\ \A k \in Legs : k # cur => leg'[k] = leg[k]
      BY <2>1, <2>2
    <2>4. Fresh' /\ Careful
      BY <2>1, <2>2, <2>3 DEF Fresh, Careful, SentInDoubt
    <2>5. Doubts'
      BY <2>1, <2>3 DEF RunInv, Knows, Doubts, Flagged
    <2>6. Passed'
      BY <2>1, <2>2, <2>3 DEF RunInv, Knows, Passed, Freed, Stopped, Opens, Closes
    <2>7. Funds'
      BY <2>1, <2>2, <2>3 DEF RunInv, Knows, Funds, FundedOpens, Opens, Closes
    <2>8. QED
      BY <2>1, <2>4, <2>5, <2>6, <2>7 DEF Learned, Knows, Places, Continue
  <1>2. CASE ~CanUpdateLeg(leg[cur], s)
    BY <1>2, FailClosedLearned DEF Update
  <1>3. QED
    BY <1>1, <1>2

(* A step that moves nothing the run knows of.                                *)
LEMMA StillLearned ==
    ASSUME RunInv, UNCHANGED <<dec, leg, mismatch, placed, mode, cur, todo, flags>>,
           pc' \in {"sending", "recover"} => pc' = pc
    PROVE  Learned
  BY DEF RunInv, Places, Learned, Knows, Fresh, Doubts, Flagged, Passed, Freed, Stopped, Funds, FundedOpens, Funded,
         Careful, SentInDoubt, Opens, Closes

(* An open that was settled has told the run.                                  *)
LEMMA SettleOpenLearned ==
    ASSUME RunInv, pc \notin {"idle", "reconcile"}, cur \in Opens, NEW status,
           SettleOpenAs(cur, status)
    PROVE  Learned
  <1> USE LegVocabulary DEF InFlight
  <1>0. cur \in Legs /\ cur \notin Closes
    BY DEF Opens, Closes
  <1>1. CASE Settle(cur, "unknown", {"unknown"}, status # "none", FALSE)
    <2>1. Tells(cur, "unknown", {"unknown"}, FALSE)
      BY <1>0 DEF Tells, Flagged
    <2>2. QED
      BY <1>0, <1>1, <2>1, SettleLearned
  <1>2. ASSUME NEW bad \in BOOLEAN, NEW s \in {"filled", "partially_filled"}, NEW new,
               Settle(cur, s, new \cup IF bad THEN {"blocked"} ELSE {}, TRUE, bad)
        PROVE  Learned
    <2>1. Tells(cur, s, new \cup IF bad THEN {"blocked"} ELSE {}, bad)
      BY <1>0 DEF Tells
    <2>2. QED
      BY <1>0, <1>2, <2>1, SettleLearned
  <1>3. ASSUME NEW s \in {"rejected", "rejected_partial"}, NEW new, Settle(cur, s, new, TRUE, FALSE)
        PROVE  Learned
    <2>1. Tells(cur, s, new, FALSE)
      BY <1>0 DEF Tells
    <2>2. QED
      BY <1>0, <1>3, <2>1, SettleLearned
  <1>4. ASSUME NEW bad \in BOOLEAN,
               \/ Settle(cur, "filled", IF bad THEN {"blocked"} ELSE {}, TRUE, bad)
               \/ Settle(cur, "partially_filled", {"partial"} \cup IF bad THEN {"blocked"} ELSE {}, TRUE, bad)
        PROVE  Learned
    <2>1. (IF bad THEN {"blocked"} ELSE {}) = {} \cup IF bad THEN {"blocked"} ELSE {}
      OBVIOUS
    <2>2. QED
      BY <1>2, <1>4, <2>1
  <1>5. QED
    BY <1>1, <1>3, <1>4 DEF SettleOpenAs

(* A leg left to wait for its market stops the opens if it is a close.          *)
LEMMA WaitLearned ==
    ASSUME RunInv, pc \notin {"idle", "reconcile"}, cur \in Legs, Wait(cur)
    PROVE  Learned
  <1> DEFINE new == {"waiting"} \cup (IF cur \in Opens THEN StopAfter(cur) ELSE {"stop_opens"})
  <1>1. Tells(cur, "waiting_for_market", new, FALSE)
    BY DEF Tells, Stopped, Opens, Closes
  <1>2. "waiting_for_market" \in LegStates \ (InFlight \cup {"planned"})
    BY LegVocabulary DEF InFlight
  <1>3. Settle(cur, "waiting_for_market", new, TRUE, FALSE)
    BY DEF Wait
  <1> HIDE DEF new
  <1>4. QED
    BY <1>1, <1>2, <1>3, SettleLearned

-----------------------------------------------------------------------------
(* The steps of a run                                                       *)

(* A run that takes a leg whose turn it is: the doubts behind it are none that   *)
(* forbid it, and an open follows the closes it must not outrun.              *)
LEMMA SubmitLearned ==
    ASSUME RunInv, NEW l \in Legs, Submit(l)
    PROVE  Learned
  <1>1. /\ pc = "next" /\ mode = "execute" /\ cur = NoLeg /\ l \in todo /\ First(l)
        /\ flags \cap {"unknown", "blocked"} = {}
        /\ l \in Opens => "refreshed" \in flags /\ ~OpenStopped(l)
        /\ dec # "approved"
    BY DEF Submit, Ready, Turn, Halted, First, RunInv, SendInv, Process, Approval
  <1>2. /\ leg \in [Legs -> LegStates] /\ mismatch \in [Legs -> BOOLEAN] /\ todo \subseteq Legs
    BY DEF RunInv, SendInv, TypeOK
  <1>3. ASSUME NEW m \in Legs
        PROVE  /\ ~mismatch[m]
               /\ leg[m] \notin InFlight
               /\ leg[m] = "unknown" => m \in Targets /\ Swing[m] /\ "stop_swing" \in flags
    BY <1>1, LegsAssumption DEF RunInv, Knows, Doubts, Flagged
  <1>4. l \in Opens => Funded(l)
    <2> SUFFICES ASSUME l \in Opens, NEW c \in Closes, Swing[c] => Swing[l] PROVE leg[c] = "filled"
      BY DEF Funded
    <2>1. c \notin todo
      <3>1. Phase(c) = 1 /\ Phase(l) \in {3, 4} /\ c # l
        BY DEF Phase, Opens, Closes
      <3>2. ~Precedes(l, c)
        BY <3>1 DEF Precedes
      <3>3. QED
        BY <1>1, <3>1, <3>2 DEF First
    <2>2. Freed(c) /\ c \in Legs
      BY <1>1, <2>1 DEF RunInv, Knows, Passed, Closes
    <2>3. ~Stopped(c, flags)
      BY <1>1 DEF Stopped, OpenStopped
    <2>4. QED
      BY <1>1, <2>2, <2>3 DEF Freed
  <1>5. CASE CanUpdateLeg(leg[l], "submitting")
    <2>1. /\ leg' = [leg EXCEPT ![l] = "submitting"]
          /\ mismatch' = [mismatch EXCEPT ![l] = mismatch[l] \/ FALSE]
          /\ pc' = "sending" /\ cur' = l /\ UNCHANGED <<dec, placed, mode, flags, todo>>
      BY <1>5 DEF Submit, Update, Put, broker
    <2>2. /\ leg'[l] = "submitting" /\ mismatch' = mismatch /\ leg[l] # "filled"
          /\ \A k \in Legs : k # l => leg'[k] = leg[k]
      BY <1>2, <1>5, <2>1 DEF CanUpdateLeg, LegTerminal, LegResolutions
    <2>3. Careful
      <3> SUFFICES ASSUME NEW k \in Legs, SentInDoubt(k) PROVE FALSE
        BY DEF Careful
      <3>1. k = l
        BY <2>2 DEF SentInDoubt
      <3>2. PICK m \in Legs :
              \/ leg[m] \in InFlight \/ mismatch[m]
              \/ leg[m] = "unknown" /\ ~(m \in Targets /\ Swing[m] /\ ~(l \in Opens /\ Swing[l]))
        BY <3>1 DEF SentInDoubt, InFlight
      <3>3. leg[m] \notin InFlight /\ ~mismatch[m]
        BY <1>3
      <3>4. m \in Targets /\ Swing[m] /\ "stop_swing" \in flags
        BY <1>3, <3>2, <3>3
      <3>5. l \in Opens /\ Swing[l]
        BY <3>2, <3>3, <3>4
      <3>6. QED
        BY <1>1, <3>4, <3>5 DEF OpenStopped
    <2>4. Fresh'
      BY <1>1, <2>1 DEF Fresh
    <2>5. Doubts'
      <3> SUFFICES ASSUME NEW k \in Legs
                   PROVE  /\ k # cur' => leg'[k] \notin InFlight
                          /\ leg'[k] = "unknown" => Flagged(k, flags')
                          /\ ~mismatch'[k]
        BY DEF Doubts, Flagged
      <3>1. ~mismatch'[k] /\ (k # cur' => leg'[k] \notin InFlight)
        BY <1>3, <2>1, <2>2
      <3>2. leg'[k] = "unknown" => Flagged(k, flags')
        BY <1>3, <2>1, <2>2 DEF Flagged
      <3>3. QED
        BY <3>1, <3>2
    <2>6. Passed'
      BY <1>1, <2>1, <2>2 DEF RunInv, Knows, Passed, Freed, Stopped, Opens, Closes
    <2>7. Funds'
      <3>1. FundedOpens'
        BY <2>1, <2>2 DEF RunInv, Knows, Funds, FundedOpens, Opens, Closes
      <3>2. cur' \in Opens => Funded(cur)'
        BY <1>4, <2>1, <2>2 DEF Funded, Opens, Closes
      <3>3. QED
        BY <3>1, <3>2 DEF Funds, Opens
    <2>8. QED
      BY <2>1, <2>3, <2>4, <2>5, <2>6, <2>7 DEF Learned, Knows, Places
  <1>6. CASE ~CanUpdateLeg(leg[l], "submitting")
    BY <1>1, <1>6, FailClosedLearned DEF Submit, Update
  <1>7. QED
    BY <1>5, <1>6

(* A run begins with no doubt: nothing was sent, and what it drops takes along  *)
(* the opens that must not outrun it.                                         *)
LEMMA BeginLearned ==
    ASSUME RunInv, NEW D \in SUBSET Legs, Begin(D)
    PROVE  Learned
  <1>1. /\ mode' = "execute" /\ pc' = "next" /\ todo' = Legs \ D /\ dec' = "executing" /\ cur' = cur
        /\ mismatch' = mismatch /\ placed' = placed /\ DropClosed(D)
        /\ \A l \in Legs : leg'[l] \in {"planned", "skipped"}
    BY DEF Begin, broker, RunInv, SendInv, Approval
  <1>2. \A l \in Legs : ~mismatch[l] /\ placed[l] = 0
    BY DEF Begin, RunInv, Knows, Fresh, SendInv, Approval, Sends
  <1>3. Fresh' /\ Careful
    BY <1>1 DEF Fresh, Careful, SentInDoubt
  <1>4. Doubts'
    BY <1>1, <1>2 DEF Doubts, InFlight
  <1>5. Passed'
    <2> SUFFICES ASSUME NEW c \in Closes \ todo', NEW m \in todo' \cap Opens
                 PROVE  Swing[c] /\ ~Swing[m]
      BY DEF Passed, Freed
    <2>1. c \in D /\ c \notin Opens /\ m \in Opens \ D
      BY <1>1 DEF Opens, Closes
    <2>2. Swing[c]
      BY <1>1, <2>1 DEF DropClosed
    <2>3. ~Swing[m]
      BY <1>1, <2>1, <2>2 DEF DropClosed
    <2>4. QED
      BY <2>2, <2>3
  <1>6. Funds'
    BY <1>1, <1>2 DEF Funds, FundedOpens, Opens
  <1>7. QED
    BY <1>1, <1>3, <1>4, <1>5, <1>6 DEF Learned, Knows, Places

(* An order of an open leaves only where its closes have filled.               *)
LEMMA SendLearned ==
    ASSUME RunInv, Accepted \/ Ambiguous
    PROVE  Learned
  <1>1. /\ pc = "sending" /\ pc' \notin {"sending", "recover"}
        /\ UNCHANGED <<dec, leg, mismatch, mode, cur, todo, flags>>
        /\ \A m \in Legs : m # cur => placed'[m] = placed[m]
    BY DEF Accepted, Ambiguous, Deliver, Sent, ledger, broker, RunInv, SendInv, TypeOK
  <1>2. FundedOpens'
    BY <1>1 DEF FundedOpens, RunInv, Knows, Funds, Funded, Opens, Closes
  <1>3. QED
    BY <1>1, <1>2 DEF RunInv, Learned, Knows, Fresh, Doubts, Flagged, Passed, Freed, Stopped, Funds, Places, Careful,
       SentInDoubt, Opens, Closes

(* Asked again after a 429: the leg is still at hand.                          *)
LEMMA RetryLearned ==
    ASSUME RunInv, TooManyRequests
    PROVE  Learned
  <1>1. pc = "sending" /\ leg[cur] = "submitting" /\ cur \in Legs
    BY DEF TooManyRequests, RunInv, SendInv, Process, AtALeg
  <1>2. CASE CanUpdateLeg(leg[cur], "submitting")
    <2>1. /\ leg' = [leg EXCEPT ![cur] = "submitting"]
          /\ mismatch' = [mismatch EXCEPT ![cur] = mismatch[cur] \/ FALSE]
          /\ UNCHANGED <<dec, placed, mode, pc, cur, todo, flags>>
      BY <1>2 DEF TooManyRequests, Update, Put, broker
    <2>2. leg' = leg /\ mismatch' = mismatch
      BY <1>1, <2>1 DEF RunInv, SendInv, TypeOK
    <2>3. QED
      BY <2>1, <2>2, StillLearned
  <1>3. CASE ~CanUpdateLeg(leg[cur], "submitting")
    BY <1>1, <1>3, FailClosedLearned DEF TooManyRequests, Update
  <1>4. QED
    BY <1>2, <1>3

(* The steps of an execution tell the run what they leave open.                *)
LEMMA ExecuteLearned ==
    ASSUME RunInv, ExecuteStep
    PROVE  Learned
  <1> USE LegVocabulary DEF InFlight
  <1>1. CASE SendingOver
    BY <1>1, StillLearned DEF SendingOver, Only, GoTo, ledger, broker
  <1>2. ASSUME NEW l \in Legs, RefreshEquity(l) PROVE Learned
    <2>1. /\ flags \subseteq flags' /\ pc' = pc
          /\ UNCHANGED <<dec, leg, mismatch, placed, mode, cur, todo>>
      BY <1>2 DEF RefreshEquity, Only, ledger, broker
    <2>2. QED
      BY <2>1 DEF RunInv, Learned, Knows, Fresh, Doubts, Flagged, Passed, Freed, Stopped, Funds, Places, FundedOpens,
         Funded, Careful, SentInDoubt, Opens, Closes
  <1>3. ASSUME NEW l \in Legs, LeavePlanned(l) PROVE Learned
    <2>1. /\ l \in Opens /\ todo' = todo \ {l} /\ pc' = pc
          /\ UNCHANGED <<dec, leg, mismatch, placed, mode, cur, flags>>
      BY <1>3 DEF LeavePlanned, Only, ledger, broker
    <2>2. Passed'
      BY <2>1 DEF RunInv, Knows, Passed, Freed, Stopped, Opens, Closes
    <2>3. QED
      BY <2>1, <2>2 DEF RunInv, Learned, Knows, Fresh, Doubts, Flagged, Funds, Places, FundedOpens, Funded, Careful,
         SentInDoubt, Opens, Closes
  <1>4. ASSUME NEW l \in Legs, SkipLeg(l) PROVE Learned
    <2>1. PICK new \in {{}, StopIfTrade(l)} :
            /\ l \in Closes => new # {}
            /\ Settle(l, "skipped", {"partial"} \cup new, FALSE, FALSE)
      BY <1>4 DEF SkipLeg
    <2>2. pc = "next" /\ cur = NoLeg
      BY <1>4 DEF SkipLeg, Ready, Turn, RunInv, SendInv, Process
    <2>3. Tells(l, "skipped", {"partial"} \cup new, FALSE)
      BY <2>1 DEF Tells, Stopped, StopIfTrade, StopAfter
    <2>4. QED
      BY <2>1, <2>2, <2>3, SettleLearned
  <1>5. ASSUME NEW l \in Legs, TargetAlreadySet(l) PROVE Learned
    <2>1. pc = "next" /\ cur = NoLeg /\ Settle(l, "filled", {}, FALSE, FALSE)
      BY <1>5 DEF TargetAlreadySet, Ready, Turn, RunInv, SendInv, Process
    <2>2. Tells(l, "filled", {}, FALSE)
      BY DEF Tells
    <2>3. QED
      BY <2>1, <2>2, SettleLearned
  <1>6. CASE Refused
    <2>1. /\ pc = "sending" /\ cur \in Legs
          /\ Settle(cur, "rejected", {"partial"} \cup StopIfTrade(cur), FALSE, FALSE)
      BY <1>6 DEF Refused, RunInv, SendInv, Process, AtALeg
    <2>2. Tells(cur, "rejected", {"partial"} \cup StopIfTrade(cur), FALSE)
      BY DEF Tells, Stopped, StopIfTrade, StopAfter
    <2>3. QED
      BY <2>1, <2>2, SettleLearned
  <1>7. CASE PersistSubmitted
    <2> DEFINE flow == GoTo("poll") /\ UNCHANGED seen
    <2>1. PICK known \in BOOLEAN : Update(cur, "submitted", known, FALSE, flow)
      BY <1>7 DEF PersistSubmitted
    <2>2. pc = "accepted" /\ cur \in Legs /\ (flow => GoTo("poll"))
      BY <1>7 DEF PersistSubmitted, RunInv, SendInv, Process, AtALeg
    <2> HIDE DEF flow
    <2>3. QED
      BY <2>1, <2>2, UpdateLearned
  <1>8. QED
    BY <1>1, <1>2, <1>3, <1>4, <1>5, <1>6, <1>7, BeginLearned, SubmitLearned, RetryLearned, SendLearned
       DEF ExecuteStep

(* What the run finds out of an order it is told.                              *)
LEMMA OutcomeLearned ==
    ASSUME RunInv, OutcomeStep
    PROVE  Learned
  <1> USE LegVocabulary DEF InFlight
  <1>0. pc \in {"find", "poll", "recheck", "pending_close"} => cur \in Legs
    BY DEF RunInv, SendInv, Process, AtALeg
  <1>2. CASE FoundOpen \/ LookOpen
    <2> DEFINE flow == GoTo("poll") /\ seen' = order[cur]
    <2>1. /\ pc \in {"find", "poll"}
          /\ \/ Update(cur, "submitted", TRUE, FALSE, flow)
             \/ Update(cur, "in_flight", FALSE, FALSE, flow)
             \/ Only(flow)
      BY <1>2 DEF FoundOpen, LookOpen
    <2>2. flow => GoTo("poll")
      OBVIOUS
    <2>3. CASE Only(flow)
      BY <2>3, StillLearned DEF Only, GoTo, ledger, broker
    <2> HIDE DEF flow
    <2>4. CASE ~Only(flow)
      BY <1>0, <2>1, <2>2, <2>4, UpdateLearned
    <2>5. QED
      BY <2>3, <2>4
  <1>3. CASE OpenNotFound
    <2>1. pc = "find" /\ cur \notin Closes
      BY <1>3 DEF OpenNotFound, RunInv, SendInv, Process, Opens, Closes
    <2>2. CASE Settle(cur, "unknown", {"unknown"}, FALSE, FALSE)
      <3>1. Tells(cur, "unknown", {"unknown"}, FALSE)
        BY <2>1 DEF Tells, Flagged
      <3>2. QED
        BY <1>0, <2>1, <2>2, <3>1, SettleLearned
    <2>3. CASE Settle(cur, "skipped", {"partial"}, FALSE, FALSE)
      <3>1. Tells(cur, "skipped", {"partial"}, FALSE)
        BY <2>1 DEF Tells
      <3>2. QED
        BY <1>0, <2>1, <2>3, <3>1, SettleLearned
    <2>4. QED
      BY <1>3, <2>2, <2>3 DEF OpenNotFound
  <1>4. CASE SettleOpen
    BY <1>0, <1>4, SettleOpenLearned, WaitLearned DEF SettleOpen
  <1>5. CASE Cancel
    BY <1>5, StillLearned DEF Cancel, Sent, ledger
  <1>6. CASE Recheck
    <2>1. cur \in Opens
      BY <1>6 DEF Recheck, RunInv, SendInv, Process
    <2>2. QED
      BY <1>0, <1>6, <2>1, SettleOpenLearned, WaitLearned DEF Recheck
  <1>7. CASE LookClose \/ AskPendingClose
    BY <1>7, StillLearned DEF LookClose, AskPendingClose, Only, GoTo, ledger, broker
  <1>8. CASE SettleClose
    <2>0. pc = "poll"
      BY <1>8 DEF SettleClose
    <2>1. CASE Settle(cur, "filled", {}, FALSE, FALSE)
      <3>1. Tells(cur, "filled", {}, FALSE)
        BY DEF Tells
      <3>2. QED
        BY <1>0, <2>0, <2>1, <3>1, SettleLearned
    <2>2. CASE Settle(cur, "rejected", {"partial"} \cup StopAfter(cur), FALSE, FALSE)
      <3>1. Tells(cur, "rejected", {"partial"} \cup StopAfter(cur), FALSE)
        BY DEF Tells, Stopped, StopAfter
      <3>2. QED
        BY <1>0, <2>0, <2>2, <3>1, SettleLearned
    <2>3. CASE Wait(cur)
      BY <1>0, <2>0, <2>3, WaitLearned
    <2>4. CASE Settle(cur, "unknown", {"unknown"}, FALSE, FALSE)
      <3>1. Tells(cur, "unknown", {"unknown"}, FALSE)
        BY DEF Tells, Flagged, Stopped
      <3>2. QED
        BY <1>0, <2>0, <2>4, <3>1, SettleLearned
    <2>5. QED
      BY <1>8, <2>1, <2>2, <2>3, <2>4 DEF SettleClose, CloseUnknown
  <1>9. CASE PendingClose
    <2>0. pc = "pending_close"
      BY <1>9 DEF PendingClose
    <2>1. CASE Settle(cur, "skipped", {"partial", "stop_opens"}, FALSE, FALSE)
      <3>1. Tells(cur, "skipped", {"partial", "stop_opens"}, FALSE)
        BY DEF Tells, Stopped
      <3>2. QED
        BY <1>0, <2>0, <2>1, <3>1, SettleLearned
    <2>2. CASE Settle(cur, "unknown", {"unknown"}, FALSE, FALSE)
      <3>1. Tells(cur, "unknown", {"unknown"}, FALSE)
        BY DEF Tells, Flagged, Stopped
      <3>2. QED
        BY <1>0, <2>0, <2>2, <3>1, SettleLearned
    <2>3. QED
      BY <1>9, <2>1, <2>2 DEF PendingClose, CloseUnknown
  <1>10. CASE SettlePatch
    <2>0. pc = "poll" /\ cur \notin Closes
      BY <1>10 DEF SettlePatch
    <2>1. CASE Settle(cur, "unknown", PatchUnknown(cur), FALSE, FALSE)
      <3>1. Tells(cur, "unknown", PatchUnknown(cur), FALSE)
        BY <2>0 DEF Tells, Flagged, PatchUnknown
      <3>2. QED
        BY <1>0, <2>0, <2>1, <3>1, SettleLearned
    <2>2. CASE Settle(cur, "filled", {}, FALSE, FALSE)
      <3>1. Tells(cur, "filled", {}, FALSE)
        BY DEF Tells
      <3>2. QED
        BY <1>0, <2>0, <2>2, <3>1, SettleLearned
    <2>3. CASE Settle(cur, "skipped", {"partial"}, FALSE, FALSE)
      <3>1. Tells(cur, "skipped", {"partial"}, FALSE)
        BY <2>0 DEF Tells
      <3>2. QED
        BY <1>0, <2>0, <2>3, <3>1, SettleLearned
    <2>4. QED
      BY <1>10, <2>1, <2>2, <2>3 DEF SettlePatch
  <1>11. QED
    BY <1>2, <1>3, <1>4, <1>5, <1>6, <1>7, <1>8, <1>9, <1>10 DEF OutcomeStep

(* Recovery, the end of a run, crashes and the broker send nothing.            *)
LEMMA RestLearned ==
    ASSUME RunInv, Next, ~ExecuteStep, ~OutcomeStep
    PROVE  Learned
  <1>1. ASSUME UNCHANGED <<dec, leg, mismatch, placed>>, mode' # "execute", pc' # "sending" PROVE Learned
    BY <1>1 DEF RunInv, Learned, Knows, Fresh, Doubts, Passed, Funds, Places, FundedOpens, Careful, SentInDoubt, Opens,
       Closes
  <1>2. ASSUME NEW l \in Legs, Recover(l) PROVE Learned
    BY <1>1, <1>2 DEF Recover, Only, ledger, broker, RunInv, Knows, Places
  <1>3. CASE RecoveryOver
    BY <1>3, StillLearned DEF RecoveryOver, Only, GoTo, ledger, broker
  <1>4. CASE SkipPlanned
    <2>1. /\ \A l \in Legs : leg'[l] = IF leg[l] = "planned" THEN "skipped" ELSE leg[l]
          /\ flags \subseteq flags' /\ pc' = "reconcile" /\ dec # "approved"
          /\ UNCHANGED <<dec, mismatch, placed, mode, cur, todo>>
      BY <1>4 DEF SkipPlanned, broker, RunInv, SendInv, Approval
    <2>2. Doubts'
      BY <2>1 DEF RunInv, Knows, Doubts, Flagged, InFlight
    <2>3. Passed'
      BY <2>1 DEF RunInv, Knows, Passed, Freed, Stopped, Opens, Closes
    <2>4. FundedOpens'
      BY <2>1 DEF RunInv, Knows, Funds, FundedOpens, Opens, Closes
    <2>5. QED
      BY <2>1, <2>2, <2>3, <2>4 DEF Learned, Knows, Fresh, Funds, Places, Careful, SentInDoubt
  <1>5. CASE Conclude
    <2>1. /\ mode' = "none" /\ pc' = "idle" /\ UNCHANGED <<leg, mismatch, placed>>
          /\ dec' = "approved" => dec = "approved"
      BY <1>5 DEF Conclude, Stop, FinalState, broker
    <2>2. QED
      BY <2>1 DEF RunInv, Learned, Knows, Fresh, Doubts, Passed, Funds, Places, FundedOpens, Careful, SentInDoubt, Opens,
         Closes
  <1>6. CASE ResumeRead \/ ResumeLocked
    BY <1>6, StillLearned DEF ResumeRead, ResumeLocked, ledger, broker, process
  <1>7. CASE ResumeStart \/ Crash
    BY <1>1, <1>7 DEF ResumeStart, Crash, Stop, ledger, broker
  <1>8. CASE Fault
    BY <1>8, FailClosedLearned DEF Fault
  <1>9. ASSUME NEW l \in Legs, BrokerMoves(l) PROVE Learned
    BY <1>9, StillLearned DEF BrokerMoves, ledger, process
  <1>10. QED
    BY <1>2, <1>3, <1>4, <1>5, <1>6, <1>7, <1>8, <1>9 DEF Next, RecoverStep, FinishStep

(* Every step keeps what the run knows, and sends nothing in doubt.            *)
LEMMA RunInvStep == RunInv /\ [Next]_vars => RunInv' /\ Careful
  <1> SUFFICES ASSUME RunInv, [Next]_vars PROVE RunInv' /\ Careful
    OBVIOUS
  <1>1. SendInv'
    BY SendInvStep DEF RunInv
  <1>2. Learned
    <2>1. CASE UNCHANGED vars
      BY <2>1, StillLearned DEF vars, ledger, broker, process
    <2>2. CASE Next
      BY <2>2, ExecuteLearned, OutcomeLearned, RestLearned
    <2>3. QED
      BY <2>1, <2>2
  <1>3. QED
    BY <1>1, <1>2 DEF RunInv, Learned

(* Nothing is known, and nothing in doubt, before the run.                     *)
LEMMA RunInvInit == Init => RunInv
  <1> SUFFICES ASSUME Init PROVE RunInv
    OBVIOUS
  <1>1. Knows
    BY DEF Init, Knows, Fresh, Doubts, Passed, Funds, Places, FundedOpens, Opens
  <1>2. QED
    BY <1>1, SendInvInit DEF RunInv

(* For every plan an open is on the market only after every close it must not  *)
(* outrun filled, whatever is dropped, rejected, held, crashed or resumed       *)
(* (run.stop_opens and run.stop_swing of _run_opens).                          *)
THEOREM OpensFunded == Spec => []FundedOpens
  <1>1. RunInv => FundedOpens
    BY DEF RunInv, Knows, Funds
  <1>2. QED
    BY <1>1, RunInvInit, RunInvStep, PTL DEF Spec

(* For every plan a leg is sent only when every earlier one is settled and      *)
(* within tolerance; a swing take-profit in doubt stops the swing opens only   *)
(* (run.unknown, run.blocked, _tp_unknown).                                    *)
THEOREM NeverInDoubt == Spec => NothingSentInDoubt
  <1>1. RunInv /\ [Next]_vars => [\A l \in Legs : ~SentInDoubt(l)]_vars
    BY RunInvStep DEF Careful
  <1>2. QED
    BY <1>1, RunInvInit, RunInvStep, PTL DEF Spec, NothingSentInDoubt

-----------------------------------------------------------------------------
(* What the end of a run may say.  Its flags tell of every leg behind it how it *)
(* ended; a resume whose rows are true knows what it skips; and once a decision *)
(* is complete, or holds the satellite alone, no leg moves any more.           *)

Hands == {"sending", "accepted", "find", "poll", "recheck", "pending_close"}

(* Where a run stands.                                                        *)
Course ==
    /\ pc = "idle" <=> mode = "none"
    /\ mode = "execute" => dec = "executing"
    /\ dec \in {"approved", "executing"} => scope = "all"
    /\ pending => mode # "resume"
    /\ pc \in {"recover", "pending_close"} => mode = "resume"
    /\ pc \in Hands => cur \in todo
    /\ mode = "execute" /\ pc \in Hands => leg[cur] \in InFlight
    /\ pc \in {"finish", "reconcile"} => cur = NoLeg
    /\ mode = "resume" /\ pc = "finish" => todo = {}

(* What a leg that ends in state s has to leave in the flags.                  *)
Resolves(s, f) ==
    /\ s \in LegActive => f \cap {"unknown", "swing_unknown"} # {}
    /\ s = "waiting_for_market" => "waiting" \in f
    /\ s \in LegTerminal \ {"filled"} => "partial" \in f

(* What a run and its ledger know as long as no resume ran on outdated rows.    *)
RunTells ==
    /\ pc # "idle" => \A l \in Legs \ todo : Resolves(leg[l], flags)
    /\ mode = "resume" => \A l \in todo \ {cur} : rows.leg[l] = leg[l]
    /\ pc \in Hands => leg[cur] \in LegActive
    /\ pc = "reconcile" => \A l \in Legs : leg[l] # "planned" /\ Resolves(leg[l], flags)

OnlyStockWaits == scope = "satellite" => \A l \in Unresolved : leg[l] = "waiting_for_market" /\ Stock[l]

Truth == ~stale => RunTells /\ FinalMeansResolved /\ OnlyStockWaits

Exact == Course /\ Truth /\ CoreStoppedByCoreOrHeldClose
ExactInv == SendInv /\ Exact

(* A decision that is over, or holds the satellite, has no leg that can move.   *)
LEMMA NothingMoves ==
    ASSUME ExactInv, ~stale, NEW l \in Legs, leg[l] \in LegActive \cup {"planned"}
    PROVE  dec \notin {"completed", "completed_partial"} /\ scope # "satellite"
  BY DEF ExactInv, Exact, Truth, FinalMeansResolved, OnlyStockWaits, Unresolved, UnresolvedLegs, SendInv, TypeOK,
     LegActive

(* A run that fails closed only takes legs in flight to doubt.                 *)
LEMMA FailClosedExact ==
    ASSUME ExactInv, NEW cause, FailClosed(cause)
    PROVE  Exact'
  <1>1. /\ mode' = "none" /\ pc' = "idle" /\ stale' = stale /\ scope' = scope /\ pending' = pending
        /\ dec' \in {dec, "execution_unknown"}
        /\ leg' = [l \in Legs |-> IF leg[l] \in InFlight THEN "unknown" ELSE leg[l]]
    BY DEF FailClosed, Stop, InFlight
  <1>2. Course'
    BY <1>1 DEF ExactInv, Exact, Course, Hands
  <1>3. Truth'
    <2> SUFFICES ASSUME ~stale PROVE (RunTells /\ FinalMeansResolved /\ OnlyStockWaits)'
      BY <1>1 DEF Truth
    <2>1. RunTells'
      BY <1>1 DEF RunTells, Hands
    <2>2. CASE \E l \in Legs : leg[l] \in InFlight
      <3>1. dec \notin {"completed", "completed_partial"} /\ scope # "satellite"
        BY <2>2, NothingMoves DEF InFlight, LegActive
      <3>2. QED
        BY <1>1, <2>1, <3>1 DEF FinalMeansResolved, OnlyStockWaits
    <2>3. CASE \A l \in Legs : leg[l] \notin InFlight
      <3>1. leg' = leg
        BY <1>1, <2>3 DEF ExactInv, SendInv, TypeOK
      <3>2. QED
        BY <1>1, <2>1, <3>1 DEF ExactInv, Exact, Truth, FinalMeansResolved, OnlyStockWaits, Unresolved
    <2>4. QED
      BY <2>2, <2>3
  <1>4. CoreStoppedByCoreOrHeldClose'
    BY <1>1 DEF CoreStoppedByCoreOrHeldClose, CoreStoppedByCore
  <1>5. QED
    BY <1>2, <1>3, <1>4 DEF Exact

(* Which end of a leg may stop the core opens.                                 *)
StopsCore(l, s, new) ==
    mode = "execute" /\ "stop_opens" \in new =>
        \/ l \in Opens \cup Closes /\ ~Swing[l] /\ s \in LegStates \ (InFlight \cup {"planned", "filled"})
        \/ l \in Closes /\ s = "waiting_for_market"

(* A core leg that stopped the opens still does when another leg moves.         *)
LEMMA StaysShort ==
    ASSUME ExactInv, NEW l \in Legs, mode = "execute" => leg[l] \in InFlight \cup {"planned"},
           \A k \in Legs : k # l => leg'[k] = leg[k],
           mode' = mode, flags \subseteq flags',
           mode = "execute" /\ "stop_opens" \in flags' => "stop_opens" \in flags
    PROVE  CoreStoppedByCoreOrHeldClose'
  BY DEF ExactInv, Exact, CoreStoppedByCoreOrHeldClose, CoreStoppedByCore, Short, InFlight, Opens, Closes

(* The end of a leg, the one at hand or one that is not sent.                  *)
LEMMA SettleExact ==
    ASSUME ExactInv, NEW l \in Legs, (cur = l /\ pc \in Hands) \/ (pc = "next" /\ l \in todo),
           NEW s \in LegStates, NEW new, NEW known, NEW bad,
           Resolves(s, new), StopsCore(l, s, new),
           Settle(l, s, new, known, bad)
    PROVE  Exact'
  <1>1. CASE CanUpdateLeg(leg[l], s)
    <2>1. /\ leg' = [leg EXCEPT ![l] = s] /\ flags' = flags \cup new /\ todo' = todo \ {l}
          /\ pc' = Continue /\ cur' = NoLeg
          /\ UNCHANGED <<dec, scope, mode, rows, pending, stale>>
      BY <1>1 DEF Settle, Update, Put, broker
    <2>2. leg \in [Legs -> LegStates] /\ mode \in {"none", "execute", "resume"} /\ l \in todo
      BY DEF ExactInv, Exact, Course, SendInv, TypeOK
    <2>3. leg'[l] = s /\ \A k \in Legs : k # l => leg'[k] = leg[k]
      BY <2>1, <2>2
    <2>4. mode # "none" /\ (mode = "execute" => leg[l] \in InFlight \cup {"planned"})
      BY LegsAssumption DEF ExactInv, Exact, Course, SendInv, Process, Unvisited, Hands
    <2>5. pc = "next" => mode = "execute" /\ cur = NoLeg /\ leg[l] = "planned"
      BY LegsAssumption DEF ExactInv, SendInv, Process, Unvisited
    <2>6. Course'
      BY <2>1, <2>2, <2>4 DEF ExactInv, Exact, Course, Hands, Continue
    <2>7. Truth'
      <3> SUFFICES ASSUME ~stale PROVE (RunTells /\ FinalMeansResolved /\ OnlyStockWaits)'
        BY <2>1 DEF Truth
      <3>1. RunTells /\ leg[l] \in LegActive \cup {"planned"}
        BY <2>5 DEF ExactInv, Exact, Truth, RunTells
      <3>2. dec \notin {"completed", "completed_partial"} /\ scope # "satellite"
        BY <3>1, NothingMoves
      <3>3. \A k \in Legs \ todo' : Resolves(leg'[k], flags')
        <4>1. \A k \in Legs \ todo : Resolves(leg[k], flags)
          BY <3>1, <2>4 DEF RunTells, ExactInv, Exact, Course
        <4>2. QED
          BY <2>1, <2>3, <4>1 DEF Resolves
      <3>4. mode = "resume" => \A k \in todo' \ {cur'} : rows'.leg[k] = leg'[k]
        <4>1. todo \subseteq Legs
          BY DEF ExactInv, SendInv, TypeOK
        <4>2. QED
          BY <2>1, <2>3, <2>5, <3>1, <4>1 DEF RunTells
      <3>5. RunTells'
        BY <2>1, <3>3, <3>4 DEF RunTells, Hands, Continue
      <3>6. QED
        BY <2>1, <3>2, <3>5 DEF FinalMeansResolved, OnlyStockWaits
    <2>8. CoreStoppedByCoreOrHeldClose'
      <3>1. CASE mode = "execute" /\ "stop_opens" \in new
        BY <2>1, <2>3, <3>1
           DEF StopsCore, CoreStoppedByCoreOrHeldClose, CoreStoppedByCore, Short, InFlight
      <3>2. CASE ~(mode = "execute" /\ "stop_opens" \in new)
        BY <2>1, <2>3, <2>4, <3>2, StaysShort
      <3>3. QED
        BY <3>1, <3>2
    <2>9. QED
      BY <2>6, <2>7, <2>8 DEF Exact
  <1>2. CASE ~CanUpdateLeg(leg[l], s)
    BY <1>2, FailClosedExact DEF Settle, Update
  <1>3. QED
    BY <1>1, <1>2

(* A write to a leg that is at hand, or is taken in hand.                      *)
LEMMA UpdateExact ==
    ASSUME ExactInv, NEW l \in Legs, (cur = l /\ pc \in Hands) \/ (pc = "next" /\ l \in todo),
           NEW s \in InFlight, NEW known, NEW bad, NEW ACTION flow,
           Update(l, s, known, bad, flow),
           flow => pc' \in Hands \ {"pending_close"} /\ cur' = l /\ UNCHANGED <<todo, flags>>
    PROVE  Exact'
  <1>1. CASE CanUpdateLeg(leg[l], s)
    <2>1. /\ leg' = [leg EXCEPT ![l] = s] /\ pc' \in Hands \ {"pending_close"} /\ cur' = l
          /\ UNCHANGED <<dec, scope, mode, rows, pending, stale, todo, flags>>
      BY <1>1 DEF Update, Put, broker
    <2>2. leg \in [Legs -> LegStates] /\ mode \in {"none", "execute", "resume"} /\ l \in todo /\ todo \subseteq Legs
      BY DEF ExactInv, Exact, Course, SendInv, TypeOK
    <2>3. leg'[l] = s /\ \A k \in Legs : k # l => leg'[k] = leg[k]
      BY <2>1, <2>2
    <2>4. mode # "none" /\ (mode = "execute" => leg[l] \in InFlight \cup {"planned"})
      BY LegsAssumption DEF ExactInv, Exact, Course, SendInv, Process, Unvisited, Hands
    <2>5. pc = "next" => mode = "execute" /\ cur = NoLeg /\ leg[l] = "planned"
      BY LegsAssumption DEF ExactInv, SendInv, Process, Unvisited
    <2>6. Course'
      BY <2>1, <2>2, <2>3, <2>4 DEF ExactInv, Exact, Course, Hands
    <2>7. Truth'
      <3> SUFFICES ASSUME ~stale PROVE (RunTells /\ FinalMeansResolved /\ OnlyStockWaits)'
        BY <2>1 DEF Truth
      <3>1. RunTells /\ leg[l] \in LegActive \cup {"planned"}
        BY <2>5 DEF ExactInv, Exact, Truth, RunTells
      <3>2. dec \notin {"completed", "completed_partial"} /\ scope # "satellite"
        BY <3>1, NothingMoves
      <3>3. pc # "idle"
        BY <2>4 DEF ExactInv, Exact, Course
      <3>4. RunTells'
        BY <2>1, <2>2, <2>3, <2>5, <3>1, <3>3 DEF RunTells, Hands, InFlight, LegActive
      <3>5. QED
        BY <2>1, <3>2, <3>4 DEF FinalMeansResolved, OnlyStockWaits
    <2>8. CoreStoppedByCoreOrHeldClose'
      BY <2>1, <2>3, <2>4, StaysShort
    <2>9. QED
      BY <2>6, <2>7, <2>8 DEF Exact
  <1>2. CASE ~CanUpdateLeg(leg[l], s)
    BY <1>2, FailClosedExact DEF Update
  <1>3. QED
    BY <1>1, <1>2

(* A step of the process alone, with the leg in its hand or with none.         *)
LEMMA StillExact ==
    ASSUME ExactInv, UNCHANGED <<dec, scope, leg, mode, todo, flags, rows, pending, stale, cur>>,
           \/ pc' = pc
           \/ pc \in Hands /\ pc' \in Hands /\ (pc' = "pending_close" => mode = "resume")
           \/ pc \in {"next", "recover"} /\ pc' = "finish" /\ (mode = "resume" => todo = {})
    PROVE  Exact'
  <1>1. Course'
    BY DEF ExactInv, Exact, Course, Hands, SendInv, Process
  <1>2. RunTells => RunTells'
    BY DEF RunTells, Hands
  <1>3. Truth'
    BY <1>2 DEF ExactInv, Exact, Truth, FinalMeansResolved, OnlyStockWaits, Unresolved
  <1>4. CoreStoppedByCoreOrHeldClose'
    BY DEF ExactInv, Exact, CoreStoppedByCoreOrHeldClose, CoreStoppedByCore, Short, Opens, Closes
  <1>5. QED
    BY <1>1, <1>3, <1>4 DEF Exact

(* The end of an open, as the broker says of it.                               *)
LEMMA SettleOpenExact ==
    ASSUME ExactInv, pc \in Hands, cur \in Opens, NEW status, SettleOpenAs(cur, status)
    PROVE  Exact'
  <1> USE LegVocabulary DEF Resolves, StopsCore, LegActive, LegTerminal, LegResolutions, InFlight
  <1>0. cur \in Legs
    BY DEF Opens
  <1>1. CASE Settle(cur, "unknown", {"unknown"}, status # "none", FALSE)
    BY <1>0, <1>1, SettleExact
  <1>2. ASSUME NEW bad \in BOOLEAN,
               Settle(cur, "filled", IF bad THEN {"blocked"} ELSE {}, TRUE, bad)
        PROVE  Exact'
    BY <1>0, <1>2, SettleExact
  <1>3. ASSUME NEW bad \in BOOLEAN,
               Settle(cur, "partially_filled", {"partial"} \cup IF bad THEN {"blocked"} ELSE {}, TRUE, bad)
        PROVE  Exact'
    BY <1>0, <1>3, SettleExact
  <1>4. ASSUME NEW s \in {"rejected", "rejected_partial"},
               Settle(cur, s, {"partial"} \cup StopAfter(cur), TRUE, FALSE)
        PROVE  Exact'
    <2> DEFINE new == {"partial"} \cup StopAfter(cur)
    <2>1. Resolves(s, new) /\ StopsCore(cur, s, new)
      BY DEF StopAfter
    <2> HIDE DEF new
    <2>2. Settle(cur, s, new, TRUE, FALSE)
      BY <1>4 DEF new
    <2>3. QED
      BY <1>0, <2>1, <2>2, SettleExact
  <1>5. QED
    BY <1>1, <1>2, <1>3, <1>4 DEF SettleOpenAs

(* A leg left to wait: a close the broker holds stops the core, whatever its book. *)
LEMMA WaitExact ==
    ASSUME ExactInv, pc \in Hands, cur \in Opens \cup Closes, Wait(cur)
    PROVE  Exact'
  <1> DEFINE new == {"waiting"} \cup (IF cur \in Opens THEN StopAfter(cur) ELSE {"stop_opens"})
  <1>1. cur \in Legs /\ "waiting_for_market" \in LegStates \ (InFlight \cup {"planned", "filled"})
    BY LegVocabulary DEF InFlight, Opens, Closes
  <1>2. Resolves("waiting_for_market", new)
    BY DEF Resolves, LegActive, LegTerminal, LegResolutions
  <1>3. StopsCore(cur, "waiting_for_market", new)
    BY <1>1 DEF StopsCore, StopAfter
  <1>4. Settle(cur, "waiting_for_market", new, TRUE, FALSE)
    BY DEF Wait
  <1> HIDE DEF new
  <1>5. QED
    BY <1>1, <1>2, <1>3, <1>4, SettleExact

(* A run begins with what it drops behind it, and tells of it.                 *)
LEMMA BeginExact ==
    ASSUME ExactInv, NEW D \in SUBSET Legs, Begin(D)
    PROVE  Exact'
  <1>1. /\ dec = "approved" /\ dec' = "executing" /\ scope' = scope /\ mode' = "execute" /\ pc' = "next"
        /\ cur' = cur /\ todo' = Legs \ D /\ flags' = IF D = {} THEN {} ELSE {"partial"}
        /\ pending' = pending /\ stale' = stale /\ scope = "all" /\ ~pending
        /\ \A l \in Legs : leg'[l] = IF l \in D THEN "skipped" ELSE "planned"
    BY DEF Begin, ExactInv, Exact, Course, SendInv, Approval
  <1>2. Course'
    BY <1>1 DEF Course, Hands
  <1>3. RunTells'
    BY <1>1 DEF RunTells, Resolves, LegActive, LegTerminal, LegResolutions, Hands
  <1>4. Truth'
    BY <1>1, <1>3 DEF Truth, FinalMeansResolved, OnlyStockWaits
  <1>5. CoreStoppedByCoreOrHeldClose'
    BY <1>1 DEF CoreStoppedByCoreOrHeldClose, CoreStoppedByCore
  <1>6. QED
    BY <1>2, <1>4, <1>5 DEF Exact

(* Asked again after a 429.                                                    *)
LEMMA RetryExact == ASSUME ExactInv, TooManyRequests PROVE Exact'
  <1> DEFINE flow == attempt' = attempt + 1 /\ UNCHANGED <<pc, cur, seen, todo, flags>>
  <1>1. pc = "sending" /\ cur \in Legs /\ Update(cur, "submitting", FALSE, FALSE, flow)
    BY DEF TooManyRequests, ExactInv, SendInv, Process, AtALeg
  <1>2. flow => pc' = pc /\ cur' = cur /\ UNCHANGED <<todo, flags>>
    OBVIOUS
  <1> HIDE DEF flow
  <1>3. QED
    BY <1>1, <1>2, UpdateExact DEF Hands, InFlight

(* The steps of an execution tell the end of a run the truth.                  *)
LEMMA ExecuteExact ==
    ASSUME ExactInv, ExecuteStep
    PROVE  Exact'
  <1> USE LegVocabulary DEF InFlight
  <1>0. pc \in Hands => cur \in Legs
    BY DEF Hands, ExactInv, SendInv, Process, AtALeg
  <1>1. CASE SendingOver
    <2>1. mode = "execute"
      BY <1>1 DEF SendingOver, ExactInv, SendInv, Process
    <2>2. QED
      BY <1>1, <2>1, StillExact DEF SendingOver, Only, GoTo, ledger
  <1>2. ASSUME NEW l \in Legs, RefreshEquity(l) PROVE Exact'
    <2>1. /\ flags \subseteq flags' /\ pc = "next" /\ pc' = pc
          /\ "stop_opens" \in flags' => "stop_opens" \in flags \/ "no_equity" \in flags'
          /\ UNCHANGED <<dec, scope, leg, mode, cur, todo, rows, pending, stale>>
      BY <1>2 DEF RefreshEquity, Turn, Only, ledger
    <2>2. Course' /\ CoreStoppedByCoreOrHeldClose'
      BY <2>1 DEF ExactInv, Exact, Course, Hands, CoreStoppedByCoreOrHeldClose, CoreStoppedByCore, Short, Opens, Closes
    <2>3. Truth'
      BY <2>1 DEF ExactInv, Exact, Truth, RunTells, Resolves, Hands, FinalMeansResolved, OnlyStockWaits, Unresolved
    <2>4. QED
      BY <2>2, <2>3 DEF Exact
  <1>3. ASSUME NEW l \in Legs, LeavePlanned(l) PROVE Exact'
    <2>1. /\ pc = "next" /\ pc' = pc /\ todo' = todo \ {l} /\ l \in todo /\ cur = NoLeg /\ mode = "execute"
          /\ UNCHANGED <<dec, scope, leg, mode, cur, flags, rows, pending, stale>>
      BY <1>3 DEF LeavePlanned, Turn, First, Only, ledger, ExactInv, SendInv, Process
    <2>2. leg[l] = "planned"
      BY <2>1, LegsAssumption DEF ExactInv, SendInv, Unvisited
    <2>3. Course' /\ CoreStoppedByCoreOrHeldClose'
      BY <2>1 DEF ExactInv, Exact, Course, Hands, CoreStoppedByCoreOrHeldClose, CoreStoppedByCore, Short, Opens, Closes
    <2>4. Resolves(leg[l], flags)
      BY <2>2 DEF Resolves, LegActive, LegTerminal, LegResolutions
    <2>5. RunTells => RunTells'
      BY <2>1, <2>4 DEF RunTells, Hands
    <2>6. Truth'
      BY <2>1, <2>5 DEF ExactInv, Exact, Truth, FinalMeansResolved, OnlyStockWaits, Unresolved
    <2>7. QED
      BY <2>3, <2>6 DEF Exact
  <1>4. ASSUME NEW l \in Legs, SkipLeg(l) PROVE Exact'
    <2>1. PICK new \in {{}, StopIfTrade(l)} : Settle(l, "skipped", {"partial"} \cup new, FALSE, FALSE)
      BY <1>4 DEF SkipLeg
    <2>2. pc = "next" /\ l \in todo
      BY <1>4 DEF SkipLeg, Ready, Turn, First
    <2>3. Resolves("skipped", {"partial"} \cup new) /\ StopsCore(l, "skipped", {"partial"} \cup new)
      BY <2>1 DEF Resolves, StopsCore, StopIfTrade, StopAfter, LegActive
    <2>4. QED
      BY <2>1, <2>2, <2>3, SettleExact
  <1>5. ASSUME NEW l \in Legs, TargetAlreadySet(l) PROVE Exact'
    <2>1. pc = "next" /\ l \in todo /\ Settle(l, "filled", {}, FALSE, FALSE)
      BY <1>5 DEF TargetAlreadySet, Ready, Turn, First
    <2>2. Resolves("filled", {}) /\ StopsCore(l, "filled", {})
      BY DEF Resolves, StopsCore, LegActive
    <2>3. QED
      BY <2>1, <2>2, SettleExact
  <1>6. ASSUME NEW l \in Legs, Submit(l) PROVE Exact'
    <2> DEFINE flow == pc' = "sending" /\ cur' = l /\ UNCHANGED <<attempt, seen, todo, flags>>
    <2>1. pc = "next" /\ l \in todo /\ Update(l, "submitting", FALSE, FALSE, flow)
      BY <1>6 DEF Submit, Ready, Turn, First
    <2>2. flow => pc' = "sending" /\ cur' = l /\ UNCHANGED <<todo, flags>>
      OBVIOUS
    <2> HIDE DEF flow
    <2>3. QED
      BY <2>1, <2>2, UpdateExact DEF Hands
  <1>7. CASE Refused
    <2> DEFINE new == {"partial"} \cup StopIfTrade(cur)
    <2>1. pc = "sending" /\ cur \in Legs /\ Settle(cur, "rejected", new, FALSE, FALSE)
      BY <1>0, <1>7 DEF Refused, Hands
    <2>2. Resolves("rejected", new) /\ StopsCore(cur, "rejected", new)
      BY DEF Resolves, StopsCore, StopIfTrade, StopAfter, LegActive
    <2> HIDE DEF new
    <2>3. QED
      BY <2>1, <2>2, SettleExact DEF Hands
  <1>8. CASE Accepted \/ Ambiguous
    BY <1>8, StillExact DEF Accepted, Ambiguous, Sent, ledger, Hands
  <1>9. CASE PersistSubmitted
    <2> DEFINE flow == GoTo("poll") /\ UNCHANGED seen
    <2>1. PICK known \in BOOLEAN : Update(cur, "submitted", known, FALSE, flow)
      BY <1>9 DEF PersistSubmitted
    <2>2. pc = "accepted" /\ cur \in Legs
      BY <1>0, <1>9 DEF PersistSubmitted, Hands
    <2>3. flow => pc' = "poll" /\ cur' = cur /\ UNCHANGED <<todo, flags>>
      BY DEF GoTo
    <2> HIDE DEF flow
    <2>4. QED
      BY <2>1, <2>2, <2>3, UpdateExact DEF Hands
  <1>10. QED
    BY <1>1, <1>2, <1>3, <1>4, <1>5, <1>6, <1>7, <1>8, <1>9, BeginExact, RetryExact DEF ExecuteStep

(* The end of the leg at hand that does not stop the core.                     *)
LEMMA PlainExact ==
    ASSUME ExactInv, pc \in Hands, NEW s \in {"unknown", "skipped", "filled"}, NEW new, Resolves(s, new),
           mode = "execute" => "stop_opens" \notin new,
           Settle(cur, s, new, FALSE, FALSE)
    PROVE  Exact'
  <1>1. cur \in Legs /\ s \in LegStates
    BY LegVocabulary DEF Hands, ExactInv, SendInv, Process, AtALeg
  <1>2. StopsCore(cur, s, new)
    BY DEF StopsCore
  <1>3. QED
    BY <1>1, <1>2, SettleExact

(* What a run finds out of an order, it leaves in its flags.                    *)
LEMMA OutcomeExact ==
    ASSUME ExactInv, OutcomeStep
    PROVE  Exact'
  <1> USE LegVocabulary
  <1>0. pc \in Hands => cur \in Legs
    BY DEF Hands, ExactInv, SendInv, Process, AtALeg
  <1>b. Resolves("unknown", {"unknown"}) /\ Resolves("skipped", {"partial"}) /\ Resolves("filled", {})
        /\ Resolves("skipped", {"partial", "stop_opens"})
    BY DEF Resolves, LegActive, LegTerminal, LegResolutions
  <1>1. CASE FoundOpen \/ LookOpen
    <2> DEFINE flow == GoTo("poll") /\ seen' = order[cur]
    <2>1. /\ pc \in {"find", "poll"}
          /\ \/ Update(cur, "submitted", TRUE, FALSE, flow)
             \/ Update(cur, "in_flight", FALSE, FALSE, flow)
             \/ Only(flow)
      BY <1>1 DEF FoundOpen, LookOpen
    <2>2. flow => pc' = "poll" /\ cur' = cur /\ UNCHANGED <<todo, flags>>
      BY DEF GoTo
    <2>3. CASE Only(flow)
      BY <2>1, <2>3, StillExact DEF Only, GoTo, ledger, Hands
    <2> HIDE DEF flow
    <2>4. CASE ~Only(flow)
      BY <1>0, <2>1, <2>2, <2>4, UpdateExact DEF Hands, InFlight
    <2>5. QED
      BY <2>3, <2>4
  <1>2. CASE OpenNotFound
    BY <1>2, PlainExact, <1>b DEF OpenNotFound, Hands
  <1>3. CASE SettleOpen
    BY <1>3, SettleOpenExact, WaitExact DEF SettleOpen, Hands
  <1>4. CASE Cancel
    BY <1>4, StillExact DEF Cancel, Sent, ledger, Hands
  <1>5. CASE Recheck
    <2>1. cur \in Opens
      BY <1>5 DEF Recheck, ExactInv, SendInv, Process
    <2>2. QED
      BY <1>5, <2>1, SettleOpenExact, WaitExact DEF Recheck, Hands
  <1>6. CASE LookClose \/ AskPendingClose
    BY <1>6, StillExact DEF LookClose, AskPendingClose, Only, GoTo, ledger, Hands
  <1>7. CASE SettleClose
    <2>0. pc = "poll" /\ cur \in Closes
      BY <1>7 DEF SettleClose
    <2>1. CASE Settle(cur, "rejected", {"partial"} \cup StopAfter(cur), FALSE, FALSE)
      <3> DEFINE new == {"partial"} \cup StopAfter(cur)
      <3>1. Resolves("rejected", new) /\ StopsCore(cur, "rejected", new)
        BY <2>0 DEF Resolves, StopsCore, StopAfter, LegActive, InFlight
      <3> HIDE DEF new
      <3>2. Settle(cur, "rejected", new, FALSE, FALSE)
        BY <2>1 DEF new
      <3>3. QED
        BY <1>0, <2>0, <3>1, <3>2, SettleExact DEF Hands
    <2>2. CASE Wait(cur)
      BY <2>0, <2>2, WaitExact DEF Hands
    <2>3. CASE Settle(cur, "filled", {}, FALSE, FALSE) \/ Settle(cur, "unknown", {"unknown"}, FALSE, FALSE)
      BY PlainExact, <1>b, <2>0, <2>3 DEF Hands
    <2>4. QED
      BY <1>7, <2>1, <2>2, <2>3 DEF SettleClose, CloseUnknown
  <1>8. CASE PendingClose
    <2>1. pc = "pending_close" /\ mode = "resume"
      BY <1>8 DEF PendingClose, ExactInv, Exact, Course
    <2>2. QED
      BY <1>8, PlainExact, <1>b, <2>1 DEF PendingClose, CloseUnknown, Hands
  <1>9. CASE SettlePatch
    <2>1. Resolves("unknown", PatchUnknown(cur)) /\ "stop_opens" \notin PatchUnknown(cur)
      BY DEF Resolves, PatchUnknown, LegTerminal, LegResolutions
    <2>2. QED
      BY <1>9, PlainExact, <1>b, <2>1 DEF SettlePatch, Hands
  <1>10. QED
    BY <1>1, <1>2, <1>3, <1>4, <1>5, <1>6, <1>7, <1>8, <1>9 DEF OutcomeStep

(* A resume on true rows takes in hand what is in doubt, and accounts for the rest. *)
LEMMA RecoverExact ==
    ASSUME ExactInv, NEW l \in Legs, Recover(l)
    PROVE  Exact'
  <1>1. /\ pc = "recover" /\ mode = "resume" /\ cur = NoLeg /\ l \in todo /\ todo \subseteq Legs
        /\ UNCHANGED <<dec, scope, leg, mode, rows, pending, stale>>
    BY DEF Recover, Only, ledger, ExactInv, Exact, Course, SendInv, Process, TypeOK
  <1>2. ~stale => RunTells /\ rows.leg[l] = leg[l]
    BY <1>1, LegsAssumption DEF ExactInv, Exact, Truth, RunTells
  <1>3. FinalMeansResolved' = FinalMeansResolved /\ OnlyStockWaits' = OnlyStockWaits
    BY <1>1 DEF FinalMeansResolved, OnlyStockWaits, Unresolved
  <1>4. CoreStoppedByCoreOrHeldClose'
    BY <1>1 DEF CoreStoppedByCoreOrHeldClose, CoreStoppedByCore
  <1>5. CASE rows.leg[l] \in LegActive
    <2>1. pc' \in {"find", "poll"} /\ cur' = l /\ UNCHANGED <<todo, flags>>
      BY <1>5 DEF Recover, Only
    <2>2. Course'
      BY <1>1, <2>1 DEF ExactInv, Exact, Course, Hands
    <2>3. ~stale => RunTells'
      BY <1>1, <1>2, <1>5, <2>1, LegsAssumption DEF RunTells, Hands
    <2>4. QED
      BY <1>1, <1>3, <1>4, <2>2, <2>3 DEF ExactInv, Exact, Truth
  <1>6. CASE rows.leg[l] \notin LegActive
    <2>1. pc' = pc /\ cur' = cur /\ todo' = todo \ {l} /\ flags' = flags \cup Account(l)
      BY <1>6 DEF Recover, Only
    <2>2. Course'
      BY <1>1, <2>1 DEF ExactInv, Exact, Course, Hands
    <2>3. ~stale => Resolves(leg[l], flags')
      BY <1>2, <1>6, <2>1 DEF Resolves, Account, LegTerminal, LegResolutions
    <2>4. ~stale => RunTells'
      <3> SUFFICES ASSUME ~stale PROVE RunTells'
        OBVIOUS
      <3>1. \A k \in Legs \ todo : Resolves(leg[k], flags')
        BY <1>1, <1>2, <2>1 DEF RunTells, Resolves
      <3>2. QED
        BY <1>1, <1>2, <2>1, <2>3, <3>1 DEF RunTells, Hands
    <2>5. QED
      BY <1>1, <1>3, <1>4, <2>2, <2>4 DEF ExactInv, Exact, Truth
  <1>7. QED
    BY <1>5, <1>6

(* What was never sent is skipped at the end, and told.                        *)
LEMMA SkipPlannedExact ==
    ASSUME ExactInv, SkipPlanned
    PROVE  Exact'
  <1>1. /\ pc = "finish" /\ pc' = "reconcile" /\ cur = NoLeg
        /\ UNCHANGED <<dec, scope, mode, cur, todo, rows, pending, stale>>
        /\ leg' = [l \in Legs |-> IF leg[l] = "planned" THEN "skipped" ELSE leg[l]]
        /\ flags' = IF \E l \in Legs : leg[l] = "planned" THEN flags \cup {"partial"} ELSE flags
    BY DEF SkipPlanned, broker, ExactInv, Exact, Course
  <1>2. mode \in {"execute", "resume"}
    BY <1>1 DEF ExactInv, Exact, Course, SendInv, TypeOK
  <1>3. Course'
    BY <1>1 DEF ExactInv, Exact, Course, Hands
  <1>4. CoreStoppedByCoreOrHeldClose'
    BY <1>1 DEF ExactInv, Exact, CoreStoppedByCoreOrHeldClose, CoreStoppedByCore, Short, Opens, Closes
  <1>5. Truth'
    <2> SUFFICES ASSUME ~stale PROVE (RunTells /\ FinalMeansResolved /\ OnlyStockWaits)'
      BY <1>1 DEF Truth
    <2>1. ASSUME NEW l \in Legs PROVE leg[l] = "planned" \/ Resolves(leg[l], flags)
      <3>1. l \in todo => mode = "execute"
        BY <1>1, <1>2 DEF ExactInv, Exact, Course
      <3>2. l \in todo => leg[l] = "planned"
        BY <1>1, <3>1, LegsAssumption DEF ExactInv, SendInv, Unvisited
      <3>3. QED
        BY <1>1, <3>2 DEF ExactInv, Exact, Truth, RunTells
    <2>2. \A l \in Legs : leg'[l] # "planned" /\ Resolves(leg'[l], flags')
      BY <1>1, <2>1 DEF Resolves, LegActive
    <2>3. mode = "resume" => todo' \ {cur'} = {}
      BY <1>1 DEF ExactInv, Exact, Course
    <2>4. RunTells'
      BY <1>1, <2>2, <2>3 DEF RunTells, Hands
    <2>5. CASE \E l \in Legs : leg[l] = "planned"
      <3>1. dec \notin {"completed", "completed_partial"} /\ scope # "satellite"
        BY <2>5, NothingMoves
      <3>2. QED
        BY <1>1, <2>4, <3>1 DEF FinalMeansResolved, OnlyStockWaits
    <2>6. CASE \A l \in Legs : leg[l] # "planned"
      <3>1. leg' = leg
        BY <1>1, <2>6 DEF ExactInv, SendInv, TypeOK
      <3>2. QED
        BY <1>1, <2>4, <3>1 DEF ExactInv, Exact, Truth, FinalMeansResolved, OnlyStockWaits, Unresolved
    <2>7. QED
      BY <2>5, <2>6
  <1>6. QED
    BY <1>3, <1>4, <1>5 DEF Exact

(* The state a run concludes with is what its flags tell: complete only if every *)
(* leg is, and the satellite alone is held only by stock orders that wait.      *)
LEMMA ConcludeExact ==
    ASSUME ExactInv, Conclude
    PROVE  Exact'
  <1>1. /\ pc = "reconcile" /\ mode' = "none" /\ pc' = "idle" /\ flags' = {}
        /\ UNCHANGED <<leg, pending, stale>>
    BY DEF Conclude, Stop
  <1>2. PICK rec \in Reconciles :
           LET final == FinalState(rec)
               moves == dec # final /\ CanTransition(dec, final)
           IN  /\ dec' = IF moves THEN final ELSE dec
               /\ scope' = IF moves /\ final = "waiting_for_market" THEN GrantedScope(BlockerScope)
                           ELSE IF moves /\ final = "execution_unknown" /\ OnlySwingUnresolved
                                THEN "swing" ELSE scope
    BY DEF Conclude
  <1> DEFINE final == FinalState(rec)
  <1>3. dec' \in {dec, final} /\ (scope' = scope \/ dec' = final)
    BY <1>2
  <1>4. final \notin {"approved", "executing"}
    BY DEF FinalState
  <1>5. final = "waiting_for_market" => flags \cap {"unknown", "swing_unknown"} = {}
    BY DEF FinalState
  <1>6. final \in {"completed", "completed_partial"} =>
           flags \cap {"unknown", "swing_unknown"} = {} /\ "waiting" \notin flags
    BY DEF FinalState
  <1>7. final = "completed" => "partial" \notin flags
    BY DEF FinalState
  <1>8. scope' \in {scope, "swing"} \/ (final = "waiting_for_market" /\ dec' = final /\ scope' = GrantedScope(BlockerScope))
    BY <1>2
  <1> HIDE DEF final
  <1>9. Course'
    BY <1>1, <1>3, <1>4 DEF ExactInv, Exact, Course, Hands
  <1>10. Truth'
    <2> SUFFICES ASSUME ~stale PROVE (RunTells /\ FinalMeansResolved /\ OnlyStockWaits)'
      BY <1>1 DEF Truth
    <2>1. RunTells'
      BY <1>1 DEF RunTells, Hands
    <2>2. \A l \in Legs : leg[l] \in LegStates \ {"planned"} /\ Resolves(leg[l], flags)
      BY <1>1 DEF ExactInv, Exact, Truth, RunTells, SendInv, TypeOK
    <2>3. FinalMeansResolved /\ OnlyStockWaits /\ DOMAIN leg = Legs
      BY DEF ExactInv, Exact, Truth, SendInv, TypeOK
    <2>4. FinalMeansResolved'
      <3>1. CASE dec' = dec
        BY <1>1, <2>3, <3>1 DEF FinalMeansResolved, Unresolved
      <3>2. CASE dec' = final
        <4>1. dec' \in {"completed", "completed_partial"} => \A l \in Legs : leg[l] \in LegTerminal
          BY <1>6, <2>2, <3>2 DEF Resolves, LegStates
        <4>2. dec' = "completed" => \A l \in Legs : leg[l] = "filled"
          BY <1>7, <3>2, <2>2, <4>1 DEF Resolves
        <4>3. QED
          BY <1>1, <2>3, <4>1, <4>2
             DEF FinalMeansResolved, Unresolved, UnresolvedLegs, LegTerminal, LegActive, LegResolutions
      <3>3. QED
        BY <1>3, <3>1, <3>2
    <2>5. OnlyStockWaits'
      <3>1. CASE scope' \in {scope, "swing"}
        BY <1>1, <2>3, <3>1 DEF OnlyStockWaits, Unresolved
      <3>2. CASE final = "waiting_for_market" /\ scope' = GrantedScope(BlockerScope)
        <4>1. Unresolved = Waiting
          <5>1. \A l \in Legs : leg[l] \notin LegActive
            BY <1>5, <2>2, <3>2 DEF Resolves
          <5>2. QED
            BY <2>2, <2>3, <5>1 DEF Unresolved, UnresolvedLegs, Waiting, WaitingLegs
        <4>2. scope' = "satellite" => \A l \in Waiting : Stock[l]
          BY <3>2 DEF GrantedScope, BlockerScope, ScopeOf, Waiting
        <4>3. QED
          BY <1>1, <4>1, <4>2 DEF OnlyStockWaits, Unresolved, Waiting, WaitingLegs
      <3>3. QED
        BY <1>8, <3>1, <3>2
    <2>6. QED
      BY <2>1, <2>4, <2>5
  <1>11. CoreStoppedByCoreOrHeldClose'
    BY <1>1 DEF CoreStoppedByCoreOrHeldClose, CoreStoppedByCore
  <1>12. QED
    BY <1>9, <1>10, <1>11 DEF Exact

(* Resumes, crashes and the broker tell nothing; a resume begins on true rows or *)
(* on rows that are known to be outdated.                                     *)
LEMMA RestExact ==
    ASSUME ExactInv, Next, ~ExecuteStep, ~OutcomeStep
    PROVE  Exact'
  <1>1. CASE RecoveryOver
    BY <1>1, StillExact DEF RecoveryOver, Only, GoTo, ledger
  <1>2. CASE ResumeRead \/ ResumeLocked \/ Crash
    <2>1. /\ UNCHANGED <<dec, scope, leg, stale>>
          /\ \/ UNCHANGED <<pc, mode, todo, flags, cur>> /\ mode # "resume"
             \/ pc' = "idle" /\ mode' = "none" /\ pending' = pending
      BY <1>2 DEF ResumeRead, ResumeLocked, Crash, Stop, ledger, process, ExactInv, Exact, Course
    <2>2. CASE UNCHANGED <<pc, mode, todo, flags, cur>> /\ mode # "resume"
      <3>1. Course' /\ CoreStoppedByCoreOrHeldClose'
        BY <2>1, <2>2 DEF ExactInv, Exact, Course, Hands, CoreStoppedByCoreOrHeldClose, CoreStoppedByCore, Short,
           Opens, Closes
      <3>2. Truth'
        BY <2>1, <2>2 DEF ExactInv, Exact, Truth, RunTells, Hands, FinalMeansResolved, OnlyStockWaits, Unresolved
      <3>3. QED
        BY <3>1, <3>2 DEF Exact
    <2>3. CASE pc' = "idle" /\ mode' = "none" /\ pending' = pending
      <3>1. Course' /\ CoreStoppedByCoreOrHeldClose'
        BY <2>1, <2>3 DEF ExactInv, Exact, Course, Hands, CoreStoppedByCoreOrHeldClose, CoreStoppedByCore
      <3>2. Truth'
        BY <2>1, <2>3 DEF ExactInv, Exact, Truth, RunTells, Hands, FinalMeansResolved, OnlyStockWaits, Unresolved
      <3>3. QED
        BY <3>1, <3>2 DEF Exact
    <2>4. QED
      BY <2>1, <2>2, <2>3
  <1>3. CASE ResumeStart
    <2>1. /\ pc = "idle" /\ pc' = "recover" /\ mode' = "resume" /\ todo' = Legs /\ ~pending'
          /\ UNCHANGED <<dec, scope, leg, cur, rows>>
          /\ ~stale' => ~stale /\ rows.leg = leg
      <3>1. Rows.leg = leg
        BY DEF Rows
      <3>2. ~stale' => ~stale /\ rows = Rows
        BY <1>3, Zenon DEF ResumeStart
      <3>3. QED
        BY <1>3, <3>1, <3>2 DEF ResumeStart, ledger
    <2>2. Course' /\ CoreStoppedByCoreOrHeldClose'
      BY <2>1 DEF ExactInv, Exact, Course, Hands, CoreStoppedByCoreOrHeldClose, CoreStoppedByCore
    <2>3. Truth'
      BY <2>1 DEF ExactInv, Exact, Truth, RunTells, Hands, FinalMeansResolved, OnlyStockWaits, Unresolved
    <2>4. QED
      BY <2>2, <2>3 DEF Exact
  <1>4. CASE Fault
    BY <1>4, FailClosedExact DEF Fault
  <1>5. ASSUME NEW l \in Legs, BrokerMoves(l) PROVE Exact'
    BY <1>5, StillExact DEF BrokerMoves, ledger, process
  <1>6. QED
    BY <1>1, <1>2, <1>3, <1>4, <1>5, RecoverExact, SkipPlannedExact, ConcludeExact DEF Next, RecoverStep, FinishStep

LEMMA ExactStep == ExactInv /\ [Next]_vars => ExactInv'
  <1> SUFFICES ASSUME ExactInv, [Next]_vars PROVE ExactInv'
    OBVIOUS
  <1>1. SendInv'
    BY SendInvStep DEF ExactInv
  <1>2. Exact'
    <2>1. CASE UNCHANGED vars
      BY <2>1, StillExact DEF vars, ledger, broker, process
    <2>2. CASE Next
      BY <2>2, ExecuteExact, OutcomeExact, RestExact
    <2>3. QED
      BY <2>1, <2>2
  <1>3. QED
    BY <1>1, <1>2 DEF ExactInv

LEMMA ExactInit == Init => ExactInv
  <1> SUFFICES ASSUME Init PROVE ExactInv
    OBVIOUS
  <1>1. Course /\ Truth
    BY DEF Init, Course, Truth, RunTells, Hands, FinalMeansResolved, OnlyStockWaits
  <1>2. CoreStoppedByCoreOrHeldClose
    BY DEF Init, CoreStoppedByCoreOrHeldClose, CoreStoppedByCore
  <1>3. QED
    BY <1>1, <1>2, SendInvInit DEF ExactInv, Exact

(* For every plan a completed decision has no leg left to resolve, and `completed` *)
(* means every leg filled, unless a resume ran on outdated rows (_final_state).  *)
THEOREM FinalIsResolved == Spec => []FreshFinalMeansResolved
  <1>1. ExactInv => FreshFinalMeansResolved
    BY DEF ExactInv, Exact, Truth, FreshFinalMeansResolved
  <1>2. QED
    BY <1>1, ExactInit, ExactStep, PTL DEF Spec

(* For every plan a decision that stopped short holds the book its unresolved    *)
(* legs belong to, unless a resume ran on outdated rows (_scope, blockers).     *)
THEOREM BookHeld == Spec => []HoldsItsBook
  <1>1. ExactInv => HoldsItsBook
    <2> SUFFICES ASSUME ExactInv, ~stale, dec \in {"execution_unknown", "blocked", "waiting_for_market"}
                 PROVE  /\ Hold # "none"
                        /\ (\E l \in Unresolved : ~Swing[l]) => Hold # "swing"
                        /\ (\E l \in Unresolved : ~Stock[l] /\ ~Swing[l]) => Hold = "all"
      BY DEF HoldsItsBook
    <2>1. OnlyStockWaits
      BY DEF ExactInv, Exact, Truth
    <2>2. Hold \in {"swing", "all", "satellite"}
      BY DEF Hold, HoldOf
    <2>3. Hold = "swing" => \A l \in Unresolved : Swing[l]
      BY DEF Hold, HoldOf, OnlySwing, Unresolved
    <2>4. Hold = "satellite" => scope = "satellite"
      BY DEF Hold, HoldOf
    <2>5. QED
      BY <2>1, <2>2, <2>3, <2>4 DEF OnlyStockWaits
  <1>2. QED
    BY <1>1, ExactInit, ExactStep, PTL DEF Spec

(* For every plan only a core leg that did not fill, the equity refresh, or a    *)
(* close the broker holds for its market stops the core opens (_stop_for_close, *)
(* _wait).                                                                   *)
THEOREM CoreStopped == Spec => []CoreStoppedByCoreOrHeldClose
  <1>1. ExactInv => CoreStoppedByCoreOrHeldClose
    BY DEF ExactInv, Exact
  <1>2. QED
    BY <1>1, ExactInit, ExactStep, PTL DEF Spec

-----------------------------------------------------------------------------
(* The refinement of OrderBook.  An executor's step asks for a leg, places its *)
(* order, learns of it, drops planned legs, or is none of the book.  The       *)
(* invariants above say when it asks; what it learns is borne out because      *)
(* what it read of an order stays true.                                       *)

(* What an execute run has read of the order at hand is still true of it.      *)
Read ==
    /\ pc = "recheck" => seen = "held"
    /\ seen # "none" => cur \in Legs /\ order[cur] \notin {"none", "gone"}
    /\ seen \in {"partial", "failed_partial"} => order[cur] \in {"partial", "filled", "failed_partial"}
    /\ seen = "failed_partial" => order[cur] = "failed_partial"

BookInv == RunInv /\ LedgerInv /\ Read

BookStep == Book!Next \/ UNCHANGED <<Stage, Fate, placed>>

(* What the order of a leg must be for the row to say s.                       *)
Borne(l, s) ==
    /\ s = "waiting_for_market" => l \in Opens \cup Closes /\ order[l] \notin {"none", "gone"}
    /\ s = "filled" => order[l] = "filled" \/ (l \in Closes /\ order[l] = "gone")
    /\ s = "partially_filled" => l \in Opens /\ order[l] \in {"partial", "filled", "failed_partial"}
    /\ s = "rejected_partial" => l \in Opens /\ order[l] = "failed_partial"
    /\ s = "rejected" => order[l] \in {"none", "failed", "gone"}
    /\ s = "skipped" => /\ l \in Opens => order[l] = "none"
                        /\ l \in Closes => order[l] \notin {"working", "held"}

(* A step that moves rows only between the states of a leg in hand, and no     *)
(* order, is none of the book.                                                *)
LEMMA QuietInBook ==
    ASSUME leg \in [Legs -> LegStates], leg' \in [Legs -> LegStates], UNCHANGED broker,
           \A l \in Legs : leg'[l] = leg[l] \/ (leg[l] \in LegActive /\ leg'[l] \in LegActive)
    PROVE  BookStep
  <1>1. Stage' = Stage
    BY DEF Stage
  <1>2. Fate' = Fate /\ placed' = placed
    BY DEF Fate, broker
  <1>3. QED
    BY <1>1, <1>2 DEF BookStep

(* Failing closed turns legs in hand into legs in doubt: both are asked.       *)
LEMMA FailClosedInBook ==
    ASSUME TypeOK, NEW cause, FailClosed(cause)
    PROVE  BookStep
  <1>1. leg \in [Legs -> LegStates] /\ UNCHANGED broker
    BY DEF TypeOK, FailClosed
  <1>2. leg' = [l \in Legs |-> IF leg[l] \in {"submitting", "submitted", "in_flight"}
                               THEN "unknown" ELSE leg[l]]
    BY DEF FailClosed
  <1>3. leg' \in [Legs -> LegStates]
    BY <1>1, <1>2 DEF LegStates, LegActive
  <1>4. \A l \in Legs : leg'[l] = leg[l] \/ (leg[l] \in LegActive /\ leg'[l] \in LegActive)
    BY <1>1, <1>2 DEF LegActive
  <1>5. QED
    BY <1>1, <1>3, <1>4, QuietInBook

(* Legs dropped together before anything was sent of them.                     *)
LEMMA DroppedInBook ==
    ASSUME leg \in [Legs -> LegStates], UNCHANGED broker, NEW D \in SUBSET Legs,
           \A l \in D : leg[l] = "planned",
           leg' = [l \in Legs |-> IF l \in D THEN "skipped" ELSE leg[l]]
    PROVE  BookStep
  <1>1. Stage' = [l \in Legs |-> IF l \in D THEN "skipped" ELSE Stage[l]]
    BY DEF Stage, LegActive
  <1>2. Fate' = Fate /\ placed' = placed
    BY DEF Fate, broker
  <1>3. D \in SUBSET Book!Planned
    BY DEF Book!Planned, Stage, LegActive
  <1>4. Book!Drop(D)
    BY <1>1, <1>2 DEF Book!Drop
  <1>5. QED
    BY <1>2, <1>3, <1>4 DEF BookStep, Book!Next, Book!LedgerStep

(* A row moved to what its order bears out is something learned of its leg.    *)
LEMMA LearnedInBook ==
    ASSUME leg \in [Legs -> LegStates], order \in [Legs -> OrderStates], UNCHANGED broker, NEW l \in Legs,
           NEW s \in LegStates \ {"planned"}, CanUpdateLeg(leg[l], s),
           leg[l] = "planned" => s = "skipped",
           leg' = [leg EXCEPT ![l] = s], Borne(l, s)
    PROVE  BookStep
  <1>1. Fate' = Fate /\ placed' = placed
    BY DEF Fate, broker
  <1>2. CASE leg[l] = "planned"
    <2>1. leg' = [k \in Legs |-> IF k \in {l} THEN "skipped" ELSE leg[k]]
      BY <1>2
    <2>2. QED
      BY <1>2, <2>1, DroppedInBook
  <1>3. CASE leg[l] # "planned"
    <2> DEFINE t == IF s \in LegActive THEN "asked" ELSE s
    <2>1. Stage[l] \in {"asked", "waiting_for_market"}
      BY <1>3 DEF Stage, CanUpdateLeg, LegStates, LegActive, LegTerminal, LegResolutions
    <2>2. Stage' = [Stage EXCEPT ![l] = t]
      BY DEF Stage
    <2>3. t \in {"asked", "waiting_for_market", "rejected", "skipped"} \cup Book!Traded
      BY DEF LegStates, LegActive, LegTerminal, LegResolutions, Book!Traded
    <2>4. Book!Bears(l, t)
      <3>1. Fate[l] = IF order[l] \in {"working", "held"} THEN "live" ELSE order[l]
        BY DEF Fate
      <3>2. order[l] # "live"
        BY DEF OrderStates
      <3>3. Book!Opens = Opens /\ Book!Closes = Closes
        BY DEF Book!Opens, Book!Closes, Opens, Closes
      <3>4. \/ t = "asked"
            \/ t = s /\ s \in {"waiting_for_market", "filled", "partially_filled", "rejected_partial", "rejected",
                               "skipped"}
        BY DEF LegStates, LegActive, LegTerminal, LegResolutions
      <3> HIDE DEF t
      <3>5. CASE t = "asked"
        BY <3>5 DEF Book!Bears
      <3>6. CASE t = s /\ s \in {"waiting_for_market", "filled", "partially_filled"}
        BY <3>1, <3>2, <3>3, <3>6 DEF Borne, Book!Bears
      <3>7. CASE t = s /\ s \in {"rejected_partial", "rejected", "skipped"}
        BY <3>1, <3>2, <3>3, <3>7 DEF Borne, Book!Bears
      <3>8. QED
        BY <3>4, <3>5, <3>6, <3>7
    <2>5. Book!Learn(l)
      BY <1>1, <2>1, <2>2, <2>3, <2>4 DEF Book!Learn
    <2>6. QED
      BY <1>1, <2>5 DEF BookStep, Book!Next, Book!LedgerStep
  <1>4. QED
    BY <1>2, <1>3

(* The end of a leg, borne out by its order or refused by the ledger.          *)
LEMMA SettleInBook ==
    ASSUME TypeOK, NEW l \in Legs, NEW s \in LegStates \ {"planned"}, NEW new, NEW known, NEW bad,
           CanUpdateLeg(leg[l], s) => Borne(l, s), s # "submitting",
           Settle(l, s, new, known, bad)
    PROVE  BookStep
  <1>1. CASE CanUpdateLeg(leg[l], s)
    <2>1. leg' = [leg EXCEPT ![l] = s] /\ UNCHANGED broker
      BY <1>1 DEF Settle, Update, Put
    <2>2. leg[l] = "planned" => s = "skipped"
      BY <1>1 DEF CanUpdateLeg, LegTransitions, LegResolutions
    <2>3. QED
      BY <1>1, <2>1, <2>2, LearnedInBook DEF TypeOK
  <1>2. CASE ~CanUpdateLeg(leg[l], s)
    BY <1>2, FailClosedInBook DEF Settle, Update
  <1>3. QED
    BY <1>1, <1>2

(* A row written for a leg that stays at hand.                                *)
LEMMA UpdateInBook ==
    ASSUME TypeOK, NEW l \in Legs, NEW s \in {"submitting", "submitted", "in_flight"}, NEW known, NEW bad,
           leg[l] # "planned", NEW ACTION flow, Update(l, s, known, bad, flow)
    PROVE  BookStep
  <1>1. CASE CanUpdateLeg(leg[l], s)
    <2>1. leg' = [leg EXCEPT ![l] = s] /\ UNCHANGED broker
      BY <1>1 DEF Update, Put
    <2>2. /\ leg \in [Legs -> LegStates] /\ order \in [Legs -> OrderStates]
          /\ s \in LegStates \ {"planned"}
      BY DEF TypeOK, LegStates, LegActive
    <2>3. Borne(l, s)
      BY DEF Borne
    <2>4. QED
      BY <1>1, <2>1, <2>2, <2>3, LearnedInBook
  <1>2. CASE ~CanUpdateLeg(leg[l], s)
    BY <1>2, FailClosedInBook DEF Update
  <1>3. QED
    BY <1>1, <1>2

-----------------------------------------------------------------------------
(* An open is settled as what was read of its order, and that is still so.     *)
LEMMA OpenSettledInBook ==
    ASSUME TypeOK, cur \in Opens, NEW status, SettleOpenAs(cur, status),
           status \in {"filled", "failed", "failed_partial"} => order[cur] = status,
           status = "partial" => order[cur] \in {"partial", "filled", "failed_partial"}
    PROVE  BookStep
  <1> USE LegVocabulary
  <1>0. cur \in Legs
    BY DEF Opens
  <1>1. CASE Settle(cur, "unknown", {"unknown"}, status # "none", FALSE)
    <2>1. Borne(cur, "unknown")
      BY DEF Borne
    <2>2. QED
      BY <1>0, <1>1, <2>1, SettleInBook
  <1>2. ASSUME NEW new, NEW bad, status = "filled", Settle(cur, "filled", new, TRUE, bad)
        PROVE  BookStep
    <2>1. Borne(cur, "filled")
      BY <1>2 DEF Borne
    <2>2. QED
      BY <1>0, <1>2, <2>1, SettleInBook
  <1>3. ASSUME NEW new, NEW bad, status = "partial", Settle(cur, "partially_filled", new, TRUE, bad)
        PROVE  BookStep
    <2>1. Borne(cur, "partially_filled")
      BY <1>3 DEF Borne
    <2>2. QED
      BY <1>0, <1>3, <2>1, SettleInBook
  <1>4. ASSUME NEW new, status = "failed", Settle(cur, "rejected", new, TRUE, FALSE)
        PROVE  BookStep
    <2>1. Borne(cur, "rejected")
      BY <1>4 DEF Borne
    <2>2. QED
      BY <1>0, <1>4, <2>1, SettleInBook
  <1>5. ASSUME NEW new, status = "failed_partial", Settle(cur, "rejected_partial", new, TRUE, FALSE)
        PROVE  BookStep
    <2>1. Borne(cur, "rejected_partial")
      BY <1>5 DEF Borne
    <2>2. QED
      BY <1>0, <1>5, <2>1, SettleInBook
  <1>6. QED
    BY <1>1, <1>2, <1>3, <1>4, <1>5 DEF SettleOpenAs

(* Only an order the broker has is left to wait for its market.                *)
LEMMA WaitInBook ==
    ASSUME TypeOK, cur \in Opens \cup Closes, order[cur] \notin {"none", "gone"}, Wait(cur)
    PROVE  BookStep
  <1> DEFINE new == {"waiting"} \cup (IF cur \in Opens THEN StopAfter(cur) ELSE {"stop_opens"})
  <1>1. Settle(cur, "waiting_for_market", new, TRUE, FALSE)
    BY DEF Wait
  <1>2. cur \in Legs /\ Borne(cur, "waiting_for_market")
    BY DEF Borne, Opens, Closes
  <1> HIDE DEF new
  <1>3. QED
    BY <1>1, <1>2, SettleInBook, LegVocabulary

-----------------------------------------------------------------------------
(* The steps that send                                                      *)

(* A leg is asked for only when it is due and no other is asked for.           *)
LEMMA SubmitInBook ==
    ASSUME BookInv, BookInv', Careful, NEW l \in Legs, Submit(l)
    PROVE  BookStep
  <1>1. leg \in [Legs -> LegStates] /\ DepsMet(l) /\ TypeOK
    BY DEF Submit, BookInv, RunInv, SendInv, TypeOK
  <1>2. CASE CanUpdateLeg(leg[l], "submitting")
    <2>1. /\ leg' = [leg EXCEPT ![l] = "submitting"] /\ UNCHANGED broker
          /\ pc' = "sending" /\ cur' = l
      BY <1>2 DEF Submit, Update, Put
    <2>2. leg[l] = "planned"
      BY LegsAssumption DEF Submit, Ready, Turn, First, BookInv, RunInv, SendInv, Process, Unvisited
    <2>3. Stage[l] = "planned" /\ Stage' = [Stage EXCEPT ![l] = "asked"]
      BY <1>1, <2>1, <2>2 DEF Stage, LegActive
    <2>4. \A k \in Legs : /\ Stage[k] = "filled" <=> leg[k] = "filled"
                          /\ leg[k] \in Filled => Stage[k] \in Book!Traded
      BY DEF Stage, LegActive, Filled, Book!Traded
    <2>5. Deps[l] \in SUBSET Legs
      BY PlanAssumption
    <2>6. Book!Due(l)
      <3>1. ASSUME l \in Opens PROVE Book!Funded(l)
        <4>1. \A c \in Closes : (Swing[c] => Swing[l]) => leg[c] = "filled"
          <5>1. Funded(cur)'
            BY <2>1, <3>1 DEF BookInv, RunInv, Knows, Funds
          <5>2. \A c \in Closes : (Swing[c] => Swing[l]) => leg'[c] = "filled"
            BY <2>1, <5>1 DEF Funded
          <5>3. QED
            BY <1>1, <2>1, <2>2, <3>1, <5>2 DEF Closes, Opens
        <4>2. \A d \in Deps[l] : leg[d] = "filled"
          BY <1>1, <3>1 DEF DepsMet
        <4>3. QED
          BY <2>4, <2>5, <4>1, <4>2 DEF Book!Funded, Book!Closes, Closes
      <3>2. ASSUME Kind[l] = "modify_tp" PROVE \A d \in Deps[l] : Stage[d] \in Book!Traded
        BY <1>1, <2>4, <2>5, <3>2 DEF DepsMet
      <3>3. QED
        BY <3>1, <3>2 DEF Book!Due, Book!Opens, Opens
    <2>7. Book!Alone(l)
      <3> SUFFICES ASSUME NEW m \in Legs \ {l}, Stage[m] = "asked"
                   PROVE  m \in Book!SwingTargets /\ ~(l \in Book!Opens /\ Swing[l])
        BY DEF Book!Alone
      <3>1. leg[m] \in LegActive
        BY <1>1 DEF Stage, LegStates, LegActive, LegTerminal, LegResolutions
      <3>2. ~SentInDoubt(l) /\ leg'[l] = "submitting"
        BY <1>1, <2>1 DEF Careful
      <3>3. m \in Targets /\ Swing[m] /\ ~(l \in Opens /\ Swing[l])
        BY <2>2, <3>1, <3>2 DEF SentInDoubt, LegActive
      <3>4. QED
        BY <3>3 DEF Book!SwingTargets, Book!Opens, Targets, Opens
    <2>8. Fate' = Fate /\ placed' = placed
      BY <2>1 DEF Fate, broker
    <2>9. Book!Ask(l)
      BY <2>3, <2>6, <2>7, <2>8 DEF Book!Ask
    <2>10. QED
      BY <2>8, <2>9 DEF BookStep, Book!Next, Book!LedgerStep
  <1>3. CASE ~CanUpdateLeg(leg[l], "submitting")
    BY <1>1, <1>3, FailClosedInBook DEF Submit, Update
  <1>4. QED
    BY <1>2, <1>3

(* What is delivered is the one order of the leg that was asked for.           *)
LEMMA DeliveredInBook ==
    ASSUME BookInv, pc = "sending", Deliver(cur), UNCHANGED leg
    PROVE  BookStep
  <1>1. cur \in Legs /\ leg[cur] = "submitting" /\ placed[cur] = 0
    BY DEF BookInv, RunInv, SendInv, Process, AtALeg, Sends
  <1>2. order[cur] = "none"
    BY <1>1 DEF Deliver, BookInv, LedgerInv, Orders
  <1>3. placed \in [Legs -> Nat] /\ order \in [Legs -> OrderStates]
    BY DEF BookInv, RunInv, SendInv, TypeOK
  <1>4. Stage' = Stage /\ Stage[cur] = "asked"
    BY <1>1 DEF Stage, LegActive
  <1>5. Fate[cur] = "none" /\ Fate' = [Fate EXCEPT ![cur] = "live"]
    BY <1>1, <1>2, <1>3 DEF Fate, Deliver
  <1>6. placed' = [placed EXCEPT ![cur] = 1]
    BY <1>1, <1>3 DEF Deliver
  <1>7. Book!Place(cur)
    BY <1>1, <1>4, <1>5, <1>6 DEF Book!Place
  <1>8. QED
    <2>1. cur \in Legs /\ Fate' # Fate
      BY <1>1, <1>5 DEF Fate
    <2>2. QED
      BY <1>7, <2>1 DEF BookStep, Book!Next, Book!BrokerStep

(* An order that moves at the broker moves in the book, or stays live there.   *)
LEMMA MovedInBook ==
    ASSUME order \in [Legs -> OrderStates], NEW l \in Legs, NEW s \in OrderStates,
           <<order[l], s>> \in OrderMoves,
           order' = [order EXCEPT ![l] = s], UNCHANGED <<leg, placed>>
    PROVE  BookStep
  <1>1. Stage' = Stage
    BY DEF Stage
  <1>2. CASE s = "held"
    <2>1. order[l] = "working"
      BY <1>2 DEF OrderMoves
    <2>2. Fate' = Fate
      BY <1>2, <2>1 DEF Fate
    <2>3. QED
      BY <1>1, <2>2 DEF BookStep
  <1>3. CASE s # "held"
    <2>1. Fate' = [Fate EXCEPT ![l] = s]
      BY <1>3 DEF Fate, OrderMoves
    <2>2. s \in Book!Becomes(Fate[l])
      BY <1>3 DEF Fate, OrderMoves, Book!Becomes
    <2>3. Book!BrokerMoves(l)
      BY <1>1, <2>1, <2>2 DEF Book!BrokerMoves
    <2>4. QED
      BY <1>1, <2>3 DEF BookStep, Book!Next, Book!BrokerStep
  <1>4. QED
    BY <1>2, <1>3

-----------------------------------------------------------------------------
(* What was read stays true                                                 *)

(* At no leg, or done with it, nothing is read.                               *)
LEMMA NothingRead ==
    ASSUME seen' = "none", pc' # "recheck"
    PROVE  Read'
  BY DEF Read

(* A process that goes on beside an order that does not move.                  *)
LEMMA StillRead ==
    ASSUME Read, UNCHANGED <<cur, seen, order>>, pc' # "recheck"
    PROVE  Read'
  BY DEF Read

(* The end of a leg, or of the run.                                           *)
LEMMA SettledRead ==
    ASSUME NEW l, NEW s, NEW new, NEW known, NEW bad, Settle(l, s, new, known, bad)
    PROVE  Read'
  <1>1. seen' = "none" /\ pc' # "recheck"
    BY DEF Settle, Update, FailClosed, Stop, Continue
  <1>2. QED
    BY <1>1, NothingRead

(* The process took a leg up and left it, or reads nothing.                    *)
LEMMA ExecuteRead ==
    ASSUME BookInv, ExecuteStep
    PROVE  Read'
  <1>1. Read /\ (pc \in {"idle", "next", "sending"} => seen = "none")
    BY DEF BookInv, RunInv, SendInv, Process
  <1>2. CASE \E D \in SUBSET Legs : Begin(D)
    BY <1>1, <1>2, NothingRead DEF Begin
  <1>3. CASE SendingOver
    BY <1>1, <1>3, NothingRead DEF SendingOver, Only, GoTo
  <1>4. ASSUME NEW l \in Legs, RefreshEquity(l) \/ LeavePlanned(l) PROVE Read'
    <2>1. pc = "next" /\ pc' = pc /\ seen' = seen
      BY <1>4 DEF RefreshEquity, LeavePlanned, Turn, Only
    <2>2. QED
      BY <1>1, <2>1, NothingRead
  <1>5. ASSUME NEW l \in Legs, SkipLeg(l) \/ TargetAlreadySet(l) PROVE Read'
    BY <1>5, SettledRead DEF SkipLeg, TargetAlreadySet
  <1>6. ASSUME NEW l \in Legs, Submit(l) \/ TooManyRequests PROVE Read'
    <2>1. pc \in {"next", "sending"}
      BY <1>6 DEF Submit, Ready, Turn, TooManyRequests
    <2>2. pc' # "recheck" /\ seen' = "none"
      BY <1>1, <1>6, <2>1 DEF Submit, TooManyRequests, Update, FailClosed, Stop
    <2>3. QED
      BY <2>2, NothingRead
  <1>7. CASE TooManyRequests
    <2>1. pc' # "recheck" /\ seen' = "none"
      BY <1>1, <1>7 DEF TooManyRequests, Update, FailClosed, Stop
    <2>2. QED
      BY <2>1, NothingRead
  <1>8. CASE Refused
    BY <1>8, SettledRead DEF Refused
  <1>9. CASE Accepted \/ Ambiguous
    <2>1. pc = "sending" /\ pc' # "recheck" /\ seen' = seen
      BY <1>9 DEF Accepted, Ambiguous, Sent
    <2>2. QED
      BY <1>1, <2>1, NothingRead
  <1>10. CASE PersistSubmitted
    <2>1. CASE CanUpdateLeg(leg[cur], "submitted")
      <3>1. UNCHANGED <<cur, seen, order>> /\ pc' = "poll"
        BY <1>10, <2>1 DEF PersistSubmitted, Update, GoTo, broker
      <3>2. QED
        BY <1>1, <3>1, StillRead
    <2>2. CASE ~CanUpdateLeg(leg[cur], "submitted")
      BY <1>10, <2>2, NothingRead DEF PersistSubmitted, Update, FailClosed, Stop
    <2>3. QED
      BY <2>1, <2>2
  <1>11. QED
    BY <1>2, <1>3, <1>4, <1>5, <1>6, <1>7, <1>8, <1>9, <1>10 DEF ExecuteStep

(* What is read is what the broker has.                                       *)
LEMMA OutcomeRead ==
    ASSUME BookInv, OutcomeStep
    PROVE  Read'
  <1>1. /\ Read /\ order \in [Legs -> OrderStates]
        /\ \A l \in Opens : order[l] # "gone"
        /\ \A l \in Opens \cup Closes : l \in Legs
    BY DEF BookInv, RunInv, SendInv, TypeOK, LedgerInv, Orders, Opens, Closes
  <1>2. CASE FoundOpen \/ LookOpen
    <2>1. cur \in Opens /\ order[cur] # "none"
      BY <1>2 DEF FoundOpen, LookOpen, BookInv, RunInv, SendInv, Process
    <2>2. \/ pc' = "poll" /\ cur' = cur /\ seen' = order[cur] /\ order' = order
          \/ pc' = "idle" /\ seen' = "none"
      BY <1>2 DEF FoundOpen, LookOpen, Update, Only, GoTo, FailClosed, Stop, broker
    <2>3. QED
      BY <1>1, <2>1, <2>2 DEF Read
  <1>3. CASE OpenNotFound
    BY <1>3, SettledRead DEF OpenNotFound
  <1>4. CASE SettleOpen
    BY <1>4, SettledRead DEF SettleOpen, SettleOpenAs, Wait
  <1>5. CASE Cancel
    <2>1. /\ cur \in Opens /\ seen = "held" /\ cur' = cur /\ seen' = seen
          /\ order' = order \/ order' = [order EXCEPT ![cur] = "failed"]
      BY <1>5 DEF Cancel, Sent
    <2>2. order[cur] \notin {"none", "gone"} /\ cur \in Legs
      BY <1>1, <2>1 DEF Read
    <2>3. order'[cur] \notin {"none", "gone"}
      BY <1>1, <2>1, <2>2
    <2>4. QED
      BY <2>1, <2>2, <2>3 DEF Read
  <1>6. CASE Recheck
    BY <1>6, SettledRead DEF Recheck, SettleOpenAs, Wait
  <1>7. CASE LookClose
    <2>1. /\ cur \in Closes /\ pc' = "poll" /\ cur' = cur /\ order' = order
          /\ seen' = IF order[cur] = "held" THEN "held" ELSE "none"
      BY <1>7 DEF LookClose, Only, GoTo, broker
    <2>2. QED
      BY <1>1, <2>1 DEF Read
  <1>8. CASE SettleClose
    BY <1>8, SettledRead DEF SettleClose, CloseUnknown, Wait
  <1>9. CASE AskPendingClose
    <2>1. UNCHANGED <<cur, seen, order>> /\ pc' # "recheck"
      BY <1>9 DEF AskPendingClose, Only, GoTo, broker
    <2>2. QED
      BY <1>1, <2>1, StillRead
  <1>10. CASE PendingClose
    BY <1>10, SettledRead DEF PendingClose, CloseUnknown
  <1>11. CASE SettlePatch
    BY <1>11, SettledRead DEF SettlePatch
  <1>12. QED
    BY <1>2, <1>3, <1>4, <1>5, <1>6, <1>7, <1>8, <1>9, <1>10, <1>11 DEF OutcomeStep

(* An order only moves on, so a status read of it stays true.                 *)
LEMMA BrokerRead ==
    ASSUME BookInv, NEW l \in Legs, BrokerMoves(l)
    PROVE  Read'
  <1>1. Read /\ order \in [Legs -> OrderStates]
    BY DEF BookInv, RunInv, SendInv, TypeOK
  <1>2. PICK s : <<order[l], s>> \in OrderMoves /\ order' = [order EXCEPT ![l] = s]
    BY DEF BrokerMoves
  <1>3. pc' = pc /\ cur' = cur /\ seen' = seen
    BY DEF BrokerMoves, process
  <1>4. CASE cur = l
    <2>1. order'[cur] = s
      BY <1>1, <1>2, <1>4
    <2>2. order[cur] # "none" => s \notin {"none", "gone"}
      BY <1>2, <1>4 DEF OrderMoves
    <2>3. /\ order[cur] \notin {"filled", "failed_partial"}
          /\ order[cur] = "partial" => s \in {"filled", "failed_partial"}
      BY <1>2, <1>4 DEF OrderMoves
    <2>4. QED
      BY <1>1, <1>3, <2>1, <2>2, <2>3 DEF Read
  <1>5. CASE cur # l
    <2>1. cur \in Legs => order'[cur] = order[cur]
      BY <1>1, <1>2, <1>5
    <2>2. QED
      BY <1>1, <1>3, <2>1 DEF Read
  <1>6. QED
    BY <1>4, <1>5

(* A recovery takes up a leg with nothing read, the rest leaves or ends it.    *)
LEMMA RestRead ==
    ASSUME BookInv, Next, ~ExecuteStep, ~OutcomeStep
    PROVE  Read'
  <1>1. Read /\ (pc \in {"idle", "recover"} => seen = "none")
    BY DEF BookInv, RunInv, SendInv, Process
  <1>2. ASSUME NEW l \in Legs, Recover(l) PROVE Read'
    <2>1. pc = "recover" /\ pc' # "recheck" /\ seen' = seen
      BY <1>2 DEF Recover, Only
    <2>2. QED
      BY <1>1, <2>1, NothingRead
  <1>3. CASE RecoveryOver \/ SkipPlanned
    <2>1. UNCHANGED <<cur, seen, order>> /\ pc' # "recheck"
      BY <1>3 DEF RecoveryOver, SkipPlanned, Only, GoTo, broker
    <2>2. QED
      BY <1>1, <2>1, StillRead
  <1>4. CASE Conclude \/ Crash \/ Fault
    BY <1>4, NothingRead DEF Conclude, Crash, Fault, FailClosed, Stop
  <1>5. CASE ResumeRead \/ ResumeLocked
    BY <1>1, <1>5 DEF ResumeRead, ResumeLocked, process, broker, Read
  <1>6. CASE ResumeStart
    BY <1>1, <1>6, NothingRead DEF ResumeStart
  <1>7. QED
    BY <1>2, <1>3, <1>4, <1>5, <1>6, BrokerRead DEF Next, RecoverStep, FinishStep

(* Every step keeps what the book rests on.                                   *)
LEMMA BookInvStep == BookInv /\ [Next]_vars => BookInv' /\ Careful
  <1> SUFFICES ASSUME BookInv, [Next]_vars PROVE BookInv' /\ Careful
    OBVIOUS
  <1>1. RunInv' /\ Careful
    BY RunInvStep DEF BookInv
  <1>2. LedgerInv'
    BY LedgerInvStep DEF BookInv
  <1>3. Read'
    <2>1. CASE UNCHANGED vars
      BY <2>1 DEF vars, process, broker, BookInv, Read
    <2>2. CASE Next
      BY <2>2, ExecuteRead, OutcomeRead, RestRead
    <2>3. QED
      BY <2>1, <2>2
  <1>4. QED
    BY <1>1, <1>2, <1>3 DEF BookInv

-----------------------------------------------------------------------------
(* Every step is a step of the book                                         *)

(* The steps of an execution.                                                 *)
LEMMA ExecuteInBook ==
    ASSUME BookInv, BookInv', Careful, ExecuteStep
    PROVE  BookStep
  <1> USE LegVocabulary
  <1>1. /\ TypeOK /\ leg \in [Legs -> LegStates]
        /\ AtALeg /\ (pc = "sending" => leg[cur] = "submitting" /\ placed[cur] = 0)
    BY DEF BookInv, RunInv, SendInv, TypeOK, Process, Sends
  <1>2. \A l \in Legs : placed[l] = 0 => order[l] \in {"none", "gone"} /\ (l \in Opens => order[l] = "none")
    BY DEF BookInv, LedgerInv, Orders
  <1>3. \A l \in Legs : Turn(l) => leg[l] = "planned" /\ placed[l] = 0
    BY LegsAssumption DEF Turn, First, BookInv, RunInv, SendInv, TypeOK, Process, Unvisited, Sends
  <1>4. ASSUME NEW D \in SUBSET Legs, Begin(D) PROVE BookStep
    <2>1. \A l \in D : leg[l] = "planned"
      BY <1>4 DEF Begin, BookInv, RunInv, SendInv, Approval
    <2>2. leg' = [l \in Legs |-> IF l \in D THEN "skipped" ELSE leg[l]] /\ UNCHANGED broker
      BY <1>4 DEF Begin
    <2>3. QED
      BY <1>1, <2>1, <2>2, DroppedInBook
  <1>5. ASSUME UNCHANGED <<leg, broker>> PROVE BookStep
    BY <1>1, <1>5, QuietInBook
  <1>6. CASE SendingOver
    BY <1>5, <1>6 DEF SendingOver, Only, ledger
  <1>7. ASSUME NEW l \in Legs, RefreshEquity(l) \/ LeavePlanned(l) PROVE BookStep
    BY <1>5, <1>7 DEF RefreshEquity, LeavePlanned, Only, ledger
  <1>8. ASSUME NEW l \in Legs, SkipLeg(l) PROVE BookStep
    <2>1. Turn(l) /\ \E new : Settle(l, "skipped", new, FALSE, FALSE)
      BY <1>8 DEF SkipLeg, Ready
    <2>2. Borne(l, "skipped")
      BY <1>2, <1>3, <2>1 DEF Borne
    <2>3. QED
      BY <1>1, <2>1, <2>2, SettleInBook
  <1>9. ASSUME NEW l \in Legs, TargetAlreadySet(l) PROVE BookStep
    <2>1. Turn(l) /\ Settle(l, "filled", {}, FALSE, FALSE)
      BY <1>9 DEF TargetAlreadySet, Ready
    <2>2. ~CanUpdateLeg(leg[l], "filled")
      BY <1>3, <2>1 DEF CanUpdateLeg, LegTransitions, LegResolutions
    <2>3. QED
      BY <1>1, <2>1, <2>2, SettleInBook
  <1>10. ASSUME NEW l \in Legs, Submit(l) PROVE BookStep
    BY <1>10, SubmitInBook
  <1>11. CASE TooManyRequests
    <2>1. /\ cur \in Legs /\ leg[cur] # "planned"
          /\ Update(cur, "submitting", FALSE, FALSE,
                    attempt' = attempt + 1 /\ UNCHANGED <<pc, cur, seen, todo, flags>>)
      BY <1>1, <1>11 DEF TooManyRequests, AtALeg
    <2>2. QED
      BY <1>1, <2>1, UpdateInBook
  <1>12. CASE Refused
    <2>1. /\ cur \in Legs /\ placed[cur] = 0
          /\ \E new : Settle(cur, "rejected", new, FALSE, FALSE)
      BY <1>1, <1>12 DEF Refused, AtALeg
    <2>2. Borne(cur, "rejected")
      BY <1>2, <2>1 DEF Borne
    <2>3. QED
      BY <1>1, <2>1, <2>2, SettleInBook
  <1>13. CASE Accepted \/ Ambiguous
    <2>1. pc = "sending" /\ UNCHANGED leg /\ (Deliver(cur) \/ UNCHANGED broker)
      BY <1>13 DEF Accepted, Ambiguous, Sent, ledger
    <2>2. QED
      BY <1>5, <2>1, DeliveredInBook
  <1>14. CASE PersistSubmitted
    <2> DEFINE flow == GoTo("poll") /\ UNCHANGED seen
    <2>1. PICK known \in BOOLEAN : Update(cur, "submitted", known, FALSE, flow)
      BY <1>14 DEF PersistSubmitted
    <2>2. cur \in Legs
      BY <1>1, <1>14 DEF PersistSubmitted, AtALeg
    <2> HIDE DEF flow
    <2>3. CASE leg[cur] = "planned"
      <3>1. ~CanUpdateLeg(leg[cur], "submitted")
        BY <2>3 DEF CanUpdateLeg, LegTransitions, LegResolutions
      <3>2. QED
        BY <1>1, <2>1, <3>1, FailClosedInBook DEF Update
    <2>4. CASE leg[cur] # "planned"
      BY <1>1, <2>1, <2>2, <2>4, UpdateInBook
    <2>5. QED
      BY <2>3, <2>4
  <1>15. QED
    BY <1>4, <1>6, <1>7, <1>8, <1>9, <1>10, <1>11, <1>12, <1>13, <1>14 DEF ExecuteStep

(* What becomes of an order, and what is written of it.                        *)
LEMMA OutcomeInBook ==
    ASSUME BookInv, OutcomeStep
    PROVE  BookStep
  <1> USE LegVocabulary
  <1>1. /\ TypeOK /\ leg \in [Legs -> LegStates] /\ order \in [Legs -> OrderStates] /\ Read
        /\ pc \in {"find", "poll", "recheck", "pending_close"} => cur \in Legs
        /\ pc \in {"find", "recheck"} => cur \in Opens
        /\ pc = "pending_close" => cur \in Closes
    BY DEF BookInv, RunInv, SendInv, TypeOK, Process, AtALeg
  <1>2. /\ \A l \in Opens : order[l] # "gone" /\ l \in Legs /\ l \notin Closes
        /\ \A l \in Closes : l \in Legs
        /\ cur \in Opens /\ seen \in {"filled", "failed"} => order[cur] = seen
    BY DEF BookInv, LedgerInv, Orders, Opens, Closes
  <1>3. ASSUME UNCHANGED <<leg, broker>> PROVE BookStep
    BY <1>1, <1>3, QuietInBook
  <1>4. ASSUME NEW l \in Legs, NEW s \in {"submitted", "in_flight"}, NEW known, NEW bad, NEW ACTION flow,
               Update(l, s, known, bad, flow)
        PROVE  BookStep
    <2>1. CASE leg[l] = "planned"
      <3>1. ~CanUpdateLeg(leg[l], s)
        BY <2>1 DEF CanUpdateLeg, LegTransitions, LegResolutions
      <3>2. QED
        BY <1>1, <1>4, <3>1, FailClosedInBook DEF Update
    <2>2. CASE leg[l] # "planned"
      BY <1>1, <1>4, <2>2, UpdateInBook
    <2>3. QED
      BY <2>1, <2>2
  <1>5. ASSUME NEW new, Settle(cur, "unknown", new, FALSE, FALSE), cur \in Legs PROVE BookStep
    <2>1. Borne(cur, "unknown")
      BY DEF Borne
    <2>2. QED
      BY <1>1, <1>5, <2>1, SettleInBook
  <1>6. CASE FoundOpen \/ LookOpen
    <2> DEFINE flow == GoTo("poll") /\ seen' = order[cur]
    <2>1. /\ cur \in Legs
          /\ \/ Update(cur, "submitted", TRUE, FALSE, flow)
             \/ Update(cur, "in_flight", FALSE, FALSE, flow)
             \/ Only(flow)
      BY <1>1, <1>6 DEF FoundOpen, LookOpen
    <2>2. Only(flow) => UNCHANGED <<leg, broker>>
      BY DEF Only, ledger
    <2> HIDE DEF flow
    <2>3. QED
      BY <1>3, <1>4, <2>1, <2>2
  <1>7. CASE OpenNotFound
    <2>1. cur \in Opens /\ cur \in Legs
      BY <1>1, <1>7 DEF OpenNotFound
    <2>2. CASE order[cur] = "none" /\ Settle(cur, "skipped", {"partial"}, FALSE, FALSE)
      <3>1. Borne(cur, "skipped")
        BY <1>2, <2>1, <2>2 DEF Borne
      <3>2. QED
        BY <1>1, <2>1, <2>2, <3>1, SettleInBook
    <2>3. CASE Settle(cur, "unknown", {"unknown"}, FALSE, FALSE)
      BY <1>5, <2>1, <2>3
    <2>4. QED
      BY <1>7, <2>2, <2>3 DEF OpenNotFound
  <1>8. CASE SettleOpen
    <2>1. CASE SettleOpenAs(cur, seen) /\ cur \in Opens
      <3>1. seen \in {"filled", "failed", "failed_partial"} => order[cur] = seen
        BY <1>1, <1>2, <2>1 DEF Read
      <3>2. seen = "partial" => order[cur] \in {"partial", "filled", "failed_partial"}
        BY <1>1 DEF Read
      <3>3. QED
        BY <1>1, <2>1, <3>1, <3>2, OpenSettledInBook
    <2>2. CASE seen = "held" /\ Wait(cur) /\ cur \in Opens
      <3>1. order[cur] \notin {"none", "gone"}
        BY <1>1, <2>2 DEF Read
      <3>2. QED
        BY <1>1, <2>2, <3>1, WaitInBook
    <2>3. QED
      BY <1>8, <2>1, <2>2 DEF SettleOpen
  <1>9. CASE Cancel
    <2>1. /\ cur \in Legs /\ UNCHANGED <<leg, placed>>
          /\ \/ order[cur] = "held" /\ order' = [order EXCEPT ![cur] = "failed"]
             \/ UNCHANGED order
      BY <1>1, <1>9 DEF Cancel, Sent, ledger
    <2>2. CASE order[cur] = "held" /\ order' = [order EXCEPT ![cur] = "failed"]
      <3>1. "failed" \in OrderStates /\ <<order[cur], "failed">> \in OrderMoves
        BY <2>2 DEF OrderStates, OrderMoves
      <3>2. QED
        BY <1>1, <2>1, <2>2, <3>1, MovedInBook
    <2>3. CASE UNCHANGED order
      BY <1>3, <2>1, <2>3 DEF broker
    <2>4. QED
      BY <2>1, <2>2, <2>3
  <1>10. CASE Recheck
    <2>1. cur \in Opens /\ order[cur] \notin {"none", "gone"}
      BY <1>1, <1>10 DEF Recheck, Read
    <2>2. CASE Wait(cur)
      BY <1>1, <2>1, <2>2, WaitInBook
    <2>3. CASE SettleOpenAs(cur, order[cur])
      <3>1. DEFINE status == order[cur]
      <3>2. /\ SettleOpenAs(cur, status)
            /\ status \in {"filled", "failed", "failed_partial"} => order[cur] = status
            /\ status = "partial" => order[cur] \in {"partial", "filled", "failed_partial"}
        BY <2>3
      <3> HIDE DEF status
      <3>3. QED
        BY <1>1, <2>1, <3>2, OpenSettledInBook
    <2>4. QED
      BY <1>10, <2>2, <2>3 DEF Recheck
  <1>11. CASE LookClose \/ AskPendingClose
    <2>1. UNCHANGED <<leg, broker>>
      BY <1>11 DEF LookClose, AskPendingClose, Only, ledger
    <2>2. QED
      BY <1>3, <2>1
  <1>12. CASE SettleClose
    <2>1. cur \in Closes /\ cur \in Legs
      BY <1>2, <1>12 DEF SettleClose
    <2>2. CASE order[cur] \in {"filled", "gone"} /\ Settle(cur, "filled", {}, FALSE, FALSE)
      <3>1. Borne(cur, "filled")
        BY <2>1, <2>2 DEF Borne
      <3>2. QED
        BY <1>1, <2>1, <2>2, <3>1, SettleInBook
    <2>3. CASE order[cur] = "failed"
               /\ Settle(cur, "rejected", {"partial"} \cup StopAfter(cur), FALSE, FALSE)
      <3>1. Borne(cur, "rejected")
        BY <2>3 DEF Borne
      <3>2. QED
        BY <1>1, <2>1, <2>3, <3>1, SettleInBook
    <2>4. CASE seen = "held" /\ Wait(cur)
      <3>1. order[cur] \notin {"none", "gone"}
        BY <1>1, <2>4 DEF Read
      <3>2. QED
        BY <1>1, <2>1, <2>4, <3>1, WaitInBook
    <2>5. CASE CloseUnknown(cur)
      BY <1>5, <2>1, <2>5 DEF CloseUnknown
    <2>6. QED
      BY <1>12, <2>2, <2>3, <2>4, <2>5 DEF SettleClose
  <1>13. CASE PendingClose
    <2>1. cur \in Closes /\ cur \in Legs /\ cur \notin Opens
      BY <1>1, <1>2, <1>13 DEF PendingClose
    <2>2. CASE order[cur] \notin {"working", "held"}
               /\ Settle(cur, "skipped", {"partial", "stop_opens"}, FALSE, FALSE)
      <3>1. Borne(cur, "skipped")
        BY <2>1, <2>2 DEF Borne
      <3>2. QED
        BY <1>1, <2>1, <2>2, <3>1, SettleInBook
    <2>3. CASE CloseUnknown(cur)
      BY <1>5, <2>1, <2>3 DEF CloseUnknown
    <2>4. QED
      BY <1>13, <2>2, <2>3 DEF PendingClose
  <1>14. CASE SettlePatch
    <2>1. cur \in Legs /\ cur \notin Opens \cup Closes
      BY <1>1, <1>14 DEF SettlePatch
    <2>2. CASE order[cur] = "filled" /\ Settle(cur, "filled", {}, FALSE, FALSE)
      <3>1. Borne(cur, "filled")
        BY <2>2 DEF Borne
      <3>2. QED
        BY <1>1, <2>1, <2>2, <3>1, SettleInBook
    <2>3. CASE Settle(cur, "skipped", {"partial"}, FALSE, FALSE)
      <3>1. Borne(cur, "skipped")
        BY <2>1 DEF Borne
      <3>2. QED
        BY <1>1, <2>1, <2>3, <3>1, SettleInBook
    <2>4. CASE Settle(cur, "unknown", PatchUnknown(cur), FALSE, FALSE)
      BY <1>5, <2>1, <2>4
    <2>5. QED
      BY <1>14, <2>2, <2>3, <2>4 DEF SettlePatch
  <1>15. QED
    BY <1>6, <1>7, <1>8, <1>9, <1>10, <1>11, <1>12, <1>13, <1>14 DEF OutcomeStep

(* Recoveries and resumes only look, the end drops what was never sent, and a   *)
(* crash takes nothing back.                                                  *)
LEMMA RestInBook ==
    ASSUME BookInv, Next, ~ExecuteStep, ~OutcomeStep
    PROVE  BookStep
  <1>1. TypeOK /\ leg \in [Legs -> LegStates] /\ order \in [Legs -> OrderStates]
    BY DEF BookInv, RunInv, SendInv, TypeOK
  <1>2. ASSUME UNCHANGED <<leg, broker>> PROVE BookStep
    BY <1>1, <1>2, QuietInBook
  <1>3. CASE (\E l \in Legs : Recover(l)) \/ RecoveryOver
    BY <1>2, <1>3 DEF Recover, RecoveryOver, Only, ledger
  <1>4. CASE SkipPlanned
    <2> DEFINE D == {l \in Legs : leg[l] = "planned"}
    <2>1. leg' = [l \in Legs |-> IF l \in D THEN "skipped" ELSE leg[l]] /\ UNCHANGED broker
      BY <1>4 DEF SkipPlanned
    <2>2. D \in SUBSET Legs /\ \A l \in D : leg[l] = "planned"
      OBVIOUS
    <2> HIDE DEF D
    <2>3. QED
      BY <1>1, <2>1, <2>2, DroppedInBook
  <1>5. CASE Conclude \/ ResumeRead \/ ResumeLocked \/ ResumeStart \/ Crash
    BY <1>2, <1>5 DEF Conclude, ResumeRead, ResumeLocked, ResumeStart, Crash, ledger
  <1>6. CASE Fault
    BY <1>1, <1>6, FailClosedInBook DEF Fault
  <1>7. ASSUME NEW l \in Legs, BrokerMoves(l) PROVE BookStep
    <2>1. PICK s \in OrderStates : <<order[l], s>> \in OrderMoves /\ order' = [order EXCEPT ![l] = s]
      BY <1>7 DEF BrokerMoves, OrderStates
    <2>2. UNCHANGED <<leg, placed>>
      BY <1>7 DEF BrokerMoves, ledger
    <2>3. QED
      BY <1>1, <2>1, <2>2, MovedInBook
  <1>8. QED
    BY <1>3, <1>4, <1>5, <1>6, <1>7 DEF Next, RecoverStep, FinishStep

(* However executions, crashes, lost answers, resumes and outdated rows         *)
(* interleave, every step of the executor is a step of the order book or none:  *)
(* a leg is asked for only when it is due and alone, placed at most once, and   *)
(* over only as its order at the broker bears out (executor.py, execute and     *)
(* resume).                                                                    *)
THEOREM ExecutorKeepsBook == Spec => ImplementsOrderBook
  <1>1. Init => Book!Init
    BY DEF Init, Book!Init, Stage, Fate, LegActive
  <1>2. Init => BookInv
    <2>1. Init => Orders /\ LedgerAdmitsOrders
      BY DEF Init, Orders, LedgerAdmitsOrders, Opens, Closes
    <2>2. Init => Read
      BY DEF Init, Read
    <2>3. QED
      BY <2>1, <2>2, RunInvInit, SendInvInit DEF BookInv, LedgerInv
  <1>3. BookInv /\ [Next]_vars => BookInv'
    BY BookInvStep
  <1>4. BookInv /\ BookInv' /\ [Next]_vars => [Book!Next]_Book!vars
    <2> SUFFICES ASSUME BookInv, BookInv', [Next]_vars
                 PROVE  BookStep
      BY DEF BookStep, Book!vars
    <2>1. CASE UNCHANGED vars
      <3>1. leg \in [Legs -> LegStates] /\ UNCHANGED <<leg, broker>>
        BY <2>1 DEF vars, ledger, BookInv, RunInv, SendInv, TypeOK
      <3>2. QED
        BY <3>1, QuietInBook
    <2>2. CASE Next
      <3>1. Careful
        BY BookInvStep
      <3>2. QED
        BY <2>2, <3>1, ExecuteInBook, OutcomeInBook, RestInBook
    <2>3. QED
      BY <2>1, <2>2
  <1>5. QED
    BY <1>1, <1>2, <1>3, <1>4, PTL DEF Spec, ImplementsOrderBook, Book!Spec

-----------------------------------------------------------------------------
(* RateLimiter: what the limiter the executor asks before each write promises, *)
(* for every capacity, window and Retry-After.                                *)

(* What TokenBucket.__init__ refuses to do without, and whole seconds.        *)
Parameters ==
    /\ Capacity \in Nat \ {0} /\ Per \in Nat \ {0}
    /\ Pauses \subseteq Nat /\ MaxTime \in Nat

LimiterTyped ==
    /\ now \in Nat /\ paused \in Nat /\ wake \in Nat
    /\ granted \in Seq(Nat) /\ arrived \in Seq(Nat)
    /\ head \in 1 .. Len(granted) + 1
    /\ turn \in {"idle", "asking", "asleep", "free", "granted", "sent"}

(* The clock goes forward.                                                    *)
Past ==
    /\ \A i \in 1 .. Len(granted) : granted[i] <= now
    /\ \A i \in 1 .. Len(arrived) : arrived[i] <= now

Sorted == \A i, j \in 1 .. Len(granted) : i <= j => granted[i] <= granted[j]

(* The executor sends what it was let through for before it asks again.       *)
InTurn ==
    /\ Len(granted) = IF turn = "granted" THEN Len(arrived) + 1 ELSE Len(arrived)
    /\ \A i \in 1 .. Len(arrived) :
         /\ granted[i] <= arrived[i]
         /\ i + 1 <= Len(granted) => arrived[i] <= granted[i + 1]

(* What left the deque is a window old.                                       *)
LeftOld == \A i \in 1 .. head - 1 : now - granted[i] >= Per

(* Who is told to go finds room in the deque, and no pause.                   *)
Room == turn = "free" => Len(granted) - head + 1 < Capacity /\ now >= paused

Apart == \A i \in 1 .. Len(granted) - Capacity : granted[i + Capacity] - granted[i] >= Per

LimiterInv == LimiterTyped /\ Past /\ Sorted /\ InTurn /\ LeftOld /\ Room /\ Apart

(* wait_time answers 0 only when the deque has room: the oldest entry of a    *)
(* full one is younger than a window after _prune.                            *)
LEMMA FreeMeansRoom ==
    ASSUME Parameters, LimiterTyped, NEW h \in 1 .. Len(granted) + 1, Pruned(h), FreeAt(h) <= now
    PROVE  Len(granted) - h + 1 < Capacity /\ now >= paused
<1>1. CASE Len(granted) - h + 1 >= Capacity
  <2>1. h \in 1 .. Len(granted) /\ granted[h] \in Nat
    BY <1>1 DEF Parameters, LimiterTyped
  <2>2. now - granted[h] < Per
    BY <2>1 DEF Pruned
  <2>3. granted[h] + Per <= now
    BY <1>1, <2>1 DEF FreeAt, Later, Parameters, LimiterTyped
  <2> QED
    BY <2>1, <2>2, <2>3 DEF Parameters, LimiterTyped
<1>2. CASE Len(granted) - h + 1 < Capacity
  BY <1>2 DEF FreeAt, Parameters, LimiterTyped
<1> QED
  BY <1>1, <1>2 DEF Parameters, LimiterTyped

LEMMA LimiterStarts == ASSUME Parameters, LimiterInit PROVE LimiterInv
BY DEF Parameters, LimiterInit, LimiterInv, LimiterTyped, Past, Sorted, InTurn, LeftOld, Room, Apart

LEMMA TickKeepsWindow == ASSUME Parameters, LimiterInv, Tick PROVE LimiterInv'
<1> USE DEF LimiterInv
<1>1. LimiterTyped' /\ InTurn' /\ Apart' /\ Sorted'
  BY DEF Tick, LimiterTyped, InTurn, Apart, Sorted
<1>2. Past' /\ LeftOld'
  <2>1. now \in Nat /\ now' = now + 1 /\ UNCHANGED <<granted, head, arrived>>
    BY DEF Tick, LimiterTyped
  <2>2. /\ \A i \in 1 .. Len(granted) : granted[i] \in Nat
        /\ \A i \in 1 .. Len(arrived) : arrived[i] \in Nat
        /\ \A i \in 1 .. head - 1 : granted[i] \in Nat
    BY DEF LimiterTyped
  <2>3. Past'
    BY <2>1, <2>2 DEF Past
  <2>4. LeftOld'
    BY <2>1, <2>2 DEF LeftOld, Parameters
  <2> QED
    BY <2>3, <2>4
<1>3. Room'
  BY DEF Tick, LimiterTyped, Room
<1> QED
  BY <1>1, <1>2, <1>3

LEMMA AskKeeps == ASSUME Parameters, LimiterInv, Ask PROVE LimiterInv'
<1> USE DEF LimiterInv
<1>1. PICK h \in 1 .. Len(granted) + 1 :
        /\ Pruned(h) /\ head' = h
        /\ turn' = IF FreeAt(h) <= now THEN "free" ELSE "asleep"
        /\ wake' = FreeAt(h)
  BY DEF Ask
<1>2. UNCHANGED <<now, granted, paused, arrived>> /\ turn \in {"idle", "asking"}
  BY DEF Ask
<1>3. FreeAt(h) \in Nat
  <2>1. CASE Len(granted) - h + 1 >= Capacity
    <3>1. granted[h] \in Nat
      BY <2>1 DEF Parameters, LimiterTyped
    <3> QED
      BY <2>1, <3>1 DEF FreeAt, Later, Parameters, LimiterTyped
  <2>2. CASE ~(Len(granted) - h + 1 >= Capacity)
    BY <2>2 DEF FreeAt, LimiterTyped
  <2> QED
    BY <2>1, <2>2
<1>4. LimiterTyped'
  BY <1>1, <1>2, <1>3 DEF LimiterTyped
<1>5. Past' /\ Sorted' /\ Apart'
  BY <1>2 DEF Past, Sorted, Apart
<1>6. InTurn'
  BY <1>1, <1>2 DEF InTurn
<1>7. LeftOld'
  <2> SUFFICES ASSUME NEW i \in 1 .. h - 1 PROVE now - granted[i] >= Per
    BY <1>1, <1>2 DEF LeftOld
  <2>1. CASE i < head
    BY <2>1 DEF LeftOld, LimiterTyped
  <2>2. CASE i >= head
    BY <1>1, <2>2 DEF Pruned, LimiterTyped
  <2> QED
    BY <2>1, <2>2 DEF LimiterTyped
<1>8. Room'
  BY <1>1, <1>2, FreeMeansRoom DEF Room
<1> QED
  BY <1>4, <1>5, <1>6, <1>7, <1>8

LEMMA GrantKeeps == ASSUME Parameters, LimiterInv, Grant PROVE LimiterInv'
<1> USE DEF LimiterInv
<1> DEFINE n == Len(granted)
<1>1. /\ n \in Nat /\ turn = "free" /\ turn' = "granted"
      /\ granted' = Append(granted, now) /\ Len(granted') = n + 1
      /\ \A i \in 1 .. n : granted'[i] = granted[i] /\ granted[i] \in Nat
      /\ granted'[n + 1] = now /\ granted' \in Seq(Nat)
      /\ UNCHANGED <<now, head, paused, wake, arrived>>
  BY DEF Grant, LimiterTyped
<1> HIDE DEF n
<1>2. LimiterTyped'
  BY <1>1 DEF LimiterTyped, n
<1>3. Past' /\ Sorted'
  BY <1>1 DEF Past, Sorted, LimiterTyped, n
<1>4. InTurn'
  <2>1. Len(arrived) = n /\ \A i \in 1 .. n : granted[i] <= arrived[i] /\ arrived[i] <= now
    BY <1>1 DEF InTurn, Past, n
  <2>2. \A i \in 1 .. n : i < n => arrived[i] <= granted[i + 1]
    BY <1>1, <2>1 DEF InTurn, n
  <2> QED
    BY <1>1, <2>1, <2>2 DEF InTurn
<1>5. LeftOld'
  BY <1>1 DEF LeftOld, LimiterTyped, n
<1>6. Room'
  BY <1>1 DEF Room
<1>7. Apart'
  <2> SUFFICES ASSUME NEW i \in 1 .. (n + 1) - Capacity
               PROVE  granted'[i + Capacity] - granted'[i] >= Per
    BY <1>1 DEF Apart
  <2>1. CASE i <= n - Capacity
    BY <1>1, <2>1 DEF Apart, Parameters, n
  <2>2. CASE i = (n + 1) - Capacity
    <3>1. i \in 1 .. head - 1 /\ i \in 1 .. n
      BY <1>1, <2>2 DEF Room, Parameters, LimiterTyped, n
    <3>2. i + Capacity = n + 1
      BY <1>1, <2>2 DEF Parameters
    <3> QED
      BY <1>1, <3>1, <3>2 DEF LeftOld
  <2> QED
    BY <1>1, <2>1, <2>2 DEF Parameters
<1> QED
  BY <1>2, <1>3, <1>4, <1>5, <1>6, <1>7

LEMMA SendKeeps == ASSUME Parameters, LimiterInv, Send PROVE LimiterInv'
<1> USE DEF LimiterInv
<1> DEFINE m == Len(arrived)
<1>1. /\ m \in Nat /\ turn = "granted" /\ turn' = "sent" /\ Len(granted) = m + 1
      /\ Len(arrived') = m + 1 /\ arrived' \in Seq(Nat)
      /\ \A i \in 1 .. m : arrived'[i] = arrived[i]
      /\ arrived'[m + 1] = now
      /\ UNCHANGED <<now, granted, head, paused, wake>>
  BY DEF Send, LimiterTyped, InTurn
<1>2. \A i \in 1 .. m : granted[i] <= arrived[i] /\ arrived[i] <= granted[i + 1] /\ arrived[i] <= now
  BY <1>1 DEF InTurn, Past
<1>3. granted[m + 1] <= now
  BY <1>1 DEF Past
<1> HIDE DEF m
<1>4. LimiterTyped' /\ Past' /\ Sorted' /\ LeftOld' /\ Room' /\ Apart'
  BY <1>1, <1>2 DEF LimiterTyped, Past, Sorted, LeftOld, Room, Apart
<1>5. InTurn'
  BY <1>1, <1>2, <1>3 DEF InTurn
<1> QED
  BY <1>4, <1>5

LEMMA AnswerKeeps == ASSUME Parameters, LimiterInv, Answer PROVE LimiterInv'
<1> USE DEF LimiterInv
<1>1. paused' \in Nat
  BY DEF Answer, Later, Parameters, LimiterTyped
<1> QED
  BY <1>1 DEF Answer, LimiterTyped, Past, Sorted, InTurn, LeftOld, Room, Apart

LEMMA WakeKeeps == ASSUME Parameters, LimiterInv, Wake PROVE LimiterInv'
BY DEF LimiterInv, Wake, LimiterTyped, Past, Sorted, InTurn, LeftOld, Room, Apart

LEMMA NextKeeps == ASSUME Parameters, LimiterInv, [LimiterNext]_limiterVars PROVE LimiterInv'
<1>1. CASE UNCHANGED limiterVars
  BY <1>1 DEF limiterVars, LimiterInv, LimiterTyped, Past, Sorted, InTurn, LeftOld, Room, Apart
<1> QED
  BY <1>1, TickKeepsWindow, AskKeeps, GrantKeeps, SendKeeps, AnswerKeeps, WakeKeeps DEF LimiterNext

(* The invariant: who goes finds fewer than a capacity of acquisitions that    *)
(* are younger than a window.                                                 *)
THEOREM LimiterInductive == ASSUME Parameters PROVE LimiterSpec => []LimiterInv
<1>1. LimiterInit => LimiterInv
  BY LimiterStarts
<1>2. LimiterInv /\ [LimiterNext]_limiterVars => LimiterInv'
  BY NextKeeps
<1> QED
  BY <1>1, <1>2, PTL DEF LimiterSpec

(* No window of Per holds more than Capacity acquisitions, whatever the clock  *)
(* does between the steps of acquire (the rule of ratelimit.py).               *)
THEOREM StrictWindow == ASSUME Parameters PROVE LimiterSpec => []WindowHolds
<1>1. LimiterInv => WindowHolds
  <2> SUFFICES ASSUME LimiterInv, NEW i \in DOMAIN granted, i + Capacity \in DOMAIN granted
               PROVE  granted[i + Capacity] - granted[i] >= Per
    BY DEF WindowHolds
  <2>1. DOMAIN granted = 1 .. Len(granted) /\ Len(granted) \in Nat
    BY DEF LimiterInv, LimiterTyped
  <2>2. i \in 1 .. Len(granted) - Capacity
    BY <2>1 DEF Parameters
  <2> QED
    BY <2>2 DEF LimiterInv, Apart
<1> QED
  BY <1>1, LimiterInductive, PTL

(* At the broker a window holds at most one write more, since a write arrives  *)
(* after its own acquisition and before the next one.                          *)
THEOREM BrokerWindow == ASSUME Parameters PROVE LimiterSpec => []BrokerWindowHolds
<1>1. LimiterInv => BrokerWindowHolds
  <2> SUFFICES ASSUME LimiterInv, NEW i \in DOMAIN arrived, i + Capacity + 1 \in DOMAIN arrived
               PROVE  arrived[i + Capacity + 1] - arrived[i] >= Per
    BY DEF BrokerWindowHolds
  <2>0. DOMAIN arrived = 1 .. Len(arrived) /\ Len(arrived) \in Nat
    BY DEF LimiterInv, LimiterTyped
  <2> DEFINE k == i + Capacity + 1
  <2>1. /\ Len(arrived) <= Len(granted) /\ Len(granted) \in Nat
        /\ i \in 1 .. Len(arrived) /\ k \in 1 .. Len(arrived)
        /\ Capacity \in Nat \ {0} /\ Per \in Nat
    BY <2>0 DEF LimiterInv, LimiterTyped, InTurn, Parameters
  <2>2. /\ k \in 1 .. Len(granted) /\ i + 1 \in 1 .. Len(granted)
        /\ i + 1 \in 1 .. Len(granted) - Capacity /\ k = (i + 1) + Capacity
    BY <2>0, <2>1
  <2>3. granted[k] - granted[i + 1] >= Per
    BY <2>2 DEF LimiterInv, Apart
  <2> HIDE DEF k
  <2>4. arrived[i] <= granted[i + 1] /\ granted[k] <= arrived[k]
    BY <2>1, <2>2 DEF LimiterInv, InTurn
  <2>5. arrived[i] \in Nat /\ arrived[k] \in Nat /\ granted[i + 1] \in Nat /\ granted[k] \in Nat
    <3>1. /\ \A j \in 1 .. Len(arrived) : arrived[j] \in Nat
          /\ \A j \in 1 .. Len(granted) : granted[j] \in Nat
      BY SMTT(30) DEF LimiterInv, LimiterTyped
    <3> QED
      BY <3>1, <2>1, <2>2
  <2>6. arrived[k] - arrived[i] >= Per
    BY <2>1, <2>3, <2>4, <2>5, SMTT(30)
  <2> QED
    BY <2>6 DEF k
<1> QED
  BY <1>1, LimiterInductive, PTL

(* Nobody is let through while a pause the broker asked for lasts.             *)
THEOREM PauseKept == ASSUME Parameters PROVE LimiterSpec => PauseHolds
<1>1. LimiterInv /\ [LimiterNext]_limiterVars => [granted' # granted => now >= paused]_limiterVars
  BY DEF LimiterInv, Room, LimiterNext, limiterVars, Tick, Ask, Wake, Grant, Send, Answer
<1> QED
  BY <1>1, LimiterInductive, PTL DEF LimiterSpec, PauseHolds
=============================================================================
