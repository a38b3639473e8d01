--------------------------- MODULE PublicationProofs ---------------------------
(***************************************************************************)
(* Theorems about Publication, for any number of stored reports.  The      *)
(* safety properties rest on one invariant of the clone (versions only     *)
(* travel from the tree to the branch to the remote, and a call that has   *)
(* committed left every file it was given on the branch) and one of the    *)
(* ledger (once a reveal is on its way, the decision never opens again).   *)
(***************************************************************************)
EXTENDS Publication, TLAPS

Places == {"idle", "seal", "write", "add", "commit", "push", "returned", "raised"}

Calls == [by : {"none", "cycle", "watch"}, at : Places, files : [Files -> Nat],
          sha : BOOLEAN, pushed : BOOLEAN]

Typed ==
    /\ what \in {"risk", "reduce", "nothing", "smoke"}
    /\ dec \in DecisionStates \cup {"absent"}
    /\ committed \in BOOLEAN /\ sealed \in BOOLEAN /\ listed \in BOOLEAN
    /\ report \in 0 .. LastReport
    /\ done \subseteq Files /\ index \subseteq Files
    /\ tree \in [Files -> Nat] /\ branch \in [Files -> Nat] /\ remote \in [Files -> Nat]
    /\ operator \in {"idle", "executing", "storing", "listing"}
    /\ pub \in Calls

(* The newest version of a file there is.                                      *)
Newest(f) == IF f = "report" THEN report ELSE 1

(* No place is ahead of the one it is fed from.                                *)
Flow ==
    \A f \in Files : /\ remote[f] <= branch[f] /\ branch[f] <= tree[f]
                     /\ tree[f] <= Newest(f)

(* How far the call at hand has come.                                          *)
Call ==
    /\ \A f \in Files : pub.files[f] <= Newest(f)
    /\ pub.at = "write" => \A f \in Published : tree[f] <= pub.files[f]
    /\ pub.at \in {"add", "commit"} => \A f \in Published : tree[f] = pub.files[f]
    /\ pub.at = "commit" => \A f \in Published : f \in index \/ tree[f] = branch[f]
    /\ pub.at = "push" => \A f \in Published : branch[f] # 0
    /\ pub.at \in {"write", "add", "commit", "push"} => ~pub.sha
    /\ pub.sha => \A f \in Published : branch[f] # 0
    /\ pub.pushed => pub.sha /\ remote = branch

(* Whose call it is, and what of.                                              *)
Caller ==
    /\ pub.at = "idle" => pub = Idle
    /\ pub.at = "seal" => pub.by = "cycle" /\ dec # "absent" /\ ~pub.sha /\ ~pub.pushed
                          /\ pub.files = Absent
    /\ pub.by = "cycle" => what # "smoke"
    /\ pub.files["smoke"] # 0 => what = "smoke"
    /\ pub.by = "cycle" /\ pub.at \notin {"idle", "seal"} => "commitment" \in Published

(* What a decision with nothing to decide, and a ticket, can be.               *)
Decided ==
    /\ what = "nothing" => dec \in {"absent", "reviewed_no_action"}
    /\ what = "smoke" => dec # "absent"

Closed == Over \cup {"waiting_for_market"}

(* A reveal in the tree or on its way belongs to a decision that is over.       *)
RevealClosed == tree["reveal"] # 0 \/ pub.files["reveal"] # 0 => dec \in Closed

(* A decision that adds risk is open, or was, only behind its commitment.       *)
RiskOpened ==
    what = "risk" /\ dec \in ExecutedStates \cup {"proposed"} => remote["commitment"] # 0

IInv ==
    /\ Typed /\ Flow /\ Call /\ Caller /\ Decided
    /\ RevealClosed /\ RiskOpened /\ TicketRowCommitted

-----------------------------------------------------------------------------
(* The states an operator or a program may find, listed.                       *)
LEMMA Vocabulary ==
    /\ DecisionStates = {"awaiting_publication", "proposed", "approved", "executing",
          "execution_unknown", "waiting_for_market", "blocked", "completed", "completed_partial",
          "rejected", "expired", "superseded", "reviewed_no_action"}
    /\ Closed = {"completed", "completed_partial", "rejected", "expired", "superseded",
          "reviewed_no_action", "blocked", "execution_unknown", "waiting_for_market"}
    /\ PendingStates = {"awaiting_publication", "proposed"}
  BY DEF DecisionStates, Closed, Over, PendingStates, TerminalStates

(* Before the first step the clone is empty and no call is made.               *)
LEMMA Starts == Init => IInv
  <1> SUFFICES ASSUME Init PROVE IInv
    OBVIOUS
  <1> USE DEF Init, Idle, Absent
  <1>1. Typed
    <2>1. Absent \in [Files -> Nat] /\ Idle \in Calls
      BY DEF Calls, Places
    <2>2. dec \in DecisionStates \cup {"absent"} /\ report \in 0 .. LastReport
      BY LastReportAssumption, Vocabulary
    <2>3. QED
      BY <2>1, <2>2 DEF Typed
  <1>2. Flow /\ Call
    BY LastReportAssumption DEF Flow, Call, Newest, Published
  <1>3. Caller
    BY DEF Caller, Files
  <1>4. Decided /\ RiskOpened /\ TicketRowCommitted
    BY DEF Decided, RiskOpened, TicketRowCommitted, ExecutedStates
  <1>5. RevealClosed
    BY DEF RevealClosed, Files
  <1>6. QED
    BY <1>1, <1>2, <1>3, <1>4, <1>5 DEF IInv

(* The files are written: the tree takes over the versions of the call.         *)
LEMMA WriteKeeps ==
    ASSUME IInv, Write
    PROVE  IInv'
  <1> USE DEF IInv, Write, Raise, ledger
  <1>0. pub' \in Calls /\ pub'.files = pub.files /\ pub'.by = pub.by /\ pub'.sha = pub.sha
        /\ pub'.pushed = pub.pushed /\ pub'.at \in {"add", "raised"} /\ ~pub.sha /\ ~pub.pushed
    BY DEF Typed, Calls, Places, Call
  <1>1. /\ tree' \in [Files -> Nat]
        /\ \A f \in Files : tree'[f] >= tree[f] /\ tree'[f] <= Newest(f)
        /\ pub'.at = "add" => \A f \in Published : tree'[f] = pub.files[f]
        /\ \A f \in Files : tree'[f] # tree[f] => tree'[f] = pub.files[f]
    BY DEF Typed, Call, Calls, Published, Flow, Newest
  <1>2. Typed'
    BY <1>0, <1>1 DEF Typed
  <1>3. Flow'
    BY <1>1 DEF Flow, Typed, Newest
  <1>4. Call'
    BY <1>0, <1>1 DEF Call, Published, Newest
  <1>5. Caller' /\ Decided'
    BY <1>0 DEF Caller, Decided, Published
  <1>6. RevealClosed'
    BY <1>0, <1>1 DEF RevealClosed, Files
  <1>7. RiskOpened' /\ TicketRowCommitted'
    BY DEF RiskOpened, TicketRowCommitted
  <1>8. QED
    BY <1>2, <1>3, <1>4, <1>5, <1>6, <1>7

(* Staging moves no version.                                                   *)
LEMMA AddKeeps ==
    ASSUME IInv, Add
    PROVE  IInv'
  <1> USE DEF IInv, Add, Raise, Return, ledger
  <1>0. pub' \in Calls /\ pub'.files = pub.files /\ pub'.by = pub.by /\ ~pub'.sha /\ ~pub'.pushed
        /\ pub'.at \in {"commit", "returned", "raised"}
    BY ZenonT(60) DEF Typed, Calls, Places, Call
  <1>1. index' \subseteq Files
        /\ (pub'.at = "commit" => \A f \in Published : f \in index' \/ tree[f] = branch[f])
    BY <1>0 DEF Typed, Calls, Places, Published
  <1>2. Typed'
    BY <1>0, <1>1 DEF Typed
  <1>3. Flow'
    BY DEF Flow, Newest
  <1>4. Call'
    BY <1>0, <1>1 DEF Call, Published, Newest
  <1>5. Caller' /\ Decided'
    BY <1>0 DEF Caller, Decided, Published
  <1>6. RevealClosed' /\ RiskOpened' /\ TicketRowCommitted'
    BY <1>0 DEF RevealClosed, RiskOpened, TicketRowCommitted
  <1>7. QED
    BY <1>2, <1>3, <1>4, <1>5, <1>6

(* The commit brings every file of the call to the branch.                      *)
LEMMA CommitKeeps ==
    ASSUME IInv, Commit
    PROVE  IInv'
  <1> USE DEF IInv, Commit, Raise, ledger
  <1>0. pub' \in Calls /\ pub'.files = pub.files /\ pub'.by = pub.by /\ ~pub'.sha /\ ~pub'.pushed
        /\ pub'.at \in {"push", "raised"}
    BY DEF Typed, Calls, Places, Call
  <1>1. /\ branch' \in [Files -> Nat] /\ index' \subseteq Files
        /\ \A f \in Files : branch'[f] >= branch[f] /\ branch'[f] <= tree[f]
        /\ pub'.at = "push" => \A f \in Published : branch'[f] = tree[f] /\ branch'[f] # 0
    BY DEF Typed, Call, Calls, Published, Flow
  <1>2. Typed'
    BY <1>0, <1>1 DEF Typed
  <1>3. Flow'
    BY <1>1 DEF Flow, Typed, Newest
  <1>4. Call'
    BY <1>0, <1>1 DEF Call, Published, Newest
  <1>5. Caller' /\ Decided'
    BY <1>0 DEF Caller, Decided, Published
  <1>6. RevealClosed' /\ RiskOpened'
    BY <1>0 DEF RevealClosed, RiskOpened
  <1>7. TicketRowCommitted'
    BY <1>1 DEF TicketRowCommitted, Typed, Files
  <1>8. QED
    BY <1>2, <1>3, <1>4, <1>5, <1>6, <1>7

(* The push brings what is on the branch to the remote, or answers that it did  *)
(* not.                                                                       *)
LEMMA PushKeeps ==
    ASSUME IInv, Push
    PROVE  IInv'
  <1> USE DEF IInv, Push, Return, ledger
  <1>0. pub' \in Calls /\ pub'.files = pub.files /\ pub'.by = pub.by /\ pub'.sha
        /\ pub'.at = "returned" /\ (pub'.pushed => remote' = branch)
    BY DEF Typed, Calls, Places
  <1>1. remote' \in {remote, branch}
    OBVIOUS
  <1>2. Typed'
    BY <1>0, <1>1 DEF Typed
  <1>3. Flow'
    BY <1>1 DEF Flow, Typed, Newest
  <1>4. Call'
    BY <1>0 DEF Call, Published, Newest
  <1>5. Caller' /\ Decided'
    BY <1>0 DEF Caller, Decided, Published
  <1>6. RevealClosed' /\ TicketRowCommitted'
    BY <1>0 DEF RevealClosed, TicketRowCommitted
  <1>7. RiskOpened'
    BY <1>1 DEF RiskOpened, Flow, Typed, Files
  <1>8. QED
    BY <1>2, <1>3, <1>4, <1>5, <1>6, <1>7

(* A death leaves the clone as it is, but for a file it had begun to write; a   *)
(* later push only completes an earlier one.                                  *)
LEMMA CloneKeeps ==
    ASSUME IInv, Dies \/ LaterPush
    PROVE  IInv'
  <1> USE DEF IInv, ledger
  <1>1. CASE Dies
    <2>0. pub' = Idle /\ Idle \in Calls /\ UNCHANGED <<ledger, done, operator, index, branch, remote>>
      BY <1>1 DEF Dies, Idle, Absent, Calls, Places
    <2>1. /\ tree' \in [Files -> Nat]
          /\ \A f \in Files : tree'[f] >= tree[f] /\ tree'[f] <= Newest(f)
          /\ \A f \in Files : tree'[f] # tree[f] => tree'[f] = pub.files[f]
      BY <1>1 DEF Dies, Typed, Call, Calls, Published, Flow, Newest
    <2>2. Typed'
      BY <2>0, <2>1 DEF Typed
    <2>3. Flow'
      BY <2>0, <2>1 DEF Flow, Typed, Newest
    <2>4. Call'
      BY <2>0, LastReportAssumption DEF Call, Published, Newest, Idle, Absent, Typed
    <2>5. Caller' /\ Decided'
      BY <2>0 DEF Caller, Decided, Idle, Absent, Files
    <2>6. RevealClosed'
      BY <2>0, <2>1 DEF RevealClosed, Files, Idle, Absent
    <2>7. RiskOpened' /\ TicketRowCommitted'
      BY <2>0 DEF RiskOpened, TicketRowCommitted
    <2>8. QED
      BY <2>2, <2>3, <2>4, <2>5, <2>6, <2>7
  <1>2. CASE LaterPush
    <2> USE <1>2 DEF LaterPush
    <2>1. Typed' /\ Flow' /\ Caller' /\ Decided' /\ RevealClosed' /\ TicketRowCommitted'
      BY DEF Typed, Flow, Caller, Decided, RevealClosed, TicketRowCommitted, Newest, Published
    <2>2. Call'
      BY DEF Call, Newest, Published
    <2>3. RiskOpened'
      BY DEF RiskOpened, Flow, Typed, Files
    <2>4. QED
      BY <2>1, <2>2, <2>3
  <1>3. QED
    BY <1>1, <1>2

(* The cycle opens what adds risk on a pushed commitment only, and reveals only *)
(* what had nothing to decide.                                                *)
LEMMA CycleKeeps ==
    ASSUME IInv, CycleStep
    PROVE  IInv'
  <1> USE Vocabulary DEF IInv, ledger, clone
  <1>1. CASE CycleDecides
    <2> USE <1>1 DEF CycleDecides
    <2>1. pub' \in Calls /\ pub'.at = "seal" /\ pub'.by = "cycle" /\ pub'.files = Absent
          /\ ~pub'.sha /\ ~pub'.pushed
      BY DEF Calls, Places, Idle, Absent
    <2>2. Typed'
      BY <2>1 DEF Typed
    <2>3. Flow' /\ Call'
      BY <2>1 DEF Flow, Call, Published, Absent, Newest, Typed
    <2>4. Caller' /\ Decided'
      BY <2>1 DEF Caller, Decided
    <2>5. RevealClosed'
      BY <2>1 DEF RevealClosed, Absent, Files, Caller, Idle
    <2>6. RiskOpened' /\ TicketRowCommitted'
      BY DEF RiskOpened, TicketRowCommitted, ExecutedStates
    <2>7. QED
      BY <2>2, <2>3, <2>4, <2>5, <2>6
  <1>2. CASE NotSealed
    <2> USE <1>2 DEF NotSealed
    <2>1. Idle \in Calls
      BY DEF Calls, Places, Idle, Absent
    <2>2. Typed' /\ Caller' /\ Decided' /\ RevealClosed' /\ RiskOpened' /\ TicketRowCommitted'
      BY <2>1 DEF Typed, Caller, Decided, RevealClosed, RiskOpened, TicketRowCommitted, Idle,
                  Absent, Files
    <2>3. Flow' /\ Call'
      BY DEF Flow, Call, Published, Newest, Idle, Absent, Typed
    <2>4. QED
      BY <2>2, <2>3
  <1>3. CASE CycleSeals
    <2> USE <1>3 DEF CycleSeals, Begin
    <2>1. /\ pub' \in Calls /\ pub'.at = "write" /\ pub'.by = "cycle"
          /\ ~pub'.sha /\ ~pub'.pushed /\ pub'.files["commitment"] = 1
          /\ \A f \in Files : pub'.files[f] \in {0, 1} /\ (f = "report" => pub'.files[f] = 0)
          /\ pub'.files["reveal"] # 0 => what = "nothing"
          /\ pub'.files["smoke"] = 0
      BY DEF Calls, Places, Idle, Absent, Files
    <2>2. Typed'
      BY <2>1 DEF Typed
    <2>3. Flow'
      BY DEF Flow, Newest
    <2>4. Call'
      <3> HIDE <1>3 DEF CycleSeals, Begin
      <3>0. UNCHANGED <<tree, report>> /\ report \in Nat /\ tree \in [Files -> Nat]
        BY <1>3, LastReportAssumption DEF CycleSeals, Typed
      <3>1. \A f \in Files : pub'.files[f] <= Newest(f)'
        BY <2>1, <3>0 DEF Newest
      <3>2. \A f \in Published' : tree'[f] <= pub'.files[f]
        BY <2>1, <3>0 DEF Flow, Published, Newest
      <3>3. QED
        BY <2>1, <3>1, <3>2 DEF Call
    <2>5. Caller' /\ Decided'
      BY <2>1 DEF Caller, Decided, Published, Files
    <2>6. RevealClosed'
      BY <2>1 DEF RevealClosed, Decided, Caller
    <2>7. RiskOpened' /\ TicketRowCommitted'
      BY DEF RiskOpened, TicketRowCommitted
    <2>8. QED
      BY <2>2, <2>3, <2>4, <2>5, <2>6, <2>7
  <1>4. CASE CycleEnds
    <2> USE <1>4 DEF CycleEnds
    <2>0. pub' = Idle /\ Idle \in Calls
      BY DEF Calls, Places, Idle, Absent
    <2>1. Typed'
      BY <2>0 DEF Typed, Calls
    <2>2. Flow' /\ Call'
      BY <2>0 DEF Flow, Call, Published, Newest, Idle, Absent, Typed
    <2>3. Caller' /\ Decided'
      BY <2>0 DEF Caller, Decided, Idle, Absent, Files
    <2>4. RevealClosed'
      BY <2>0 DEF RevealClosed, Idle, Absent, Files
    <2>5. RiskOpened'
      BY DEF RiskOpened, Opens, ExecutedStates, Call, Caller, Published
    <2>6. TicketRowCommitted'
      BY DEF TicketRowCommitted, Caller
    <2>7. QED
      BY <2>1, <2>2, <2>3, <2>4, <2>5, <2>6
  <1>5. QED
    BY <1>1, <1>2, <1>3, <1>4 DEF CycleStep

(* The watch reveals only what is over, and opens a ticket only on a commit     *)
(* that holds its row.                                                        *)
LEMMA WatchKeeps ==
    ASSUME IInv, WatchStep
    PROVE  IInv'
  <1> USE Vocabulary DEF IInv, ledger, clone
  <1>1. CASE WatchCollects
    <2> USE <1>1 DEF WatchCollects, Begin
    <2> DEFINE F == [f \in Files |->
                       IF f = "reveal" THEN IF RevealDue THEN 1 ELSE 0
                       ELSE IF f = "report" THEN IF ReportDue THEN report ELSE 0
                       ELSE IF f = "smoke" THEN IF RowDue THEN 1 ELSE 0 ELSE 0]
    <2>0. pub' = [by |-> "watch", at |-> "write", files |-> F, sha |-> FALSE, pushed |-> FALSE]
      BY DEF Idle, Absent, Files
    <2>1. /\ pub' \in Calls /\ pub'.at = "write" /\ pub'.by = "watch"
          /\ ~pub'.sha /\ ~pub'.pushed
          /\ \A f \in Files : IF f = "report" THEN pub'.files[f] \in {0, report}
                              ELSE pub'.files[f] \in {0, 1}
          /\ pub'.files["reveal"] # 0 => dec \in Over
          /\ pub'.files["smoke"] # 0 => what = "smoke"
      <3>1. F \in [Files -> Nat]
        BY LastReportAssumption DEF Typed
      <3>2. /\ \A f \in Files : IF f = "report" THEN F[f] \in {0, report} ELSE F[f] \in {0, 1}
            /\ F["reveal"] # 0 => dec \in Over
            /\ F["smoke"] # 0 => what = "smoke"
        BY DEF Files, RevealDue, RowDue
      <3> HIDE <1>1 DEF F, WatchCollects, Begin
      <3>3. /\ pub'.files = F /\ pub'.at = "write" /\ pub'.by = "watch"
            /\ pub'.sha = FALSE /\ pub'.pushed = FALSE
        BY <2>0
      <3>4. pub' \in Calls
        BY <2>0, <3>1 DEF Calls, Places
      <3>5. QED
        BY <3>2, <3>3, <3>4
    <2> HIDE DEF F
    <2>2. Typed'
      BY <2>1 DEF Typed
    <2>3. Flow'
      BY DEF Flow, Newest
    <2>4. Call'
      <3> HIDE <1>1 DEF WatchCollects, Begin
      <3>0. UNCHANGED <<tree, report>> /\ report \in Nat /\ tree \in [Files -> Nat]
        BY <1>1, LastReportAssumption DEF WatchCollects, Typed
      <3>1. \A f \in Files : pub'.files[f] <= Newest(f)'
        BY <2>1, <3>0 DEF Newest
      <3>2. \A f \in Published' : tree'[f] <= pub'.files[f]
        BY <2>1, <3>0 DEF Flow, Published, Newest
      <3>3. QED
        BY <2>1, <3>1, <3>2 DEF Call
    <2>5. Caller' /\ Decided'
      BY <2>1 DEF Caller, Decided
    <2>6. RevealClosed'
      BY <2>1 DEF RevealClosed, Closed
    <2>7. RiskOpened' /\ TicketRowCommitted'
      BY DEF RiskOpened, TicketRowCommitted
    <2>8. QED
      BY <2>2, <2>3, <2>4, <2>5, <2>6, <2>7
  <1>2. CASE WatchEnds
    <2> USE <1>2 DEF WatchEnds
    <2>0. pub' = Idle /\ Idle \in Calls /\ Counted \subseteq Published
      BY DEF Calls, Places, Idle, Absent, Counted
    <2>1. "smoke" \in Counted => branch["smoke"] # 0 /\ what = "smoke"
      BY DEF Counted, Call, Caller, Published
    <2>2. Typed'
      BY <2>0 DEF Typed, Published
    <2>3. Flow' /\ Call'
      BY <2>0 DEF Flow, Call, Published, Newest, Idle, Absent, Typed
    <2>4. Caller' /\ Decided'
      BY <2>0 DEF Caller, Decided, Idle, Absent, Files
    <2>5. RevealClosed'
      BY <2>0 DEF RevealClosed, Idle, Absent, Files
    <2>6. RiskOpened' /\ TicketRowCommitted'
      BY <2>1 DEF RiskOpened, TicketRowCommitted
    <2>7. QED
      BY <2>2, <2>3, <2>4, <2>5, <2>6
  <1>3. QED
    BY <1>1, <1>2 DEF WatchStep

(* Whatever the operator, an expiry or the watch's settlement of a hold does    *)
(* to the decision and its report, what was over stays over and nothing in the  *)
(* clone or in a call of publish changes.                                     *)
LEMMA LedgerKeeps ==
    ASSUME IInv, Expires \/ HoldSettled \/ OperatorStep
    PROVE  IInv'
  <1> USE Vocabulary DEF IInv, ledger, clone
  <1>1. UNCHANGED <<what, sealed, clone, pub>>
    BY DEF Expires, HoldSettled, OperatorStep, Approve, Executes, Resumes, Stores, Lists,
           Rejects, Reviews, TerminalDies
  <1>2. /\ committed' \in BOOLEAN /\ listed' \in BOOLEAN /\ done' \subseteq Files
        /\ operator' \in {"idle", "executing", "storing", "listing"}
    BY DEF Typed, Expires, HoldSettled, OperatorStep, Approve, Executes, Resumes, Stores, Lists,
           Rejects, Reviews, TerminalDies
  <1>3. report' \in {report, Newer} \cup {0} /\ (report' = 0 => report = 0)
    BY LastReportAssumption
       DEF Typed, Newer, Expires, HoldSettled, OperatorStep, Approve, Executes, Resumes, Stores,
           Lists, Rejects, Reviews, TerminalDies
  <1>4. report' \in 0 .. LastReport /\ report' >= report /\ report \in Nat /\ report' \in Nat
    BY <1>3, LastReportAssumption DEF Typed, Newer
  <1>5. /\ dec' \in DecisionStates \cup {"absent"} /\ (dec # "absent" => dec' # "absent")
        /\ dec \in Closed => dec' \in Closed
        /\ dec' # dec => \/ dec' \in Closed
                         \/ dec = "proposed" /\ dec' = "executing"
    BY DEF Typed, Expires, HoldSettled, OperatorStep, Approve, Executes, Resumes, Stores, Lists,
           Rejects, Reviews, TerminalDies
  <1>6. dec' # dec => \/ dec \in ExecutedStates \cup {"proposed"}
                      \/ dec' \notin ExecutedStates \cup {"proposed"}
    BY DEF ExecutedStates, Expires, HoldSettled, OperatorStep, Approve, Executes, Resumes, Stores,
           Lists, Rejects, Reviews, TerminalDies
  <1>7. Typed'
    BY <1>1, <1>2, <1>4, <1>5 DEF Typed
  <1>8. Flow' /\ Call'
    BY <1>1, <1>4 DEF Flow, Call, Newest, Published, Typed, Calls
  <1>9. Caller' /\ RevealClosed'
    BY <1>1, <1>5 DEF Caller, RevealClosed, Published
  <1>10. Decided'
    BY <1>1, <1>5 DEF Decided, Expires, HoldSettled, OperatorStep, Approve, Executes, Resumes,
           Stores, Lists, Rejects, Reviews, TerminalDies
  <1>11. RiskOpened'
    BY <1>1, <1>6 DEF RiskOpened
  <1>12. TicketRowCommitted'
    BY <1>1, <1>5 DEF TicketRowCommitted
  <1>13. QED
    BY <1>7, <1>8, <1>9, <1>10, <1>11, <1>12

(* The invariant of the clone and of what it makes public holds in every        *)
(* reachable state.                                                           *)
LEMMA Inductive == Spec => []IInv
  <1>1. ASSUME IInv, [Next]_vars PROVE IInv'
    <2>1. CASE UNCHANGED vars
      BY <1>1, <2>1 DEF vars, ledger, clone, IInv, Typed, Flow, Call, Caller, Decided,
         RevealClosed, RiskOpened, TicketRowCommitted, Published, Newest
    <2>2. CASE Next
      BY <1>1, <2>2, WriteKeeps, AddKeeps, CommitKeeps, PushKeeps, CloneKeeps, CycleKeeps,
         WatchKeeps, LedgerKeeps DEF Next, PublishStep
    <2>3. QED
      BY <1>1, <2>1, <2>2
  <1>2. QED
    BY Starts, <1>1, PTL DEF Spec

-----------------------------------------------------------------------------
(* The rows, the clone and the call keep their types, the remote is never ahead *)
(* of the branch nor the branch of the tree, and a call that answers "pushed"   *)
(* left nothing behind (gitops.py, Publisher.publish).                         *)
THEOREM TypeCorrect == Spec => []TypeOK
  <1>1. IInv => TypeOK
    BY LastReportAssumption DEF IInv, Typed, Flow, Call, TypeOK, Newest
  <1>2. QED
    BY <1>1, Inductive, PTL

(* Commit, then act, for every failure and death of publish: no order of a      *)
(* decision that adds risk is prepared before its commitment is on the remote   *)
(* (cycle.py _run, published or not risk_up).                                 *)
THEOREM CommittedBeforeRisk == Spec => []RiskAfterCommitment
  <1>1. IInv => RiskAfterCommitment
    BY DEF IInv, RiskOpened, RiskAfterCommitment, Public, Files
  <1>2. QED
    BY <1>1, Inductive, PTL

(* Act, then reveal: the document of a decision that may still be approved or   *)
(* is being executed never enters the clone (watch.py _reveals).               *)
THEOREM SealedUntilOver == Spec => []SealedWhileOpen
  <1>1. IInv => SealedWhileOpen
    BY Vocabulary DEF IInv, RevealClosed, SealedWhileOpen
  <1>2. QED
    BY <1>1, Inductive, PTL

(* A smoke ticket opens only when its row is in a commit of the journal         *)
(* (watch.py _smoke_published).                                               *)
THEOREM TicketAfterRow == Spec => []TicketRowCommitted
  <1>1. IInv => TicketRowCommitted
    BY DEF IInv
  <1>2. QED
    BY <1>1, Inductive, PTL

=============================================================================
