------------------------------ MODULE Publication ------------------------------
(***************************************************************************)
(* Commit, act, reveal: what becomes public of one decision, and when.     *)
(* A cycle (cycle.py, _seal_and_publish) seals its document and publishes  *)
(* the commitment before its decision may add risk; the watch (watch.py)   *)
(* reveals the document once the decision is over, publishes the report of *)
(* its execution and the row of a smoke ticket; the operator terminal      *)
(* (operator/approve.py) approves, executes and stores reports without     *)
(* ever running git.  All of it goes through one clone (publish/gitops.py) *)
(* whose working tree, index, branch and remote outlive a crash.           *)
(***************************************************************************)
EXTENDS Naturals, LedgerStates

CONSTANT LastReport      \* bound on how often a report is stored (a resume stores it again)

ASSUME LastReportAssumption == LastReport \in Nat \ {0}

VARIABLES what,          \* what is decided: a rebalance that adds risk, one that does not,
                         \* nothing, or a smoke ticket of the terminal
          dec,           \* its state in the ledger
          committed,     \* decisions.published_commit is set
          sealed,        \* the private salts/<cycle>.json exists
          report,        \* version of the runtime row exec_report (0: none)
          listed,        \* its key is in execution_reports
          done,          \* runtime rows revealed, executions_published, smoke_rows_published
          operator,      \* where the operator terminal is
          tree, index,   \* the clone: working tree and index,
          branch, remote,\* its branch and the remote's, as versions of the files (0: absent)
          pub            \* the program that holds council.lock and its call of publish

ledger == <<what, dec, committed, sealed, report, listed>>
clone == <<tree, index, branch, remote>>
vars == <<ledger, done, operator, clone, pub>>

Files == {"commitment", "reveal", "report", "smoke"}
Absent == [f \in Files |-> 0]

Idle == [by |-> "none", at |-> "idle", files |-> Absent, sha |-> FALSE, pushed |-> FALSE]

Over == TerminalStates \cup {"blocked", "execution_unknown"}     \* watch.TERMINAL

Init ==
    /\ what \in {"risk", "reduce", "nothing", "smoke"}
    /\ dec = IF what = "smoke" THEN "awaiting_publication" ELSE "absent"
    /\ committed = FALSE /\ sealed = FALSE /\ report = 0 /\ listed = FALSE
    /\ done = {} /\ operator = "idle"
    /\ tree = Absent /\ index = {} /\ branch = Absent /\ remote = Absent
    /\ pub = Idle

-----------------------------------------------------------------------------
(* publish/gitops.py: Publisher.publish, with the files of pub. *)

Published == {f \in Files : pub.files[f] # 0}

Begin(by, files) == pub' = [Idle EXCEPT !.by = by, !.at = "write", !.files = files]

Return(sha, pushed) ==
    pub' = [pub EXCEPT !.at = "returned", !.sha = sha, !.pushed = pushed]

Raise == pub' = [pub EXCEPT !.at = "raised"]

(* The leak scan, the checks of the clone (an index left staged is refused) and *)
(* of the paths, then the files are written.                                  *)
Write ==
    /\ pub.at = "write"
    /\ \/ /\ index = {}
          /\ tree' = [f \in Files |-> IF f \in Published THEN pub.files[f] ELSE tree[f]]
          /\ pub' = [pub EXCEPT !.at = "add"]
       \/ Raise /\ UNCHANGED tree
    /\ UNCHANGED <<ledger, done, operator, index, branch, remote>>

(* git add; nothing to commit returns without a commit.                        *)
Add ==
    /\ pub.at = "add"
    /\ \/ /\ index' = {f \in Published : tree[f] # branch[f]}
          /\ IF index' = {} THEN Return(FALSE, FALSE) ELSE pub' = [pub EXCEPT !.at = "commit"]
       \/ Raise /\ UNCHANGED index
    /\ UNCHANGED <<ledger, done, operator, tree, branch, remote>>

(* git commit; the check of what it touched may still raise.                   *)
Commit ==
    /\ pub.at = "commit"
    /\ \/ /\ branch' = [f \in Files |-> IF f \in index THEN tree[f] ELSE branch[f]]
          /\ index' = {}
          /\ pub' = [pub EXCEPT !.at = "push"] \/ Raise
       \/ Raise /\ UNCHANGED <<index, branch>>
    /\ UNCHANGED <<ledger, done, operator, tree, remote>>

(* Three attempts; when the last fails the commit stays, and an attempt whose   *)
(* answer was lost may have reached the remote.                                *)
Push ==
    /\ pub.at = "push"
    /\ \/ remote' = branch /\ Return(TRUE, TRUE)
       \/ remote' \in {remote, branch} /\ Return(TRUE, FALSE)
    /\ UNCHANGED <<ledger, done, operator, tree, index, branch>>

(* The process dies, also between two files; its lock is freed, the clone and   *)
(* the ledger stay.                                                           *)
Dies ==
    /\ pub.at # "idle"
    /\ \/ UNCHANGED tree
       \/ /\ pub.at = "write" /\ index = {}
          /\ \E f \in Published : tree' = [tree EXCEPT ![f] = pub.files[f]]
    /\ pub' = Idle
    /\ UNCHANGED <<ledger, done, operator, index, branch, remote>>

(* The programs publish other cycles through the same clone: the push of one    *)
(* takes along what an earlier push left behind.                               *)
LaterPush ==
    /\ pub.at = "idle" /\ index = {} /\ remote # branch
    /\ remote' = branch
    /\ UNCHANGED <<ledger, done, operator, tree, index, branch, pub>>

-----------------------------------------------------------------------------
(* cycle.py *)

(* The decision and the cycle record are stored, the document is sealed ...     *)
CycleDecides ==
    /\ dec = "absent" /\ pub.at = "idle"
    /\ dec' = IF what = "nothing" THEN "reviewed_no_action" ELSE "awaiting_publication"
    /\ pub' = [Idle EXCEPT !.by = "cycle", !.at = "seal"]
    /\ UNCHANGED <<what, committed, sealed, report, listed, done, operator, clone>>

(* ... unless it cannot be made public: the decision then stays closed ...      *)
NotSealed ==
    /\ pub.at = "seal"
    /\ pub' = Idle
    /\ UNCHANGED <<ledger, done, operator, clone>>

(* Mutant: the reveal is published with the commitment of a proposal, too.      *)
CycleSealsOpenly ==
    /\ pub.at = "seal"
    /\ sealed' = TRUE
    /\ Begin("cycle", [Absent EXCEPT !["commitment"] = 1, !["reveal"] = 1])
    /\ UNCHANGED <<what, dec, committed, report, listed, done, operator, clone>>

(* ... and its commitment is published, with the reveal when there is no        *)
(* proposal to hide.                                                           *)
CycleSeals ==
    /\ pub.at = "seal"
    /\ sealed' = TRUE
    /\ Begin("cycle", [Absent EXCEPT !["commitment"] = 1,
                                     !["reveal"] = IF what = "nothing" THEN 1 ELSE 0])
    /\ UNCHANGED <<what, dec, committed, report, listed, done, operator, clone>>

(* Mutant: a commit is taken for a push.                                       *)
OpensCommitted == pub.sha \/ what = "reduce"

(* A proposal that adds risk is opened only when its commitment was pushed.     *)
Opens == pub.pushed \/ what = "reduce"

(* The commit is noted after the transition; the cycle may die in between.      *)
CycleEnds ==
    /\ pub.by = "cycle" /\ pub.at \in {"returned", "raised"}
    /\ IF dec = "awaiting_publication" /\ Opens
       THEN dec' = "proposed" /\ committed' \in {committed, pub.sha}
       ELSE UNCHANGED <<dec, committed>>
    /\ pub' = Idle
    /\ UNCHANGED <<what, sealed, report, listed, done, operator, clone>>

-----------------------------------------------------------------------------
(* watch.py *)

(* Mutant: a decision no operator has taken up counts as over.                  *)
RevealDueEarly ==
    /\ sealed /\ "reveal" \notin done
    /\ dec \in Over \cup {"awaiting_publication"}
    /\ tree["commitment"] # 0

(* _reveals: the decision is over, and the commitment is in the clone.          *)
RevealDue ==
    /\ sealed /\ "reveal" \notin done
    /\ dec \in Over
    /\ tree["commitment"] # 0

(* _executions                                                                *)
ReportDue ==
    /\ listed /\ "report" \notin done
    /\ what # "smoke" /\ dec # "waiting_for_market"

(* _smoke_rows: the row of an open ticket (its later rows are not followed).    *)
RowDue ==
    /\ what = "smoke" /\ "smoke" \notin done
    /\ dec \in PendingStates

WatchCollects ==
    /\ pub.at = "idle"
    /\ RevealDue \/ ReportDue \/ RowDue
    /\ Begin("watch", [Absent EXCEPT
                         !["reveal"] = IF RevealDue THEN 1 ELSE 0,
                         !["report"] = IF ReportDue THEN report ELSE 0,
                         !["smoke"] = IF RowDue THEN 1 ELSE 0])
    /\ UNCHANGED <<ledger, done, operator, clone>>

(* Mutant: the watch goes on as if publish had not raised.                      *)
CountedAnyway == Published

(* Mutant: reveals and reports count as published when publish raised, too.     *)
CountedRaised == {f \in Published : f = "smoke" => pub.sha}

(* What was collected counts as published when publish did not raise; the row   *)
(* of a smoke ticket when it returned a commit.                                *)
Counted ==
    IF pub.at = "raised" THEN {} ELSE {f \in Published : f = "smoke" => pub.sha}

WatchEnds ==
    /\ pub.by = "watch" /\ pub.at \in {"returned", "raised"}
    /\ done' = done \cup Counted
    /\ IF "smoke" \in Counted /\ dec = "awaiting_publication"
       THEN dec' = "proposed" /\ committed' = TRUE
       ELSE UNCHANGED <<dec, committed>>
    /\ pub' = Idle
    /\ UNCHANGED <<what, sealed, report, listed, operator, clone>>

(* expire_stale; and a decision the broker held is settled, its report with it  *)
(* (HeldOrders).                                                               *)
Expires ==
    /\ dec \in PendingStates
    /\ dec' = "expired"
    /\ UNCHANGED <<what, committed, sealed, report, listed, done, operator, clone, pub>>

Newer == IF report < LastReport THEN report + 1 ELSE report

HoldSettled ==
    /\ dec = "waiting_for_market" /\ report < LastReport /\ pub.at = "idle"
    /\ dec' \in {"completed", "completed_partial", "blocked"}
    /\ report' = IF report = 0 THEN 0 ELSE Newer
    /\ UNCHANGED <<what, committed, sealed, listed, done, operator, clone, pub>>

-----------------------------------------------------------------------------
(* operator/approve.py *)

Approve ==
    /\ operator = "idle" /\ dec = "proposed"
    /\ what \in {"risk", "smoke"} => committed
    /\ dec' = "executing"
    /\ operator' = "executing"
    /\ UNCHANGED <<what, committed, sealed, report, listed, done, clone, pub>>

Executes ==
    /\ operator = "executing" /\ dec = "executing"
    /\ dec' \in {"completed", "completed_partial", "blocked", "execution_unknown",
                 "waiting_for_market"}
    /\ operator' = "storing"
    /\ UNCHANGED <<what, committed, sealed, report, listed, done, clone, pub>>

(* resume-exec: the report of an execution in doubt is made again.             *)
Resumes ==
    /\ operator = "idle" /\ report < LastReport
    /\ dec \in {"executing", "execution_unknown", "blocked"}
    /\ dec' \in IF dec = "blocked" THEN {"blocked"}
                ELSE {"completed", "completed_partial", "blocked", "execution_unknown",
                      "waiting_for_market"}
    /\ operator' = "storing"
    /\ UNCHANGED <<what, committed, sealed, report, listed, done, clone, pub>>

Stores ==
    /\ operator = "storing"
    /\ report' = Newer
    /\ operator' = "listing"
    /\ UNCHANGED <<what, dec, committed, sealed, listed, done, clone, pub>>

(* approve lists the new report; _store_report also queues it again.            *)
Lists ==
    /\ operator = "listing"
    /\ listed' = TRUE
    /\ done' = done \ {"report"}
    /\ operator' = "idle"
    /\ UNCHANGED <<what, dec, committed, sealed, report, clone, pub>>

Rejects ==
    /\ operator = "idle" /\ dec \in PendingStates
    /\ dec' = "rejected"
    /\ UNCHANGED <<what, committed, sealed, report, listed, done, operator, clone, pub>>

(* ops resolve, ops review: the operator looked at the broker.                  *)
Reviews ==
    /\ operator = "idle" /\ dec \in {"waiting_for_market", "blocked", "execution_unknown"}
    /\ dec' = "reviewed_no_action"
    /\ UNCHANGED <<what, committed, sealed, report, listed, done, operator, clone, pub>>

TerminalDies ==
    /\ operator # "idle"
    /\ operator' = "idle"
    /\ UNCHANGED <<ledger, done, clone, pub>>

PublishStep == Write \/ Add \/ Commit \/ Push

CycleStep == CycleDecides \/ NotSealed \/ CycleSeals \/ CycleEnds

WatchStep == WatchCollects \/ WatchEnds

OperatorStep ==
    Approve \/ Executes \/ Resumes \/ Stores \/ Lists \/ Rejects \/ Reviews \/ TerminalDies

Next ==
    \/ PublishStep \/ Dies \/ LaterPush
    \/ CycleStep \/ WatchStep \/ Expires \/ HoldSettled
    \/ OperatorStep

Spec == Init /\ [][Next]_vars

(* launchd starts the watch every 15 minutes and a cycle every 4 hours, and     *)
(* they run to their end, from some time on without dying; the files pass the   *)
(* scan and the disk and git answer again and again.                           *)
FairSpec ==
    /\ Spec
    /\ WF_vars(PublishStep) /\ WF_vars(WatchStep)
    /\ WF_vars(CycleSeals \/ CycleEnds)
    /\ SF_vars(Write /\ ~Raise) /\ SF_vars(Add /\ ~Raise) /\ SF_vars(Commit /\ ~Raise)
    /\ SF_vars(LaterPush)
    /\ <>[][~Dies]_vars

-----------------------------------------------------------------------------
(* Properties *)

ExecutedStates ==
    {"executing", "execution_unknown", "waiting_for_market", "completed", "completed_partial"}

TypeOK ==
    /\ what \in {"risk", "reduce", "nothing", "smoke"} /\ dec \in DecisionStates \cup {"absent"}
    /\ done \subseteq Files /\ index \subseteq Files
    /\ \A f \in Files : /\ remote[f] <= branch[f] /\ branch[f] <= tree[f]
                        /\ tree[f] <= LastReport
    /\ report \in 0 .. LastReport
    /\ pub.pushed => remote = branch

Public == {f \in Files : remote[f] # 0}

(* Commit, then act: no order of a decision that adds risk is prepared before   *)
(* its commitment is on the remote, whatever publish, the programs and the      *)
(* clone went through (cycle.py _run: published or not risk_up; approve step 2  *)
(* reads published_commit).                                                   *)
RiskAfterCommitment ==
    what = "risk" /\ dec \in ExecutedStates => "commitment" \in Public

(* Act, then reveal: while a proposal may still be approved or is being         *)
(* executed its document is not in the clone, so no push of anything else can   *)
(* take it along (watch._reveals, _seal_and_publish reveal_now).               *)
SealedWhileOpen ==
    tree["reveal"] # 0 => dec \notin {"awaiting_publication", "proposed", "executing"}

(* A smoke ticket is open for approval only when its row is in a commit of the  *)
(* journal, after any failed publish or death (watch._smoke_published).        *)
TicketRowCommitted ==
    what = "smoke" /\ dec = "proposed" => branch["smoke"] # 0

Stuck == pub = Idle /\ index # {}

(* A finished execution whose report is listed is published in the end, unless  *)
(* the clone was left with a staged file or its orders wait again: a failed     *)
(* publish, a lost push or a resume never makes the watch forget it            *)
(* (watch._executions, executions_published).                                 *)
ListedIsPublished ==
    ReportDue ~> ("report" \in Public \/ Stuck \/ dec = "waiting_for_market")

=============================================================================
