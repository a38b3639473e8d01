---------------------------- MODULE KillSwitchProofs ----------------------------
(***************************************************************************)
(* Theorems about KillSwitch, for any equities, lines, windows and bounds: *)
(* only the operator's resume releases the switch, what the cycle opens    *)
(* suits it, and the walk over the reads confirms a breach exactly when    *)
(* the policy does.  The first two rest on the lock, and on what a run     *)
(* that holds it may still believe; the last on the order of the reads.    *)
(*                                                                         *)
(* Below them, theorems about RiskEngine, for any lines, limits and        *)
(* inputs: the swing entries cost the core nothing, a book that only       *)
(* derisks never adds, and the book a run decides passes its own checks.   *)
(* They rest on one fact about the projection: every step of it moves      *)
(* lines toward zero, inside their intervals, so a limit that is met stays *)
(* met, and what cannot be met ends no worse than the base.  The budgets   *)
(* rest on another: a round that holds nobody found its first candidate,   *)
(* in the order of the keys, within every budget.                          *)
(***************************************************************************)
EXTENDS KillSwitch, RiskEngine, DataInduction, SequenceTheorems, TLAPS

RunSteps == {"idle", "read", "record", "judge", "decide", "publish"}

Runs == [at : RunSteps, age : Nat, held : BOOLEAN, was : KillStates,
         prev : KillStates, verdict : KillStates]

Offers == [state : PendingStates \cup {"none"}, kind : Kinds, up : BOOLEAN,
           published : BOOLEAN, left : Nat, asked : BOOLEAN]

Terminals == [at : {"idle", "nonce", "executing", "resuming"}, kind : Kinds, up : BOOLEAN]

Typed ==
    /\ positions \in BOOLEAN
    /\ kill \in KillStates
    /\ lock \in Runners \cup {"none"}
    /\ run \in [Runners -> Runs]
    /\ offer \in Offers
    /\ operator \in Terminals

(* Whoever runs holds the lock.                                                *)
Exclusive == \A p \in Runners : run[p].at # "idle" <=> lock = p

(* A run that is about to judge knows of a latched switch.                      *)
KnowsLatch ==
    \A p \in Runners : run[p].at = "judge" /\ kill \in LATCHED => run[p].prev \in LATCHED

(* After its verdict nothing but a resume has moved the switch.                 *)
Stands ==
    \A p \in Runners : run[p].at \in {"decide", "publish"} => kill \in {run[p].verdict, "NORMAL"}

(* What the cycle is about to open suits its verdict.                           *)
Suits ==
    run["cycle"].at = "publish" /\ offer.state = "awaiting_publication" =>
        /\ offer.up => run["cycle"].verdict = "NORMAL"
        /\ run["cycle"].verdict \in LATCHED => offer.kind = "flatten"

IInv == Typed /\ Exclusive /\ KnowsLatch /\ Stands /\ Suits

-----------------------------------------------------------------------------
(* The words of the module, listed.                                            *)
LEMMA Vocabulary ==
    /\ KillStates = {"NORMAL", "WARN", "HALTED", "FLAT"} /\ LATCHED = {"HALTED", "FLAT"}
    /\ Runners = {"cycle", "watch"}
    /\ Kinds = {"flatten", "compliance", "rebalance", "smoke"}
    /\ PendingStates = {"awaiting_publication", "proposed"}
  BY DEF KillStates, LATCHED, Runners, Kinds, PendingStates

(* What is left of a deadline is never negative.                               *)
LEMMA LeftIsNat == \A n \in Nat : Largest({n - 1, 0}) \in Nat
  <1> SUFFICES ASSUME NEW n \in Nat PROVE Largest({n - 1, 0}) \in Nat
    OBVIOUS
  <1>1. \E x \in {n - 1, 0} : \A y \in {n - 1, 0} : y <= x
    <2>1. CASE n = 0
      BY <2>1
    <2>2. CASE n # 0
      BY <2>2
    <2>3. QED
      BY <2>1, <2>2
  <1>2. Largest({n - 1, 0}) \in {n - 1, 0} /\ Largest({n - 1, 0}) >= 0
    BY <1>1 DEF Largest
  <1>3. QED
    BY <1>2

(* A run remains one whichever of its locals a step sets.                      *)
LEMMA RunRemains ==
    ASSUME NEW r \in Runs, NEW h \in BOOLEAN, NEW k \in KillStates
    PROVE  /\ [IdleRun EXCEPT !.at = "read"] \in Runs
           /\ [r EXCEPT !.at = "record", !.held = h, !.was = k] \in Runs
           /\ [r EXCEPT !.at = "judge", !.age = 0, !.prev = k] \in Runs
           /\ [r EXCEPT !.at = "decide", !.prev = "NORMAL", !.verdict = k] \in Runs
           /\ [r EXCEPT !.at = "publish"] \in Runs
  <1> USE DEF Runs, RunSteps, KillStates, LATCHED
  <1>1. [IdleRun EXCEPT !.at = "read"] \in Runs
    BY DEF IdleRun
  <1>2. [r EXCEPT !.at = "record", !.held = h, !.was = k] \in Runs
    OBVIOUS
  <1>3. [r EXCEPT !.at = "judge", !.age = 0, !.prev = k] \in Runs
    OBVIOUS
  <1>4. [r EXCEPT !.at = "decide", !.prev = "NORMAL", !.verdict = k] \in Runs
    OBVIOUS
  <1>5. [r EXCEPT !.at = "publish"] \in Runs
    OBVIOUS
  <1>6. QED
    BY <1>1, <1>2, <1>3, <1>4, <1>5

(* Before the first step nobody runs and nothing is latched.                    *)
LEMMA Starts == Init => IInv
  <1> SUFFICES ASSUME Init PROVE IInv
    OBVIOUS
  <1>1. /\ IdleRun \in Runs /\ NoOffer \in Offers /\ Away \in Terminals
    BY DEF IdleRun, Runs, RunSteps, KillStates, NoOffer, Offers, Kinds, Away, Terminals
  <1>2. Typed
    BY <1>1 DEF Init, Typed, KillStates
  <1>3. QED
    BY <1>2, Vocabulary DEF Init, IInv, Exclusive, KnowsLatch, Stands, Suits, IdleRun, LATCHED

(* Letting go of the lock leaves the other program where it was.                *)
LEMMA Releases ==
    ASSUME IInv, NEW p \in Runners, run[p].at # "idle", Release(p)
    PROVE  /\ run' \in [Runners -> Runs] /\ lock' = "none"
           /\ \A q \in Runners : run'[q].at = "idle"
  <1>1. IdleRun \in Runs /\ IdleRun.at = "idle"
    BY DEF IdleRun, Runs, RunSteps, KillStates
  <1>2. QED
    BY <1>1, Vocabulary DEF IInv, Typed, Exclusive, Release

(* A run that starts, breaks off, reads or judges keeps the lock to itself, and *)
(* what it believes of the switch is what it found or what it stored.          *)
LEMMA RunnerKeeps ==
    ASSUME IInv, NEW p \in Runners, RunnerStep(p)
    PROVE  IInv'
  <1> USE Vocabulary DEF account, peaks, At
  <1>1. CASE Start(p)
    <2> USE <1>1 DEF Start, LockFree
    <2>1. offer' \in Offers
      BY DEF Unexpired, NoOffer, Offers, IInv, Typed
    <2>2. run' \in [Runners -> Runs] /\ run'[p].at = "read"
          /\ \A q \in Runners : q # p => run'[q].at = "idle"
      <3> DEFINE fresh == [IdleRun EXCEPT !.at = "read"]
      <3>1. fresh.at = "read"
        BY DEF IdleRun
      <3>2. fresh \in Runs
        BY RunRemains DEF IInv, Typed
      <3>3. run' = [run EXCEPT ![p] = fresh] /\ run \in [Runners -> Runs]
        BY DEF IInv, Typed
      <3>4. \A q \in Runners : run[q].at = "idle"
        BY DEF IInv, Exclusive
      <3> HIDE DEF fresh
      <3>5. QED
        BY <3>1, <3>2, <3>3, <3>4
    <2>3. QED
      BY <2>1, <2>2 DEF IInv, Typed, Exclusive, KnowsLatch, Stands, Suits
  <1>2. CASE BreakOff(p)
    BY <1>2, Releases DEF BreakOff, IInv, Typed, Exclusive, KnowsLatch, Stands, Suits
  <1>3. CASE ReadBroker(p)
    <2> USE <1>3 DEF ReadBroker
    <2>1. run' \in [Runners -> Runs] /\ run'[p].at = "record"
          /\ \A q \in Runners : q # p => run'[q] = run[q]
      <3> DEFINE was == IF p = "watch" THEN kill ELSE run[p].was
                 next == [run[p] EXCEPT !.at = "record", !.held = positions, !.was = was]
      <3>1. run[p] \in Runs /\ was \in KillStates /\ positions \in BOOLEAN
        BY DEF IInv, Typed, Runs
      <3>2. run' = [run EXCEPT ![p] = next] /\ run \in [Runners -> Runs]
        BY DEF IInv, Typed
      <3> HIDE DEF was
      <3>3. next \in Runs
        BY <3>1, RunRemains
      <3>4. next.at = "record"
        BY <3>1 DEF Runs
      <3> HIDE DEF next
      <3>5. QED
        BY <3>2, <3>3, <3>4
    <2>2. /\ UNCHANGED <<positions, kill, lock, offer, operator>> /\ run[p].at = "read"
      BY DEF ReadBroker
    <2>3. QED
      BY <2>1, <2>2 DEF IInv, Typed, Exclusive, KnowsLatch, Stands, Suits
  <1>4. CASE RecordRead(p)
    <2>0. run' = [run EXCEPT ![p] = [@ EXCEPT !.at = "judge", !.age = 0, !.prev = kill]]
          /\ UNCHANGED <<positions, kill, lock, offer, operator>> /\ run[p].at = "record"
      BY <1>4 DEF RecordRead
    <2>1. run' \in [Runners -> Runs] /\ run'[p].at = "judge" /\ run'[p].prev = kill
          /\ \A q \in Runners : q # p => run'[q] = run[q]
      <3> DEFINE next == [run[p] EXCEPT !.at = "judge", !.age = 0, !.prev = kill]
      <3>1. run[p] \in Runs /\ kill \in KillStates /\ run \in [Runners -> Runs]
        BY DEF IInv, Typed
      <3>2. next \in Runs
        BY <3>1, RunRemains
      <3>3. next.at = "judge" /\ next.prev = kill
        BY <3>1 DEF Runs
      <3>4. run' = [run EXCEPT ![p] = next]
        BY <2>0
      <3> HIDE DEF next
      <3>5. QED
        BY <3>1, <3>2, <3>3, <3>4
    <2>2. QED
      BY <2>0, <2>1 DEF IInv, Typed, Exclusive, KnowsLatch, Stands, Suits
  <1>5. CASE Judge(p)
    <2>0. PICK verdict \in KillStates :
             /\ kill' = verdict
             /\ run' = [run EXCEPT ![p] = [@ EXCEPT !.at = "decide", !.prev = "NORMAL",
                                                   !.verdict = verdict]]
      BY <1>5 DEF Judge, Evaluate
    <2>1. UNCHANGED <<positions, lock, offer, operator>> /\ run[p].at = "judge"
      BY <1>5 DEF Judge
    <2>2. run' \in [Runners -> Runs] /\ run'[p].at = "decide" /\ run'[p].verdict = kill'
          /\ \A q \in Runners : q # p => run'[q] = run[q]
      <3> DEFINE next == [run[p] EXCEPT !.at = "decide", !.prev = "NORMAL", !.verdict = verdict]
      <3>1. run[p] \in Runs /\ run \in [Runners -> Runs]
        BY DEF IInv, Typed
      <3>2. next \in Runs
        BY <3>1, RunRemains DEF IInv, Typed
      <3>3. next.at = "decide" /\ next.verdict = kill'
        BY <2>0, <3>1 DEF Runs
      <3>4. run' = [run EXCEPT ![p] = next]
        BY <2>0
      <3> HIDE DEF next
      <3>5. QED
        BY <3>1, <3>2, <3>3, <3>4
    <2>3. \A q \in Runners : q # p => run'[q].at = "idle"
      BY <2>1, <2>2 DEF IInv, Exclusive
    <2>4. QED
      BY <2>0, <2>1, <2>2, <2>3 DEF IInv, Typed, Exclusive, KnowsLatch, Stands, Suits
  <1>6. QED
    BY <1>1, <1>2, <1>3, <1>4, <1>5 DEF RunnerStep

(* What a program proposes suits the verdict it planned under.                  *)
LEMMA ProposalKeeps ==
    ASSUME IInv, CycleStep \/ WatchProposes
    PROVE  IInv'
  <1> USE Vocabulary DEF account, peaks, At
  <1>0. \A k \in Kinds, s \in PendingStates, up \in BOOLEAN :
           /\ Offer(k, s, up) \in Offers
           /\ Offer(k, s, up).kind = k /\ Offer(k, s, up).state = s /\ Offer(k, s, up).up = up
    BY BoundsAssumption DEF Offer, Offers
  <1>1. CASE CycleDecides
    <2> USE <1>1 DEF CycleDecides
    <2>1. PICK d \in CycleKinds(run["cycle"].verdict, run["cycle"].held) :
             offer' = Offer(d[1], "awaiting_publication", d[2])
      OBVIOUS
    <2>2. /\ d[1] \in Kinds /\ d[2] \in BOOLEAN
          /\ d[2] => run["cycle"].verdict = "NORMAL"
          /\ run["cycle"].verdict \in LATCHED => d[1] = "flatten"
      <3>1. CASE run["cycle"].verdict \in LATCHED
        <4>1. d \in IF run["cycle"].held THEN {<<"flatten", FALSE>>} ELSE {}
          BY <2>1, <3>1 DEF CycleKinds
        <4>2. d = <<"flatten", FALSE>>
          BY <4>1
        <4>3. QED
          BY <3>1, <4>2
      <3>2. CASE run["cycle"].verdict \notin LATCHED
        <4>1. d \in {<<"compliance", FALSE>>, <<"rebalance", FALSE>>, <<"rebalance", TRUE>>}
          BY <2>1, <3>2 DEF CycleKinds
        <4>2. d = <<"rebalance", TRUE>> => run["cycle"].verdict = "NORMAL"
          BY <2>1, <3>2 DEF CycleKinds
        <4>3. QED
          <5>1. CASE d = <<"compliance", FALSE>>
            BY <3>2, <5>1
          <5>2. CASE d = <<"rebalance", FALSE>>
            BY <3>2, <5>2
          <5>3. CASE d = <<"rebalance", TRUE>>
            BY <3>2, <4>2, <5>3
          <5>4. QED
            BY <4>1, <5>1, <5>2, <5>3
      <3>3. QED
        BY <3>1, <3>2
    <2>3. /\ offer' \in Offers /\ offer'.up = d[2] /\ offer'.kind = d[1]
      BY <1>0, <2>1, <2>2
    <2>4. run' \in [Runners -> Runs] /\ run'["cycle"].at = "publish"
          /\ run'["cycle"].verdict = run["cycle"].verdict /\ run'["watch"] = run["watch"]
      <3> DEFINE next == [run["cycle"] EXCEPT !.at = "publish"]
      <3>1. run["cycle"] \in Runs /\ run \in [Runners -> Runs]
        BY DEF IInv, Typed
      <3>2. next \in Runs
        BY <3>1, RunRemains DEF IInv, Typed
      <3>3. next.at = "publish" /\ next.verdict = run["cycle"].verdict
        BY <3>1 DEF Runs
      <3>4. run' = [run EXCEPT !["cycle"] = next]
        OBVIOUS
      <3> HIDE DEF next
      <3>5. QED
        BY <3>1, <3>2, <3>3, <3>4
    <2>5. QED
      BY <2>2, <2>3, <2>4 DEF IInv, Typed, Exclusive, KnowsLatch, Stands, Suits
  <1>2. CASE CycleReviews
    BY <1>2, Releases DEF CycleReviews, IInv, Typed, Exclusive, KnowsLatch, Stands, Suits
  <1>3. CASE CyclePublishes
    <2>1. offer' \in Offers
      BY <1>3, ZenonT(60) DEF CyclePublishes, IInv, Typed, Offers
    <2>2. QED
      BY <1>3, <2>1, Releases
         DEF CyclePublishes, IInv, Typed, Exclusive, KnowsLatch, Stands, Suits
  <1>4. CASE WatchProposes
    <2>1. offer' \in Offers
      <3>1. Offer("flatten", "proposed", FALSE) \in Offers
        BY <1>0
      <3>2. offer' = offer \/ offer' = Offer("flatten", "proposed", FALSE)
        BY <1>4 DEF WatchProposes
      <3>3. QED
        BY <3>1, <3>2 DEF IInv, Typed
    <2>2. QED
      BY <1>4, <2>1, Releases
         DEF WatchProposes, IInv, Typed, Exclusive, KnowsLatch, Stands, Suits
  <1>5. QED
    BY <1>1, <1>2, <1>3, <1>4 DEF CycleStep

(* The operator moves the switch only to NORMAL, and no offer but away.         *)
LEMMA OperatorKeeps ==
    ASSUME IInv, OperatorStep
    PROVE  IInv'
  <1> USE Vocabulary DEF IInv, account, peaks
  <1>0. /\ NoOffer \in Offers /\ NoOffer.state = "none"
        /\ [offer EXCEPT !.asked = TRUE] \in Offers /\ [offer EXCEPT !.asked = FALSE] \in Offers
        /\ offer.kind \in Kinds /\ offer.up \in BOOLEAN
    BY DEF Typed, Offers, NoOffer
  <1>1. lock' = lock /\ run' = run
    BY DEF OperatorStep, ApproveShows, ApproveConfirmed, Executed, OperatorLeaves, Rejects,
           ResumeReads, ResumeWrites
  <1>2. kill' \in {kill, "NORMAL"} /\ positions' \in BOOLEAN
    BY DEF Typed, OperatorStep, ApproveShows, ApproveConfirmed, Executed, OperatorLeaves,
           Rejects, ResumeReads, ResumeWrites
  <1>3. offer' \in {offer, NoOffer, [offer EXCEPT !.asked = TRUE], [offer EXCEPT !.asked = FALSE]}
    BY DEF OperatorStep, ApproveShows, ApproveConfirmed, Executed, OperatorLeaves, Rejects,
           ResumeReads, ResumeWrites
  <1>4. /\ offer' \in Offers
        /\ offer'.state # "none" =>
              offer'.state = offer.state /\ offer'.up = offer.up /\ offer'.kind = offer.kind
    BY <1>0, <1>3 DEF Typed, Offers
  <1>5. Away \in Terminals /\ [Away EXCEPT !.at = "resuming"] \in Terminals
        /\ [operator EXCEPT !.at = "executing"] \in Terminals
        /\ [at |-> "nonce", kind |-> offer.kind, up |-> offer.up] \in Terminals
    BY <1>0 DEF Away, Terminals, Typed
  <1>6. operator' \in {operator, Away, [Away EXCEPT !.at = "resuming"],
                       [operator EXCEPT !.at = "executing"],
                       [at |-> "nonce", kind |-> offer.kind, up |-> offer.up]}
    BY DEF OperatorStep, ApproveShows, ApproveConfirmed, Executed, OperatorLeaves, Rejects,
           ResumeReads, ResumeWrites
  <1>7. operator' \in Terminals
    BY <1>5, <1>6 DEF Typed
  <1>8. QED
    BY <1>1, <1>2, <1>4, <1>7 DEF Typed, Exclusive, KnowsLatch, Stands, Suits

(* Time only ages reads, runs and offers.                                      *)
LEMMA WorldKeeps ==
    ASSUME IInv, StopsHit \/ Tick
    PROVE  IInv'
  <1> USE DEF IInv, account, peaks
  <1>1. CASE StopsHit
    BY <1>1 DEF StopsHit, Typed, Exclusive, KnowsLatch, Stands, Suits
  <1>2. CASE Tick
    <2> USE <1>2 DEF Tick
    <2>1. /\ run' \in [Runners -> Runs]
          /\ \A p \in Runners : /\ run'[p].at = run[p].at /\ run'[p].prev = run[p].prev
                                /\ run'[p].verdict = run[p].verdict
      BY DEF Typed, Runs
    <2>2. offer' \in Offers /\ offer'.state = offer.state /\ offer'.up = offer.up
          /\ offer'.kind = offer.kind
      BY LeftIsNat DEF Typed, Offers
    <2>3. QED
      BY <2>1, <2>2, Vocabulary DEF Typed, Exclusive, KnowsLatch, Stands, Suits
  <1>3. QED
    BY <1>1, <1>2

(* The invariant holds in every reachable state.                               *)
LEMMA Inductive == Spec => []IInv
  <1>1. ASSUME IInv, [Next]_vars PROVE IInv'
    <2>1. CASE UNCHANGED vars
      BY <1>1, <2>1 DEF vars, account, IInv, Typed, Exclusive, KnowsLatch, Stands, Suits
    <2>2. CASE Next
      BY <1>1, <2>2, RunnerKeeps, ProposalKeeps, OperatorKeeps, WorldKeeps DEF Next
    <2>3. QED
      BY <1>1, <2>1, <2>2
  <1>2. QED
    BY Starts, <1>1, PTL DEF Spec

-----------------------------------------------------------------------------
(* HALTED and FLAT are left by the operator's resume alone, whatever the cycle  *)
(* and the watch read, drop or break off, and however breaches are confirmed    *)
(* (killswitch.py evaluate, runtime.instance_lock).                            *)
THEOREM ReleasedByResume == Spec => OnlyResumeReleases
  <1>1. ASSUME IInv, [Next]_vars, kill \in LATCHED, kill' \notin LATCHED
        PROVE  operator.at = "resuming"
    <2> USE <1>1, Vocabulary DEF account, peaks, At
    <2>1. ASSUME NEW p \in Runners, RunnerStep(p) PROVE operator.at = "resuming"
      <3>1. CASE Judge(p)
        <4>1. run[p].prev \in LATCHED
          BY <3>1 DEF Judge, IInv, KnowsLatch
        <4>2. kill' \in {"HALTED", "FLAT"}
          BY <3>1, <4>1 DEF Judge, Evaluate
        <4>3. QED
          BY <4>2
      <3>2. QED
        BY <2>1, <3>1 DEF RunnerStep, Start, BreakOff, ReadBroker, RecordRead
    <2>2. CASE OperatorStep
      BY <2>2 DEF OperatorStep, ApproveShows, ApproveConfirmed, Executed, OperatorLeaves, Rejects,
                  ResumeReads, ResumeWrites
    <2>3. CASE CycleStep \/ WatchProposes \/ StopsHit \/ Tick \/ UNCHANGED vars
      BY <2>3 DEF CycleStep, CycleDecides, CycleReviews, CyclePublishes, WatchProposes, StopsHit,
                  Tick, vars
    <2>4. QED
      BY <2>1, <2>2, <2>3 DEF Next
  <1>2. [Next]_vars /\ IInv => [(kill \in LATCHED /\ kill' \notin LATCHED) => operator.at = "resuming"]_vars
    BY <1>1
  <1>3. QED
    BY <1>2, Inductive, PTL DEF Spec, OnlyResumeReleases

(* What is opened for approval suits the switch as it is at that moment: the    *)
(* lock keeps the watch from halting under a cycle that plans and publishes     *)
(* (killswitch.allows_increase, cycle.py).                                    *)
THEOREM OffersSuit == Spec => OffersSuitTheSwitch
  <1>1. ASSUME IInv, [Next]_vars, offer'.state = "proposed", offer.state # "proposed"
        PROVE  /\ offer'.up => kill = "NORMAL"
               /\ kill \in LATCHED => offer'.kind = "flatten"
    <2> USE <1>1, Vocabulary DEF account, peaks, At
    <2>1. ASSUME NEW p \in Runners, RunnerStep(p) PROVE FALSE
      BY <2>1 DEF RunnerStep, Start, Unexpired, NoOffer, BreakOff, ReadBroker, RecordRead, Judge
    <2>2. ASSUME OperatorStep \/ StopsHit \/ Tick \/ UNCHANGED vars PROVE FALSE
      <3>1. NoOffer.state = "none" /\ \A b \in BOOLEAN : [offer EXCEPT !.asked = b].state = offer.state
        BY DEF NoOffer, IInv, Typed, Offers
      <3>2. CASE OperatorStep
        <4>1. offer' \in {offer, NoOffer, [offer EXCEPT !.asked = TRUE], [offer EXCEPT !.asked = FALSE]}
          BY <3>2 DEF OperatorStep, ApproveShows, ApproveConfirmed, Executed, OperatorLeaves,
                      Rejects, ResumeReads, ResumeWrites
        <4>2. QED
          BY <3>1, <4>1
      <3>3. CASE Tick
        BY <3>3 DEF Tick, IInv, Typed, Offers
      <3>4. CASE StopsHit \/ UNCHANGED vars
        BY <3>4 DEF StopsHit, vars
      <3>5. QED
        BY <2>2, <3>2, <3>3, <3>4
    <2>3. CASE CycleStep
      <3>1. ~CycleDecides /\ ~CycleReviews
        BY DEF CycleDecides, CycleReviews, Offer
      <3>2. CyclePublishes
        BY <2>3, <3>1 DEF CycleStep
      <3>3. offer'.up = offer.up /\ offer'.kind = offer.kind
        BY <3>2 DEF CyclePublishes, IInv, Typed, Offers
      <3>4. QED
        BY <3>2, <3>3 DEF CyclePublishes, IInv, Suits, Stands
    <2>4. CASE WatchProposes
      BY <2>4 DEF WatchProposes, Offer
    <2>5. QED
      BY <2>1, <2>2, <2>3, <2>4 DEF Next
  <1>2. [Next]_vars /\ IInv =>
           [(offer'.state = "proposed" /\ offer.state # "proposed") =>
               /\ offer'.up => kill = "NORMAL"
               /\ kill \in LATCHED => offer'.kind = "flatten"]_vars
    BY <1>1
  <1>3. QED
    BY <1>2, Inductive, PTL DEF Spec, OffersSuitTheSwitch

-----------------------------------------------------------------------------
(* The walk back through the reads finds as many breaches, each a gap from the   *)
(* others, as there are to find.                                               *)
FirstOf(S) == [T \in SUBSET S |-> CHOOSE x \in T : \A y \in T : x <= y]

(* The first element of a set of numbers, as the walk finds it, is its       *)
(* least.                                                                    *)
LEMMA FirstIsIn ==
    ASSUME NEW n \in Nat, NEW T \in SUBSET (1 .. n), T # {}
    PROVE  FirstOf(1 .. n)[T] \in T /\ \A y \in T : FirstOf(1 .. n)[T] <= y
<1>1. T \in SUBSET Nat
  OBVIOUS
<1>2. \E x \in T : \A y \in T : x <= y
  BY <1>1, LeastNumber
<1> QED
  BY <1>2 DEF FirstOf

(* Members of U that confirm each other among the reads of T: `age` has the ages  *)
(* of the reads, B those that breach.                                           *)
Confirming(U, T, age, B, gap) ==
    /\ U \subseteq T
    /\ \A i, j \in U : i = j \/ age[i] - age[j] >= gap \/ age[j] - age[i] >= gap
    /\ \A i \in U, k \in T : k >= i => k \in B

Walks == [count : Nat, last : Int, broken : BOOLEAN]

(* What the walk has in hand after the reads of T is the best there is.           *)
Found(a, T, age, B, gap) ==
    /\ a \in Walks
    /\ \E U : Confirming(U, T, age, B, gap) /\ Cardinality(U) = a.count
              /\ \A i \in U : age[i] <= a.last
Best(a, T, age, B, gap) ==
    \A U : Confirming(U, T, age, B, gap) =>
        /\ Cardinality(U) <= a.count
        /\ ~a.broken /\ Cardinality(U) = a.count /\ a.count > 0 => \E i \in U : age[i] >= a.last
InHand(a, T, age, B, gap) ==
    /\ Found(a, T, age, B, gap) /\ Best(a, T, age, B, gap)
    /\ IF a.broken THEN \E k \in T : k \notin B ELSE T \subseteq B
    /\ a.count > 0 => \E i \in T : age[i] = a.last

Walked(a, breach, g, gap) ==
    IF a.broken THEN a
    ELSE IF ~breach THEN [a EXCEPT !.broken = TRUE]
    ELSE IF a.count = 0 \/ g - a.last >= gap THEN [a EXCEPT !.count = @ + 1, !.last = g]
    ELSE a

LEMMA WalkedIsWalk ==
    ASSUME NEW a \in Walks, NEW breach, NEW g \in Int, NEW gap
    PROVE  Walked(a, breach, g, gap) \in Walks
<1>1. a.count \in Nat /\ a.count + 1 \in Nat
  BY DEF Walks
<1>2. [a EXCEPT !.broken = TRUE] \in Walks
  BY DEF Walks
<1>3. [a EXCEPT !.count = @ + 1, !.last = g] \in Walks
  BY <1>1 DEF Walks
<1>4. Walked(a, breach, g, gap) \in {a, [a EXCEPT !.broken = TRUE], [a EXCEPT !.count = @ + 1, !.last = g]}
  BY Zenon DEF Walked
<1> QED
  BY <1>2, <1>3, <1>4

LEMMA WalkStarts ==
    ASSUME NEW age, NEW B, NEW gap
    PROVE  InHand([count |-> 0, last |-> 0, broken |-> FALSE], {}, age, B, gap)
<1> DEFINE a == [count |-> 0, last |-> 0, broken |-> FALSE]
<1>1. a \in Walks /\ a.count = 0 /\ ~a.broken
  BY DEF Walks
<1>2. Cardinality({}) = 0
  BY FS_EmptySet
<1>3. Confirming({}, {}, age, B, gap) /\ \A U : Confirming(U, {}, age, B, gap) => U = {}
  BY DEF Confirming
<1> HIDE DEF a
<1>4. Found(a, {}, age, B, gap)
  BY <1>1, <1>2, <1>3 DEF Found
<1>5. Best(a, {}, age, B, gap)
  BY <1>1, <1>2, <1>3 DEF Best
<1> QED
  BY <1>1, <1>4, <1>5 DEF InHand, a

(* One read more, older than those walked through.                              *)
LEMMA WalkGoesOn ==
    ASSUME NEW n \in Nat, NEW age \in [1 .. n -> Int], \A i, j \in 1 .. n : i <= j => age[j] <= age[i],
           NEW B, NEW gap \in Nat \ {0}, NEW T \in SUBSET (1 .. n), NEW m \in T,
           \A k \in T : m <= k, NEW a, InHand(a, T \ {m}, age, B, gap)
    PROVE  InHand(Walked(a, m \in B, age[m], gap), T, age, B, gap)
<1> DEFINE R == T \ {m}
           b == Walked(a, m \in B, age[m], gap)
<1>0. /\ T \subseteq Nat /\ m \in Nat /\ \A k \in T : age[k] \in Int /\ age[k] <= age[m]
      /\ a \in Walks /\ a.count \in Nat /\ a.last \in Int /\ a.broken \in BOOLEAN
  BY DEF InHand, Found, Walks
<1>1. \A U : U \subseteq T => IsFiniteSet(U) /\ Cardinality(U) \in Nat
  <2>1. IsFiniteSet(1 .. n)
    BY FS_Interval
  <2>2. IsFiniteSet(T)
    BY <2>1, FS_Subset
  <2> QED
    BY <2>2, FS_Subset, FS_CardinalityType
<1>2. \A U : Confirming(U, T, age, B, gap) => Confirming(U \ {m}, R, age, B, gap)
  BY DEF Confirming
<1>3. ASSUME NEW U, Confirming(U, T, age, B, gap), m \notin U
      PROVE  U \ {m} = U
  BY <1>3
<1>4. ASSUME NEW U, Confirming(U, T, age, B, gap), m \in U
      PROVE  Cardinality(U) = Cardinality(U \ {m}) + 1 /\ T \subseteq B
  <2>1. U \subseteq T /\ \A k \in T : k >= m => k \in B
    BY <1>4 DEF Confirming
  <2>2. IsFiniteSet(U) /\ Cardinality(U) \in Nat /\ Cardinality(U \ {m}) = Cardinality(U) - 1
    BY <1>1, <1>4, <2>1, FS_RemoveElement
  <2> QED
    BY <1>0, <2>1, <2>2
<1>5. ASSUME NEW U, Confirming(U, R, age, B, gap)
      PROVE  Confirming(U, T, age, B, gap) /\ m \notin U /\ IsFiniteSet(U)
  <2>1. U \subseteq R /\ \A i \in U : i \in Nat /\ i > m
    BY <1>0, <1>5 DEF Confirming
  <2>2. \A i \in U, k \in T : k >= i => k \in R
    BY <1>0, <2>1
  <2> QED
    BY <1>1, <1>5, <2>1, <2>2 DEF Confirming
<1>6. PICK W : Confirming(W, R, age, B, gap) /\ Cardinality(W) = a.count /\ \A i \in W : age[i] <= a.last
  BY DEF InHand, Found
<1>7. \A U : Confirming(U, R, age, B, gap) => Cardinality(U) <= a.count
  BY DEF InHand, Best
<1>8. ~a.broken => R \subseteq B
  BY DEF InHand
<1>9. CASE a.broken \/ m \notin B
  <2>1. b.count = a.count /\ b.last = a.last /\ b \in Walks /\ b.broken
    BY <1>0, <1>9 DEF Walked, Walks
  <2>2. \E k \in T : k \notin B
    BY <1>9 DEF InHand
  <2>3. ASSUME NEW U, Confirming(U, T, age, B, gap) PROVE Confirming(U, R, age, B, gap)
    BY <1>2, <1>3, <1>4, <2>2, <2>3
  <2>4. a.count > 0 => \E i \in T : age[i] = a.last
    BY DEF InHand
  <2> HIDE DEF b, R
  <2>5. Found(b, T, age, B, gap)
    BY <1>5, <1>6, <2>1 DEF Found
  <2>6. Best(b, T, age, B, gap)
    BY <1>7, <2>1, <2>3 DEF Best
  <2> QED
    BY <2>1, <2>2, <2>4, <2>5, <2>6 DEF InHand, b
<1>10. CASE ~a.broken /\ m \in B /\ (a.count = 0 \/ age[m] - a.last >= gap)
  <2>0. b = [a EXCEPT !.count = @ + 1, !.last = age[m]]
    BY <1>10, Zenon DEF Walked
  <2>1. b.count = a.count + 1 /\ b.last = age[m] /\ b \in Walks /\ ~b.broken
    <3> HIDE DEF b
    <3>1. age[m] \in Int /\ a.count + 1 \in Nat
      BY <1>0
    <3> QED
      BY <1>0, <1>10, <2>0, <3>1 DEF Walks
  <2>2. T \subseteq B
    BY <1>8, <1>10
  <2> DEFINE X == W \cup {m}
  <2>3. W \subseteq R /\ IsFiniteSet(W) /\ m \notin W
    BY <1>5, <1>6 DEF Confirming
  <2>4. \A i \in W : age[m] - age[i] >= gap
    <3>1. CASE a.count = 0
      BY <1>6, <2>3, <3>1, FS_EmptySet
    <3>2. CASE age[m] - a.last >= gap
      BY <1>0, <1>6, <2>3, <3>2
    <3> QED
      BY <1>10, <3>1, <3>2
  <2>5. Confirming(X, T, age, B, gap)
    BY <1>6, <2>2, <2>3, <2>4 DEF Confirming
  <2>6. Cardinality(X) = b.count /\ \A i \in X : age[i] <= b.last
    <3>1. Cardinality(X) = a.count + 1
      BY <1>6, <2>3, OneMore
    <3> QED
      BY <1>0, <2>1, <2>3, <3>1
  <2> HIDE DEF b, R, X
  <2>7. Found(b, T, age, B, gap)
    BY <2>1, <2>5, <2>6 DEF Found
  <2>8. ASSUME NEW U, Confirming(U, T, age, B, gap)
        PROVE  Cardinality(U) <= b.count /\ (Cardinality(U) = b.count => m \in U)
    <3>1. U \ {m} \subseteq T
      BY <2>8 DEF Confirming
    <3>2. Cardinality(U \ {m}) <= a.count /\ Cardinality(U \ {m}) \in Nat
      BY <1>1, <1>2, <1>7, <2>8, <3>1
    <3>3. CASE m \in U
      <4>1. Cardinality(U) = Cardinality(U \ {m}) + 1
        BY <1>4, <2>8, <3>3
      <4> QED
        BY <1>0, <2>1, <3>2, <3>3, <4>1
    <3>4. CASE m \notin U
      <4>1. Cardinality(U) = Cardinality(U \ {m})
        BY <1>3, <2>8, <3>4
      <4> QED
        BY <1>0, <2>1, <3>2, <4>1
    <3> QED
      BY <3>3, <3>4
  <2>9. Best(b, T, age, B, gap)
    BY <1>0, <2>1, <2>8 DEF Best
  <2> QED
    BY <1>0, <2>1, <2>2, <2>7, <2>9 DEF InHand, b
<1>11. CASE ~a.broken /\ m \in B /\ a.count > 0 /\ age[m] - a.last < gap
  <2>1. b = a
    BY <1>0, <1>11 DEF Walked
  <2>2. T \subseteq B
    BY <1>8, <1>11
  <2>3. PICK t \in R : age[t] = a.last
    BY <1>11 DEF InHand
  <2>4. a.last <= age[m]
    BY <1>0, <2>3
  <2>5. Found(a, T, age, B, gap)
    BY <1>0, <1>5, <1>6 DEF Found
  <2>6. ASSUME NEW U, Confirming(U, T, age, B, gap), m \in U
        PROVE  Cardinality(U) <= a.count
    <3> DEFINE V == U \ {m}
    <3>1. Confirming(V, R, age, B, gap) /\ Cardinality(V) <= a.count /\ Cardinality(U) = Cardinality(V) + 1
          /\ Cardinality(V) \in Nat
      <4>1. V \subseteq T
        BY <2>6 DEF Confirming
      <4> QED
        BY <1>1, <1>2, <1>4, <1>7, <2>6, <4>1
    <3>2. CASE Cardinality(V) = a.count
      <4>1. PICK i \in V : age[i] >= a.last
        BY <1>11, <3>1, <3>2 DEF InHand, Best
      <4>2. i \in T /\ (age[i] - age[m] >= gap \/ age[m] - age[i] >= gap)
        BY <2>6, <4>1 DEF Confirming
      <4> QED
        BY <1>0, <1>11, <4>1, <4>2
    <3> QED
      BY <1>0, <3>1, <3>2
  <2>7. Best(a, T, age, B, gap)
    <3> SUFFICES ASSUME NEW U, Confirming(U, T, age, B, gap)
                 PROVE  /\ Cardinality(U) <= a.count
                        /\ Cardinality(U) = a.count => \E i \in U : age[i] >= a.last
      BY DEF Best
    <3>1. CASE m \in U
      BY <2>4, <2>6, <3>1
    <3>2. CASE m \notin U
      <4>1. Confirming(U, R, age, B, gap)
        BY ZenonT(30), <1>2, <1>3, <3>2
      <4> QED
        BY <1>11, <4>1 DEF InHand, Best
    <3> QED
      BY <3>1, <3>2
  <2>8. InHand(a, T, age, B, gap)
    BY <1>11, <2>2, <2>3, <2>5, <2>7 DEF InHand
  <2> QED
    BY <2>1, <2>8
<1>12. \/ a.broken \/ m \notin B
       \/ ~a.broken /\ m \in B /\ (a.count = 0 \/ age[m] - a.last >= gap)
       \/ ~a.broken /\ m \in B /\ a.count > 0 /\ age[m] - a.last < gap
  BY <1>0
<1> QED
  BY <1>9, <1>10, <1>11, <1>12

(* The greedy walk counts the largest set of breaching reads that confirm    *)
(* one another: it reaches c exactly when some set of size c does.           *)
LEMMA WalkIsBest ==
    ASSUME NEW raw \in Seq([age : Nat, eq : Equities]), NEW line, NEW pk, NEW rpk, NEW c \in Nat,
           \A i, j \in DOMAIN raw : i <= j => raw[j].age <= raw[i].age
    PROVE  LET B == {i \in DOMAIN raw : AtOrBelow(raw[i].eq, line, pk, rpk)}
               age == [i \in DOMAIN raw |-> raw[i].age]
           IN  /\ Confirmed(raw, line, pk, rpk) \in Nat
               /\ Confirmed(raw, line, pk, rpk) >= c
                    <=> \E U : Confirming(U, DOMAIN raw, age, B, Gap) /\ Cardinality(U) >= c
<1> DEFINE n == Len(raw)
           S == 1 .. n
           B == {i \in DOMAIN raw : AtOrBelow(raw[i].eq, line, pk, rpk)}
           age == [i \in DOMAIN raw |-> raw[i].age]
           walk(read, acc) ==
             IF acc.broken THEN acc
             ELSE IF ~AtOrBelow(read.eq, line, pk, rpk) THEN [acc EXCEPT !.broken = TRUE]
             ELSE IF acc.count = 0 \/ read.age - acc.last >= Gap
             THEN [acc EXCEPT !.count = @ + 1, !.last = read.age]
             ELSE acc
           none == [count |-> 0, last |-> 0, broken |-> FALSE]
           Body(F) == [T \in SUBSET S |-> IF T = {} THEN none ELSE LET i == Min(T) IN walk(raw[i], F[T \ {i}])]
           it == CHOOSE F : F = Body(F)
           st == [p \in S \X Walks |-> Walked(p[2], p[1] \in B, age[p[1]], Gap)]
           pick == FirstOf(S)
<1>1. /\ n \in Nat /\ DOMAIN raw = S /\ Gap \in Nat \ {0}
      /\ age \in [S -> Int] /\ \A i, j \in S : i <= j => age[j] <= age[i]
      /\ \A i \in S : raw[i].age = age[i] /\ (i \in B <=> AtOrBelow(raw[i].eq, line, pk, rpk))
  <2>1. n \in Nat /\ DOMAIN raw = S /\ \A i \in S : raw[i] \in [age : Nat, eq : Equities]
    <3>1. n \in Nat /\ DOMAIN raw = S
      BY LenProperties
    <3>2. \A i \in S : raw[i] \in [age : Nat, eq : Equities]
      BY <3>1, ElementOfSeq
    <3> QED
      BY <3>1, <3>2
  <2>2. Gap \in Nat \ {0}
    BY BoundsAssumption
  <2> HIDE DEF S, n
  <2>3. \A i \in S : i \in B <=> AtOrBelow(raw[i].eq, line, pk, rpk)
    BY <2>1
  <2> HIDE DEF B
  <2>4. \A i \in S : raw[i].age = age[i] /\ age[i] \in Int
    BY <2>1
  <2>5. age \in [S -> Int]
    BY <2>1, <2>4
  <2>6. \A i, j \in S : i <= j => age[j] <= age[i]
    BY <2>1
  <2> HIDE DEF age
  <2> QED
    BY <2>1, <2>2, <2>3, <2>4, <2>5, <2>6
<1>2. IsFiniteSet(S) /\ \A T \in SUBSET S : T # {} => pick[T] \in T /\ pick[T] = Min(T) /\ \A k \in T : pick[T] <= k
  <2>1. \A T \in SUBSET S : pick[T] = Min(T)
    BY DEF FirstOf, Min
  <2>2. IsFiniteSet(S)
    <3> HIDE DEF n
    <3> QED
      BY <1>1, FS_Interval
  <2>3. \A T \in SUBSET S : T # {} => pick[T] \in T /\ \A k \in T : pick[T] <= k
    <3> HIDE DEF n
    <3> QED
      BY <1>1, FirstIsIn
  <2> HIDE DEF pick, S
  <2> QED
    BY <2>1, <2>2, <2>3
<1>3. ASSUME NEW a \in Walks, NEW i \in S
      PROVE  walk(raw[i], a) = Walked(a, i \in B, age[i], Gap) /\ Walked(a, i \in B, age[i], Gap) \in Walks
  <2>1. walk(raw[i], a) = Walked(a, i \in B, age[i], Gap)
    BY <1>1 DEF Walked
  <2>2. Walked(a, i \in B, age[i], Gap) \in Walks
    BY <1>1, WalkedIsWalk
  <2> QED
    BY <2>1, <2>2
<1>4. none \in Walks
  BY DEF Walks
<1> HIDE DEF walk, none, B, age
<1>5. st \in [S \X Walks -> Walks]
  BY <1>3
<1>6. PICK G \in [SUBSET S -> Walks] : Peeling(G, S, none, st, pick)
  <2>1. IsFiniteSet(S) /\ \A T \in SUBSET S : T # {} => pick[T] \in T
    BY <1>2
  <2> HIDE DEF S, st, pick
  <2> QED
    BY <1>4, <1>5, <2>1, SubsetRecursion
<1>7. ASSUME NEW T \in SUBSET S, T # {}
      PROVE  G[T] = Walked(G[T \ {pick[T]}], pick[T] \in B, age[pick[T]], Gap)
             /\ G[T] = walk(raw[pick[T]], G[T \ {pick[T]}])
  <2>1. G[T] = st[<<pick[T], G[T \ {pick[T]}]>>]
    BY <1>6, <1>7 DEF Peeling
  <2>2. pick[T] \in S /\ T \ {pick[T]} \in SUBSET S
    BY <1>2, <1>7
  <2> HIDE DEF pick, S
  <2>3. G[T \ {pick[T]}] \in Walks
    BY <2>2
  <2>4. G[T] = Walked(G[T \ {pick[T]}], pick[T] \in B, age[pick[T]], Gap)
    BY <2>1, <2>2, <2>3
  <2> QED
    BY <1>3, <2>2, <2>3, <2>4
<1>8. G[{}] = none
  BY <1>6 DEF Peeling
<1>9. G = Body(G)
  <2>1. ASSUME NEW T \in SUBSET S PROVE G[T] = Body(G)[T]
    <3>1. CASE T = {}
      BY <1>8, <3>1
    <3>2. CASE T # {}
      <4>1. pick[T] = Min(T)
        BY <1>2, <3>2
      <4> HIDE DEF pick, S
      <4> QED
        BY <1>7, <3>2, <4>1
    <3> QED
      BY <3>1, <3>2
  <2> HIDE DEF S, pick
  <2> QED
    BY <2>1
<1>10. it = Body(it)
  <2> HIDE DEF Body
  <2> QED
    BY <1>9
<1>11. ASSUME NEW T \in SUBSET S PROVE it[T] = IF T = {} THEN none ELSE walk(raw[pick[T]], it[T \ {pick[T]}])
  <2>1. it[T] = IF T = {} THEN none ELSE LET i == Min(T) IN walk(raw[i], it[T \ {i}])
    <3> HIDE DEF it, S
    <3> QED
      BY <1>10
  <2> HIDE DEF it, S, pick
  <2> QED
    BY <1>2, <2>1
<1> HIDE DEF it
<1> DEFINE P == {T \in SUBSET S : it[T] \in Walks /\ InHand(it[T], T, age, B, Gap)}
<1>12. ASSUME NEW T \in SUBSET S, \A U \in SUBSET T : U # T => U \in P PROVE T \in P
  <2>1. CASE T = {}
    <3>1. InHand(none, {}, age, B, Gap)
      BY WalkStarts DEF none
    <3> QED
      BY <1>4, <1>11, <2>1, <3>1
  <2>2. CASE T # {}
    <3> DEFINE m == pick[T]
               R == T \ {m}
    <3>1. m \in T /\ R \in P /\ \A k \in T : m <= k
      BY <1>2, <1>12, <2>2
    <3>2. it[R] \in Walks /\ InHand(it[R], R, age, B, Gap) /\ m \in S
      BY <3>1
    <3>3. it[T] = Walked(it[R], m \in B, age[m], Gap) /\ it[T] \in Walks
      <4>1. it[T] = walk(raw[m], it[R])
        BY <1>11, <2>2
      <4> HIDE DEF m, R, S, pick
      <4> QED
        BY <1>3, <3>2, <4>1
    <3>4. InHand(Walked(it[R], m \in B, age[m], Gap), T, age, B, Gap)
      <4> HIDE DEF m, pick
      <4> QED
        BY <1>1, <3>1, <3>2, WalkGoesOn
    <3> HIDE DEF m, R, S, pick
    <3> QED
      BY <3>3, <3>4
  <2> QED
    BY <2>1, <2>2
<1>13. SUBSET S \subseteq P
  <2> HIDE DEF P, S
  <2> QED
    BY <1>2, <1>12, SubsetInduction
<1>14. it[S] \in Walks /\ Found(it[S], S, age, B, Gap) /\ Best(it[S], S, age, B, Gap)
  <2>1. S \in P
    BY <1>13
  <2> QED
    BY <2>1 DEF InHand
<1>15. Confirmed(raw, line, pk, rpk) = it[S].count
  BY <1>1 DEF Confirmed, FoldRight, MapThenFoldSet, it, walk, none
<1>16. it[S].count \in Nat
  BY <1>14 DEF Walks
<1>17. \A U : Confirming(U, S, age, B, Gap) => Cardinality(U) \in Nat /\ Cardinality(U) <= it[S].count
  <2> SUFFICES ASSUME NEW U, Confirming(U, S, age, B, Gap)
               PROVE  Cardinality(U) \in Nat /\ Cardinality(U) <= it[S].count
    OBVIOUS
  <2>1. Cardinality(U) <= it[S].count
    BY <1>14 DEF Best
  <2>2. U \subseteq S
    BY DEF Confirming
  <2>3. Cardinality(U) \in Nat
    BY <1>2, <2>2, FS_Subset, FS_CardinalityType
  <2> QED
    BY <2>1, <2>3
<1>18. \E U : Confirming(U, S, age, B, Gap) /\ Cardinality(U) = it[S].count
  BY <1>14 DEF Found
<1>19. Confirmed(raw, line, pk, rpk) >= c <=> \E U : Confirming(U, S, age, B, Gap) /\ Cardinality(U) >= c
  <2> HIDE DEF S
  <2> QED
    BY <1>15, <1>16, <1>17, <1>18
<1> QED
  BY <1>1, <1>15, <1>16, <1>19 DEF B, age

(* The walk finds a confirmed breach exactly where the policy words one.          *)
ReadsInOrder ==
    /\ reads \in Seq([age : Nat, eq : Equities])
    /\ \A i, j \in DOMAIN reads : i <= j => reads[j].age <= reads[i].age
    /\ \A p \in Runners : Running(p) =>
          /\ run[p].age <= Delay
          /\ \A i \in DOMAIN reads : run[p].age <= reads[i].age

(* With the reads in order the walk of the code decides as the policy says. *)
LEMMA WalkIsPolicy ==
    ASSUME ReadsInOrder
    PROVE  Confirmed(reads, HaltAt, PeakNow, RealPeakNow) >= ConfirmReads <=> Breaching
<1> DEFINE S == DOMAIN reads
           B == {i \in S : AtOrBelow(reads[i].eq, HaltAt, PeakNow, RealPeakNow)}
           age == [i \in S |-> reads[i].age]
<1>1. Confirmed(reads, HaltAt, PeakNow, RealPeakNow) >= ConfirmReads
         <=> \E U : Confirming(U, S, age, B, Gap) /\ Cardinality(U) >= ConfirmReads
  <2>1. reads \in Seq([age : Nat, eq : Equities]) /\ ConfirmReads \in Nat
        /\ \A i, j \in DOMAIN reads : i <= j => reads[j].age <= reads[i].age
    BY BoundsAssumption DEF ReadsInOrder
  <2> QED
    BY <2>1, WalkIsBest
<1>2. \A U : Confirming(U, S, age, B, Gap) <=>
         /\ U \in SUBSET S
         /\ \A i, j \in U : i = j \/ Apart(reads[i], reads[j])
         /\ \A i \in U, k \in S : k >= i => AtOrBelow(reads[k].eq, HaltAt, PeakNow, RealPeakNow)
  BY DEF Confirming, Apart
<1> HIDE DEF B, age
<1> QED
  BY <1>1, <1>2 DEF Breaching

-----------------------------------------------------------------------------
(* The reads stay in the order in which they were taken.                         *)
ReadRow == [age : Nat, eq : Equities]
InOrder(s, T) ==
    /\ s \in Seq(ReadRow)
    /\ \A i, j \in DOMAIN s : i <= j => s[j].age <= s[i].age
    /\ \A i \in DOMAIN s : \E j \in T : s[i] = reads[j]

LEMMA AppendedInOrder ==
    ASSUME NEW s \in Seq(ReadRow), \A i, j \in DOMAIN s : i <= j => s[j].age <= s[i].age,
           NEW r \in ReadRow, \A i \in DOMAIN s : r.age <= s[i].age
    PROVE  /\ Append(s, r) \in Seq(ReadRow)
           /\ \A i, j \in DOMAIN Append(s, r) : i <= j => Append(s, r)[j].age <= Append(s, r)[i].age
<1> DEFINE t == Append(s, r)
           n == Len(s)
<1>1. /\ t \in Seq(ReadRow) /\ n \in Nat /\ DOMAIN t = 1 .. n + 1 /\ DOMAIN s = 1 .. n
      /\ t[n + 1] = r /\ \A i \in 1 .. n : t[i] = s[i]
  BY AppendProperties, LenProperties
<1>2. \A i \in DOMAIN s : s[i] \in ReadRow
  BY <1>1, ElementOfSeq
<1>3. r.age \in Nat /\ \A i \in DOMAIN s : s[i].age \in Nat
  BY <1>2 DEF ReadRow
<1> HIDE DEF t, n
<1>4. ASSUME NEW i \in DOMAIN t, NEW j \in DOMAIN t, i <= j PROVE t[j].age <= t[i].age
  <2>1. CASE j = n + 1 /\ i = n + 1
    BY <1>1, <1>3, <2>1
  <2>2. CASE j = n + 1 /\ i # n + 1
    <3>1. i \in 1 .. n
      BY <1>1, <2>2
    <3> QED
      BY <1>1, <2>2, <3>1
  <2>3. CASE j # n + 1
    <3>1. i \in 1 .. n /\ j \in 1 .. n
      BY <1>1, <1>4, <2>3
    <3> QED
      BY <1>1, <1>4, <3>1
  <2> QED
    BY <2>1, <2>2, <2>3
<1> QED
  BY <1>1, <1>4 DEF t

LEMMA RecentInOrder ==
    ASSUME ReadsInOrder, NEW p
    PROVE  InOrder(Recent(p), DOMAIN reads)
<1> DEFINE n == Len(reads)
           S == DOMAIN reads
           new(r) == r.age - run[p].age <= Window
           Take(kept, r) == IF r.age - run[p].age <= Window THEN Append(kept, r) ELSE kept
           Body(F) == [T \in SUBSET S |-> IF T = {} THEN << >> ELSE LET i == Max(T) IN Take(F[T \ {i}], reads[i])]
           it == CHOOSE F : F = Body(F)
           st == [q \in S \X Seq(ReadRow) |-> Take(q[2], reads[q[1]])]
           pk == LastOf(S)
<1>1. reads \in Seq(ReadRow) /\ \A i, j \in S : i <= j => reads[j].age <= reads[i].age
  BY DEF ReadsInOrder, ReadRow
<1>2. n \in Nat /\ S = 1 .. n /\ \A i \in S : reads[i] \in ReadRow
  BY <1>1, LenProperties, ElementOfSeq
<1>3. IsFiniteSet(S) /\ \A T \in SUBSET S : T # {} => pk[T] \in T
  <2> HIDE DEF n
  <2>1. IsFiniteSet(1 .. n)
    BY <1>2, FS_Interval
  <2>2. \A T \in SUBSET (1 .. n) : T # {} => LastOf(1 .. n)[T] \in T
    BY <1>2, LastIsIn
  <2> QED
    BY <1>2, <2>1, <2>2
<1>4. ASSUME NEW T \in SUBSET S, T # {} PROVE pk[T] = Max(T) /\ \A k \in T : k <= pk[T]
  <2>1. pk[T] = Max(T)
    BY DEF LastOf, Max
  <2>2. \A y \in T : LastOf(1 .. n)[T] >= y
    <3> HIDE DEF n
    <3> QED
      BY <1>2, <1>4, LastIsIn
  <2>3. LastOf(1 .. n) = pk
    BY <1>2
  <2>4. pk[T] \in Int /\ \A y \in T : y \in Int
    <3> HIDE DEF n, pk
    <3> QED
      BY <1>2, <1>3, <1>4
  <2> HIDE DEF n, pk, S
  <2> QED
    BY <2>1, <2>2, <2>3, <2>4
<1>5. ASSUME NEW kept \in Seq(ReadRow), NEW r \in ReadRow PROVE Take(kept, r) \in Seq(ReadRow)
  OBVIOUS
<1> HIDE DEF Take
<1>6. <<>> \in Seq(ReadRow) /\ st \in [S \X Seq(ReadRow) -> Seq(ReadRow)]
  BY <1>2, <1>5
<1>7. PICK G \in [SUBSET S -> Seq(ReadRow)] : Peeling(G, S, <<>>, st, pk)
  <2> HIDE DEF S, st, pk
  <2> QED
    BY <1>3, <1>6, SubsetRecursion
<1>8. G = Body(G)
  <2>1. ASSUME NEW T \in SUBSET S PROVE G[T] = Body(G)[T]
    <3>1. G[T] = IF T = {} THEN <<>> ELSE st[<<pk[T], G[T \ {pk[T]}]>>]
      BY <1>7 DEF Peeling
    <3>2. CASE T = {}
      BY <3>1, <3>2
    <3>3. CASE T # {}
      <4>1. pk[T] \in S /\ pk[T] = Max(T) /\ T \ {pk[T]} \in SUBSET S
        BY <1>3, <1>4, <3>3
      <4> HIDE DEF pk, S
      <4>2. G[T \ {pk[T]}] \in Seq(ReadRow)
        BY <4>1
      <4>3. G[T] = Take(G[T \ {pk[T]}], reads[pk[T]])
        BY <3>1, <3>3, <4>1, <4>2
      <4> HIDE DEF st
      <4> QED
        BY <3>3, <4>1, <4>3
    <3> QED
      BY <3>2, <3>3
  <2> HIDE DEF S, st, pk
  <2> QED
    BY <2>1
<1>9. it = Body(it)
  <2> HIDE DEF Body
  <2> QED
    BY <1>8
<1> HIDE DEF it
<1> DEFINE P == {T \in SUBSET S : InOrder(it[T], T)}
<1>10. ASSUME NEW T \in SUBSET S, \A U \in SUBSET T : U # T => U \in P PROVE T \in P
  <2>1. it[T] = IF T = {} THEN <<>> ELSE LET i == Max(T) IN Take(it[T \ {i}], reads[i])
    <3> HIDE DEF S
    <3> QED
      BY <1>9
  <2>2. CASE T = {}
    <3>1. InOrder(<<>>, {})
      BY DEF InOrder
    <3> QED
      BY <2>1, <2>2, <3>1
  <2>3. CASE T # {}
    <3> DEFINE m == pk[T]
               R == T \ {m}
               a == it[R]
    <3>1. m \in T /\ m \in S /\ R \in P /\ \A k \in T : k <= m
      BY <1>3, <1>4, <1>10, <2>3
    <3>2. it[T] = Take(a, reads[m])
      BY <1>4, <2>1, <2>3
    <3>3. InOrder(a, R) /\ reads[m] \in ReadRow
      BY <1>2, <3>1
    <3>4. \A i \in DOMAIN a : reads[m].age <= a[i].age
      <4> TAKE i \in DOMAIN a
      <4>1. PICK j \in R : a[i] = reads[j]
        BY <3>3 DEF InOrder
      <4>2. j \in S /\ j <= m
        BY <3>1, <4>1
      <4> HIDE DEF m, a, S
      <4> QED
        BY <1>1, <3>1, <4>1, <4>2
    <3>5. InOrder(a, T)
      <4> HIDE DEF a, m
      <4> QED
        BY <3>3 DEF InOrder, R
    <3>6. InOrder(Append(a, reads[m]), T)
      <4> HIDE DEF a, m
      <4>1. a \in Seq(ReadRow) /\ \A i, j \in DOMAIN a : i <= j => a[j].age <= a[i].age
        BY <3>3 DEF InOrder
      <4>2. /\ Append(a, reads[m]) \in Seq(ReadRow)
            /\ \A i, j \in DOMAIN Append(a, reads[m]) :
                  i <= j => Append(a, reads[m])[j].age <= Append(a, reads[m])[i].age
        BY <3>3, <3>4, <4>1, AppendedInOrder
      <4>3. \A i \in DOMAIN Append(a, reads[m]) : \E j \in T : Append(a, reads[m])[i] = reads[j]
        <5>1. DOMAIN a = 1 .. Len(a) /\ Len(a) \in Nat
          BY <4>1, LenProperties
        <5>2. /\ DOMAIN Append(a, reads[m]) = 1 .. Len(a) + 1
              /\ Append(a, reads[m])[Len(a) + 1] = reads[m]
              /\ \A i \in 1 .. Len(a) : Append(a, reads[m])[i] = a[i]
          BY <3>3, <4>1, AppendProperties
        <5>3. \A i \in DOMAIN a : \E j \in T : a[i] = reads[j]
          BY <3>5 DEF InOrder
        <5>4. \A i \in 1 .. Len(a) + 1 : i = Len(a) + 1 \/ i \in 1 .. Len(a)
          BY <5>1
        <5> QED
          BY <3>1, <5>1, <5>2, <5>3, <5>4
      <4> QED
        BY <4>2, <4>3 DEF InOrder
    <3> HIDE DEF a, m, R, S
    <3> QED
      BY <3>2, <3>5, <3>6 DEF Take
  <2> QED
    BY <2>2, <2>3
<1>11. SUBSET S \subseteq P
  <2> HIDE DEF P, S
  <2> QED
    BY <1>3, <1>10, SubsetInduction
<1>12. S \in P
  BY <1>11
<1>13. Recent(p) = it[S]
  BY DEF Recent, FoldLeft, MapThenFoldSet, it, Take
<1> QED
  BY <1>12, <1>13

(* A read is stamped with the start of its run, and the lock lets no later   *)
(* run record before it.                                                     *)
LEMMA RecordKeepsOrder ==
    ASSUME IInv, ReadsInOrder, NEW p \in Runners, RecordRead(p)
    PROVE  ReadsInOrder'
<1> DEFINE all == Recent(p)
           from == Largest({1, Len(all) - Keep + 1})
           kept == SubSeq(all, from, Len(all))
<1>1. InOrder(all, DOMAIN reads)
  BY RecentInOrder
<1>2. /\ all \in Seq(ReadRow) /\ Len(all) \in Nat /\ DOMAIN all = 1 .. Len(all)
      /\ \A i, j \in DOMAIN all : i <= j => all[j].age <= all[i].age
      /\ \A i \in DOMAIN all : all[i] \in ReadRow /\ \E j \in DOMAIN reads : all[i] = reads[j]
  BY <1>1, LenProperties, ElementOfSeq DEF InOrder
<1> HIDE DEF all
<1>3. from \in Int /\ from >= 1
  <2>1. Keep \in Nat /\ Len(all) - Keep + 1 \in Int
    BY <1>2, BoundsAssumption
  <2>2. \A a, b \in Int : Largest({a, b}) \in Int /\ Largest({a, b}) >= a
    <3> SUFFICES ASSUME NEW a \in Int, NEW b \in Int PROVE Largest({a, b}) \in Int /\ Largest({a, b}) >= a
      OBVIOUS
    <3>1. \E x \in {a, b} : \A y \in {a, b} : y <= x
      OBVIOUS
    <3>2. Largest({a, b}) \in {a, b} /\ \A y \in {a, b} : y <= Largest({a, b})
      BY <3>1 DEF Largest
    <3> QED
      BY <3>2
  <2> QED
    BY <2>1, <2>2
<1> HIDE DEF from
<1>4. /\ kept \in Seq(ReadRow) /\ \A i, j \in DOMAIN kept : i <= j => kept[j].age <= kept[i].age
      /\ \A i \in DOMAIN kept : \E j \in DOMAIN reads : kept[i] = reads[j]
  <2>1. \A i \in from .. Len(all) : all[i] \in ReadRow
    BY <1>2, <1>3
  <2>2. /\ kept \in Seq(ReadRow)
        /\ Len(kept) = IF from <= Len(all) THEN Len(all) - from + 1 ELSE 0
        /\ \A i \in 1 .. Len(all) - from + 1 : kept[i] = all[from + i - 1]
    BY <1>2, <1>3, <2>1, SubSeqProperties
  <2>3. DOMAIN kept = 1 .. Len(kept) /\ Len(kept) \in Nat
    BY <2>2, LenProperties
  <2> HIDE DEF kept
  <2>4. \A i \in DOMAIN kept : from + i - 1 \in DOMAIN all /\ kept[i] = all[from + i - 1] /\ i \in Int
    BY <1>2, <1>3, <2>2, <2>3
  <2>5. \A i, j \in DOMAIN kept : i <= j => from + i - 1 <= from + j - 1
    BY <1>3, <2>4
  <2> QED
    BY <1>2, <2>2, <2>4, <2>5
<1> HIDE DEF kept
<1>5. PICK eq \in Equities : reads' = Append(kept, [age |-> run[p].age, eq |-> eq])
  BY DEF RecordRead, kept, from, all
<1> DEFINE r == [age |-> run[p].age, eq |-> eq]
<1>6. run[p].at = "record" /\ run[p] \in Runs /\ run \in [Runners -> Runs]
  BY DEF RecordRead, At, IInv, Typed
<1>7. r \in ReadRow /\ r.age = run[p].age
  BY <1>6 DEF ReadRow, Runs
<1>8. \A i \in DOMAIN kept : r.age <= kept[i].age
  <2>1. \A i \in DOMAIN reads : run[p].age <= reads[i].age
    BY <1>6 DEF ReadsInOrder, Running, At
  <2> HIDE DEF r
  <2> QED
    BY <1>4, <1>7, <2>1
<1>9. \A q \in Runners : run'[q].at \notin {"read", "record"}
  <2>1. run' = [run EXCEPT ![p] = [@ EXCEPT !.at = "judge", !.age = 0, !.prev = kill]]
    BY DEF RecordRead
  <2>2. run'[p].at = "judge"
    BY <1>6, <2>1 DEF Runs
  <2>3. \A q \in Runners : q # p => run[q].at = "idle" /\ run'[q] = run[q]
    BY <1>6, <2>1 DEF IInv, Exclusive
  <2> QED
    BY <2>2, <2>3
<1> HIDE DEF r
<1>10. /\ reads' \in Seq(ReadRow)
       /\ \A i, j \in DOMAIN reads' : i <= j => reads'[j].age <= reads'[i].age
  <2>1. /\ Append(kept, r) \in Seq(ReadRow)
        /\ \A i, j \in DOMAIN Append(kept, r) : i <= j => Append(kept, r)[j].age <= Append(kept, r)[i].age
    BY <1>4, <1>7, <1>8, AppendedInOrder
  <2> QED
    BY <1>5, <2>1 DEF r
<1> QED
  BY <1>9, <1>10 DEF ReadsInOrder, ReadRow, Running, At

LEMMA TickKeepsOrder ==
    ASSUME IInv, ReadsInOrder, Tick
    PROVE  ReadsInOrder'
<1>1. Oldest \in Nat /\ Delay \in Nat /\ Delay < Oldest
  BY BoundsAssumption DEF Oldest
<1> DEFINE older(a) == Least({a + 1, Oldest})
<1>2. \A a \in Nat : older(a) \in Nat /\ (IF a + 1 <= Oldest THEN older(a) = a + 1 ELSE older(a) = Oldest)
  <2> SUFFICES ASSUME NEW a \in Nat
               PROVE  older(a) \in Nat /\ (IF a + 1 <= Oldest THEN older(a) = a + 1 ELSE older(a) = Oldest)
    OBVIOUS
  <2>1. \E x \in {a + 1, Oldest} : \A y \in {a + 1, Oldest} : x <= y
    BY <1>1
  <2>2. older(a) \in {a + 1, Oldest} /\ \A y \in {a + 1, Oldest} : older(a) <= y
    BY <2>1 DEF Least
  <2> QED
    BY <1>1, <2>2
<1> DEFINE row(i) == [reads[i] EXCEPT !.age = older(@)]
<1>3. reads' = [i \in DOMAIN reads |-> row(i)]
  BY DEF Tick
<1>4. reads \in Seq(ReadRow) /\ \A i \in DOMAIN reads : reads[i] \in ReadRow
  BY ElementOfSeq, LenProperties DEF ReadsInOrder, ReadRow
<1> HIDE DEF older
<1>5. \A i \in DOMAIN reads : row(i) \in ReadRow /\ row(i).age = older(reads[i].age) /\ reads[i].age \in Nat
  BY <1>2, <1>4 DEF ReadRow
<1>6. DOMAIN reads = 1 .. Len(reads) /\ Len(reads) \in Nat
  BY <1>4, LenProperties
<1> HIDE DEF row
<1>7. reads' \in Seq(ReadRow) /\ DOMAIN reads' = DOMAIN reads
      /\ \A i \in DOMAIN reads : reads'[i].age = older(reads[i].age)
  BY <1>3, <1>5, <1>6
<1>8. \A i, j \in DOMAIN reads : i <= j => older(reads[j].age) <= older(reads[i].age)
  <2> SUFFICES ASSUME NEW i \in DOMAIN reads, NEW j \in DOMAIN reads, i <= j
               PROVE  older(reads[j].age) <= older(reads[i].age)
    OBVIOUS
  <2>1. reads[j].age <= reads[i].age
    BY DEF ReadsInOrder
  <2> QED
    BY <1>1, <1>2, <1>5, <2>1
<1>9. ASSUME NEW p \in Runners, Running(p)'
      PROVE  run'[p].age <= Delay /\ \A i \in DOMAIN reads : run'[p].age <= older(reads[i].age)
  <2>1. run' = [q \in Runners |-> [run[q] EXCEPT !.age = IF Running(q) THEN @ + 1 ELSE @]]
        /\ run \in [Runners -> Runs] /\ run[p] \in Runs
    BY DEF Tick, IInv, Typed
  <2>2. run'[p].at = run[p].at /\ run'[p].age = (IF Running(p) THEN run[p].age + 1 ELSE run[p].age)
        /\ run[p].age \in Nat
    BY <2>1 DEF Runs
  <2>3. Running(p)
    BY <1>9, <2>2 DEF Running, At
  <2>4. run[p].age < Delay /\ run'[p].age = run[p].age + 1
    BY <2>2, <2>3 DEF Tick
  <2>5. \A i \in DOMAIN reads : run[p].age <= reads[i].age
    BY <2>3 DEF ReadsInOrder
  <2> QED
    BY <1>1, <1>2, <1>5, <2>2, <2>4, <2>5
<1> QED
  BY <1>7, <1>8, <1>9 DEF ReadsInOrder, ReadRow

LEMMA OrderKept ==
    ASSUME IInv, ReadsInOrder, [Next]_vars
    PROVE  ReadsInOrder'
<1> USE DEF account, peaks, At
<1>0. run \in [Runners -> Runs] /\ \A q \in Runners : run[q] \in Runs
  BY DEF IInv, Typed
<1>1. ASSUME reads' = reads,
             \A q \in Runners : Running(q)' => Running(q) /\ run'[q].age = run[q].age
      PROVE  ReadsInOrder'
  BY <1>1 DEF ReadsInOrder
<1>2. ASSUME NEW p \in Runners, Start(p) PROVE ReadsInOrder'
  <2> DEFINE fresh == [IdleRun EXCEPT !.at = "read"]
  <2>1. fresh.age = 0 /\ run' = [run EXCEPT ![p] = fresh] /\ reads' = reads /\ lock = "none"
    BY <1>2 DEF Start, LockFree, IdleRun
  <2>2. \A q \in Runners : run[q].at = "idle"
    BY <2>1, Vocabulary DEF IInv, Exclusive
  <2> HIDE DEF fresh
  <2>3. \A q \in Runners : Running(q)' => run'[q].age = 0
    BY <1>0, <2>1, <2>2 DEF Running
  <2>4. Delay \in Nat /\ \A i \in DOMAIN reads : reads[i].age \in Nat
    <3>1. \A i \in DOMAIN reads : reads[i] \in [age : Nat, eq : Equities]
      BY ElementOfSeq, LenProperties DEF ReadsInOrder
    <3> QED
      BY <3>1, BoundsAssumption
  <2> QED
    BY <2>1, <2>3, <2>4 DEF ReadsInOrder
<1>3. ASSUME NEW p \in Runners, ReadBroker(p) PROVE ReadsInOrder'
  <2>1. reads' = reads /\ run[p].at = "read"
    BY <1>3 DEF ReadBroker
  <2>2. \A q \in Runners : q # p => run'[q] = run[q]
    BY <1>0, <1>3 DEF ReadBroker
  <2>3. run'[p].age = run[p].age
    BY <1>0, <1>3 DEF ReadBroker, Runs
  <2> QED
    BY <1>1, <2>1, <2>2, <2>3 DEF Running
<1>4. ASSUME NEW p \in Runners, BreakOff(p) \/ Judge(p) PROVE ReadsInOrder'
  <2>1. reads' = reads /\ \A q \in Runners : q # p => run'[q] = run[q]
    BY <1>0, <1>4 DEF BreakOff, Judge, Release
  <2>2. run'[p].at \in {"idle", "decide"}
    <3>1. CASE BreakOff(p)
      <4>1. run' = [run EXCEPT ![p] = IdleRun] /\ IdleRun.at = "idle"
        BY <3>1 DEF BreakOff, Release, IdleRun
      <4> QED
        BY <1>0, <4>1
    <3>2. CASE Judge(p)
      <4>1. PICK verdict : run' = [run EXCEPT ![p] = [@ EXCEPT !.at = "decide", !.prev = "NORMAL",
                                                             !.verdict = verdict]]
        BY <3>2 DEF Judge
      <4> DEFINE next == [run[p] EXCEPT !.at = "decide", !.prev = "NORMAL", !.verdict = verdict]
      <4>2. run' = [run EXCEPT ![p] = next] /\ next.at = "decide"
        BY <1>0, <4>1 DEF Runs
      <4> HIDE DEF next
      <4> QED
        BY <1>0, <4>2
    <3> QED
      BY <1>4, <3>1, <3>2
  <2> QED
    BY <1>1, <2>1, <2>2 DEF Running
<1>5. CASE CycleStep \/ WatchProposes
  <2>1. reads' = reads
    BY <1>5 DEF CycleStep, CycleDecides, CycleReviews, CyclePublishes, WatchProposes
  <2>2. \A q \in Runners : run'[q] = run[q] \/ run'[q].at \in {"idle", "publish"}
    <3>1. CASE CycleDecides
      <4> DEFINE next == [run["cycle"] EXCEPT !.at = "publish"]
      <4>1. run' = [run EXCEPT !["cycle"] = next] /\ next.at = "publish"
        BY <1>0, <3>1, Vocabulary DEF CycleDecides, Runs
      <4> HIDE DEF next
      <4> QED
        BY <1>0, <4>1
    <3>2. CASE CycleReviews \/ CyclePublishes \/ WatchProposes
      <4>1. PICK p \in Runners : run' = [run EXCEPT ![p] = IdleRun]
        BY <3>2, Vocabulary DEF CycleReviews, CyclePublishes, WatchProposes, Release
      <4>2. IdleRun.at = "idle"
        BY DEF IdleRun
      <4> QED
        BY <1>0, <4>1, <4>2
    <3> QED
      BY <1>5, <3>1, <3>2 DEF CycleStep
  <2> QED
    BY <1>1, <2>1, <2>2 DEF Running
<1>6. CASE OperatorStep \/ StopsHit \/ UNCHANGED vars
  <2>1. reads' = reads /\ run' = run
    BY <1>6 DEF OperatorStep, ApproveShows, ApproveConfirmed, Executed, OperatorLeaves, Rejects,
                ResumeReads, ResumeWrites, StopsHit, vars
  <2> QED
    BY <1>1, <2>1 DEF Running
<1> QED
  BY <1>2, <1>3, <1>4, <1>5, <1>6, RecordKeepsOrder, TickKeepsOrder DEF Next, RunnerStep

(* The stored reads are in order of age, whatever interleaves. *)
LEMMA AlwaysInOrder == Spec => [](IInv /\ ReadsInOrder)
<1>1. Init => ReadsInOrder
  BY DEF Init, ReadsInOrder, Running, At, IdleRun
<1>2. IInv /\ ReadsInOrder /\ [Next]_vars => ReadsInOrder'
  BY OrderKept
<1> QED
  BY <1>1, <1>2, Inductive, PTL DEF Spec

-----------------------------------------------------------------------------
(* A check latches the switch exactly when the policy says so: it was latched     *)
(* when read, or enough breaching reads, each a gap from the others, with no      *)
(* read above the line since the oldest of them.  The walk of the code over the   *)
(* reads it keeps never misses a confirmation and never makes one up, for any     *)
(* lines, windows, fees and equities (killswitch.evaluate,                       *)
(* confirmed_breach_reads).                                                    *)
THEOREM HaltIsConfirmed == Spec => HaltsWhenConfirmed
<1>1. ASSUME IInv, ReadsInOrder, [Next]_vars, NEW p \in Runners, Judged(p)
      PROVE  kill' \in LATCHED <=> run[p].prev \in LATCHED \/ Breaching
  <2>1. run \in [Runners -> Runs] /\ run[p].at = "judge" /\ run'[p].at = "decide"
        /\ \A q \in Runners : q # p => run[q].at = "idle"
    BY <1>1 DEF Judged, At, IInv, Typed, Exclusive
  <2>2. Judge(p)
    <3>1. ASSUME NEW q \in Runners, RunnerStep(q) PROVE Judge(p)
      <4>1. CASE q = p
        BY <2>1, <3>1, <4>1 DEF RunnerStep, Start, BreakOff, ReadBroker, RecordRead, At, Release, IdleRun
      <4>2. CASE q # p
        <5>1. run[q].at = "idle" /\ Start(q)
          BY <2>1, <3>1, <4>2 DEF RunnerStep, BreakOff, ReadBroker, RecordRead, Judge, At
        <5> QED
          BY <2>1, <4>2, <5>1 DEF Start
      <4> QED
        BY <4>1, <4>2
    <3>2. ~CycleStep /\ ~WatchProposes
      BY <1>1, <2>1 DEF CycleStep, CycleDecides, CycleReviews, CyclePublishes, WatchProposes, At, Release,
                        IdleRun
    <3>3. run' # run
      BY <2>1
    <3>4. ~OperatorStep /\ ~StopsHit /\ ~UNCHANGED vars
      BY <3>3 DEF OperatorStep, ApproveShows, ApproveConfirmed, Executed, OperatorLeaves, Rejects,
                  ResumeReads, ResumeWrites, StopsHit, vars
    <3>5. ~Tick
      BY <2>1 DEF Tick, At
    <3> QED
      BY <1>1, <3>1, <3>2, <3>4, <3>5 DEF Next
  <2>3. kill' = Evaluate(reads, PeakNow, RealPeakNow, run[p].prev, run[p].held)
    BY <2>2 DEF Judge
  <2>4. kill' \in LATCHED <=>
           \/ run[p].prev \in LATCHED
           \/ Confirmed(reads, HaltAt, PeakNow, RealPeakNow) >= ConfirmReads
    BY <2>3 DEF Evaluate, LATCHED
  <2> QED
    BY <1>1, <2>4, WalkIsPolicy
<1>2. IInv /\ ReadsInOrder /\ [Next]_vars =>
         [\A p \in Runners : Judged(p) => (kill' \in LATCHED <=> run[p].prev \in LATCHED \/ Breaching)]_vars
  BY <1>1
<1> QED
  BY <1>2, AlwaysInOrder, PTL DEF Spec, HaltsWhenConfirmed

-----------------------------------------------------------------------------
(* Sums over the lines: Sum adds up along the engine's order of the lines.      *)
AddsUp(to, f) ==
    /\ to \in [0 .. N -> Int]
    /\ to[0] = 0 /\ \A l \in Lines : to[l] = to[l - 1] + f[l]

(* Sum is the last of the partial sums of its function. *)
LEMMA SumAdds ==
    ASSUME NEW f, IntOn(f, Lines)
    PROVE  \E to : AddsUp(to, f) /\ Sum(f) = to[N]
<1> DEFINE Body(F) == [l \in 0 .. N |-> IF l = 0 THEN 0 ELSE F[l - 1] + f[l]]
           it == CHOOSE F : F = Body(F)
           st == [p \in Nat \X Int |-> p[2] + (IF p[1] \in Lines THEN f[p[1]] ELSE 0)]
<1>0. N \in Nat /\ Lines = 1 .. N /\ \A l \in Lines : f[l] \in Int
  BY RiskConstants DEF Lines, IntOn
<1>1. st \in [Nat \X Int -> Int]
  BY <1>0
<1>2. \E F \in [Nat -> Int] : Iterates(F, 0, st)
  <2> DEFINE start == 0
             V == Int
  <2>1. start \in V /\ st \in [Nat \X V -> V]
    BY <1>1
  <2>2. \E F \in [Nat -> V] : Iterates(F, start, st)
    <3> HIDE DEF st, start, V
    <3> QED
      BY <2>1, NumberRecursion
  <2> QED
    BY <2>2
<1>3. PICK F \in [Nat -> Int] : Iterates(F, 0, st)
  BY <1>2
<1> DEFINE G == [l \in 0 .. N |-> F[l]]
<1>4. G = Body(G)
  <2>1. ASSUME NEW l \in 0 .. N PROVE G[l] = Body(G)[l]
    <3>1. F[l] = IF l = 0 THEN 0 ELSE st[<<l, F[l - 1]>>]
      <4>1. l \in Nat
        BY <1>0
      <4> HIDE DEF st
      <4> QED
        BY <4>1, <1>3 DEF Iterates
    <3>2. CASE l = 0
      BY <3>1, <3>2
    <3>3. CASE l # 0
      <4>1. l \in Lines /\ l - 1 \in 0 .. N /\ l \in Nat /\ F[l - 1] \in Int
        BY <1>0, <3>3, <1>3
      <4>2. <<l, F[l - 1]>> \in Nat \X Int
        BY <4>1
      <4>3. st[<<l, F[l - 1]>>] = F[l - 1] + f[l]
        BY <4>1, <4>2
      <4> QED
        BY <3>1, <3>3, <4>1, <4>3
    <3> QED
      BY <3>2, <3>3
  <2> QED
    BY <2>1
<1>5. it = Body(it)
  BY <1>4
<1>6. Sum(f) = it[N]
  BY DEF Sum
<1> HIDE DEF it, st, G
<1>7. \A l \in 0 .. N : it[l] = IF l = 0 THEN 0 ELSE it[l - 1] + f[l]
  BY <1>5
<1>8. DOMAIN it = 0 .. N
  BY <1>5
<1> DEFINE P == {l \in 0 .. N : it[l] \in Int}
<1>9. 0 \in P
  BY <1>0, <1>7
<1>10. ASSUME NEW k \in 0 .. N - 1, k \in P PROVE k + 1 \in P
  <2>1. k + 1 \in Lines /\ k + 1 \in 0 .. N /\ (k + 1) - 1 = k /\ k + 1 # 0
    BY <1>0
  <2>2. it[k + 1] = it[k] + f[k + 1]
    BY <2>1, <1>7
  <2>3. it[k] \in Int /\ f[k + 1] \in Int
    BY <2>1, <1>0, <1>10
  <2> QED
    BY <2>1, <2>2, <2>3
<1>11. 0 .. N \subseteq P
  <2> HIDE DEF P
  <2> QED
    BY <1>0, <1>9, <1>10, BoundedInduction
<1>12. it \in [0 .. N -> Int]
  <2>1. it = [l \in 0 .. N |-> it[l]]
    <3> DEFINE K == Body(it)
    <3>1. K = [l \in DOMAIN K |-> K[l]]
      OBVIOUS
    <3> QED
      BY <1>5, <1>8, <3>1
  <2> QED
    BY <1>11, <2>1
<1>13. AddsUp(it, f)
  <2>1. \A l \in Lines : l \in 0 .. N /\ l # 0
    BY <1>0
  <2>2. 0 \in 0 .. N
    BY <1>0
  <2> HIDE DEF P
  <2> QED
    BY <1>7, <1>12, <2>1, <2>2 DEF AddsUp
<1> QED
  BY <1>6, <1>13

LEMMA SumIsInt ==
    ASSUME NEW f, IntOn(f, Lines)
    PROVE  Sum(f) \in Int
<1>1. PICK to : AddsUp(to, f) /\ Sum(f) = to[N]
  BY SumAdds
<1> QED
  BY <1>1, RiskConstants DEF AddsUp

(* The larger summands have the larger sum.                                     *)
LEMMA SumGrows ==
    ASSUME NEW f, NEW g, IntOn(f, Lines), IntOn(g, Lines), \A l \in Lines : f[l] <= g[l]
    PROVE  Sum(f) <= Sum(g)
<1>0. N \in Nat /\ Lines = 1 .. N
  BY RiskConstants DEF Lines
<1>1. PICK to : AddsUp(to, f) /\ Sum(f) = to[N]
  BY SumAdds
<1>2. PICK up : AddsUp(up, g) /\ Sum(g) = up[N]
  BY SumAdds
<1> DEFINE P == {l \in 0 .. N : to[l] <= up[l]}
<1>3. 0 \in P
  BY <1>0, <1>1, <1>2 DEF AddsUp
<1>4. ASSUME NEW k \in 0 .. N - 1, k \in P PROVE k + 1 \in P
  <2>1. k + 1 \in Lines /\ k + 1 \in 0 .. N /\ (k + 1) - 1 = k /\ k \in 0 .. N
    BY <1>0
  <2>2. to[k + 1] = to[k] + f[k + 1] /\ up[k + 1] = up[k] + g[k + 1]
    BY <2>1, <1>1, <1>2 DEF AddsUp
  <2>3. to[k] \in Int /\ up[k] \in Int /\ f[k + 1] \in Int /\ g[k + 1] \in Int
    BY <2>1, <1>1, <1>2 DEF AddsUp, IntOn
  <2> QED
    BY <2>1, <2>2, <2>3, <1>4
<1>5. 0 .. N \subseteq P
  <2> HIDE DEF P
  <2> QED
    BY <1>0, <1>3, <1>4, BoundedInduction
<1> QED
  BY <1>0, <1>1, <1>2, <1>5

LEMMA SumDoubles ==
    ASSUME NEW f, NEW g, IntOn(f, Lines), IntOn(g, Lines), \A l \in Lines : g[l] = 2 * f[l]
    PROVE  Sum(g) = 2 * Sum(f)
<1>0. N \in Nat /\ Lines = 1 .. N
  BY RiskConstants DEF Lines
<1>1. PICK to : AddsUp(to, f) /\ Sum(f) = to[N]
  BY SumAdds
<1>2. PICK up : AddsUp(up, g) /\ Sum(g) = up[N]
  BY SumAdds
<1> DEFINE P == {l \in 0 .. N : up[l] = 2 * to[l]}
<1>3. 0 \in P
  BY <1>0, <1>1, <1>2 DEF AddsUp
<1>4. ASSUME NEW k \in 0 .. N - 1, k \in P PROVE k + 1 \in P
  <2>1. k + 1 \in Lines /\ k + 1 \in 0 .. N /\ (k + 1) - 1 = k /\ k \in 0 .. N
    BY <1>0
  <2>2. to[k + 1] = to[k] + f[k + 1] /\ up[k + 1] = up[k] + g[k + 1]
    BY <2>1, <1>1, <1>2 DEF AddsUp
  <2>3. to[k] \in Int /\ up[k] \in Int /\ f[k + 1] \in Int /\ g[k + 1] = 2 * f[k + 1]
    BY <2>1, <1>1, <1>2 DEF AddsUp, IntOn
  <2> QED
    BY <2>1, <2>2, <2>3, <1>4
<1>5. 0 .. N \subseteq P
  <2> HIDE DEF P
  <2> QED
    BY <1>0, <1>3, <1>4, BoundedInduction
<1> QED
  BY <1>0, <1>1, <1>2, <1>5

-----------------------------------------------------------------------------
(* A projection stops somewhere on its path to zero: at the cap if the path      *)
(* meets it, else no dearer than at the end of the path.                        *)
ShrunkBy(x, by) == IF x < 0 THEN -High(-x - by, 0) ELSE High(x - by, 0)
Point(S, v, lo, hi, c, by) ==
    [l \in Lines |-> IF l \in S THEN Clip(ShrunkBy(v[l], (by * c[l] + 1) \div 2), lo[l], hi[l])
                     ELSE v[l]]
Bottom(S, v, lo, hi) == [l \in Lines |-> IF l \in S THEN Clip(0, lo[l], hi[l]) ELSE v[l]]
CostOf(S, c, x) == SumOf(S, [l \in Lines |-> c[l] * Size(x[l])])

LEMMA MaxIsGreatest ==
    ASSUME NEW S, IsFiniteSet(S), S # {}, S \subseteq Int
    PROVE  Max(S) \in S /\ \A y \in S : y <= Max(S)
<1> DEFINE id == [x \in S |-> x]
<1>1. \E x \in S : \A y \in S : id[y] <= id[x]
  <2>1. id \in [S -> Int]
    OBVIOUS
  <2> HIDE DEF id
  <2> QED
    BY <2>1, GreatestValue
<1>2. \E x \in S : \A y \in S : x >= y
  BY <1>1
<1>3. Max(S) \in S /\ \A y \in S : Max(S) >= y
  BY <1>2 DEF Max
<1> QED
  BY <1>3

LEMMA CostIsInt ==
    ASSUME NEW S, NEW c \in [Lines -> 1 .. 2], NEW x \in [Lines -> Int]
    PROVE  CostOf(S, c, x) \in Int
<1> DEFINE f == [l \in Lines |-> c[l] * Size(x[l])]
           g == [l \in Lines |-> IF l \in S THEN f[l] ELSE 0]
<1>1. ASSUME NEW l \in Lines PROVE c[l] * Size(x[l]) \in Int
  BY DEF Size, High
<1>2. IntOn(g, Lines)
  BY <1>1 DEF IntOn
<1>3. CostOf(S, c, x) = Sum(g)
  BY DEF CostOf, SumOf
<1> HIDE DEF g
<1> QED
  BY <1>2, <1>3, SumIsInt

LEMMA PointsAreBooks ==
    ASSUME NEW S, NEW v \in [Lines -> Int], NEW lo \in [Lines -> Int], NEW hi \in [Lines -> Int],
           NEW c \in [Lines -> 1 .. 2], NEW by \in Nat
    PROVE  Point(S, v, lo, hi, c, by) \in [Lines -> Int]
<1>1. ASSUME NEW l \in Lines PROVE Clip(ShrunkBy(v[l], (by * c[l] + 1) \div 2), lo[l], hi[l]) \in Int
  <2>1. (by * c[l] + 1) \div 2 \in Int
    <3>1. c[l] \in 1 .. 2
      OBVIOUS
    <3>2. CASE c[l] = 1
      BY <3>2
    <3>3. CASE c[l] = 2
      BY <3>3
    <3> QED
      BY <3>1, <3>2, <3>3
  <2> QED
    BY <2>1 DEF Clip, Low, High, ShrunkBy
<1> QED
  BY <1>1 DEF Point

LEMMA BottomIsEnd ==
    ASSUME NEW S, NEW v \in [Lines -> Int], NEW lo \in [Lines -> Int], NEW hi \in [Lines -> Int],
           NEW c \in [Lines -> 1 .. 2], NEW M \in Int, \A l \in Lines : Size(v[l]) <= M
    PROVE  Point(S, v, lo, hi, c, 2 * M + 1) = Bottom(S, v, lo, hi)
<1>1. ASSUME NEW l \in Lines PROVE ShrunkBy(v[l], ((2 * M + 1) * c[l] + 1) \div 2) = 0
  <2>1. ((2 * M + 1) * c[l] + 1) \div 2 \in Int /\ M <= ((2 * M + 1) * c[l] + 1) \div 2
    <3>0. M >= 0
      BY DEF Size, High
    <3>1. c[l] \in 1 .. 2
      OBVIOUS
    <3>2. CASE c[l] = 1
      BY <3>0, <3>2
    <3>3. CASE c[l] = 2
      BY <3>0, <3>3
    <3> QED
      BY <3>1, <3>2, <3>3
  <2>2. Size(v[l]) <= M /\ v[l] \in Int
    OBVIOUS
  <2>3. ASSUME NEW q \in Int, M <= q PROVE ShrunkBy(v[l], q) = 0
    <3>1. -v[l] <= q /\ v[l] <= q
      BY <2>2, <2>3 DEF High, Size
    <3>2. CASE v[l] < 0
      <4>1. -v[l] - q \in Int /\ -v[l] - q <= 0
        BY <2>2, <2>3, <3>1
      <4>2. High(-v[l] - q, 0) = 0
        BY <4>1 DEF High
      <4> QED
        BY <3>2, <4>2 DEF ShrunkBy
    <3>3. CASE ~(v[l] < 0)
      <4>1. v[l] - q \in Int /\ v[l] - q <= 0
        BY <2>2, <2>3, <3>1
      <4>2. High(v[l] - q, 0) = 0
        BY <4>1 DEF High
      <4> QED
        BY <3>3, <4>2 DEF ShrunkBy
    <3> QED
      BY <3>2, <3>3
  <2> QED
    BY <2>1, <2>3
<1> QED
  BY <1>1 DEF Point, Bottom

(* The projection is one of the points of its path; it is within the cap, or *)
(* costs no more than the far end of the path.                               *)
LEMMA ProjectPicks ==
    ASSUME NEW S, NEW v \in [Lines -> Int], NEW lo \in [Lines -> Int], NEW hi \in [Lines -> Int],
           NEW c \in [Lines -> 1 .. 2], NEW cap, Lines # {}
    PROVE  \E by \in Nat :
             /\ Project(S, v, lo, hi, c, cap) = Point(S, v, lo, hi, c, by)
             /\ \/ CostOf(S, c, Point(S, v, lo, hi, c, by)) <= cap
                \/ CostOf(S, c, Point(S, v, lo, hi, c, by)) <= CostOf(S, c, Bottom(S, v, lo, hi))
<1> DEFINE sizes == {Size(v[l]) : l \in Lines}
           M == Max(sizes)
           K == 2 * M + 1
           at(by) == Point(S, v, lo, hi, c, by)
           path == {at(by) : by \in 0 .. K}
           fit == {x \in path : CostOf(S, c, x) <= cap}
           best == CHOOSE x \in fit : \A y \in fit : CostOf(S, c, y) <= CostOf(S, c, x)
           least == CHOOSE x \in path : \A y \in path : CostOf(S, c, x) <= CostOf(S, c, y)
<1>1. Project(S, v, lo, hi, c, cap) = IF fit # {} THEN best ELSE least
  BY Zenon DEF Project, Point, ShrunkBy, CostOf
<1>2. M \in Int /\ \A l \in Lines : Size(v[l]) <= M
  <2>1. sizes # {} /\ sizes \subseteq Int
    BY DEF Size, High
  <2>2. IsFiniteSet(sizes)
    <3> DEFINE f == [l \in Lines |-> Size(v[l])]
    <3>1. sizes = {f[l] : l \in Lines}
      OBVIOUS
    <3>2. IsFiniteSet(Lines)
      BY RiskConstants, FS_Interval DEF Lines
    <3>3. IsFiniteSet({f[l] : l \in Lines})
      <4> HIDE DEF f
      <4> QED
        BY <3>2, FiniteImage
    <3> QED
      BY <3>1, <3>3
  <2>3. M \in sizes /\ \A y \in sizes : y <= M
    <3> HIDE DEF sizes
    <3> QED
      BY <2>1, <2>2, MaxIsGreatest
  <2> QED
    BY <2>1, <2>3
<1>3. M >= 0 /\ K \in 0 .. K
  <2>1. PICK l \in Lines : TRUE
    OBVIOUS
  <2>2. Size(v[l]) >= 0 /\ Size(v[l]) \in Int
    BY DEF Size, High
  <2> HIDE DEF M
  <2> QED
    BY <2>2, <1>2
<1> HIDE DEF M
<1>4. at(K) = Bottom(S, v, lo, hi)
  BY <1>2, BottomIsEnd
<1>5. \A by \in 0 .. K : at(by) \in [Lines -> Int]
  <2>1. \A by \in 0 .. K : by \in Nat
    BY <1>2
  <2> HIDE DEF K
  <2> QED
    BY <2>1, PointsAreBooks
<1>6. IsFiniteSet(path) /\ path # {} /\ path \subseteq [Lines -> Int] /\ Bottom(S, v, lo, hi) \in path
  <2> DEFINE f == [by \in 0 .. K |-> at(by)]
  <2>1. IsFiniteSet(0 .. K)
    BY <1>2, FS_Interval
  <2>2. path = {f[by] : by \in 0 .. K}
    BY Zenon
  <2>3. IsFiniteSet({f[by] : by \in 0 .. K})
    <3> HIDE DEF f, K
    <3> QED
      BY <2>1, FiniteImage
  <2> HIDE DEF f, K, at
  <2> QED
    BY <2>2, <2>3, <1>3, <1>4, <1>5
<1> HIDE DEF path
<1>7. \A x \in path : CostOf(S, c, x) \in Int
  BY <1>6, CostIsInt
<1>8. IsFiniteSet(fit) /\ fit \subseteq path
  BY <1>6, FS_Subset
<1> HIDE DEF fit
<1>9. fit # {} => best \in fit
  <2> SUFFICES ASSUME fit # {} PROVE best \in fit
    OBVIOUS
  <2> DEFINE f == [x \in fit |-> CostOf(S, c, x)]
  <2>1. f \in [fit -> Int]
    BY <1>7, <1>8
  <2>2. \E x \in fit : \A y \in fit : f[y] <= f[x]
    <3> HIDE DEF f
    <3> QED
      BY <2>1, <1>8, GreatestValue
  <2>3. \E x \in fit : \A y \in fit : CostOf(S, c, y) <= CostOf(S, c, x)
    BY <2>2
  <2> QED
    BY <2>3
<1>10. least \in path /\ \A y \in path : CostOf(S, c, least) <= CostOf(S, c, y)
  <2> DEFINE f == [x \in path |-> CostOf(S, c, x)]
  <2>1. f \in [path -> Int]
    BY <1>7
  <2>2. \E x \in path : \A y \in path : f[x] <= f[y]
    <3> HIDE DEF f
    <3> QED
      BY <2>1, <1>6, LeastValue
  <2>3. \E x \in path : \A y \in path : CostOf(S, c, x) <= CostOf(S, c, y)
    BY <2>2
  <2> QED
    BY <2>3
<1> DEFINE picked == Project(S, v, lo, hi, c, cap)
<1>11. picked \in path /\ (CostOf(S, c, picked) <= cap \/ CostOf(S, c, picked) <= CostOf(S, c, Bottom(S, v, lo, hi)))
  <2>1. CASE fit # {}
    <3>1. picked = best
      BY <1>1, <2>1
    <3>2. best \in path /\ CostOf(S, c, best) <= cap
      <4>1. best \in fit
        BY <2>1, <1>9
      <4> HIDE DEF best
      <4> QED
        BY <4>1 DEF fit
    <3> QED
      BY <3>1, <3>2
  <2>2. CASE fit = {}
    <3>1. picked = least
      BY <1>1, <2>2
    <3> HIDE DEF picked, least
    <3> QED
      BY <3>1, <1>10, <1>6
  <2> QED
    BY <2>1, <2>2
<1> HIDE DEF picked
<1>12. PICK by \in 0 .. K : picked = at(by)
  BY <1>11 DEF path
<1>13. by \in Nat
  BY <1>2, <1>3
<1> QED
  BY <1>11, <1>12, <1>13 DEF picked

-----------------------------------------------------------------------------
(* Every step of a projection moves lines toward zero inside their intervals,    *)
(* and a line whose interval is a point not at all.                              *)
Between(x, v) == (0 <= x /\ x <= v) \/ (v <= x /\ x <= 0)

(* One weight of a point of the projection: inside its interval, between     *)
(* zero and where it was, and unmoved when pinned.                           *)
LEMMA PointShrinks ==
    ASSUME NEW x \in Int, NEW a \in Int, NEW b \in Int, NEW q \in Int, 0 <= q,
           a <= x, x <= b, a = b \/ (a <= 0 /\ 0 <= b)
    PROVE  /\ Clip(ShrunkBy(x, q), a, b) \in Int /\ Between(Clip(ShrunkBy(x, q), a, b), x)
           /\ a = b => Clip(ShrunkBy(x, q), a, b) = x
<1> DEFINE s == ShrunkBy(x, q)
<1>1. s \in Int /\ Between(s, x)
  <2>1. CASE x < 0
    <3>1. -x - q \in Int /\ -x - q <= -x
      BY <2>1
    <3>2. s = -High(-x - q, 0)
      BY <2>1 DEF ShrunkBy
    <3> HIDE DEF s
    <3>3. CASE -x - q < 0
      <4>0. High(-x - q, 0) = 0
        BY <3>3 DEF High
      <4>1. s = 0
        BY <3>2, <4>0
      <4> QED
        BY <4>1, <2>1 DEF Between
    <3>4. CASE ~(-x - q < 0)
      <4>1. s = -(-x - q)
        BY <3>1, <3>2, <3>4 DEF High
      <4> QED
        BY <4>1, <3>1, <3>4, <2>1 DEF Between
    <3> QED
      BY <3>3, <3>4
  <2>2. CASE ~(x < 0)
    <3>2. s = High(x - q, 0)
      BY <2>2 DEF ShrunkBy
    <3> HIDE DEF s
    <3> QED
      BY <2>2, <3>2 DEF High, Between
  <2> QED
    BY <2>1, <2>2
<1> HIDE DEF s
<1>2. Clip(s, a, b) \in Int
  BY <1>1 DEF Clip, Low, High
<1>3. a = b => Clip(s, a, b) = a
  BY <1>1 DEF Clip, Low, High
<1>4. a <= 0 /\ 0 <= b => Between(Clip(s, a, b), x)
  BY <1>1 DEF Clip, Low, High, Between
<1>5. Between(x, x)
  BY DEF Between
<1> QED
  BY <1>2, <1>3, <1>4, <1>5 DEF s

Boxed(S, v, lo, hi) ==
    \A l \in Lines : l \in S => /\ lo[l] <= v[l] /\ v[l] <= hi[l]
                                /\ lo[l] = hi[l] \/ (lo[l] <= 0 /\ 0 <= hi[l])
Shrinks(x, S, v, lo, hi) ==
    /\ x \in [Lines -> Int]
    /\ \A l \in Lines : Between(x[l], v[l]) /\ (l \notin S \/ lo[l] = hi[l] => x[l] = v[l])

(* Whatever is projected, on any lines and costs: weights only move toward   *)
(* zero, inside their intervals.                                             *)
LEMMA ProjectShrinks ==
    ASSUME NEW S, NEW v \in [Lines -> Int], NEW lo \in [Lines -> Int], NEW hi \in [Lines -> Int],
           NEW c \in [Lines -> 1 .. 2], NEW cap, Boxed(S, v, lo, hi), Lines # {}
    PROVE  Shrinks(Project(S, v, lo, hi, c, cap), S, v, lo, hi)
<1> DEFINE x == Project(S, v, lo, hi, c, cap)
<1>1. \E by \in Nat : x = Point(S, v, lo, hi, c, by)
  BY ProjectPicks
<1> HIDE DEF x
<1>2. PICK by \in Nat : x = Point(S, v, lo, hi, c, by)
  BY <1>1
<1>3. x \in [Lines -> Int]
  BY <1>2, PointsAreBooks
<1>4. ASSUME NEW l \in Lines
      PROVE  Between(x[l], v[l]) /\ (l \notin S \/ lo[l] = hi[l] => x[l] = v[l])
  <2>1. CASE l \notin S
    <3>1. x[l] = v[l]
      BY <1>2, <2>1 DEF Point
    <3> QED
      BY <3>1 DEF Between
  <2>2. CASE l \in S
    <3> DEFINE q == (by * c[l] + 1) \div 2
    <3>1. q \in Int /\ 0 <= q
      <4>1. c[l] = 1 \/ c[l] = 2
        OBVIOUS
      <4>2. CASE c[l] = 1
        BY <4>2
      <4>3. CASE c[l] = 2
        BY <4>3
      <4> QED
        BY <4>1, <4>2, <4>3
    <3>2. x[l] = Clip(ShrunkBy(v[l], q), lo[l], hi[l])
      BY <1>2, <2>2 DEF Point
    <3> HIDE DEF q
    <3> QED
      BY <2>2, <3>1, <3>2, PointShrinks DEF Boxed
  <2> QED
    BY <2>1, <2>2
<1>5. Shrinks(x, S, v, lo, hi)
  BY <1>3, <1>4 DEF Shrinks
<1> QED
  BY <1>5 DEF x

(* The intervals of a round fit the books they are for.                         *)
Sound ==
    /\ Lines # {} /\ Lo \in [Lines -> Int] /\ Hi \in [Lines -> Int]
    /\ \A l \in Lines : Lo[l] = Hi[l] \/ (Lo[l] <= 0 /\ 0 <= Hi[l])
Inside(v) == v \in [Lines -> Int] /\ \A l \in Lines : Lo[l] <= v[l] /\ v[l] <= Hi[l]
Below(x, v) ==
    /\ x \in [Lines -> Int]
    /\ \A l \in Lines : Between(x[l], v[l]) /\ (Lo[l] = Hi[l] => x[l] = v[l])

(* Being below a book is reflexive and transitive, so steps of the           *)
(* projection may be chained.                                                *)
LEMMA BelowIsOrder ==
    /\ \A v \in [Lines -> Int] : Below(v, v)
    /\ \A v \in [Lines -> Int] : \A x, y : Below(x, v) /\ Below(y, x) => Below(y, v)
<1>1. \A v \in [Lines -> Int] : Below(v, v)
  BY DEF Below, Between
<1>2. ASSUME NEW v \in [Lines -> Int], NEW x, NEW y, Below(x, v), Below(y, x) PROVE Below(y, v)
  BY <1>2 DEF Below, Between
<1> QED
  BY <1>1, <1>2

LEMMA BelowStaysInside ==
    ASSUME Sound, NEW v, NEW x, Inside(v), Below(x, v)
    PROVE  Inside(x)
<1> SUFFICES ASSUME NEW l \in Lines PROVE Lo[l] <= x[l] /\ x[l] <= Hi[l]
  BY DEF Inside, Below
<1>1. Lo[l] \in Int /\ Hi[l] \in Int /\ x[l] \in Int /\ v[l] \in Int
  BY DEF Sound, Inside, Below
<1>2. Lo[l] <= v[l] /\ v[l] <= Hi[l] /\ (Lo[l] = Hi[l] \/ (Lo[l] <= 0 /\ 0 <= Hi[l]))
  BY DEF Sound, Inside
<1>3. Between(x[l], v[l]) /\ (Lo[l] = Hi[l] => x[l] = v[l])
  BY DEF Below
<1> QED
  BY <1>1, <1>2, <1>3 DEF Between

(* A projection on the intervals of the round ends below the book it started *)
(* from.                                                                     *)
LEMMA LineProject ==
    ASSUME Sound, NEW v, Inside(v), NEW S, NEW c \in [Lines -> 1 .. 2], NEW cap
    PROVE  Below(Project(S, v, Lo, Hi, c, cap), v)
<1>1. v \in [Lines -> Int] /\ Lo \in [Lines -> Int] /\ Hi \in [Lines -> Int] /\ Lines # {}
  BY DEF Inside, Sound
<1>2. Boxed(S, v, Lo, Hi)
  BY DEF Inside, Sound, Boxed
<1>3. Shrinks(Project(S, v, Lo, Hi, c, cap), S, v, Lo, Hi)
  BY <1>1, <1>2, ProjectShrinks
<1> QED
  BY <1>3 DEF Shrinks, Below

LEMMA FlatCosts == Flat \in [Lines -> 1 .. 2] /\ \A v : MarginCost(v) \in [Lines -> 1 .. 2]
BY DEF Flat, MarginCost

(* The first half of net_bounds: the shorts.                                    *)
Neg(v) == {l \in Lines : v[l] < 0}
Pos(v) == {l \in Lines : v[l] > 0}
TopZero == [l \in Lines |-> Low(Hi[l], 0)]
BotZero == [l \in Lines |-> High(Lo[l], 0)]
ShortRoom(v) == High(Low(ShortCap, Longs(v) - NetFloor), 0)
LessShort(v) == ProjectGross(Neg(v), v, Lo, TopZero, ShortRoom(v))

LEMMA NetBoundsParts ==
    ASSUME Sound, NEW v, Inside(v)
    PROVE  /\ Shrinks(LessShort(v), Neg(v), v, Lo, TopZero)
           /\ Shrinks(NetBounds(v), Pos(v), LessShort(v), BotZero, Hi)
           /\ \A l \in Neg(v) : Lo[l] = Hi[l] => Lo[l] = TopZero[l]
           /\ \A l \in Pos(v) : Lo[l] = Hi[l] => BotZero[l] = Hi[l]
<1> DEFINE neg == Neg(v)
           top == TopZero
           twice == 2 * ShortRoom(v)
           s == LessShort(v)
           pos == Pos(v)
           bot == BotZero
           cap == 2 * High(Shorts(s) + NetCeiling, 0)
           r == NetBounds(v)
<1>1. s = Project(neg, v, Lo, top, Flat, twice) /\ r = Project(pos, s, bot, Hi, Flat, cap)
  BY DEF NetBounds, ProjectGross, LessShort, ShortRoom, Neg, Pos, TopZero, BotZero
<1>2. v \in [Lines -> Int] /\ Lo \in [Lines -> Int] /\ Hi \in [Lines -> Int] /\ Lines # {}
  BY DEF Inside, Sound
<1>3. top \in [Lines -> Int] /\ bot \in [Lines -> Int]
  BY <1>2 DEF Low, High, TopZero, BotZero
<1>4. \A l \in Lines : /\ Lo[l] \in Int /\ Hi[l] \in Int /\ v[l] \in Int
                       /\ Lo[l] <= v[l] /\ v[l] <= Hi[l]
                       /\ Lo[l] = Hi[l] \/ (Lo[l] <= 0 /\ 0 <= Hi[l])
  BY <1>2 DEF Inside, Sound
<1>5. ASSUME NEW l \in Lines, l \in neg
      PROVE  /\ Lo[l] <= v[l] /\ v[l] <= top[l]
             /\ Lo[l] = top[l] \/ (Lo[l] <= 0 /\ 0 <= top[l])
             /\ Lo[l] = Hi[l] => Lo[l] = top[l]
  BY <1>4, <1>5 DEF Low, Neg, TopZero
<1>6. Shrinks(s, neg, v, Lo, top)
  <2>1. Boxed(neg, v, Lo, top)
    BY <1>5 DEF Boxed
  <2> HIDE DEF s, neg, top, twice
  <2> QED
    BY <1>1, <1>2, <1>3, <2>1, FlatCosts, ProjectShrinks
<1> HIDE DEF s
<1>7. ASSUME NEW l \in Lines, l \in pos
      PROVE  /\ bot[l] <= s[l] /\ s[l] <= Hi[l] /\ s[l] = v[l]
             /\ bot[l] = Hi[l] \/ (bot[l] <= 0 /\ 0 <= Hi[l])
             /\ Lo[l] = Hi[l] => bot[l] = Hi[l]
  <2>1. v[l] > 0 /\ l \notin neg
    BY <1>4, <1>7 DEF Neg, Pos
  <2>2. s[l] = v[l]
    BY <1>6, <2>1 DEF Shrinks
  <2> QED
    BY <1>4, <2>1, <2>2 DEF High, BotZero
<1>8. Shrinks(r, pos, s, bot, Hi)
  <2>1. Boxed(pos, s, bot, Hi)
    BY <1>7 DEF Boxed
  <2>2. s \in [Lines -> Int]
    BY <1>6 DEF Shrinks
  <2> HIDE DEF r, pos, bot, cap
  <2> QED
    BY <1>1, <1>2, <1>3, <2>1, <2>2, FlatCosts, ProjectShrinks
<1> QED
  BY <1>5, <1>6, <1>7, <1>8 DEF s, Neg, Pos

(* The two projections onto the bounds of the net exposure only shrink. *)
LEMMA NetBoundsShrinks ==
    ASSUME Sound, NEW v, Inside(v)
    PROVE  Below(NetBounds(v), v)
<1> DEFINE s == LessShort(v)
           r == NetBounds(v)
<1>1. /\ Shrinks(s, Neg(v), v, Lo, TopZero) /\ Shrinks(r, Pos(v), s, BotZero, Hi)
      /\ \A l \in Neg(v) : Lo[l] = Hi[l] => Lo[l] = TopZero[l]
      /\ \A l \in Pos(v) : Lo[l] = Hi[l] => BotZero[l] = Hi[l]
  BY NetBoundsParts
<1> HIDE DEF s, r
<1>2. ASSUME NEW l \in Lines
      PROVE  Between(r[l], v[l]) /\ (Lo[l] = Hi[l] => r[l] = v[l])
  <2>1. r[l] \in Int /\ s[l] \in Int /\ v[l] \in Int
    BY <1>1 DEF Shrinks, Inside
  <2>2. Between(r[l], s[l]) /\ Between(s[l], v[l])
    BY <1>1 DEF Shrinks
  <2>3. Lo[l] = Hi[l] => r[l] = s[l] /\ s[l] = v[l]
    BY <1>1 DEF Shrinks
  <2> QED
    BY <2>1, <2>2, <2>3 DEF Between
<1> QED
  BY <1>1, <1>2 DEF r, Below, Shrinks

(* So does the common factor of the volatility step, *)
LEMMA VolStepShrinks ==
    ASSUME Sound, NEW v, Inside(v)
    PROVE  Below(VolStep(v), v)
<1> DEFINE flex == {l \in Managed \ held : Lo[l] < Hi[l]}
           part(x, k) == IF x < 0 THEN -((k * (-x)) \div 4) ELSE (k * x) \div 4
           at(k) == [l \in Lines |-> IF l \in flex THEN Clip(part(v[l], k), Lo[l], Hi[l]) ELSE v[l]]
           fit == {k \in 0 .. 4 : Vol(at(k)) <= VolCap}
           k0 == Max(fit \cup {0})
<1>1. VolStep(v) = IF Vol(v) <= VolCap THEN v ELSE at(k0)
  BY Zenon DEF VolStep
<1>2. v \in [Lines -> Int]
  BY DEF Inside
<1>3. k0 \in 0 .. 4
  <2> DEFINE ks == fit \cup {0}
  <2>1. ks \subseteq 0 .. 4 /\ ks # {}
    OBVIOUS
  <2> HIDE DEF ks
  <2>2. IsFiniteSet(0 .. 4) /\ ks \subseteq Int
    <3>1. 0 \in Int /\ 4 \in Int
      OBVIOUS
    <3>2. IsFiniteSet(0 .. 4)
      BY ONLY <3>1, FS_Interval
    <3> QED
      BY <2>1, <3>2
  <2>3. Max(ks) \in ks
    BY <2>1, <2>2, FS_Subset, MaxIsGreatest
  <2>4. Max(ks) \in 0 .. 4
    BY <2>1, <2>3
  <2> QED
    BY <2>4 DEF ks
<1> HIDE DEF k0, fit
<1>4. ASSUME NEW x \in Int PROVE part(x, k0) \in Int /\ Between(part(x, k0), x)
  <2>1. k0 = 0 \/ k0 = 1 \/ k0 = 2 \/ k0 = 3 \/ k0 = 4
    BY <1>3
  <2> QED
    BY <2>1 DEF Between
<1>5. ASSUME NEW l \in Lines
      PROVE  /\ at(k0)[l] \in Int /\ Between(at(k0)[l], v[l])
             /\ Lo[l] = Hi[l] => at(k0)[l] = v[l]
  <2>1. /\ Lo[l] \in Int /\ Hi[l] \in Int /\ v[l] \in Int
        /\ Lo[l] <= v[l] /\ v[l] <= Hi[l]
        /\ Lo[l] = Hi[l] \/ (Lo[l] <= 0 /\ 0 <= Hi[l])
    BY DEF Inside, Sound
  <2>2. CASE l \in flex
    <3>1. at(k0)[l] = Clip(part(v[l], k0), Lo[l], Hi[l]) /\ Lo[l] < Hi[l]
      BY <2>2
    <3>2. part(v[l], k0) \in Int /\ Between(part(v[l], k0), v[l])
      BY <1>4, <2>1
    <3> HIDE DEF at, part
    <3> QED
      BY <3>1, <3>2, <2>1 DEF Between, Clip, Low, High
  <2>3. CASE l \notin flex
    <3>1. at(k0)[l] = v[l]
      BY <2>3
    <3> HIDE DEF at
    <3> QED
      BY <3>1, <2>1 DEF Between
  <2> QED
    BY <2>2, <2>3
<1>6. at(k0) \in [Lines -> Int]
  BY <1>5
<1>7. Below(at(k0), v)
  <2> HIDE DEF at
  <2> QED
    BY <1>5, <1>6 DEF Below
<1> HIDE DEF at
<1> QED
  BY <1>1, <1>2, <1>7, BelowIsOrder

(* What iterating a step on a book gives: the books it can reach.               *)
Reach(v) == {x \in [Lines -> Int] : Below(x, v)}
MarginPass(x) == IF Margin(x) <= MarginCap THEN x ELSE Project(Lines, x, Lo, Hi, MarginCost(x), MarginCap)
Both(x) == MarginStep(NetBounds(x))
SettlePass(x) == IF NetOk(x) THEN x ELSE Both(x)

LEMMA MarginPassShrinks ==
    ASSUME Sound, NEW x, Inside(x)
    PROVE  Below(MarginPass(x), x)
<1>1. Below(Project(Lines, x, Lo, Hi, MarginCost(x), MarginCap), x)
  BY FlatCosts, LineProject
<1>2. Below(x, x)
  BY BelowIsOrder DEF Inside
<1> QED
  BY <1>1, <1>2 DEF MarginPass

(* The passes of a margin step, one book after the other.                       *)
MarginRun(F, v) ==
    /\ F \in [Nat -> Reach(v)] /\ F[0] = v
    /\ \A k \in Nat : F[k + 1] = MarginPass(F[k])

LEMMA MarginStepRuns ==
    ASSUME Sound, NEW v, Inside(v)
    PROVE  \E F : MarginRun(F, v) /\ MarginStep(v) = F[N + 1]
<1> DEFINE n == N + 1
           V == Reach(v)
           st == [p \in Nat \X V |-> MarginPass(p[2])]
           Body(F) == [k \in 0 .. n |-> IF k = 0 THEN {v} ELSE {MarginPass(x) : x \in F[k - 1]}]
           it == CHOOSE F : F = Body(F)
<1>1. MarginStep(v) = CHOOSE x \in it[n] : TRUE
  BY Zenon DEF MarginStep, Times, MarginPass
<1>2. v \in V
  BY BelowIsOrder DEF Inside, Reach
<1>3. ASSUME NEW x \in V PROVE MarginPass(x) \in V
  <2>1. v \in [Lines -> Int] /\ Below(x, v)
    BY DEF Inside, Reach
  <2>2. Below(MarginPass(x), x)
    BY <2>1, BelowStaysInside, MarginPassShrinks
  <2>3. Below(MarginPass(x), v)
    BY <2>1, <2>2, BelowIsOrder
  <2> QED
    BY <2>3 DEF Below, Reach
<1>4. n \in Nat
  BY RiskConstants
<1> HIDE DEF V, n
<1>5. st \in [Nat \X V -> V]
  BY <1>3
<1>6. PICK F \in [Nat -> V] : Iterates(F, v, st)
  <2> HIDE DEF st
  <2> QED
    BY <1>2, <1>5, NumberRecursion
<1>7. F[0] = v /\ \A k \in Nat : F[k + 1] = MarginPass(F[k])
  <2>1. F[0] = v
    BY <1>6 DEF Iterates
  <2>2. ASSUME NEW k \in Nat PROVE F[k + 1] = MarginPass(F[k])
    <3>1. F[k + 1] = st[<<k + 1, F[k]>>]
      <4>1. k + 1 \in Nat /\ k + 1 # 0 /\ (k + 1) - 1 = k
        OBVIOUS
      <4> HIDE DEF st
      <4> QED
        BY <4>1, <1>6 DEF Iterates
    <3>2. <<k + 1, F[k]>> \in Nat \X V
      BY <1>6
    <3> QED
      BY <3>1, <3>2
  <2> QED
    BY <2>1, <2>2
<1> DEFINE G == [k \in 0 .. n |-> {F[k]}]
<1>8. G = Body(G)
  <2>1. ASSUME NEW k \in 0 .. n PROVE G[k] = Body(G)[k]
    <3>1. CASE k = 0
      BY <3>1, <1>7
    <3>2. CASE k # 0
      <4>1. k - 1 \in 0 .. n /\ k - 1 \in Nat /\ (k - 1) + 1 = k
        BY <3>2, <1>4
      <4>2. F[k] = MarginPass(F[k - 1])
        BY <4>1, <1>7
      <4>3. G[k - 1] = {F[k - 1]} /\ G[k] = {F[k]}
        BY <4>1
      <4> HIDE DEF G
      <4> QED
        BY <3>2, <4>2, <4>3
    <3> QED
      BY <3>1, <3>2
  <2>2. G = [k \in 0 .. n |-> G[k]]
    OBVIOUS
  <2> HIDE DEF G
  <2> QED
    BY <2>1, <2>2
<1>9. it = Body(it)
  BY <1>8
<1> HIDE DEF it, G, st
<1>10. \A k \in 0 .. n : it[k] = IF k = 0 THEN {v} ELSE {MarginPass(x) : x \in it[k - 1]}
  BY <1>9
<1> DEFINE P == {k \in 0 .. n : it[k] = {F[k]}}
<1>11. 0 \in P
  <2>1. 0 \in 0 .. n
    BY <1>4
  <2>2. it[0] = {v}
    BY <1>10, <2>1
  <2> QED
    BY <1>7, <2>1, <2>2
<1>12. ASSUME NEW k \in 0 .. n - 1, k \in P PROVE k + 1 \in P
  <2>1. k + 1 \in 0 .. n /\ k + 1 # 0 /\ (k + 1) - 1 = k /\ k \in Nat
    BY <1>4
  <2>2. it[k + 1] = {MarginPass(x) : x \in it[k]}
    BY <1>10, <2>1
  <2>3. it[k] = {F[k]} /\ F[k + 1] = MarginPass(F[k])
    BY <1>7, <1>12, <2>1
  <2>4. it[k + 1] = {F[k + 1]}
    BY <2>2, <2>3
  <2> QED
    BY <2>1, <2>4
<1>13. 0 .. n \subseteq P
  <2> HIDE DEF P
  <2> QED
    BY <1>4, <1>11, <1>12, BoundedInduction
<1>14. it[n] = {F[n]}
  BY <1>4, <1>13
<1>15. MarginStep(v) = F[n]
  BY <1>1, <1>14
<1> QED
  BY <1>6, <1>7, <1>15 DEF V, n, MarginRun

(* the passes of the margin step, *)
LEMMA MarginStepShrinks ==
    ASSUME Sound, NEW v, Inside(v)
    PROVE  Below(MarginStep(v), v)
<1>1. PICK F : MarginRun(F, v) /\ MarginStep(v) = F[N + 1]
  BY MarginStepRuns
<1>2. N + 1 \in Nat
  BY RiskConstants
<1> QED
  BY <1>1, <1>2 DEF MarginRun, Reach

LEMMA BothShrink ==
    ASSUME Sound, NEW v, Inside(v)
    PROVE  Below(MarginStep(NetBounds(v)), v)
<1> DEFINE x == NetBounds(v)
<1>1. Below(x, v) /\ v \in [Lines -> Int]
  BY NetBoundsShrinks DEF Inside
<1> HIDE DEF x
<1>2. Inside(x)
  BY <1>1, BelowStaysInside
<1>3. Below(MarginStep(x), x)
  BY <1>2, MarginStepShrinks
<1>4. Below(MarginStep(x), v)
  BY <1>1, <1>3, BelowIsOrder
<1> QED
  BY <1>4 DEF x

LEMMA SettlePassShrinks ==
    ASSUME Sound, NEW x, Inside(x)
    PROVE  Below(SettlePass(x), x)
<1>1. Below(Both(x), x)
  BY BothShrink DEF Both
<1>2. Below(x, x)
  BY BelowIsOrder DEF Inside
<1> QED
  BY <1>1, <1>2 DEF SettlePass

(* The passes of settle.                                                        *)
SettleRun(F, v) ==
    /\ F \in [Nat -> Reach(v)] /\ F[0] = Both(v)
    /\ \A k \in Nat : F[k + 1] = SettlePass(F[k])

LEMMA SettleRuns ==
    ASSUME Sound, NEW v, Inside(v)
    PROVE  \E F : SettleRun(F, v) /\ Settle(v) = F[2 * N + 1]
<1> DEFINE n == 2 * N + 1
           V == Reach(v)
           start == Both(v)
           st == [p \in Nat \X V |-> SettlePass(p[2])]
           Body(F) == [k \in 0 .. n |-> IF k = 0 THEN {start} ELSE {SettlePass(x) : x \in F[k - 1]}]
           it == CHOOSE F : F = Body(F)
<1>1. Settle(v) = CHOOSE x \in it[n] : TRUE
  BY Zenon DEF Settle, Times, SettlePass, Both
<1>2. start \in V
  BY BothShrink DEF Both, Below, Reach
<1>3. ASSUME NEW x \in V PROVE SettlePass(x) \in V
  <2>1. v \in [Lines -> Int] /\ Below(x, v)
    BY DEF Inside, Reach
  <2>2. Below(SettlePass(x), x)
    BY <2>1, BelowStaysInside, SettlePassShrinks
  <2>3. Below(SettlePass(x), v)
    BY <2>1, <2>2, BelowIsOrder
  <2> QED
    BY <2>3 DEF Below, Reach
<1>4. n \in Nat
  BY SMTT(30), RiskConstants
<1> HIDE DEF V, n, start
<1>5. st \in [Nat \X V -> V]
  BY <1>3
<1>6. PICK F \in [Nat -> V] : Iterates(F, start, st)
  <2> HIDE DEF st
  <2> QED
    BY <1>2, <1>5, NumberRecursion
<1>7. F[0] = start /\ \A k \in Nat : F[k + 1] = SettlePass(F[k])
  <2>1. F[0] = start
    BY <1>6 DEF Iterates
  <2>2. ASSUME NEW k \in Nat PROVE F[k + 1] = SettlePass(F[k])
    <3>1. F[k + 1] = st[<<k + 1, F[k]>>]
      <4>1. k + 1 \in Nat /\ k + 1 # 0 /\ (k + 1) - 1 = k
        OBVIOUS
      <4> HIDE DEF st
      <4> QED
        BY <4>1, <1>6 DEF Iterates
    <3>2. <<k + 1, F[k]>> \in Nat \X V
      BY <1>6
    <3> QED
      BY <3>1, <3>2
  <2> QED
    BY <2>1, <2>2
<1> DEFINE G == [k \in 0 .. n |-> {F[k]}]
<1>8. G = Body(G)
  <2>1. ASSUME NEW k \in 0 .. n PROVE G[k] = Body(G)[k]
    <3>1. CASE k = 0
      BY <3>1, <1>7
    <3>2. CASE k # 0
      <4>1. k - 1 \in 0 .. n /\ k - 1 \in Nat /\ (k - 1) + 1 = k
        BY <3>2, <1>4
      <4>2. F[k] = SettlePass(F[k - 1])
        BY <4>1, <1>7
      <4>3. G[k - 1] = {F[k - 1]} /\ G[k] = {F[k]}
        BY <4>1
      <4> HIDE DEF G
      <4> QED
        BY <3>2, <4>2, <4>3
    <3> QED
      BY <3>1, <3>2
  <2>2. G = [k \in 0 .. n |-> G[k]]
    OBVIOUS
  <2> HIDE DEF G
  <2> QED
    BY <2>1, <2>2
<1>9. it = Body(it)
  BY <1>8
<1> HIDE DEF it, G, st
<1>10. \A k \in 0 .. n : it[k] = IF k = 0 THEN {start} ELSE {SettlePass(x) : x \in it[k - 1]}
  BY <1>9
<1> DEFINE P == {k \in 0 .. n : it[k] = {F[k]}}
<1>11. 0 \in P
  <2>1. 0 \in 0 .. n
    BY <1>4
  <2>2. it[0] = {start}
    BY <1>10, <2>1
  <2> QED
    BY <1>7, <2>1, <2>2
<1>12. ASSUME NEW k \in 0 .. n - 1, k \in P PROVE k + 1 \in P
  <2>1. k + 1 \in 0 .. n /\ k + 1 # 0 /\ (k + 1) - 1 = k /\ k \in Nat
    BY <1>4
  <2>2. it[k + 1] = {SettlePass(x) : x \in it[k]}
    BY <1>10, <2>1
  <2>3. it[k] = {F[k]} /\ F[k + 1] = SettlePass(F[k])
    BY <1>7, <1>12, <2>1
  <2>4. it[k + 1] = {F[k + 1]}
    BY <2>2, <2>3
  <2> QED
    BY <2>1, <2>4
<1>13. 0 .. n \subseteq P
  <2> HIDE DEF P
  <2> QED
    BY <1>4, <1>11, <1>12, BoundedInduction
<1>14. it[n] = {F[n]}
  BY <1>4, <1>13
<1>15. Settle(v) = F[n]
  BY <1>1, <1>14
<1> QED
  BY <1>6, <1>7, <1>15 DEF V, n, start, SettleRun

(* the loop that alternates net bounds and margin, *)
LEMMA SettleShrinks ==
    ASSUME Sound, NEW v, Inside(v)
    PROVE  Below(Settle(v), v)
<1>1. PICK F : SettleRun(F, v) /\ Settle(v) = F[2 * N + 1]
  BY SettleRuns
<1>2. 2 * N + 1 \in Nat
  BY RiskConstants
<1> QED
  BY <1>1, <1>2 DEF SettleRun, Reach

(* The group caps, one after the other.                                         *)
GroupCap(k) == High(Groups[k].cap, GroupGross(base, Groups[k].of))
GroupPass(k, x) == ProjectGross(Groups[k].of, x, Lo, Hi, GroupCap(k))
GroupRun(F, v) ==
    /\ F \in [Nat -> Reach(v)] /\ F[0] = v
    /\ \A k \in Nat : F[k + 1] = GroupPass(k + 1, F[k])

LEMMA GroupPassShrinks ==
    ASSUME Sound, NEW x, Inside(x), NEW k
    PROVE  Below(GroupPass(k, x), x)
<1> DEFINE twice == 2 * GroupCap(k)
<1>1. GroupPass(k, x) = Project(Groups[k].of, x, Lo, Hi, Flat, twice)
  BY DEF GroupPass, ProjectGross
<1> HIDE DEF twice
<1> QED
  BY <1>1, FlatCosts, LineProject

LEMMA CapGroupsRuns ==
    ASSUME Sound, NEW v, Inside(v)
    PROVE  \E F : GroupRun(F, v) /\ CapGroups(v) = F[Len(Groups)]
<1> DEFINE n == Len(Groups)
           V == Reach(v)
           st == [p \in Nat \X V |-> GroupPass(p[1], p[2])]
           Body(F) == [k \in 0 .. n |-> IF k = 0 THEN v ELSE GroupPass(k, F[k - 1])]
           it == CHOOSE F : F = Body(F)
<1>1. CapGroups(v) = it[n]
  BY Zenon DEF CapGroups, GroupPass, GroupCap
<1>2. v \in V
  BY BelowIsOrder DEF Inside, Reach
<1>3. ASSUME NEW x \in V, NEW k PROVE GroupPass(k, x) \in V
  <2>1. v \in [Lines -> Int] /\ Below(x, v)
    BY DEF Inside, Reach
  <2>2. Below(GroupPass(k, x), x)
    BY <2>1, BelowStaysInside, GroupPassShrinks
  <2>3. Below(GroupPass(k, x), v)
    BY <2>1, <2>2, BelowIsOrder
  <2> QED
    BY <2>3 DEF Below, Reach
<1>4. n \in Nat
  BY RiskConstants
<1> HIDE DEF V, n
<1>5. st \in [Nat \X V -> V]
  BY <1>3
<1>6. PICK F \in [Nat -> V] : Iterates(F, v, st)
  <2> HIDE DEF st
  <2> QED
    BY <1>2, <1>5, NumberRecursion
<1>7. F[0] = v /\ \A k \in Nat : F[k + 1] = GroupPass(k + 1, F[k])
  <2>1. F[0] = v
    BY <1>6 DEF Iterates
  <2>2. ASSUME NEW k \in Nat PROVE F[k + 1] = GroupPass(k + 1, F[k])
    <3>1. F[k + 1] = st[<<k + 1, F[k]>>]
      <4>1. k + 1 \in Nat /\ k + 1 # 0 /\ (k + 1) - 1 = k
        OBVIOUS
      <4> HIDE DEF st
      <4> QED
        BY <4>1, <1>6 DEF Iterates
    <3>2. <<k + 1, F[k]>> \in Nat \X V
      BY <1>6
    <3> QED
      BY <3>1, <3>2
  <2> QED
    BY <2>1, <2>2
<1> DEFINE G == [k \in 0 .. n |-> F[k]]
<1>8. G = Body(G)
  <2>1. ASSUME NEW k \in 0 .. n PROVE G[k] = Body(G)[k]
    <3>1. CASE k = 0
      BY <3>1, <1>7
    <3>2. CASE k # 0
      <4>1. k - 1 \in 0 .. n /\ k - 1 \in Nat /\ (k - 1) + 1 = k
        BY <3>2, <1>4
      <4>2. F[k] = GroupPass(k, F[k - 1])
        BY <4>1, <1>7
      <4>3. G[k - 1] = F[k - 1] /\ G[k] = F[k]
        BY <4>1
      <4> HIDE DEF G
      <4> QED
        BY <3>2, <4>2, <4>3
    <3> QED
      BY <3>1, <3>2
  <2>2. G = [k \in 0 .. n |-> G[k]]
    OBVIOUS
  <2> HIDE DEF G
  <2> QED
    BY <2>1, <2>2
<1>9. it = Body(it)
  BY <1>8
<1> HIDE DEF it, G, st
<1>10. \A k \in 0 .. n : it[k] = IF k = 0 THEN v ELSE GroupPass(k, it[k - 1])
  BY <1>9
<1> DEFINE P == {k \in 0 .. n : it[k] = F[k]}
<1>11. 0 \in P
  <2>1. 0 \in 0 .. n
    BY <1>4
  <2> QED
    BY <1>7, <1>10, <2>1
<1>12. ASSUME NEW k \in 0 .. n - 1, k \in P PROVE k + 1 \in P
  <2>1. k + 1 \in 0 .. n /\ k + 1 # 0 /\ (k + 1) - 1 = k /\ k \in Nat
    BY <1>4
  <2>2. it[k + 1] = GroupPass(k + 1, it[k])
    BY <1>10, <2>1
  <2> QED
    BY <2>1, <2>2, <1>7, <1>12
<1>13. 0 .. n \subseteq P
  <2> HIDE DEF P
  <2> QED
    BY <1>4, <1>11, <1>12, BoundedInduction
<1>14. CapGroups(v) = F[n]
  BY <1>1, <1>4, <1>13
<1> QED
  BY <1>6, <1>7, <1>14 DEF V, n, GroupRun

(* and the caps of the groups, one after the other. *)
LEMMA CapGroupsShrinks ==
    ASSUME Sound, NEW v, Inside(v)
    PROVE  Below(CapGroups(v), v)
<1>1. PICK F : GroupRun(F, v) /\ CapGroups(v) = F[Len(Groups)]
  BY CapGroupsRuns
<1>2. Len(Groups) \in Nat
  BY RiskConstants
<1> QED
  BY <1>1, <1>2 DEF GroupRun, Reach

(* The book once the gross cap is met, and what the limits after it leave of it.  *)
Met == ProjectGross(Lines, CapGroups(FromBand), Lo, Hi, High(GrossCap, Gross(base)))

(* The whole projection of a round ends below the book clipped to the bands, *)
(* through the book that met the band limits.                                *)
LEMMA ProjectedShrinks ==
    ASSUME Sound, Inside(FromBand)
    PROVE  Below(Met, FromBand) /\ Below(Projected, Met) /\ Below(Projected, FromBand)
<1>0. FromBand \in [Lines -> Int]
  BY DEF Inside
<1>1. Below(CapGroups(FromBand), FromBand) /\ Inside(CapGroups(FromBand))
  BY CapGroupsShrinks, BelowStaysInside
<1>2. Below(Met, CapGroups(FromBand))
  <2> DEFINE cap == 2 * High(GrossCap, Gross(base))
             x == CapGroups(FromBand)
  <2>1. Met = Project(Lines, x, Lo, Hi, Flat, cap)
    BY DEF Met, ProjectGross
  <2>2. Inside(x)
    BY <1>1
  <2> HIDE DEF cap, x
  <2>3. Below(Met, x)
    BY <2>1, <2>2, FlatCosts, LineProject
  <2> QED
    BY <2>3 DEF x
<1>3. Below(Met, FromBand)
  BY <1>0, <1>1, <1>2, BelowIsOrder
<1>4. Inside(Met)
  BY <1>3, BelowStaysInside
<1> DEFINE a == Settle(Met)
           b == VolStep(a)
           c == Settle(b)
<1>5. Projected = c
  BY DEF Projected, Met
<1>6. Met \in [Lines -> Int]
  BY <1>4 DEF Inside
<1>7. Below(a, Met) /\ Inside(a)
  BY <1>4, SettleShrinks, BelowStaysInside
<1> HIDE DEF a
<1>8. Below(b, a) /\ Inside(b)
  BY <1>7, VolStepShrinks, BelowStaysInside
<1> HIDE DEF b
<1>9. Below(c, b)
  BY <1>8, SettleShrinks
<1> HIDE DEF c
<1>10. Below(c, Met)
  BY <1>6, <1>7, <1>8, <1>9, BelowIsOrder
<1>11. Below(c, FromBand)
  BY <1>0, <1>3, <1>10, BelowIsOrder
<1> QED
  BY <1>3, <1>5, <1>10, <1>11

-----------------------------------------------------------------------------
(* Gross *)

LEMMA GrossIsInt ==
    ASSUME NEW v \in [Lines -> Int]
    PROVE  Gross(v) \in Int /\ \A S : GroupGross(v, S) \in Int
<1>1. Gross(v) \in Int
  <2> DEFINE f == [l \in Lines |-> Size(v[l])]
  <2>1. IntOn(f, Lines)
    BY DEF IntOn, Size, High
  <2>2. Gross(v) = Sum(f)
    BY DEF Gross
  <2> HIDE DEF f
  <2> QED
    BY <2>1, <2>2, SumIsInt
<1>2. ASSUME NEW S PROVE GroupGross(v, S) \in Int
  <2> DEFINE f == [l \in Lines |-> IF l \in S THEN Size(v[l]) ELSE 0]
  <2>1. IntOn(f, Lines)
    BY DEF IntOn, Size, High
  <2>2. GroupGross(v, S) = Sum(f)
    BY DEF GroupGross
  <2> HIDE DEF f
  <2> QED
    BY <2>1, <2>2, SumIsInt
<1> QED
  BY <1>1, <1>2

(* A book whose lines are all no larger has no larger gross. *)
LEMMA GrossShrinks ==
    ASSUME NEW x \in [Lines -> Int], NEW v \in [Lines -> Int], \A l \in Lines : Size(x[l]) <= Size(v[l])
    PROVE  Gross(x) <= Gross(v)
<1> DEFINE f == [l \in Lines |-> Size(x[l])]
           g == [l \in Lines |-> Size(v[l])]
<1>1. IntOn(f, Lines) /\ IntOn(g, Lines)
  BY DEF IntOn, Size, High
<1>2. \A l \in Lines : f[l] <= g[l]
  OBVIOUS
<1>3. Gross(x) = Sum(f) /\ Gross(v) = Sum(g)
  BY DEF Gross
<1> HIDE DEF f, g
<1> QED
  BY <1>1, <1>2, <1>3, SumGrows

LEMMA BetweenIsSmaller ==
    \A x, v \in Int : Between(x, v) => Size(x) <= Size(v)
BY DEF Between, Size, High

LEMMA FlatCostIsGross ==
    ASSUME NEW x \in [Lines -> Int]
    PROVE  CostOf(Lines, Flat, x) = 2 * Gross(x)
<1> DEFINE f == [l \in Lines |-> Size(x[l])]
           c == [l \in Lines |-> Flat[l] * Size(x[l])]
           g == [l \in Lines |-> IF l \in Lines THEN c[l] ELSE 0]
<1>0. \A l \in Lines : Size(x[l]) \in Int /\ Flat[l] = 2
  BY DEF Size, High, Flat
<1>1. IntOn(f, Lines) /\ IntOn(g, Lines) /\ \A l \in Lines : g[l] = 2 * f[l]
  BY <1>0 DEF IntOn
<1>2. Gross(x) = Sum(f) /\ CostOf(Lines, Flat, x) = Sum(g)
  BY DEF Gross, CostOf, SumOf
<1> HIDE DEF f, g
<1> QED
  BY <1>1, <1>2, SumDoubles

(* A projection on gross meets the cap, or stops at the end of its path.          *)
LEMMA GrossIsMet ==
    ASSUME NEW v \in [Lines -> Int], NEW lo \in [Lines -> Int], NEW hi \in [Lines -> Int],
           NEW cap \in Int, Lines # {}
    PROVE  LET x == ProjectGross(Lines, v, lo, hi, cap)
           IN x \in [Lines -> Int] /\ (Gross(x) <= cap \/ Gross(x) <= Gross(Bottom(Lines, v, lo, hi)))
<1> DEFINE x == ProjectGross(Lines, v, lo, hi, cap)
           twice == 2 * cap
           bot == Bottom(Lines, v, lo, hi)
<1>1. x = Project(Lines, v, lo, hi, Flat, twice)
  BY DEF ProjectGross
<1> HIDE DEF x
<1>2. \E by \in Nat : /\ x = Point(Lines, v, lo, hi, Flat, by)
                      /\ \/ CostOf(Lines, Flat, Point(Lines, v, lo, hi, Flat, by)) <= twice
                         \/ CostOf(Lines, Flat, Point(Lines, v, lo, hi, Flat, by)) <= CostOf(Lines, Flat, Bottom(Lines, v, lo, hi))
  <2> HIDE DEF twice, bot
  <2> QED
    BY <1>1, FlatCosts, ProjectPicks
<1>3. x \in [Lines -> Int]
  <2>1. PICK by \in Nat : x = Point(Lines, v, lo, hi, Flat, by)
    BY <1>2
  <2>2. Point(Lines, v, lo, hi, Flat, by) \in [Lines -> Int]
    BY FlatCosts, PointsAreBooks
  <2> QED
    BY <2>1, <2>2
<1>4. bot \in [Lines -> Int]
  BY DEF Bottom, Clip, Low, High
<1>5. CostOf(Lines, Flat, x) <= twice \/ CostOf(Lines, Flat, x) <= CostOf(Lines, Flat, bot)
  BY <1>2
<1> HIDE DEF bot
<1>6. 2 * Gross(x) <= 2 * cap \/ 2 * Gross(x) <= 2 * Gross(bot)
  BY <1>3, <1>4, <1>5, FlatCostIsGross
<1>7. Gross(x) <= cap \/ Gross(x) <= Gross(bot)
  BY <1>3, <1>4, <1>6, GrossIsInt
<1> QED
  BY <1>3, <1>7 DEF x, bot

-----------------------------------------------------------------------------
(* The intervals *)

LEMMA SomeLine == Lines # {} /\ Lines = 1 .. N /\ Locked \subseteq Lines /\ Swing \subseteq Lines
<1>1. N \in Nat \ {0} /\ Locked \subseteq Lines /\ Swing \subseteq Lines
  BY RiskConstants DEF Lines
<1>2. 1 \in 1 .. N
  BY <1>1
<1> QED
  BY <1>1, <1>2 DEF Lines

LEMMA BookHeld ==
    ASSUME facts \in Cases
    PROVE  Now \in [Lines -> Int]
<1>1. ASSUME NEW l \in Lines PROVE Now[l] \in Int
  <2>1. CASE l \in Managed
    <3>1. l \in Lines \ (Locked \cup Swing)
      BY <2>1 DEF Managed
    <3>2. facts.line[l].now \in Int
      BY <3>1, RiskCases
    <3> QED
      BY <2>1, <3>2 DEF Now
  <2>2. CASE l \notin Managed /\ l \in Locked
    <3>1. facts.locked \in Int
      BY RiskCases
    <3> QED
      BY <2>2, <3>1 DEF Now
  <2>3. CASE l \notin Managed /\ l \notin Locked
    <3>1. l \in Swing
      BY <2>3 DEF Managed
    <3>2. facts.swing[l].now \in Int
      BY <3>1, RiskCases
    <3> QED
      BY <2>3, <3>2 DEF Now
  <2> QED
    BY <2>1, <2>2, <2>3
<1>2. Now = [l \in Lines |-> Now[l]]
  BY DEF Now
<1> QED
  BY <1>1, <1>2

(* The base takes risk off the managed lines alone, down to DeriskTo or to what   *)
(* the other lines hold.                                                        *)
LEMMA BaseIsBelow ==
    ASSUME facts \in Cases
    PROVE  /\ ComplianceBase \in [Lines -> Int]
           /\ \A l \in Lines : Between(ComplianceBase[l], Now[l])
           /\ \A l \in Lines : l \notin Managed => ComplianceBase[l] = Now[l]
           /\ Derisk => \/ Gross(ComplianceBase) <= DeriskTo
                        \/ Gross(ComplianceBase) <= GroupGross(Now, Lines \ Managed)
<1> DEFINE lo == [l \in Lines |-> IF l \in Managed THEN Low(Now[l], 0) ELSE Now[l]]
           hi == [l \in Lines |-> IF l \in Managed THEN High(Now[l], 0) ELSE Now[l]]
           x == ProjectGross(Lines, Now, lo, hi, DeriskTo)
           twice == 2 * DeriskTo
<1>0. Now \in [Lines -> Int] /\ \A l \in Lines : Now[l] \in Int
  BY BookHeld
<1>1. ComplianceBase = IF Derisk THEN x ELSE Now
  BY DEF ComplianceBase
<1>2. lo \in [Lines -> Int] /\ hi \in [Lines -> Int]
  BY <1>0 DEF Low, High
<1>3. Boxed(Lines, Now, lo, hi)
  BY <1>0 DEF Boxed, Low, High
<1>4. \A l \in Lines : l \notin Managed => lo[l] = hi[l]
  OBVIOUS
<1> DEFINE bot == Bottom(Lines, Now, lo, hi)
<1>5. ASSUME NEW l \in Lines PROVE bot[l] = IF l \in Managed THEN 0 ELSE Now[l]
  BY <1>0 DEF Bottom, Clip, Low, High
<1>6. bot \in [Lines -> Int]
  BY <1>0, <1>5 DEF Bottom
<1>7. x = Project(Lines, Now, lo, hi, Flat, twice)
  BY DEF ProjectGross
<1>8. Shrinks(x, Lines, Now, lo, hi)
  <2> HIDE DEF lo, hi, twice, x
  <2> QED
    BY <1>0, <1>2, <1>3, <1>7, SomeLine, FlatCosts, ProjectShrinks
<1>9. Gross(bot) <= GroupGross(Now, Lines \ Managed)
  <2> DEFINE f == [l \in Lines |-> Size(bot[l])]
             g == [l \in Lines |-> IF l \in Lines \ Managed THEN Size(Now[l]) ELSE 0]
  <2>1. Gross(bot) = Sum(f) /\ GroupGross(Now, Lines \ Managed) = Sum(g)
    BY DEF Gross, GroupGross
  <2>2. \A l \in Lines : Size(Now[l]) \in Int /\ Size(bot[l]) \in Int
    BY <1>0, <1>6 DEF Size, High
  <2>3. Size(0) = 0
    BY DEF Size, High
  <2>4. \A l \in Lines : f[l] <= g[l]
    <3> HIDE DEF bot
    <3> QED
      BY <1>5, <2>2, <2>3
  <2>5. IntOn(f, Lines) /\ IntOn(g, Lines)
    <3> HIDE DEF bot
    <3> QED
      BY <2>2 DEF IntOn
  <2> HIDE DEF f, g
  <2> QED
    BY <2>1, <2>4, <2>5, SumGrows
<1>10. Gross(x) <= DeriskTo \/ Gross(x) <= Gross(bot)
  <2>1. DeriskTo \in Int
    BY RiskConstants
  <2> HIDE DEF lo, hi
  <2> QED
    BY <1>0, <1>2, <2>1, SomeLine, GrossIsMet
<1>11. x \in [Lines -> Int]
  BY <1>8 DEF Shrinks
<1> HIDE DEF lo, hi, bot
<1>12. Gross(x) <= DeriskTo \/ Gross(x) <= GroupGross(Now, Lines \ Managed)
  BY <1>0, <1>6, <1>9, <1>10, <1>11, GrossIsInt
<1>13. \A l \in Lines : Between(x[l], Now[l]) /\ (l \notin Managed => x[l] = Now[l])
  BY <1>4, <1>8 DEF Shrinks
<1>14. \A l \in Lines : Between(Now[l], Now[l])
  BY <1>0 DEF Between
<1> HIDE DEF x
<1> QED
  BY <1>0, <1>1, <1>11, <1>12, <1>13, <1>14

FitsIn(i, a, b) == i[1] \in Int /\ i[2] \in Int /\ i[1] <= i[2] /\ a <= i[1] /\ i[2] <= b

LEMMA IntoFits ==
    ASSUME NEW i, i[1] \in Int, i[2] \in Int, NEW a \in Int, NEW b \in Int, a <= b
    PROVE  FitsIn(Into(i, a, b), a, b)
<1> DEFINE p == Clip(i[1], a, b)
           q == Clip(i[2], a, b)
<1>1. p \in Int /\ q \in Int /\ a <= p /\ p <= b /\ a <= q /\ q <= b
  BY DEF Clip, Low, High
<1>2. Into(i, a, b) = <<p, High(p, q)>>
  BY DEF Into
<1> HIDE DEF p, q
<1>3. High(p, q) \in Int /\ p <= High(p, q) /\ High(p, q) <= b
  BY <1>1 DEF High
<1> QED
  BY <1>1, <1>2, <1>3 DEF FitsIn

(* A box is never empty, and one that may not add lies between its base and zero. *)
LEMMA BoxesFit ==
    ASSUME facts \in Cases, NEW b \in [Lines -> Int], NEW l \in Managed
    PROVE  /\ Boxes(b)[l][1] \in Int /\ Boxes(b)[l][2] \in Int /\ Boxes(b)[l][1] <= Boxes(b)[l][2]
           /\ l \in NoAdd => Low(b[l], 0) <= Boxes(b)[l][1] /\ Boxes(b)[l][2] <= High(b[l], 0)
<1> DEFINE band == <<facts.line[l].lo, facts.line[l].hi>>
           i1 == IF l \in Levered THEN band ELSE Into(band, Low(-Unit[l], b[l]), High(Unit[l], b[l]))
           i2 == Into(i1, Low(-LineCap[l], b[l]), High(LineCap[l], b[l]))
           i3 == IF l \in NoAdd THEN Into(i2, Low(b[l], 0), High(b[l], 0)) ELSE i2
           i4 == IF l \in Is("chase_long") THEN Into(i3, Low(i3[1], 0), High(b[l], 0)) ELSE i3
           i5 == IF l \in Is("chase_short") THEN Into(i4, Low(b[l], 0), High(i4[2], 0)) ELSE i4
<1>0. l \in Lines \ (Locked \cup Swing) /\ l \in Lines /\ b[l] \in Int
  BY DEF Managed
<1>1. Unit[l] \in Int /\ LineCap[l] \in Int
  BY SMTT(30), <1>0, RiskConstants
<1>2. band[1] \in Int /\ band[2] \in Int
  <2>1. facts.line[l].lo \in Int /\ facts.line[l].hi \in Int
    BY <1>0, RiskCases
  <2> QED
    BY <2>1
<1>3. Boxes(b)[l] = IF l \in Pinned THEN <<b[l], b[l]>> ELSE i5
  BY Zenon DEF Boxes
<1> DEFINE zl == Low(b[l], 0)
           zh == High(b[l], 0)
           Fine(i) == /\ i[1] \in Int /\ i[2] \in Int /\ i[1] <= i[2]
                      /\ l \in NoAdd => zl <= i[1] /\ i[2] <= zh
<1>4. /\ zl \in Int /\ zh \in Int /\ zl <= 0 /\ 0 <= zh /\ zl <= b[l] /\ b[l] <= zh
  BY <1>0 DEF Low, High
<1> HIDE DEF band
<1>5. i1[1] \in Int /\ i1[2] \in Int
  <2>1. Low(-Unit[l], b[l]) \in Int /\ High(Unit[l], b[l]) \in Int /\ Low(-Unit[l], b[l]) <= High(Unit[l], b[l])
    BY <1>0, <1>1 DEF Low, High
  <2> DEFINE a == Low(-Unit[l], b[l])
             c == High(Unit[l], b[l])
  <2> HIDE DEF a, c
  <2>2. FitsIn(Into(band, a, c), a, c)
    BY <1>2, <2>1, IntoFits DEF a, c
  <2> QED
    BY <1>2, <2>2 DEF a, c, FitsIn
<1> HIDE DEF i1
<1>6. i2[1] \in Int /\ i2[2] \in Int /\ i2[1] <= i2[2]
  <2> DEFINE a == Low(-LineCap[l], b[l])
             c == High(LineCap[l], b[l])
  <2>1. a \in Int /\ c \in Int /\ a <= c
    BY <1>0, <1>1 DEF Low, High
  <2> HIDE DEF a, c
  <2>2. FitsIn(Into(i1, a, c), a, c)
    BY <1>5, <2>1, IntoFits
  <2> QED
    BY <2>2 DEF a, c, FitsIn
<1> HIDE DEF i2
<1>7. Fine(i3)
  <2>1. CASE l \in NoAdd
    <3> HIDE DEF zl, zh
    <3>1. FitsIn(Into(i2, zl, zh), zl, zh)
      BY <1>4, <1>6, IntoFits
    <3>2. i3 = Into(i2, zl, zh)
      BY <2>1 DEF zl, zh
    <3> HIDE DEF i3
    <3> QED
      BY <3>1, <3>2 DEF FitsIn
  <2>2. CASE l \notin NoAdd
    BY <1>6, <2>2
  <2> QED
    BY <2>1, <2>2
<1> HIDE DEF i3
<1>8. Fine(i4)
  <2>1. CASE l \in Is("chase_long")
    <3> DEFINE a == Low(i3[1], 0)
    <3>1. a \in Int /\ a <= 0 /\ (l \in NoAdd => zl <= a)
      <4> HIDE DEF zl, zh
      <4> QED
        BY <1>4, <1>7 DEF Low
    <3> HIDE DEF zl, zh, a
    <3>2. FitsIn(Into(i3, a, zh), a, zh)
      BY <1>4, <1>7, <3>1, IntoFits
    <3>3. i4 = Into(i3, a, zh)
      BY <2>1 DEF a, zh
    <3> HIDE DEF i4
    <3> QED
      BY <1>4, <3>1, <3>2, <3>3 DEF FitsIn
  <2>2. CASE l \notin Is("chase_long")
    BY <1>7, <2>2
  <2> QED
    BY <2>1, <2>2
<1> HIDE DEF i4
<1>9. Fine(i5)
  <2>1. CASE l \in Is("chase_short")
    <3> DEFINE c == High(i4[2], 0)
    <3>1. c \in Int /\ 0 <= c /\ (l \in NoAdd => c <= zh)
      <4> HIDE DEF zl, zh
      <4> QED
        BY <1>4, <1>8 DEF High
    <3> HIDE DEF zl, zh, c
    <3>2. FitsIn(Into(i4, zl, c), zl, c)
      BY <1>4, <1>8, <3>1, IntoFits
    <3>3. i5 = Into(i4, zl, c)
      BY <2>1 DEF c, zl
    <3> HIDE DEF i5
    <3> QED
      BY <1>4, <3>1, <3>2, <3>3 DEF FitsIn
  <2>2. CASE l \notin Is("chase_short")
    BY <1>8, <2>2
  <2> QED
    BY <2>1, <2>2
<1> HIDE DEF i5
<1>10. Fine(<<b[l], b[l]>>)
  <2> HIDE DEF zl, zh
  <2> QED
    BY <1>0, <1>4
<1> HIDE DEF Fine
<1>11. Fine(Boxes(b)[l])
  BY <1>3, <1>9, <1>10
<1> QED
  BY <1>11 DEF Fine

(* What the prologue leaves for every run of the cycle.                          *)
Prologue ==
    /\ facts \in Cases /\ base = ComplianceBase /\ box = Boxes(base)
    /\ target \in [Lines -> Int]

LEMMA TargetIsBook ==
    ASSUME facts \in Cases, NEW b \in [Lines -> Int]
    PROVE  [l \in Lines |-> IF l \in Managed THEN Authority[l] ELSE b[l]] \in [Lines -> Int]
<1> SUFFICES ASSUME NEW l \in Lines, l \in Managed PROVE Authority[l] \in Int
  OBVIOUS
<1>1. l \in Lines \ (Locked \cup Swing)
  BY DEF Managed
<1>2. /\ facts.line[l].raw \in Int /\ facts.line[l].ref \in Int
      /\ facts.line[l].lo \in Int /\ facts.line[l].hi \in Int
  BY <1>1, RiskCases
<1>3. /\ Clip(facts.line[l].raw, facts.line[l].lo, facts.line[l].hi) \in Int
      /\ Clip(facts.line[l].ref, facts.line[l].lo, facts.line[l].hi) \in Int
      /\ Now[l] \in Int
  BY <1>2, BookHeld DEF Clip, Low, High
<1>4. Authority[l] \in {Now[l], Clip(facts.line[l].raw, facts.line[l].lo, facts.line[l].hi),
                        Clip(facts.line[l].ref, facts.line[l].lo, facts.line[l].hi)}
  BY Zenon DEF Authority
<1> QED
  BY <1>3, <1>4

LEMMA PinsAreWeights ==
    ASSUME Prologue, live \subseteq Swing
    PROVE  \A l \in Lines : /\ Pin(l) \in Int
                            /\ (l \in Swing /\ l \in live => Pin(l) = facts.swing[l].pin)
                            /\ (l \in Swing /\ l \notin live => Pin(l) = 0)
                            /\ (l \notin Swing => Pin(l) = base[l])
<1> SUFFICES ASSUME NEW l \in Lines PROVE Pin(l) \in Int
  BY DEF Pin
<1>1. base[l] \in Int
  BY BaseIsBelow DEF Prologue
<1>2. l \in Swing => facts.swing[l].pin \in Int
  BY RiskCases DEF Prologue
<1> QED
  BY <1>1, <1>2 DEF Pin

(* In every round the intervals are in order and hold the book they start    *)
(* from; a fixed line has only its pin, and a line that may not add cannot   *)
(* grow.                                                                     *)
LEMMA IntervalsSound ==
    ASSUME Prologue, live \subseteq Swing
    PROVE  /\ Sound /\ Inside(FromBand)
           /\ \A l \in Lines : l \in Fixed => Lo[l] = Hi[l] /\ FromBand[l] = Pin(l)
           /\ \A l \in Managed : l \in NoAdd => Between(FromBand[l], base[l])
<1>0. base \in [Lines -> Int] /\ target \in [Lines -> Int] /\ box = Boxes(base) /\ facts \in Cases
  BY BaseIsBelow DEF Prologue
<1>1. ASSUME NEW l \in Lines
      PROVE  /\ Lo[l] \in Int /\ Hi[l] \in Int /\ FromBand[l] \in Int
             /\ Lo[l] <= FromBand[l] /\ FromBand[l] <= Hi[l]
             /\ Lo[l] = Hi[l] \/ (Lo[l] <= 0 /\ 0 <= Hi[l])
             /\ l \in Fixed => Lo[l] = Hi[l] /\ FromBand[l] = Pin(l)
             /\ l \in Managed /\ l \in NoAdd => Between(FromBand[l], base[l])
  <2>1. Pin(l) \in Int
    BY PinsAreWeights
  <2>2. CASE l \in Fixed
    <3>1. Lo[l] = Pin(l) /\ Hi[l] = Pin(l) /\ FromBand[l] = Pin(l)
      BY <2>2 DEF Lo, Hi, FromBand
    <3>2. l \in Managed => Pin(l) = base[l]
      BY PinsAreWeights DEF Managed
    <3>3. base[l] \in Int
      BY <1>0
    <3> QED
      BY <2>1, <3>1, <3>2, <3>3 DEF Between
  <2>3. CASE l \notin Fixed
    <3>1. l \in Managed
      BY <2>3 DEF Fixed
    <3>2. /\ box[l][1] \in Int /\ box[l][2] \in Int /\ box[l][1] <= box[l][2]
          /\ l \in NoAdd => Low(base[l], 0) <= box[l][1] /\ box[l][2] <= High(base[l], 0)
      BY <1>0, <3>1, BoxesFit
    <3>3. /\ Lo[l] = Low(box[l][1], 0) /\ Hi[l] = High(box[l][2], 0)
          /\ FromBand[l] = Clip(target[l], box[l][1], box[l][2])
      BY <2>3 DEF Lo, Hi, FromBand
    <3>4. target[l] \in Int /\ base[l] \in Int
      BY <1>0
    <3>5. /\ FromBand[l] \in Int /\ box[l][1] <= FromBand[l] /\ FromBand[l] <= box[l][2]
      BY <3>2, <3>3, <3>4 DEF Clip, Low, High
    <3>6. /\ Lo[l] \in Int /\ Hi[l] \in Int /\ Lo[l] <= box[l][1] /\ box[l][2] <= Hi[l]
          /\ Lo[l] <= 0 /\ 0 <= Hi[l]
      BY <3>2, <3>3 DEF Low, High
    <3>7. l \in NoAdd => Between(FromBand[l], base[l])
      BY <3>2, <3>4, <3>5 DEF Between, Low, High
    <3> QED
      BY <2>3, <3>2, <3>5, <3>6, <3>7
  <2> QED
    BY <2>2, <2>3
<1>2. Lo \in [Lines -> Int] /\ Hi \in [Lines -> Int] /\ FromBand \in [Lines -> Int]
  <2>1. Lo = [l \in Lines |-> Lo[l]] /\ Hi = [l \in Lines |-> Hi[l]]
        /\ FromBand = [l \in Lines |-> FromBand[l]]
    BY DEF Lo, Hi, FromBand
  <2> QED
    BY <1>1, <2>1
<1>3. Sound /\ Inside(FromBand)
  BY <1>1, <1>2, SomeLine DEF Sound, Inside
<1> QED
  BY <1>1, <1>3 DEF Managed

-----------------------------------------------------------------------------
(* The book of a round: holds and exits of the swing book stay, and nothing that *)
(* may not add has added.  Without entries its gross is within the cap or within  *)
(* that of the base.                                                            *)
Decided(v) ==
    /\ v \in [Lines -> Int]
    /\ \A l \in Swing : l \notin Entering => v[l] = facts.swing[l].pin
    /\ \A l \in Locked : v[l] = base[l]
    /\ facts.kill # "NORMAL" => \A l \in Managed : Between(v[l], base[l])
EntryFree(v) ==
    /\ Decided(v) /\ \A l \in Entering : v[l] = 0
    /\ Gross(v) <= High(GrossCap, Gross(base))

(* A round ends with locked lines at the base, open swing lines at their     *)
(* pins, and under a warning no managed line larger.                         *)
LEMMA RoundDecides ==
    ASSUME Prologue, facts.kill # "HALTED", live \subseteq Swing, Swing \ Entering \subseteq live
    PROVE  Decided(Projected)
<1> DEFINE v == Projected
<1>1. /\ Sound /\ Inside(FromBand)
      /\ \A l \in Lines : l \in Fixed => Lo[l] = Hi[l] /\ FromBand[l] = Pin(l)
      /\ \A l \in Managed : l \in NoAdd => Between(FromBand[l], base[l])
  BY IntervalsSound
<1>2. Below(v, FromBand)
  BY <1>1, ProjectedShrinks
<1> HIDE DEF v
<1>3. v \in [Lines -> Int] /\ base \in [Lines -> Int]
  BY <1>2, BaseIsBelow DEF Below, Prologue
<1>4. \A l \in Lines : l \in Fixed => v[l] = Pin(l)
  BY <1>1, <1>2 DEF Below
<1>5. ASSUME NEW l \in Swing, l \notin Entering PROVE v[l] = facts.swing[l].pin
  <2>1. l \in live /\ l \in Lines /\ l \in Fixed
    BY <1>5, SomeLine DEF Fixed, Managed
  <2> QED
    BY <1>4, <2>1, PinsAreWeights
<1>6. ASSUME NEW l \in Locked PROVE v[l] = base[l]
  <2>1. l \in Lines /\ l \in Fixed /\ l \notin Swing
    BY RiskConstants, SomeLine DEF Fixed, Managed
  <2> QED
    BY <1>4, <2>1, PinsAreWeights
<1>7. ASSUME facts.kill # "NORMAL", NEW l \in Managed PROVE Between(v[l], base[l])
  <2>1. facts.kill = "WARN"
    BY <1>7, RiskCases DEF Prologue
  <2>2. l \in NoAdd /\ l \in Lines
    BY <2>1 DEF NoAdd, Managed
  <2>3. Between(FromBand[l], base[l]) /\ Between(v[l], FromBand[l])
    BY <1>1, <1>2, <2>2 DEF Below
  <2>4. v[l] \in Int /\ FromBand[l] \in Int /\ base[l] \in Int
    BY <1>1, <1>3, <2>2 DEF Inside
  <2> QED
    BY <2>3, <2>4 DEF Between
<1>8. Decided(v)
  BY <1>3, <1>5, <1>6, <1>7 DEF Decided
<1> QED
  BY <1>8 DEF v

LEMMA BaseOfTheRest ==
    ASSUME Prologue, NEW l \in Swing, l \notin Entering
    PROVE  Size(facts.swing[l].pin) <= Size(base[l])
<1>1. l \in Lines /\ l \notin Managed /\ l \notin Locked
  BY SomeLine, RiskConstants DEF Managed
<1>2. facts.swing[l].now \in Int /\ facts.swing[l].pin \in {facts.swing[l].now, 0}
  BY RiskCases DEF Prologue, Entering
<1>3. base[l] = facts.swing[l].now
  BY <1>1, BaseIsBelow DEF Prologue, Now
<1> QED
  BY <1>2, <1>3 DEF Size, High

(* A round without swing entries ends with none of them in the book, and its *)
(* gross within the cap.                                                     *)
LEMMA RoundWithoutEntries ==
    ASSUME Prologue, facts.kill # "HALTED", live = Swing \ Entering
    PROVE  EntryFree(Projected)
<1> DEFINE v == Projected
           x == CapGroups(FromBand)
           cap == High(GrossCap, Gross(base))
           bot == Bottom(Lines, x, Lo, Hi)
<1>0. live \subseteq Swing
  OBVIOUS
<1>1. /\ Sound /\ Inside(FromBand)
      /\ \A l \in Lines : l \in Fixed => Lo[l] = Hi[l] /\ FromBand[l] = Pin(l)
  BY <1>0, IntervalsSound
<1>2. Below(v, FromBand) /\ Below(v, Met) /\ Below(Met, FromBand)
  BY <1>1, ProjectedShrinks
<1>3. Decided(v)
  BY <1>0, RoundDecides
<1>4. x \in [Lines -> Int] /\ base \in [Lines -> Int] /\ Lo \in [Lines -> Int] /\ Hi \in [Lines -> Int]
  BY <1>1, CapGroupsShrinks, BaseIsBelow DEF Below, Prologue, Sound
<1> HIDE DEF v
<1>5. ASSUME NEW l \in Entering PROVE v[l] = 0
  <2>1. l \in Lines /\ l \in Fixed /\ l \in Swing /\ l \notin live
    BY SomeLine DEF Fixed, Managed, Entering
  <2>2. v[l] = Pin(l)
    BY <1>1, <1>2, <2>1 DEF Below
  <2> QED
    BY <1>0, <2>1, <2>2, PinsAreWeights
<1>6. ASSUME NEW l \in Lines PROVE bot[l] \in Int /\ Size(bot[l]) <= Size(base[l])
  <2>1. bot[l] = Clip(0, Lo[l], Hi[l])
    BY DEF Bottom
  <2>2. Lo[l] \in Int /\ Hi[l] \in Int /\ base[l] \in Int
    BY <1>4
  <2>3. Size(0) = 0 /\ Size(base[l]) \in Int /\ 0 <= Size(base[l])
    BY <2>2 DEF Size, High
  <2>4. CASE l \in Fixed
    <3>1. Lo[l] = Pin(l) /\ Hi[l] = Pin(l) /\ Pin(l) \in Int
      BY <2>4, <1>0, PinsAreWeights DEF Lo, Hi
    <3>2. bot[l] = Pin(l)
      BY <2>1, <3>1 DEF Clip, Low, High
    <3>3. Size(Pin(l)) <= Size(base[l])
      <4>1. CASE l \in Swing /\ l \notin Entering
        <5>1. Pin(l) = facts.swing[l].pin
          BY <4>1, <1>0, PinsAreWeights
        <5> QED
          BY <4>1, <5>1, BaseOfTheRest
      <4>2. CASE l \in Swing /\ l \in Entering
        <5>1. Pin(l) = 0
          BY <4>2, <1>0, PinsAreWeights
        <5> QED
          BY <5>1, <2>3
      <4>3. CASE l \notin Swing
        <5>1. Pin(l) = base[l]
          BY <4>3, <1>0, PinsAreWeights
        <5> QED
          BY <5>1, <2>3
      <4> QED
        BY <4>1, <4>2, <4>3
    <3> QED
      BY <3>1, <3>2, <3>3
  <2>5. CASE l \notin Fixed
    <3>1. Lo[l] <= 0 /\ 0 <= Hi[l]
      <4>1. Lo[l] = Low(box[l][1], 0) /\ Hi[l] = High(box[l][2], 0)
        BY <2>5 DEF Lo, Hi
      <4>2. l \in Managed
        BY <2>5 DEF Fixed
      <4>3. box[l][1] \in Int /\ box[l][2] \in Int
        BY <1>4, <4>2, BoxesFit DEF Prologue
      <4> QED
        BY <4>1, <4>3 DEF Low, High
    <3>2. bot[l] = 0
      BY <2>1, <2>2, <3>1 DEF Clip, Low, High
    <3> QED
      BY <2>3, <3>2
  <2> QED
    BY <2>4, <2>5
<1>7. bot \in [Lines -> Int]
  BY <1>6 DEF Bottom
<1> HIDE DEF bot
<1>8. Gross(bot) <= Gross(base)
  BY <1>4, <1>6, <1>7, GrossShrinks
<1>9. GrossCap \in Int /\ Gross(base) \in Int
  BY <1>4, GrossIsInt, RiskConstants DEF GrossCap
<1>10. cap \in Int /\ Gross(base) <= cap
  BY <1>9 DEF High
<1>11. Met = ProjectGross(Lines, x, Lo, Hi, cap)
  BY DEF Met
<1> HIDE DEF x, cap
<1>12. Met \in [Lines -> Int] /\ (Gross(Met) <= cap \/ Gross(Met) <= Gross(bot))
  BY <1>4, <1>10, <1>11, SomeLine, GrossIsMet DEF bot
<1>13. Gross(Met) <= cap
  BY <1>7, <1>8, <1>9, <1>10, <1>12, GrossIsInt
<1>14. Gross(v) <= Gross(Met)
  <2>1. v \in [Lines -> Int]
    BY <1>2 DEF Below
  <2>2. \A l \in Lines : Size(v[l]) <= Size(Met[l])
    BY <1>2, <1>12, <2>1, BetweenIsSmaller DEF Below
  <2> QED
    BY <1>12, <2>1, <2>2, GrossShrinks
<1>15. Gross(v) <= cap
  <2>1. v \in [Lines -> Int]
    BY <1>2 DEF Below
  <2> QED
    BY <1>10, <1>12, <1>13, <1>14, <2>1, GrossIsInt
<1> QED
  BY <1>3, <1>5, <1>15 DEF EntryFree, cap, v

-----------------------------------------------------------------------------
(* The invariant of an evaluation: every book that a run decides keeps what the   *)
(* entry-free book and the swing holds fix, and entries are only tried while the  *)
(* switch is NORMAL.                                                            *)
Evaluating ==
    /\ Prologue /\ facts.kill # "HALTED"
    /\ live \subseteq Swing /\ Swing \ Entering \subseteq live
    /\ core = <<>> => live = Swing \ Entering
    /\ core # <<>> => EntryFree(core)
    /\ entries \subseteq Swing /\ (facts.kill # "NORMAL" => entries = {})
CostNothing ==
    /\ \A l \in Lines \ Swing : w[l] = core[l]
    /\ \A l \in Swing \ Entering : w[l] = facts.swing[l].pin
    /\ Failed(w) \subseteq Failed(core)
RiskInv ==
    \/ stage = "facts" /\ core = <<>> /\ facts \in Cases
    \/ /\ stage = "rounds" /\ Evaluating
       /\ core # <<>> => facts.kill = "NORMAL"
    \/ /\ stage = "decided" /\ Evaluating /\ Decided(w)
       /\ core = <<>> => EntryFree(w)
       /\ core # <<>> => facts.kill = "NORMAL"
    \/ /\ stage = "done" /\ Evaluating /\ core # <<>> /\ Decided(w) /\ CostNothing
       /\ facts.kill # "NORMAL" => w = core
    \/ /\ stage = "done" /\ core = <<>> /\ facts \in Cases
       /\ facts.kill = "HALTED" /\ w = [l \in Lines |-> 0]

LEMMA EmptyIsNoBook == \A v \in [Lines -> Int] : v # <<>>
<1> SUFFICES ASSUME NEW v \in [Lines -> Int], v = <<>> PROVE FALSE
  OBVIOUS
<1>1. DOMAIN v = Lines
  OBVIOUS
<1>2. DOMAIN v = {}
  <2>1. DOMAIN <<>> = 1 .. 0
    OBVIOUS
  <2> QED
    BY <2>1
<1> QED
  BY <1>1, <1>2, SomeLine

(* The inductive invariant of the engine, step by step. *)
LEMMA PrepareKeeps ==
    ASSUME RiskInv, Prepare
    PROVE  RiskInv'
<1>1. stage = "facts" /\ core = <<>> /\ facts \in Cases /\ facts.kill # "HALTED"
  BY DEF RiskInv, Prepare
<1>2. /\ base' = ComplianceBase /\ box' = Boxes(base') /\ live' = Swing \ Entering
      /\ target' = [l \in Lines |-> IF l \in Managed THEN Authority[l] ELSE base'[l]]
      /\ entries' = {l \in Entering : facts.kill = "NORMAL" /\ ~facts.swing[l].blocked}
      /\ stage' = "rounds" /\ facts' = facts /\ core' = core
  BY DEF Prepare
<1>3. ComplianceBase \in [Lines -> Int]
  BY <1>1, BaseIsBelow
<1>4. Now' = Now /\ Entering' = Entering
  BY <1>2 DEF Now, Entering
<1>5. ComplianceBase' = ComplianceBase
  BY <1>2, <1>4 DEF ComplianceBase, Derisk
<1>6. Boxes(base)' = Boxes(base')
  <2>1. Is("no_add")' = Is("no_add") /\ Is("no_band")' = Is("no_band") /\ Is("hold")' = Is("hold")
        /\ Is("chase_long")' = Is("chase_long") /\ Is("chase_short")' = Is("chase_short")
    BY <1>2 DEF Is
  <2>2. NoAdd' = NoAdd /\ Pinned' = Pinned
    BY <1>2, <2>1 DEF NoAdd, Pinned
  <2> DEFINE B == base'
             F == facts'
             of(l, na, pin, cl, cs, b, f) ==
               LET band == <<f.line[l].lo, f.line[l].hi>>
                   leverage(i) == IF l \in Levered THEN i
                                  ELSE Into(i, Low(-Unit[l], b[l]), High(Unit[l], b[l]))
                   cap(i) == Into(i, Low(-LineCap[l], b[l]), High(LineCap[l], b[l]))
                   add(i) == IF l \in na THEN Into(i, Low(b[l], 0), High(b[l], 0)) ELSE i
                   long(i) == IF l \in cl THEN Into(i, Low(i[1], 0), High(b[l], 0)) ELSE i
                   short(i) == IF l \in cs THEN Into(i, Low(b[l], 0), High(i[2], 0)) ELSE i
               IN IF l \in pin THEN <<b[l], b[l]>> ELSE short(long(add(cap(leverage(band)))))
  <2>3. Boxes(B) = [l \in Managed |-> of(l, NoAdd, Pinned, Is("chase_long"), Is("chase_short"), B, facts)]
    BY Zenon DEF Boxes
  <2>4. Boxes(base)' = [l \in Managed |-> of(l, NoAdd', Pinned', Is("chase_long")', Is("chase_short")', B, F)]
    BY Zenon DEF Boxes
  <2> HIDE DEF of
  <2>5. Boxes(base)' = [l \in Managed |-> of(l, NoAdd, Pinned, Is("chase_long"), Is("chase_short"), B, facts)]
    BY <1>2, <2>1, <2>2, <2>4
  <2> QED
    BY <2>3, <2>5
<1>7. target' \in [Lines -> Int]
  BY <1>1, <1>2, <1>3, TargetIsBook
<1>8. Prologue'
  BY <1>1, <1>2, <1>5, <1>6, <1>7 DEF Prologue
<1>9. Evaluating'
  <2>1. entries' \subseteq Swing /\ Swing \ Entering \subseteq live' /\ live' \subseteq Swing
    BY <1>2 DEF Entering
  <2>2. facts'.kill # "NORMAL" => entries' = {}
    BY <1>2
  <2> QED
    BY <1>1, <1>2, <1>4, <1>8, <2>1, <2>2 DEF Evaluating
<1> QED
  BY <1>1, <1>2, <1>9 DEF RiskInv

(* The checks look at the inputs and the base, whatever the book.                  *)
LEMMA ChecksStay ==
    ASSUME facts' = facts, base' = base
    PROVE  Failed(w)' = Failed(w')
<1>1. /\ Now' = Now /\ Is("no_add")' = Is("no_add") /\ Is("no_band")' = Is("no_band")
      /\ Is("hold")' = Is("hold") /\ Is("chase_long")' = Is("chase_long")
      /\ Is("chase_short")' = Is("chase_short") /\ Is("build")' = Is("build")
      /\ Is("pending")' = Is("pending") /\ Is("young")' = Is("young") /\ Is("material")' = Is("material")
      /\ Is("no_quote")' = Is("no_quote") /\ Is("dear")' = Is("dear")
  BY DEF Now, Is
<1>2. NoAdd' = NoAdd /\ Pinned' = Pinned /\ Building' = Building /\ GrossCap' = GrossCap
  BY <1>1 DEF NoAdd, Pinned, Building, GrossCap, Derisk
<1>3. /\ NetFloor' = NetFloor /\ NetCeiling' = NetCeiling
  BY DEF NetFloor, NetCeiling
<1>4. Vol(w)' = Vol(w') /\ Vol(base)' = Vol(base)
  BY DEF Vol
<1>5. BookChecks(w)' = BookChecks(w')
  BY <1>1, <1>2, <1>3, <1>4 DEF BookChecks
<1>6. /\ Changed(w)' = Changed(w') /\ Variable(w)' = Variable(w') /\ Increase(w)' = Increase(w')
      /\ LegsOf(w)' = LegsOf(w') /\ CarryOf(w)' = CarryOf(w') /\ CarryOf(base)' = CarryOf(base)
      /\ \A l : Change(w, l)' = Change(w', l) /\ Toward(l, w[l])' = Toward(l, w'[l])
  BY DEF Changed, Variable, Increase, LegsOf, CarryOf, Change, Toward
<1>7. /\ Cost(w)' = Cost(w') /\ \A l : Exempt(w, l)' = Exempt(w', l)
      /\ \A l : LargeEnough(w, l)' = LargeEnough(w', l)
  <2>1. Cost(w)' = Cost(w')
    BY <1>6 DEF Cost
  <2>2. ASSUME NEW l PROVE Exempt(w, l)' = Exempt(w', l)
    BY <1>6 DEF Exempt
  <2>3. ASSUME NEW l PROVE LargeEnough(w, l)' = LargeEnough(w', l)
    BY <1>1 DEF LargeEnough, Change, Toward
  <2> QED
    BY <2>1, <2>2, <2>3
<1>8. /\ \A l : MayMove(w, l)' = MayMove(w', l)
      /\ \A S : Discretionary(w, S)' = Discretionary(w', S) /\ CycleCosts(w, S)' = CycleCosts(w', S)
  BY <1>1, <1>2, <1>6, <1>7 DEF MayMove, Discretionary, CycleCosts
<1>9. MoveChecks(w)' = MoveChecks(w')
  BY <1>6, <1>7, <1>8 DEF MoveChecks, Change
<1> QED
  BY <1>5, <1>9 DEF Failed

LEMMA CoreChecksStay ==
    ASSUME facts' = facts, base' = base, core' = core
    PROVE  Failed(core)' = Failed(core)
<1>1. /\ Now' = Now /\ Is("no_add")' = Is("no_add") /\ Is("no_band")' = Is("no_band")
      /\ Is("hold")' = Is("hold") /\ Is("chase_long")' = Is("chase_long")
      /\ Is("chase_short")' = Is("chase_short") /\ Is("build")' = Is("build")
      /\ Is("pending")' = Is("pending") /\ Is("young")' = Is("young") /\ Is("material")' = Is("material")
      /\ Is("no_quote")' = Is("no_quote") /\ Is("dear")' = Is("dear")
  BY DEF Now, Is
<1>2. NoAdd' = NoAdd /\ Pinned' = Pinned /\ Building' = Building /\ GrossCap' = GrossCap
  BY <1>1 DEF NoAdd, Pinned, Building, GrossCap, Derisk
<1>3. /\ NetFloor' = NetFloor /\ NetCeiling' = NetCeiling
  BY DEF NetFloor, NetCeiling
<1>4. Vol(core)' = Vol(core) /\ Vol(base)' = Vol(base)
  BY DEF Vol
<1>5. BookChecks(core)' = BookChecks(core)
  BY <1>1, <1>2, <1>3, <1>4 DEF BookChecks
<1>6. /\ Changed(core)' = Changed(core) /\ Variable(core)' = Variable(core) /\ Increase(core)' = Increase(core)
      /\ LegsOf(core)' = LegsOf(core) /\ CarryOf(core)' = CarryOf(core) /\ CarryOf(base)' = CarryOf(base)
      /\ \A l : Change(core, l)' = Change(core, l) /\ Toward(l, core[l])' = Toward(l, core[l])
  BY DEF Changed, Variable, Increase, LegsOf, CarryOf, Change, Toward
<1>7. /\ Cost(core)' = Cost(core) /\ \A l : Exempt(core, l)' = Exempt(core, l)
      /\ \A l : LargeEnough(core, l)' = LargeEnough(core, l)
  <2>1. Cost(core)' = Cost(core)
    BY <1>6 DEF Cost
  <2>2. ASSUME NEW l PROVE Exempt(core, l)' = Exempt(core, l)
    BY <1>6 DEF Exempt
  <2>3. ASSUME NEW l PROVE LargeEnough(core, l)' = LargeEnough(core, l)
    BY <1>1, <1>6 DEF LargeEnough
  <2> QED
    BY <2>1, <2>2, <2>3
<1>8. /\ \A l : MayMove(core, l)' = MayMove(core, l)
      /\ \A S : Discretionary(core, S)' = Discretionary(core, S) /\ CycleCosts(core, S)' = CycleCosts(core, S)
  BY <1>1, <1>2, <1>6, <1>7 DEF MayMove, Discretionary, CycleCosts
<1>9. MoveChecks(core)' = MoveChecks(core)
  BY <1>6, <1>7, <1>8 DEF MoveChecks
<1> QED
  BY <1>5, <1>9 DEF Failed

LEMMA BooksStay ==
    ASSUME facts' = facts, base' = base, NEW CONSTANT v
    PROVE  Decided(v)' = Decided(v) /\ EntryFree(v)' = EntryFree(v)
<1>1. Now' = Now /\ Entering' = Entering
  BY DEF Now, Entering
<1>2. GrossCap' = GrossCap
  BY <1>1 DEF GrossCap, Derisk
<1>3. Decided(v)' = Decided(v)
  BY <1>1 DEF Decided
<1> QED
  BY <1>1, <1>2, <1>3 DEF EntryFree

LEMMA PrologueStays ==
    ASSUME Prologue, UNCHANGED prepared
    PROVE  Prologue' /\ Entering' = Entering
<1>0. facts' = facts /\ base' = base /\ box' = box /\ target' = target
  BY DEF prepared
<1>1. /\ Now' = Now /\ Is("no_add")' = Is("no_add") /\ Is("no_band")' = Is("no_band")
      /\ Is("hold")' = Is("hold") /\ Is("chase_long")' = Is("chase_long")
      /\ Is("chase_short")' = Is("chase_short") /\ Entering' = Entering
  BY <1>0 DEF Now, Is, Entering
<1>2. NoAdd' = NoAdd /\ Pinned' = Pinned /\ ComplianceBase' = ComplianceBase
  BY <1>0, <1>1 DEF NoAdd, Pinned, ComplianceBase, Derisk
<1>3. Boxes(base)' = Boxes(base)
  BY SMTT(30), <1>0, <1>1, <1>2 DEF Boxes
<1> QED
  BY <1>0, <1>1, <1>2, <1>3 DEF Prologue

(* A book that another variable takes over, or that stays, is decided as before. *)
LEMMA DecidedStays ==
    ASSUME facts' = facts, base' = base
    PROVE  /\ w' = w => (Decided(w)' <=> Decided(w))
           /\ core' = core => (EntryFree(core)' <=> EntryFree(core))
           /\ core' = w => (EntryFree(core)' <=> EntryFree(w))
           /\ w' = core => (Decided(w)' <=> Decided(core))
           /\ w' = Projected => (Decided(w)' <=> Decided(Projected))
           /\ w' = Projected => (EntryFree(w)' <=> EntryFree(Projected))
<1> DEFINE p == Projected
<1>1. PICK x : x = p
  OBVIOUS
<1>2. PICK y : y = w
  OBVIOUS
<1>3. PICK z : z = core
  OBVIOUS
<1> HIDE DEF p
<1>4. \A v : Decided(v)' <=> Decided(v)
  BY BooksStay
<1>5. \A v : EntryFree(v)' <=> EntryFree(v)
  BY BooksStay
<1>6. /\ w' = w => (Decided(w)' <=> Decided(y)')
      /\ core' = core => (EntryFree(core)' <=> EntryFree(z)')
      /\ core' = w => (EntryFree(core)' <=> EntryFree(y)')
      /\ w' = core => (Decided(w)' <=> Decided(z)')
      /\ w' = p => (Decided(w)' <=> Decided(x)')
      /\ w' = p => (EntryFree(w)' <=> EntryFree(x)')
  BY <1>1, <1>2, <1>3
<1>7. /\ (Decided(w) <=> Decided(y)) /\ (EntryFree(core) <=> EntryFree(z))
      /\ (EntryFree(w) <=> EntryFree(y)) /\ (Decided(core) <=> Decided(z))
      /\ (Decided(p) <=> Decided(x)) /\ (EntryFree(p) <=> EntryFree(x))
  BY <1>1, <1>2, <1>3
<1> QED
  BY <1>4, <1>5, <1>6, <1>7 DEF p

LEMMA RoundKeeps ==
    ASSUME RiskInv, Round
    PROVE  RiskInv'
<1>1. stage = "rounds" /\ Evaluating /\ (core # <<>> => facts.kill = "NORMAL")
  BY DEF RiskInv, Round
<1>2. /\ w' = Projected /\ UNCHANGED prepared /\ live' = live /\ entries' = entries /\ core' = core
      /\ stage' \in {"decided", "rounds"} /\ facts' = facts /\ base' = base
  BY DEF Round, prepared
<1>3. Prologue' /\ Entering' = Entering
  BY <1>1, <1>2, PrologueStays DEF Evaluating
<1>4. core # <<>> => EntryFree(core)'
  BY <1>1, <1>2, DecidedStays DEF Evaluating
<1>5. Evaluating'
  BY <1>1, <1>2, <1>3, <1>4 DEF Evaluating
<1>6. Decided(w)'
  <2>1. Decided(Projected)
    BY <1>1, RoundDecides DEF Evaluating
  <2> QED
    BY <1>2, <2>1, DecidedStays
<1>7. core = <<>> => EntryFree(w)'
  <2>1. core = <<>> => EntryFree(Projected)
    BY <1>1, RoundWithoutEntries DEF Evaluating
  <2> QED
    BY <1>2, <2>1, DecidedStays
<1> QED
  BY <1>1, <1>2, <1>5, <1>6, <1>7 DEF RiskInv

LEMMA WithEntriesKeeps ==
    ASSUME RiskInv, WithEntries
    PROVE  RiskInv'
<1>1. /\ stage = "decided" /\ core = <<>> /\ Evaluating /\ Decided(w) /\ EntryFree(w)
  BY DEF RiskInv, WithEntries
<1>2. /\ core' = w /\ UNCHANGED prepared /\ entries' = entries /\ w' = w
      /\ facts' = facts /\ base' = base
  BY DEF WithEntries, prepared
<1>3. Prologue' /\ Entering' = Entering
  BY <1>1, <1>2, PrologueStays DEF Evaluating
<1>4. EntryFree(core)' /\ Decided(w)'
  BY <1>1, <1>2, DecidedStays
<1>5. core' # <<>>
  BY <1>1, <1>2, EmptyIsNoBook DEF Decided
<1>6. CASE entries = {}
  <2>1. stage' = "done" /\ live' = live
    BY <1>1, <1>6 DEF WithEntries
  <2>2. Evaluating'
    BY <1>1, <1>2, <1>3, <1>4, <1>5, <2>1 DEF Evaluating
  <2>3. Failed(w)' \subseteq Failed(core)'
    <3>1. w' = core'
      BY <1>2
    <3> QED
      BY <3>1
  <2>4. CostNothing'
    <3>1. \A l \in Swing \ Entering : w[l] = facts.swing[l].pin
      BY <1>1 DEF Decided
    <3> QED
      BY <1>2, <1>3, <2>3, <3>1 DEF CostNothing
  <2> QED
    BY <1>2, <1>4, <1>5, <2>1, <2>2, <2>4 DEF RiskInv
<1>7. CASE entries # {}
  <2>1. stage' = "rounds" /\ live' = (Swing \ Entering) \cup entries
    BY <1>7 DEF WithEntries, Again
  <2>2. facts.kill = "NORMAL" /\ entries \subseteq Swing
    BY <1>1, <1>7 DEF Evaluating
  <2>3. Evaluating'
    BY <1>1, <1>2, <1>3, <1>4, <1>5, <2>1, <2>2 DEF Evaluating
  <2> QED
    BY <1>2, <2>1, <2>2, <2>3 DEF RiskInv
<1> QED
  BY <1>6, <1>7

LEMMA AcceptKeeps ==
    ASSUME RiskInv, Accept
    PROVE  RiskInv'
<1>1. /\ stage = "decided" /\ core # <<>> /\ Evaluating /\ Decided(w) /\ facts.kill = "NORMAL" /\ ~Binding
  BY DEF RiskInv, Accept
<1>2. /\ core' = core /\ UNCHANGED prepared /\ entries' = entries /\ w' = w /\ live' = live
      /\ facts' = facts /\ base' = base /\ stage' = "done"
  BY DEF Accept, prepared
<1>3. Prologue' /\ Entering' = Entering
  BY <1>1, <1>2, PrologueStays DEF Evaluating
<1>4. EntryFree(core)' /\ Decided(w)'
  BY <1>1, <1>2, DecidedStays DEF Evaluating
<1>5. Evaluating'
  BY <1>1, <1>2, <1>3, <1>4 DEF Evaluating
<1>6. Failed(w) \subseteq Failed(core) /\ \A l \in Lines \ live : w[l] = core[l]
  BY <1>1 DEF Binding
<1>7. Failed(w)' \subseteq Failed(core)'
  BY <1>2, <1>6, ChecksStay, CoreChecksStay
<1>8. \A l \in Lines \ Swing : w[l] = core[l]
  BY <1>1, <1>6 DEF Evaluating
<1>9. \A l \in Swing \ Entering : w[l] = facts.swing[l].pin
  BY <1>1 DEF Decided
<1>10. CostNothing'
  BY <1>2, <1>3, <1>7, <1>8, <1>9 DEF CostNothing
<1> QED
  BY <1>1, <1>2, <1>4, <1>5, <1>10 DEF RiskInv

LEMMA DropLastKeeps ==
    ASSUME RiskInv, DropLast
    PROVE  RiskInv'
<1>1. /\ stage = "decided" /\ core # <<>> /\ Evaluating /\ Decided(w) /\ facts.kill = "NORMAL"
  BY DEF RiskInv, DropLast
<1>2. /\ core' = core /\ UNCHANGED prepared /\ entries' \subseteq entries
      /\ facts' = facts /\ base' = base
  BY DEF DropLast, prepared
<1>3. Prologue' /\ Entering' = Entering
  BY <1>1, <1>2, PrologueStays DEF Evaluating
<1>4. EntryFree(core)'
  BY <1>1, <1>2, DecidedStays DEF Evaluating
<1>5. CASE entries' = {}
  <2>1. w' = core /\ live' = Swing \ Entering /\ stage' = "done"
    BY <1>5 DEF DropLast
  <2>2. Evaluating'
    BY <1>1, <1>2, <1>3, <1>4, <1>5, <2>1 DEF Evaluating
  <2>3. Decided(core)
    BY <1>1 DEF Evaluating, EntryFree
  <2>4. Decided(w)'
    BY <1>2, <2>1, <2>3, DecidedStays
  <2>5. Failed(w)' \subseteq Failed(core)'
    <3>1. w' = core'
      BY <1>2, <2>1
    <3> QED
      BY <3>1
  <2>6. \A l \in Swing \ Entering : core[l] = facts.swing[l].pin
    BY <2>3 DEF Decided
  <2>7. CostNothing'
    BY <1>2, <1>3, <2>1, <2>5, <2>6 DEF CostNothing
  <2> QED
    BY <1>1, <1>2, <2>1, <2>2, <2>4, <2>7 DEF RiskInv
<1>6. CASE entries' # {}
  <2>1. stage' = "rounds" /\ live' = (Swing \ Entering) \cup entries'
    BY <1>6 DEF DropLast, Again
  <2>2. entries' \subseteq Swing
    BY <1>1, <1>2 DEF Evaluating
  <2>3. Evaluating'
    BY <1>1, <1>2, <1>3, <1>4, <2>1, <2>2 DEF Evaluating
  <2> QED
    BY <1>1, <1>2, <2>1, <2>3 DEF RiskInv
<1> QED
  BY <1>5, <1>6

LEMMA FlattenKeeps ==
    ASSUME RiskInv, Flatten
    PROVE  RiskInv'
BY DEF RiskInv, Flatten

(* RiskInv holds in every state of an evaluation, for any lines, limits,     *)
(* groups and cases.                                                         *)
LEMMA RiskInductive == RiskSpec => []RiskInv
<1>1. RiskInit => RiskInv
  BY DEF RiskInit, RiskInv
<1>2. RiskInv /\ [RiskNext]_riskVars => RiskInv'
  <2> SUFFICES ASSUME RiskInv, [RiskNext]_riskVars PROVE RiskInv'
    OBVIOUS
  <2>1. CASE RiskNext
    BY <2>1, PrepareKeeps, FlattenKeeps, RoundKeeps, WithEntriesKeeps, AcceptKeeps, DropLastKeeps DEF RiskNext
  <2>2. CASE UNCHANGED riskVars
    <3>1. /\ facts' = facts /\ base' = base /\ box' = box /\ target' = target /\ live' = live
          /\ entries' = entries /\ w' = w /\ core' = core /\ stage' = stage /\ UNCHANGED prepared
      BY <2>2 DEF riskVars, prepared
    <3>2. Prologue => Prologue' /\ Entering' = Entering
      BY <3>1, PrologueStays
    <3>3. (EntryFree(core)' <=> EntryFree(core)) /\ (Decided(w)' <=> Decided(w))
      BY <3>1, DecidedStays
    <3>4. Evaluating => Evaluating'
      BY <3>1, <3>2, <3>3 DEF Evaluating
    <3>5. Evaluating /\ CostNothing => CostNothing'
      <4>1. Failed(w)' = Failed(w) /\ Failed(core)' = Failed(core)
        BY <3>1, ChecksStay, CoreChecksStay
      <4> QED
        BY <3>1, <3>2, <4>1 DEF CostNothing, Evaluating
    <3>6. EntryFree(w) => EntryFree(w)'
      <4>1. PICK y : y = w
        OBVIOUS
      <4>2. EntryFree(y)' <=> EntryFree(y)
        BY <3>1, BooksStay
      <4>3. EntryFree(w)' <=> EntryFree(y)'
        BY <3>1, <4>1
      <4> QED
        BY <4>1, <4>2, <4>3
    <3> QED
      BY <3>1, <3>3, <3>4, <3>5, <3>6 DEF RiskInv
  <2> QED
    BY <2>1, <2>2
<1> QED
  BY <1>1, <1>2, PTL DEF RiskSpec

(* Entries cost the core nothing (EntriesCostNothing), for any lines, limits and  *)
(* costs: the trial that is accepted has the core book outside the swing lines,   *)
(* fails no check the entry-free book passes, and no projection moves a swing     *)
(* hold or exit from its pin.                                                    *)
THEOREM EntriesCost == RiskSpec => []EntriesCostNothing
<1>1. RiskInv => EntriesCostNothing
  BY DEF RiskInv, EntriesCostNothing, CostNothing
<1> QED
  BY <1>1, RiskInductive, PTL

LEMMA NoIncrease ==
    ASSUME NEW x \in Int, NEW v \in Int, Between(x, v)
    PROVE  ~Increases(v, x)
<1>1. ~(v * x < 0)
  <2>1. CASE 0 <= x /\ x <= v
    BY <2>1
  <2>2. CASE v <= x /\ x <= 0
    BY <2>2
  <2> QED
    BY <2>1, <2>2 DEF Between
<1>2. ~(Size(x) > Size(v))
  BY DEF Between, Size, High
<1> QED
  BY <1>1, <1>2 DEF Increases

(* Gross is one of the checks: a book that fails nothing new keeps it.            *)
LEMMA GrossChecked ==
    ASSUME Failed(w) \subseteq Failed(core), BookChecks(core)["R1"]
    PROVE  BookChecks(w)["R1"]
<1>1. "R1" \in DOMAIN BookChecks(w) /\ "R1" \notin DOMAIN MoveChecks(core)
  BY DEF BookChecks, MoveChecks
<1>2. "R1" \notin Failed(core)
  BY <1>1 DEF Failed
<1> QED
  BY <1>1, <1>2 DEF Failed

LEMMA GrossOf ==
    \A v : BookChecks(v)["R1"] <=> \/ Gross(v) <= GrossCap
                                   \/ Gross(v) <= Gross(base) /\ Gross(base) <= HardMax
BY DEF BookChecks

LEMMA ZeroIsLess ==
    ASSUME facts \in Cases, w = [l \in Lines |-> 0]
    PROVE  Gross(w) <= Gross(Now) /\ \A l \in Managed : ~Increases(Now[l], w[l])
<1>1. Now \in [Lines -> Int] /\ w \in [Lines -> Int]
  BY BookHeld
<1>2. ASSUME NEW l \in Lines PROVE Between(w[l], Now[l]) /\ w[l] \in Int /\ Now[l] \in Int
  BY <1>1 DEF Between
<1>3. Gross(w) <= Gross(Now)
  BY <1>1, <1>2, BetweenIsSmaller, GrossShrinks
<1>4. \A l \in Managed : ~Increases(Now[l], w[l])
  BY <1>2, NoIncrease DEF Managed
<1> QED
  BY <1>3, <1>4

(* Under a latched switch or a warning an entry-free book lowers risk. *)
LEMMA WarnedIsLess ==
    ASSUME Prologue, EntryFree(w), facts.kill # "NORMAL"
    PROVE  Gross(w) <= Gross(Now) /\ \A l \in Managed : ~Increases(Now[l], w[l])
<1>1. /\ Now \in [Lines -> Int] /\ w \in [Lines -> Int] /\ base \in [Lines -> Int]
      /\ \A l \in Lines : Between(base[l], Now[l])
      /\ \A l \in Lines : l \notin Managed => base[l] = Now[l]
  BY BookHeld, BaseIsBelow DEF Prologue, EntryFree, Decided
<1>2. ASSUME NEW l \in Managed PROVE l \in Lines /\ Between(w[l], Now[l])
  <2>1. l \in Lines /\ Between(w[l], base[l])
    BY DEF EntryFree, Decided, Managed
  <2>2. w[l] \in Int /\ base[l] \in Int /\ Now[l] \in Int /\ Between(base[l], Now[l])
    BY <1>1, <2>1
  <2> QED
    BY <2>1, <2>2 DEF Between
<1>3. ASSUME NEW l \in Lines PROVE Size(w[l]) <= Size(Now[l])
  <2>0. w[l] \in Int /\ Now[l] \in Int /\ Size(0) = 0 /\ Size(Now[l]) \in Int /\ 0 <= Size(Now[l])
    BY <1>1 DEF Size, High
  <2>1. CASE l \in Managed
    BY <2>0, <2>1, <1>2, BetweenIsSmaller
  <2>2. CASE l \in Locked
    <3>1. w[l] = Now[l]
      BY <1>1, <2>2 DEF EntryFree, Decided, Managed
    <3> QED
      BY <2>0, <3>1
  <2>3. CASE l \in Swing /\ l \notin Entering
    <3>1. w[l] = facts.swing[l].pin /\ base[l] = Now[l]
      BY <1>1, <2>3 DEF EntryFree, Decided, Managed
    <3> QED
      BY <2>3, <3>1, BaseOfTheRest
  <2>4. CASE l \in Entering
    <3>1. w[l] = 0
      BY <2>4 DEF EntryFree
    <3> QED
      BY <2>0, <3>1
  <2> QED
    BY <2>1, <2>2, <2>3, <2>4 DEF Managed
<1>4. Gross(w) <= Gross(Now)
  BY <1>1, <1>3, GrossShrinks
<1>5. \A l \in Managed : ~Increases(Now[l], w[l])
  BY <1>1, <1>2, NoIncrease
<1> QED
  BY <1>4, <1>5

(* Above the hard limit a book that fails no check its core passed has no    *)
(* larger gross than what is held, if the unmanaged lines are within it.     *)
LEMMA OverLimitIsLess ==
    ASSUME Prologue, EntryFree(core), Decided(w), Failed(w) \subseteq Failed(core),
           Gross(Now) > HardMax, GroupGross(Now, Lines \ Managed) <= HardMax
    PROVE  Gross(w) <= Gross(Now)
<1>1. /\ Now \in [Lines -> Int] /\ w \in [Lines -> Int] /\ core \in [Lines -> Int]
      /\ base = ComplianceBase /\ base \in [Lines -> Int]
  BY BookHeld, BaseIsBelow DEF Prologue, EntryFree, Decided
<1>2. /\ Gross(Now) \in Int /\ Gross(w) \in Int /\ Gross(core) \in Int /\ Gross(base) \in Int
      /\ GroupGross(Now, Lines \ Managed) \in Int
      /\ DeriskTo \in Int /\ HardMax \in Int /\ DeriskTo <= HardMax
  BY SMTT(30), <1>1, GrossIsInt, RiskConstants
<1>3. Derisk /\ GrossCap = DeriskTo
  BY DEF Derisk, GrossCap
<1>4. Gross(base) <= DeriskTo \/ Gross(base) <= GroupGross(Now, Lines \ Managed)
  BY <1>1, <1>3, BaseIsBelow DEF Prologue
<1>5. Gross(core) <= High(DeriskTo, Gross(base))
  BY <1>3 DEF EntryFree
<1>6. Gross(core) <= GrossCap \/ (Gross(core) <= Gross(base) /\ Gross(base) <= HardMax)
  BY <1>2, <1>3, <1>4, <1>5 DEF High
<1>7. BookChecks(w)["R1"]
  BY <1>6, GrossOf, GrossChecked
<1>8. Gross(w) <= GrossCap \/ (Gross(w) <= Gross(base) /\ Gross(base) <= HardMax)
  BY <1>7, GrossOf
<1> QED
  BY <1>2, <1>3, <1>8

(* The engine only derisks (OnlyDerisks), for any lines and limits: under a       *)
(* warning no line ends larger or on the other side of what the broker holds, and *)
(* over the hard limit the book ends no larger, because the base is a book that   *)
(* passes R1 and no entry may make R1 fail.                                      *)
THEOREM Derisks == RiskSpec => []OnlyDerisks
<1>1. RiskInv => OnlyDerisks
  <2> SUFFICES ASSUME RiskInv, stage = "done",
                      \/ facts.kill # "NORMAL"
                      \/ Gross(Now) > HardMax /\ GroupGross(Now, Lines \ Managed) <= HardMax
               PROVE  /\ Gross(w) <= Gross(Now)
                      /\ facts.kill # "NORMAL" => \A l \in Managed : ~Increases(Now[l], w[l])
    BY DEF OnlyDerisks
  <2>1. CASE core = <<>>
    <3>1. facts \in Cases /\ w = [l \in Lines |-> 0]
      BY <2>1 DEF RiskInv
    <3> QED
      BY <3>1, ZeroIsLess
  <2>2. CASE core # <<>>
    <3>1. Prologue /\ EntryFree(core) /\ Decided(w) /\ CostNothing /\ (facts.kill # "NORMAL" => w = core)
      BY <2>2 DEF RiskInv, Evaluating
    <3>2. CASE facts.kill # "NORMAL"
      <4>1. EntryFree(w)
        BY <3>1, <3>2
      <4> QED
        BY <3>1, <3>2, <4>1, WarnedIsLess
    <3>3. CASE facts.kill = "NORMAL"
      BY <3>1, <3>3, OverLimitIsLess DEF CostNothing
    <3> QED
      BY <3>2, <3>3
  <2> QED
    BY <2>1, <2>2
<1> QED
  BY <1>1, RiskInductive, PTL

-----------------------------------------------------------------------------
(* Each limit is met.  A projection ends within its cap or at the end of its path,  *)
(* and there no line is larger than in the base.                                 *)
(* A cheaper book: line by line it costs no more.                               *)
LEMMA CostGrows ==
    ASSUME NEW S, NEW c \in [Lines -> 1 .. 2], NEW d \in [Lines -> 1 .. 2],
           NEW x \in [Lines -> Int], NEW y \in [Lines -> Int],
           \A l \in Lines : l \in S => c[l] * Size(x[l]) <= d[l] * Size(y[l])
    PROVE  CostOf(S, c, x) <= CostOf(S, d, y)
<1> DEFINE p == [l \in Lines |-> c[l] * Size(x[l])]
           q == [l \in Lines |-> d[l] * Size(y[l])]
           f == [l \in Lines |-> IF l \in S THEN p[l] ELSE 0]
           g == [l \in Lines |-> IF l \in S THEN q[l] ELSE 0]
<1>1. \A l \in Lines : Size(x[l]) \in Int /\ Size(y[l]) \in Int /\ c[l] \in Int /\ d[l] \in Int
  BY DEF Size, High
<1>2. IntOn(p, Lines) /\ IntOn(q, Lines)
  BY <1>1 DEF IntOn
<1>3. IntOn(f, Lines) /\ IntOn(g, Lines)
  <2> HIDE DEF p, q
  <2> QED
    BY <1>2 DEF IntOn
<1>4. \A l \in Lines : f[l] <= g[l]
  BY <1>1
<1>5. CostOf(S, c, x) = Sum(f) /\ CostOf(S, d, y) = Sum(g)
  BY DEF CostOf, SumOf
<1> HIDE DEF f, g
<1> QED
  BY <1>3, <1>4, <1>5, SumGrows

(* The flat cost of a set of lines is twice its gross: the projection counts *)
(* in half grains.                                                           *)
LEMMA GroupCostIsGross ==
    ASSUME NEW x \in [Lines -> Int], NEW S
    PROVE  CostOf(S, Flat, x) = 2 * GroupGross(x, S)
<1> DEFINE f == [l \in Lines |-> IF l \in S THEN Size(x[l]) ELSE 0]
           c == [l \in Lines |-> Flat[l] * Size(x[l])]
           g == [l \in Lines |-> IF l \in S THEN c[l] ELSE 0]
<1>0. \A l \in Lines : Size(x[l]) \in Int /\ Flat[l] = 2
  BY DEF Size, High, Flat
<1>1. IntOn(f, Lines) /\ IntOn(g, Lines) /\ \A l \in Lines : g[l] = 2 * f[l]
  BY <1>0 DEF IntOn
<1>2. GroupGross(x, S) = Sum(f) /\ CostOf(S, Flat, x) = Sum(g)
  BY DEF GroupGross, CostOf, SumOf
<1> HIDE DEF f, g
<1> QED
  BY <1>1, <1>2, SumDoubles

LEMMA GroupGrossShrinks ==
    ASSUME NEW x \in [Lines -> Int], NEW v \in [Lines -> Int], NEW S,
           \A l \in Lines : l \in S => Size(x[l]) <= Size(v[l])
    PROVE  GroupGross(x, S) <= GroupGross(v, S)
<1> DEFINE f == [l \in Lines |-> IF l \in S THEN Size(x[l]) ELSE 0]
           g == [l \in Lines |-> IF l \in S THEN Size(v[l]) ELSE 0]
<1>1. IntOn(f, Lines) /\ IntOn(g, Lines)
  BY DEF IntOn, Size, High
<1>2. \A l \in Lines : f[l] <= g[l]
  OBVIOUS
<1>3. GroupGross(x, S) = Sum(f) /\ GroupGross(v, S) = Sum(g)
  BY DEF GroupGross
<1> HIDE DEF f, g
<1> QED
  BY <1>1, <1>2, <1>3, SumGrows

LEMMA BottomIsBook ==
    ASSUME NEW S, NEW v \in [Lines -> Int], NEW lo \in [Lines -> Int], NEW hi \in [Lines -> Int]
    PROVE  Bottom(S, v, lo, hi) \in [Lines -> Int]
BY DEF Bottom, Clip, Low, High

(* A projection of a group meets its cap, or stops at the end of the path.        *)
LEMMA GroupIsMet ==
    ASSUME NEW v \in [Lines -> Int], NEW lo \in [Lines -> Int], NEW hi \in [Lines -> Int],
           NEW cap \in Int, NEW S, Lines # {}, NEW x, x = ProjectGross(S, v, lo, hi, cap)
    PROVE  /\ x \in [Lines -> Int]
           /\ GroupGross(x, S) <= cap \/ GroupGross(x, S) <= GroupGross(Bottom(S, v, lo, hi), S)
<1> DEFINE twice == 2 * cap
           bot == Bottom(S, v, lo, hi)
<1>1. x = Project(S, v, lo, hi, Flat, twice)
  BY DEF ProjectGross
<1>2. \E by \in Nat : /\ x = Point(S, v, lo, hi, Flat, by)
                      /\ \/ CostOf(S, Flat, Point(S, v, lo, hi, Flat, by)) <= twice
                         \/ CostOf(S, Flat, Point(S, v, lo, hi, Flat, by)) <= CostOf(S, Flat, Bottom(S, v, lo, hi))
  <2> HIDE DEF twice, bot
  <2> QED
    BY <1>1, FlatCosts, ProjectPicks
<1>3. x \in [Lines -> Int]
  <2>1. PICK by \in Nat : x = Point(S, v, lo, hi, Flat, by)
    BY <1>2
  <2>2. Point(S, v, lo, hi, Flat, by) \in [Lines -> Int]
    BY FlatCosts, PointsAreBooks
  <2> QED
    BY <2>1, <2>2
<1>4. bot \in [Lines -> Int]
  BY BottomIsBook
<1>5. CostOf(S, Flat, x) <= twice \/ CostOf(S, Flat, x) <= CostOf(S, Flat, bot)
  BY <1>2
<1> HIDE DEF bot
<1>6. 2 * GroupGross(x, S) <= 2 * cap \/ 2 * GroupGross(x, S) <= 2 * GroupGross(bot, S)
  BY <1>3, <1>4, <1>5, GroupCostIsGross
<1>7. GroupGross(x, S) <= cap \/ GroupGross(x, S) <= GroupGross(bot, S)
  BY <1>3, <1>4, <1>6, GrossIsInt
<1> QED
  BY <1>3, <1>7 DEF bot

(* What a round may not move below is what the base holds: a line may go to zero,  *)
(* or it stays at its base.                                                       *)
Anchored ==
    \A l \in Lines : (Lo[l] <= 0 /\ 0 <= Hi[l]) \/ (Lo[l] = base[l] /\ Hi[l] = base[l])
Grounded == Sound /\ Anchored /\ base \in [Lines -> Int]

(* In a round without entries every line may go to zero or is held at its    *)
(* base, the lines pinned from outside included.                             *)
LEMMA RoundIsGrounded ==
    ASSUME Prologue, live = Swing \ Entering
    PROVE  Grounded
<1>0. live \subseteq Swing
  OBVIOUS
<1>1. Sound /\ base \in [Lines -> Int]
  BY <1>0, IntervalsSound, BaseIsBelow DEF Prologue
<1>2. ASSUME NEW l \in Lines
      PROVE  (Lo[l] <= 0 /\ 0 <= Hi[l]) \/ (Lo[l] = base[l] /\ Hi[l] = base[l])
  <2>1. CASE l \in Fixed
    <3>1. Lo[l] = Pin(l) /\ Hi[l] = Pin(l)
      BY <2>1 DEF Lo, Hi
    <3>2. CASE l \notin Swing
      BY <3>1, <3>2, <1>0, PinsAreWeights
    <3>3. CASE l \in Swing /\ l \in live
      <4>1. facts.swing[l].now \in Int /\ facts.swing[l].pin \in {facts.swing[l].now, 0}
        BY <3>3, RiskCases DEF Prologue, Entering
      <4>2. l \notin Managed /\ l \notin Locked
        BY <3>3, RiskConstants DEF Managed
      <4>3. base[l] = facts.swing[l].now
        BY <4>2, BaseIsBelow DEF Prologue, Now
      <4>4. Pin(l) = facts.swing[l].pin
        BY <3>3, <1>0, PinsAreWeights
      <4> QED
        BY <3>1, <4>1, <4>3, <4>4
    <3>4. CASE l \in Swing /\ l \notin live
      <4>1. Pin(l) = 0
        BY <3>4, <1>0, PinsAreWeights
      <4> QED
        BY <3>1, <4>1
    <3> QED
      BY <3>2, <3>3, <3>4
  <2>2. CASE l \notin Fixed
    <3>1. l \in Managed
      BY <2>2 DEF Fixed
    <3>2. box[l][1] \in Int /\ box[l][2] \in Int
      BY <1>1, <3>1, BoxesFit DEF Prologue
    <3>3. Lo[l] = Low(box[l][1], 0) /\ Hi[l] = High(box[l][2], 0)
      BY <2>2 DEF Lo, Hi
    <3> QED
      BY <3>2, <3>3 DEF Low, High
  <2> QED
    BY <2>1, <2>2
<1> QED
  BY <1>1, <1>2 DEF Grounded, Anchored

(* At the end of a path a line is at zero or, where it was, at its base.          *)
LEMMA BottomIsBase ==
    ASSUME Grounded, NEW v, Inside(v), NEW l \in Lines
    PROVE  /\ Clip(0, Lo[l], Hi[l]) \in {0, base[l]} /\ Clip(0, Lo[l], Hi[l]) \in Int
           /\ Clip(0, Lo[l], Hi[l]) # 0 => v[l] = base[l]
<1>1. Lo[l] \in Int /\ Hi[l] \in Int /\ base[l] \in Int /\ v[l] \in Int /\ Lo[l] <= v[l] /\ v[l] <= Hi[l]
  BY DEF Grounded, Sound, Inside
<1>2. CASE Lo[l] <= 0 /\ 0 <= Hi[l]
  BY <1>1, <1>2 DEF Clip, Low, High
<1>3. CASE Lo[l] = base[l] /\ Hi[l] = base[l]
  BY <1>1, <1>3 DEF Clip, Low, High
<1> QED
  BY <1>2, <1>3 DEF Grounded, Anchored

LEMMA MarginIsCost ==
    \A v : Margin(v) = CostOf(Lines, MarginCost(v), v)
<1> SUFFICES ASSUME NEW v PROVE Margin(v) = CostOf(Lines, MarginCost(v), v)
  OBVIOUS
<1> DEFINE c == MarginCost(v)
           p == [l \in Lines |-> c[l] * Size(v[l])]
<1>1. Margin(v) = Sum(p)
  BY Zenon DEF Margin
<1>2. CostOf(Lines, c, v) = Sum([l \in Lines |-> IF l \in Lines THEN p[l] ELSE 0])
  BY DEF CostOf, SumOf
<1>3. [l \in Lines |-> IF l \in Lines THEN p[l] ELSE 0] = p
  <2> DEFINE e(l) == c[l] * Size(v[l])
  <2> HIDE DEF e
  <2> QED
    BY DEF e
<1> QED
  BY <1>1, <1>2, <1>3

(* A pass of the margin step: the costs of the lines as they are meet the cap.     *)
LEMMA PassMeets ==
    ASSUME Grounded, NEW x, Inside(x)
    PROVE  Margin(MarginPass(x)) <= MarginCap \/ CostOf(Lines, MarginCost(x), MarginPass(x)) <= MarginCap
<1> DEFINE c == MarginCost(x)
           bot == Bottom(Lines, x, Lo, Hi)
           y == Project(Lines, x, Lo, Hi, c, MarginCap)
<1>0. Sound /\ x \in [Lines -> Int] /\ base \in [Lines -> Int]
  BY DEF Grounded, Inside
<1>1. CASE Margin(x) <= MarginCap
  BY <1>1 DEF MarginPass
<1>2. CASE ~(Margin(x) <= MarginCap)
  <2>1. MarginPass(x) = y
    BY <1>2 DEF MarginPass
  <2>2. c \in [Lines -> 1 .. 2] /\ MarginCost(base) \in [Lines -> 1 .. 2]
    BY FlatCosts
  <2>3. bot \in [Lines -> Int]
    BY <1>0, BottomIsBook DEF Sound
  <2>4. ASSUME NEW l \in Lines PROVE c[l] * Size(bot[l]) <= MarginCost(base)[l] * Size(base[l])
    <3>1. bot[l] \in {0, base[l]} /\ (bot[l] # 0 => x[l] = base[l])
      BY BottomIsBase DEF Bottom
    <3>2. CASE bot[l] = 0
      <4>1. Size(bot[l]) = 0 /\ Size(base[l]) \in Nat /\ MarginCost(base)[l] \in Nat /\ c[l] \in Nat
        BY <1>0, <2>2, <3>2 DEF Size, High
      <4> HIDE DEF c, bot
      <4> QED
        BY <4>1
    <3>3. CASE bot[l] # 0
      <4>1. bot[l] = base[l] /\ x[l] = base[l]
        BY <3>1, <3>3
      <4>2. c[l] = MarginCost(base)[l]
        BY <4>1 DEF MarginCost
      <4>3. Size(base[l]) \in Int /\ MarginCost(base)[l] \in Int
        BY <1>0, <2>2 DEF Size, High
      <4> HIDE DEF c, bot
      <4> QED
        BY <4>1, <4>2, <4>3
    <3> QED
      BY <3>2, <3>3
  <2> HIDE DEF bot, c
  <2>5. CostOf(Lines, c, bot) <= Margin(base)
    <3>1. CostOf(Lines, c, bot) <= CostOf(Lines, MarginCost(base), base)
      BY <1>0, <2>2, <2>3, <2>4, CostGrows
    <3> QED
      BY <3>1, MarginIsCost
  <2>6. Margin(base) \in Int /\ MarginCap \in Int /\ Margin(base) <= MarginCap
    <3>1. Margin(base) \in Int
      BY <1>0, <2>2, MarginIsCost, CostIsInt
    <3> QED
      BY <3>1, RiskConstants DEF MarginCap, High
  <2>7. \E by \in Nat : /\ y = Point(Lines, x, Lo, Hi, c, by)
                        /\ \/ CostOf(Lines, c, Point(Lines, x, Lo, Hi, c, by)) <= MarginCap
                           \/ CostOf(Lines, c, Point(Lines, x, Lo, Hi, c, by)) <= CostOf(Lines, c, Bottom(Lines, x, Lo, Hi))
    BY <1>0, <2>2, ProjectPicks DEF Sound
  <2>8. CostOf(Lines, c, y) <= MarginCap \/ CostOf(Lines, c, y) <= CostOf(Lines, c, bot)
    BY <2>7 DEF bot
  <2>9. y \in [Lines -> Int]
    <3>1. Below(y, x)
      BY <1>0, <2>2, LineProject
    <3> QED
      BY <3>1 DEF Below
  <2> HIDE DEF y
  <2>10. CostOf(Lines, c, y) \in Int /\ CostOf(Lines, c, bot) \in Int
    BY <2>2, <2>3, <2>9, CostIsInt
  <2>11. CostOf(Lines, c, y) <= MarginCap
    BY <2>5, <2>6, <2>8, <2>10
  <2> QED
    BY <2>1, <2>11 DEF c
<1> QED
  BY <1>1, <1>2

(* The lines that margin at half: a pass that fails takes one of them for good.    *)
Cheap(x) == {l \in Lines : MarginCost(x)[l] = 1}

(* A pass of the margin step meets the cap, or some line that was cheap no   *)
(* longer is; cheap lines only get fewer.                                    *)
LEMMA PassOrDearer ==
    ASSUME Grounded, NEW x, Inside(x)
    PROVE  /\ Cheap(MarginPass(x)) \subseteq Cheap(x)
           /\ Margin(MarginPass(x)) <= MarginCap \/ Cheap(MarginPass(x)) # Cheap(x)
<1> DEFINE y == MarginPass(x)
<1>0. Sound /\ x \in [Lines -> Int]
  BY DEF Grounded, Inside
<1>1. Below(y, x)
  BY <1>0, MarginPassShrinks
<1>2. Margin(y) <= MarginCap \/ CostOf(Lines, MarginCost(x), y) <= MarginCap
  BY PassMeets
<1> HIDE DEF y
<1>3. y \in [Lines -> Int]
  BY <1>1 DEF Below
<1>4. \A l \in Lines : Size(y[l]) <= Size(x[l])
  BY <1>0, <1>1, <1>3, BetweenIsSmaller DEF Below
<1>5. \A l \in Managed : Unit[l] \in Int
  BY RiskConstants DEF Managed
<1>6. Cheap(y) \subseteq Cheap(x)
  <2> SUFFICES ASSUME NEW l \in Lines, MarginCost(y)[l] = 1 PROVE MarginCost(x)[l] = 1
    BY DEF Cheap
  <2>1. l \in Managed /\ Size(y[l]) > Unit[l]
    BY DEF MarginCost
  <2>2. Size(x[l]) \in Int /\ Size(y[l]) \in Int
    BY <1>0, <1>3 DEF Size, High
  <2>3. Size(x[l]) > Unit[l]
    BY <1>4, <1>5, <2>1, <2>2
  <2> QED
    BY <2>1, <2>3 DEF MarginCost
<1>7. ASSUME Cheap(y) = Cheap(x) PROVE Margin(y) <= MarginCap
  <2>1. MarginCost(y) = MarginCost(x)
    <3>1. \A l \in Lines : MarginCost(y)[l] = MarginCost(x)[l]
      <4> SUFFICES ASSUME NEW l \in Lines PROVE MarginCost(y)[l] = MarginCost(x)[l]
        OBVIOUS
      <4>1. MarginCost(y)[l] = 1 <=> MarginCost(x)[l] = 1
        BY <1>7 DEF Cheap
      <4>2. MarginCost(y)[l] \in 1 .. 2 /\ MarginCost(x)[l] \in 1 .. 2
        BY FlatCosts
      <4> QED
        BY <4>1, <4>2
    <3>2. MarginCost(y) \in [Lines -> 1 .. 2] /\ MarginCost(x) \in [Lines -> 1 .. 2]
      BY FlatCosts
    <3> QED
      BY <3>1, <3>2
  <2> QED
    BY <1>2, <2>1, MarginIsCost
<1> QED
  BY <1>6, <1>7 DEF y

(* So after as many passes as there are lines the margin is within its cap. *)
LEMMA MarginIsMet ==
    ASSUME Grounded, NEW v, Inside(v)
    PROVE  Margin(MarginStep(v)) <= MarginCap
<1>0. Sound /\ v \in [Lines -> Int] /\ N \in Nat /\ Lines = 1 .. N
  BY SomeLine, RiskConstants DEF Grounded, Inside
<1>1. PICK F : MarginRun(F, v) /\ MarginStep(v) = F[N + 1]
  BY <1>0, MarginStepRuns
<1> DEFINE P == {k \in 0 .. N + 1 : Margin(F[k]) <= MarginCap \/ Cardinality(Cheap(F[k])) <= N - k}
<1>2. \A x : IsFiniteSet(Cheap(x)) /\ Cardinality(Cheap(x)) \in Nat /\ Cardinality(Cheap(x)) <= N
  <2> SUFFICES ASSUME NEW x PROVE IsFiniteSet(Cheap(x)) /\ Cardinality(Cheap(x)) \in Nat /\ Cardinality(Cheap(x)) <= N
    OBVIOUS
  <2>1. IsFiniteSet(Lines) /\ Cardinality(Lines) = N
    BY <1>0, FS_Interval
  <2>2. Cheap(x) \subseteq Lines
    BY DEF Cheap
  <2> QED
    BY <2>1, <2>2, FS_Subset, FS_CardinalityType
<1>3. 0 \in P
  <2>1. Cardinality(Cheap(F[0])) <= N
    BY <1>2
  <2> QED
    BY <1>0, <2>1
<1>4. ASSUME NEW k \in 0 .. (N + 1) - 1, k \in P PROVE k + 1 \in P
  <2>1. k \in Nat /\ k + 1 \in 0 .. N + 1
    BY <1>0
  <2>2. F[k] \in Reach(v) /\ F[k + 1] = MarginPass(F[k])
    BY <1>1, <2>1 DEF MarginRun
  <2>3. Inside(F[k])
    BY <1>0, <2>2, BelowStaysInside DEF Reach
  <2>4. CASE Margin(F[k]) <= MarginCap
    <3>1. F[k + 1] = F[k]
      BY <2>2, <2>4 DEF MarginPass
    <3> QED
      BY <2>1, <2>4, <3>1
  <2>5. CASE Cardinality(Cheap(F[k])) <= N - k
    <3> DEFINE A == Cheap(F[k + 1])
               B == Cheap(F[k])
    <3>1. A \subseteq B /\ (Margin(F[k + 1]) <= MarginCap \/ A # B)
      BY <2>2, <2>3, PassOrDearer
    <3>2. IsFiniteSet(B) /\ Cardinality(B) \in Nat /\ Cardinality(A) \in Nat
      BY <1>2
    <3>3. Cardinality(B) <= N - k
      BY <2>5
    <3>4. A # B => Cardinality(A) <= N - (k + 1)
      <4> HIDE DEF A, B
      <4>1. A # B => Cardinality(A) < Cardinality(B)
        BY <3>1, <3>2, FS_Subset
      <4> QED
        BY <1>0, <2>1, <3>2, <3>3, <4>1
    <3> QED
      BY <2>1, <3>1, <3>4
  <2> QED
    BY <1>4, <2>4, <2>5
<1>5. 0 .. N + 1 \subseteq P
  <2> DEFINE m == N + 1
  <2>1. m \in Nat /\ \A k \in 0 .. m - 1 : k \in P => k + 1 \in P
    BY <1>0, <1>4
  <2> HIDE DEF P, m
  <2>2. 0 .. m \subseteq P
    BY <1>3, <2>1, BoundedInduction
  <2> QED
    BY <2>2 DEF m
<1>6. N + 1 \in P
  BY <1>0, <1>5
<1>7. ~(Cardinality(Cheap(F[N + 1])) <= N - (N + 1))
  BY <1>0, <1>2
<1> QED
  BY <1>1, <1>6, <1>7

LEMMA SumIsSame ==
    ASSUME NEW f, NEW g, IntOn(f, Lines), IntOn(g, Lines), \A l \in Lines : f[l] = g[l]
    PROVE  Sum(f) = Sum(g)
<1>1. \A l \in Lines : f[l] <= g[l] /\ g[l] <= f[l]
  BY DEF IntOn
<1>2. Sum(f) <= Sum(g) /\ Sum(g) <= Sum(f)
  BY <1>1, SumGrows
<1>3. Sum(f) \in Int /\ Sum(g) \in Int
  BY SumIsInt
<1> QED
  BY <1>2, <1>3

(* Shorts, longs and net are whole grains, and what shrinks has less of each side. *)
LEMMA SidesAreInt ==
    ASSUME NEW v \in [Lines -> Int]
    PROVE  Shorts(v) \in Int /\ Longs(v) \in Int /\ Net(v) \in Int
<1> DEFINE f == [l \in Lines |-> High(-v[l], 0)]
           g == [l \in Lines |-> High(v[l], 0)]
<1>1. IntOn(f, Lines) /\ IntOn(g, Lines) /\ IntOn(v, Lines)
  BY DEF IntOn, High
<1>2. Shorts(v) = Sum(f) /\ Longs(v) = Sum(g) /\ Net(v) = Sum(v)
  BY DEF Shorts, Longs, Net
<1> HIDE DEF f, g
<1> QED
  BY <1>1, <1>2, SumIsInt

(* Lines that move toward zero lower the shorts, *)
LEMMA ShortsShrink ==
    ASSUME NEW x \in [Lines -> Int], NEW v \in [Lines -> Int], \A l \in Lines : Between(x[l], v[l])
    PROVE  Shorts(x) <= Shorts(v)
<1> DEFINE f == [l \in Lines |-> High(-x[l], 0)]
           g == [l \in Lines |-> High(-v[l], 0)]
<1>1. IntOn(f, Lines) /\ IntOn(g, Lines)
  BY DEF IntOn, High
<1>2. \A l \in Lines : f[l] <= g[l]
  BY DEF High, Between
<1>3. Shorts(x) = Sum(f) /\ Shorts(v) = Sum(g)
  BY DEF Shorts
<1> HIDE DEF f, g
<1> QED
  BY <1>1, <1>2, <1>3, SumGrows

(* The caps of shorts and net exposure hold for the base: each limit, or     *)
(* what the base already is.                                                 *)
LEMMA CapsAreInt ==
    ASSUME base \in [Lines -> Int]
    PROVE  /\ ShortCap \in Int /\ Shorts(base) <= ShortCap /\ ShortMax <= ShortCap /\ 0 <= ShortCap
           /\ NetFloor \in Int /\ NetFloor <= Net(base)
           /\ NetCeiling \in Int /\ Net(base) <= NetCeiling
<1>1. Shorts(base) \in Int /\ Net(base) \in Int
  BY SidesAreInt
<1>2. {NetMin, NetMax, ShortMax} \subseteq Int /\ 0 <= ShortMax
  BY RiskConstants
<1> QED
  BY <1>1, <1>2 DEF ShortCap, NetFloor, NetCeiling, Low, High

(* After net_bounds the shorts are within their cap, which is never below what is  *)
(* held fixed.                                                                  *)
LEMMA ShortsAreMet ==
    ASSUME Grounded, NEW v, Inside(v)
    PROVE  Shorts(NetBounds(v)) <= ShortCap
<1> DEFINE s == LessShort(v)
           r == NetBounds(v)
           bot == Bottom(Neg(v), v, Lo, TopZero)
           room == ShortRoom(v)
<1>0. Sound /\ base \in [Lines -> Int] /\ v \in [Lines -> Int] /\ Lines # {}
      /\ Lo \in [Lines -> Int] /\ Hi \in [Lines -> Int]
  BY DEF Grounded, Inside, Sound
<1>1. Shrinks(s, Neg(v), v, Lo, TopZero) /\ Shrinks(r, Pos(v), s, BotZero, Hi)
  BY <1>0, NetBoundsParts
<1>2. TopZero \in [Lines -> Int]
  BY <1>0 DEF TopZero, Low
<1>3. room \in Int /\ room <= ShortCap
  <2>1. ShortCap \in Int /\ 0 <= ShortCap /\ NetFloor \in Int /\ Longs(v) \in Int
    BY <1>0, CapsAreInt, SidesAreInt
  <2> QED
    BY <2>1 DEF ShortRoom, Low, High
<1>4. s = ProjectGross(Neg(v), v, Lo, TopZero, room)
  BY DEF LessShort
<1> HIDE DEF s, r, room
<1>5. \/ GroupGross(s, Neg(v)) <= room
      \/ GroupGross(s, Neg(v)) <= GroupGross(bot, Neg(v))
  BY <1>0, <1>2, <1>3, <1>4, GroupIsMet
<1>6. bot \in [Lines -> Int]
  BY <1>0, <1>2, BottomIsBook
<1>7. GroupGross(bot, Neg(v)) <= Shorts(base)
  <2> DEFINE f == [l \in Lines |-> IF l \in Neg(v) THEN Size(bot[l]) ELSE 0]
             g == [l \in Lines |-> High(-base[l], 0)]
  <2>1. ASSUME NEW l \in Lines PROVE f[l] \in Int /\ g[l] \in Int /\ f[l] <= g[l]
    <3>1. base[l] \in Int /\ Lo[l] \in Int /\ Hi[l] \in Int /\ v[l] \in Int /\ Lo[l] <= v[l] /\ v[l] <= Hi[l]
      BY <1>0 DEF Inside
    <3>2. g[l] \in Int /\ 0 <= g[l]
      BY <3>1 DEF High
    <3>3. CASE l \notin Neg(v)
      <4>1. f[l] = 0
        BY <3>3
      <4> HIDE DEF f, g
      <4> QED
        BY <3>2, <4>1
    <3>4. CASE l \in Neg(v)
      <4>1. bot[l] = Clip(0, Lo[l], Low(Hi[l], 0)) /\ f[l] = Size(bot[l]) /\ g[l] = High(-base[l], 0)
        BY <3>4 DEF Bottom, TopZero
      <4>2. v[l] < 0
        BY <3>4 DEF Neg
      <4>3. (Lo[l] <= 0 /\ 0 <= Hi[l]) \/ (Lo[l] = base[l] /\ Hi[l] = base[l])
        BY DEF Grounded, Anchored
      <4>4. CASE Lo[l] <= 0 /\ 0 <= Hi[l]
        <5>1. bot[l] = 0
          BY <3>1, <4>1, <4>4 DEF Clip, Low, High
        <5>2. f[l] = 0
          BY <4>1, <5>1 DEF Size, High
        <5> HIDE DEF f, g
        <5> QED
          BY <3>2, <5>2
      <4>5. CASE Lo[l] = base[l] /\ Hi[l] = base[l]
        <5>1. base[l] < 0
          BY <3>1, <4>2, <4>5
        <5>2. bot[l] = base[l]
          BY <3>1, <4>1, <4>5, <5>1 DEF Clip, Low, High
        <5>3. f[l] = -base[l] /\ g[l] = -base[l]
          BY <3>1, <4>1, <5>1, <5>2 DEF Size, High
        <5> HIDE DEF f, g
        <5> QED
          BY <3>1, <5>3
      <4> QED
        BY <4>3, <4>4, <4>5
    <3> QED
      BY <3>3, <3>4
  <2>2. IntOn(f, Lines) /\ IntOn(g, Lines) /\ \A l \in Lines : f[l] <= g[l]
    <3> HIDE DEF f, g
    <3> QED
      BY <2>1 DEF IntOn
  <2>3. GroupGross(bot, Neg(v)) = Sum(f) /\ Shorts(base) = Sum(g)
    BY DEF GroupGross, Shorts
  <2> HIDE DEF f, g
  <2> QED
    BY <2>2, <2>3, SumGrows
<1>8. s \in [Lines -> Int] /\ r \in [Lines -> Int]
  BY <1>1 DEF Shrinks
<1>9. Shorts(s) = GroupGross(s, Neg(v))
  <2> DEFINE f == [l \in Lines |-> High(-s[l], 0)]
             g == [l \in Lines |-> IF l \in Neg(v) THEN Size(s[l]) ELSE 0]
  <2>1. ASSUME NEW l \in Lines PROVE f[l] \in Int /\ g[l] = f[l]
    <3>1. s[l] \in Int /\ v[l] \in Int /\ Between(s[l], v[l])
      BY <1>0, <1>1, <1>8 DEF Shrinks
    <3>2. CASE l \in Neg(v)
      <4>1. v[l] < 0
        BY <3>2 DEF Neg
      <4> QED
        BY <3>1, <3>2, <4>1 DEF Between, Size, High
    <3>3. CASE l \notin Neg(v)
      <4>1. ~(v[l] < 0)
        BY <3>3 DEF Neg
      <4> QED
        BY <3>1, <3>3, <4>1 DEF Between, High
    <3> QED
      BY <3>2, <3>3
  <2>2. IntOn(f, Lines) /\ IntOn(g, Lines) /\ \A l \in Lines : f[l] = g[l]
    <3> HIDE DEF f, g
    <3> QED
      BY <2>1 DEF IntOn
  <2>3. Shorts(s) = Sum(f) /\ GroupGross(s, Neg(v)) = Sum(g)
    BY DEF GroupGross, Shorts
  <2> HIDE DEF f, g
  <2> QED
    BY <2>2, <2>3, SumIsSame
<1> HIDE DEF bot
<1>10. Shorts(s) <= ShortCap
  <2>1. /\ GroupGross(s, Neg(v)) \in Int /\ GroupGross(bot, Neg(v)) \in Int /\ Shorts(base) \in Int
        /\ ShortCap \in Int /\ Shorts(base) <= ShortCap
    BY <1>0, <1>6, <1>8, CapsAreInt, SidesAreInt, GrossIsInt
  <2> QED
    BY <1>3, <1>5, <1>7, <1>9, <2>1
<1>11. Shorts(r) <= Shorts(s)
  <2>1. \A l \in Lines : Between(r[l], s[l])
    BY <1>1 DEF Shrinks
  <2> QED
    BY <1>8, <2>1, ShortsShrink
<1>12. Shorts(r) \in Int /\ Shorts(s) \in Int /\ ShortCap \in Int
  BY <1>0, <1>8, CapsAreInt, SidesAreInt
<1>13. Shorts(r) <= ShortCap
  BY <1>10, <1>11, <1>12
<1> QED
  BY <1>13 DEF r

(* Whatever the number of passes, a settled book comes from a margin step after    *)
(* the bounds of the net.                                                        *)
LEMMA SettleEnds ==
    ASSUME Sound, NEW v, Inside(v)
    PROVE  \E x \in Reach(v) : Settle(v) = Both(x)
<1>0. N \in Nat
  BY RiskConstants
<1>1. PICK F : SettleRun(F, v) /\ Settle(v) = F[2 * N + 1]
  BY SettleRuns
<1> DEFINE n == 2 * N + 1
           P == {k \in 0 .. n : \E x \in Reach(v) : F[k] = Both(x)}
<1>2. n \in Nat /\ n \in 0 .. n
  BY <1>0
<1> HIDE DEF n
<1>3. 0 \in P
  <2>1. v \in Reach(v)
    BY BelowIsOrder DEF Inside, Reach
  <2> QED
    BY <1>1, <1>2, <2>1 DEF SettleRun
<1>4. ASSUME NEW k \in 0 .. n - 1, k \in P PROVE k + 1 \in P
  <2>1. k \in Nat /\ k + 1 \in 0 .. n
    BY <1>2
  <2>2. F[k] \in Reach(v) /\ F[k + 1] = SettlePass(F[k])
    BY <1>1, <2>1 DEF SettleRun
  <2>3. F[k + 1] = F[k] \/ F[k + 1] = Both(F[k])
    BY <2>2 DEF SettlePass
  <2> QED
    BY <1>4, <2>1, <2>2, <2>3
<1>5. 0 .. n \subseteq P
  <2> HIDE DEF P
  <2> QED
    BY <1>2, <1>3, <1>4, BoundedInduction
<1> QED
  BY <1>1, <1>2, <1>5 DEF n

(* After the alternating loop margin and shorts are within their caps; the   *)
(* net bounds are met by the last round of all, see NetIsMet.                *)
LEMMA SettleMeets ==
    ASSUME Grounded, NEW v, Inside(v)
    PROVE  Margin(Settle(v)) <= MarginCap /\ Shorts(Settle(v)) <= ShortCap
<1>0. Sound /\ base \in [Lines -> Int]
  BY DEF Grounded
<1>1. PICK x \in Reach(v) : Settle(v) = Both(x)
  BY <1>0, SettleEnds
<1>2. Inside(x)
  BY <1>0, BelowStaysInside DEF Reach
<1> DEFINE y == NetBounds(x)
<1>3. Shorts(y) <= ShortCap
  BY <1>2, ShortsAreMet
<1>4. Inside(y)
  BY <1>0, <1>2, NetBoundsShrinks, BelowStaysInside
<1>5. Settle(v) = MarginStep(y)
  BY <1>1 DEF Both
<1> HIDE DEF y
<1>6. Margin(MarginStep(y)) <= MarginCap
  BY <1>4, MarginIsMet
<1>7. Below(MarginStep(y), y)
  BY <1>0, <1>4, MarginStepShrinks
<1>8. Shorts(MarginStep(y)) <= Shorts(y)
  BY <1>4, <1>7, ShortsShrink DEF Below, Inside
<1>9. Shorts(MarginStep(y)) \in Int /\ Shorts(y) \in Int /\ ShortCap \in Int
  BY <1>0, <1>4, <1>7, SidesAreInt, CapsAreInt DEF Below, Inside
<1> QED
  BY <1>3, <1>5, <1>6, <1>8, <1>9

LEMMA SumNegates ==
    ASSUME NEW f, NEW g, IntOn(f, Lines), IntOn(g, Lines), \A l \in Lines : g[l] = -f[l]
    PROVE  Sum(g) = -Sum(f)
<1>0. N \in Nat /\ Lines = 1 .. N
  BY RiskConstants DEF Lines
<1>1. PICK to : AddsUp(to, f) /\ Sum(f) = to[N]
  BY SumAdds
<1>2. PICK up : AddsUp(up, g) /\ Sum(g) = up[N]
  BY SumAdds
<1> DEFINE P == {l \in 0 .. N : up[l] = -to[l]}
<1>3. 0 \in P
  BY <1>0, <1>1, <1>2 DEF AddsUp
<1>4. ASSUME NEW k \in 0 .. N - 1, k \in P PROVE k + 1 \in P
  <2>1. k + 1 \in Lines /\ k + 1 \in 0 .. N /\ (k + 1) - 1 = k /\ k \in 0 .. N
    BY <1>0
  <2>2. to[k + 1] = to[k] + f[k + 1] /\ up[k + 1] = up[k] + g[k + 1]
    BY <2>1, <1>1, <1>2 DEF AddsUp
  <2>3. to[k] \in Int /\ up[k] \in Int /\ f[k + 1] \in Int /\ g[k + 1] = -f[k + 1]
    BY <2>1, <1>1, <1>2 DEF AddsUp, IntOn
  <2> QED
    BY <2>1, <2>2, <2>3, <1>4
<1>5. 0 .. N \subseteq P
  <2> HIDE DEF P
  <2> QED
    BY <1>0, <1>3, <1>4, BoundedInduction
<1> QED
  BY <1>0, <1>1, <1>2, <1>5

LEMMA SumOfNothing ==
    ASSUME NEW f, IntOn(f, Lines), \A l \in Lines : f[l] = 0
    PROVE  Sum(f) = 0
<1>1. \A l \in Lines : f[l] = 2 * f[l]
  OBVIOUS
<1>2. Sum(f) = 2 * Sum(f)
  BY <1>1, SumDoubles
<1>3. Sum(f) \in Int
  BY SumIsInt
<1> QED
  BY <1>2, <1>3

LEMMA SumIsNat ==
    ASSUME NEW f, IntOn(f, Lines), \A l \in Lines : 0 <= f[l]
    PROVE  Sum(f) \in Int /\ 0 <= Sum(f)
<1> DEFINE z == [l \in Lines |-> 0]
<1>1. IntOn(z, Lines) /\ \A l \in Lines : z[l] = 0 /\ z[l] <= f[l]
  BY DEF IntOn
<1> HIDE DEF z
<1>2. Sum(z) = 0 /\ Sum(z) <= Sum(f)
  BY <1>1, SumOfNothing, SumGrows
<1>3. Sum(f) \in Int
  BY SumIsInt
<1> QED
  BY <1>2, <1>3

-----------------------------------------------------------------------------
(* The group caps *)

LEMMA GroupsHaveCaps ==
    /\ Len(Groups) \in Nat /\ DOMAIN Groups = 1 .. Len(Groups)
    /\ \A k \in DOMAIN Groups : Groups[k].cap \in Int
<1> DEFINE R == [of : SUBSET Lines, cap : Int]
<1>1. Groups \in Seq(R)
  BY RiskConstants
<1>2. ASSUME NEW g \in R PROVE g.cap \in Int
  OBVIOUS
<1> HIDE DEF R
<1>3. \A k \in DOMAIN Groups : Groups[k] \in R
  BY <1>1
<1>4. Len(Groups) \in Nat /\ DOMAIN Groups = 1 .. Len(Groups)
  BY <1>1
<1> QED
  BY <1>2, <1>3, <1>4

(* At the end of its path a book holds no more of a group than the base.          *)
LEMMA BottomIsSmaller ==
    ASSUME Grounded, NEW v, Inside(v), NEW S
    PROVE  /\ Bottom(S, v, Lo, Hi) \in [Lines -> Int]
           /\ GroupGross(Bottom(S, v, Lo, Hi), S) <= GroupGross(base, S)
<1> DEFINE bot == Bottom(S, v, Lo, Hi)
<1>0. v \in [Lines -> Int] /\ Lo \in [Lines -> Int] /\ Hi \in [Lines -> Int] /\ base \in [Lines -> Int]
  BY DEF Grounded, Sound, Inside
<1>1. bot \in [Lines -> Int]
  BY <1>0, BottomIsBook
<1>2. ASSUME NEW l \in Lines, l \in S PROVE Size(bot[l]) <= Size(base[l])
  <2>1. bot[l] \in {0, base[l]} /\ base[l] \in Int
    BY <1>0, <1>2, BottomIsBase DEF Bottom
  <2> HIDE DEF bot
  <2> QED
    BY <2>1 DEF Size, High
<1> HIDE DEF bot
<1>3. GroupGross(bot, S) <= GroupGross(base, S)
  BY <1>0, <1>1, <1>2, GroupGrossShrinks
<1> QED
  BY <1>1, <1>3 DEF bot

(* The projection of a group meets its cap, *)
LEMMA GroupPassMeets ==
    ASSUME Grounded, NEW x, Inside(x), NEW k \in DOMAIN Groups
    PROVE  GroupGross(GroupPass(k, x), Groups[k].of) <= GroupCap(k)
<1> DEFINE S == Groups[k].of
           cap == GroupCap(k)
           y == GroupPass(k, x)
           bot == Bottom(S, x, Lo, Hi)
<1>0. /\ x \in [Lines -> Int] /\ Lo \in [Lines -> Int] /\ Hi \in [Lines -> Int] /\ base \in [Lines -> Int]
      /\ Lines # {}
  BY DEF Grounded, Sound, Inside
<1>1. GroupGross(base, S) \in Int /\ cap \in Int /\ GroupGross(base, S) <= cap
  <2>1. Groups[k].cap \in Int
    BY GroupsHaveCaps
  <2>2. GroupGross(base, S) \in Int
    BY <1>0, GrossIsInt
  <2> QED
    BY <2>1, <2>2 DEF GroupCap, High
<1>2. y = ProjectGross(S, x, Lo, Hi, cap)
  BY DEF GroupPass
<1>3. bot \in [Lines -> Int] /\ GroupGross(bot, S) <= GroupGross(base, S)
  BY BottomIsSmaller
<1> HIDE DEF S, cap, y
<1>4. y \in [Lines -> Int] /\ (GroupGross(y, S) <= cap \/ GroupGross(y, S) <= GroupGross(bot, S))
  BY <1>0, <1>1, <1>2, GroupIsMet
<1> HIDE DEF bot
<1>5. GroupGross(y, S) \in Int /\ GroupGross(bot, S) \in Int
  BY <1>3, <1>4, GrossIsInt
<1>6. GroupGross(y, S) <= cap
  BY <1>1, <1>3, <1>4, <1>5
<1> QED
  BY <1>6 DEF y, cap, S

(* Every group is within its cap, or within the base, when the last one is done.   *)
Capped(v, k) == \A j \in 1 .. k : GroupGross(v, Groups[j].of) <= GroupCap(j)

(* a smaller book still meets the caps a larger one met, *)
LEMMA CappedShrinks ==
    ASSUME base \in [Lines -> Int], NEW x, NEW v \in [Lines -> Int], Below(x, v),
           NEW k \in 0 .. Len(Groups), Capped(v, k)
    PROVE  Capped(x, k)
<1> SUFFICES ASSUME NEW j \in 1 .. k PROVE GroupGross(x, Groups[j].of) <= GroupCap(j)
  BY DEF Capped
<1>0. Len(Groups) \in Nat /\ j \in DOMAIN Groups /\ Groups[j].cap \in Int
  <2>1. Len(Groups) \in Nat /\ j \in DOMAIN Groups
    BY GroupsHaveCaps
  <2> QED
    BY <2>1, GroupsHaveCaps
<1>1. x \in [Lines -> Int] /\ \A l \in Lines : Size(x[l]) <= Size(v[l])
  BY BetweenIsSmaller DEF Below
<1>2. GroupGross(x, Groups[j].of) <= GroupGross(v, Groups[j].of)
  BY <1>1, GroupGrossShrinks
<1>3. GroupGross(v, Groups[j].of) <= GroupCap(j)
  BY DEF Capped
<1>4. GroupGross(x, Groups[j].of) \in Int /\ GroupGross(v, Groups[j].of) \in Int
  BY <1>1, GrossIsInt
<1>5. GroupCap(j) \in Int
  <2>1. GroupGross(base, Groups[j].of) \in Int
    BY GrossIsInt
  <2> QED
    BY <1>0, <2>1 DEF GroupCap, High
<1> QED
  BY <1>2, <1>3, <1>4, <1>5

(* so after the last group all of them are met. *)
LEMMA GroupsAreMet ==
    ASSUME Grounded, NEW v, Inside(v)
    PROVE  Capped(CapGroups(v), Len(Groups))
<1> DEFINE n == Len(Groups)
<1>0. Sound /\ n \in Nat /\ DOMAIN Groups = 1 .. n /\ base \in [Lines -> Int]
  BY GroupsHaveCaps DEF Grounded
<1>1. PICK F : GroupRun(F, v) /\ CapGroups(v) = F[n]
  BY <1>0, CapGroupsRuns
<1> DEFINE P == {k \in 0 .. n : Capped(F[k], k)}
<1>2. 0 \in P
  BY <1>0 DEF Capped
<1>3. ASSUME NEW k \in 0 .. n - 1, k \in P PROVE k + 1 \in P
  <2>1. k \in Nat /\ k \in 0 .. n /\ k + 1 \in 0 .. n /\ k + 1 \in 1 .. n
    BY <1>0
  <2>2. F[k] \in Reach(v) /\ F[k + 1] = GroupPass(k + 1, F[k]) /\ F[k] \in [Lines -> Int]
    BY <1>1, <2>1 DEF GroupRun, Reach
  <2>3. Inside(F[k])
    BY <1>0, <2>2, BelowStaysInside DEF Reach
  <2>4. Below(F[k + 1], F[k])
    BY <1>0, <2>2, <2>3, GroupPassShrinks
  <2>5. Capped(F[k + 1], k)
    BY <1>0, <1>3, <2>1, <2>2, <2>4, CappedShrinks
  <2>6. GroupGross(F[k + 1], Groups[k + 1].of) <= GroupCap(k + 1)
    BY <1>0, <2>1, <2>2, <2>3, GroupPassMeets
  <2>7. Capped(F[k + 1], k + 1)
    <3>1. \A j \in 1 .. k + 1 : j \in 1 .. k \/ j = k + 1
      BY <2>1
    <3> QED
      BY <2>5, <2>6, <3>1 DEF Capped
  <2> QED
    BY <2>1, <2>7
<1>4. 0 .. n \subseteq P
  <2> HIDE DEF P, n
  <2> QED
    BY <1>0, <1>2, <1>3, BoundedInduction
<1>5. n \in P
  BY <1>0, <1>4
<1> QED
  BY <1>1, <1>5

-----------------------------------------------------------------------------
(* Volatility.  Without a hedge it is that of the sizes, and smaller lines have less. *)
SigmaOf(S, x) == SumOf(S, [l \in Lines |-> Sigma[l] * x[l]])
Sizes(v) == [l \in Lines |-> Size(v[l])]
FlatVol(v) == IF facts.covariance THEN SigmaOf(Lines \ Swing, Sizes(v)) + SigmaOf(Swing, Sizes(v))
              ELSE SigmaOf(Lines, Sizes(v))
OneSided(v) == \A l, m \in Lines \ Swing : ~(v[l] * v[m] < 0)
Unhedged(v) == ~facts.covariance \/ OneSided(v)

(* A sum over some of the lines asks for numbers on those alone.                   *)
LEMMA PartIsInt ==
    ASSUME NEW S, NEW f, \A l \in Lines : l \in S => f[l] \in Int
    PROVE  SumOf(S, f) \in Int
<1> DEFINE g == [l \in Lines |-> IF l \in S THEN f[l] ELSE 0]
<1>1. IntOn(g, Lines)
  BY DEF IntOn
<1>2. SumOf(S, f) = Sum(g)
  BY DEF SumOf
<1> HIDE DEF g
<1> QED
  BY <1>1, <1>2, SumIsInt

LEMMA PartGrows ==
    ASSUME NEW S, NEW T, NEW f, NEW g,
           \A l \in Lines : l \in S => f[l] \in Int, \A l \in Lines : l \in T => g[l] \in Int,
           \A l \in Lines : (IF l \in S THEN f[l] ELSE 0) <= (IF l \in T THEN g[l] ELSE 0)
    PROVE  SumOf(S, f) <= SumOf(T, g)
<1> DEFINE p == [l \in Lines |-> IF l \in S THEN f[l] ELSE 0]
           q == [l \in Lines |-> IF l \in T THEN g[l] ELSE 0]
<1>1. IntOn(p, Lines) /\ IntOn(q, Lines)
  BY DEF IntOn
<1>2. \A l \in Lines : p[l] <= q[l]
  OBVIOUS
<1>3. SumOf(S, f) = Sum(p) /\ SumOf(T, g) = Sum(q)
  BY DEF SumOf
<1> HIDE DEF p, q
<1> QED
  BY <1>1, <1>2, <1>3, SumGrows

LEMMA PartIsNat ==
    ASSUME NEW S, NEW f, \A l \in Lines : l \in S => f[l] \in Int /\ 0 <= f[l]
    PROVE  0 <= SumOf(S, f)
<1> DEFINE g == [l \in Lines |-> IF l \in S THEN f[l] ELSE 0]
<1>1. IntOn(g, Lines)
  BY DEF IntOn
<1>2. \A l \in Lines : 0 <= g[l]
  OBVIOUS
<1>3. SumOf(S, f) = Sum(g)
  BY DEF SumOf
<1> HIDE DEF g
<1> QED
  BY <1>1, <1>2, <1>3, SumIsNat

LEMMA SumOfIsInt ==
    ASSUME NEW S, NEW f, IntOn(f, Lines)
    PROVE  SumOf(S, f) \in Int
BY PartIsInt DEF IntOn

LEMMA SumOfGrows ==
    ASSUME NEW S, NEW T, NEW f, NEW g, IntOn(f, Lines), IntOn(g, Lines),
           \A l \in Lines : (IF l \in S THEN f[l] ELSE 0) <= (IF l \in T THEN g[l] ELSE 0)
    PROVE  SumOf(S, f) <= SumOf(T, g)
BY PartGrows DEF IntOn

LEMMA SumOfNegates ==
    ASSUME NEW S, NEW f, NEW g, IntOn(f, Lines), IntOn(g, Lines), \A l \in Lines : l \in S => g[l] = -f[l]
    PROVE  SumOf(S, g) = -SumOf(S, f)
<1> DEFINE p == [l \in Lines |-> IF l \in S THEN f[l] ELSE 0]
           q == [l \in Lines |-> IF l \in S THEN g[l] ELSE 0]
<1>1. IntOn(p, Lines) /\ IntOn(q, Lines)
  BY DEF IntOn
<1>2. \A l \in Lines : q[l] = -p[l]
  BY DEF IntOn
<1>3. SumOf(S, f) = Sum(p) /\ SumOf(S, g) = Sum(q)
  BY DEF SumOf
<1> HIDE DEF p, q
<1> QED
  BY <1>1, <1>2, <1>3, SumNegates

LEMMA SumOfIsNat ==
    ASSUME NEW S, NEW f, IntOn(f, Lines), \A l \in Lines : l \in S => 0 <= f[l]
    PROVE  0 <= SumOf(S, f)
BY PartIsNat DEF IntOn

LEMMA SigmaGrows ==
    ASSUME NEW x, NEW y, IntOn(x, Lines), IntOn(y, Lines), \A l \in Lines : x[l] <= y[l], NEW S
    PROVE  SigmaOf(S, x) \in Int /\ SigmaOf(S, y) \in Int /\ SigmaOf(S, x) <= SigmaOf(S, y)
<1> DEFINE f == [l \in Lines |-> Sigma[l] * x[l]]
           g == [l \in Lines |-> Sigma[l] * y[l]]
<1>0. \A l \in Lines : Sigma[l] \in Nat
  BY RiskConstants
<1>1. ASSUME NEW l \in Lines PROVE f[l] \in Int /\ g[l] \in Int /\ f[l] <= g[l]
  <2>1. Sigma[l] \in Nat /\ x[l] \in Int /\ y[l] \in Int /\ x[l] <= y[l]
    BY <1>0 DEF IntOn
  <2>2. \A s \in Nat : \A a, b \in Int : a <= b => s * a \in Int /\ s * b \in Int /\ s * a <= s * b
    OBVIOUS
  <2> QED
    BY <2>1, <2>2
<1>2. SigmaOf(S, x) = SumOf(S, f) /\ SigmaOf(S, y) = SumOf(S, g)
  BY DEF SigmaOf
<1> HIDE DEF f, g
<1>3. IntOn(f, Lines) /\ IntOn(g, Lines)
  BY <1>1 DEF IntOn
<1>4. \A l \in Lines : (IF l \in S THEN f[l] ELSE 0) <= (IF l \in S THEN g[l] ELSE 0)
  BY <1>1
<1> QED
  BY <1>2, <1>3, <1>4, SumOfIsInt, SumOfGrows

(* Without a covariance the volatility of a smaller book is no larger. *)
LEMMA FlatVolShrinks ==
    ASSUME NEW x \in [Lines -> Int], NEW v \in [Lines -> Int], \A l \in Lines : Size(x[l]) <= Size(v[l])
    PROVE  FlatVol(x) \in Int /\ FlatVol(v) \in Int /\ FlatVol(x) <= FlatVol(v)
<1>1. IntOn(Sizes(x), Lines) /\ IntOn(Sizes(v), Lines) /\ \A l \in Lines : Sizes(x)[l] <= Sizes(v)[l]
  BY DEF IntOn, Sizes, Size, High
<1>2. \A S : /\ SigmaOf(S, Sizes(x)) \in Int /\ SigmaOf(S, Sizes(v)) \in Int
             /\ SigmaOf(S, Sizes(x)) <= SigmaOf(S, Sizes(v))
  BY <1>1, SigmaGrows
<1> QED
  BY <1>2 DEF FlatVol

(* A book on one side of zero is as volatile as its sizes.                        *)
LEMMA OneSidedSigma ==
    ASSUME NEW v \in [Lines -> Int], OneSided(v)
    PROVE  Size(SigmaOf(Lines \ Swing, v)) = SigmaOf(Lines \ Swing, Sizes(v))
<1> DEFINE S == Lines \ Swing
           f == [l \in Lines |-> Sigma[l] * v[l]]
           g == [l \in Lines |-> Sigma[l] * Sizes(v)[l]]
<1>0. \A l \in Lines : Sigma[l] \in Nat /\ v[l] \in Int /\ Sizes(v)[l] = Size(v[l]) /\ Size(v[l]) \in Int
                       /\ 0 <= Size(v[l])
  <2>1. \A l \in Lines : Sigma[l] \in Nat
    BY RiskConstants
  <2>2. \A a \in Int : Size(a) \in Int /\ 0 <= Size(a)
    BY DEF Size, High
  <2> QED
    BY <2>1, <2>2 DEF Sizes
<1>1. \A s \in Nat : \A a \in Int : s * a \in Int /\ s * (-a) = -(s * a) /\ (0 <= a => 0 <= s * a)
  OBVIOUS
<1>2. IntOn(f, Lines) /\ IntOn(g, Lines) /\ \A l \in Lines : 0 <= g[l]
  BY <1>0, <1>1 DEF IntOn
<1>3. SigmaOf(S, v) = SumOf(S, f) /\ SigmaOf(S, Sizes(v)) = SumOf(S, g)
  BY DEF SigmaOf
<1>4. SumOf(S, f) \in Int /\ SumOf(S, g) \in Int /\ 0 <= SumOf(S, g)
  <2> HIDE DEF f, g
  <2> QED
    BY <1>2, SumOfIsInt, SumOfIsNat
<1>5. CASE \E m \in S : v[m] < 0
  <2>1. PICK m \in S : v[m] < 0
    BY <1>5
  <2>2. ASSUME NEW l \in S PROVE ~(0 < v[l])
    <3>1. ~(v[l] * v[m] < 0) /\ v[l] \in Int /\ v[m] \in Int
      BY <1>0 DEF OneSided
    <3>2. \A a, b \in Int : 0 < a /\ b < 0 => a * b < 0
      OBVIOUS
    <3> QED
      BY <2>1, <3>1, <3>2
  <2>3. \A l \in Lines : l \in S => g[l] = -f[l]
    <3> SUFFICES ASSUME NEW l \in Lines, l \in S PROVE g[l] = -f[l]
      OBVIOUS
    <3>1. Size(v[l]) = -v[l]
      BY <1>0, <2>2 DEF Size, High
    <3>2. Sizes(v)[l] = -v[l]
      BY <1>0, <3>1
    <3>3. Sigma[l] * (-v[l]) = -(Sigma[l] * v[l])
      BY <1>0, <1>1
    <3> QED
      BY <3>2, <3>3
  <2>4. SumOf(S, g) = -SumOf(S, f)
    <3> HIDE DEF f, g
    <3> QED
      BY <1>2, <2>3, SumOfNegates
  <2> HIDE DEF f, g
  <2>5. Size(SumOf(S, f)) = SumOf(S, g)
    BY <1>4, <2>4 DEF Size, High
  <2> QED
    BY <1>3, <2>5
<1>6. CASE ~\E m \in S : v[m] < 0
  <2>1. \A l \in Lines : l \in S => g[l] = f[l]
    <3> SUFFICES ASSUME NEW l \in Lines, l \in S PROVE g[l] = f[l]
      OBVIOUS
    <3>1. ~(v[l] < 0)
      BY <1>6
    <3>2. Size(v[l]) = v[l]
      BY <1>0, <3>1 DEF Size, High
    <3> QED
      BY <1>0, <3>2
  <2> HIDE DEF f, g
  <2>2. SumOf(S, f) <= SumOf(S, g) /\ SumOf(S, g) <= SumOf(S, f)
    <3>1. \A l \in Lines : /\ (IF l \in S THEN f[l] ELSE 0) <= (IF l \in S THEN g[l] ELSE 0)
                           /\ (IF l \in S THEN g[l] ELSE 0) <= (IF l \in S THEN f[l] ELSE 0)
      BY <1>2, <2>1 DEF IntOn
    <3> QED
      BY <1>2, <3>1, SumOfGrows
  <2>3. Size(SumOf(S, f)) = SumOf(S, g)
    BY <1>4, <2>2 DEF Size, High
  <2> QED
    BY <1>3, <2>3
<1> QED
  BY <1>5, <1>6

(* With one, the same is true of a book without a long and a short side: its *)
(* volatility is the flat one.                                               *)
LEMMA UnhedgedVol ==
    ASSUME NEW v \in [Lines -> Int], Unhedged(v)
    PROVE  Vol(v) = FlatVol(v)
<1>1. Vol(v) = IF facts.covariance THEN Size(SigmaOf(Lines \ Swing, v)) + SigmaOf(Swing, Sizes(v))
               ELSE SigmaOf(Lines, Sizes(v))
  BY Zenon DEF Vol, SigmaOf, Sizes
<1>2. CASE facts.covariance
  <2>1. Size(SigmaOf(Lines \ Swing, v)) = SigmaOf(Lines \ Swing, Sizes(v))
    BY <1>2, OneSidedSigma DEF Unhedged
  <2> QED
    BY <1>1, <1>2, <2>1 DEF FlatVol
<1>3. CASE ~facts.covariance
  BY <1>1, <1>3 DEF FlatVol
<1> QED
  BY <1>2, <1>3

(* A smaller book is hedged only if the larger one was. *)
LEMMA SideStays ==
    ASSUME NEW v \in [Lines -> Int], NEW x \in [Lines -> Int], Unhedged(v),
           \A l \in Lines : Between(x[l], v[l])
    PROVE  Unhedged(x)
<1> SUFFICES ASSUME OneSided(v), NEW l \in Lines \ Swing, NEW m \in Lines \ Swing PROVE ~(x[l] * x[m] < 0)
  BY DEF Unhedged, OneSided
<1>1. x[l] \in Int /\ x[m] \in Int /\ v[l] \in Int /\ v[m] \in Int
  OBVIOUS
<1>2. ~(v[l] * v[m] < 0)
  BY DEF OneSided
<1>3. \A a, b \in Int : (a * b < 0) <=> (a < 0 /\ 0 < b) \/ (0 < a /\ b < 0)
  <2> SUFFICES ASSUME NEW a \in Int, NEW b \in Int
               PROVE  (a * b < 0) <=> (a < 0 /\ 0 < b) \/ (0 < a /\ b < 0)
    OBVIOUS
  <2>1. a = 0 \/ a < 0 \/ 0 < a
    OBVIOUS
  <2>2. b = 0 \/ b < 0 \/ 0 < b
    OBVIOUS
  <2>3. a < 0 /\ b < 0 => a * b > 0
    OBVIOUS
  <2>4. a < 0 /\ 0 < b => a * b < 0
    OBVIOUS
  <2>5. 0 < a /\ b < 0 => a * b < 0
    OBVIOUS
  <2>6. 0 < a /\ 0 < b => a * b > 0
    OBVIOUS
  <2>7. a * b \in Int
    OBVIOUS
  <2>8. a = 0 \/ b = 0 => a * b = 0
    OBVIOUS
  <2> QED
    BY <2>1, <2>2, <2>3, <2>4, <2>5, <2>6, <2>7, <2>8
<1>4. ~((v[l] < 0 /\ 0 < v[m]) \/ (0 < v[l] /\ v[m] < 0))
  BY <1>1, <1>2, <1>3
<1>5. ~((x[l] < 0 /\ 0 < x[m]) \/ (0 < x[l] /\ x[m] < 0))
  BY <1>1, <1>4 DEF Between
<1> QED
  BY <1>1, <1>3, <1>5

(* A book without a hedge leaves the volatility step within the cap: with every    *)
(* movable line at zero it is no more volatile than the base.                      *)
LEMMA VolIsMet ==
    ASSUME Grounded, \A l \in Lines : l \in Fixed => Lo[l] = Hi[l], Unhedged(base), NEW v, Inside(v)
    PROVE  Vol(VolStep(v)) <= VolCap
<1> DEFINE flex == {l \in Managed \ held : Lo[l] < Hi[l]}
           part(x, k) == IF x < 0 THEN -((k * (-x)) \div 4) ELSE (k * x) \div 4
           at(k) == [l \in Lines |-> IF l \in flex THEN Clip(part(v[l], k), Lo[l], Hi[l]) ELSE v[l]]
           fit == {k \in 0 .. 4 : Vol(at(k)) <= VolCap}
           k0 == Max(fit \cup {0})
<1>0. v \in [Lines -> Int] /\ base \in [Lines -> Int]
  BY DEF Inside, Grounded
<1>1. VolStep(v) = IF Vol(v) <= VolCap THEN v ELSE at(k0)
  BY Zenon DEF VolStep
<1>2. ASSUME NEW l \in Lines PROVE at(0)[l] \in {0, base[l]}
  <2>1. /\ Lo[l] \in Int /\ Hi[l] \in Int /\ v[l] \in Int /\ base[l] \in Int
        /\ Lo[l] <= v[l] /\ v[l] <= Hi[l]
        /\ (Lo[l] <= 0 /\ 0 <= Hi[l]) \/ (Lo[l] = base[l] /\ Hi[l] = base[l])
    BY DEF Inside, Grounded, Sound, Anchored
  <2>2. CASE l \in flex
    <3>1. at(0)[l] = Clip(part(v[l], 0), Lo[l], Hi[l]) /\ Lo[l] < Hi[l]
      BY <2>2
    <3>2. part(v[l], 0) = 0
      <4>1. 0 * v[l] = 0 /\ 0 * (-v[l]) = 0
        BY <2>1
      <4>2. 0 \div 4 = 0
        OBVIOUS
      <4> QED
        BY <4>1, <4>2
    <3> HIDE DEF at, part
    <3> QED
      BY <3>1, <3>2, <2>1 DEF Clip, Low, High
  <2>3. CASE l \notin flex
    <3>1. at(0)[l] = v[l]
      BY <2>3
    <3>2. Lo[l] = Hi[l]
      <4>1. CASE l \in Fixed
        BY <4>1
      <4>2. CASE l \notin Fixed
        BY <4>2, <2>1, <2>3 DEF Fixed
      <4> QED
        BY <4>1, <4>2
    <3> HIDE DEF at
    <3> QED
      BY <3>1, <3>2, <2>1
  <2> QED
    BY <2>2, <2>3
<1>3. at(0) \in [Lines -> Int]
  <2>1. at(0) = [l \in Lines |-> at(0)[l]]
    OBVIOUS
  <2> HIDE DEF at
  <2> QED
    BY <1>0, <1>2, <2>1
<1> HIDE DEF at
<1>4. \A l \in Lines : Between(at(0)[l], base[l]) /\ Size(at(0)[l]) <= Size(base[l])
  BY <1>0, <1>2 DEF Between, Size, High
<1>5. Unhedged(at(0))
  BY <1>0, <1>3, <1>4, SideStays
<1>6. Vol(at(0)) = FlatVol(at(0)) /\ Vol(base) = FlatVol(base)
  BY <1>0, <1>3, <1>5, UnhedgedVol
<1>7. FlatVol(at(0)) \in Int /\ FlatVol(base) \in Int /\ FlatVol(at(0)) <= FlatVol(base)
  BY <1>0, <1>3, <1>4, FlatVolShrinks
<1>8. VolCap \in Int /\ Vol(base) <= VolCap
  BY <1>6, <1>7, RiskConstants DEF VolCap, High
<1>9. 0 \in fit
  BY <1>6, <1>7, <1>8
<1>10. k0 \in fit
  <2>1. fit \cup {0} = fit /\ fit # {} /\ fit \subseteq 0 .. 4
    BY <1>9
  <2>2. IsFiniteSet(0 .. 4)
    <3>1. 0 \in Int /\ 4 \in Int
      OBVIOUS
    <3> QED
      BY ONLY <3>1, FS_Interval
  <2> HIDE DEF fit
  <2>3. IsFiniteSet(fit)
    BY <2>1, <2>2, FS_Subset
  <2>4. fit \subseteq Int
    BY <2>1
  <2> QED
    BY <2>1, <2>3, <2>4, MaxIsGreatest
<1> HIDE DEF k0
<1>11. Vol(at(k0)) <= VolCap
  BY <1>10
<1> QED
  BY <1>1, <1>11

-----------------------------------------------------------------------------
(* What a box is inside of: every interval that narrowed it, as all contain zero.  *)
LEMMA IntoStays ==
    ASSUME NEW i, NEW a \in Int, NEW c \in Int, FitsIn(i, a, c), a <= 0, 0 <= c,
           NEW p \in Int, NEW q \in Int, p <= 0, 0 <= q
    PROVE  FitsIn(Into(i, p, q), a, c)
<1> DEFINE x == Clip(i[1], p, q)
           y == Clip(i[2], p, q)
<1>1. i[1] \in Int /\ i[2] \in Int /\ i[1] <= i[2] /\ a <= i[1] /\ i[2] <= c
  BY DEF FitsIn
<1>2. x \in Int /\ y \in Int /\ a <= x /\ x <= c /\ a <= y /\ y <= c
  BY <1>1 DEF Clip, Low, High
<1>3. Into(i, p, q) = <<x, High(x, y)>>
  BY DEF Into
<1> HIDE DEF x, y
<1>4. High(x, y) \in Int /\ x <= High(x, y) /\ High(x, y) <= c
  BY <1>2 DEF High
<1> QED
  BY <1>2, <1>3, <1>4 DEF FitsIn

(* j is inside of every interval around zero that i is inside of.                  *)
Narrows(i, j) == \A a, c \in Int : a <= 0 /\ 0 <= c /\ FitsIn(i, a, c) => FitsIn(j, a, c)

LEMMA IntoNarrows ==
    ASSUME NEW i, NEW p \in Int, NEW q \in Int, p <= 0, 0 <= q
    PROVE  Narrows(i, Into(i, p, q))
BY IntoStays DEF Narrows

(* The interval of a line lies inside each limit of the line: its band, its  *)
(* leverage, its cap, and the reasons that forbid adding.                    *)
LEMMA BoxesLimit ==
    ASSUME facts \in Cases, NEW b \in [Lines -> Int], NEW l \in Managed, l \notin Pinned
    PROVE  /\ FitsIn(Boxes(b)[l], Low(facts.line[l].lo, 0), High(facts.line[l].hi, 0))
           /\ l \notin Levered => FitsIn(Boxes(b)[l], Low(-Unit[l], b[l]), High(Unit[l], b[l]))
           /\ FitsIn(Boxes(b)[l], Low(-LineCap[l], b[l]), High(LineCap[l], b[l]))
           /\ l \in Is("chase_long") => Boxes(b)[l][2] <= High(b[l], 0)
           /\ l \in Is("chase_short") => Low(b[l], 0) <= Boxes(b)[l][1]
<1> DEFINE band == <<facts.line[l].lo, facts.line[l].hi>>
           zl == Low(b[l], 0)
           zh == High(b[l], 0)
           bl == Low(facts.line[l].lo, 0)
           bh == High(facts.line[l].hi, 0)
           ul == Low(-Unit[l], b[l])
           uh == High(Unit[l], b[l])
           cl == Low(-LineCap[l], b[l])
           ch == High(LineCap[l], b[l])
           i1 == IF l \in Levered THEN band ELSE Into(band, ul, uh)
           i2 == Into(i1, cl, ch)
           i3 == IF l \in NoAdd THEN Into(i2, zl, zh) ELSE i2
           i4 == IF l \in Is("chase_long") THEN Into(i3, Low(i3[1], 0), zh) ELSE i3
           i5 == IF l \in Is("chase_short") THEN Into(i4, zl, High(i4[2], 0)) ELSE i4
<1>0. l \in Lines \ (Locked \cup Swing) /\ l \in Lines /\ b[l] \in Int
  BY DEF Managed
<1>1. Unit[l] \in Nat /\ LineCap[l] \in Nat
  BY <1>0, RiskConstants
<1>2. facts.line[l].lo \in Int /\ facts.line[l].hi \in Int /\ facts.line[l].lo <= facts.line[l].hi
  BY <1>0, RiskCases
<1>3. Boxes(b)[l] = i5
  BY Zenon DEF Boxes
<1>4. /\ zl \in Int /\ zh \in Int /\ zl <= 0 /\ 0 <= zh
      /\ ul \in Int /\ uh \in Int /\ ul <= 0 /\ 0 <= uh
      /\ cl \in Int /\ ch \in Int /\ cl <= 0 /\ 0 <= ch
      /\ bl \in Int /\ bh \in Int /\ bl <= 0 /\ 0 <= bh
  BY <1>0, <1>1, <1>2 DEF Low, High
<1>5. FitsIn(band, bl, bh)
  BY <1>2 DEF FitsIn, Low, High
<1> HIDE DEF band, zl, zh, bl, bh, ul, uh, cl, ch
<1> DEFINE i1a == Into(band, ul, uh)
<1>6. FitsIn(i1, bl, bh) /\ (l \notin Levered => FitsIn(i1, ul, uh))
  <2>1. band[1] \in Int /\ band[2] \in Int
    BY <1>5 DEF FitsIn
  <2>2. FitsIn(Into(band, ul, uh), bl, bh)
    BY <1>4, <1>5, IntoStays
  <2>3. FitsIn(Into(band, ul, uh), ul, uh)
    BY <1>4, <2>1, IntoFits
  <2> QED
    BY <1>5, <2>2, <2>3
<1> HIDE DEF i1
<1>7. Narrows(i1, i2) /\ FitsIn(i2, cl, ch)
  <2>1. i1[1] \in Int /\ i1[2] \in Int
    BY <1>6 DEF FitsIn
  <2>2. FitsIn(Into(i1, cl, ch), cl, ch)
    BY <1>4, <2>1, IntoFits
  <2> QED
    BY <1>4, <2>2, IntoNarrows
<1> HIDE DEF i2
<1>8. Narrows(i2, i3)
  <2>1. Narrows(i2, Into(i2, zl, zh))
    BY <1>4, IntoNarrows
  <2>2. Narrows(i2, i2)
    BY DEF Narrows
  <2> QED
    BY <2>1, <2>2
<1> HIDE DEF i3
<1>9. FitsIn(i3, cl, ch)
  BY <1>4, <1>7, <1>8 DEF Narrows
<1>10. i3[1] \in Int /\ i3[2] \in Int /\ i3[1] <= i3[2]
  BY <1>9 DEF FitsIn
<1>11. Narrows(i3, i4) /\ (l \in Is("chase_long") => i4[2] <= zh)
  <2> DEFINE a == Low(i3[1], 0)
  <2>1. a \in Int /\ a <= 0
    BY <1>10 DEF Low
  <2>2. i4 = IF l \in Is("chase_long") THEN Into(i3, a, zh) ELSE i3
    OBVIOUS
  <2> HIDE DEF a, i4
  <2>3. FitsIn(Into(i3, a, zh), a, zh)
    BY <1>4, <1>10, <2>1, IntoFits
  <2>4. Narrows(i3, Into(i3, a, zh))
    BY <1>4, <2>1, IntoNarrows
  <2>5. Narrows(i3, i3)
    BY DEF Narrows
  <2> QED
    BY <2>2, <2>3, <2>4, <2>5 DEF FitsIn
<1> HIDE DEF i4
<1>12. FitsIn(i4, cl, ch)
  BY <1>4, <1>9, <1>11 DEF Narrows
<1>13. i4[1] \in Int /\ i4[2] \in Int /\ i4[1] <= i4[2]
  BY <1>12 DEF FitsIn
<1>14. /\ Narrows(i4, i5) /\ (l \in Is("chase_short") => zl <= i5[1])
       /\ l \in Is("chase_long") => i5[2] <= zh
  <2> DEFINE c == High(i4[2], 0)
  <2>1. c \in Int /\ 0 <= c /\ (i4[2] <= zh => c <= zh)
    BY <1>4, <1>13 DEF High
  <2>2. i5 = IF l \in Is("chase_short") THEN Into(i4, zl, c) ELSE i4
    OBVIOUS
  <2> HIDE DEF c, i5
  <2>3. FitsIn(Into(i4, zl, c), zl, c)
    BY <1>4, <1>13, <2>1, IntoFits
  <2>4. Narrows(i4, Into(i4, zl, c))
    BY <1>4, <2>1, IntoNarrows
  <2>5. Narrows(i4, i4)
    BY DEF Narrows
  <2>6. l \in Is("chase_long") => Into(i4, zl, c)[2] <= zh
    BY <1>4, <1>11, <2>1, <2>3 DEF FitsIn
  <2> QED
    BY <1>11, <2>2, <2>3, <2>4, <2>5, <2>6 DEF FitsIn
<1> HIDE DEF i5
<1>15. Narrows(i1, i5) /\ Narrows(i2, i5)
  BY <1>7, <1>8, <1>11, <1>14 DEF Narrows
<1>16. FitsIn(i5, bl, bh) /\ FitsIn(i5, cl, ch) /\ (l \notin Levered => FitsIn(i5, ul, uh))
  BY <1>4, <1>6, <1>7, <1>15 DEF Narrows
<1> QED
  BY <1>3, <1>14, <1>16 DEF zl, zh, bl, bh, ul, uh, cl, ch

(* A line that a round may move ends inside of those intervals.                    *)
Ended(v) == Prologue /\ live = Swing \ Entering /\ Below(v, FromBand)

(* A book at the end of a round has its fixed lines at their pins, *)
LEMMA EndsAtPin ==
    ASSUME NEW v, Ended(v)
    PROVE  /\ v \in [Lines -> Int] /\ base \in [Lines -> Int]
           /\ \A l \in Lines : l \in Fixed => v[l] = Pin(l)
           /\ \A l \in Managed : l \in Fixed => v[l] = base[l]
<1>0. live \subseteq Swing
  BY DEF Ended
<1>1. \A l \in Lines : l \in Fixed => Lo[l] = Hi[l] /\ FromBand[l] = Pin(l)
  BY <1>0, IntervalsSound DEF Ended
<1>2. \A l \in Lines : l \in Fixed => v[l] = Pin(l)
  BY <1>1 DEF Ended, Below
<1>3. \A l \in Managed : l \in Fixed => v[l] = base[l]
  BY <1>0, <1>2, PinsAreWeights DEF Managed, Ended
<1>4. v \in [Lines -> Int] /\ base \in [Lines -> Int]
  BY BaseIsBelow DEF Ended, Below, Prologue
<1> QED
  BY <1>2, <1>3, <1>4

(* and the others inside any bound their interval respects. *)
LEMMA BookFits ==
    ASSUME NEW v, Ended(v), NEW l \in Managed, l \notin Fixed
    PROVE  \A a, c \in Int : /\ a <= 0 /\ box[l][1] >= a => v[l] >= a
                             /\ 0 <= c /\ box[l][2] <= c => v[l] <= c
<1>0. live \subseteq Swing /\ l \in Lines
  BY DEF Ended, Managed
<1>1. box[l][1] \in Int /\ box[l][2] \in Int /\ box[l][1] <= box[l][2]
  BY BoxesFit, BaseIsBelow DEF Ended, Prologue
<1>2. target[l] \in Int
  BY <1>0 DEF Ended, Prologue
<1>3. FromBand[l] = Clip(target[l], box[l][1], box[l][2])
  BY <1>0 DEF FromBand
<1>4. FromBand[l] \in Int /\ box[l][1] <= FromBand[l] /\ FromBand[l] <= box[l][2]
  BY <1>1, <1>2, <1>3 DEF Clip, Low, High
<1>5. v[l] \in Int /\ Between(v[l], FromBand[l])
  BY <1>0 DEF Ended, Below
<1> QED
  BY <1>1, <1>4, <1>5 DEF Between

(* The rules of a line: its cap, its leverage, its band, no increase where none is *)
(* allowed, no chase, and no move of a line that is held.                          *)
LineRules(v, l) ==
    /\ l \in NoAdd => ~Increases(base[l], v[l])
    /\ Size(v[l]) > LineCap[l] => ~Increases(base[l], v[l])
    /\ l \notin Levered /\ Size(v[l]) > Unit[l] => ~Increases(base[l], v[l])
    /\ l \notin Is("no_band") => \/ v[l] = base[l]
                                 \/ facts.line[l].lo <= v[l] /\ v[l] <= facts.line[l].hi
                                 \/ 0 <= v[l] /\ v[l] < facts.line[l].lo
                                 \/ facts.line[l].hi < v[l] /\ v[l] <= 0
    /\ l \in Is("chase_long") => v[l] <= High(base[l], 0)
    /\ l \in Is("chase_short") => v[l] >= Low(base[l], 0)
    /\ l \in Pinned => v[l] = base[l]

(* A line left over its cap is one that was over it in the base and has not  *)
(* grown.                                                                    *)
LEMMA OverLimitHolds ==
    ASSUME NEW b \in Int, NEW x \in Int, NEW c \in Nat,
           Low(-c, b) <= x, x <= High(c, b), Size(x) > c
    PROVE  ~Increases(b, x)
<1>1. Between(x, b)
  BY DEF Between, Low, High, Size
<1> QED
  BY <1>1, NoIncrease

(* The rules of a single line hold on the book of a round (R3, R6, R10, R17, *)
(* R18 and the cap of R5).                                                   *)
LEMMA LinesKeepRules ==
    ASSUME NEW v, Ended(v), NEW l \in Managed
    PROVE  LineRules(v, l)
<1>0. /\ l \in Lines /\ v[l] \in Int /\ base[l] \in Int /\ Unit[l] \in Nat /\ LineCap[l] \in Nat
      /\ live \subseteq Swing
  <2>1. l \in Lines \ (Locked \cup Swing)
    BY DEF Managed
  <2> QED
    BY <2>1, EndsAtPin, RiskConstants DEF Ended
<1>1. CASE l \in Fixed
  <2>1. v[l] = base[l]
    BY <1>1, EndsAtPin
  <2>2. ~Increases(base[l], v[l])
    <3>1. Between(v[l], base[l])
      BY <1>0, <2>1 DEF Between
    <3> QED
      BY <1>0, <3>1, NoIncrease
  <2>3. v[l] <= High(base[l], 0) /\ v[l] >= Low(base[l], 0)
    BY <1>0, <2>1 DEF Low, High
  <2> QED
    BY <2>1, <2>2, <2>3 DEF LineRules
<1>2. CASE l \notin Fixed
  <2>1. l \notin Pinned
    BY <1>2 DEF Fixed
  <2>2. box = Boxes(base) /\ facts \in Cases /\ base \in [Lines -> Int]
    BY EndsAtPin DEF Ended, Prologue
  <2>3. /\ FitsIn(box[l], Low(facts.line[l].lo, 0), High(facts.line[l].hi, 0))
        /\ l \notin Levered => FitsIn(box[l], Low(-Unit[l], base[l]), High(Unit[l], base[l]))
        /\ FitsIn(box[l], Low(-LineCap[l], base[l]), High(LineCap[l], base[l]))
        /\ l \in Is("chase_long") => box[l][2] <= High(base[l], 0)
        /\ l \in Is("chase_short") => Low(base[l], 0) <= box[l][1]
    BY <2>1, <2>2, BoxesLimit
  <2>4. facts.line[l].lo \in Int /\ facts.line[l].hi \in Int /\ facts.line[l].lo <= facts.line[l].hi
    <3>1. l \in Lines \ (Locked \cup Swing)
      BY DEF Managed
    <3> QED
      BY <2>2, <3>1, RiskCases
  <2>5. \A a, c \in Int : /\ a <= 0 /\ box[l][1] >= a => v[l] >= a
                          /\ 0 <= c /\ box[l][2] <= c => v[l] <= c
    BY <1>2, BookFits
  <2>6. box[l][1] \in Int /\ box[l][2] \in Int
    BY <2>3 DEF FitsIn
  <2>7. ASSUME l \in NoAdd PROVE ~Increases(base[l], v[l])
    <3>1. Between(FromBand[l], base[l])
      BY <1>0, <2>7, IntervalsSound DEF Ended
    <3>2. Between(v[l], FromBand[l]) /\ FromBand[l] \in Int
      BY <1>0, IntervalsSound DEF Ended, Below, Inside
    <3>3. Between(v[l], base[l])
      BY <1>0, <3>1, <3>2 DEF Between
    <3> QED
      BY <1>0, <3>3, NoIncrease
  <2>8. ASSUME Size(v[l]) > LineCap[l] PROVE ~Increases(base[l], v[l])
    <3>1. /\ Low(-LineCap[l], base[l]) \in Int /\ High(LineCap[l], base[l]) \in Int
          /\ Low(-LineCap[l], base[l]) <= 0 /\ 0 <= High(LineCap[l], base[l])
      BY <1>0 DEF Low, High
    <3>2. Low(-LineCap[l], base[l]) <= v[l] /\ v[l] <= High(LineCap[l], base[l])
      BY <2>3, <2>5, <2>6, <3>1 DEF FitsIn
    <3> QED
      BY <1>0, <2>8, <3>2, OverLimitHolds
  <2>9. ASSUME l \notin Levered, Size(v[l]) > Unit[l] PROVE ~Increases(base[l], v[l])
    <3>1. /\ Low(-Unit[l], base[l]) \in Int /\ High(Unit[l], base[l]) \in Int
          /\ Low(-Unit[l], base[l]) <= 0 /\ 0 <= High(Unit[l], base[l])
      BY <1>0 DEF Low, High
    <3>2. Low(-Unit[l], base[l]) <= v[l] /\ v[l] <= High(Unit[l], base[l])
      BY <2>3, <2>5, <2>6, <2>9, <3>1 DEF FitsIn
    <3> QED
      BY <1>0, <2>9, <3>2, OverLimitHolds
  <2>10. \/ facts.line[l].lo <= v[l] /\ v[l] <= facts.line[l].hi
         \/ 0 <= v[l] /\ v[l] < facts.line[l].lo
         \/ facts.line[l].hi < v[l] /\ v[l] <= 0
    <3>1. /\ Low(facts.line[l].lo, 0) \in Int /\ High(facts.line[l].hi, 0) \in Int
          /\ Low(facts.line[l].lo, 0) <= 0 /\ 0 <= High(facts.line[l].hi, 0)
      BY <2>4 DEF Low, High
    <3>2. Low(facts.line[l].lo, 0) <= v[l] /\ v[l] <= High(facts.line[l].hi, 0)
      BY <2>3, <2>5, <2>6, <3>1 DEF FitsIn
    <3> QED
      BY <1>0, <2>4, <3>2 DEF Low, High
  <2>11. /\ l \in Is("chase_long") => v[l] <= High(base[l], 0)
         /\ l \in Is("chase_short") => v[l] >= Low(base[l], 0)
    <3>1. /\ Low(base[l], 0) \in Int /\ High(base[l], 0) \in Int
          /\ Low(base[l], 0) <= 0 /\ 0 <= High(base[l], 0)
      BY <1>0 DEF Low, High
    <3> QED
      BY <2>3, <2>5, <2>6, <3>1
  <2> QED
    BY <2>1, <2>7, <2>8, <2>9, <2>10, <2>11 DEF LineRules
<1> QED
  BY <1>1, <1>2

(* What holds of the book a round projects: each limit is met or is what the base  *)
(* already was.                                                                  *)
LEMMA ProjectedMeets ==
    ASSUME Grounded, Inside(FromBand), \A l \in Lines : l \in Fixed => Lo[l] = Hi[l]
    PROVE  /\ Margin(Projected) <= MarginCap /\ Shorts(Projected) <= ShortCap
           /\ Capped(Projected, Len(Groups))
           /\ Unhedged(base) /\ Unhedged(FromBand) => Vol(Projected) <= VolCap
<1> DEFINE g == CapGroups(FromBand)
           a == Settle(Met)
           b == VolStep(a)
           c == Settle(b)
<1>0. Sound /\ FromBand \in [Lines -> Int] /\ base \in [Lines -> Int]
  BY DEF Grounded, Inside
<1>1. Below(g, FromBand) /\ Inside(g)
  BY <1>0, CapGroupsShrinks, BelowStaysInside
<1>2. Below(Met, g)
  <2> DEFINE cap == 2 * High(GrossCap, Gross(base))
  <2>1. Met = Project(Lines, g, Lo, Hi, Flat, cap)
    BY DEF Met, ProjectGross
  <2> HIDE DEF cap, g
  <2> QED
    BY <1>0, <1>1, <2>1, FlatCosts, LineProject
<1>3. Capped(g, Len(Groups))
  BY GroupsAreMet
<1>4. Projected = c
  BY DEF Projected, Met
<1>5. Inside(Met) /\ Below(Met, FromBand)
  BY <1>0, <1>1, <1>2, BelowIsOrder, BelowStaysInside
<1>6. Below(a, Met) /\ Inside(a)
  BY <1>0, <1>5, SettleShrinks, BelowStaysInside
<1> HIDE DEF a
<1>7. Below(b, a) /\ Inside(b)
  BY <1>0, <1>6, VolStepShrinks, BelowStaysInside
<1>8. Unhedged(base) => Vol(b) <= VolCap
  BY <1>6, VolIsMet
<1> HIDE DEF b
<1>9. Below(c, b) /\ Inside(c)
  BY <1>0, <1>7, SettleShrinks, BelowStaysInside
<1>10. Margin(c) <= MarginCap /\ Shorts(c) <= ShortCap
  BY <1>7, SettleMeets
<1> HIDE DEF c, g
<1>11. /\ Met \in [Lines -> Int] /\ g \in [Lines -> Int] /\ a \in [Lines -> Int] /\ b \in [Lines -> Int]
       /\ c \in [Lines -> Int]
  BY <1>1, <1>2, <1>6, <1>7, <1>9 DEF Below
<1>12. Below(c, g) /\ Below(b, FromBand) /\ Below(c, FromBand)
  BY <1>0, <1>1, <1>2, <1>5, <1>6, <1>7, <1>9, <1>11, BelowIsOrder
<1>13. Capped(c, Len(Groups))
  <2>1. Len(Groups) \in 0 .. Len(Groups)
    BY GroupsHaveCaps
  <2> QED
    BY <1>0, <1>3, <1>11, <1>12, <2>1, CappedShrinks
<1>14. ASSUME Unhedged(base), Unhedged(FromBand) PROVE Vol(c) <= VolCap
  <2>1. Unhedged(b) /\ Unhedged(c)
    BY <1>0, <1>11, <1>12, <1>14, SideStays DEF Below
  <2>2. Vol(b) = FlatVol(b) /\ Vol(c) = FlatVol(c) /\ Vol(base) = FlatVol(base)
    BY <1>0, <1>11, <1>14, <2>1, UnhedgedVol
  <2>3. \A l \in Lines : Size(c[l]) <= Size(b[l])
    BY <1>9, <1>11, BetweenIsSmaller DEF Below
  <2>4. FlatVol(c) \in Int /\ FlatVol(b) \in Int /\ FlatVol(c) <= FlatVol(b)
    BY <1>11, <2>3, FlatVolShrinks
  <2>5. FlatVol(base) \in Int
    <3>1. \A l \in Lines : Size(base[l]) \in Int
      BY <1>0 DEF Size, High
    <3>2. \A l \in Lines : Size(base[l]) <= Size(base[l])
      BY <3>1
    <3> QED
      BY <1>0, <3>2, FlatVolShrinks
  <2>6. VolCap \in Int
    BY <2>2, <2>5, RiskConstants DEF VolCap, High
  <2> QED
    BY <1>8, <1>14, <2>2, <2>4, <2>6
<1> QED
  BY <1>4, <1>10, <1>13, <1>14

(* The hard gross limit is met by the base when the lines beyond the engine meet it. *)
LEMMA BaseIsLegal ==
    ASSUME Prologue, GroupGross(Now, Lines \ Managed) <= HardMax
    PROVE  Gross(base) \in Int /\ Gross(base) <= HardMax
<1>0. /\ Now \in [Lines -> Int] /\ base \in [Lines -> Int] /\ base = ComplianceBase
      /\ DeriskTo \in Int /\ HardMax \in Int /\ DeriskTo <= HardMax
  BY BookHeld, BaseIsBelow, RiskConstants DEF Prologue
<1>1. Gross(Now) \in Int /\ Gross(base) \in Int /\ GroupGross(Now, Lines \ Managed) \in Int
  BY <1>0, GrossIsInt
<1>2. CASE Derisk
  <2>1. Gross(base) <= DeriskTo \/ Gross(base) <= GroupGross(Now, Lines \ Managed)
    BY <1>0, <1>2, BaseIsBelow DEF Prologue
  <2> QED
    BY <1>0, <1>1, <2>1
<1>3. CASE ~Derisk
  <2>1. base = Now
    BY <1>0, <1>3 DEF ComplianceBase
  <2> QED
    BY <1>0, <1>1, <1>3, <2>1 DEF Derisk
<1> QED
  BY <1>2, <1>3

(* NotWorse, from the larger of the cap and the start.                            *)
LEMMA CapIsNotWorse ==
    \A x, s, c : x <= High(c, s) => NotWorse(x, s, c)
BY DEF NotWorse, High

(* The rules of the final book, all but the net, which the filters see to.         *)
LEMMA BookPasses ==
    ASSUME Prologue, facts.kill # "HALTED", live = Swing \ Entering,
           GroupGross(Now, Lines \ Managed) <= HardMax, NEW v, v = Projected,
           NetFloor <= Net(v), Net(v) <= NetCeiling
    PROVE  \A r \in DOMAIN BookChecks(v) : BookChecks(v)[r] \/ (r = "R8" /\ Hedged)
<1>0. live \subseteq Swing
  OBVIOUS
<1>1. /\ Grounded /\ Sound /\ Inside(FromBand) /\ \A l \in Lines : l \in Fixed => Lo[l] = Hi[l]
  BY <1>0, RoundIsGrounded, IntervalsSound
<1>2. Ended(v)
  BY <1>1, ProjectedShrinks DEF Ended
<1>3. /\ Margin(v) <= MarginCap /\ Shorts(v) <= ShortCap /\ Capped(v, Len(Groups))
      /\ Unhedged(base) /\ Unhedged(FromBand) => Vol(v) <= VolCap
  BY <1>1, ProjectedMeets
<1>4. \A l \in Managed : LineRules(v, l)
  BY <1>2, LinesKeepRules
<1>5. BookChecks(v)["R1"]
  <2>1. Gross(v) <= High(GrossCap, Gross(base))
    <3>1. EntryFree(v)
      BY RoundWithoutEntries
    <3> QED
      BY <3>1 DEF EntryFree
  <2>2. Gross(base) \in Int /\ Gross(base) <= HardMax
    BY BaseIsLegal
  <2>3. Gross(v) <= GrossCap \/ Gross(v) <= Gross(base)
    BY <2>1 DEF High
  <2> QED
    BY <2>2, <2>3, GrossOf
<1>6. BookChecks(v)["R2"]
  <2>1. NotWorse(Shorts(v), Shorts(base), ShortMax)
    BY <1>3, CapIsNotWorse DEF ShortCap
  <2>2. BookChecks(v)["R2"] <=> /\ NetFloor <= Net(v) /\ Net(v) <= NetCeiling
                                /\ NotWorse(Shorts(v), Shorts(base), ShortMax)
    BY DEF BookChecks
  <2> QED
    BY <2>1, <2>2
<1>7. BookChecks(v)["R3"]
  <2>1. NoAdd \subseteq Managed
    BY DEF NoAdd, Is
  <2>2. \A l \in NoAdd : ~Increases(base[l], v[l])
    BY <1>4, <2>1 DEF LineRules
  <2>3. BookChecks(v)["R3"] <=> \A l \in NoAdd : ~Increases(base[l], v[l])
    BY DEF BookChecks
  <2> QED
    BY <2>2, <2>3
<1>8. BookChecks(v)["R5"]
  <2>1. \A l \in Managed : Size(v[l]) > LineCap[l] => ~Increases(base[l], v[l])
    BY <1>4 DEF LineRules
  <2>2. ASSUME NEW k \in DOMAIN Groups
        PROVE  NotWorse(GroupGross(v, Groups[k].of), GroupGross(base, Groups[k].of), Groups[k].cap)
    <3>1. GroupGross(v, Groups[k].of) <= GroupCap(k)
      BY <1>3, GroupsHaveCaps DEF Capped
    <3> QED
      BY <3>1, CapIsNotWorse DEF GroupCap
  <2>3. BookChecks(v)["R5"] <=>
          /\ \A l \in Managed : Size(v[l]) > LineCap[l] => ~Increases(base[l], v[l])
          /\ \A k \in DOMAIN Groups :
                NotWorse(GroupGross(v, Groups[k].of), GroupGross(base, Groups[k].of), Groups[k].cap)
    BY DEF BookChecks
  <2> QED
    BY <2>1, <2>2, <2>3
<1>9. BookChecks(v)["R6"]
  <2>1. \A l \in Managed \ Levered : Size(v[l]) > Unit[l] => ~Increases(base[l], v[l])
    BY <1>4 DEF LineRules
  <2>2. BookChecks(v)["R6"] <=> \A l \in Managed \ Levered : Size(v[l]) > Unit[l] => ~Increases(base[l], v[l])
    BY DEF BookChecks
  <2> QED
    BY <2>1, <2>2
<1>10. BookChecks(v)["R7"]
  <2>1. NotWorse(Margin(v), Margin(base), MarginMax)
    BY <1>3, CapIsNotWorse DEF MarginCap
  <2>2. BookChecks(v)["R7"] <=> NotWorse(Margin(v), Margin(base), MarginMax)
    BY DEF BookChecks
  <2> QED
    BY <2>1, <2>2
<1>11. BookChecks(v)["R8"] \/ Hedged
  <2> SUFFICES ASSUME ~Hedged PROVE BookChecks(v)["R8"]
    OBVIOUS
  <2>1. Unhedged(base) /\ Unhedged(FromBand)
    BY DEF Hedged, Unhedged, OneSided
  <2>2. NotWorse(Vol(v), Vol(base), VolMax)
    BY <1>3, <2>1, CapIsNotWorse DEF VolCap
  <2>3. BookChecks(v)["R8"] <=> NotWorse(Vol(v), Vol(base), VolMax)
    BY DEF BookChecks
  <2> QED
    BY <2>2, <2>3
<1>12. BookChecks(v)["R10"]
  <2> DEFINE inBand(l) == \/ v[l] = base[l]
                          \/ facts.line[l].lo <= v[l] /\ v[l] <= facts.line[l].hi
                          \/ 0 <= v[l] /\ v[l] < facts.line[l].lo
                          \/ facts.line[l].hi < v[l] /\ v[l] <= 0
  <2>1. \A l \in Managed \ Is("no_band") : inBand(l)
    BY <1>4 DEF LineRules
  <2>2. BookChecks(v)["R10"] <=> \A l \in Managed \ Is("no_band") : inBand(l)
    BY DEF BookChecks
  <2> HIDE DEF inBand
  <2> QED
    BY <2>1, <2>2
<1>13. BookChecks(v)["R17"]
  <2>1. Is("chase_long") \subseteq Managed /\ Is("chase_short") \subseteq Managed
    BY DEF Is
  <2>2. /\ \A l \in Is("chase_long") : v[l] <= High(base[l], 0)
        /\ \A l \in Is("chase_short") : v[l] >= Low(base[l], 0)
    BY <1>4, <2>1 DEF LineRules
  <2>3. BookChecks(v)["R17"] <=> /\ \A l \in Is("chase_long") : v[l] <= High(base[l], 0)
                                 /\ \A l \in Is("chase_short") : v[l] >= Low(base[l], 0)
    BY DEF BookChecks
  <2> QED
    BY <2>2, <2>3
<1>14. BookChecks(v)["R18"]
  <2>1. Pinned \subseteq Managed
    BY DEF Pinned, Is
  <2>2. \A l \in Pinned : v[l] = base[l]
    BY <1>4, <2>1 DEF LineRules
  <2>3. BookChecks(v)["R18"] <=> \A l \in Pinned : v[l] = base[l]
    BY DEF BookChecks
  <2> QED
    BY <2>2, <2>3
<1>15. DOMAIN BookChecks(v) = {"R1", "R2", "R3", "R5", "R6", "R7", "R8", "R10", "R17", "R18"}
  BY DEF BookChecks
<1> QED
  BY <1>5, <1>6, <1>7, <1>8, <1>9, <1>10, <1>11, <1>12, <1>13, <1>14, <1>15

-----------------------------------------------------------------------------
(* The budgets.                                                                   *)
LEMMA PartIsNothing ==
    ASSUME NEW S, NEW f, \A l \in Lines : l \in S => f[l] \in Int /\ f[l] <= 0
    PROVE  SumOf(S, f) \in Int /\ SumOf(S, f) <= 0
<1> DEFINE z == [l \in Lines |-> 0]
           none == [l \in Lines |-> IF l \in {} THEN z[l] ELSE 0]
<1>1. SumOf(S, f) <= SumOf({}, z)
  BY PartGrows
<1>2. SumOf({}, z) = Sum(none)
  BY DEF SumOf
<1>3. Sum(none) = 0
  <2>1. IntOn(none, Lines) /\ \A l \in Lines : none[l] = 0
    BY DEF IntOn
  <2> HIDE DEF none
  <2> QED
    BY <2>1, SumOfNothing
<1> HIDE DEF z, none
<1> QED
  BY <1>1, <1>2, <1>3, PartIsInt

(* Of some lines one comes first in the order of their keys.                       *)
Keyed(S, key, n) == \A l \in S : DOMAIN key[l] = 1 .. n /\ \A i \in 1 .. n : key[l][i] \in Int

(* A lexicographic key of whole numbers has a first line in every set of     *)
(* lines that is not empty, so a filter that must hold someone does.         *)
LEMMA SomeLineIsFirst ==
    ASSUME NEW S, S \subseteq Lines, S # {}, NEW n \in Nat, NEW key, Keyed(S, key, n)
    PROVE  \E l \in S : \A m \in S : ~Precedes(key[m], key[l])
<1> DEFINE Ahead(m, l, k) == \E i \in 1 .. k : key[m][i] < key[l][i] /\ \A j \in 1 .. (i - 1) : key[m][j] = key[l][j]
           P == {k \in 0 .. n : \E l \in S : \A m \in S : ~Ahead(m, l, k)}
<1>0. IsFiniteSet(S)
  <2>1. IsFiniteSet(1 .. N)
    BY RiskConstants, FS_Interval
  <2>2. S \subseteq 1 .. N
    BY SomeLine
  <2> QED
    BY <2>1, <2>2, FS_Subset
<1>1. 0 \in P
  OBVIOUS
<1>2. ASSUME NEW k \in 0 .. n - 1, k \in P PROVE k + 1 \in P
  <2>0. k \in Nat /\ k + 1 \in 1 .. n /\ k + 1 \in 0 .. n
    OBVIOUS
  <2>1. PICK f \in S : \A m \in S : ~Ahead(m, f, k)
    BY <1>2
  <2> DEFINE T == {m \in S : \A j \in 1 .. k : key[m][j] = key[f][j]}
             at == [m \in T |-> key[m][k + 1]]
  <2>2. f \in T /\ T \subseteq S /\ T # {}
    OBVIOUS
  <2>3. IsFiniteSet(T)
    BY <1>0, <2>2, FS_Subset
  <2>4. at \in [T -> Int]
    BY <2>0 DEF Keyed
  <2>5. \E l \in T : \A m \in T : at[l] <= at[m]
    <3> HIDE DEF T, at
    <3> QED
      BY <2>2, <2>3, <2>4, LeastValue
  <2>6. PICK l \in T : \A m \in T : key[l][k + 1] <= key[m][k + 1]
    BY <2>5
  <2>7. ASSUME NEW m \in S, Ahead(m, l, k + 1) PROVE FALSE
    <3>1. PICK i \in 1 .. k + 1 : key[m][i] < key[l][i] /\ \A j \in 1 .. (i - 1) : key[m][j] = key[l][j]
      BY <2>7
    <3>2. CASE i \in 1 .. k
      <4>1. key[l][i] = key[f][i] /\ \A j \in 1 .. (i - 1) : key[l][j] = key[f][j]
        BY <3>2, <2>0
      <4>2. Ahead(m, f, k)
        BY <3>1, <3>2, <4>1
      <4> QED
        BY <2>1, <4>2
    <3>3. CASE i = k + 1
      <4>1. i - 1 = k
        BY <3>3, <2>0
      <4>2. m \in T
        BY <3>1, <4>1
      <4>3. key[m][k + 1] \in Int /\ key[l][k + 1] \in Int
        BY <2>0 DEF Keyed
      <4> QED
        BY <2>6, <3>1, <3>3, <4>2, <4>3
    <3> QED
      BY <2>0, <3>2, <3>3
  <2>8. \A m \in S : ~Ahead(m, l, k + 1)
    BY <2>7
  <2> HIDE DEF Ahead
  <2> QED
    BY <2>0, <2>2, <2>8
<1>3. 0 .. n \subseteq P
  <2> HIDE DEF P
  <2> QED
    BY <1>1, <1>2, BoundedInduction
<1>4. PICK l \in S : \A m \in S : ~Ahead(m, l, n)
  <2>1. n \in 0 .. n
    OBVIOUS
  <2>2. n \in P
    BY <1>3, <2>1
  <2> QED
    BY <2>2
<1>5. \A m \in S : ~Precedes(key[m], key[l])
  BY <1>4 DEF Precedes, Keyed
<1> QED
  BY <1>5

(* A budget that holds nobody is met, or none of its lines uses it.                *)
LEMMA TrimIsEmpty ==
    ASSUME NEW S, S \subseteq Lines, NEW part, NEW limit, NEW key, NEW n \in Nat, Keyed(S, key, n),
           Trim(S, part, limit, key) = {}
    PROVE  ~(SumOf(S, part) > limit) \/ \A l \in S : ~(part[l] > 0)
<1> DEFINE of == {l \in S : part[l] > 0}
<1> SUFFICES ASSUME of # {} PROVE ~(SumOf(S, part) > limit)
  OBVIOUS
<1>1. of \subseteq Lines /\ Keyed(of, key, n)
  BY DEF Keyed
<1>2. PICK l \in of : \A m \in of : ~Precedes(key[m], key[l])
  <2> HIDE DEF of
  <2> QED
    BY <1>1, SomeLineIsFirst
<1>3. S \ {m \in of : Precedes(key[m], key[l])} = S
  BY <1>2
<1>4. Trim(S, part, limit, key) = {x \in of : SumOf(S \ {m \in of : Precedes(key[m], key[x])}, part) > limit}
  BY Zenon DEF Trim
<1> QED
  BY <1>2, <1>3, <1>4

(* So is a cost budget, or none of its lines adds and the reducing ones are cheap.  *)
LEMMA TrimCostsIsEmpty ==
    ASSUME NEW v, NEW S, S \subseteq Lines, NEW cost, NEW variable, NEW limit, NEW varlimit, NEW key,
           NEW n \in Nat, Keyed(S, key, n), TrimCosts(v, S, cost, variable, limit, varlimit, key) = {}
    PROVE  \/ ~(SumOf(S, cost) > limit)
           \/ \A l \in S : ~(cost[l] > 0)
           \/ /\ ~(SumOf({l \in S : ~Increases(base[l], v[l])}, variable) > varlimit)
              /\ \E l \in S : /\ ~Increases(base[l], v[l])
                              /\ \A m \in S : cost[m] > 0 => ~Precedes(key[m], key[l])
<1> DEFINE of == {l \in S : cost[l] > 0}
           red == {l \in S : ~Increases(base[l], v[l])}
           before(l) == {m \in of : Precedes(key[m], key[l])}
<1> SUFFICES ASSUME of # {}, SumOf(S, cost) > limit
             PROVE  /\ ~(SumOf(red, variable) > varlimit)
                    /\ \E l \in S : l \in red /\ \A m \in of : ~Precedes(key[m], key[l])
  OBVIOUS
<1>1. of \subseteq Lines /\ Keyed(of, key, n)
  BY DEF Keyed
<1>2. PICK l \in of : \A m \in of : ~Precedes(key[m], key[l])
  <2> HIDE DEF of
  <2> QED
    BY <1>1, SomeLineIsFirst
<1>3. S \ before(l) = S /\ red \ before(l) = red
  BY <1>2
<1>4. TrimCosts(v, S, cost, variable, limit, varlimit, key) =
        {x \in of : /\ SumOf(S \ before(x), cost) > limit
                    /\ x \in red => SumOf(red \ before(x), variable) > varlimit}
  BY Zenon DEF TrimCosts
<1> HIDE DEF red, before
<1>5. l \in red /\ ~(SumOf(red, variable) > varlimit)
  BY <1>2, <1>3, <1>4
<1> QED
  BY <1>2, <1>5

-----------------------------------------------------------------------------
(* A round that holds no further line: no filter and no budget found one.          *)
Worst(v) == [l \in Moves(v) |-> WorstFirst(v, l)]
Trimmed(v) == [l \in Moves(v) |-> TrimKey(v, l)]
Down(v) == [l \in Lines |-> High(base[l] - v[l], 0)]
Up(v) == [l \in Lines |-> High(v[l] - base[l], 0)]
Rise(v) == [l \in Lines |-> High(CarryOf(v)[l] - CarryOf(base)[l], 0)]
Free(v) == Discretionary(v, Moves(v))
Adding(v) == {l \in Free(v) : Increases(base[l], v[l])}
Turnover(v) == [l \in Lines |-> Change(v, l)]
Counted(v) == {l \in Moves(v) : ~Exempt(v, l)}
Overruns(v) ==
    << Trim(Moves(v), Down(v), SumOf(Moves(v), Down(v)) - (NetFloor - Net(v)), Worst(v)),
       Trim(Moves(v), Up(v), SumOf(Moves(v), Up(v)) - (Net(v) - NetCeiling), Worst(v)),
       Trim(Free(v), Increase(v), IncreaseMax, Worst(v)),
       Trim(Adding(v), Turnover(v), TurnoverLeft, Worst(v)),
       TrimCosts(v, CycleCosts(v, Moves(v)), Cost(v), Variable(v), CycleCost, CycleCost, Trimmed(v)),
       TrimCosts(v, Free(v), Cost(v), Variable(v), MonthLeft, MonthVarLeft, Trimmed(v)),
       Trim(Moves(v), Rise(v), SumOf(Moves(v), Rise(v)) - (Sum(CarryOf(v)) - CarryCap), Worst(v)),
       Trim(Counted(v), LegsOf(v), MaxLegs, Trimmed(v)),
       Trim(Moves(v), LegsOf(v), MaxLegsTotal, Trimmed(v)) >>

(* Nobody is held by the budgets only if no budget overruns. *)
LEMMA FirstBudget ==
    ASSUME NEW f, DOMAIN f = 1 .. 9
    PROVE  LET over == {k \in DOMAIN f : f[k] # {}}
           IN (IF over = {} THEN {} ELSE f[Min(over)]) = {} => \A k \in 1 .. 9 : f[k] = {}
<1> DEFINE over == {k \in DOMAIN f : f[k] # {}}
<1> SUFFICES ASSUME over # {} PROVE f[Min(over)] # {}
  OBVIOUS
<1>1. over \subseteq 1 .. 9 /\ over \subseteq Nat
  OBVIOUS
<1>2. PICK n \in over : \A m \in over : n <= m
  <2> HIDE DEF over
  <2> QED
    BY <1>1, LeastNumber
<1>3. Min(over) \in over
  <2> HIDE DEF over
  <2> QED
    BY <1>2 DEF Min
<1> QED
  BY <1>3

(* A round that holds nobody new has passed every filter of a line and every *)
(* budget.                                                                   *)
LEMMA NobodyIsHeld ==
    ASSUME NEW v, NewlyHeld(v) = {}
    PROVE  LineFilters(v) = {} /\ \A k \in 1 .. 9 : Overruns(v)[k] = {}
<1>1. LineFilters(v) = {} /\ BudgetFilters(v) = {}
  BY DEF NewlyHeld
<1>2. BudgetFilters(v) = LET over == {k \in DOMAIN Overruns(v) : Overruns(v)[k] # {}}
                         IN IF over = {} THEN {} ELSE Overruns(v)[Min(over)]
  BY Zenon DEF BudgetFilters, Overruns, Worst, Trimmed, Down, Up, Rise, Free, Adding, Turnover, Counted
<1>3. DOMAIN Overruns(v) = 1 .. 9
  BY DEF Overruns
<1> QED
  BY <1>1, <1>2, <1>3, FirstBudget

LEMMA KeyBefore ==
    ASSUME NEW b \in Int, NEW c \in Seq(Int)
    PROVE  <<b>> \o c \in Seq(Int) /\ Len(<<b>> \o c) = 1 + Len(c) /\ (<<b>> \o c)[1] = b
OBVIOUS

LEMMA KeysAreInt ==
    ASSUME NEW v, facts \in Cases, v \in [Lines -> Int], base \in [Lines -> Int]
    PROVE  /\ \A l \in Moves(v) : WorstFirst(v, l) \in Seq(Int)
           /\ \A S : S \subseteq Moves(v) =>
                S \subseteq Lines /\ Keyed(S, Worst(v), 4) /\ Keyed(S, Trimmed(v), 5)
<1>1. Moves(v) \subseteq Managed /\ Moves(v) \subseteq Lines
  BY DEF Moves, Changed, Managed
<1>2. ASSUME NEW l \in Moves(v)
      PROVE  /\ WorstFirst(v, l) \in Seq(Int) /\ Len(WorstFirst(v, l)) = 4
             /\ TrimKey(v, l) \in Seq(Int) /\ Len(TrimKey(v, l)) = 5
  <2>1. l \in Lines \ (Locked \cup Swing) /\ l \in Int
    BY <1>1, SomeLine DEF Managed
  <2>2. PerSide[l] \in Int
    BY SMTT(30), <2>1, RiskConstants
  <2>3. Change(v, l) \in Int
    BY <2>1 DEF Change, Size, High
  <2>4. \A b : Bit(b) \in Int
    BY DEF Bit
  <2>5. WorstFirst(v, l) \in Seq(Int) /\ Len(WorstFirst(v, l)) = 4
    BY <2>1, <2>2, <2>3, <2>4 DEF WorstFirst
  <2> HIDE DEF WorstFirst
  <2>6. TrimKey(v, l) = <<Bit(~Increases(base[l], v[l]))>> \o WorstFirst(v, l)
    BY DEF TrimKey
  <2>7. Bit(~Increases(base[l], v[l])) \in Int
    BY <2>4
  <2>8. TrimKey(v, l) \in Seq(Int) /\ Len(TrimKey(v, l)) = 1 + Len(WorstFirst(v, l))
    BY ZenonT(30), <2>5, <2>6, <2>7, KeyBefore
  <2> QED
    BY <2>5, <2>8
<1>3. ASSUME NEW s \in Seq(Int) PROVE DOMAIN s = 1 .. Len(s) /\ \A i \in 1 .. Len(s) : s[i] \in Int
  OBVIOUS
<1>4. ASSUME NEW l \in Moves(v)
      PROVE  /\ DOMAIN Worst(v)[l] = 1 .. 4 /\ \A i \in 1 .. 4 : Worst(v)[l][i] \in Int
             /\ DOMAIN Trimmed(v)[l] = 1 .. 5 /\ \A i \in 1 .. 5 : Trimmed(v)[l][i] \in Int
  <2>1. Worst(v)[l] = WorstFirst(v, l) /\ Trimmed(v)[l] = TrimKey(v, l)
    BY DEF Worst, Trimmed
  <2> QED
    BY <1>2, <1>3, <2>1
<1> QED
  BY <1>1, <1>2, <1>4 DEF Keyed

(* The book of such a round, when all that it may not move is at the base.         *)
Final(v) ==
    /\ facts \in Cases /\ v \in [Lines -> Int] /\ base \in [Lines -> Int]
    /\ Moves(v) = Changed(v) /\ \A l \in Lines : l \notin Managed => v[l] = base[l]
    /\ NewlyHeld(v) = {}

(* What the last round of an evaluation leaves behind. *)
LEMMA FinalBook ==
    ASSUME NEW v, Final(v)
    PROVE  /\ v \in [Lines -> Int] /\ base \in [Lines -> Int]
           /\ Moves(v) = Changed(v) /\ Moves(v) \subseteq Managed /\ Managed \subseteq Lines
           /\ \A l \in Lines : l \notin Moves(v) => v[l] = base[l]
           /\ Net(v) \in Int /\ Net(base) \in Int
           /\ \A S : S \subseteq Moves(v) =>
                S \subseteq Lines /\ Keyed(S, Worst(v), 4) /\ Keyed(S, Trimmed(v), 5)
           /\ LineFilters(v) = {} /\ \A k \in 1 .. 9 : Overruns(v)[k] = {}
<1>1. v \in [Lines -> Int] /\ base \in [Lines -> Int] /\ Moves(v) = Changed(v) /\ facts \in Cases
  BY DEF Final
<1>2. Moves(v) \subseteq Managed /\ Managed \subseteq Lines
  BY <1>1 DEF Changed, Managed
<1>3. \A l \in Lines : l \notin Moves(v) => v[l] = base[l]
  BY <1>1 DEF Final, Changed
<1>4. IntOn(v, Lines) /\ IntOn(base, Lines)
  BY <1>1 DEF IntOn
<1>5. Net(v) \in Int /\ Net(base) \in Int
  BY <1>4, SumIsInt DEF Net
<1>6. \A S : S \subseteq Moves(v) =>
         S \subseteq Lines /\ Keyed(S, Worst(v), 4) /\ Keyed(S, Trimmed(v), 5)
  BY <1>1, KeysAreInt
<1>7. LineFilters(v) = {} /\ \A k \in 1 .. 9 : Overruns(v)[k] = {}
  BY NobodyIsHeld DEF Final
<1> QED
  BY <1>1, <1>2, <1>3, <1>5, <1>6, <1>7

(* Net exposure: no line is held for it in the last round, so it is inside   *)
(* its bounds.                                                               *)
LEMMA NetIsMet ==
    ASSUME NEW v, Final(v)
    PROVE  NetFloor <= Net(v) /\ Net(v) <= NetCeiling
<1>0. /\ v \in [Lines -> Int] /\ base \in [Lines -> Int] /\ Net(v) \in Int /\ Net(base) \in Int
      /\ Moves(v) \subseteq Lines /\ Keyed(Moves(v), Worst(v), 4)
      /\ \A l \in Lines : l \notin Moves(v) => v[l] = base[l]
  BY FinalBook
<1>1. /\ NetFloor \in Int /\ NetFloor <= Net(base) /\ NetCeiling \in Int /\ Net(base) <= NetCeiling
  <2>1. NetMin \in Int /\ NetMax \in Int
    BY RiskConstants
  <2> QED
    BY <1>0, <2>1 DEF NetFloor, NetCeiling, Low, High
<1>2. IntOn(v, Lines) /\ IntOn(base, Lines)
  BY <1>0 DEF IntOn
<1>3. NetFloor <= Net(v)
  <2> DEFINE sum == SumOf(Moves(v), Down(v))
  <2>1. \A l \in Lines : Down(v)[l] \in Int /\ Down(v)[l] = High(base[l] - v[l], 0)
    BY <1>0 DEF Down, High
  <2>2. sum \in Int
    BY <2>1, PartIsInt
  <2>3. Trim(Moves(v), Down(v), sum - (NetFloor - Net(v)), Worst(v)) = {}
    <3>1. Overruns(v)[1] = Trim(Moves(v), Down(v), sum - (NetFloor - Net(v)), Worst(v))
      BY DEF Overruns
    <3> QED
      BY <3>1, FinalBook
  <2> HIDE DEF sum
  <2>4. ~(sum > sum - (NetFloor - Net(v))) \/ \A l \in Moves(v) : ~(Down(v)[l] > 0)
    BY <1>0, <2>3, TrimIsEmpty DEF sum
  <2>5. CASE ~(sum > sum - (NetFloor - Net(v)))
    BY <1>0, <1>1, <2>2, <2>5
  <2>6. CASE \A l \in Moves(v) : ~(Down(v)[l] > 0)
    <3>1. \A l \in Lines : base[l] <= v[l]
      BY <1>0, <2>1, <2>6 DEF High
    <3>2. Net(base) <= Net(v)
      BY <1>2, <3>1, SumGrows DEF Net
    <3> QED
      BY <1>0, <1>1, <3>2
  <2> QED
    BY <2>4, <2>5, <2>6
<1>4. Net(v) <= NetCeiling
  <2> DEFINE sum == SumOf(Moves(v), Up(v))
  <2>1. \A l \in Lines : Up(v)[l] \in Int /\ Up(v)[l] = High(v[l] - base[l], 0)
    BY <1>0 DEF Up, High
  <2>2. sum \in Int
    BY <2>1, PartIsInt
  <2>3. Trim(Moves(v), Up(v), sum - (Net(v) - NetCeiling), Worst(v)) = {}
    <3>1. Overruns(v)[2] = Trim(Moves(v), Up(v), sum - (Net(v) - NetCeiling), Worst(v))
      BY DEF Overruns
    <3> QED
      BY <3>1, FinalBook
  <2> HIDE DEF sum
  <2>4. ~(sum > sum - (Net(v) - NetCeiling)) \/ \A l \in Moves(v) : ~(Up(v)[l] > 0)
    BY <1>0, <2>3, TrimIsEmpty DEF sum
  <2>5. CASE ~(sum > sum - (Net(v) - NetCeiling))
    BY <1>0, <1>1, <2>2, <2>5
  <2>6. CASE \A l \in Moves(v) : ~(Up(v)[l] > 0)
    <3>1. \A l \in Lines : v[l] <= base[l]
      BY <1>0, <2>1, <2>6 DEF High
    <3>2. Net(v) <= Net(base)
      BY <1>2, <3>1, SumGrows DEF Net
    <3> QED
      BY <1>0, <1>1, <3>2
  <2> QED
    BY <2>4, <2>5, <2>6
<1> QED
  BY <1>3, <1>4

(* The costs of a move are natural numbers, and a dear one is a dear line's.        *)
LEMMA MoveCosts ==
    ASSUME NEW v, Final(v), NEW l \in Moves(v)
    PROVE  /\ l \in Lines /\ v[l] \in Int /\ base[l] \in Int
           /\ Change(v, l) \in Nat /\ Increase(v)[l] \in Nat
           /\ Variable(v)[l] \in Nat /\ Cost(v)[l] \in Nat /\ Variable(v)[l] <= Cost(v)[l]
           /\ LegsOf(v)[l] \in 1 .. 2
<1>1. l \in Lines \ (Locked \cup Swing) /\ l \in Lines
  BY FinalBook DEF Managed
<1>2. v[l] \in Int /\ base[l] \in Int
  BY <1>1, FinalBook
<1>3. PerSide[l] \in Nat /\ Fee[l] \in Nat
  BY <1>1, RiskConstants
<1>4. Change(v, l) \in Nat
  BY <1>2 DEF Change, Size, High
<1>5. Increase(v)[l] \in Nat
  BY <1>1, <1>2 DEF Increase, Size, High
<1>6. \A a, b \in Nat : a * b \in Nat
  OBVIOUS
<1>7. Variable(v)[l] = PerSide[l] * Change(v, l)
  BY <1>1 DEF Variable
<1>8. Variable(v)[l] \in Nat
  BY <1>3, <1>4, <1>6, <1>7
<1> DEFINE legs == IF base[l] * v[l] < 0 THEN 2 ELSE Bit(v[l] # base[l])
<1>9. legs \in Nat
  BY DEF Bit
<1>10. Cost(v)[l] = Variable(v)[l] + Fee[l] * legs
  BY <1>1 DEF Cost
<1> HIDE DEF legs
<1>11. Fee[l] * legs \in Nat
  BY <1>3, <1>6, <1>9
<1>12. LegsOf(v)[l] \in 1 .. 2
  BY <1>1 DEF LegsOf
<1> QED
  BY <1>1, <1>2, <1>4, <1>5, <1>8, <1>10, <1>11, <1>12

LEMMA FiltersOf ==
    ASSUME NEW v, Final(v)
    PROVE  /\ Free(v) \subseteq Moves(v) /\ Adding(v) \subseteq Moves(v) /\ Counted(v) \subseteq Moves(v)
           /\ CycleCosts(v, Moves(v)) \subseteq Moves(v)
BY DEF Free, Discretionary, Adding, Counted, CycleCosts

(* The budgets of increases and of turnover are kept, *)
LEMMA IncreasesAreMet ==
    ASSUME NEW v, Final(v)
    PROVE  /\ SumOf(Free(v), Increase(v)) <= IncreaseMax
           /\ SumOf(Adding(v), Turnover(v)) <= TurnoverLeft \/ SumOf(Adding(v), Turnover(v)) = 0
<1>0. IncreaseMax \in Nat /\ TurnoverLeft \in Int
  BY RiskConstants
<1>1. /\ Free(v) \subseteq Lines /\ Keyed(Free(v), Worst(v), 4) /\ Free(v) \subseteq Moves(v)
      /\ Adding(v) \subseteq Lines /\ Keyed(Adding(v), Worst(v), 4) /\ Adding(v) \subseteq Moves(v)
  BY FinalBook, FiltersOf
<1>2. SumOf(Free(v), Increase(v)) <= IncreaseMax
  <2>1. \A l \in Lines : l \in Free(v) => Increase(v)[l] \in Int /\ Increase(v)[l] \in Nat
    BY <1>1, MoveCosts
  <2>2. SumOf(Free(v), Increase(v)) \in Int
    BY <2>1, PartIsInt
  <2>3. Trim(Free(v), Increase(v), IncreaseMax, Worst(v)) = {}
    <3>1. Overruns(v)[3] = Trim(Free(v), Increase(v), IncreaseMax, Worst(v))
      BY DEF Overruns
    <3> QED
      BY <3>1, FinalBook
  <2>4. ~(SumOf(Free(v), Increase(v)) > IncreaseMax) \/ \A l \in Free(v) : ~(Increase(v)[l] > 0)
    BY <1>1, <2>3, TrimIsEmpty
  <2>5. CASE ~(SumOf(Free(v), Increase(v)) > IncreaseMax)
    BY <1>0, <2>2, <2>5
  <2>6. CASE \A l \in Free(v) : ~(Increase(v)[l] > 0)
    <3>1. \A l \in Lines : l \in Free(v) => Increase(v)[l] \in Int /\ Increase(v)[l] <= 0
      BY <2>1, <2>6
    <3>2. SumOf(Free(v), Increase(v)) <= 0
      BY <3>1, PartIsNothing
    <3> QED
      BY <1>0, <2>2, <3>2
  <2> QED
    BY <2>4, <2>5, <2>6
<1>3. SumOf(Adding(v), Turnover(v)) <= TurnoverLeft \/ SumOf(Adding(v), Turnover(v)) = 0
  <2> DEFINE zero == [l \in Lines |-> 0]
  <2>1. \A l \in Lines : l \in Adding(v) => Turnover(v)[l] \in Int /\ Turnover(v)[l] \in Nat
    BY <1>1, MoveCosts DEF Turnover
  <2>2. SumOf(Adding(v), Turnover(v)) \in Int
    BY <2>1, PartIsInt
  <2>3. Trim(Adding(v), Turnover(v), TurnoverLeft, Worst(v)) = {}
    <3>1. Overruns(v)[4] = Trim(Adding(v), Turnover(v), TurnoverLeft, Worst(v))
      BY DEF Overruns
    <3> QED
      BY <3>1, FinalBook
  <2>4. \/ ~(SumOf(Adding(v), Turnover(v)) > TurnoverLeft)
        \/ \A l \in Adding(v) : ~(Turnover(v)[l] > 0)
    BY <1>1, <2>3, TrimIsEmpty
  <2>5. CASE ~(SumOf(Adding(v), Turnover(v)) > TurnoverLeft)
    BY <1>0, <2>2, <2>5
  <2>6. CASE \A l \in Adding(v) : ~(Turnover(v)[l] > 0)
    <3>1. \A l \in Lines : l \in Adding(v) => Turnover(v)[l] \in Int /\ Turnover(v)[l] <= 0
      BY <2>1, <2>6
    <3>2. SumOf(Adding(v), Turnover(v)) <= 0
      BY <3>1, PartIsNothing
    <3>3. 0 <= SumOf(Adding(v), Turnover(v))
      BY <2>1, PartIsNat
    <3> QED
      BY <2>2, <3>2, <3>3
  <2> QED
    BY <2>4, <2>5, <2>6
<1> QED
  BY <1>2, <1>3

(* and the numbers of legs, *)
LEMMA LegsAreMet ==
    ASSUME NEW v, Final(v)
    PROVE  /\ SumOf(Counted(v), LegsOf(v)) <= MaxLegs
           /\ SumOf(Moves(v), LegsOf(v)) <= MaxLegsTotal
<1>0. MaxLegs \in Nat /\ MaxLegsTotal \in Nat
  BY RiskConstants
<1>1. ASSUME NEW S, S \subseteq Moves(v), NEW max \in Nat, Trim(S, LegsOf(v), max, Trimmed(v)) = {}
      PROVE  SumOf(S, LegsOf(v)) <= max
  <2>1. S \subseteq Lines /\ Keyed(S, Trimmed(v), 5)
    BY <1>1, FinalBook
  <2>2. \A l \in Lines : l \in S => LegsOf(v)[l] \in Int
    BY <1>1, MoveCosts
  <2>3. SumOf(S, LegsOf(v)) \in Int
    BY <2>2, PartIsInt
  <2>4. ~(SumOf(S, LegsOf(v)) > max) \/ \A l \in S : ~(LegsOf(v)[l] > 0)
    BY <1>1, <2>1, TrimIsEmpty
  <2>5. CASE ~(SumOf(S, LegsOf(v)) > max)
    BY <2>3, <2>5
  <2>6. CASE \A l \in S : ~(LegsOf(v)[l] > 0)
    <3>1. \A l \in Lines : l \in S => LegsOf(v)[l] \in Int /\ LegsOf(v)[l] <= 0
      BY <2>2, <2>6
    <3>2. SumOf(S, LegsOf(v)) <= 0
      BY <3>1, PartIsNothing
    <3> QED
      BY <2>3, <3>2
  <2> QED
    BY <2>4, <2>5, <2>6
<1>2. Trim(Counted(v), LegsOf(v), MaxLegs, Trimmed(v)) = {}
  <2>1. Overruns(v)[8] = Trim(Counted(v), LegsOf(v), MaxLegs, Trimmed(v))
    BY DEF Overruns
  <2> QED
    BY <2>1, FinalBook
<1>3. Trim(Moves(v), LegsOf(v), MaxLegsTotal, Trimmed(v)) = {}
  <2>1. Overruns(v)[9] = Trim(Moves(v), LegsOf(v), MaxLegsTotal, Trimmed(v))
    BY DEF Overruns
  <2> QED
    BY <2>1, FinalBook
<1> QED
  BY <1>0, <1>1, <1>2, <1>3, FiltersOf

(* and the carry is in its limit or no worse than that of the base, *)
LEMMA CarryIsMet ==
    ASSUME NEW v, Final(v)
    PROVE  NotWorse(Sum(CarryOf(v)), Sum(CarryOf(base)), CarryMax)
<1>0. /\ v \in [Lines -> Int] /\ base \in [Lines -> Int] /\ CarryMax \in Int
      /\ \A l \in Lines : l \notin Moves(v) => v[l] = base[l]
      /\ Moves(v) \subseteq Lines /\ Keyed(Moves(v), Worst(v), 4)
  BY FinalBook, RiskConstants
<1>1. ASSUME NEW x \in [Lines -> Int] PROVE IntOn(CarryOf(x), Lines)
  <2>1. ASSUME NEW l \in Lines PROVE CarryOf(x)[l] \in Int
    <3>1. CASE l \in Managed
      <4>1. Carried[l] \in Int
        BY <3>1, RiskConstants DEF Managed
      <4>2. Size(x[l]) \in Int
        BY DEF Size, High
      <4>3. \A a, b \in Int : a * b \in Int
        OBVIOUS
      <4>4. CarryOf(x)[l] = Carried[l] * Size(x[l])
        BY <3>1 DEF CarryOf
      <4> QED
        BY <4>1, <4>2, <4>3, <4>4
    <3>2. CASE l \notin Managed
      BY <3>2 DEF CarryOf
    <3> QED
      BY <3>1, <3>2
  <2> QED
    BY <2>1 DEF IntOn
<1>2. IntOn(CarryOf(v), Lines) /\ IntOn(CarryOf(base), Lines)
  BY <1>0, <1>1
<1>3. Sum(CarryOf(v)) \in Int /\ Sum(CarryOf(base)) \in Int
  BY <1>2, SumIsInt
<1>4. CarryCap \in Int /\ CarryCap = High(CarryMax, Sum(CarryOf(base)))
  BY <1>0, <1>3 DEF CarryCap, High
<1> DEFINE sum == SumOf(Moves(v), Rise(v))
<1>5. \A l \in Lines : Rise(v)[l] \in Int /\ Rise(v)[l] = High(CarryOf(v)[l] - CarryOf(base)[l], 0)
  BY <1>2 DEF Rise, High, IntOn
<1>6. sum \in Int
  BY <1>5, PartIsInt
<1>7. Trim(Moves(v), Rise(v), sum - (Sum(CarryOf(v)) - CarryCap), Worst(v)) = {}
  <2>1. Overruns(v)[7] = Trim(Moves(v), Rise(v), sum - (Sum(CarryOf(v)) - CarryCap), Worst(v))
    BY DEF Overruns
  <2> QED
    BY <2>1, FinalBook
<1> HIDE DEF sum
<1>8. ~(sum > sum - (Sum(CarryOf(v)) - CarryCap)) \/ \A l \in Moves(v) : ~(Rise(v)[l] > 0)
  BY <1>0, <1>7, TrimIsEmpty DEF sum
<1>9. CASE ~(sum > sum - (Sum(CarryOf(v)) - CarryCap))
  <2>1. Sum(CarryOf(v)) <= CarryCap
    BY <1>3, <1>4, <1>6, <1>9
  <2> QED
    BY <1>4, <2>1, CapIsNotWorse
<1>10. CASE \A l \in Moves(v) : ~(Rise(v)[l] > 0)
  <2>1. ASSUME NEW l \in Lines PROVE CarryOf(v)[l] <= CarryOf(base)[l]
    <3>1. CarryOf(v)[l] \in Int /\ CarryOf(base)[l] \in Int
      BY <1>2 DEF IntOn
    <3>2. CASE l \in Moves(v)
      BY <1>5, <1>10, <3>1, <3>2 DEF High
    <3>3. CASE l \notin Moves(v)
      <4>1. CarryOf(v)[l] = CarryOf(base)[l]
        BY <1>0, <3>3 DEF CarryOf
      <4> QED
        BY <3>1, <4>1
    <3> QED
      BY <3>2, <3>3
  <2>2. Sum(CarryOf(v)) <= Sum(CarryOf(base))
    BY <1>2, <2>1, SumGrows
  <2> QED
    BY <2>2 DEF NotWorse
<1> QED
  BY <1>8, <1>9, <1>10

(* Costs within their budget: or none of the lines adds, and those that reduce are *)
(* within what a reduction may cost.                                              *)
CostsWithin(v, S, limit, varlimit) ==
    \/ SumOf(S, Cost(v)) <= limit
    \/ {l \in S : Increases(base[l], v[l]) /\ Cost(v)[l] > 0} = {} /\ SumOf(S, Variable(v)) <= varlimit

(* and the costs of the cycle and of the month are within what is left of    *)
(* them, or there are none.                                                  *)
LEMMA CostsAreMet ==
    ASSUME NEW v, Final(v), NEW S, S \subseteq Moves(v), NEW limit \in Int, NEW varlimit \in Int,
           TrimCosts(v, S, Cost(v), Variable(v), limit, varlimit, Trimmed(v)) = {}
    PROVE  CostsWithin(v, S, limit, varlimit) \/ SumOf(S, Cost(v)) = 0
<1> DEFINE red == {l \in S : ~Increases(base[l], v[l])}
<1>0. S \subseteq Lines /\ Keyed(S, Trimmed(v), 5)
  BY FinalBook
<1>1. \A l \in S : /\ Cost(v)[l] \in Nat /\ Variable(v)[l] \in Nat /\ Variable(v)[l] <= Cost(v)[l]
                   /\ Cost(v)[l] \in Int /\ Variable(v)[l] \in Int
  BY MoveCosts
<1>2. SumOf(S, Cost(v)) \in Int /\ SumOf(S, Variable(v)) \in Int /\ SumOf(red, Variable(v)) \in Int
  BY <1>1, PartIsInt
<1>3. \/ ~(SumOf(S, Cost(v)) > limit)
      \/ \A l \in S : ~(Cost(v)[l] > 0)
      \/ /\ ~(SumOf(red, Variable(v)) > varlimit)
         /\ \E l \in S : /\ ~Increases(base[l], v[l])
                         /\ \A m \in S : Cost(v)[m] > 0 => ~Precedes(Trimmed(v)[m], Trimmed(v)[l])
  <2> HIDE DEF Cost, Variable
  <2> QED
    BY <1>0, TrimCostsIsEmpty
<1>4. CASE ~(SumOf(S, Cost(v)) > limit)
  BY <1>2, <1>4 DEF CostsWithin
<1>5. CASE \A l \in S : ~(Cost(v)[l] > 0)
  <2>1. \A l \in Lines : l \in S => Cost(v)[l] \in Int /\ Cost(v)[l] <= 0 /\ 0 <= Cost(v)[l]
    BY <1>1, <1>5
  <2>2. SumOf(S, Cost(v)) <= 0
    BY <2>1, PartIsNothing
  <2>3. 0 <= SumOf(S, Cost(v))
    BY <2>1, PartIsNat
  <2> QED
    BY <1>2, <2>2, <2>3
<1>6. ASSUME ~(SumOf(red, Variable(v)) > varlimit), NEW l \in S, ~Increases(base[l], v[l]),
             \A m \in S : Cost(v)[m] > 0 => ~Precedes(Trimmed(v)[m], Trimmed(v)[l])
      PROVE  CostsWithin(v, S, limit, varlimit)
  <2>1. ASSUME NEW m \in S PROVE Trimmed(v)[m][1] = Bit(~Increases(base[m], v[m])) /\ DOMAIN Trimmed(v)[m] = 1 .. 5
    <3>1. Trimmed(v)[m] = <<Bit(~Increases(base[m], v[m]))>> \o WorstFirst(v, m)
      BY DEF Trimmed, TrimKey
    <3>2. WorstFirst(v, m) \in Seq(Int)
      BY KeysAreInt DEF Final
    <3>3. Bit(~Increases(base[m], v[m])) \in Int
      BY DEF Bit
    <3> QED
      BY <1>0, <3>1, <3>2, <3>3, KeyBefore DEF Keyed
  <2>2. ASSUME NEW m \in S, Increases(base[m], v[m]) PROVE ~(Cost(v)[m] > 0)
    <3>1. Trimmed(v)[m][1] = 0 /\ Trimmed(v)[l][1] = 1 /\ 1 \in DOMAIN Trimmed(v)[m]
      BY <1>6, <2>1, <2>2 DEF Bit
    <3>2. Precedes(Trimmed(v)[m], Trimmed(v)[l])
      BY <3>1 DEF Precedes
    <3> QED
      BY <1>6, <3>2
  <2>3. {m \in S : Increases(base[m], v[m]) /\ Cost(v)[m] > 0} = {}
    BY <2>2
  <2>4. SumOf(S, Variable(v)) <= SumOf(red, Variable(v))
    <3>1. \A m \in Lines : (IF m \in S THEN Variable(v)[m] ELSE 0) <= (IF m \in red THEN Variable(v)[m] ELSE 0)
      <4> SUFFICES ASSUME NEW m \in S, m \notin red PROVE Variable(v)[m] <= 0
        BY <1>1
      <4>1. ~(Cost(v)[m] > 0)
        BY <2>2
      <4> QED
        BY <1>1, <4>1
    <3>2. /\ \A m \in Lines : m \in S => Variable(v)[m] \in Int
          /\ \A m \in Lines : m \in red => Variable(v)[m] \in Int
      BY <1>1
    <3> HIDE DEF red
    <3> QED
      BY <3>1, <3>2, PartGrows
  <2>5. SumOf(S, Variable(v)) <= varlimit
    BY <1>2, <1>6, <2>4
  <2> QED
    BY <2>3, <2>5 DEF CostsWithin
<1> QED
  BY <1>3, <1>4, <1>5, <1>6

(* The rules of the moves.                                                         *)
LEMMA MovesPass ==
    ASSUME NEW v, Final(v)
    PROVE  \A r \in DOMAIN MoveChecks(v) : MoveChecks(v)[r]
<1>0. Moves(v) = Changed(v)
  BY FinalBook
<1>1. MoveChecks(v)["R12"]
  <2>1. \A l \in Changed(v) : MayMove(v, l)
    BY <1>0, FinalBook DEF LineFilters
  <2>2. MoveChecks(v)["R12"] <=> \A l \in Changed(v) : MayMove(v, l)
    BY DEF MoveChecks
  <2> QED
    BY <2>1, <2>2
<1>2. MoveChecks(v)["R13"]
  <2>1. MoveChecks(v)["R13"] <=>
          /\ SumOf(Free(v), Increase(v)) <= IncreaseMax
          /\ SumOf(Adding(v), Turnover(v)) <= TurnoverLeft \/ SumOf(Adding(v), Turnover(v)) = 0
    BY <1>0, Zenon DEF MoveChecks, Free, Adding, Turnover
  <2> QED
    BY <2>1, IncreasesAreMet
<1>3. MoveChecks(v)["R14"]
  <2>0. CycleCost \in Int /\ CycleCost \in Nat /\ MonthLeft \in Int /\ MonthVarLeft \in Int
    BY RiskConstants
  <2>1. MoveChecks(v)["R14"] <=>
          /\ CostsWithin(v, CycleCosts(v, Changed(v)), CycleCost, CycleCost)
          /\ CostsWithin(v, Free(v), MonthLeft, MonthVarLeft) \/ SumOf(Free(v), Cost(v)) = 0
          /\ NotWorse(Sum(CarryOf(v)), Sum(CarryOf(base)), CarryMax)
    BY <1>0, Zenon DEF MoveChecks, Free, CostsWithin
  <2>2. CostsWithin(v, CycleCosts(v, Changed(v)), CycleCost, CycleCost)
    <3> DEFINE S == CycleCosts(v, Moves(v))
    <3>1. S \subseteq Moves(v)
      BY FiltersOf
    <3>2. TrimCosts(v, S, Cost(v), Variable(v), CycleCost, CycleCost, Trimmed(v)) = {}
      <4>1. Overruns(v)[5] = TrimCosts(v, S, Cost(v), Variable(v), CycleCost, CycleCost, Trimmed(v))
        BY DEF Overruns
      <4> QED
        BY <4>1, FinalBook
    <3> HIDE DEF S
    <3>3. CostsWithin(v, S, CycleCost, CycleCost) \/ SumOf(S, Cost(v)) = 0
      BY <2>0, <3>1, <3>2, CostsAreMet
    <3>4. CostsWithin(v, S, CycleCost, CycleCost)
      BY <2>0, <3>3 DEF CostsWithin
    <3> QED
      BY <1>0, <3>4 DEF S
  <2>3. CostsWithin(v, Free(v), MonthLeft, MonthVarLeft) \/ SumOf(Free(v), Cost(v)) = 0
    <3>1. TrimCosts(v, Free(v), Cost(v), Variable(v), MonthLeft, MonthVarLeft, Trimmed(v)) = {}
      <4>1. Overruns(v)[6] = TrimCosts(v, Free(v), Cost(v), Variable(v), MonthLeft, MonthVarLeft, Trimmed(v))
        BY DEF Overruns
      <4> QED
        BY <4>1, FinalBook
    <3> QED
      BY <2>0, <3>1, CostsAreMet, FiltersOf
  <2> QED
    BY <2>1, <2>2, <2>3, CarryIsMet
<1>4. MoveChecks(v)["R21"]
  <2>1. MoveChecks(v)["R21"] <=> /\ SumOf(Counted(v), LegsOf(v)) <= MaxLegs
                                 /\ SumOf(Moves(v), LegsOf(v)) <= MaxLegsTotal
    BY <1>0, Zenon DEF MoveChecks, Counted
  <2> QED
    BY <2>1, LegsAreMet
<1>5. DOMAIN MoveChecks(v) = {"R12", "R13", "R14", "R21"}
  BY DEF MoveChecks
<1> QED
  BY <1>1, <1>2, <1>3, <1>4, <1>5

-----------------------------------------------------------------------------
(* The rounds.  A round holds only lines that moved, so it is a new line each time  *)
(* and the bound of the loop is never what ends it.                               *)
LEMMA HeldAreMoves ==
    ASSUME NEW v
    PROVE  NewlyHeld(v) \subseteq Moves(v)
<1>1. LineFilters(v) \subseteq Moves(v)
  BY DEF LineFilters
<1>2. BudgetFilters(v) = LET over == {k \in DOMAIN Overruns(v) : Overruns(v)[k] # {}}
                         IN IF over = {} THEN {} ELSE Overruns(v)[Min(over)]
  BY Zenon DEF BudgetFilters, Overruns, Worst, Trimmed, Down, Up, Rise, Free, Adding, Turnover, Counted
<1> DEFINE over == {k \in DOMAIN Overruns(v) : Overruns(v)[k] # {}}
<1>3. DOMAIN Overruns(v) = 1 .. 9
  BY DEF Overruns
<1>4. /\ Free(v) \subseteq Moves(v) /\ Adding(v) \subseteq Moves(v) /\ Counted(v) \subseteq Moves(v)
      /\ CycleCosts(v, Moves(v)) \subseteq Moves(v)
  BY DEF Free, Discretionary, Adding, Counted, CycleCosts
<1>5. \A S, part, limit, key : Trim(S, part, limit, key) \subseteq S
  BY DEF Trim
<1>6. \A S, cost, variable, limit, varlimit, key : TrimCosts(v, S, cost, variable, limit, varlimit, key) \subseteq S
  BY DEF TrimCosts
<1>7. \A k \in 1 .. 9 : Overruns(v)[k] \subseteq Moves(v)
  <2> HIDE DEF Moves, Free, Adding, Counted, CycleCosts
  <2> QED
    BY <1>4, <1>5, <1>6 DEF Overruns
<1>8. over # {} => Min(over) \in over
  <2> SUFFICES ASSUME over # {} PROVE Min(over) \in over
    OBVIOUS
  <2>1. over \subseteq Nat
    BY <1>3
  <2> HIDE DEF over
  <2>2. PICK n \in over : \A m \in over : n <= m
    BY <2>1, LeastNumber
  <2> QED
    BY <2>2 DEF Min
<1>9. BudgetFilters(v) \subseteq Moves(v)
  BY <1>2, <1>3, <1>7, <1>8
<1> QED
  BY <1>1, <1>9 DEF NewlyHeld

(* A round of the engine that holds nobody new ends in such a book, *)
LEMMA RoundIsFinal ==
    ASSUME Prologue, facts.kill # "HALTED", live = Swing \ Entering, held \subseteq Managed,
           \A l \in Swing \ Entering : facts.swing[l].pin = base[l],
           NEW v, v = Projected, NewlyHeld(v) = {}
    PROVE  Final(v)
<1>0. live \subseteq Swing
  OBVIOUS
<1>1. Ended(v)
  <2>1. Sound /\ Inside(FromBand)
    BY <1>0, IntervalsSound
  <2> QED
    BY <2>1, ProjectedShrinks DEF Ended
<1>2. EntryFree(v)
  BY RoundWithoutEntries
<1>3. v \in [Lines -> Int] /\ base \in [Lines -> Int] /\ \A l \in Managed : l \in Fixed => v[l] = base[l]
  BY <1>1, EndsAtPin
<1>4. Moves(v) = Changed(v)
  BY <1>3 DEF Moves, Changed, Fixed
<1>5. ASSUME NEW l \in Lines, l \notin Managed PROVE v[l] = base[l]
  <2>1. CASE l \in Locked
    BY <1>2, <2>1 DEF EntryFree, Decided
  <2>2. CASE l \in Swing /\ l \notin Entering
    BY <1>2, <2>2 DEF EntryFree, Decided
  <2>3. CASE l \in Entering
    <3>1. l \in Swing /\ facts.swing[l].enters /\ l \notin Locked
      BY <2>3, RiskConstants DEF Entering
    <3>2. facts.swing[l].now = 0
      BY <3>1, RiskCases DEF Prologue
    <3>3. base[l] = facts.swing[l].now
      BY <1>5, <3>1, BaseIsBelow DEF Prologue, Now
    <3>4. v[l] = 0
      BY <1>2, <2>3 DEF EntryFree
    <3> QED
      BY <3>2, <3>3, <3>4
  <2> QED
    BY <1>5, <2>1, <2>2, <2>3 DEF Managed
<1> QED
  BY <1>3, <1>4, <1>5 DEF Final, Prologue

(* and on it every rule that is recomputed passes. *)
LEMMA RoundPasses ==
    ASSUME Prologue, facts.kill # "HALTED", live = Swing \ Entering, held \subseteq Managed,
           \A l \in Swing \ Entering : facts.swing[l].pin = base[l],
           GroupGross(Now, Lines \ Managed) <= HardMax,
           NEW v, v = Projected, NewlyHeld(v) = {}
    PROVE  Failed(v) \subseteq (IF Hedged THEN {"R8"} ELSE {})
<1>1. Final(v)
  BY RoundIsFinal
<1>2. NetFloor <= Net(v) /\ Net(v) <= NetCeiling
  BY <1>1, NetIsMet
<1>3. \A r \in DOMAIN BookChecks(v) : BookChecks(v)[r] \/ (r = "R8" /\ Hedged)
  BY <1>2, BookPasses
<1>4. \A r \in DOMAIN MoveChecks(v) : MoveChecks(v)[r]
  BY <1>1, MovesPass
<1> QED
  BY <1>3, <1>4 DEF Failed

(* What is prepared once stays for the rounds. *)
LEMMA SettingStays ==
    ASSUME UNCHANGED prepared
    PROVE  /\ Now' = Now /\ Entering' = Entering /\ facts' = facts /\ base' = base
           /\ GroupGross(Now, Lines \ Managed)' = GroupGross(Now, Lines \ Managed)
           /\ live' = live /\ held' = held => (Hedged' <=> Hedged)
<1>0. facts' = facts /\ base' = base /\ box' = box /\ target' = target
  BY DEF prepared
<1>1. Now' = Now /\ Entering' = Entering /\ Is("no_band")' = Is("no_band") /\ Is("hold")' = Is("hold")
  BY <1>0 DEF Now, Entering, Is
<1>2. GroupGross(Now, Lines \ Managed)' = GroupGross(Now, Lines \ Managed)
  BY <1>1 DEF GroupGross
<1>3. ASSUME live' = live, held' = held PROVE Hedged' <=> Hedged
  <2>1. Fixed' = Fixed
    BY <1>1, <1>3 DEF Fixed, Pinned
  <2>2. \A l : Pin(l)' = Pin(l)
    BY <1>0, <1>3 DEF Pin
  <2>3. FromBand' = FromBand
    BY <1>0, <2>1, <2>2 DEF FromBand
  <2> QED
    BY <1>0, <2>3 DEF Hedged
<1> QED
  BY <1>0, <1>1, <1>2, <1>3

Rounds ==
    /\ stage = "facts" => held = {} /\ round = 0
    /\ stage = "rounds" /\ core = <<>> => held \subseteq Managed /\ round \in Nat /\ round <= Cardinality(held)
    /\ EveryCheckPasses

(* There are at most N lines to hold. *)
LEMMA HeldIsFinite == \A S : S \subseteq Managed => IsFiniteSet(S) /\ Cardinality(S) \in Nat /\ Cardinality(S) <= N
<1> SUFFICES ASSUME NEW S, S \subseteq Managed PROVE IsFiniteSet(S) /\ Cardinality(S) \in Nat /\ Cardinality(S) <= N
  OBVIOUS
<1>1. IsFiniteSet(1 .. N) /\ Cardinality(1 .. N) = N
  <2>1. N \in Nat /\ 1 <= N
    BY RiskConstants
  <2>2. N - 1 + 1 = N
    BY <2>1
  <2> QED
    BY <2>1, <2>2, FS_Interval
<1>2. S \subseteq 1 .. N
  BY SomeLine DEF Managed
<1>3. IsFiniteSet(S) /\ Cardinality(S) <= Cardinality(1 .. N)
  BY <1>1, <1>2, FS_Subset
<1> QED
  BY <1>1, <1>3, FS_CardinalityType

(* Each round but the last holds a new line, so the bound on rounds is never *)
(* what ends them.                                                           *)
LEMMA RoundGoesOn ==
    ASSUME RiskInv, Rounds, Round
    PROVE  Rounds'
<1>0. /\ stage = "rounds" /\ Evaluating
      /\ w' = Projected /\ round' = round + 1 /\ held' = held \cup NewlyHeld(w')
      /\ stage' = IF NewlyHeld(w') = {} \/ round' = N + 2 THEN "decided" ELSE "rounds"
      /\ UNCHANGED prepared /\ live' = live /\ core' = core
  BY DEF RiskInv, Round
<1> DEFINE v == Projected
           new == NewlyHeld(v)
<1>1. stage' \in {"decided", "rounds"} /\ new \subseteq Moves(v)
  BY <1>0, HeldAreMoves
<1>2. SUFFICES ASSUME core = <<>> PROVE Rounds'
  BY <1>0, <1>1 DEF Rounds, EveryCheckPasses
<1>3. held \subseteq Managed /\ round \in Nat /\ round <= Cardinality(held)
  BY <1>0, <1>2 DEF Rounds
<1>4. held \cup new \subseteq Managed /\ held \cap new = {}
  BY <1>1, <1>3 DEF Moves, Changed
<1> HIDE DEF v
<1>5. IsFiniteSet(held) /\ IsFiniteSet(new) /\ IsFiniteSet(held \cup new)
  <2>1. new \subseteq Managed
    BY <1>4
  <2> HIDE DEF new
  <2> QED
    BY <1>3, <1>4, <2>1, HeldIsFinite
<1> HIDE DEF new
<1>6. new # {} => round + 1 <= Cardinality(held \cup new)
  <2>1. Cardinality(held \cup new) = Cardinality(held) + Cardinality(new)
    <3>1. Cardinality(held \cup new) = Cardinality(held) + Cardinality(new) - Cardinality(held \cap new)
      BY <1>5, FS_Union
    <3>2. Cardinality(held \cap new) = 0
      BY <1>4, FS_EmptySet
    <3>3. Cardinality(new) \in Nat /\ Cardinality(held) \in Nat
      BY <1>5, FS_CardinalityType
    <3> QED
      BY <3>1, <3>2, <3>3
  <2>2. new # {} => Cardinality(new) # 0
    BY <1>5, FS_EmptySet
  <2>3. Cardinality(new) \in Nat /\ Cardinality(held) \in Nat
    BY <1>5, FS_CardinalityType
  <2> QED
    BY <1>3, <2>1, <2>2, <2>3
<1>7. round + 1 # N + 2
  <2>1. Cardinality(held) \in Nat /\ Cardinality(held) <= N /\ N \in Nat
    BY <1>3, HeldIsFinite, RiskConstants
  <2> QED
    BY <1>3, <2>1
<1>8. CASE new # {}
  <2>1. held' = held \cup new /\ stage' = "rounds"
    BY <1>0, <1>7, <1>8 DEF new, v
  <2>2. round' \in Nat /\ round' <= Cardinality(held')
    BY SMTT(30), <1>0, <1>3, <1>6, <1>8, <2>1
  <2>3. held' \subseteq Managed
    BY <1>4, <2>1
  <2>4. EveryCheckPasses'
    BY <2>1 DEF EveryCheckPasses
  <2> QED
    BY <2>1, <2>2, <2>3, <2>4 DEF Rounds
<1>9. CASE new = {}
  <2>1. held' = held /\ stage' = "decided"
    BY <1>0, <1>9 DEF new, v
  <2>2. /\ Entering' = Entering /\ facts' = facts /\ base' = base
        /\ GroupGross(Now, Lines \ Managed)' = GroupGross(Now, Lines \ Managed)
        /\ Hedged' <=> Hedged
    BY <1>0, <2>1, SettingStays
  <2>3. Failed(w)' = Failed(v)
    BY <1>0, <2>2, ChecksStay DEF v
  <2>4. ASSUME \A l \in Swing \ Entering : facts.swing[l].pin = base[l],
               GroupGross(Now, Lines \ Managed) <= HardMax
        PROVE  Failed(v) \subseteq (IF Hedged THEN {"R8"} ELSE {})
    <3>1. Prologue /\ facts.kill # "HALTED" /\ live = Swing \ Entering
      BY <1>0, <1>2 DEF Evaluating
    <3>2. v = Projected /\ NewlyHeld(v) = {}
      BY <1>9 DEF v, new
    <3> QED
      BY <1>3, <2>4, <3>1, <3>2, RoundPasses
  <2>5. EveryCheckPasses'
    BY <2>2, <2>3, <2>4 DEF EveryCheckPasses
  <2> QED
    BY <2>1, <2>5 DEF Rounds
<1> QED
  BY <1>8, <1>9

(* The rules pass (EveryCheckPasses), for any lines, limits, costs and inputs.  The  *)
(* rounds end because each holds another line; the last one held nobody, so every   *)
(* filter and budget is met or unused, and each limit of the projection is met, or   *)
(* is what the base already was, when the steps after it only shrink lines.          *)
THEOREM ChecksPass == RiskSpec => []EveryCheckPasses
<1>1. RiskInit => Rounds
  BY DEF RiskInit, Rounds, EveryCheckPasses
<1>2. RiskInv /\ Rounds /\ [RiskNext]_riskVars => Rounds'
  <2> SUFFICES ASSUME RiskInv, Rounds, [RiskNext]_riskVars PROVE Rounds'
    OBVIOUS
  <2>1. CASE Prepare
    <3>1. /\ stage = "facts" /\ stage' = "rounds" /\ held' = held /\ round' = round
      BY <2>1 DEF Prepare
    <3>2. held' = {} /\ round' = 0
      BY <3>1 DEF Rounds
    <3>3. Cardinality({}) = 0
      BY FS_EmptySet
    <3>4. held' \subseteq Managed /\ round' \in Nat /\ round' <= Cardinality(held')
      BY <3>2, <3>3
    <3> QED
      BY <3>1, <3>4 DEF Rounds, EveryCheckPasses
  <2>2. CASE Flatten
    BY <2>2 DEF Flatten, Rounds, EveryCheckPasses
  <2>3. CASE Round
    BY <2>3, RoundGoesOn
  <2>4. CASE WithEntries
    <3>1. core' = w /\ stage' \in {"done", "rounds"}
      BY <2>4 DEF WithEntries, Again
    <3>2. w \in [Lines -> Int]
      BY <2>4 DEF WithEntries, RiskInv, Decided
    <3>3. core' # <<>>
      BY <3>1, <3>2, EmptyIsNoBook
    <3> QED
      BY <3>1, <3>3 DEF Rounds, EveryCheckPasses
  <2>5. CASE Accept
    BY <2>5 DEF Accept, Rounds, EveryCheckPasses
  <2>6. CASE DropLast
    <3>1. core' = core /\ core # <<>> /\ stage' \in {"done", "rounds"}
      BY <2>6 DEF DropLast, Again
    <3> QED
      BY <3>1 DEF Rounds, EveryCheckPasses
  <2>7. CASE UNCHANGED riskVars
    <3>1. /\ UNCHANGED prepared /\ live' = live /\ held' = held /\ w' = w /\ round' = round
          /\ core' = core /\ stage' = stage
      BY <2>7 DEF riskVars, prepared
    <3>2. /\ Entering' = Entering /\ facts' = facts /\ base' = base
          /\ GroupGross(Now, Lines \ Managed)' = GroupGross(Now, Lines \ Managed)
          /\ Hedged' <=> Hedged
      BY <3>1, SettingStays
    <3>3. Failed(w)' = Failed(w)
      BY <3>1, <3>2, ChecksStay
    <3>4. EveryCheckPasses' <=> EveryCheckPasses
      BY <3>1, <3>2, <3>3 DEF EveryCheckPasses
    <3> QED
      BY <3>1, <3>4 DEF Rounds
  <2> QED
    BY <2>1, <2>2, <2>3, <2>4, <2>5, <2>6, <2>7 DEF RiskNext
<1>3. Rounds => EveryCheckPasses
  BY DEF Rounds
<1> QED
  BY <1>1, <1>2, <1>3, RiskInductive, PTL DEF RiskSpec
================================================================================
