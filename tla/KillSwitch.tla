------------------------------ MODULE KillSwitch ------------------------------
(***************************************************************************)
(* The soft kill switch (risk/killswitch.py, risk/nav.py) and the three    *)
(* programs that share it through the runtime table of the ledger: the     *)
(* cycle (cycle.py) and the watch (watch.py), which hold one instance lock *)
(* (runtime.instance_lock), and the operator terminal                      *)
(* (operator/approve.py), which does not.  A broker read, the record of    *)
(* the read, the verdict, the decision and its publication are separate    *)
(* steps: the operator may act, the market may move and a program may      *)
(* break off between any two of them.                                      *)
(*                                                                         *)
(* Time is kept as ages: a Tick is one confirm_gap_s and makes every read  *)
(* and every proposal one older.  Equity is in percent of the first read;  *)
(* adjusted values are in hundredths of it.  The smoke day (smoke_active,  *)
(* the baseline reset) is outside this module.                             *)
(***************************************************************************)
EXTENDS Integers, Sequences, FiniteSets, SequencesExt, LedgerStates

CONSTANTS Equities,      \* the equities a broker read may return
          Drags,         \* Ledger.real_fee_drag, in percent
          WarnAt, HaltAt,\* lines of the lifetime peak, in percent
          ConfirmReads,  \* killswitch.confirm_reads
          Gap,           \* killswitch.confirm_gap_s, in ticks
          Window,        \* reads older than this are forgotten (6 h)
          Keep,          \* reads kept beside the new one (20)
          Delay,         \* bound on the ticks between a run's start and its record
          Life           \* a proposal's valid_until, in ticks from its creation

ASSUME LinesAssumption == HaltAt < WarnAt /\ WarnAt < 100
ASSUME BoundsAssumption == {ConfirmReads, Gap, Window, Keep, Delay, Life} \subseteq Nat \ {0}

VARIABLES positions,           \* whether the account holds any position
          drag,                \* the real account's cumulative fee drag
          navPeak, realPeak,   \* runtime rows nav_state.peak and REAL_PEAK_KEY (0: not stored)
          reads,               \* runtime row equity_reads: a sequence of [age, eq]
          kill,                \* runtime row kill_state
          lock,                \* who holds council.lock
          run,                 \* the locals of the cycle and of the watch
          offer,               \* the pending decision, at most one (DecisionLedger)
          operator             \* the operator terminal

account == <<positions, drag>>
peaks == <<navPeak, realPeak, reads>>
vars == <<account, peaks, kill, lock, run, offer, operator>>

LATCHED == {"HALTED", "FLAT"}
KillStates == {"NORMAL", "WARN"} \cup LATCHED
Runners == {"cycle", "watch"}

Least(S) == CHOOSE x \in S : \A y \in S : x <= y
Largest(S) == CHOOSE x \in S : \A y \in S : y <= x

-----------------------------------------------------------------------------
(* risk/killswitch.py *)

Adjusted(eq) == eq * (100 - drag)

(* A mark of equity against the two lifetime peaks: at or below the line when   *)
(* the worse of the two ratios is.                                            *)
AtOrBelow(eq, line, pk, rpk) ==
    \/ 100 * eq <= line * pk
    \/ 100 * Adjusted(eq) <= line * rpk

Peak(raw, stored) == Largest({stored} \cup {raw[i].eq : i \in DOMAIN raw})

RealPeak(raw, stored, pk) ==
    Largest({IF stored > 0 /\ stored < 100 * pk THEN stored ELSE 100 * pk}
            \cup {Adjusted(raw[i].eq) : i \in DOMAIN raw})

(* Mutant: a read above the line does not reset the confirmation.               *)
ConfirmedThrough(raw, line, pk, rpk) ==
    LET walk(read, acc) ==
            IF /\ AtOrBelow(read.eq, line, pk, rpk)
               /\ acc.count = 0 \/ read.age - acc.last >= Gap
            THEN [acc EXCEPT !.count = @ + 1, !.last = read.age]
            ELSE acc
    IN  FoldRight(walk, raw, [count |-> 0, last |-> 0, broken |-> FALSE]).count

(* confirmed_breach_reads: from the latest read back through the trailing run   *)
(* of breaching reads, keeping one a gap older than the last kept.            *)
Confirmed(raw, line, pk, rpk) ==
    LET walk(read, acc) ==
            IF acc.broken THEN acc
            ELSE IF ~AtOrBelow(read.eq, line, pk, rpk) THEN [acc EXCEPT !.broken = TRUE]
            ELSE IF acc.count = 0 \/ read.age - acc.last >= Gap
            THEN [acc EXCEPT !.count = @ + 1, !.last = read.age]
            ELSE acc
    IN  FoldRight(walk, raw, [count |-> 0, last |-> 0, broken |-> FALSE]).count

(* Mutant: an account found flat is not latched.                               *)
EvaluateFlatFree(raw, pk, rpk, prev, held) ==
    IF prev = "HALTED" \/ Confirmed(raw, HaltAt, pk, rpk) >= ConfirmReads
    THEN IF held THEN "HALTED" ELSE "FLAT"
    ELSE IF AtOrBelow(raw[Len(raw)].eq, WarnAt, pk, rpk) THEN "WARN"
    ELSE "NORMAL"

(* evaluate, with the peaks it has updated.                                    *)
Evaluate(raw, pk, rpk, prev, held) ==
    IF prev \in LATCHED \/ Confirmed(raw, HaltAt, pk, rpk) >= ConfirmReads
    THEN IF held THEN "HALTED" ELSE "FLAT"
    ELSE IF AtOrBelow(raw[Len(raw)].eq, WarnAt, pk, rpk) THEN "WARN"
    ELSE "NORMAL"

-----------------------------------------------------------------------------
NoOffer == [state |-> "none", kind |-> "rebalance", up |-> FALSE,
            published |-> FALSE, left |-> 0, asked |-> FALSE]

IdleRun == [at |-> "idle", age |-> 0, held |-> FALSE, was |-> "NORMAL",
            prev |-> "NORMAL", verdict |-> "NORMAL"]

Away == [at |-> "idle", kind |-> "rebalance", up |-> FALSE]

Init ==
    /\ positions \in BOOLEAN /\ drag = Least(Drags)
    /\ navPeak = 0 /\ realPeak = 0 /\ reads = << >>
    /\ kill = "NORMAL"
    /\ lock = "none" /\ run = [p \in Runners |-> IdleRun]
    /\ offer = NoOffer
    /\ operator = Away

At(p, step) == run[p].at = step

(* Mutant: the watch starts while the cycle runs.                              *)
LockFreeForWatch(p) == p = "watch" \/ lock = "none"

LockFree(p) == lock = "none"

(* expire_stale, the first write of every program's run.                       *)
Unexpired(o) == IF o.left = 0 THEN NoOffer ELSE o

Release(p) ==
    /\ lock' = IF lock = p THEN "none" ELSE lock
    /\ run' = [run EXCEPT ![p] = IdleRun]

(* run_cycle / run_watch: an overlapping run is skipped.                       *)
Start(p) ==
    /\ At(p, "idle") /\ LockFree(p)
    /\ lock' = p
    /\ offer' = Unexpired(offer)
    /\ run' = [run EXCEPT ![p] = [IdleRun EXCEPT !.at = "read"]]
    /\ UNCHANGED <<account, peaks, kill, operator>>

(* A broker error, an exception in a later check, or the death of the process:  *)
(* the lock is released and what was written stays.                            *)
BreakOff(p) ==
    /\ ~At(p, "idle")
    /\ Release(p)
    /\ UNCHANGED <<account, peaks, kill, offer, operator>>

(* _snapshot_and_kill up to the pnl read; _broker_checks has read kill_state    *)
(* before it.                                                                 *)
ReadBroker(p) ==
    /\ At(p, "read")
    /\ run' = [run EXCEPT ![p] = [@ EXCEPT !.at = "record", !.held = positions,
                                !.was = IF p = "watch" THEN kill ELSE run[p].was]]
    /\ UNCHANGED <<account, peaks, kill, lock, offer, operator>>

Recent(p) ==
    FoldLeft(LAMBDA kept, r : IF r.age - run[p].age <= Window THEN Append(kept, r) ELSE kept,
             << >>, reads)

(* ... the equity it returned enters the NAV and the equity reads, under the    *)
(* time the run started, and kill_state is read.                              *)
RecordRead(p) ==
    /\ At(p, "record")
    /\ \E eq \in Equities :
          /\ navPeak' = Largest({navPeak, eq})
          /\ LET kept == SubSeq(Recent(p), Largest({1, Len(Recent(p)) - Keep + 1}), Len(Recent(p)))
             IN  reads' = Append(kept, [age |-> run[p].age, eq |-> eq])
    /\ run' = [run EXCEPT ![p] = [@ EXCEPT !.at = "judge", !.age = 0, !.prev = kill]]
    /\ UNCHANGED <<account, realPeak, kill, lock, offer, operator>>

PeakNow == Peak(reads, navPeak)
RealPeakNow == RealPeak(reads, realPeak, PeakNow)

(* ... and the verdict is stored.                                              *)
Judge(p) ==
    /\ At(p, "judge")
    /\ LET verdict == Evaluate(reads, PeakNow, RealPeakNow, run[p].prev, run[p].held)
       IN  /\ kill' = verdict
           /\ run' = [run EXCEPT ![p] = [@ EXCEPT !.at = "decide", !.prev = "NORMAL",
                                                 !.verdict = verdict]]
    /\ realPeak' = RealPeakNow
    /\ UNCHANGED <<account, navPeak, reads, lock, offer, operator>>

(* create_decision: refused below the priority of what is pending.             *)
Admits(k) == offer.state = "none" \/ Priority[offer.kind] <= Priority[k]

Offer(k, s, up) ==
    [state |-> s, kind |-> k, up |-> up, published |-> FALSE, left |-> Life, asked |-> FALSE]

(* _broker_checks: only a fresh halt proposes the flatten, only over positions  *)
(* whose close the broker does not hold already (_plan: no legs otherwise).    *)
WatchProposes ==
    /\ At("watch", "decide")
    /\ \/ /\ run["watch"].verdict \in LATCHED /\ run["watch"].was \notin LATCHED
          /\ run["watch"].held
          /\ offer' \in {Offer("flatten", "proposed", FALSE), offer}
       \/ /\ run["watch"].verdict \in LATCHED => run["watch"].was \in LATCHED \/ ~run["watch"].held
          /\ UNCHANGED offer
    /\ Release("watch")
    /\ UNCHANGED <<account, peaks, kill, operator>>

(* What the cycle may decide under its verdict, as <<kind, risk-increasing>>:   *)
(* latched, the flatten; NORMAL, anything; WARN, nothing that adds risk.       *)
CycleKinds(verdict, held) ==
    IF verdict \in LATCHED THEN IF held THEN {<<"flatten", FALSE>>} ELSE {}
    ELSE {<<"compliance", FALSE>>, <<"rebalance", FALSE>>}
         \cup IF verdict = "NORMAL" THEN {<<"rebalance", TRUE>>} ELSE {}

(* The cycle seals its decision ...                                           *)
CycleDecides ==
    /\ At("cycle", "decide")
    /\ \E d \in CycleKinds(run["cycle"].verdict, run["cycle"].held) :
          /\ Admits(d[1])
          /\ offer' = Offer(d[1], "awaiting_publication", d[2])
    /\ run' = [run EXCEPT !["cycle"].at = "publish"]
    /\ UNCHANGED <<account, peaks, kill, lock, operator>>

(* ... or reviews without action: no leg is left to propose.                   *)
CycleReviews ==
    /\ At("cycle", "decide")
    /\ Release("cycle")
    /\ UNCHANGED <<account, peaks, kill, offer, operator>>

(* ... and opens it for approval once published; a decision that only reduces   *)
(* risk does not wait for publication.                                         *)
CyclePublishes ==
    /\ At("cycle", "publish")
    /\ offer.state = "awaiting_publication"
    /\ \E published \in BOOLEAN :
          offer' = IF published \/ ~offer.up
                   THEN [offer EXCEPT !.state = "proposed", !.published = published]
                   ELSE offer
    /\ Release("cycle")
    /\ UNCHANGED <<account, peaks, kill, operator>>

-----------------------------------------------------------------------------
(* operator/approve.py *)

MayBeApproved(o) ==
    /\ o.state = "proposed" /\ o.left > 0
    /\ kill \in LATCHED => o.kind \in {"flatten", "compliance"}
    /\ o.up => o.published

(* approve up to the screen ...                                               *)
ApproveShows ==
    /\ operator.at = "idle" /\ MayBeApproved(offer)
    /\ offer' = [offer EXCEPT !.asked = TRUE]
    /\ operator' = [at |-> "nonce", kind |-> offer.kind, up |-> offer.up]
    /\ UNCHANGED <<account, peaks, kill, lock, run>>

(* ... then the typed nonce: the decision must still be proposed and in time.   *)
ApproveConfirmed ==
    /\ operator.at = "nonce"
    /\ offer.state = "proposed" /\ offer.asked /\ offer.left > 0
    /\ offer' = NoOffer
    /\ operator' = [operator EXCEPT !.at = "executing"]
    /\ UNCHANGED <<account, peaks, kill, lock, run>>

(* The executor ran: a flatten leaves positions only where a close failed.      *)
Executed ==
    /\ operator.at = "executing"
    /\ positions' \in IF operator.up THEN {TRUE} ELSE {FALSE, positions}
    /\ drag' \in {d \in Drags : d >= drag}
    /\ operator' = Away
    /\ UNCHANGED <<peaks, kill, lock, run, offer>>

(* A refusal, a wrong nonce, or the terminal is closed.                        *)
OperatorLeaves ==
    /\ operator.at # "idle"
    /\ operator' = Away
    /\ offer' = [offer EXCEPT !.asked = FALSE]
    /\ UNCHANGED <<account, peaks, kill, lock, run>>

Rejects ==
    /\ operator.at = "idle" /\ offer.state # "none"
    /\ offer' = NoOffer
    /\ UNCHANGED <<account, peaks, kill, lock, run, operator>>

(* resume_kill_switch: read the state ...                                      *)
ResumeReads ==
    /\ operator.at = "idle" /\ kill \in LATCHED
    /\ operator' = [Away EXCEPT !.at = "resuming"]
    /\ UNCHANGED <<account, peaks, kill, lock, run, offer>>

(* ... and write NORMAL.                                                      *)
ResumeWrites ==
    /\ operator.at = "resuming"
    /\ kill' = "NORMAL"
    /\ operator' = Away
    /\ UNCHANGED <<account, peaks, lock, run, offer>>

-----------------------------------------------------------------------------
(* The account and the clock. *)

StopsHit ==
    /\ positions /\ positions' = FALSE
    /\ UNCHANGED <<drag, peaks, kill, lock, run, offer, operator>>

Oldest == Window + Delay + 1

Running(p) == At(p, "read") \/ At(p, "record")

(* A judgement takes less than a tick.                                         *)
Tick ==
    /\ \A p \in Runners : ~At(p, "judge") /\ (Running(p) => run[p].age < Delay)
    /\ reads' = [i \in DOMAIN reads |-> [reads[i] EXCEPT !.age = Least({@ + 1, Oldest})]]
    /\ run' = [p \in Runners |-> [run[p] EXCEPT !.age = IF Running(p) THEN @ + 1 ELSE @]]
    /\ offer' = [offer EXCEPT !.left = Largest({@ - 1, 0})]
    /\ <<reads, run, offer>>' # <<reads, run, offer>>
    /\ UNCHANGED <<account, navPeak, realPeak, kill, lock, operator>>

CycleStep == CycleDecides \/ CycleReviews \/ CyclePublishes

RunnerStep(p) == Start(p) \/ BreakOff(p) \/ ReadBroker(p) \/ RecordRead(p) \/ Judge(p)

OperatorStep ==
    ApproveShows \/ ApproveConfirmed \/ Executed \/ OperatorLeaves \/ Rejects
    \/ ResumeReads \/ ResumeWrites

Next ==
    \/ \E p \in Runners : RunnerStep(p)
    \/ CycleStep \/ WatchProposes
    \/ OperatorStep
    \/ StopsHit \/ Tick

Spec == Init /\ [][Next]_vars

-----------------------------------------------------------------------------
(* Properties *)

ReadRows == [age : 0 .. Oldest, eq : Equities]

TypeOK ==
    /\ positions \in BOOLEAN /\ drag \in Drags
    /\ navPeak \in Equities \cup {0} /\ realPeak \in 0 .. 100 * navPeak
    /\ reads \in Seq(ReadRows) /\ Len(reads) <= Keep + 1
    /\ kill \in KillStates
    /\ lock \in Runners \cup {"none"} /\ \A p \in Runners : At(p, "idle") => lock # p
    /\ offer.state \in PendingStates \cup {"none"} /\ offer.kind \in Kinds
    /\ offer.left \in 0 .. Life
    /\ operator.at \in {"idle", "nonce", "executing", "resuming"}

Judged(p) == At(p, "judge") /\ run'[p].at = "decide"

Apart(r, s) == r.age - s.age >= Gap \/ s.age - r.age >= Gap

(* The confirmation as the policy words it, without the walk: ConfirmReads      *)
(* breaching reads, each a gap from the others, and no read above since the    *)
(* oldest of them.                                                            *)
Breaching ==
    \E S \in SUBSET DOMAIN reads :
        /\ Cardinality(S) >= ConfirmReads
        /\ \A i, j \in S : i = j \/ Apart(reads[i], reads[j])
        /\ \A i \in S, k \in DOMAIN reads :
              k >= i => AtOrBelow(reads[k].eq, HaltAt, PeakNow, RealPeakNow)

(* The switch latches when, and only when, the breach is confirmed or it was    *)
(* latched when the check read it: whatever reads the cycle and the watch      *)
(* recorded, dropped or interleaved, and whatever the fee drag does to the     *)
(* adjusted peak (killswitch.evaluate, confirmed_breach_reads).                *)
HaltsWhenConfirmed ==
    [][\A p \in Runners : Judged(p) =>
          (kill' \in LATCHED <=> run[p].prev \in LATCHED \/ Breaching)]_vars

(* HALTED and FLAT are left by the operator's resume alone: no check of the     *)
(* cycle or of the watch, working on what it read earlier, takes the switch    *)
(* back (killswitch.py, "latched"; runtime.instance_lock).                    *)
OnlyResumeReleases ==
    [][(kill \in LATCHED /\ kill' \notin LATCHED) => operator.at = "resuming"]_vars

(* What a cycle opens for approval, minutes after its check, still suits the    *)
(* switch: nothing that adds risk outside NORMAL, nothing but a flatten when   *)
(* latched (killswitch.allows_increase; one lock for the cycle and the watch). *)
OffersSuitTheSwitch ==
    [][(offer'.state = "proposed" /\ offer.state # "proposed") =>
          /\ offer'.up => kill = "NORMAL"
          /\ kill \in LATCHED => offer'.kind = "flatten"]_vars

=============================================================================
