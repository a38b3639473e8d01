------------------------------ MODULE PlanApproval ------------------------------
(***************************************************************************)
(* What becomes of the legs of a proposal in the operator's terminal.  The   *)
(* cycle plans at its book; until the operator has read the screen and typed *)
(* the nonce, markets close and open, stops take positions and prices run.   *)
(* `approve` drops legs or refuses the decision; `sent` is what it hands to  *)
(* the executor.                                                           *)
(***************************************************************************)
EXTENDS Plans

CONSTANTS Books,        \* the books the cycle may read
          Wants,        \* what it may want of one: targets, orders, rules
          DriftMax,     \* approval.drift_l1_max
          GrossMax,     \* GROSS_HARD_MAX
          Moves         \* bound: moves of the market before the approval

ASSUME ApprovalConstants ==
    /\ \A positions \in Books :
          /\ IsFiniteSet(positions) /\ \A p \in positions : p.id \in Int /\ p.w \in Int
          /\ \A p, q \in positions : p.id = q.id => p = q
    /\ \A wanted \in Wants : \A l \in Core \cap DOMAIN wanted.target :
          wanted.target[l] \in Int /\ wanted.rule[l].min \in Int /\ wanted.rule[l].floor \in Int

VARIABLES base, want, plan,     \* the proposal
          book,                 \* the positions at the broker now
          hours,                \* per line: what its market takes, now and to the margin's end
          ran,                  \* swing lines whose price is no longer an entry
          late, swing,          \* the drops on the screen: market hours, swing
          stage, sent, moves
approvalVars == <<base, want, plan, book, hours, ran, late, swing, stage, sent, moves>>
proposal == <<base, want, plan>>
market == <<book, hours, ran, moves>>

Legs == ToSet(plan)
IdsOf(legs) == {leg.id : leg \in legs}

ApprovalInit ==
    /\ base \in Books /\ want \in Wants /\ book = base
    /\ plan = IF want.kind = "flatten" THEN BuildFlatten(base) ELSE BuildPlan(base, want)
    /\ plan # <<>>
    /\ hours = [l \in Lines |-> "all"] /\ ran = {} /\ late = {} /\ swing = {}
    /\ stage = "proposed" /\ sent = {} /\ moves = 0

-----------------------------------------------------------------------------
(* Drops *)

(* _closed_reason: past the calendars of a market only closes pass.              *)
Closed(leg) == hours[leg.line] = "nothing" \/ (hours[leg.line] = "exits" /\ ~Reduces(leg))

(* _same_side_closes: the closes whose position this open gives back.           *)
Gives(leg) == {c \in Legs : Reduces(c) /\ c.id \in leg.deps /\ c.line = leg.line /\ c.side = leg.side}

(* Mutant: a dropped re-open leaves its close.                                  *)
DropRoundGivingNothing(d) ==
    LET core == \E leg \in d : ~leg.inc /\ ~leg.swing
        rule == IF want.kind = "rebalance" /\ core THEN {leg \in Legs : leg.inc} ELSE {}
        gone == d \cup rule
    IN gone \cup {leg \in Legs : leg.deps \cap IdsOf(gone) # {}}

(* One round of the three rules of market_hours_drops.                         *)
DropRound(d) ==
    LET core == \E leg \in d : ~leg.inc /\ ~leg.swing
        exit == \E leg \in d : leg.swing /\ Reduces(leg)
        rule == IF want.kind = "rebalance" /\ (core \/ exit)
                THEN {leg \in Legs : leg.inc /\ (core \/ leg.swing)} ELSE {}
        waits == {leg \in Legs : leg.deps \cap IdsOf(d \cup rule) # {}}
        gone == d \cup rule \cup waits
    IN gone \cup IF want.kind = "rebalance"
                 THEN UNION {Gives(leg) : leg \in {o \in gone : o.kind = "open"}} ELSE {}

(* Mutant: a single round.                                                     *)
OneRound == DropRound({leg \in Legs : Closed(leg)})

(* The rounds end: each but the last drops a leg.                              *)
MarketHoursDrops ==
    LET round[n \in Nat] == IF n = 0 THEN {leg \in Legs : Closed(leg)} ELSE DropRound(round[n - 1])
    IN round[Len(plan)]

SwingNotLive == IF SwingLive THEN {} ELSE {leg \in Legs : leg.swing /\ (leg.inc \/ leg.kind = "modify_tp")}

(* Mutant: only what depends on a dropped leg follows it.                      *)
(* swing_cascade: `closed` are exits the broker has already made.               *)
CascadeRound(drops, d, closed) ==
    LET exit == \E leg \in drops \cup d : leg.swing /\ Reduces(leg) /\ leg \notin closed
    IN d \cup {leg \in Legs \ drops : leg.swing /\ (leg.deps \cap IdsOf(drops \cup d) # {} \/ (exit /\ leg.inc))}

SwingCascade(drops, d, closed) == CascadeRound(drops, CascadeRound(drops, CascadeRound(drops, d, closed), closed), closed)

(* The entries whose live rate the guard refuses.                              *)
Runaway == {leg \in Legs : leg.swing /\ leg.kind = "open" /\ leg.line \in ran}

Gone(leg) == leg.kind \in {"close", "partial_close", "set_tp"} /\ ~\E p \in book : p.id = leg.id[2]

(* approval_drift: a swing line that left the book does not count.              *)
Drift ==
    Total([l \in {p.line : p \in base \cup book} |->
             IF l \in Swing /\ On(book, l) = {} THEN 0 ELSE Size(Weight(On(book, l)) - Weight(On(base, l)))])

(* _gross_after: a line none of whose legs is dropped lands on its plan.        *)
GrossAfter(kept) ==
    Total([l \in {p.line : p \in book} \cup {leg.line : leg \in Legs} |->
             LET mine == {leg \in Legs : leg.line = l} IN
             Size(IF mine # {} /\ mine \subseteq kept THEN After(base, mine, l) ELSE After(book, kept, l))])

-----------------------------------------------------------------------------
(* approve *)

(* Nothing is sent and the decision stays proposed: a guard refuses, the price    *)
(* of a core open has moved, the nonce is mistyped.                            *)
Refused == stage' = "proposed" /\ late' = {} /\ swing' = {} /\ UNCHANGED <<proposal, market, sent>>

(* From the guards to the screen.  A position that is gone refuses the decision *)
(* unless it is a swing one, whose leg is dropped (a flatten's are not marked). *)
Shows ==
    LET drops == MarketHoursDrops
        first == SwingCascade(drops, SwingNotLive, {})
        gone == {leg \in Legs \ (drops \cup first) : Gone(leg)}
        unwanted == first \cup gone \cup (Runaway \ drops)
        all == SwingCascade(drops, unwanted, gone)
        kept == Legs \ (drops \cup all)
    IN /\ stage = "proposed"
       /\ IF \/ kept = {} \/ Drift > DriftMax \/ GrossAfter(kept) > GrossMax
             \/ \E leg \in gone : ~leg.swing \/ want.kind = "flatten"
          THEN Refused
          ELSE /\ late' = drops /\ swing' = all /\ stage' = "shown"
               /\ UNCHANGED <<proposal, market, sent>>

(* After the nonce: the market hours must be those of the screen, the entries   *)
(* are looked at once more.                                                   *)
Confirms ==
    LET all == SwingCascade(late, swing \cup (Runaway \ (late \cup swing)), {leg \in swing : Gone(leg)})
    IN /\ stage = "shown"
       /\ IF MarketHoursDrops # late \/ Legs \subseteq late \cup all
          THEN Refused
          ELSE /\ stage' = "approved" /\ swing' = all /\ sent' = Legs \ (late \cup all)
               /\ UNCHANGED <<proposal, market, late>>

Leaves == stage = "shown" /\ Refused

-----------------------------------------------------------------------------
(* The market *)

Moving == stage \in {"proposed", "shown"} /\ moves < Moves /\ moves' = moves + 1

Turns(l) ==
    /\ Moving /\ \E takes \in {"all", "exits", "nothing"} \ {hours[l]} : hours' = [hours EXCEPT ![l] = takes]
    /\ UNCHANGED <<proposal, book, ran, late, swing, stage, sent>>

Runs(l) ==
    /\ Moving /\ ran' = IF l \in ran THEN ran \ {l} ELSE ran \cup {l}
    /\ UNCHANGED <<proposal, book, hours, late, swing, stage, sent>>

ClosesAlone(p) ==
    /\ Moving /\ book' = book \ {p}
    /\ UNCHANGED <<proposal, hours, ran, late, swing, stage, sent>>

ApprovalNext ==
    \/ Shows \/ Confirms \/ Leaves
    \/ \E l \in Lines : Turns(l)
    \/ \E l \in Swing : Runs(l)
    \/ \E p \in book : ClosesAlone(p)

ApprovalSpec == ApprovalInit /\ [][ApprovalNext]_approvalVars

-----------------------------------------------------------------------------
(* Properties *)

Handed == stage = "approved"

(* Risk first: when a core reduction of a rebalance is not sent, nothing that   *)
(* adds risk is; when a swing exit is not sent, no swing entry is, unless the   *)
(* broker has closed the position itself.                                      *)
ReductionsFirst ==
    Handed /\ want.kind = "rebalance" =>
        \A leg \in Legs \ sent : \A open \in sent :
            /\ ~leg.inc /\ ~leg.swing => ~open.inc
            /\ leg.swing /\ Reduces(leg) /\ ~Gone(leg) => ~(open.swing /\ open.inc)

(* A position that is closed to be re-opened is never closed alone: of such a   *)
(* pair both legs are sent or neither.                                         *)
TrimStaysTrim ==
    Handed /\ want.kind = "rebalance" =>
        \A open \in Legs : open.kind = "open" /\ open \notin sent => Gives(open) \cap sent = {}

(* A core line held on one side ends between where it is and where the cycle      *)
(* wanted it, whatever was dropped.  It ends lower, and never on the other side,   *)
(* only by less than the smallest position the broker accepts, or when it cannot   *)
(* be closed in part and its re-open was refused.                                *)
NoLineOvershoots ==
    Handed /\ want.kind = "rebalance" /\ book = base =>
        \A l \in {k \in Core \cap DOMAIN want.target : OneSided(On(base, k))} :
            LET end == After(base, sent, l)
                now == Weight(On(base, l))
                aim == want.target[l]
            IN \/ (now <= end /\ end <= aim) \/ (aim <= end /\ end <= now)
               \/ /\ Size(end) < Size(now) /\ Side(end) * Side(now) >= 0
                  /\ want.rule[l].partial = "no" \/ Size(aim) - Size(end) < want.rule[l].min

(* The core book that is sent is no larger than the book before or the book of    *)
(* the whole plan; the lines held on both sides are left out, a cap can leave them *)
(* half flattened.                                                             *)
CoreGross(done) ==
    Total([l \in {k \in Core : OneSided(On(base, k))} |-> Size(After(base, done, l))])
GrossInside ==
    Handed /\ want.kind = "rebalance" /\ book = base =>
        \/ CoreGross(sent) <= CoreGross({})
        \/ CoreGross(sent) <= CoreGross(Legs)
=============================================================================
