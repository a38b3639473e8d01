--------------------------------- MODULE Plans ---------------------------------
(***************************************************************************)
(* The planner: from a book, the target of each line and the swing orders    *)
(* to the legs of a proposal.  Weights are whole numbers; a position is a    *)
(* record of its id (a newer position has a larger one), its line and its    *)
(* signed weight.  What a line may do is a record `rule`: the smallest       *)
(* exposure the broker accepts, the smallest order worth copying, whether a  *)
(* position can be closed in part ("unproven": the capability is missing),   *)
(* and whether an open passes (`refused` stands for a missing quote, a stop  *)
(* outside the bounds of the broker, a gap, no vehicle).                     *)
(*                                                                         *)
(* A leg is named by what it does, so a dependency is a name.                *)
(***************************************************************************)
EXTENDS Integers, FiniteSets, FiniteSetsExt, SequencesExt

CONSTANTS Core,          \* the lines of the universe, in their order
          Swing,         \* the swing lines, after them
          MaxLegs,       \* proposal.max_legs
          MaxLegsTotal,  \* proposal.max_legs_total
          MaxSwingOpens, \* MAX_SWING_OPENS: entries of a proposal, and take-profits
          MaxTranches,   \* positions per line and direction
          SwingLive      \* invariants.SWING_BOOK_LIVE

ASSUME PlanConstants ==
    /\ Core \subseteq Nat /\ Swing \subseteq Nat /\ Core \cap Swing = {}
    /\ IsFiniteSet(Core) /\ IsFiniteSet(Swing)
    /\ MaxLegs \in Nat /\ MaxLegsTotal \in Nat /\ MaxSwingOpens \in Nat /\ MaxTranches \in Nat
    /\ SwingLive \in BOOLEAN

Lines == Core \cup Swing
Size(w) == IF w < 0 THEN -w ELSE w
Side(w) == IF w > 0 THEN 1 ELSE IF w < 0 THEN -1 ELSE 0
Total(f) == FoldFunction(+, 0, f)

On(book, l) == {p \in book : p.line = l}
Weight(ps) == Total([p \in ps |-> p.w])
Exposure(ps) == Total([p \in ps |-> Size(p.w)])

(* Held on one side only; the other lines are only ever flattened.                *)
OneSided(ps) == \A p, q \in ps : Side(p.w) = Side(q.w)

CloseOf(p) == <<"close", p.id>>
OpenOf(l) == <<"open", l>>

Leg(id, kind, l, side, dw) ==
    [id |-> id, kind |-> kind, line |-> l, side |-> side, dw |-> dw, deps |-> {},
     swing |-> l \in Swing, inc |-> kind = "open"]

Reduces(leg) == leg.kind \in {"close", "partial_close"}

-----------------------------------------------------------------------------
(* Legs of one line *)

Close(p) == Leg(CloseOf(p), "close", p.line, Side(p.w), -p.w)
ClosePart(p, w) == Leg(CloseOf(p), "partial_close", p.line, Side(p.w), -Side(p.w) * w)

(* open: nothing when a check refuses it.                                      *)
Open(rule, l, dw, deps) ==
    IF rule.opens = "yes" /\ Size(dw) >= rule.min /\ Size(dw) >= rule.floor
    THEN {[Leg(OpenOf(l), "open", l, Side(dw), dw) EXCEPT !.deps = deps]} ELSE {}

(* The position that is not closed whole: a rest below the broker's minimum    *)
(* takes it all; without partial closes it is closed and the rest re-opened,   *)
(* unless a capability would refuse the re-open.                               *)
Trim(rule, p, w) ==
    LET rest == Size(p.w) - w IN
    IF rest < rule.min THEN {Close(p)}
    ELSE IF rule.partial = "unproven" \/ (rule.partial = "no" /\ rule.opens = "unproven") THEN {}
    ELSE IF rule.partial = "no" THEN {Close(p)} \cup Open(rule, p.line, Side(p.w) * rest, {CloseOf(p)})
    ELSE IF w < rule.floor THEN {} ELSE {ClosePart(p, w)}

(* Mutant of Reduce: the position that need only be trimmed is closed.           *)
ReduceWhole(rule, ps, w) ==
    LET Newer(p) == Exposure({q \in ps : q.id > p.id}) IN
    {Close(p) : p \in {q \in ps : Newer(q) <= w}}

(* reduce: newest first.                                                       *)
Reduce(rule, ps, w) ==
    LET Newer(p) == Exposure({q \in ps : q.id > p.id}) IN
    {Close(p) : p \in {q \in ps : Newer(q) + Size(q.w) <= w}}
    \cup UNION {Trim(rule, p, w - Newer(p)) :
                p \in {q \in ps : Newer(q) < w /\ w < Newer(q) + Size(q.w)}}

(* plan_line                                                                   *)
PlanLine(rule, l, target, ps) ==
    LET current == Weight(ps) IN
    IF ~OneSided(ps)
    THEN IF target = 0 THEN {Close(p) : p \in ps} ELSE {}
    ELSE IF target = current THEN {}
    ELSE IF target = 0 THEN {Close(p) : p \in ps}
    ELSE IF ps = {} THEN Open(rule, l, target, {})
    ELSE IF Side(target) # Side(current)
    THEN {Close(p) : p \in ps} \cup Open(rule, l, target, {CloseOf(p) : p \in ps})
    ELSE IF Size(target) > Size(current)
    THEN IF Cardinality(ps) >= MaxTranches THEN {} ELSE Open(rule, l, target - current, {})
    ELSE Reduce(rule, ps, Size(current) - Size(target))

(* swing_order: an entry waits for nothing, its take-profit for the entry.      *)
PlanSwing(rule, l, order, ps) ==
    CASE order.do = "enter" ->
           IF ~SwingLive \/ ps # {} THEN {}
           ELSE LET entry == Open(rule, l, order.w, {}) IN
                entry \cup {[Leg(<<"tp", l>>, "modify_tp", l, e.side, 0) EXCEPT !.deps = {e.id}] :
                            e \in {x \in entry : order.patch}}
      [] order.do = "exit" -> {Close(p) : p \in ps}
      [] order.do = "set_tp" -> {Leg(<<"tp", p.id>>, "set_tp", l, Side(p.w), 0) : p \in ps}
      [] OTHER -> {}

-----------------------------------------------------------------------------
(* Order and caps *)

Phase(leg) ==
    CASE Reduces(leg) -> 0
      [] leg.kind = "set_tp" -> 1
      [] leg.kind = "open" -> IF leg.swing THEN 3 ELSE 2
      [] OTHER -> 4

Before(a, b) ==
    \/ Phase(a) < Phase(b)
    \/ Phase(a) = Phase(b) /\ Size(a.dw) > Size(b.dw)
    \/ Phase(a) = Phase(b) /\ Size(a.dw) = Size(b.dw) /\ a.line < b.line
    \/ Phase(a) = Phase(b) /\ Size(a.dw) = Size(b.dw) /\ a.line = b.line /\ a.id[2] < b.id[2]

(* sorted: each leg goes after those that come before it.                      *)
Inserted(leg, s) == InsertAt(s, Cardinality({i \in DOMAIN s : Before(s[i], leg)}) + 1, leg)
Ordered(legs) == FoldSet(Inserted, <<>>, legs)

Ids(s) == {leg.id : leg \in ToSet(s)}

(* What counts toward max_legs: all but the reductions toward the reference.    *)
Counted(leg, ref) == leg.inc \/ leg.line \notin ref

(* Exits of the swing book are never capped.                                   *)
Room(kept, leg, ref) ==
    LET core == SelectSeq(kept, LAMBDA k : ~k.swing)
        alike == SelectSeq(kept, LAMBDA k : k.swing /\ k.kind = leg.kind)
    IN IF leg.swing
       THEN leg.kind \in {"open", "modify_tp"} => Len(alike) < MaxSwingOpens
       ELSE /\ Len(core) < MaxLegsTotal
            /\ Counted(leg, ref) => Len(SelectSeq(core, LAMBDA k : Counted(k, ref))) < MaxLegs

Capped(s, ref) ==
    FoldLeft(LAMBDA kept, leg : IF Room(kept, leg, ref) THEN Append(kept, leg) ELSE kept, <<>>, s)

(* A leg whose dependency is gone goes too; dependencies come first.            *)
Supported(s) ==
    FoldLeft(LAMBDA kept, leg : IF leg.deps \subseteq Ids(kept) THEN Append(kept, leg) ELSE kept, <<>>, s)

(* build_plan: only the lines with a target and the swing lines with an order.  *)
BuildPlan(book, want) ==
    LET drafts == (UNION {PlanLine(want.rule[l], l, want.target[l], On(book, l)) :
                          l \in {k \in Core : k \in DOMAIN want.target}})
                  \cup (UNION {PlanSwing(want.rule[l], l, want.order[l], On(book, l)) : l \in Swing})
    IN Supported(Capped(Ordered(drafts), want.ref))

(* build_flatten_plan: every position, those of no line included, no cap.       *)
BuildFlatten(book) == Ordered({Close(p) : p \in book})

(* The weight of a line once the legs in `done` are through.                    *)
After(book, done, l) ==
    Weight(On(book, l)) + Total([leg \in {d \in done : d.line = l} |-> leg.dw])
=============================================================================
