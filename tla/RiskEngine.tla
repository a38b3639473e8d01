------------------------------- MODULE RiskEngine -------------------------------
(***************************************************************************)
(* The risk engine: from the levels the council wants to the final book.      *)
(* A run projects the target into the limits, holds the lines a filter        *)
(* refuses at the base, and projects again until no line is newly held.  With  *)
(* swing orders the run is repeated: without the entries, with all of them,    *)
(* and without the last one while the whole book would suffer.                *)
(*                                                                         *)
(* Weights are whole grains and a level is kept as the weight it asks for.    *)
(* The reasons of a line are flags (`is`), and its costs are per grain.       *)
(***************************************************************************)
EXTENDS Integers, FiniteSets, FiniteSetsExt, SequencesExt

CONSTANTS N,             \* lines, in the engine's order: managed, locked, swing
          Locked, Swing, \* lines of unmapped instruments; of the swing book
          Unit,          \* weight of each managed line at level 1.0
          Levered,       \* lines of a class whose leverage cap is 2
          Stocks,        \* lines of the stock sleeve
          Groups,        \* capped groups: <<[of, cap], ...>>, the last is the equity beta cluster
          LineCap, Sigma, PerSide, Fee, Carried,  \* per line: cap, volatility, costs, carry
          GrossMax, HardMax, DeriskTo,            \* R1
          NetMin, NetMax, ShortMax,               \* R2
          MarginMax, VolMax,                      \* R7, in half grains; R8
          MaxDeviations,                          \* R10
          Step, MinShare, Floor,                  \* R11: per line level step, share, real floor
          IncreaseMax, TurnoverLeft,              \* R13
          CycleCost, MonthLeft, MonthVarLeft, CarryMax,   \* R14
          MaxLegs, MaxLegsTotal,                  \* R21
          Cases          \* what the inputs may be

Lines == 1..N

ASSUME RiskConstants ==
    /\ N \in Nat \ {0} /\ Locked \subseteq 1..N /\ Swing \subseteq 1..N /\ Locked \cap Swing = {}
    /\ DeriskTo <= GrossMax /\ GrossMax <= HardMax
    /\ NetMin <= 0 /\ 0 <= NetMax /\ 0 <= ShortMax
    /\ {DeriskTo, GrossMax, HardMax, NetMin, NetMax, ShortMax, MarginMax, VolMax} \subseteq Int
    /\ \A l \in Lines \ (Locked \cup Swing) : {Unit[l], LineCap[l], Carried[l], PerSide[l], Fee[l]} \subseteq Nat
    /\ \A l \in Lines : Sigma[l] \in Nat
    /\ {IncreaseMax, CycleCost, MaxLegs, MaxLegsTotal} \subseteq Nat
    /\ {CarryMax, TurnoverLeft, MonthLeft, MonthVarLeft} \subseteq Int
    /\ Groups \in Seq([of : SUBSET Lines, cap : Int])

(* Levels are whole grains; an entry is a line without a position, an open swing *)
(* trade is held as it is or closed.                                            *)
ASSUME RiskCases ==
    \A c \in Cases :
        /\ c.kill \in {"NORMAL", "WARN", "HALTED"} /\ c.locked \in Int
        /\ \A l \in Lines \ (Locked \cup Swing) :
              /\ {c.line[l].now, c.line[l].ref, c.line[l].raw, c.line[l].lo, c.line[l].hi} \subseteq Int
              /\ c.line[l].lo <= c.line[l].hi
        /\ \A l \in Swing : /\ {c.swing[l].now, c.swing[l].pin} \subseteq Int
                            /\ IF c.swing[l].enters THEN c.swing[l].now = 0
                               ELSE c.swing[l].pin \in {c.swing[l].now, 0}

Managed == Lines \ (Locked \cup Swing)

VARIABLES facts,           \* the inputs of the cycle
          base, box,       \* the compliance base; per line the interval it may end in
          target,          \* the weights the council wants, inside its authority
          live, entries,   \* swing lines of this run; entries not yet dropped
          w, held, round,  \* the book, the lines held at the base, rounds so far
          core,            \* <<>>, then the book without entries
          stage            \* "facts", "rounds", "decided", "done"
riskVars == <<facts, base, box, target, live, entries, w, held, round, core, stage>>
prepared == <<facts, base, box, target>>

Low(a, b) == IF a < b THEN a ELSE b
High(a, b) == IF a < b THEN b ELSE a
Size(x) == High(x, -x)
Clip(x, lo, hi) == Low(High(x, lo), hi)
Sum(f) == LET to[l \in 0..N] == IF l = 0 THEN 0 ELSE to[l - 1] + f[l] IN to[N]
SumOf(S, f) == Sum([l \in Lines |-> IF l \in S THEN f[l] ELSE 0])

Gross(v) == Sum([l \in Lines |-> Size(v[l])])
GroupGross(v, S) == Sum([l \in Lines |-> IF l \in S THEN Size(v[l]) ELSE 0])
Net(v) == Sum(v)
Shorts(v) == Sum([l \in Lines |-> High(-v[l], 0)])
Longs(v) == Sum([l \in Lines |-> High(v[l], 0)])

(* Twice 1/L: a managed line above level 1.0 is at L = 2.                       *)
MarginCost(v) == [l \in Lines |-> IF l \in Managed /\ Size(v[l]) > Unit[l] THEN 1 ELSE 2]
Margin(v) == LET c == MarginCost(v) IN Sum([l \in Lines |-> c[l] * Size(v[l])])

(* Without a covariance function every line adds up; with one a short takes from *)
(* a long (every line moves with the others); swing lines always add up.        *)
Vol(v) ==
    LET part(S, x) == SumOf(S, [l \in Lines |-> Sigma[l] * x[l]])
        sizes == [l \in Lines |-> Size(v[l])]
    IN IF facts.covariance THEN Size(part(Lines \ Swing, v)) + part(Swing, sizes) ELSE part(Lines, sizes)

Increases(before, after) == before * after < 0 \/ Size(after) > Size(before)
Toward(l, after) ==
    /\ after # base[l]
    /\ Clip(after, Low(base[l], facts.line[l].ref), High(base[l], facts.line[l].ref)) = after

Now == [l \in Lines |-> IF l \in Managed THEN facts.line[l].now
                        ELSE IF l \in Locked THEN facts.locked ELSE facts.swing[l].now]
Is(flag) == {l \in Managed : flag \in facts.line[l].is}
Entering == {l \in Swing : facts.swing[l].enters}

-----------------------------------------------------------------------------
(* The projection on a box and an L1 ball *)

(* Every line of S moves to zero by a common shift (times its cost) and stays   *)
(* in its box: the point of that path that meets the cap and keeps most, or the *)
(* one nearest to zero.                                                         *)
Project(S, v, lo, hi, c, cap) ==
    LET shrunk(x, by) == IF x < 0 THEN -High(-x - by, 0) ELSE High(x - by, 0)
        at(by) == [l \in Lines |-> IF l \in S THEN Clip(shrunk(v[l], (by * c[l] + 1) \div 2), lo[l], hi[l])
                                   ELSE v[l]]
        costs(x) == SumOf(S, [l \in Lines |-> c[l] * Size(x[l])])
        path == {at(by) : by \in 0..(2 * Max({Size(v[l]) : l \in Lines}) + 1)}
        fit == {x \in path : costs(x) <= cap}
    IN IF fit # {} THEN CHOOSE x \in fit : \A y \in fit : costs(y) <= costs(x)
       ELSE CHOOSE x \in path : \A y \in path : costs(x) <= costs(y)

Flat == [l \in Lines |-> 2]      \* the cost of plain gross
ProjectGross(S, v, lo, hi, cap) == Project(S, v, lo, hi, Flat, 2 * cap)

(* restrict: [lo, hi] clipped into [a, b], never empty.                         *)
Into(i, a, b) == LET lo == Clip(i[1], a, b) IN <<lo, High(lo, Clip(i[2], a, b))>>

-----------------------------------------------------------------------------
(* The prologue of a run *)

(* authority: the band clips a level; of the deviations from the reference the  *)
(* largest stay, the others go back to it.                                      *)
Authority ==
    LET of(l) == facts.line[l]
        banded == [l \in Managed |-> Clip(of(l).raw, of(l).lo, of(l).hi)]
        devs == {l \in Managed : /\ "no_band" \notin of(l).is
                                 /\ of(l).raw # of(l).ref /\ banded[l] # of(l).ref}
        by(l) == Size(banded[l] - of(l).ref)
        larger(l) == {m \in devs : \/ by(m) * Unit[l] > by(l) * Unit[m]
                                   \/ by(m) * Unit[l] = by(l) * Unit[m] /\ m < l}
    IN [l \in Managed |->
          IF "no_band" \in of(l).is THEN Now[l]
          ELSE IF l \in devs /\ Cardinality(larger(l)) >= MaxDeviations
               THEN Clip(of(l).ref, of(l).lo, of(l).hi) ELSE banded[l]]

Derisk == Gross(Now) > HardMax
GrossCap == IF Derisk THEN DeriskTo ELSE GrossMax

(* compliance_base: over the hard limit, the book less what takes it to DeriskTo. *)
ComplianceBase ==
    LET lo == [l \in Lines |-> IF l \in Managed THEN Low(Now[l], 0) ELSE Now[l]]
        hi == [l \in Lines |-> IF l \in Managed THEN High(Now[l], 0) ELSE Now[l]]
    IN IF Derisk THEN ProjectGross(Lines, Now, lo, hi, DeriskTo) ELSE Now

(* Mutant: a warning is left to the bands.                                      *)
NoAddOfLine == Is("no_add")
NoAdd == Is("no_add") \cup IF facts.kill = "WARN" THEN Managed ELSE {}

(* Held where it is: a frozen, closed or blocked line, or one without a band.   *)
Pinned == Is("hold") \cup Is("no_band")

(* boxes, for the base b.                                                       *)
Boxes(b) ==
    LET band(l) == <<facts.line[l].lo, facts.line[l].hi>>
        leverage(l, i) == IF l \in Levered THEN i ELSE Into(i, Low(-Unit[l], b[l]), High(Unit[l], b[l]))
        cap(l, i) == Into(i, Low(-LineCap[l], b[l]), High(LineCap[l], b[l]))
        add(l, i) == IF l \in NoAdd THEN Into(i, Low(b[l], 0), High(b[l], 0)) ELSE i
        long(l, i) == IF l \in Is("chase_long") THEN Into(i, Low(i[1], 0), High(b[l], 0)) ELSE i
        short(l, i) == IF l \in Is("chase_short") THEN Into(i, Low(b[l], 0), High(i[2], 0)) ELSE i
    IN [l \in Managed |->
          IF l \in Pinned THEN <<b[l], b[l]>>
          ELSE short(l, long(l, add(l, cap(l, leverage(l, band(l))))))]

-----------------------------------------------------------------------------
(* The projection of a round *)

Pin(l) == IF l \in Swing THEN IF l \in live THEN facts.swing[l].pin ELSE 0 ELSE base[l]
Fixed == (Lines \ Managed) \cup Pinned \cup held
FromBand == [l \in Lines |-> IF l \in Fixed THEN Pin(l) ELSE Clip(target[l], box[l][1], box[l][2])]
(* A hard limit may take a line from its band to zero, never away from it.      *)
Lo == [l \in Lines |-> IF l \in Fixed THEN Pin(l) ELSE Low(box[l][1], 0)]
Hi == [l \in Lines |-> IF l \in Fixed THEN Pin(l) ELSE High(box[l][2], 0)]

(* f applied n times; singletons, so that each pass is evaluated once.          *)
Times(n, f(_), x) ==
    LET at[k \in 0..n] == IF k = 0 THEN {x} ELSE {f(y) : y \in at[k - 1]}
    IN CHOOSE y \in at[n] : TRUE

CapGroups(v) ==
    LET at[k \in 0..Len(Groups)] ==
          IF k = 0 THEN v
          ELSE ProjectGross(Groups[k].of, at[k - 1], Lo, Hi,
                            High(Groups[k].cap, GroupGross(base, Groups[k].of)))
    IN at[Len(Groups)]

(* net_limits: a base outside a limit widens it.                                *)
NetFloor == Low(NetMin, Net(base))
NetCeiling == High(NetMax, Net(base))
ShortCap == High(ShortMax, Shorts(base))
NetOk(v) == Shorts(v) <= ShortCap /\ NetFloor <= Net(v) /\ Net(v) <= NetCeiling

(* net_bounds: the shorts shrink, then the longs.                               *)
NetBounds(v) ==
    LET neg == {l \in Lines : v[l] < 0}
        shrunk == ProjectGross(neg, v, Lo, [l \in Lines |-> Low(Hi[l], 0)],
                               High(Low(ShortCap, Longs(v) - NetFloor), 0))
        pos == {l \in Lines : v[l] > 0}
    IN ProjectGross(pos, shrunk, [l \in Lines |-> High(Lo[l], 0)], Hi, High(Shorts(shrunk) + NetCeiling, 0))

MarginCap == High(MarginMax, Margin(base))
MarginStep(v) ==
    LET pass(x) == IF Margin(x) <= MarginCap THEN x ELSE Project(Lines, x, Lo, Hi, MarginCost(x), MarginCap)
    IN Times(N + 1, pass, v)

(* settle: net and margin in turn until net holds too.                          *)
Settle(v) ==
    LET both(x) == MarginStep(NetBounds(x))
        again(x) == IF NetOk(x) THEN x ELSE both(x)
    IN Times(2 * N + 1, again, both(v))

(* vol_step: the movable lines shrink by a common factor, in quarters here.     *)
VolCap == High(VolMax, Vol(base))
VolStep(v) ==
    LET flex == {l \in Managed \ held : Lo[l] < Hi[l]}
        part(x, k) == IF x < 0 THEN -((k * (-x)) \div 4) ELSE (k * x) \div 4
        at(k) == [l \in Lines |-> IF l \in flex THEN Clip(part(v[l], k), Lo[l], Hi[l]) ELSE v[l]]
        fit == {k \in 0..4 : Vol(at(k)) <= VolCap}
    IN IF Vol(v) <= VolCap THEN v ELSE at(Max(fit \cup {0}))

(* Mutant: the volatility comes last.                                           *)
VolLast ==
    VolStep(Settle(ProjectGross(Lines, CapGroups(FromBand), Lo, Hi, High(GrossCap, Gross(base)))))

(* project.                                                                     *)
Projected ==
    LET capped == ProjectGross(Lines, CapGroups(FromBand), Lo, Hi, High(GrossCap, Gross(base)))
    IN Settle(VolStep(Settle(capped)))

-----------------------------------------------------------------------------
(* The filters of a round: what goes back to the base *)

Changed(v) == {l \in Managed : v[l] # base[l]}
Moves(v) == Changed(v) \ held
Change(v, l) == Size(v[l] - base[l])
Building == {l \in Is("build") : Now[l] = 0}       \* never-filled lines of the build phase

(* r11_reason: toward the reference the studied rule decides, else the deadband. *)
LargeEnough(v, l) ==
    IF Toward(l, v[l])
    THEN l \in Is("pending") /\ (v[l] = 0 \/ Change(v, l) >= Floor)
    ELSE \/ v[l] = 0 /\ l \in Stocks
         \/ Change(v, l) >= Step[l] /\ (v[l] = 0 \/ Change(v, l) >= High(MinShare, Floor))

(* line_reason: R11, R12, the evidence, the cost gate.                          *)
MayMove(v, l) ==
    /\ LargeEnough(v, l)
    /\ Toward(l, v[l]) \/ l \notin Is("young")
    /\ Toward(l, v[l]) \/ l \in Is("material")
    /\ l \in Building \/ (l \notin Is("no_quote") /\ (Toward(l, v[l]) \/ l \notin Is("dear")))

LineFilters(v) == {l \in Moves(v) : ~MayMove(v, l)}

Bit(b) == IF b THEN 1 ELSE 0
Precedes(a, b) == \E i \in DOMAIN a : a[i] < b[i] /\ \A j \in 1..(i - 1) : a[j] = b[j]
(* Away from the reference first, then the dearest, the largest, by name.       *)
WorstFirst(v, l) == <<Bit(Toward(l, v[l])), -PerSide[l], -Change(v, l), l>>
TrimKey(v, l) == <<Bit(~Increases(base[l], v[l]))>> \o WorstFirst(v, l)

(* trim: in the order of the keys, until the sum is within the limit.           *)
Trim(S, part, limit, key) ==
    LET of == {l \in S : part[l] > 0}
        before(l) == {m \in of : Precedes(key[m], key[l])}
    IN {l \in of : SumOf(S \ before(l), part) > limit}

(* trim_costs: a reducing line is held only while the variable costs of the     *)
(* reducing lines left exceed theirs.                                           *)
TrimCosts(v, S, cost, variable, limit, varlimit, key) ==
    LET of == {l \in S : cost[l] > 0}
        before(l) == {m \in of : Precedes(key[m], key[l])}
        reducing == {l \in S : ~Increases(base[l], v[l])}
    IN {l \in of : /\ SumOf(S \ before(l), cost) > limit
                   /\ l \in reducing => SumOf(reducing \ before(l), variable) > varlimit}

(* line_increase: a flip counts its whole new leg.                              *)
Increase(v) == [l \in Lines |-> IF base[l] * v[l] < 0 THEN Size(v[l]) ELSE High(Size(v[l]) - Size(base[l]), 0)]
Variable(v) == [l \in Lines |-> PerSide[l] * Change(v, l)]
Cost(v) == [l \in Lines |-> Variable(v)[l] + Fee[l] * (IF base[l] * v[l] < 0 THEN 2 ELSE Bit(v[l] # base[l]))]
CarryOf(v) == [l \in Lines |-> IF l \in Managed THEN Carried[l] * Size(v[l]) ELSE 0]
LegsOf(v) == [l \in Lines |-> IF base[l] * v[l] < 0 THEN 2 ELSE 1]

(* A risk-reducing move toward the reference: outside the cycle's costs and R21. *)
Exempt(v, l) == ~Increases(base[l], v[l]) /\ Toward(l, v[l])
Discretionary(v, S) == {l \in S : ~Toward(l, v[l]) /\ l \notin Building}
CycleCosts(v, S) == {l \in S : ~Exempt(v, l) /\ l \notin Building}
CarryCap == High(CarryMax, Sum(CarryOf(base)))

(* budget_filters: the first budget that is over decides who is held.           *)
BudgetFilters(v) ==
    LET of == Moves(v)
        worst == [l \in of |-> WorstFirst(v, l)]
        key == [l \in of |-> TrimKey(v, l)]
        down == [l \in Lines |-> High(base[l] - v[l], 0)]
        up == [l \in Lines |-> High(v[l] - base[l], 0)]
        free == Discretionary(v, of)
        rise == [l \in Lines |-> High(CarryOf(v)[l] - CarryOf(base)[l], 0)]
        counted == {l \in of : ~Exempt(v, l)}
        found == << Trim(of, down, SumOf(of, down) - (NetFloor - Net(v)), worst),
                    Trim(of, up, SumOf(of, up) - (Net(v) - NetCeiling), worst),
                    Trim(free, Increase(v), IncreaseMax, worst),
                    Trim({l \in free : Increases(base[l], v[l])}, [l \in Lines |-> Change(v, l)], TurnoverLeft, worst),
                    TrimCosts(v, CycleCosts(v, of), Cost(v), Variable(v), CycleCost, CycleCost, key),
                    TrimCosts(v, free, Cost(v), Variable(v), MonthLeft, MonthVarLeft, key),
                    Trim(of, rise, SumOf(of, rise) - (Sum(CarryOf(v)) - CarryCap), worst),
                    Trim(counted, LegsOf(v), MaxLegs, key),
                    Trim(of, LegsOf(v), MaxLegsTotal, key) >>
        over == {k \in DOMAIN found : found[k] # {}}
    IN IF over = {} THEN {} ELSE found[Min(over)]

NewlyHeld(v) == IF LineFilters(v) # {} THEN LineFilters(v) ELSE BudgetFilters(v)

-----------------------------------------------------------------------------
(* The checks: the rules a final book breaks *)

NotWorse(final, start, cap) == final <= cap \/ final <= start

(* check_gross .. check_authority: the book and its lines.                      *)
BookChecks(v) ==
    [ R1 |-> Gross(v) <= GrossCap \/ (Gross(v) <= Gross(base) /\ Gross(base) <= HardMax),
      R2 |-> NetFloor <= Net(v) /\ Net(v) <= NetCeiling /\ NotWorse(Shorts(v), Shorts(base), ShortMax),
      R3 |-> \A l \in NoAdd : ~Increases(base[l], v[l]),
      R5 |-> /\ \A l \in Managed : Size(v[l]) > LineCap[l] => ~Increases(base[l], v[l])
             /\ \A k \in DOMAIN Groups :
                   NotWorse(GroupGross(v, Groups[k].of), GroupGross(base, Groups[k].of), Groups[k].cap),
      R6 |-> \A l \in Managed \ Levered : Size(v[l]) > Unit[l] => ~Increases(base[l], v[l]),
      R7 |-> NotWorse(Margin(v), Margin(base), MarginMax),
      R8 |-> NotWorse(Vol(v), Vol(base), VolMax),
      R10 |-> \A l \in Managed \ Is("no_band") :
                 LET lo == facts.line[l].lo
                     hi == facts.line[l].hi
                 IN \/ v[l] = base[l]
                    \/ lo <= v[l] /\ v[l] <= hi
                    \/ (0 <= v[l] /\ v[l] < lo) \/ (hi < v[l] /\ v[l] <= 0),
      R17 |-> /\ \A l \in Is("chase_long") : v[l] <= High(base[l], 0)
              /\ \A l \in Is("chase_short") : v[l] >= Low(base[l], 0),
      R18 |-> \A l \in Pinned : v[l] = base[l] ]

(* verify_line_rules, verify_budgets and the rest: the moves.                   *)
MoveChecks(v) ==
    LET of == Changed(v)
        free == Discretionary(v, of)
        adds(S) == {l \in S : Increases(base[l], v[l]) /\ Cost(v)[l] > 0}
        within(S, limit, varlimit) ==
            SumOf(S, Cost(v)) <= limit \/ (adds(S) = {} /\ SumOf(S, Variable(v)) <= varlimit)
    IN [ R12 |-> \A l \in of : MayMove(v, l),
         R13 |-> /\ SumOf(free, Increase(v)) <= IncreaseMax
                 /\ LET turn == SumOf({l \in free : Increases(base[l], v[l])}, [l \in Lines |-> Change(v, l)])
                    IN turn <= TurnoverLeft \/ turn = 0,
         R14 |-> /\ within(CycleCosts(v, of), CycleCost, CycleCost)
                 /\ within(free, MonthLeft, MonthVarLeft) \/ SumOf(free, Cost(v)) = 0
                 /\ NotWorse(Sum(CarryOf(v)), Sum(CarryOf(base)), CarryMax),
         R21 |-> /\ SumOf({l \in of : ~Exempt(v, l)}, LegsOf(v)) <= MaxLegs
                 /\ SumOf(of, LegsOf(v)) <= MaxLegsTotal ]

Failed(v) == {r \in DOMAIN BookChecks(v) : ~BookChecks(v)[r]} \cup {r \in DOMAIN MoveChecks(v) : ~MoveChecks(v)[r]}

-----------------------------------------------------------------------------
(* The evaluation *)

RiskInit ==
    /\ facts \in Cases
    /\ base = Now /\ box = <<>> /\ target = Now /\ live = {} /\ entries = {} /\ w = Now
    /\ held = {} /\ round = 0 /\ core = <<>> /\ stage = "facts"

(* decide, its prologue; _swing_entry_blocks.                                   *)
Prepare ==
    /\ stage = "facts" /\ facts.kill # "HALTED"
    /\ base' = ComplianceBase
    /\ box' = Boxes(base')
    /\ target' = [l \in Lines |-> IF l \in Managed THEN Authority[l] ELSE base'[l]]
    /\ entries' = {l \in Entering : facts.kill = "NORMAL" /\ ~facts.swing[l].blocked}
    /\ live' = Swing \ Entering
    /\ w' = base' /\ stage' = "rounds"
    /\ UNCHANGED <<facts, held, round, core>>

(* flatten.                                                                     *)
Flatten ==
    /\ stage = "facts" /\ facts.kill = "HALTED"
    /\ w' = [l \in Lines |-> 0] /\ stage' = "done"
    /\ UNCHANGED <<facts, base, box, target, live, entries, held, round, core>>

(* One round; the loop is bounded by the number of lines.                       *)
Round ==
    /\ stage = "rounds"
    /\ w' = Projected
    /\ round' = round + 1
    /\ LET new == NewlyHeld(w')
       IN /\ held' = held \cup new
          /\ stage' = IF new = {} \/ round' = N + 2 THEN "decided" ELSE "rounds"
    /\ UNCHANGED <<prepared, live, entries, core>>

Again(ids) == /\ live' = (Swing \ Entering) \cup ids /\ held' = {} /\ round' = 0 /\ stage' = "rounds"

(* The entry-free book is decided: now with every entry.                        *)
WithEntries ==
    /\ stage = "decided" /\ core = <<>>
    /\ core' = w
    /\ IF entries = {} THEN stage' = "done" /\ UNCHANGED <<live, held, round>> ELSE Again(entries)
    /\ UNCHANGED <<prepared, entries, w>>

(* Mutant: only a failed check counts.                                          *)
BindingChecks == ~(Failed(w) \subseteq Failed(core))

(* _swing_binding: the whole book suffers from the entries.                     *)
LongsOf(S) == SumOf(S, [l \in Lines |-> IF l \in Swing THEN High(facts.swing[l].pin, 0) ELSE 0])
Binding ==
    LET cluster == Groups[Len(Groups)]
    IN \/ ~(Failed(w) \subseteq Failed(core))
       \/ \E l \in Lines \ live : w[l] # core[l]
       \/ GroupGross(w, cluster.of) + LongsOf(live)
            > High(cluster.cap, GroupGross(core, cluster.of) + LongsOf(Swing \ Entering))

(* The last entry goes, until the rest fits.                                    *)
Accept ==
    /\ stage = "decided" /\ core # <<>> /\ ~Binding
    /\ stage' = "done"
    /\ UNCHANGED <<prepared, live, entries, w, held, round, core>>
DropLast ==
    /\ stage = "decided" /\ core # <<>> /\ Binding
    /\ entries' = entries \ {Max(entries)}
    /\ IF entries' = {} THEN w' = core /\ live' = Swing \ Entering /\ stage' = "done" /\ UNCHANGED <<held, round>>
       ELSE Again(entries') /\ UNCHANGED w
    /\ UNCHANGED <<prepared, core>>

RiskNext == Prepare \/ Flatten \/ Round \/ WithEntries \/ Accept \/ DropLast
RiskSpec == RiskInit /\ [][RiskNext]_riskVars /\ WF_riskVars(RiskNext)

-----------------------------------------------------------------------------
(* Properties *)

(* The pipeline shrinks and holds until every rule that is recomputed on its    *)
(* book passes, whichever line was held and whichever limit came last: no step  *)
(* undoes an earlier one (risk/engine.py, checks on the final book).  Left out   *)
(* is what it does not command: unmapped and swing lines that are over the hard  *)
(* limit by themselves, the exit of a swing line, and R8 where a covariance lets *)
(* a long hedge a short in the base or on the way to the book, since there a     *)
(* smaller line may mean a larger volatility.                                   *)
Hedged ==
    /\ facts.covariance
    /\ \E l, m \in Lines \ Swing : base[l] * base[m] < 0 \/ FromBand[l] * FromBand[m] < 0
EveryCheckPasses ==
    (/\ stage = "decided" /\ core = <<>>
     /\ \A l \in Swing \ Entering : facts.swing[l].pin = base[l]
     /\ GroupGross(Now, Lines \ Managed) <= HardMax)
    => Failed(w) \subseteq (IF Hedged THEN {"R8"} ELSE {})

(* With swing entries the core book is the one they do not touch, no check      *)
(* fails that passed without them, and holds and exits stay.                    *)
EntriesCostNothing ==
    (stage = "done" /\ core # <<>>) =>
        /\ \A l \in Lines \ Swing : w[l] = core[l]
        /\ \A l \in Swing \ Entering : w[l] = facts.swing[l].pin
        /\ Failed(w) \subseteq Failed(core)

(* Over the hard limit or under a warning the engine only takes risk off what   *)
(* the broker holds, not merely off the base it derived.  The exception is a     *)
(* book whose unmapped and swing lines are over the hard limit by themselves: R1 *)
(* fails there without any entry, so it drops none (_swing_binding).             *)
OnlyDerisks ==
    (/\ stage = "done"
     /\ \/ facts.kill # "NORMAL"
        \/ Gross(Now) > HardMax /\ GroupGross(Now, Lines \ Managed) <= HardMax) =>
        /\ Gross(w) <= Gross(Now)
        /\ facts.kill # "NORMAL" => \A l \in Managed : ~Increases(Now[l], w[l])
=============================================================================
