------------------------------- MODULE Authority -------------------------------
(***************************************************************************)
(* What one council run may do to the book: the cards an analyst's drafts      *)
(* become, the band of every line, the audit of a manager's decision, and the  *)
(* medoid of the replicates.  All of it is code that runs on model replies.    *)
(*                                                                         *)
(* A level is a whole number of quarters of a line's unit weight.  A market is *)
(* what the code knows before the council: the kill state, the lines with a    *)
(* volatility shock, and per line                                            *)
(*   [trend, frozen, core, deviates, admitted, ref, current, event, lever,    *)
(*    short, deadband].                                                      *)
(***************************************************************************)
EXTENDS Integers, FiniteSets, FiniteSetsExt, SequencesExt

CONSTANTS Universe,
          Replicates,      \* 1..n: the manager's replicates (council.yaml: three seeds)
          MaxDeviations    \* risk.yaml: authority.max_deviations_per_cycle

ASSUME AuthorityConstants ==
    /\ IsFiniteSet(Universe)
    /\ Replicates \subseteq Nat /\ IsFiniteSet(Replicates)
    /\ MaxDeviations \in Nat

LATCHED == {"HALTED", "FLAT"}

Low(a, b) == IF a < b THEN a ELSE b
High(a, b) == IF a < b THEN b ELSE a
Clip(x, band) == Low(High(x, band[1]), band[2])
Size(x) == High(x, -x)

References(m) == [l \in Universe |-> m.line[l].ref]

-----------------------------------------------------------------------------
(* Cards: the volatility officer writes one per shocked line, an analyst's      *)
(* draft becomes one when it is about admitted lines and evidence of the pack.  *)

Admitted(m) == {l \in Universe : m.line[l].admitted}

VolCards(m) ==
    {[type |-> "vol_shock", scope |-> {l}, direction |-> "risk_down", qualifying |-> TRUE] :
       l \in m.shocked \cap Admitted(m)}

Writes(role) == IF role = "news" THEN {"news_material", "news_context"} ELSE {"macro_context"}
DraftProblem(role, d, m) == d.type \notin Writes(role) \/ ~(d.scope \subseteq Admitted(m)) \/ ~d.known

(* Mutant: what a filing is about is taken for what it says.                    *)
AnyCorroborated(d, m) == d.type = "news_material" /\ \E c \in VolCards(m) : c.scope \cap d.scope # {}

Corroborated(d, m) ==
    /\ d.type = "news_material" /\ ~d.filing
    /\ \E c \in VolCards(m) : c.scope \cap d.scope # {}

CheckDrafts(role, drafts, m) ==
    {[type |-> d.type, scope |-> d.scope, direction |-> d.direction, qualifying |-> Corroborated(d, m)] :
       d \in {x \in drafts : ~DraftProblem(role, x, m)}}

-----------------------------------------------------------------------------
(* Bands                                                                   *)

QualifyingCut(l, cards) ==
    \E c \in cards : c.type \in {"vol_shock", "news_material"} /\ c.qualifying /\ l \in c.scope

Into(band, to) ==
    LET lo == Clip(band[1], to) IN <<lo, High(lo, Clip(band[2], to))>>
NoAddInterval(current) == <<Low(0, current), High(0, current)>>

CoreBand(line, cut) ==
    LET band == CASE line.trend = "up" ->
                        <<High(line.ref - (IF cut THEN 2 ELSE 0), 0),
                          IF line.lever THEN Low(line.ref + 2, 6) ELSE line.ref>>
                  [] line.trend = "mixed" -> <<0, 4>>
                  [] line.trend = "down" -> <<IF line.short THEN -2 ELSE 0, 1>>
    IN <<Low(band[1], line.ref), High(band[2], line.ref)>>

OverlayBand(line) ==
    LET band == CASE line.trend = "up" -> <<0, 2>>
                  [] line.trend = "mixed" -> <<-1, 1>>
                  [] line.trend = "down" -> <<-2, 0>>
        lo == IF line.short THEN band[1] ELSE High(band[1], 0)
    IN <<lo, High(band[2], lo)>>

Band(l, cards, m) ==
    LET line == m.line[l]
        open == IF ~line.deviates THEN <<line.ref, line.ref>>
                ELSE IF line.core THEN CoreBand(line, QualifyingCut(l, cards)) ELSE OverlayBand(line)
    IN IF m.kill \in LATCHED THEN <<0, 0>>
       ELSE IF line.frozen \/ line.trend = "none" THEN <<line.current, line.current>>
       ELSE IF m.kill = "WARN" \/ line.event THEN Into(open, NoAddInterval(line.current))
       ELSE open

EnforceAuthority(levels, cards, m) == [l \in Universe |-> Clip(levels[l], Band(l, cards, m))]

-----------------------------------------------------------------------------
(* Audit: a deviation is [line, level, direction, ghost, cites]: ghost when it   *)
(* cites an id that is not in the pack, cites the cards it names.  A decision    *)
(* is a sequence of them and whether its decisive fact is a ghost.             *)

DirectionMatches(d, line) ==
    CASE d.direction = "cut" -> d.level < line.ref
      [] d.direction = "add" -> d.level > line.current
      [] d.direction = "short" -> d.level < 0
      [] d.direction = "cover" -> line.current < d.level /\ d.level <= 0
      [] d.direction = "lever" -> d.level > 4

ShortCards(l, cards) ==
    {c \in cards : c.direction = "risk_down" /\ l \in c.scope /\ c.type # "macro_context"}

(* What the gateway takes for a decision: a short list, whole levels.          *)
Parses(decision) ==
    /\ DOMAIN decision.devs \in {1..n : n \in 0..3}
    /\ \A i \in DOMAIN decision.devs : decision.devs[i].level \in Int

Reverts(i, d, taken, cards, m) ==
    LET line == m.line[d.line] IN
    \/ i > MaxDeviations \/ d.line \notin Universe \/ ~line.admitted \/ ~line.deviates \/ d.line \in taken
    \/ d.ghost \/ ~(d.cites \subseteq cards)
    \/ ~DirectionMatches(d, line)
    \/ d.level < 0 /\ d.cites \cap ShortCards(d.line, cards) = {}

Audited(decision, cards, m) ==
    LET step(r, i) ==
            LET d == decision.devs[i] IN
            IF Reverts(i, d, r.taken, cards, m) THEN [r EXCEPT !.reverted = @ + 1]
            ELSE [r EXCEPT !.levels[d.line] = d.level, !.taken = @ \cup {d.line}]
        n == Len(decision.devs)
        run == FoldLeftDomain(step, [levels |-> References(m), taken |-> {}, reverted |-> 0], decision.devs)
    IN [valid |-> ~decision.ghost /\ (n > 0 => 2 * run.reverted < n), levels |-> run.levels]

(* A replicate without a decision is at the reference, and invalid.              *)
Replicate(reply, cards, m) ==
    LET audit == IF reply = <<>> THEN [valid |-> FALSE, levels |-> References(m)]
                 ELSE Audited(reply[1], cards, m)
    IN [valid |-> audit.valid, levels |-> EnforceAuthority(audit.levels, cards, m)]

-----------------------------------------------------------------------------
(* Aggregation                                                             *)

ActionClass(level, line) ==
    CASE level - line.current >= line.deadband -> "up"
      [] line.current - level >= line.deadband -> "down"
      [] OTHER -> "hold"

Apart(a, b) == SumFunction([l \in Universe |-> Size(a[l] - b[l])])
Distance(i, valid, reps) == SumFunction([j \in valid |-> Apart(reps[i].levels, reps[j].levels)])
Medoid(valid, reps) ==
    CHOOSE i \in valid : \A j \in valid :
        LET di == Distance(i, valid, reps)
            dj == Distance(j, valid, reps)
        IN di < dj \/ (di = dj /\ i <= j)

Sharing(l, level, valid, reps, m) ==
    {i \in valid : ActionClass(reps[i].levels[l], m.line[l]) = ActionClass(level, m.line[l])}

(* Mutant: the medoid's own voice counts as agreement.                          *)
AggregateAlone(reps, m) ==
    LET valid == {i \in Replicates : reps[i].valid} IN
    IF valid = {} THEN [basis |-> "fallback_parse", levels |-> References(m)]
    ELSE LET best == reps[Medoid(valid, reps)].levels
         IN [basis |-> "council", levels |-> best]

Aggregate(reps, m) ==
    LET valid == {i \in Replicates : reps[i].valid} IN
    IF Cardinality(valid) < 2 THEN [basis |-> "fallback_parse", levels |-> References(m)]
    ELSE LET best == reps[Medoid(valid, reps)].levels
             alone == {l \in Universe : Cardinality(Sharing(l, best[l], valid, reps, m)) < 2}
         IN [basis |-> IF alone = {} THEN "council" ELSE "council_partial_reference",
             levels |-> [l \in Universe |-> IF l \in alone THEN m.line[l].ref ELSE best[l]]]
=============================================================================
