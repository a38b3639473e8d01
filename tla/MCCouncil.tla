------------------------------- MODULE MCCouncil -------------------------------
(***************************************************************************)
(* Two lines and three manager replicates. The markets: an uptrend with and    *)
(* without a shock, a warning, a downtrend that may be shorted, an overlay and   *)
(* a frozen line, a halted and a still one; the budget drops nothing, the        *)
(* control, or all that is optional.                                          *)
(***************************************************************************)
EXTENDS Council

Line(trend, ref, current) ==
    [trend |-> trend, frozen |-> FALSE, core |-> TRUE, deviates |-> TRUE, admitted |-> TRUE, ref |-> ref,
     current |-> current, event |-> FALSE, lever |-> FALSE, short |-> FALSE, deadband |-> 1]
Overlay(trend, current) == [Line(trend, 0, current) EXCEPT !.core = FALSE, !.short = TRUE]
Pinned(l) == [l EXCEPT !.deviates = FALSE]

Market(a, b, shocked) ==
    [kill |-> "NORMAL", line |-> ("a" :> a @@ "b" :> b), shocked |-> shocked, news |-> TRUE,
     macro |-> FALSE, control |-> FALSE, budget |-> 11]

Up == Line("up", 4, 4)
SomeMarkets ==
    { Market(Up, Up, {}), Market(Up, [Up EXCEPT !.lever = TRUE, !.current = 5], {"a"}),
      [Market(Up, [Up EXCEPT !.current = 3], {"a", "b"}) EXCEPT !.kill = "WARN"],
      [Market([Up EXCEPT !.event = TRUE, !.current = 2], [Line("down", 1, 2) EXCEPT !.short = TRUE], {"b"})
         EXCEPT !.macro = TRUE, !.budget = 8],
      [Market([Up EXCEPT !.frozen = TRUE], Overlay("mixed", -1), {}) EXCEPT !.macro = TRUE, !.news = FALSE],
      [Market(Line("mixed", 3, 2), [Up EXCEPT !.admitted = FALSE], {}) EXCEPT !.news = FALSE, !.control = TRUE],
      [Market(Up, Pinned(Up), {}) EXCEPT !.control = TRUE, !.macro = TRUE, !.budget = 7],
      [Market(Up, Up, {"a"}) EXCEPT !.kill = "HALTED"],
      Market(Pinned(Up), [Up EXCEPT !.trend = "none"], {}) }

Draft(type, scope, direction) ==
    [type |-> type, scope |-> scope, direction |-> direction, known |-> TRUE, filing |-> FALSE]
Both == Draft("news_material", {"a", "b"}, "risk_down")
SomeNews ==
    { {}, {Both}, {[Both EXCEPT !.filing = TRUE]}, {[Both EXCEPT !.known = FALSE]},
      {Draft("news_context", {"b"}, "risk_down"), [Both EXCEPT !.type = "macro_context"]} }
SomeMacro == { {}, {Draft("macro_context", {"b"}, "risk_down")} }

Deviation(line, level, direction, cites) ==
    [line |-> line, level |-> level, direction |-> direction, ghost |-> FALSE, cites |-> cites]
Decided(devs) == [devs |-> devs, ghost |-> FALSE]
SomeDecisions(cards) ==
    { Decided(<< >>), Decided(<<Deviation("b", 2, "cut", {})>>), Decided(<<Deviation("b", 0, "cut", cards)>>),
      Decided(<<Deviation("b", -2, "short", cards), Deviation("a", 6, "lever", {})>>),
      Decided(<<Deviation("b", 6, "add", {}), Deviation("b", 4, "add", {}), Deviation("a", 2, "cut", {})>>),
      [Decided(<<Deviation("a", 2, "cut", {})>>) EXCEPT !.ghost = TRUE],
      Decided(<<Deviation("a", 2, "cut", {}), [Deviation("b", 2, "add", {}) EXCEPT !.ghost = TRUE]>>),
      Decided(<<Deviation("a", 6, "lever", {}), Deviation("b", 2, "cut", cards), Deviation("unknown", 2, "cut", {})>>) }
=============================================================================
