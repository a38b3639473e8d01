-------------------------------- MODULE Council --------------------------------
(***************************************************************************)
(* One council run of a cycle: analysts, debate, manager, and the single-agent  *)
(* control, each a stage of model calls, under the outage guard and the         *)
(* deadline of the cycle; then audit, bands and medoid.                      *)
(*                                                                         *)
(* A call goes through the gateway: a ladder of attempts, and after a reply the *)
(* checker refuses one correction with a ladder of its own.  The waits between  *)
(* attempts, the gateway's rate limit and the private capture are left out; a   *)
(* timeout and a transport failure are one status, "down", as the guard takes   *)
(* them.  The replies of the control are not followed: they decide nothing.  The *)
(* cards of the event officer are left out: they open no band and no short.      *)
(***************************************************************************)
EXTENDS Authority

CONSTANTS Ladder,          \* attempts of a turn (council.yaml: timeouts_s)
          Retries,         \* council.yaml: outage_guard.stage_retries
          Markets,         \* what the council may be called with
          NewsReplies, MacroReplies,   \* what an analyst may answer: sets of drafts
          Decisions(_)     \* what a manager may answer, given the cards

ASSUME CouncilConstants ==
    /\ Ladder \in Nat \ {0} /\ Retries \in Nat
    /\ \A m \in Markets : m.budget \in Int
    /\ \A m \in Markets : \A l \in Universe :
         /\ m.line[l].ref \in Int /\ m.line[l].current \in Int
         /\ m.line[l].trend \in {"up", "mixed", "down", "none"}

VARIABLES market,          \* the inputs of the run
          phase,           \* "start", the stages, "audit", "done"
          attempt,         \* of this stage, from 0
          calls,           \* the calls of this stage: [status, turn, step]
          answers,         \* calls the model answered, in the whole run
          drafts,          \* the drafts each analyst answered with
          heard,           \* manager replicates whose reply was a decision
          replies,         \* per replicate <<>> or <<its decision>>
          result           \* [basis, levels]
councilVars == <<market, phase, attempt, calls, answers, drafts, heard, replies, result>>

-----------------------------------------------------------------------------
(* The plan: the optional stages that fit in the budget of calls.               *)

DropOrder == <<"single_agent", "macro", "news">>
CallsOf(name) == IF name = "single_agent" THEN Cardinality(Replicates) ELSE 1
Optional(m) == {"news"} \cup (IF m.macro THEN {"macro"} ELSE {})
                        \cup (IF m.control THEN {"single_agent"} ELSE {})
Planned(kept) == 3 + Cardinality(Replicates) + SumFunction([r \in kept |-> CallsOf(r)])

PlanStages(m) ==
    LET left(k) == Optional(m) \ {DropOrder[i] : i \in 1..k}
        enough == {k \in 0..3 : k = 3 \/ Planned(left(k)) <= m.budget}
    IN left(Min(enough))

(* An analyst without news to read is not called.                              *)
KeptStages(m) == IF m.news THEN PlanStages(m) ELSE PlanStages(m) \ {"news"}

StageCalls(m, s) ==
    CASE s = "specialists" -> {<<r, 1>> : r \in KeptStages(m) \cap {"news", "macro"}}
      [] s = "debate" -> {<<r, 1>> : r \in {"bull_open", "bear", "bull_rebuttal"}}
      [] s \in {"pm", "single_agent"} -> {<<s, i>> : i \in Replicates}
      [] OTHER -> {}

Asked == [status |-> "asked", turn |-> 1, step |-> 1]
Enters(s, n) ==
    /\ phase' = s /\ attempt' = n
    /\ calls' = [c \in StageCalls(market, s) |-> Asked]

-----------------------------------------------------------------------------
(* One call. The turns of the debate come one after another.                    *)

CallOver(c) == calls[c].status # "asked"
Bull == <<"bull_open", 1>>
Bear == <<"bear", 1>>
Rebuttal == <<"bull_rebuttal", 1>>
MayRun(c) ==
    /\ c = Bear => CallOver(Bull)
    /\ c = Rebuttal => calls[Bear].status = "ok"

Running(c) == c \in DOMAIN calls /\ ~CallOver(c) /\ MayRun(c)
CallEnds(c, status) == calls' = [calls EXCEPT ![c].status = status]
Lost(c) == CallEnds(c, IF calls[c].turn = 1 THEN "down" ELSE "parse_fail")
Counts(c) == answers' = answers + IF calls[c].turn = 1 THEN 1 ELSE 0
Calling == UNCHANGED <<market, phase, attempt, drafts, heard, replies, result>>

(* The model answered and the checker took the reply.                          *)
Replies(c) == Running(c) /\ CallEnds(c, "ok") /\ Counts(c) /\ Calling

(* The checker refused the reply: one correction turn, then the call has failed. *)
Misreplies(c) ==
    /\ Running(c) /\ Counts(c) /\ Calling
    /\ IF calls[c].turn = 1 THEN calls' = [calls EXCEPT ![c] = [Asked EXCEPT !.turn = 2]]
       ELSE CallEnds(c, "parse_fail")

(* A timeout, a lost connection, a busy server: the next step of the ladder.     *)
Fails(c) ==
    /\ Running(c) /\ Calling /\ UNCHANGED answers
    /\ IF calls[c].step < Ladder THEN calls' = [calls EXCEPT ![c].step = @ + 1] ELSE Lost(c)

(* An answer that no retry mends, a refused bill among them.                    *)
Refused(c) == Running(c) /\ Lost(c) /\ Calling /\ UNCHANGED answers

-----------------------------------------------------------------------------
(* A stage                                                                  *)

StageOver == calls # << >> /\ \A c \in DOMAIN calls : CallOver(c) \/ (c = Rebuttal /\ CallOver(Bear) /\ ~MayRun(c))
Made == {c \in DOMAIN calls : CallOver(c)}

(* Mutant: a stage is asked again when any of its calls is down.                *)
SomeDown == \E c \in Made : calls[c].status = "down"
Down == \A c \in Made : calls[c].status = "down"

(* Every call of the stage failed: all of them are made again.                  *)
AsksAgain ==
    /\ StageOver /\ Down /\ attempt < Retries
    /\ Enters(phase, attempt + 1)
    /\ UNCHANGED <<market, answers, drafts, heard, replies, result>>

Ends(basis, levels) ==
    /\ phase' = "done" /\ result' = [basis |-> basis, levels |-> levels]
    /\ attempt' = 0 /\ calls' = << >>

(* A stage the council cannot do without stays down: no later stage is tried.    *)
GivesUp ==
    /\ StageOver /\ Down /\ attempt >= Retries /\ phase # "single_agent"
    /\ Ends("council_unavailable", References(market))
    /\ UNCHANGED <<market, answers, drafts, heard, replies>>

Offered(role, drawn) == IF <<role, 1>> \in DOMAIN calls /\ calls[<<role, 1>>].status = "ok" THEN drawn ELSE {{}}

HearsAnalysts ==
    /\ phase = "specialists" /\ StageOver /\ ~Down
    /\ \E n \in Offered("news", NewsReplies), o \in Offered("macro", MacroReplies) :
         drafts' = [news |-> n, macro |-> o]
    /\ Enters("debate", 0)
    /\ UNCHANGED <<market, answers, heard, replies, result>>

HearsDebate ==
    /\ phase = "debate" /\ StageOver /\ ~Down
    /\ Enters("pm", 0)
    /\ UNCHANGED <<market, answers, drafts, heard, replies, result>>

HearsManager ==
    /\ phase = "pm" /\ StageOver /\ ~Down
    /\ heard' = {i \in Replicates : calls[<<"pm", i>>].status = "ok"}
    /\ Enters(IF "single_agent" \in KeptStages(market) THEN "single_agent" ELSE "audit", 0)
    /\ UNCHANGED <<market, answers, drafts, replies, result>>

(* An outage of the control is only a flag.                                     *)
HearsControl ==
    /\ phase = "single_agent" /\ StageOver /\ (Down => attempt >= Retries)
    /\ Enters("audit", 0)
    /\ UNCHANGED <<market, answers, drafts, heard, replies, result>>

Cards ==
    VolCards(market) \cup CheckDrafts("news", drafts.news, market) \cup CheckDrafts("macro", drafts.macro, market)

(* What the replicates said is looked at only here.                             *)
Audits ==
    /\ phase = "audit"
    /\ \E said \in [heard -> {d \in Decisions(Cards) : Parses(d)}] :
         /\ replies' = [i \in Replicates |-> IF i \in heard THEN <<said[i]>> ELSE <<>>]
         /\ LET reps == [i \in Replicates |-> Replicate(replies'[i], Cards, market)]
                sum == Aggregate(reps, market)
            IN Ends(sum.basis, sum.levels)
    /\ UNCHANGED <<market, answers, drafts, heard>>

-----------------------------------------------------------------------------
(* The cycle around it                                                       *)

CouncilInit ==
    /\ market \in Markets
    /\ phase = "start" /\ attempt = 0 /\ calls = << >> /\ answers = 0
    /\ drafts = [news |-> {}, macro |-> {}] /\ heard = {} /\ replies = [i \in Replicates |-> <<>>]
    /\ result = [basis |-> "none", levels |-> References(market)]

Movable ==
    {l \in Admitted(market) :
       LET band == Band(l, VolCards(market), market) IN market.line[l].deviates /\ band[1] < band[2]}
CodeLevels == EnforceAuthority(References(market), VolCards(market), market)

Begins ==
    /\ phase = "start" /\ market.kill \notin LATCHED /\ Movable # {}
    /\ Enters(IF KeptStages(market) \cap {"news", "macro"} # {} THEN "specialists" ELSE "debate", 0)
    /\ UNCHANGED <<market, answers, drafts, heard, replies, result>>

SkipsHalted ==
    /\ phase = "start" /\ market.kill \in LATCHED
    /\ Ends("halted", [l \in Universe |-> 0])
    /\ UNCHANGED <<market, answers, drafts, heard, replies>>

SkipsStill ==
    /\ phase = "start" /\ market.kill \notin LATCHED /\ Movable = {}
    /\ Ends("code_only", CodeLevels)
    /\ UNCHANGED <<market, answers, drafts, heard, replies>>

(* The deadline of the cycle cancels the run at whatever call it waits for.      *)
TimesOut ==
    /\ phase \in {"specialists", "debate", "pm", "single_agent"}
    /\ Ends("council_unavailable", CodeLevels)
    /\ UNCHANGED <<market, answers, drafts, heard, replies>>

CouncilNext ==
    \/ Begins \/ SkipsHalted \/ SkipsStill \/ TimesOut
    \/ \E c \in DOMAIN calls : Replies(c) \/ Misreplies(c) \/ Fails(c) \/ Refused(c)
    \/ AsksAgain \/ GivesUp \/ HearsAnalysts \/ HearsDebate \/ HearsManager \/ HearsControl \/ Audits

CouncilSpec == CouncilInit /\ [][CouncilNext]_councilVars

-----------------------------------------------------------------------------
(* Properties *)

(* A retried stage never buys the model a second say: however calls fail and are *)
(* made again, no more of them are answered than the plan has, and the optional   *)
(* ones fit in the budget (council.py, "it never adds model responses beyond    *)
(* the planned budget").                                                     *)
AnswersFitBudget ==
    /\ answers <= Planned(PlanStages(market))
    /\ Planned(PlanStages(market)) <= High(market.budget, Planned({}))

(* No reply alone takes an uptrend line below both its reference and its          *)
(* holding: the code has seen a volatility shock, on that line or on one a news   *)
(* card names with it, and that card rests on more than a filing's form.        *)
SeenTogether(l) ==
    \E d \in drafts.news :
        /\ d.type = "news_material" /\ d.known /\ ~d.filing /\ l \in d.scope
        /\ d.scope \cap market.shocked # {}
CutNeedsShock ==
    phase = "done" /\ market.kill \notin LATCHED =>
        \A l \in Universe :
            LET line == market.line[l] IN
            line.trend = "up" /\ line.core /\ ~line.frozen /\ result.levels[l] < Low(line.ref, line.current) =>
                l \in market.shocked \/ SeenTogether(l)

(* One manager's reply never moves a line: where the result is not at the         *)
(* reference, two replicates that passed the audit move it the same way.        *)
NoLoneMove ==
    phase = "done" /\ result.basis \in {"council", "council_partial_reference"} =>
        \A l \in {x \in Universe : result.levels[x] # market.line[x].ref} :
            \E i, j \in heard :
                /\ i # j
                /\ \A k \in {i, j} :
                     LET rep == Replicate(replies[k], Cards, market) IN
                     /\ rep.valid
                     /\ ActionClass(rep.levels[l], market.line[l]) = ActionClass(result.levels[l], market.line[l])
=============================================================================
