# council-book in TLA+

council-book runs a council of language models that proposes trades every four
hours.  A deterministic risk engine clips each proposal, a sealed commitment is
pushed to git, a human approves in a terminal, and an executor sends the orders
to the broker (eToro).  A watch job looks at the results every fifteen minutes
and never sends anything.  All of them share one SQLite ledger, one clone of a
public journal, and one brokerage account.

This directory holds models of the parts whose correctness depends on the order
of steps taken by several processes, the TLC configurations that check them, and
proofs that TLAPS checks.  Every definition is translated from the source, and
`PROJECT.json` maps each one to the lines it stands for.  Paths below are
relative to `src/src/council/`.

Contents: 1 the system; 2 the modules; 3 the runs; 4 the proofs; 5 what the
models leave out; 6 where the code and its documents disagree; 7 the plan.

## 1. The system

### Processes and what they share

| Process | Started by | Excludes | Writes |
| --- | --- | --- | --- |
| `council cycle` (`cycle.py`) | timer, every 4 h | the watch (instance lock, `runtime.py`) | decisions, legs, kill state, NAV state, journal |
| `council watch` (`watch.py`) | timer, every 15 min | the cycle (same lock) | leg outcomes, decision states, kill state, journal |
| `council-op approve` with the executor inside it (`operator/approve.py`, `execution/executor.py`) | operator | other executors (`flock`) | decisions, legs, orders at the broker |
| `council-op resume-exec` | operator | other executors | leg outcomes, decision state, report |
| `council-op reject`, `ops resolve`, `ops review`, `resume` | operator | nobody | decisions, legs, kill state |

The operator's commands do not take the instance lock: every one of them may
interleave with a cycle or a watch.  A ledger call is one `BEGIN IMMEDIATE`
transaction, so the interleaving is one of ledger calls, broker calls, git
commands and file writes.  Those are the actions of the models.

### Components, their state, and what makes them correct

* **Decision ledger** (`ledger/db.py`, `ledger/states.py`).  State: the tables
  decisions and legs, the event log, the key-value table runtime.  Operations:
  `create_decision` (expire, refuse, supersede, insert), `transition` (table and
  actor), `expire_stale`, `update_leg`, `blockers`.  Correct when at most one
  proposal is open, a lower priority never pushes out a higher one, only what
  the operator approved is executed, and no decision comes back.
* **Executor** (`execution/executor.py`, `execution/reconcile.py`).  State: the
  rows of one decision, the flags of the run, the orders at the broker.
  Operations: `execute` (drops, phases, write-ahead, submit, poll, cancel and
  re-check, reconcile, finish) and `resume` (recover every leg without sending).
  Correct when a leg has at most one order through any crash or lost answer, the
  ledger never denies an order the broker has, opens follow their closes, and a
  run that stops short blocks the right part of the book.
* **Held orders** (`watch.py` `_resolve_one`, `operator/approve.py`
  `resolve_waiting`, `review`).  State: legs in `waiting_for_market`, their
  deadline, the public execution record.  Correct when the hold stays until the
  order is over, a broken fill blocks, and every hold ends.
* **Kill switch** (`risk/killswitch.py`, `risk/nav.py`, `_snapshot_and_kill`).
  State: lifetime peaks, recent equity reads, NORMAL / WARN / HALTED / FLAT.
  Correct when it latches exactly on a confirmed breach, only a human releases
  it, and proposals suit it.
* **Publication** (`publish/`, `cycle._seal_and_publish`, `watch._publish_rows`,
  the reports of `approve`).  State: working tree, index, branch and remote of
  the journal clone, runtime lists of what is done.  Correct when a commitment
  is public before risk is taken and the sealed text only after.
* **Operator approval** (`operator/approve.py`, `operator/guards.py`).  Checks
  in order: state and expiry, switch, commitment, snapshot, drift, market hours,
  swing guard, screen, typed nonce, re-check, transition, execution, report.
  Correct when what is handed to the executor is risk first and whole: no half
  trim, no open without the close it rests on.
* **Rate limiter** (`execution/ratelimit.py`).  State: the times of the last
  acquisitions, a pause.  Correct when no window of a minute holds more than 18
  writes (the broker refuses the 21st), and a pause the broker asks for is kept.
* **Cycle** (`cycle.py` `_run`, `runtime.py`).  State in the ledger: expired and
  new decisions, legs, cycle records, consumed evidence; the rest is memory of
  the process.  Correct when what the operator is offered is complete wherever a
  cycle died, and evidence is used up only by a line that could act on it.
* **Swing trades** (`swing/models.py`, `swing/record.py`, `swing/exits.py`,
  `ledger/db.py` swing tables, `settle_swing`, `watch._swing_closed`).  One row a
  trade, written by cycle, executor, watch and terminal.  Correct when the row
  ends closed only with nothing left at the broker, knows every fill, is missed
  only when nothing was bought, and is not left pending by an exit that is over.
  `SWING_BOOK_LIVE` is False at this commit; the code paths are modelled as they
  run when it is set.
* **Swing rules and pauses** (`swing/rules.py`, `swing/brake.py`, `_book_state`).
  Admit entries against the book; latch and lift two pauses.  Correct when the
  book keeps its capacity and a pause leaves no entry to approve.
* **Planner** (`execution/planner.py`).  From book, targets and swing orders to
  legs, their order and their dependencies.  Correct when reductions come first
  and a line ends between where it is and where it should go.
* **Risk engine** (`risk/engine.py`).  Projects the target into limits, filters
  lines back to the base, repeats, and tries swing entries.  Correct when every
  rule recomputed on the final book passes, entries cost the core nothing, and a
  latched switch or a warning only lowers risk.
* **Deliberation and gateway** (`deliberation/`, `llm/gateway.py`).  Stages of
  model calls, retry ladders, outage guard, deadline; cards, bands, audit, vote.
  Correct when retries add no answers, no reply alone moves a line, and no news
  alone cuts one.
* **Reference book, stock sleeve, facts, data sources, paper book**: numeric
  work and network reads without state shared with the order path.
* **Fake broker, rehearsal, command line, backup, purge**: test doubles and
  tools.

`PROJECT.json` lists every component with what is modelled of it and why the
rest is not.

### How they interact

    cycle --decision, seal--> ledger <--state moves-- approve --legs--> executor
      |                         ^                                         |
      +--commitment--> journal  |--leg outcomes-- watch <--order status-- broker
                         ^      |                   |
                         +------+---reveals, reports+

The hard behaviours are the ones this creates: two programs moving the same
row, a value read before a screen or a push and used after it, an answer lost
between the write-ahead and the after-image, a process dying between any two
writes, a held order that fills days later, a git command that fails half-way.
The `hazards` of `PROJECT.json` list them at their lines.

## 2. The modules

| Module | Models | Composes |
| --- | --- | --- |
| `LedgerStates` | decision and leg state tables, priority, `update_leg` guard, `blockers` and `_scope` | used by all below |
| `DecisionLedger` | the decisions table and its event log | |
| `ProposalSlot` | abstract: one slot, offered, granted or lost once | implemented by `DecisionLedger` |
| `Executor` | execute, resume, crash, and the broker (external) | legs of one decision |
| `OrderBook` | abstract: a leg is due and alone when it is asked for, placed once, and over as its order bears out | implemented by `Executor` |
| `HeldOrders` | watch sweep and operator commands on held legs, and the record | watch and terminal |
| `KillSwitch` | the switch, and cycle, watch and terminal around it | cycle, watch and terminal |
| `Publication` | seal, commitment, reveal, report and smoke row through git | cycle, watch, terminal and git |
| `Cycle` | one slot after the other: what a cycle stores, step by step, and its deaths | cycle, terminal, executor |
| `SwingBook` | the swing stage inside the cycle: rules on the book, pauses, lifts | extends `Cycle` |
| `SwingTrades` | the row of one trade, its decisions and its positions | cycle, executor, watch, terminal, broker |
| `Plans` | the planner as operators: book, targets and orders to legs | |
| `PlanApproval` | a plan in the terminal while markets close and books move | extends `Plans` |
| `RiskEngine` | one evaluation, from council levels to the final book | |
| `Authority` | cards, bands, audit, agreement of the replicates, as operators | |
| `Council` | one council run: stages, calls, outage guard, deadline | extends `Authority` |
| `RateLimiter` | the sliding window between executor, clock and broker | |
| `DataInduction` | induction and recursion over numbers and finite sets, and sums, as lemmas | used by the proofs about data |
| `*Proofs` | theorems about the module they are named after; `ExecutorProofs` also those about `RateLimiter`, `DecisionLedgerProofs` about `PlanApproval`, `CycleProofs` about `SwingBook` and `Council`, `KillSwitchProofs` about `RiskEngine` | |
| `MC*` | constants of the runs | |

**LedgerStates / DecisionLedger.**  The variables `state`, `kind`, `validUntil`,
`supersededBy` are the columns of the decisions table and `events` is the table
decision_events.  `Create`, `Transition` and `ExpireStale` are the methods of
`Ledger`, each one transaction; a refused call is a disabled action.  Any
program may call any of them at any time.  Time is a counter bounded by
`MaxTime`; a deadline lies before, at or after it.  `ProposalSlot` says what callers rely
on: the slot offers one decision at a time, only the one on offer is granted,
and what lost the offer is never granted; `Slot` is the refinement mapping.

**Executor.**  `pc` is the place in `execute` / `resume` where the program makes
its next ledger or broker call; `cur` the leg in hand; `flags` the booleans of
`_Run` (`unknown`, `blocked`, `stop_opens`, `stop_swing`, ...); `rows` what
`resume` read before it took the lock; `order[l]` and `placed[l]` the order of a
leg at the broker and how many it has received.  `Crash` may happen at every
step and loses all but rows and broker.  An answer is accepted, refused, 429 or
ambiguous, and an ambiguous write may have reached the broker or not.  Prices,
units and tolerances are one bit, `mismatch`.  `CancelVerified` is the module
constant of the code that says whether the cancel route has been verified.
`OrderBook` is what is left of that when the process is taken away: no `pc`, no
write-ahead, no polls.  `Stage` reads every row between its write-ahead and its end
as *asked*, `Fate` reads a working or held order as *live*; a crash, a read, a
cancel, a poll and the settling of the decision are stutters.

**HeldOrders.**  One action a row for the sweep of the watch, since the terminal
may write the same rows between two of them; `late[l]` stands for the passing
of `waiting_deadline`; `record` / `published` for the report and its public
form; `dropped` is history, it says that a run which met a problem ended
before it settled the decision.  Both processes may die at any step.

**KillSwitch.**  The five steps of a check - lock and expiry, broker read,
record of the read, verdict, proposal - are five actions, so the operator, the
account and the clock move between them.  Reads are kept as `[age, eq]`:
keeping ages and not times makes the state space finite without a bound on the
number of ticks.  A tick is one `confirm_gap_s`.  Equities are in percent of the
first read.  `real_peak` is the peak of the fee-adjusted equity.

**Publication.**  `tree`, `index`, `branch`, `remote` give the version of each of
four files (commitment, reveal, execution report, smoke row) in the clone and on
the remote; `pub` is the place inside `gitops.publish` and who called it.
`Write`, `Add`, `Commit` and `Push` are its git commands; each may raise, the
process may die in each, and a push may fail although the commit stands.

**Cycle.**  `run` is what the process holds in memory and its place; `stored`,
`recorded` and `dec` are the ledger.  Decision, legs, record, opening and
evidence are transactions of their own, so each is an action, and `Dies` may
follow any of them.  The evidence of a line is its own fingerprint and the
market's (`runtime.material_key`); a new slot brings any fingerprints.  What the
council, the engine and the swing stage choose is any choice they may make.

**SwingBook.**  The swing stage lies between `Reads` and `Evaluates`: settle,
load the pauses, save them, pass.  `trade[slot][ticker]` is a row; `orphan` is an
offer whose decision a second run of its slot replaced, `lost` an entry whose row
could not be written, `bare` the row the executor then makes itself.  The lift of
the operator loads and saves the same runtime row without the lock.

**SwingTrades.**  `trade` is the row, `decs` the decisions about it with the state
of each leg and of the order behind it, `live` the positions at the broker.
Stops, targets and the operator's hand take positions at any moment.  The steps
that read a portfolio and write later (`snap`, `watched`) are split there; the
executor's close of a trade may die between its writes.

**Plans / PlanApproval.**  A position is an id, a line and a signed weight; a leg
is named by what it does, so that a dependency is a name.  `BuildPlan` follows
`build_plan`: new, add, trim, re-open, flip, exit, hedge, then swing
orders, order and caps.  `PlanApproval` then lets markets close and open,
positions vanish and prices run until the nonce, and computes the drop sets with
the fixpoint of the code; `sent` is what the executor gets.  `Room` is the caps on
legs and on the entries and take-profits of the swing book (`MaxSwingOpens`).

**RiskEngine.**  Weights are whole grains, so every step of the projection is exact.
The steps are operators in the order of the code, one action each for the
facts, a round (project, then filter) and the decision; `live` and `entries` are
the retries with fewer swing entries.

**Authority / Council.**  A level is a number of quarters.  `Authority` holds the
code that runs on replies.  `Council` runs the stages: each call climbs a ladder
of attempts and may be corrected once; a stage whose calls are all down is asked
again as a whole; the deadline may fall at any step.

**RateLimiter.**  The clock may move between any two steps, also between the check
and its record and between the record and the arrival of the write.  No run uses
it: its theorems cover every capacity, window and pause.

## 3. The runs

Every run finishes within five minutes with two workers; `exec_core`, `exec_swing`,
`kill_switch`, `plan_approval` and `swing_book` take one to two.

| Run | What it asks | Bounds |
| --- | --- | --- |
| `decision_ledger` | does the table keep one open offer, never go back, and implement `ProposalSlot`? | 2 decisions, any kind, one tick, any program in any order |
| `exec_core` | a mixed plan through every answer, crash and resume: what may follow what, and what a final state may hide | stock close, core close, the core open that waits for the first, swing entry, its target; 2 attempts; 5.6 million states |
| `exec_swing` | does every step keep `OrderBook`, what may a swing leg stop, and does every run under the lock end? | swing exit, a stock open that need not wait for it, a swing entry that must; 3 attempts; fair; 0.76 million states |
| `held_orders` | do held orders hold their book and every hold end? | core close and stock open, watch and terminal, either dying |
| `kill_switch` | does the switch latch exactly when it should and release only by resume? | 2 equities, drag 0 or 20 %, 3 reads kept, window 1 tick |
| `publication` | is risk public before it is taken and sealed text only after? | one decision of any sort, report stored up to 3 times |
| `swing_book` | do offers stay complete, evidence wait, the book fit and a pause hold, across dying cycles? | 2 slots, 1 core line, 2 names, room for 1 trade, 1 pause; 7.1 million states |
| `swing_trades` | does the row of a trade follow what it owns? | 2 positions, 2 decisions: an entry that opens one, or an open trade of two |
| `plan_approval` | is what is sent risk first and whole? | 3 core lines and 2 swing lines, up to 5 positions, 1 swing entry a proposal, 2 moves of the market; 1.6 million states |
| `risk_engine` | do all rules hold on the final book, at no cost of the core? | 3 managed lines, 1 locked, 2 swing; the inputs `SomeCases` |
| `council` | do retries add answers, may one reply or one story move a line? | 2 lines, 3 replicates, ladder 2, 1 stage retry, 9 markets |
| `skipped_close` | where the code breaks what it says of itself (section 6) | the plan of `exec_swing` |

Why the bounds are enough to meet the interesting cases:

* Every property of `DecisionLedger` relates at most two decisions, the one on
  offer and the one that supersedes it or is refused.  Two decisions are
  symmetric model values.  The theorems cover any number.
* The plans of the executor runs hold a close of each book, an open that waits for
  one of them, a swing entry with its target, a swing exit and an open another
  sleeve owns: with two closes in different books, a hold of one is told from a
  hold of both.  Two attempts tell the one retried answer (429) from the rest;
  the run of `OrderBook` and of liveness has the three attempts of the code, with an
  open that its close stops and one that it does not.  The theorems cover any plan.
* In `held_orders` the two legs differ in kind and in book, so a hold that is
  narrowed to one of them while the other waits is seen.
* In `kill_switch` two equities, a peak and a breach, are enough: a verdict
  depends on which side of each line a read is; with a drag of 20 % the
  adjusted equity at the peak falls on the WARN line, so WARN is met too.
  Two confirming reads and one between them exercise
  the walk, its reset and its gap; a window of one tick makes reads fall out.
* In `publication` a report may be stored, published, replaced and replaced
  again; the fourth file version tells nothing new.
* In `swing_book` two slots let an offer of the first meet the pass of the second
  in every state of its decision, and one slot can be run twice; a book of one
  makes every stray row count.  `CycleProofs` proves all four properties for any
  lines, slots, tickers, pauses and capacities.
* In `swing_trades` two positions are what an exit can half fill, and two decisions
  are an exit that failed and the one after it.  The theorems cover any number.
* In `plan_approval` the first line can be trimmed with one of its two positions
  closed whole and the other in part or re-opened, and a broker's minimum of two
  turns a small remainder into a full close; the second can flip, or is held on
  both sides and only flattened; the third is new; the first swing line enters or
  exits and the second can only be the entry that the cap refuses; one market can
  close and another open.
* In `risk_engine` the cases lie around the limits: wants beyond each cap, reasons of
  each filter on one line or another, and lines whose base is over a limit that
  a filter then holds there; in one family of cases the unmapped line alone is
  over the hard limit.
* In `council` the markets hold a shock and none, a warning, a halt, a line that
  may be shorted, one that is frozen and one that is not admitted; the replies
  agree, differ and lie.

Nothing is left out by a state constraint: bounds sit in the guards and are the
named constants (`MaxTime`, `MaxAttempts`, `Window`, `Keep`, `Delay`, `Life`,
`LastReport`, `LastSlot`, `MaxDecisions`, `Moves`, `Ladder`, `Retries`).  Where
`CHECK_DEADLOCK FALSE` stands, the system really stops: all decisions final,
nothing held, nothing left to publish, no slot left.

### Fairness

* `exec_swing`: weak fairness of the executor's own step.  It is a program that
  runs; every broker call returns or times out (the HTTP client has a timeout),
  and the model lets each answer be any of its outcomes for ever.  The property
  rests on the bounded polls and attempts alone.  A crash ends a run too.
* `held_orders`: the watch is started every 15 minutes (weak fairness of its
  step), deadlines pass (weak fairness), and from some point on not every run is
  cut off in the middle of its rows; its last steps are strongly fair because a
  later read may still fail in any one run.  Without it the broker may stay
  unreadable and a hold whose legs are all over waits for the next full sweep.
  Nothing is assumed of the broker: an order may stay held for ever.
* `publication`: the timers run (weak fairness of the watch, the cycle and the
  publish they are in), git does not fail for ever (strong fairness of the
  successful write, add, commit and of the push), and deaths become rare.

Each property of a passing run has a mutant in `PROJECT.json`: a plausible bug
in the modelled code (a dropped guard, a swapped order, a missing reset, a check
taken too early) under which TLC finds the property violated.

## 4. The proofs

TLAPS proves, for every value of the constants:

| Theorem | States |
| --- | --- |
| `DecisionLedgerProofs!TypeCorrect`, `OnePending`, `NeverOutranked`, `ApprovedBeforeExecuted`, `NeverBack` | one open offer, superseded only upward, executed only if approved, nothing entered twice (the second and third are proved only, no run asks for them) |
| `DecisionLedgerProofs!LedgerImplementsSlot` | the decisions table implements `ProposalSlot` |
| `ExecutorProofs!TypeCorrect`, `OneOrderPerLeg`, `OrdersAdmitted`, `OpensFunded`, `NeverInDoubt` | at most one order a leg, no order the ledger denies, opens only after the closes they wait for, nothing sent in doubt, for every plan and any number of crashes and resumes |
| `ExecutorProofs!FinalIsResolved`, `BookHeld`, `CoreStopped` | a final state hides no leg, a decision that stopped short holds its book (both unless a resume ran on outdated rows), and what may stop the core opens, for every plan |
| `ExecutorProofs!ExecutorKeepsBook` | the executor implements `OrderBook`: whatever crashes, is resumed, is lost or is read too late, an order leaves only of a leg that is due and alone in doubt, at most one of a leg, and what the ledger says of a leg is borne out by its order, for every plan |
| `HeldOrdersProofs!BooksHeld`, `SettledTruly`, `BrokenFillHolds` | an order that is waited for holds its book, what is settled is over, a broken fill blocks at once, for any legs |
| `KillSwitchProofs!ReleasedByResume`, `OffersSuit`, `HaltIsConfirmed` | only a resume releases the latch; what is opened suits the switch; the switch latches exactly when enough breaching reads, a gap apart and with none above the line since, stand, for any equities, lines, windows and counts |
| `PublicationProofs!TypeCorrect`, `CommittedBeforeRisk`, `SealedUntilOver`, `TicketAfterRow` | commit before risk, seal while open, ticket after row |
| `CycleProofs!OffersComplete`, `EvidenceKept` | offers are complete and evidence waits, for any lines and slots |
| `CycleProofs!BookIsCycle`, `BookAlwaysFits`, `PausedOffersNothing` | every run of the swing book is one of `Cycle`; the book fits and a pause leaves nothing on offer, for any tickers, bounds, pauses and slots |
| `SwingTradesProofs!MissedTruly`, `ExitsSettle`, `ClosedTruly`, `FillsRecorded` | the row of a trade follows its positions, for any positions and decisions |
| `CycleProofs!LoneRepliesMoveNothing`, `CutsNeedShocks`, `RetriesBuyNoAnswers` | a line is moved by two replicates or by none, cut below its reference and its holding only on a shock, and a run counts no more answers than its plan, for any replies, lines, markets, ladders and budgets |
| `DecisionLedgerProofs!RiskFirst`, `TrimsStayTrims`, `LinesLand`, `GrossStaysInside` | whatever is dropped between plan and approval, what is sent reduces first and is whole, a line ends between where it is and where it should go, and the core is no larger than before or than the whole plan, for any books and weights |
| `KillSwitchProofs!EntriesCost`, `Derisks` | swing entries leave the core book and its checks as they are, and under WARN or above the hard limit the engine only lowers risk, for any lines, limits, groups and inputs |
| `KillSwitchProofs!ChecksPass` | the book the engine settles on passes every rule recomputed on it, for any lines, limits, groups, costs and inputs (the exceptions are in the property) |
| `ExecutorProofs!StrictWindow`, `BrokerWindow`, `PauseKept` | the quota, as the limiter counts it and as the broker sees it, and the pause |

*Assumptions.*  The named ASSUMEs of the modules only, each as weak as the code
justifies, and TLC evaluates them in the runs: a plan has closes, opens and
changes with dependencies among its legs, the number of attempts is positive,
HALT lies below WARN below 100 %, bounds are natural numbers; a book of positions
is finite and each position has an id of its own; weights, levels, targets,
minima and caps are whole numbers (grains).  Of the engine, `RiskConstants`: it has a
line, its limits are in order, volatilities, costs and counts are not negative, while
what is left of a budget may be; and `RiskCases`: the band of a managed line is in
order, an entering swing line has no position yet (`cycle.py:2408`), and an open
swing trade enters to be held as it is or closed.

*Arguments.*

* **DecisionLedger.**  The inductive invariant `IInv` is the types, the single
  open decision, the superseder's priority, the approval event behind every
  state of execution, and `LogRanked`: every event left a state of lower rank
  than its decision is in now.  The rank orders the states so that every move of
  the table climbs (`MovesClimb`); that is why no state is entered twice, which
  the table alone does not show.  The refinement maps the slot's offered and granted sets to
  the states of the rows; each step is a step of the slot or a stutter.
* **Executor.**  The write-ahead is the argument: `SendInvariant` says where the
  program stands (`pc`, `cur`, `attempt`) determines which legs can have an
  order.  A leg still `planned` has none; a leg has more room for an order only
  between its write-ahead and the first answer that is not a 429, because a
  429 or a refusal proves that nothing was placed; resume moves legs but never
  sends.  `AtMostOneOrder`, which the runs check as part of `OrderBook`, and
  `LedgerAdmitsOrders` follow from it.  The other two
  need that an execution carries its doubts: each close behind the leg in hand
  is filled, or the flags and the drop set of the run stop the opens that must
  follow it; each leg in doubt has set `unknown` or `blocked`, and with it every
  phase is left before the next write.
  For the end of a run (`ExactInv`) the flags are the argument: every leg behind
  the run has left in them how it ended (`Resolves`), a resume on true rows still
  finds the legs ahead of it as it read them (`RunTells`), so the state it
  concludes with is true of all legs; and once a decision is complete or holds the
  satellite no leg is in a state that can move (`NothingMoves`).
* **OrderBook.**  The invariant of the refinement is `BookInv`.  `RunInv` says that a
  leg is due and alone when its write-ahead is stored, `LedgerInv` that it has no
  order before, and `Read` that what the run has read of the order in hand - held,
  filled in part, failed after a part - is still true when it writes it down, since
  an order at the broker only goes forward.  So every after-image is a `Learn` whose
  state the order bears out (`Borne`).  A refused ledger call fails closed and
  changes nothing of the book; a take-profit that is already set is always refused
  (section 6), so its leg stays planned.
* **KillSwitch.**  The lock is the argument: whoever runs holds it (`Exclusive`),
  so between the read of the stored state and the verdict only the operator can
  have changed the switch, and a resume only lowers it (`KnowsLatch`); after the
  verdict the switch is the verdict or NORMAL (`Stands`); a sealed proposal
  suits the verdict (`Suits`).  The proof looks into `Evaluate` only to see that
  a latched state stays latched: for the first two theorems it does not matter how
  a breach is confirmed.
* **Publication.**  A file's version never grows from remote to branch to tree,
  a publish in progress carries the files its caller named, and a call that
  answers `pushed` has left remote and branch equal; so the caller's next step,
  which opens or marks, finds the row where it believes it is.
* **Cycle.**  The place of the running cycle tells how much of its slot is stored:
  before the record the decision is not beyond publication, after it legs and
  record are there, and a slot with a record is not started again.
* **SwingBook.**  Each of its steps is a step of `Cycle` or leaves it alone, so what
  is proved of `Cycle` holds in it (`BookIsCycle`).  The invariant `BInv` counts,
  beside the rows that count, the entries of the running cycle that have no row
  yet (`Kept`): the pass admits only what fits beside the rows, a row that is
  written takes the place of its entry, a fill the place of its offer.  For the
  pauses: `Unoffered` says that no decision is proposed while a cycle is before
  its opening, so an engaging pause finds nothing on offer; and whatever was
  loaded to be saved again, in the cycle or in the lift, can lack no pause that
  is on (`StageSays`), because only the cycle engages one and it loads first.
* **HeldOrders.**  Whoever ends the decision finds nothing waiting: the round of the
  watch knows what it has passed (`Inductive`), a later write of the terminal
  only moves legs out of waiting, and a broken fill leaves the decision blocked
  for the whole book.
* **SwingTrades.**  The entry is the first decision and its order fills once, so
  afterwards positions only leave, and every later decision closes all that is
  left.  From that: what a row says of its order is true, the row knows every
  position once it is past its proposal, and the picture the watch compares with
  is no older than the opening.
* **RateLimiter.**  Who is let through has found fewer than the capacity of
  acquisitions younger than a window, and only itself can add one before its
  own record.  At the broker a write arrives before the next acquisition, so a
  window there holds at most one more: 19 where the broker allows 20.
* **HaltIsConfirmed.**  The code walks back from the newest read and counts one
  when it breaches and lies a gap before the last it counted; the first read
  above the line ends the walk.  The property asks instead for *some* set of
  breaching reads in the window, pairwise a gap apart, with no read above the
  line after the oldest of them.  The walk finds a largest such set (`WalkIsBest`):
  it takes the first read it may, and whatever another set counts in place of
  it lies no later.  That needs the reads to be in order of age, which is an invariant of the runs
  of cycle and watch (`ReadsInOrder`): a read is stamped with the start of its run,
  but the lock lets no later run record before it.
* **Council.**  What a run decides is decided by its last step, so the first two
  theorems are facts about the audit.  A level that is not the reference is one
  that a second replicate shares in its direction (`AgreementOfTwo`), and a replicate
  is valid only if its reply was heard.  Without a card of a shock the band of a
  line whose trend is up has no level that cuts it (`BandHolds`), and every level
  a replicate is left with is the reference or lies in the band; the medoid that
  is taken is one of the valid replicates (`MedoidIsValid`).  For the answers,
  `BudgetInv` counts those of the stage that runs apart from the rest: a run has at most
  what its plan allows before the stage (`Allowed`) and one for each call of the stage
  that is answered, because a stage is asked again only when no call of it was
  answered (`AgainUnanswered`).
* **PlanApproval.**  The plan is a fold over lines and orders; by induction it is a
  sequence of drafts whose dependencies name legs of the same line
  (`ProposalSound`, `LinesPlanned`).  The drop rules are rounds over a growing set of
  legs, so they end before the legs do, and what is sent is closed under them.
  For one line, every set of its legs in which each leg has what it waits for
  (`LegsEnd`) is of one of two kinds: without its open it only cuts the line toward
  zero (`Cut`); with it the line ends between its weight and its target
  (`Raised`).  Whole closes are taken newest first while they fit (`WholeFits`), so
  at most one position lies across the line between kept and given back
  (`OneAcross`).  `GrossInside` then compares the sums line by line.
  The proof corrected the property twice: where the remainder of a position
  would be below the broker's minimum, or partial closes are refused, the planner
  closes the whole of it and the line ends below its target; and a line held on
  both sides, which the planner only flattens, is left half flattened when a cap
  takes one of its closes.  Both are now said in the property and met in the run.
* **RiskEngine.**  `Shrinks` is the argument: every step of the projection moves
  lines of its set toward zero inside their intervals and leaves the others.  From
  that a pinned line stays where it is through every round, and the interval of
  a line under WARN holds nothing larger than what is held.  `RiskInv` says at each
  stage what the book, the entry-free book and the live lines have to do with each other;
  entries are dropped until none binds, and with none left the entry-free book is taken.
  `ChecksPass` needs more: how far each step goes.  In a round without entries every
  line may go to zero or is held at its base (`Grounded`), so the far end of a
  projection costs no more than the base: a limit that can be met is met, one that
  cannot is no worse than the base, and later steps only shrink lines and leave it
  so (`GroupsAreMet`, `SettleMeets`).  The margin step needs its passes: one that
  fails makes a cheap line dear for good, so N + 1 are enough (`MarginIsMet`).  A round
  that goes on holds a new line (`HeldAreMoves`), so the rounds end before the bound
  N + 2 does it, and the last one held nobody: no line is filtered, and the first
  candidate of every budget was within it (`SomeLineIsFirst`, `FirstBudget`), which
  is what the checks ask (`MovesPass`).
  That proof corrected the property twice.  Where a covariance lets a long hedge a
  short, the margin step after the volatility step may zero the short and raise the
  volatility over its cap again; R8 is excepted there (`Hedged`, section 6).  And
  R1 is only claimed while the lines the engine does not manage fit the hard limit.
  The proof found that `OnlyDerisks` fails above the hard limit when the lines the
  engine does not manage exceed it by themselves: R1 then fails with and without the
  entries, which are kept.  The property leaves that book out and the run has it.
* **DataInduction.**  The induction theorems of the library quantify over an
  operator, which none of the provers here can instantiate.  The lemmas of this
  module quantify over a set - of the numbers, or of the subsets of a finite set,
  of which something holds - and follow from the least member of a finite set.
  They give the equations of recursive functions and of the folds of the library
  (`NumberRecursion`, `SubsetRecursion`, `SumFacts`) and the facts about sums that the
  three proofs above use (`SumMonotone`, `SumSplit`, `SumImage`).

*Model-checked only.*  The three liveness properties (`EveryRunEnds`,
`EveryHoldEnds`, `ListedIsPublished`): TLAPS has no support for fairness here.
`SkippedCloseNotExecuted` is the property of the run that finds it violated.
Every invariant and every action property of a passing run, and both refinements,
have a theorem.

## 5. What the models leave out

* Money: prices, units, tolerances, costs.  Where a property needs to know whether
  a number is right the model has a bit for it; planner and risk engine count in
  whole grains, so rounding and the real-valued projection are left out.
* Texts: prompts, answers, redaction, what a leak scan looks for, notifications,
  the screens of the terminal.
* The smoke day of the kill switch (`smoke_active`, the baseline reset), the
  emergency flatten of the terminal, dry runs, the later rows of smoke tickets.
* Of the gateway, the rate limiter and the cap on concurrent calls; of the
  council, the replies of the control and the cards of the event officer.
* Of the cycle, forced re-runs of a recorded slot and the paper book.
* Of the swing book, the rules about one idea (liquidity, levels, costs,
  earnings), its slots, its budget, and a read of the pauses that fails (section 6).
* The whole of a run is never composed with everything else: a decision in `Cycle`
  and `SwingBook` goes through states that `DecisionLedger`, `PlanApproval` and
  `Executor` follow in detail, and each of those takes the rest as a choice.
* The components with status `not_modelled`, each with its reason there.
* Liveness of the kill switch (a halt over open positions is eventually
  offered as a flatten) was written and taken out: the reachable states are too
  many for TLC's temporal check.  `WatchProposes` and `CycleDecides` show
  why it holds: a watch that fails after it stored HALTED never proposes
  (`watch.py:441`), the next cycle does.

## 6. Where the code and its documents disagree

One disagreement is a run that finds a counterexample:

* `skipped_close`: resume of a close whose answer was lost reads the portfolio
  twice, for the position and then for the pending closes
  (`executor.py:1101-1110`).  A close that executes between the two is recorded
  as "close never executed; position intact".

The others were met while modelling and are described here only.

Execution and approval:

* A planned take-profit leg whose target is already set is resolved straight to
  `filled` (`executor.py:726`), a move `states.py` refuses; the run fails closed
  into `execution_unknown`.
* A fill mismatch is known only to the watch run that saw it (`watch.py:865`); if
  that run ends early, the next settles as completed.
* approve reads the kill state once (`approve.py:116`), before snapshot, screen and
  typed nonce; `_recheck_after_nonce` looks at expiry and market hours only.  A
  halt in between does not stop a rebalance, against the header
  (`approve.py:7`, "HALTED allows flatten/compliance only").
* A close of a swing position that the broker holds for its market stops the
  core opens (`executor.py:1055-1058`), against `executor.py:28` and `:556`,
  which say core legs are never dropped because of a swing leg.
  `CoreStoppedByCoreOrHeldClose` states what does hold.
* `resume` reads the leg rows before it takes the lock (`executor.py:456-463`).
  After an execution that ended in between it works on rows of the past: it may
  finish what is not finished, or conclude a hold of the satellite alone while a
  core close is still at the broker (`:1062-1073`, `:1192`).
  `FreshFinalMeansResolved` and `HoldsItsBook` except such a resume.
* Dropping a swing exit while core opens go, or one open of two, can leave gross or
  net outside the limits the engine checked (`approve.py:15-17` says the result
  is inside them).
* A limiter lives for one approve or resume-exec command (`approve.py:209`,
  `:277`): two of them within a minute share no quota.
* A trim becomes an exit when its re-open is skipped (no quote, stop bounds, leg
  cap) after its close was drafted (`planner.py:437`, "a trim must not become a full
  exit"); `NoLineOvershoots` excepts a line that takes no partial closes.

Watch, publication, kill switch:

* The watch takes the commit sha for the proof that a smoke row is public
  (`watch.py:147`), also when the push failed.
* The public record of an execution may say `waiting_for_market`: a decision is
  blocked by the timeout while the stored record still waits and the refresh has
  not happened (`approve.py:224-250`, `watch.py:832`, `:924`).
* A watch that never reaches the broker, and a decision without a waiting leg:
  no timeout takes it, since the timeout looks for waiting legs
  (`watch.py:825-827`).  It ends by the first full sweep.
* A state lookup that fails counts as no decision (`watch.py:227`).
* A report stored while the watch publishes the older one is marked published
  with it (`watch.py:145-151`, `approve.py:256-260`).
* A commitment written to the clone but never committed is read back as if
  published, and the reveal follows without it (`watch.py:205`).
* A death between `git add` and `git commit` leaves a staged file; every later
  publish refuses the clone (`gitops.py:160`).
* A smoke ticket whose row was committed in a run that died before it was
  marked stays closed: nothing is staged, so publish returns no sha.
* Equity reads are stamped with the start of their run (`cycle.py:765`): two
  reads taken moments apart may confirm each other.
* A resume that lands between the read and the verdict of a check is undone
  (`approve.py:382`): the safe side, but the operator's record says otherwise.

Cycle, planner input, engine, council:

* Blockers are read again when evidence is consumed (`cycle.py:476`), so a hold
  that appears while the cycle publishes keeps the evidence of a line that the
  proposal moved; a death between opening and consuming keeps it too.
* The share of the core is saved before the proposal exists (`cycle.py:2608`): if
  that proposal dies or expires, the re-size is not ordered again.
* Taking off a hedge raises volatility over the cap: in the base, when the line it
  hedges is pinned, or after the volatility step, when net or margin still shrink the
  short side.  R8 then fails on the final book although step 5 of the engine's
  docstring and `tests/risk/test_engine_properties.py` expect `passed`; nothing reads
  `RiskDecision.passed` (`models/risk.py:86`).  `EveryCheckPasses` excepts it
  (`Hedged`).
* A billing refusal skips the wait but not the rerun of the stage
  (`deliberation/council.py:214-226`, "no point waiting").
* The council's outage fallback returns reference levels that may lie outside the
  band; the timeout path clips them, and R10 of the engine clips both later.

Swing book:

* The weekly cap S3 never binds while every row has its size: `_book_state` (`cycle.py:1803-1815`) counts only
  active trades past their proposal, so a trade entered and closed within the
  week is forgotten, and what is left is at most `max_open`, which equals
  `max_new_7d` (`policy/swing.yaml:18`, "at most 6 new trades per rolling 7
  days").
* A second run of a slot names its trades like the first: `create_swing_trade`
  refuses the row, the leg points at the old one, and the fill is refused
  (`LedgerError`, `IllegalTransition`): a position without a trade.
* A row that `record_swing_fill` makes itself has no size, so the rules do not
  count it (`_book_state`); `BookFits` is about the rows that have one.
* The pauses are one runtime row that the cycle (`cycle.py:1588`, `:1719-1729`)
  and `brake.lift_in_ledger` each load and save without a common lock: a lift can
  be undone though its row was published, and a pause that engages meanwhile can
  be erased, against "until the operator lifts it".  `queue_rows` and
  `watch.py:356-362` lose a row of the queue the same way.
* `brake.load` answers no pause when the read fails, so the rules see none; a
  failed `swing_brake_step` does not set `unknown`, though its module says "fail
  closed".
* S10, S12 and S14 never bind from one slot to the next: `_book_state` gives no
  recent exits, fees or buckets, and reads a `sector` that entries do not store.
* An exit over two positions of which one is rejected leaves the trade in a state
  no program moves (`swing/models.py:292`, "must never strand");
  `OverExitSettles` excepts it.
* A held entry filled by the watch or by `ops resolve --filled` is never recorded as
  a fill, though `db.py:40-42` says so; `entry_unknown` and `entry_executing` are
  entered by nobody; a record that fails in `_swing_closed` is not tried again.
* `record_swing_decision` relies on "the approval refuses a leg whose trade is
  missing"; approve has no such check.  The close of a vanished swing position
  inside a flatten carries no mark, so approve refuses the whole flatten.
* A position opened and stopped between two runs is never classified
  (`executor.py:1247`).

## 7. The plan

Done: 1 `LedgerStates`, `DecisionLedger`, `ProposalSlot`; 2 `Executor`;
3 `HeldOrders`; 4 `KillSwitch`; 5 `Publication`; 6 `SwingTrades`; 7 `RateLimiter`;
8 `Plans` and `PlanApproval`; 9 `RiskEngine`; 10 `Authority` and `Council`;
11 `Cycle` and `SwingBook`; 12 `OrderBook`; and the proofs of section 4.

Next, in this order:

13. The smoke day, the emergency flatten and the corporate-action reconcile, with
    the classification of vanished positions.
14. The gateway's limiter and concurrency cap, session calendars.
15. Two slots of `SwingBook` with both pauses and two books, when its states are
    fewer.

Runs stay one for each question: a question that a theorem answers for every
value may give up its run, as the priority of proposals, the approval behind an
execution and the rate limiter have.
