# Riverline, specified in TLA+

Riverline takes a borrower in default through three conversations with language
model agents (assessment, resolution, final notice), orchestrated by a Temporal
workflow, and lets a learning loop rewrite the agents' prompts from scored
conversations. These modules model its control: what it stores and does in which
order, what it does when a step fails, and what runs beside what. They are
checked with TLC on small instances and, where it says so, proved with TLAPS for
every value of the constants. Paths are relative to the repository's root
(`src/` in PROJECT.json).

## Inventory

| Component | State it keeps | Operations | Talks to |
|---|---|---|---|
| **Workflow** `apps/workflow/collections.py` | locals of one `run`: attempt, outcome, ids of the conversations, `assessment_exhausted`; rebuilt by Temporal from its history | assessment loop, handoff 1→2, resolution, handoff 2→3, final notice, return | awaits activities |
| **Activities, worker** `apps/workflow/activities.py`, `worker.py` | none between activities | `run_chat_agent`, `summarize_handoff`, placing a call in voice mode | runner, summarizer, database, call service |
| **Runner** `packages/simulator/runner.py` | one conversation's history, turn counter, tool calls, outcome | the turn loop, hard and soft closes | agent, borrower, database |
| **Agents** `packages/agents` | prompt read when the agent is built; the calls of the current reply | `reply` (the tool-use loop), `classify_outcome` | model, prompt store |
| **Borrowers** `packages/simulator/borrower.py`, `human_borrower.py`, `compliance/scripted_borrower.py` | persona, script position | `reply` | runner, probes |
| **Voice** `apps/voice` | none; rows in the database | place a call, receive its report | call service, database |
| **Gateway** `apps/gateway/main.py` | none | start a workflow, read its result | Temporal |
| **Storage** `packages/storage` | conversations, turns, handoffs, prompt_versions, active_prompt, cost_ledger, meta_eval_findings | one transaction per call | all |
| **Learning loop** `apps/learner/loop.py`, `prompt_engineer.py`, `scripts/run_learning_loop.py` | locals of one iteration | baseline, proposals, compliance pre-flight, paired evaluation, gate, adopt or reject | prompt store, probes, runner, evaluator |
| **Probes** `packages/compliance/probe_runner.py` | the suite's outcomes | run a probe, judge it | agent, scripted borrower |
| **Evaluator, rules, statistics** `packages/evaluator`, `compliance/rules.py`, `stats` | none | scores, rules, the gate's decision | model |
| **Meta evaluator** `apps/learner/meta_evaluator.py`, `scripts/run_meta_eval.py` | findings, the judge's live prompt, a tally per audit | three audits, promotion of the judge | judge, prompt store |
| **Token guard, client, budget** `packages/llm` | process-wide spend | trim a context, call the model, record the cost, kill switch | model, ledger |
| **Summarizer** `packages/summarizer` | none | summarise, trim to 500 tokens | model |
| **Operator scripts** `scripts` | files on disk: prompts and the iterations' scores | seed, lift, re-decide, chat, report | prompt store |

How they interact. The gateway starts a workflow under a fresh id. The workflow
awaits one activity at a time; Temporal queues it, a worker polls it, its result
or its error is a message back. A conversation activity builds an agent (which
reads the live prompt once), creates a row, and runs turn by turn, each committed
before the other side is asked. In voice mode the activity returns when the call
was *placed*; its report comes to the webhook later, if ever. The learning loop is
another process. It shares with the workers one database and in it one pointer,
`active_prompt`, by which a prompt goes live; it has to move the pointer even to
test a candidate, since probes build agents as everybody else does.

What is hard here: an attempt the server gave up on goes on talking (there is one
heartbeat, at the activity's start); the outcome is committed before the workflow
hears it; several closing tools may come in one reply and one name is honoured;
the outcome's words mean different things to runner, agents and workflow; the
learning loop's candidate is live for everybody; version numbers are computed in
four places and rows are found by them; every transaction is short, so each
multi-step operation can stop half-way; the kill switch is an exception, and some
callers catch every exception; what an agent is sent is cut three times, by
different hands.

What makes each part correct:

* *Conversation*: what is stored is what was said, but for a last turn whose commit
  failed; it ends; nobody speaks after a closing tool; the stored outcome rests on the
  tools that give it its meaning.
* *Pipeline*: no contact after an opt-out; one conversation at a time; the rows are
  what the workflow heard; handoffs cover the last conversation of each stage before;
  it ends.
* *Learning loop*: a prompt that failed or never finished its tests is not left
  live; what is adopted is what was tested, compared with what it replaces; a
  conversation can be traced to the text it was held with, unless that was a candidate
  whose number a reject took over; a run ends.
* *Budget*: what is spent past the kill line is bounded, per process and in all;
  what is adopted then was evaluated before. *Context*: nothing over its budget is
  sent, nothing is cut that had room, and what was returned by one hand is accepted
  by the next.
* *Evaluation*: a variant is compared with the baseline borrower by borrower, on
  conversations that were held to their end; what is adopted did better.
* *Prompt versions, across the scripts*: a live text was accepted once, a number
  keeps its text, a script adopts the text whose scores it read.
* *Meta evaluator*: the judge that is live is not one that was retired; a finding
  marked applied is applied; a swap rests on a difference somebody saw.

## Modules

```
AgentContract      outcomes and end reasons, shared by the two below
  Conversation       run_chat_conversation with BaseAgent.reply      MCConversation, ConversationProofs
  Pipeline           abstract: what the workflow promises a borrower
  Collections        workflow, activities, workers, webhook          MCCollections, CollectionsProofs
Learner            learning loop and prompt store                    MCLearner, LearnerProofs
  Evaluation         who is scored on what, and the gate              MCEvaluation, EvaluationProofs
  Registry           prompt versions beside the operator's scripts    RegistryProofs
  Spending           budget tracker under the learning loop           SpendingProofs
MetaEvaluator      the audits and the swap of the judge              MetaEvaluatorProofs
Context            summarizer, trimming, contexts of a stage's calls MCContext, ContextProofs
```

`Conversation` is the inside of the step `talk` of `Collections`: the set of
outcomes a conversation may end with, `ConversationOutcomes` in `AgentContract`,
is what `Conversation` is proved to produce (its type invariant) and what
`Collections` assumes of its constant `Outcome`. `Collections` implements
`Pipeline` through `PipelineOfW1` in `MCCollections` (TLC, liveness included) and
`Promise(w)` in `CollectionsProofs` (proved, safety). `Evaluation`, too, takes the
outcomes of a conversation from `AgentContract`. The four modules of the learning
loop cut the same code along different lines: `Learner` has every transaction on
the prompts and leaves scores and calls open, `Evaluation` has the scores,
`Spending` the calls, and `Registry` the version numbers and the files, with the
scripts that use them.

### Conversation

`history`, `seq`, `allCalls`, `outcome` are the runner's locals, `round` and
`calls` those of the reply in progress, `turns` and `row` the database. `Create`
is `create_conversation`; `UseTools` one response with tool calls. A turn is two
steps, as in the code: `Say` and `BorrowerReplies` append it and count it
(`TakeTurn`), and the next step commits it (`AddTurn`) and decides how to go on:
`HardClose`, `SoftClose` and `Listen` after the agent's turn, `CommitAnswer`, with the
loop's bound, after the borrower's. `End` is `end_conversation`; `Abort` any exception
or the death of the process, between an append and its commit too. The three
`classify_outcome` are the operators `Classify...`. A text is only known to be
plain, to contain a closing phrase, or to be the "(no response)" the code puts
for an empty one. The dates `verify_identity` compares are a match or a mismatch.

### Collections

A workflow's variables are functions of its id. `task` is what the Temporal server
knows of the awaited activity: a token per attempt, how many it tried, whether it
is queued or started. `job` is what each worker runs, with the token it was given.
`Start`, `Begin`, `Timeout`, `AttemptFails` and `Awaited` are the server (external:
modelled from the timeouts and retry policies the workflow passes it);
`CreateConversation`/`EndConversation`, `PlaceCall`/`CreatePlaceholder`,
`LoadTurns`/`RecordHandoff` are the activities' transactions; `AssessmentDone`,
`ResolutionDone`, `FinalNoticeDone`, `HandoffDone` are the workflow's code between
two awaits. A worker that was given up on keeps its job and goes on: its result is
dropped (`DropResult`). `Raise` and `Crash` may happen at every step. `CallEnds`
and `WebhookDelivers` are the call service and the webhook.

### Learner

`rows` and `active` are the agent's rows of prompt_versions and its pointer; a
row's index is its id. `scored` and `spoken` keep, of the stored conversations, the
version number they were stored under and the text they were really held with;
`vetted`, `stranded`, `moved` and the counters record history for the properties
and are read by no action of the code (the counters bound it). One action per
transaction: `Install`, `Probe`, `Restore` are `_compliance_preflight`; `Adopt` and
`Activate` the two transactions of an adoption. A prompt's text is a number: 0 the
seed, n the n-th proposal. Probes and gate give any verdict. `Mishap` are the ways
a step fails: the installing transaction or the restoring one raises (and
`run_iteration` takes that for a failed pre-flight), an interrupt runs the finally
block, the process dies, or it stops between two transactions. Beside the loop
`Converse` is a worker that builds an agent and `Rollback` the operator's "one-row
SQL update on `active_prompt`" (README), to a version that was adopted.

### Context

One stage of a pipeline, seen from what its model calls are sent: `Summarize`,
`Retry` and the fallback are `summarize_for_handoff`; `DropQuote`, `DropObjection`,
`DropThread`, `TrimRaises` one turn each of the loops of `trim_to_budget`; `HandOver`
its return, which becomes the agent's handoff; `AgentSpeaks`, `BorrowerSpeaks` and
`PersonSpeaks` the turns of the runner. A text is its number of tokens. `Kept`,
`Fit`, `Refused`, `Within` and `RolesSent` are the methods of `AgentContext`: the
loop that keeps the end of the history is a fold from its right. `sent` records
the context of the last call before it was cut, `Got` is what was sent. A call is
refused (`Refuse`) when `fit_to_budget` raises or the assertion after it does, and
`why` keeps which. `Context` complements `Conversation`, which has the tools and
outcomes of the same turns and no sizes.

### Spending

The learning loop again, cut along other lines than in `Learner`: a unit is some
calls whose exceptions go the same way. `Call` is a call that returns, `Raises` one
that crosses the line (paid for, recorded, then raised), one the provider refuses,
or a database error. In `Open` units (baseline, proposals, evaluation) that ends the
script (`Stop`); in a probe it is a failed probe (`ProbeRaises`), in a pipeline of
the system check a missing score (`PipelineRaises`). `Judged` is the gate with the
check's scores: it has no opinion when a side has none. `Die` may leave a call
charged and not recorded, and `StartAgain` begins with an empty ledger. Costs are
whole units. `late`, `bill`, `lives` and `passes` are history.

### Evaluation

What one agent's iterations score. A conversation is the signs its score depends on
(what the agent said or showed, the tools it called, whether the borrower refused),
the fields disclosed, the agent's turns after a refusal, and its outcome; `Rules`
are the four checks by patterns and `Primary` the agent's metric in points of 60, so
that 0.4, 0.2/3 and the like are whole. `borrowers`, `baseline`, `variant` and
`decision` are the locals of `run_iteration`, `at`, `stage` and `scored` those of
the evaluation; `stored` are the conversations held with the live version. `Hold` is
one conversation, of the isolated evaluation or a stage of the inline pipeline,
which goes on or stops by its outcome; a stage that is not met is scored as
`Missed`. `ReuseBaseline` is `_load_baseline_from_db`. `Gate` is `evaluate_gate`:
what resampling gives is open where it depends on the draws and known where it does
not (`Settled`), Cohen's d is exact (`LargeEnough`) except where rounding decides.
`CheckPipelines` and `GateAgain` are the system check. `CutOff` is a failing call or
the end of the process, which leaves a conversation without an outcome.

### Registry

Where the versions of one agent's prompt are kept: `rows` and `active` (database),
`files` (the prompts on disk) and `csv` (the scores of each iteration id). The loop's
steps are those of `Learner` that read or write them, with the row and the pointer
of an adoption apart and `WriteCsv` at the end; `StartSeed` to `Seeded` are
`seed_prompts`, file by file and transaction by transaction, `StartLift` and
`LiftFile` `lift_one`, `StartReDecide` to `Point` and then `LiftFile` the script
`re_decide`, from the scores it reads to the file it writes. Any script may be
stopped between two steps, as may the loop. `Clean` is `make clean`, which keeps the
files. `accepted` are the texts that a gate or a consensus took; `stranded`,
`crossed` and `mistaken` mark the histories the properties except.

### MetaEvaluator

`status` and `live` are the judge's two rows and its pointer, `findings` the table,
`tally` what the audit at hand has counted. `Look` is a conversation that is judged
and checked, or passed over; `StoreStrictness`, `StoreOutcomes`, `StoreAgreement`
the three findings; `PromoteRow`, `Switch`, `Retire` and `Mark` the transactions of
the swap; `Stop` may come before any of them. The severities are in whole numbers;
the audits' samples are small enough that the doubles of the code decide alike,
which the comments at `Kappa` say case by case. `Rollback`, `Reseed` and
`StartAfresh` are the operator.

## Runs

| Run | Instance | What it shows |
|---|---|---|
| `conversations` | 3 agents, 2 turns, 2 rounds of tool calls, batches of one call or an end and an opt-out in both orders | `TranscriptPersisted`, `OutcomeGrounded`, `OptOutLostOnlyToEarlierEnd`, `NothingAfterHardClose`, `Termination` |
| `pipeline_text` | 1 workflow, 2 workers, 3 assessments, four or three outcomes per stage | `NoContactAfterOptOut`, `RowsMatchHistory`, `OneConversationAtATime`, `HandoffComplete`, and that `Collections` implements `Pipeline` |
| `pipeline_voice` | 1 workflow, 2 workers, a call reported up to twice | `OneCallPerWorkflow`, `EveryWorkflowCloses` |
| `learner` | 3 iterations in runs of at most 2, 2 variants of at most 2 texts, 2 probes, one rollback, one borrower's conversation | `UnvettedOnlyInPreflight`, `GatedTextWasProbed`, `BaselineIsOfBase`, `ConversationsTraceable`, `AdoptionReplacesBase`, `RunEnds` |
| `evaluation` | 3 borrowers of 2 personas, samples of 2, 2 iterations of one variant, two conversations per agent, all three agents and both modes | `PairsMatch`, `AdoptedBeatsBaseline`, `SamplesAreWhole` |
| `registry` | 2 iterations of up to 2 variants and 2 texts, 2 scripts, one rollback, one removal of the database | `LiveWasAccepted`, `ReDecidedTextWasScored`, `SeedingRestores`, `AdoptedKeepsText` |
| `meta_eval` | 2 runs with samples of up to 4 and 5, 2 deeds of the operator | `RetiredNeverLive`, `AppliedMeansLive`, `SwapOnEvidence`, `AppliedAnswersHigh` |
| `context` | one stage with or without a handoff, payloads of up to two quotes, objections and threads, 3 turns, prompts of four sizes, in units of 100 tokens | `WithinBudget`, `LongestEndSent`, `StartsWithUser`, `TrimmedInOrder`, `NothingTrimmedInVain`, `RefusedOnlyForPrompts` |
| `spending` | a line of 8, calls of 1 or 2, 2 iterations of up to 2 variants, 2 probes, 2 borrowers in the system check, 2 processes | `WasteBounded`, `BillBounded`, `PreflightFailsClosed`, `AdoptsBelowLine`, `ScriptEnds` |

Each property is stated in words above its definition. The type invariants
`TypeOK` of the modules with proofs are proved and not run.

**Bounds, and why they are enough.** *conversations*: the loop body only
distinguishes the first turn (no borrower yet), the last, and calls made in this or
an earlier reply; two turns with two rounds each have all of them, and three
disclosures fit. *pipeline_text*: an outcome matters by the branch it takes, and
`FewOutcomes` has one per branch; two workers are one that was given up on and the
one that is awaited (a third given up on would need a third attempt, and chats have
one, handoffs two); three assessments are the code's. Workflows do not interact
except through free workers, so one is enough for what is said of each; that is
how the proof goes, too. *pipeline_voice*: `MaxDeliveries` 2 is a repeated report.
*learner*: an adoption, the baseline measured on it and a second run that reuses
measurements under the same number take three iterations. The pre-flight's clock
gives 10500, which nothing else uses, or 10100, the number of the first reject, so
that the collisions happen. More than one rollback only repeats one. *context*: the
code's budgets divided by 100 (20, 5 and 1000), with sizes that fit exactly, by one
and not at all; three turns fill the budget beside a large prompt, and more history
is cut the same way. Two items per field are one that goes and one that may stay.
*evaluation*: two borrowers of one persona and one of another make the balanced order
differ from the file's, and three borrowers for samples of two let a reused baseline
be of others than a fresh one. Two iterations are one that stores conversations, be
they cut off, and one that reuses them. Each agent has a conversation on which the
pipeline stops and one on which it goes on, far apart in points, and one agent more
points with more rules broken; every decision of the gate is reached. Two scores per
sample are too few for a rounded spread (see below), which is why
`AdoptedBeatsBaseline` states its last part for two. *registry*: an adoption, its
rollback, a second adoption under its number and a script that still has the first
text are two iterations, a rollback or removal, and two scripts, a lift and a
seeding or a re-decision. The pre-flight's number is one nothing else takes; the
collisions are in `learner`. *meta_eval*: the code's samples are 8 and 6; misses
count up to the second and shares from 0.30, which 4 conversations reach on both
sides; kappa's boundary cases are listed at `Kappa`, the first needs 3. The proof
has every size. A second run meets what the first left.
*spending*: the line is far enough for one variant to be evaluated and checked
below it and near enough to be crossed in each unit. `MaxLate` and the bound of
`BillBounded` are reached: with `<` in place of `<=` both fail, here and with 1 to 3
variants and 1 to 3 borrowers, so they say exactly what the swallowed exceptions
may cost. Two processes are a restart.

**Fairness, and why the code justifies it.** *Conversation*: weak fairness of the
whole step; every await is an API call with a timeout that returns or raises, and
`Abort` is always there, so this says only that the process does not stand still.
*Collections*: a worker goes on with its activity and picks up what is queued, and
the server's timers fire; Temporal's own guarantees. Nothing is assumed of `Start`,
`Raise`, `Crash`, of calls ending or of reports: `EveryWorkflowCloses` in voice mode
does not rest on the call. *Learner*: weak fairness of `Loop`, the calls of a
process that runs; `RunEnds` has to hold whichever way each call returns.
*Spending*: weak fairness of `Work`, a process that runs; nobody
needs to start it again, and nothing is assumed of `Die`.
*Pipeline*: an open pipeline goes on, which is what `pipeline_text` shows to follow.
*Context*, *Evaluation*, *Registry* and *MetaEvaluator* state safety only and assume
no fairness: their loops are over lists of known length, and what may not end in
them are calls and people.

## Where code and documents disagree

Three runs check a statement of the documents or comments and find it violated;
`findings` in PROJECT.json quotes them.

* `vetted_claim`: during a pre-flight, borrowers are talked to with the candidate.
* `refusal_claim`: who refuses on the phone still gets the final notice. The activity
  returns `vapi_initiated` when the call is placed, and nothing reads the outcome its
  report records (README lists fire-and-forget voice as a limitation, not this).
* `seeding_claim`: seeding again may replace the text of the live version. The trace:
  v2 is adopted and lifted to disk, rolled back from, and another v2 is adopted over
  its row; seeding then puts the file's text under the live number.

Others were met while modelling and have no run of their own, because a run would
add nothing to the words:

* A reply with `end_conversation(reason=no_resolution)` before `flag_opt_out` is
  stored with that reason: only the first closing tool counts (`runner.py:113`;
  README:206 and 122 promise the opt-out). `OptOutLostOnlyToEarlierEnd` says that
  this is the only way to lose one.
* Agent 3 is told to end an accepted final offer with `deal_agreed`
  (`prompts/agent_3/v0001.md:23`); the workflow knows only `resolved` and returns
  `unresolved` (`runner.py:124`, `collections.py:162`).
* A failed identity check counts as a check (`agent_1.py:19`), and the simulator's
  silence, stored as "(no response)", as a turn of the borrower.
* The assessment is repeated after every outcome but three (`LeavesLoop`), not only
  after `no_response` as the comment below the loop says; and "full history, both
  stages" (`collections.py:132`; the assignment's line 58: "summarizing the full
  history") is the last assessment and the resolution. One that ended
  `identity_unverified` and was repeated is in no handoff, though the borrower took
  part in it. `HandoffComplete` says exactly what is handed on.
* `upsert_prompt_version` overwrites a row that has the number (`repos.py:49`), text
  and evaluation data, though "every prompt version [is] stored with its evaluation
  data" (the assignment's line 98). Numbers repeat: after a rollback, and for the
  rejects of every second run, since iteration ids start at 1 in each.
* `BudgetExhausted` is swallowed by the probe suite (`probe_runner.py:173`), the
  system check and the pre-flight, though "the caller is expected to checkpoint and
  exit cleanly"; `WasteBounded` says how many calls are paid for after it.
* A borrower whose last assessment ended `identity_unverified` goes on to the
  resolution agent: after its loop the workflow stops only on `opt_out`
  (`AfterAssessment`). The learning loop's inline pipeline does stop there
  (`apps/learner/loop.py:373`), so it does not evaluate what production does.
* An opt-out binds one workflow: nothing records it with the borrower, and the
  gateway starts another for them ("No continued outreach after explicit refusal",
  the assignment's line 119).
* The prompt engineer's ceiling of 1500 tokens "leaves ~500 for history"
  (`prompt_engineer.py:88`), but a handoff of up to 500 counts too: beside both,
  `Kept` keeps nothing, and the agent answers without what was just said.
* The summarizer's retry is cut to the agents' 2000 tokens (`summarizer.py:145`)
  though meta layers are not bound by them (`token_guard.py:24`): of a long
  transcript only the complaint about the first answer may be left. The excerpt
  keeps the transcript's first 6000 characters, not its most recent ones.
* `trim_to_budget` drops the last-listed quote first; its docstring says it keeps
  the most recent. `NothingTrimmedInVain` and `TrimmedInOrder` say what it does.
* The gate skips the seamlessness comparison when either side of the system check
  has no scores, be it that every pipeline raised; the per-agent adoption stands
  (`Judged`). The scores are lists of those that succeeded, not pairs.
* A script whose line was crossed in the last iteration's probes returns 0, and a
  second process starts at zero though the ledger is in the database.
* The webhook inserts a conversation of its own; the placeholder the activity
  created keeps neither turns nor outcome, and the voice handoff 2→3 loads no turns
  of it. (The README lists fire-and-forget voice as a limitation.)
* A rollback by hand during a pre-flight is undone by its finally block, and the
  probes after it test the prompt rolled back to; `GatedTextWasProbed` excepts this.
* After a rollback and another adoption a version number stands for two texts, and
  isolated mode may compare a variant with stored scores of the other; the same
  breaks `ConversationsTraceable`. Both properties are stated for histories without
  rollback, and both fail if that premise is dropped. Without a rollback one kind of
  conversation loses its text: a candidate's, held while its pre-flight ran under a
  number of the clock (`loop.py:678`), when a reject is stored under the same number.
  `ConversationsTraceable` excepts exactly that (`TakenByReject`).
* `DieInPreflight` and `RestoreFails` leave a candidate live for good, and the next
  iteration takes it for its baseline; nothing looks for it at the next start.
* `re_decide` finds the text to adopt by agent and iteration, not by the variant it
  was asked about, whose index it computes and does not use; with two rejects, or an
  iteration id used twice, it adopts another text than the scores are of, and without
  a row it copies the live prompt under the variant's numbers. It asks neither for
  compliance nor for the system metric. `ReDecidedTextWasScored` has the case in
  which it is right.
* A prompt lifted to disk "survives a fresh `make seed`" as a row, not as the live
  prompt: after a removal of the database the first file is live, and the next
  adoption takes number 2 and overwrites the lifted row.
* A lift during a pre-flight writes the candidate to disk, and a seeding makes an
  active row of it; two candidates with one number make the seeding raise. These and
  other overlaps are what `crossed` excepts.
* After the swap the first audit is never of high severity again, for the new judge
  gives no `compliance_score`; but kappa is then 0 whenever the strict check passes
  one, so later runs swap again and mark their own first finding, which found
  nothing. `run_meta_eval.py:8` and `meta_evaluator.py:14` disagree on which audits
  swap. A finding's severity is not stored.
* Conversation ids are random, so `order_by(id.desc())` is not the order of time:
  "recent" in the audits and "most recent" in a reused baseline are any.
* `cohens_d` "returns 0 if either sample has zero variance": the code needs both to
  be constant; and the variance of three, six to twelve, or fifteen equal scores of
  0.1 or 0.7 is rounding noise, not zero, so that the effect of constant samples is
  enormous and the gate's floor for it no floor.
* In the full pipeline a borrower whose journey ends before the agent's stage counts
  as a score of 0.1 and half the rules, and so as a difference between variant and
  baseline that the agent had no part in; among the failures the prompt engineer is
  shown, the transcript is then another agent's (`loop.py:571`, `651`).
* A conversation that was cut off counts, when reused, as one that reached its end
  (`loop.py:312`: no outcome is not `no_response`); `SamplesAreWhole` says where.
  A baseline of agents 2 and 3 may so have real handoffs and its variant stub ones.
* The gate's docstring asks for d > 0.2, the code for 0.1. It also asks for
  non-inferiority at p > 0.10 (`gate.py:7`, and "we want p > 0.10", `tests.py:82`), but
  p is the share of resamples in which the variant is worse by more than the margin,
  and the code rejects above the threshold (`gate.py:95`), as `Decision` does.

## Proofs

`ConversationProofs`. `RecordInv` adds to `TypeOK` that `seq` is the length of the
history, that a closed outcome is one of the agent's, and that the turns table is the
history so far, without its last turn while a commit is pending (`Pending`):
`TakeTurnRunsAhead` and `AddTurnCatchesUp` are the two halves of a turn, and neither
property is inductive without the counter. `ClosedInv`
says a closing tool on record means the runner is past its loop; from it
`NothingAfterHardClose`. `OptOutInv` says where an opt-out overlooked so far was
preceded by an end with an outcome reason; it needs that every reply of an open
conversation so far had no closing tool (`ClosedInv`). `GroundedInv` carries what
the classifiers and the closing tools rest on from the runner's decision to the row:
`OutcomesAreGrounded`.

`CollectionsProofs`. `IInv` is `TypeOK` and, for each workflow, `WorkflowInv`: how
rows, outcomes heard, stage and result hang together (`HistoryInv`), what the server
knows (`TaskInv`: a chat has one attempt), and what a worker with a job of this
workflow may be doing (`JobInv`, `ChatJobInv`). The argument is that a chat stage
has one attempt and tokens only grow, so a worker whose token is not the current
one can hold a conversation only if the workflow failed; hence two never do, and
the row ahead of what was heard is the last. Each step touches one workflow
(`OnlyTouches`, `StepOfOne`), the rest is framed. Theorems: `TypeCorrect`,
`OptOutIsFinal`, `RowsAreTheHistory`, `OneAtATime`, and `KeepsPromise`, the safety
part of the refinement, for every workflow and any constants.

Its second part is about the call. A call asked for is not asked for again because the
resolution's one attempt was then taken up: `PastCall` says that nothing queued and
no worker's job is before the call, which no step undoes. Hence `CalledOnce`.

Its third part is about the handoffs, for `~ VoiceMode`. What a summary covers is decided
by ids the workflow took from earlier results, perhaps an earlier attempt's.
`SourceInv` says which rows those ids name: the last assessment that was heard and
the one resolution there is (`HandedOn`; earlier assessments are in no handoff). `AttemptInv` follows an attempt at a handoff from the
rows it loaded to its record and its report, and `CoverInv` joins them to the rows of
the handoffs and to what the next stage is given; an attempt that was given up may
still write, but what it writes covers the same. Hence `HandoffsAreComplete`. In
voice mode the statement is false: the handoff 2→3 then loads no turns of the call.

`LearnerProofs`. `StoreInv`, relative to `TypeOK`: while nothing is stranded, rows
of status active are vetted and numbered at most `begun + 1`, the pointer is at
such a row outside a pre-flight, and so is `prev` inside one. It is needed because
an upsert may overwrite: a reject's number is at least 10100, an adopted row's at
most `MaxIterations + 1`, so a reject never overwrites a row that was adopted, which
is the assumption `MaxIterations <= 9998` (the code's own limit: the adoptions after
that meet the pre-flights' numbers). `SuiteInv` follows a suite from `Install`
to the verdict; `PointerInv` says the pointer, or `prev` during a suite, is at the
base while nobody moved it. `LineInv` is about numbers and texts while nothing was
rolled back or stranded: the adopted rows stand in a line that ends at `Home`, the
row the iteration started from, or one past it, where an adoption was stored and is
not live yet; an upsert overwrites that last row only, under which nobody was spoken
to or scored, so its number keeps its text. `PreflightLine` adds the conversations held
under numbers from 10000 on: a pre-flight inserts its row, an adoption's number is
smaller, so only a reject's upsert replaces a candidate's text. (Two candidates whose
clocks gave one number have a row each; one of the two has the text.) Theorems:
`TypeCorrect`, `LivePromptVetted`, `PreflightIsOfCandidate`,
`AdoptionTakesBasePlace`, `BaselinesAreOfBase`, `ConversationsCanBeTraced`.

`SpendingProofs`. What has to be known to bound the waste is how many calls can
still be paid for from where the loop is. `PlaceInv` follows the place: a unit with
an answer is below the line, a probe's number is one more than the outcomes so far,
the pipelines with a score are earlier ones. `CrossedInv` says what cannot be past
the line: an evaluation, and a suite past its first probe that has not failed; so a
crossed suite ends in `NextVariant`, never in an evaluation. `WasteInv` then counts,
past the line, one late call for each probe or pipeline left, for each suite of the
variants after this one, and one for the next iteration, whose baseline stops the
script. A system check that still may reject has scores of both sides, hence is at
its third pipeline or later (`ComparedLate`): that is why the third term of
`MaxLate` has two pipelines fewer. `MoneyInv` says that a life's ledger is at most
the line less one and a call more than the late ones, and that the bill of a
process that is not dead is its ledger and the bound of the lives before; a dying
process may add a call, for which `OneMore` has room. Theorems: `TypeCorrect`,
`WasteIsBounded`, `BillIsBounded`, `FailsClosed`, `AdoptsOnlyBelowLine`, for every
line, price, number of probes, samples, variants, iterations and restarts.

`MetaEvaluatorProofs`. What the swap rests on is counted before and forgotten by the
time the pointer moves, so the invariant carries it over: `TallyInv` says that
judges who agreed on everything had as many passes and no miss, from which neither
severity can be high (for kappa: what chance leaves open is then exactly what they
gain over it, `AllAlike`); `FileInv` that every finding of high severity met a
difference and that one is on file while the swap is on its way or done; `RunInv`
which rows the run at hand has written; `SwapInv` that version 2 is never retired and
that, past the switch, version 2 is live or a hand moved the pointer. Theorems:
`TypeCorrect`, `JudgeStays`, `MarksHold`, `SwapsAreFounded`, `MarksAnswer`, for
samples of every size and any number of runs and deeds of the operator.

`RegistryProofs`. `Types` is `TypeOK` with the facts the scripts rely on: no two files
have a number, the file to seed next exists, a seeding between its two transactions
has its row. `UpsertEffect` is what every writer does to the rows. `SoloInv` says
that without an overlap loop and script are never both at work, so each step is the
loop's, a script's or the operator's (`WhoSteps`). `LiveInv` says that whatever is
marked active, is on disk or is about to become either was accepted and has a number
up to `Line`, that is 1000 and the iterations begun; `re_decide` takes numbers up to
1000 and an adoption the next after a live one, while a reject's number is at least
10100, so a reject never overwrites an accepted text: hence the assumption
`MaxBegun <= 9000`, under which the numbers are apart, as in the code. `SeedInv` says
which files are rows already. `ScoredInv` ties a rejected row to the scores of its
iteration, in memory until they are written and in the csv file afterwards; without
reuse of an id that makes the one reject found the one that was scored. `KeepInv` has
the number reached with the live version (`Home` looks through a pre-flight): the loop
works at that number and adopts under the next, `re_decide` takes one above all below
1000, and whatever is on disk has a number reached before and its row's text, so that
a seeding changes nothing. It holds while the live number is below 1000, where
`re_decide` stops counting (`re_decide.py:163`: it then gives 1000 again and again),
and while no candidate stayed live: after one, an adoption is numbered past the
pre-flights, `re_decide` goes back to small numbers, and the next candidate that stays
live leads to the same numbers with other texts, which a seeding then mixes.
Theorems: `TypeCorrect`, `LiveTextsWereAccepted`, `SeedingIsWhole`,
`ReDecideIsOfItsScores`, `AdoptedTextsStay`.

`ContextProofs`. What an agent is sent comes out of folds: the tokens of a history,
the part of it that `Kept` keeps. A fold is defined by a function that only exists if
somebody shows it: `FoldingExists` does, for every finite set and step, by the least
set for which it would not, since an induction theorem cannot be cited. From it
`TokensAre` (the tokens of a history are its prefix sums) and `KeptEnd`: what is kept
is an end of the history that fits and a longer one does not, `FitTo` for the context
that is sent. `TypesOK` then needs to know of the last call only that it was not
refused: `SentWithinBudget`, `SentLongestEnd`, `SentStartsWithUser`. `TrimmingOK` says
that the payload at hand is `Left` of the one given, with which lists were empty when
the next was begun and that it was over the budget before the last drop:
`TrimmingIsInOrder`, `NoTrimmingInVain`. A call is refused only for its prompt and
handoff, never by the assertion after the cut (`NeverAsserted`), because the budget
cut to is at most the one asserted (`token_guard.py:22`, `28`): `RefusalsOnlyForPrompts`.
It is proved for all token counts, prompts and lists; that a payload with items left
out has a number of tokens is part of `ContextAssumption`.

`EvaluationProofs`. That no borrower counts twice is a fact about the balanced order:
`Before` orders the borrowers strictly and completely (`BeforeOrders`), so each has a
place of his own (`Places`) and `Balanced` is injective (`BalancedIs`). `EvaluationInv`
adds to the types that each side has exactly the samples of the borrowers met so far,
in order (`InStep`), that an open conversation is there only if something was cut off,
and that a decision to adopt is there only between the gate and the adoption. At the
gate the two columns are therefore one list: `ComparedWithHimself`. `Whole` follows which
samples may be of an open conversation: `ScoredAreWhole`. `GateBeats` is the arithmetic
of `evaluate_gate`: sums as folds (`SumIs`), constant samples whose pooled spread is
zero (`NoSpread`), and what a large effect says of two means (`LargeMeans`); after it
nothing changes the scores until the decision is taken back: `AdoptedIsBetter`.
`FoldingExists` stands in both modules, because neither can extend the other.

The proofs assume the named `ASSUME`s of the modules and nothing else.

**Only model-checked.** Liveness and the fairness half of the refinement are out of
the prover's reach: `Termination`, `EveryWorkflowCloses`, `RunEnds`, `ScriptEnds` and
that half of `ImplementsPipeline`. Every invariant and every other action property that
a passing run checks is stated by a theorem.

## What is assumed and what is left out

* External: Temporal, the call service, the language model, the borrower, the
  operator. The model's answers, the borrower's words and every score are any value.
* The activities are `async` functions that block, so a worker runs one at a time.
* One learning process per agent, and one agent per run of the script (`--agents`
  rotates over several with one counter; the steps per agent are the same). An
  upsert is one transaction that nobody interleaves with, which that makes true.
* A text is never proposed twice. Conversations of the agent that other agents'
  evaluations hold are not added to `scored`.
* A text copied between a file and a row stays itself in `Registry`; `load_prompt`
  strips white space at its ends (`seed_db.py:37`), which a lifted text may have.
* What a handoff says, excerpts, wording and reports are left out, as are token
  counts outside `Context` and costs outside `Spending`. The patterns of the rules and
  the judges that are models are signs and answers. Resampling is floating point
  numerics and left open; so are the tests of the consensus, whose verdict `Registry`
  takes as given. `chat`, the smoke test, the report and `vapi_call` read and print.
  `Context` counts what the code
  counts: not the handoff's wrapper, nor the kickoff, nor the rounds of tool calls
  within a reply. The voice assistant has no token guard.
* The ledger has a lock and the loop one thread; a worker that shares nothing with
  it but the database is not in `Spending`. Each of its activities pays one more call
  after the worker's own line.

## Plan

Done: `Conversation`, `Pipeline`, `Collections`, `Learner`, `Context`, `Spending`,
`Registry`, `MetaEvaluator`, `Evaluation`, with the proofs above. Left:

1. A second agent in `Learner`, whose evaluation runs this agent's live prompt while
   it is a candidate, and the rotation of `--agents`.
2. The consensus of `stats/methods.py` over abstract votes, in `Registry`.
