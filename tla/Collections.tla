---------------------------- MODULE Collections -----------------------------
(***************************************************************************)
(* The collections pipeline: CollectionsWorkflow takes a borrower through  *)
(* assessment, resolution and final notice, each a run_chat_agent          *)
(* activity, with a summarize_handoff activity before the second and the   *)
(* third. Activities run on workers that may crash or fall silent; the     *)
(* Temporal server (external) queues an attempt, times it out, retries it  *)
(* or fails the workflow, and takes a result only from the attempt it      *)
(* waits for, while the worker of an attempt it gave up on goes on.        *)
(*                                                                         *)
(* In voice mode the resolution stage only places a call. The call service *)
(* (external) ends the call in its own time and posts the report to the    *)
(* webhook, any number of times.                                           *)
(***************************************************************************)
EXTENDS AgentContract, Naturals, Sequences, FiniteSets

CONSTANTS Workflows,       (* the workflows the gateway may start, all for one borrower *)
          Workers,         (* the worker processes; each runs one activity at a time    *)
          MaxAssessments,  (* max_assessment_attempts                                   *)
          VoiceMode,       (* settings().voice_mode = "vapi"                            *)
          MaxDeliveries,   (* bound: how often the service posts one call's report      *)
          Outcome,         (* the outcomes a conversation of each stage ends with       *)
          CallOutcomes     (* the outcomes the webhook reads off a call's transcript    *)

ChatStages    == {"assess", "resolve", "final"}
HandoffStages == {"handoff2", "handoff3"}
Stages        == ChatStages \cup HandoffStages

AgentOf == [assess |-> "agent_1", resolve |-> "agent_2", final |-> "agent_3"]
NextStage == [assess |-> "handoff2", handoff2 |-> "resolve",
              resolve |-> "handoff3", handoff3 |-> "final"]

(* The values of _classify_call_outcome.                                   *)
VoiceOutcomes == {"opt_out", "deal_agreed", "escalate_hardship", "no_deal"}

ASSUME CollectionsAssumption ==
  /\ MaxAssessments \in Nat \ {0}
  /\ VoiceMode \in BOOLEAN
  /\ MaxDeliveries \in Nat
  /\ DOMAIN Outcome = ChatStages
  /\ CallOutcomes \subseteq VoiceOutcomes
  /\ \A s \in ChatStages : Outcome[s] \subseteq ConversationOutcomes(AgentOf[s])

(* maximum_attempts of the activity's retry policy.                        *)
MaxTriesAlike(s) == 2  \* mutant: every activity is retried once
MaxTries(s) == IF s \in ChatStages THEN 1 ELSE 2

Results == {"resolved_at_resolution", "resolved_at_final", "unresolved", "opt_out"}

VARIABLES
  (* the workflow: its code's locals, rebuilt from Temporal's history      *)
  status,     (* new, running, completed or failed                         *)
  stage,      (* the activity the workflow awaits                          *)
  heard,      (* the outcomes of the conversations it got back, in order   *)
  source,     (* the conversation whose id it kept for each stage          *)
  exhausted,  (* assessment_exhausted                                      *)
  result,     (* the outcome it returns                                    *)
  payload,    (* the conversations each handoff it got back covers         *)
  (* Temporal's task for the awaited activity                              *)
  task,
  (* the workers: the activity each runs                                   *)
  job,
  (* the database                                                          *)
  convs,      (* conversations rows by workflow_id, oldest first           *)
  handoffs,   (* handoffs rows by workflow, oldest first                   *)
  reports,    (* the conversations rows the webhook created                *)
  (* the call service                                                      *)
  calls

wfVars == <<status, stage, heard, source, exhausted, result, payload>>
vars   == <<status, stage, heard, source, exhausted, result, payload,
            task, job, convs, handoffs, reports, calls>>

Idle == [step |-> "idle"]

-----------------------------------------------------------------------------
Init ==
  /\ status = [w \in Workflows |-> "new"]
  /\ stage = [w \in Workflows |-> "assess"]
  /\ heard = [w \in Workflows |-> <<>>]
  /\ source = [w \in Workflows |-> [s \in ChatStages |-> 0]]
  /\ exhausted = [w \in Workflows |-> FALSE]
  /\ result = [w \in Workflows |-> "unresolved"]
  /\ payload = [w \in Workflows |-> [s \in HandoffStages |-> {}]]
  /\ task = [w \in Workflows |-> [token |-> 0, tries |-> 0, state |-> "none"]]
  /\ job = [k \in Workers |-> Idle]
  /\ convs = [w \in Workflows |-> <<>>]
  /\ handoffs = [w \in Workflows |-> <<>>]
  /\ reports = <<>>
  /\ calls = <<>>

-----------------------------------------------------------------------------
(* The server.                                                             *)

FirstTry(t)  == [token |-> t.token + 1, tries |-> 1, state |-> "queued"]
NextTry(t)   == [token |-> t.token + 1, tries |-> t.tries + 1, state |-> "queued"]
NoTask(t)    == [t EXCEPT !.state = "none"]

Start(w) ==
  /\ status[w] = "new"
  /\ status' = [status EXCEPT ![w] = "running"]
  /\ task' = [task EXCEPT ![w] = FirstTry(@)]
  /\ UNCHANGED <<stage, heard, source, exhausted, result, payload,
                 job, convs, handoffs, reports, calls>>

(* An attempt failed or timed out: another one while the policy allows,    *)
(* else the activity's error ends the workflow, which does not catch it.   *)
AttemptFailsUnseen(w) ==  \* mutant: the workflow does not see the error
  IF task[w].tries < MaxTries(stage[w])
  THEN task' = [task EXCEPT ![w] = NextTry(@)] /\ UNCHANGED status
  ELSE task' = [task EXCEPT ![w] = NoTask(@)] /\ UNCHANGED status
AttemptFails(w) ==
  IF task[w].tries < MaxTries(stage[w])
  THEN /\ task' = [task EXCEPT ![w] = NextTry(@)]
       /\ UNCHANGED status
  ELSE /\ task' = [task EXCEPT ![w] = NoTask(@)]
       /\ status' = [status EXCEPT ![w] = "failed"]

(* No heartbeat after the one at the activity's start, or no completion.   *)
Timeout(w) ==
  /\ task[w].state = "started"
  /\ AttemptFails(w)
  /\ UNCHANGED <<stage, heard, source, exhausted, result, payload,
                 job, convs, handoffs, reports, calls>>

-----------------------------------------------------------------------------
(* The workers.                                                            *)

Begin(k, w) ==
  /\ job[k] = Idle
  /\ task[w].state = "queued"
  /\ task' = [task EXCEPT ![w].state = "started"]
  /\ job' = [job EXCEPT ![k] = [step |-> "begin", wf |-> w, token |-> task[w].token,
                                stage |-> stage[w], conv |-> 0,
                                outcome |-> NULL, covers |-> {}]]
  /\ UNCHANGED <<wfVars, convs, handoffs, reports, calls>>

OverVoice(k) == VoiceMode /\ job[k].stage = "resolve"

InsertConversation(k, step) ==
  LET w == job[k].wf
  IN /\ convs' = [convs EXCEPT ![w] = Append(@, [stage |-> job[k].stage, outcome |-> NULL])]
     /\ job' = [job EXCEPT ![k].step = step, ![k].conv = Len(convs[w]) + 1,
                           ![k].outcome = IF OverVoice(k) THEN "vapi_initiated" ELSE NULL]

(* run_chat_conversation creates its row and the borrower is contacted.    *)
CreateConversation(k) ==
  /\ job[k].step = "begin" /\ job[k].stage \in ChatStages
  /\ ~ OverVoice(k)
  /\ InsertConversation(k, "talk")
  /\ UNCHANGED <<wfVars, task, handoffs, reports, calls>>

(* end_conversation commits the outcome, which the activity returns.       *)
EndConversation(k, o) ==
  /\ job[k].step = "talk"
  /\ o \in Outcome[job[k].stage]
  /\ convs' = [convs EXCEPT ![job[k].wf][job[k].conv].outcome = o]
  /\ job' = [job EXCEPT ![k].step = "report", ![k].outcome = o]
  /\ UNCHANGED <<wfVars, task, handoffs, reports, calls>>

(* start_outbound_call, then a placeholder row nobody ends.                *)
PlaceCall(k) ==
  /\ job[k].step = "begin" /\ OverVoice(k)
  /\ calls' = Append(calls, [wf |-> job[k].wf, outcome |-> NULL, posted |-> 0])
  /\ job' = [job EXCEPT ![k].step = "placed"]
  /\ UNCHANGED <<wfVars, task, convs, handoffs, reports>>

CreatePlaceholder(k) ==
  /\ job[k].step = "placed"
  /\ InsertConversation(k, "report")
  /\ UNCHANGED <<wfVars, task, handoffs, reports, calls>>

(* The conversations whose ids the workflow passes to summarize_handoff.   *)
SourcesOfLast(w, s) ==  \* mutant: a handoff covers the last conversation only
  {source[w][IF s = "handoff2" THEN "assess" ELSE "resolve"]}
Sources(w, s) ==
  IF s = "handoff2" THEN {source[w]["assess"]} ELSE {source[w]["assess"], source[w]["resolve"]}

(* load_turns of each: only a conversation that was held has its turns.    *)
LoadTurns(k) ==
  LET w == job[k].wf
  IN /\ job[k].step = "begin" /\ job[k].stage \in HandoffStages
     /\ job' = [job EXCEPT ![k].step = "record",
                           ![k].covers = {c \in Sources(w, job[k].stage) : convs[w][c].outcome # NULL}]
     /\ UNCHANGED <<wfVars, task, convs, handoffs, reports, calls>>

RecordHandoff(k) ==
  /\ job[k].step = "record"
  /\ handoffs' = [handoffs EXCEPT ![job[k].wf] =
                    Append(@, [to |-> NextStage[job[k].stage], covers |-> job[k].covers])]
  /\ job' = [job EXCEPT ![k].step = "report"]
  /\ UNCHANGED <<wfVars, task, convs, reports, calls>>

(* The activity raises: the server hears of it if it still waits for it.   *)
Awaited(k) == /\ task[job[k].wf].state = "started"
              /\ task[job[k].wf].token = job[k].token

Raise(k) ==
  /\ job[k].step \in {"begin", "talk", "placed", "record"}
  /\ IF Awaited(k) THEN AttemptFails(job[k].wf) ELSE UNCHANGED <<task, status>>
  /\ job' = [job EXCEPT ![k] = Idle]
  /\ UNCHANGED <<stage, heard, source, exhausted, result, payload,
                 convs, handoffs, reports, calls>>

(* The process dies and comes back idle; the server finds out by timeout.  *)
Crash(k) ==
  /\ job[k] # Idle
  /\ job' = [job EXCEPT ![k] = Idle]
  /\ UNCHANGED <<wfVars, task, convs, handoffs, reports, calls>>

(* A result the server no longer waits for is dropped.                     *)
DropResult(k) ==
  /\ job[k].step = "report" /\ ~ Awaited(k)
  /\ job' = [job EXCEPT ![k] = Idle]
  /\ UNCHANGED <<wfVars, task, convs, handoffs, reports, calls>>

-----------------------------------------------------------------------------
(* The workflow's code between two awaits, on the result of worker k.      *)

Proceed(w, next) ==
  /\ stage' = [stage EXCEPT ![w] = next]
  /\ task' = [task EXCEPT ![w] = FirstTry(@)]
  /\ UNCHANGED <<status, result>>

Return(w, r) ==
  /\ status' = [status EXCEPT ![w] = "completed"]
  /\ result' = [result EXCEPT ![w] = r]
  /\ task' = [task EXCEPT ![w] = NoTask(@)]
  /\ UNCHANGED stage

(* The result of a conversation arrives and its id is kept.                *)
HearOutcome(k, s) ==
  LET w == job[k].wf
  IN /\ job[k].step = "report" /\ Awaited(k)
     /\ stage[w] = s
     /\ heard' = [heard EXCEPT ![w] = Append(@, job[k].outcome)]
     /\ source' = [source EXCEPT ![w][s] = job[k].conv]
     /\ job' = [job EXCEPT ![k] = Idle]
     /\ UNCHANGED <<payload, convs, handoffs, reports, calls>>

(* The assessment loop: these three outcomes leave it, anything else is    *)
(* tried again while attempts are left.                                    *)
LeavesLoopUnlessSilent(o) == o # "no_response"  \* mutant: only silence is tried again
LeavesLoop(o) == o \in {"assessed", "partial", "opt_out"}

Exhausted(last, o) == last /\ o = "no_response"

AfterAssessment(w, o) ==
  IF o = "opt_out" THEN Return(w, "opt_out") ELSE Proceed(w, "handoff2")

AssessmentDone(k) ==
  LET w == job[k].wf
      o == job[k].outcome
      last == LeavesLoop(o) \/ Len(heard[w]) + 1 = MaxAssessments
  IN /\ HearOutcome(k, "assess")
     /\ exhausted' = [exhausted EXCEPT ![w] = Exhausted(last, o)]
     /\ IF last THEN AfterAssessment(w, o) ELSE Proceed(w, "assess")

AfterResolutionGoOn(w, o) ==  \* mutant: opt-out not checked
  IF o = "deal_agreed" THEN Return(w, "resolved_at_resolution") ELSE Proceed(w, "handoff3")
AfterResolution(w, o) ==
  IF o = "deal_agreed" THEN Return(w, "resolved_at_resolution")
  ELSE IF o = "opt_out" THEN Return(w, "opt_out")
  ELSE Proceed(w, "handoff3")

ResolutionDone(k) ==
  /\ HearOutcome(k, "resolve")
  /\ AfterResolution(job[k].wf, job[k].outcome)
  /\ UNCHANGED exhausted

FinalResult(o) ==
  IF o = "resolved" THEN "resolved_at_final"
  ELSE IF o = "opt_out" THEN "opt_out" ELSE "unresolved"

FinalNoticeDone(k) ==
  /\ HearOutcome(k, "final")
  /\ Return(job[k].wf, FinalResult(job[k].outcome))
  /\ UNCHANGED exhausted

HandoffDone(k) ==
  LET w == job[k].wf
  IN /\ job[k].step = "report" /\ Awaited(k)
     /\ stage[w] \in HandoffStages
     /\ payload' = [payload EXCEPT ![w][stage[w]] = job[k].covers]
     /\ Proceed(w, NextStage[stage[w]])
     /\ job' = [job EXCEPT ![k] = Idle]
     /\ UNCHANGED <<heard, source, exhausted, convs, handoffs, reports, calls>>

-----------------------------------------------------------------------------
(* The call service and the webhook.                                       *)

CallEnds(c, o) ==
  /\ calls[c].outcome = NULL
  /\ calls' = [calls EXCEPT ![c].outcome = o]
  /\ UNCHANGED <<wfVars, task, job, convs, handoffs, reports>>

(* Each delivery inserts a conversation of its own under the call's id; a  *)
(* handler that raises on the way leaves the row without an outcome.       *)
WebhookDelivers(c, o) ==
  /\ calls[c].outcome # NULL /\ calls[c].posted < MaxDeliveries
  /\ o \in {calls[c].outcome, NULL}
  /\ reports' = Append(reports, [call |-> c, outcome |-> o])
  /\ calls' = [calls EXCEPT ![c].posted = @ + 1]
  /\ UNCHANGED <<wfVars, task, job, convs, handoffs>>

-----------------------------------------------------------------------------
Closed == \A w \in Workflows : status[w] \in {"completed", "failed"}

Over == /\ Closed /\ \A k \in Workers : job[k] = Idle
        /\ \A c \in DOMAIN calls : calls[c].outcome # NULL /\ calls[c].posted = MaxDeliveries
        /\ UNCHANGED vars

(* What a worker does once it runs an activity.                            *)
Work(k) ==
  \/ CreateConversation(k)
  \/ \E o \in Outcome["assess"] \cup Outcome["resolve"] \cup Outcome["final"] : EndConversation(k, o)
  \/ PlaceCall(k) \/ CreatePlaceholder(k)
  \/ LoadTurns(k) \/ RecordHandoff(k)
  \/ AssessmentDone(k) \/ ResolutionDone(k) \/ FinalNoticeDone(k) \/ HandoffDone(k)
  \/ DropResult(k)

Next ==
  \/ \E w \in Workflows : Start(w) \/ Timeout(w)
  \/ \E k \in Workers : Work(k) \/ Raise(k) \/ Crash(k)
  \/ \E k \in Workers, w \in Workflows : Begin(k, w)
  \/ \E c \in DOMAIN calls : \E o \in CallOutcomes : CallEnds(c, o)
  \/ \E c \in DOMAIN calls : \E o \in CallOutcomes \cup {NULL} : WebhookDelivers(c, o)
  \/ Over

(* A worker goes on with what it runs and picks up what is queued, and the *)
(* server's timers fire; nobody has to start a workflow, raise or crash.   *)
Fairness ==
  /\ \A k \in Workers : WF_vars(Work(k))
  /\ \A k \in Workers, w \in Workflows : WF_vars(Begin(k, w))
  /\ \A w \in Workflows : WF_vars(Timeout(w))

Spec == Init /\ [][Next]_vars /\ Fairness
-----------------------------------------------------------------------------
(* Properties.                                                             *)

(* Workflow w as module Pipeline sees it.                                  *)
PipelineWords       == {"vapi_initiated"} \cup UNION {Outcome[s] : s \in ChatStages}
PipelineStage(w)    == IF stage[w] \in HandoffStages THEN NextStage[stage[w]] ELSE stage[w]
PipelineContacts(w) == [i \in DOMAIN convs[w] |-> convs[w][i].stage]
PipelineVerdict(w)  ==
  [new |-> "idle", running |-> "open", failed |-> "failed", completed |-> result[w]][status[w]]

Jobs == [step : {"begin", "talk", "placed", "record", "report"}, wf : Workflows, token : Nat,
         stage : Stages, conv : Nat, outcome : PipelineWords \cup {NULL},
         covers : SUBSET Nat]

(* Every variable stays in its type.                                       *)
TypeOK ==
  /\ status \in [Workflows -> {"new", "running", "completed", "failed"}]
  /\ stage \in [Workflows -> Stages]
  /\ heard \in [Workflows -> Seq(PipelineWords)]
  /\ source \in [Workflows -> [ChatStages -> Nat]]
  /\ exhausted \in [Workflows -> BOOLEAN]
  /\ result \in [Workflows -> Results]
  /\ payload \in [Workflows -> [HandoffStages -> SUBSET Nat]]
  /\ task \in [Workflows -> [token : Nat, tries : Nat, state : {"none", "queued", "started"}]]
  /\ job \in [Workers -> Jobs \cup {Idle}]
  /\ convs \in [Workflows -> Seq([stage : ChatStages, outcome : PipelineWords \cup {NULL}])]
  /\ handoffs \in [Workflows -> Seq([to : ChatStages, covers : SUBSET Nat])]
  /\ reports \in Seq([call : Nat, outcome : VoiceOutcomes \cup {NULL}])
  /\ calls \in Seq([wf : Workflows, outcome : VoiceOutcomes \cup {NULL}, posted : Nat])

(* "opt_out short-circuits at every stage": after a conversation of the    *)
(* workflow that ended in an opt-out there is no other one, whatever       *)
(* crashed, timed out or was retried in between.                           *)
NoContactAfterOptOut ==
  \A w \in Workflows : \A i, j \in DOMAIN convs[w] :
    i < j => convs[w][i].outcome # "opt_out"

(* The workflow's view and the rows agree: each outcome it got back is the *)
(* one on the row of that rank, and at most one row is ahead of it.        *)
RowsMatchHistory ==
  \A w \in Workflows :
    /\ Len(convs[w]) \in {Len(heard[w]), Len(heard[w]) + 1}
    /\ \A i \in DOMAIN heard[w] : convs[w][i].outcome = heard[w][i]

Rows(w, s) == {i \in DOMAIN convs[w] : convs[w][i].stage = s}

(* No two workers hold conversations of one workflow at the same time,     *)
(* even when one of them was given up by the server.                       *)
OneConversationAtATime ==
  \A k, l \in Workers :
    job[k].step = "talk" /\ job[l].step = "talk" /\ job[k].wf = job[l].wf => k = l

(* The conversations the workflow hands on to a stage: the last assessment *)
(* only, whatever was said in those before it, and for the final notice    *)
(* the resolution too.                                                     *)
HandedOn(w, s) ==
  {i \in Rows(w, "assess") : \A j \in Rows(w, "assess") : j <= i} \cup
  (IF s = "final" THEN Rows(w, "resolve") ELSE {})

(* When the agent of a later stage contacts the borrower, the handoff it   *)
(* was given covers the last conversation of each stage before, held to    *)
(* its end, and every handoff row recorded for it, a retried or abandoned  *)
(* attempt's included, covers the same. It covers nothing else: what was   *)
(* said in an assessment that was repeated, after identity_unverified say, *)
(* reaches no later agent, though collections.py:132 has "full history".   *)
HandoffComplete ==
  \A w \in Workflows : \A s \in {"handoff2", "handoff3"} : Rows(w, NextStage[s]) # {} =>
    /\ payload[w][s] = HandedOn(w, NextStage[s])
    /\ \E i \in DOMAIN handoffs[w] : handoffs[w][i].to = NextStage[s]
    /\ \A i \in DOMAIN handoffs[w] :
         handoffs[w][i].to = NextStage[s] => handoffs[w][i].covers = payload[w][s]

(* The call service is asked at most once per workflow: a crash between    *)
(* the call and its row, or a timeout, does not make the phone ring again. *)
OneCallPerWorkflow ==
  \A c, d \in DOMAIN calls : calls[c].wf = calls[d].wf => c = d

(* Each workflow that is started comes to an end: no crash, lost result or *)
(* retry leaves it waiting for ever.                                       *)
EveryWorkflowCloses ==
  \A w \in Workflows : (status[w] = "running") ~> (status[w] \in {"completed", "failed"})

(* "No continued outreach after explicit refusal" (assignment, rule 3):    *)
(* once a row says that the borrower opted out, in a chat or in the report *)
(* of the call, no further conversation with the borrower is begun.        *)
(* (A call has its own row besides, made when it was placed.) Violated in  *)
(* voice mode: no workflow waits for the report or looks for one.          *)
Refused == \/ \E w \in Workflows : \E i \in DOMAIN convs[w] : convs[w][i].outcome = "opt_out"
           \/ \E i \in DOMAIN reports : reports[i].outcome = "opt_out"
RefusalIsFinal ==
  [][Refused => \A w \in Workflows :
       \/ Len(convs'[w]) = Len(convs[w])
       \/ VoiceMode /\ convs'[w][Len(convs'[w])].stage = "resolve"]_vars
=============================================================================
