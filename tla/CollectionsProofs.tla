-------------------------- MODULE CollectionsProofs --------------------------
(***************************************************************************)
(* What holds of the pipeline for every number of workflows, workers and   *)
(* attempts, for every outcome and in both modes: the types, that nobody   *)
(* is contacted after an opt-out, that no two conversations of a workflow  *)
(* run at once, that each workflow's steps are steps of its promise        *)
(* (module Pipeline), that a borrower is called once, and that an agent    *)
(* starts with a summary of all that was said before.                      *)
(***************************************************************************)
EXTENDS Collections, SequenceTheorems, TLAPS

(* The promise made for workflow w.                                        *)
Promise(w) == INSTANCE Pipeline WITH
  Words    <- PipelineWords,
  stage    <- PipelineStage(w),
  contacts <- PipelineContacts(w),
  heard    <- heard[w],
  verdict  <- PipelineVerdict(w)

-----------------------------------------------------------------------------
(* The inductive invariant.                                                *)

Voiced(s) == VoiceMode /\ s = "resolve"

(* The rows are the outcomes heard and at most one row more, which only a  *)
(* workflow that is open or failed can have; an opt-out heard was the last *)
(* thing heard and ended the workflow.                                     *)
HistoryInv(w) ==
  /\ Len(convs[w]) \in {Len(heard[w]), Len(heard[w]) + 1}
  /\ \A i \in 1..Len(heard[w]) :
        ~ Voiced(convs[w][i].stage) => convs[w][i].outcome = heard[w][i]
  /\ \A i \in 1..Len(convs[w]) : Voiced(convs[w][i].stage) => convs[w][i].outcome = NULL
  /\ \A i \in 1..Len(heard[w]) :
        heard[w][i] = "opt_out" => i = Len(heard[w]) /\ status[w] = "completed"
  /\ status[w] \in {"new", "completed"} => Len(convs[w]) = Len(heard[w])
  /\ status[w] = "new" => stage[w] = "assess"
  /\ stage[w] = "assess" /\ status[w] \in {"new", "running"} => Len(heard[w]) < MaxAssessments

(* A queued conversation has no row yet, and no row is open while a        *)
(* handoff is awaited.                                                     *)
TaskInv(w) ==
  /\ status[w] = "running" <=> task[w].state # "none"
  /\ status[w] = "running" => task[w].tries >= 1
  /\ task[w].state = "queued" => Len(convs[w]) = Len(heard[w])
  /\ status[w] = "running" /\ stage[w] \in HandoffStages => Len(convs[w]) = Len(heard[w])

(* A worker that holds a conversation is the attempt its workflow waits    *)
(* for, or waited for when it failed: chat activities are never retried.   *)
ChatJobInv(w, j) ==
  /\ j.token = task[w].token
  /\ status[w] \in {"running", "failed"}
  /\ j.step \in {"begin", "talk", "placed", "report"}
  /\ j.step \in {"begin", "placed"} => Len(convs[w]) = Len(heard[w])
  /\ j.step \in {"talk", "report"} =>
       /\ Len(convs[w]) = Len(heard[w]) + 1
       /\ j.conv = Len(convs[w]) /\ convs[w][j.conv].stage = j.stage
  /\ j.step = "talk" => ~ Voiced(j.stage)
  /\ j.step = "placed" => Voiced(j.stage)
  /\ j.step = "report" =>
       /\ j.outcome \in PipelineWords
       /\ ~ Voiced(j.stage) => convs[w][j.conv].outcome = j.outcome

(* Tokens name attempts: a job with the token of its workflow's task runs  *)
(* what the workflow awaits, the others were given up.                     *)
JobInv(w, j) ==
  /\ j.token <= task[w].token
  /\ j.token = task[w].token => task[w].state # "queued" /\ j.stage = stage[w]
  /\ j.stage \in ChatStages => ChatJobInv(w, j)
  /\ j.stage \in HandoffStages => j.step \in {"begin", "record", "report"}

JobsOf(w) == {k \in Workers : job[k] # Idle /\ job[k].wf = w}

WorkflowInv(w) ==
  /\ HistoryInv(w)
  /\ TaskInv(w)
  /\ \A k \in JobsOf(w) : JobInv(w, job[k])
  /\ \A k, l \in JobsOf(w) : k # l => job[k].token # job[l].token

IInv == TypeOK /\ \A w \in Workflows : WorkflowInv(w)

-----------------------------------------------------------------------------
(* A step is about one workflow; the invariant of the others stays.        *)

Same(v) == /\ status'[v] = status[v] /\ stage'[v] = stage[v] /\ heard'[v] = heard[v]
           /\ convs'[v] = convs[v] /\ task'[v] = task[v]

OnlyTouches(w) ==
  /\ \A v \in Workflows \ {w} : Same(v)
  /\ \A k \in Workers : job'[k] = job[k] \/
       /\ job[k] = Idle \/ job[k].wf = w
       /\ job'[k] = Idle \/ job'[k].wf = w

(* A workflow nobody touched keeps its invariant.                          *)
LEMMA Untouched ==
  ASSUME NEW v, Same(v), \A k \in Workers : job'[k] = job[k] \/ (k \notin JobsOf(v) /\ k \notin JobsOf(v)'),
         WorkflowInv(v)
  PROVE  WorkflowInv(v)'
<1>1. HistoryInv(v)' /\ TaskInv(v)'
  BY DEF Same, WorkflowInv, HistoryInv, TaskInv
<1>2. JobsOf(v)' = JobsOf(v) /\ \A k \in JobsOf(v) : job'[k] = job[k]
  BY DEF JobsOf
<1>3. \A k \in JobsOf(v)' : JobInv(v, job[k])'
  BY <1>2 DEF Same, WorkflowInv, JobInv, ChatJobInv
<1>4. QED  BY <1>1, <1>2, <1>3 DEF WorkflowInv

(* So a step keeps the invariant if it keeps the types and that of the one *)
(* workflow it is about.                                                   *)
LEMMA StepOfOne ==
  ASSUME IInv, NEW w \in Workflows, OnlyTouches(w), TypeOK', WorkflowInv(w)'
  PROVE  IInv'
<1>1. ASSUME NEW v \in Workflows, v # w PROVE WorkflowInv(v)'
  <2>1. \A k \in Workers : job'[k] = job[k] \/ (k \notin JobsOf(v) /\ k \notin JobsOf(v)')
    BY <1>1 DEF OnlyTouches, JobsOf
  <2>2. QED  BY <1>1, <2>1, Untouched DEF OnlyTouches, IInv
<1>2. QED  BY <1>1 DEF IInv

(* What the invariant says of a worker that is busy.                       *)
LEMMA BusyWorker ==
  ASSUME IInv, NEW k \in Workers, job[k] # Idle
  PROVE  /\ job[k] \in Jobs /\ job[k].wf \in Workflows
         /\ k \in JobsOf(job[k].wf)
         /\ WorkflowInv(job[k].wf) /\ JobInv(job[k].wf, job[k])
<1>1. job[k] \in Jobs
  BY DEF IInv, TypeOK
<1>2. job[k].wf \in Workflows
  BY <1>1 DEF Jobs
<1>3. QED  BY <1>1, <1>2 DEF IInv, WorkflowInv, JobsOf

(* A worker that falls idle leaves the invariant of its workflow.          *)
LEMMA FallsIdle ==
  ASSUME IInv, NEW k \in Workers, job[k] # Idle,
         job' = [job EXCEPT ![k] = Idle], UNCHANGED <<wfVars, task, convs, handoffs, reports, calls>>
  PROVE  IInv'
<1>1. PICK w \in Workflows : w = job[k].wf /\ WorkflowInv(w)
  BY BusyWorker
<1>2. TypeOK'
  <2>1. job' \in [Workers -> Jobs \cup {Idle}]
    BY DEF IInv, TypeOK
  <2>2. QED  BY <2>1 DEF IInv, TypeOK, wfVars
<1>3. \A l \in Workers : IF l = k THEN job'[l] = Idle ELSE job'[l] = job[l]
  BY DEF IInv, TypeOK
<1>4. OnlyTouches(w)
  BY <1>1, <1>3 DEF OnlyTouches, Same, wfVars
<1>5. HistoryInv(w)' /\ TaskInv(w)'
  BY <1>1 DEF WorkflowInv, HistoryInv, TaskInv, wfVars
<1>6. \A l \in JobsOf(w)' : l \in JobsOf(w) /\ job'[l] = job[l]
  BY <1>3 DEF JobsOf
<1>7. \A l \in JobsOf(w)' : JobInv(w, job[l])'
  BY <1>1, <1>6 DEF WorkflowInv, JobInv, ChatJobInv, wfVars
<1>8. WorkflowInv(w)'
  BY <1>1, <1>5, <1>6, <1>7 DEF WorkflowInv
<1>9. QED  BY <1>2, <1>4, <1>8, StepOfOne

(* Start queues the first attempt.                                         *)
LEMMA StartStep ==
  ASSUME IInv, NEW w \in Workflows, Start(w)
  PROVE  IInv'
<1>1. WorkflowInv(w) /\ TypeOK
  BY DEF IInv
<1>2. /\ status[w] = "new" /\ status' = [status EXCEPT ![w] = "running"]
      /\ task' = [task EXCEPT ![w] = FirstTry(task[w])]
      /\ UNCHANGED <<stage, heard, source, exhausted, result, payload,
                      job, convs, handoffs, reports, calls>>
  BY DEF Start
<1>3. TypeOK'
  <2>1. task' \in [Workflows -> [token : Nat, tries : Nat, state : {"none", "queued", "started"}]]
    BY <1>1, <1>2 DEF TypeOK, FirstTry
  <2>2. status' \in [Workflows -> {"new", "running", "completed", "failed"}]
    BY <1>1, <1>2 DEF TypeOK
  <2>3. QED  BY <1>1, <1>2, <2>1, <2>2 DEF TypeOK
<1>4. OnlyTouches(w)
  BY <1>1, <1>2 DEF OnlyTouches, Same, TypeOK
<1>5. /\ status'[w] = "running" /\ task'[w].state = "queued"
      /\ task'[w].tries = 1 /\ task'[w].token = task[w].token + 1
      /\ task[w].token \in Nat
  BY <1>1, <1>2 DEF FirstTry, TypeOK
<1>6. HistoryInv(w)' /\ TaskInv(w)'
  BY <1>1, <1>2, <1>5 DEF WorkflowInv, HistoryInv, TaskInv, HandoffStages
<1>7. ASSUME NEW k \in JobsOf(w) PROVE JobInv(w, job[k])'
  <2>1. job[k].stage \notin ChatStages /\ JobInv(w, job[k]) /\ job[k].token \in Nat
    BY <1>1, <1>2 DEF WorkflowInv, JobInv, ChatJobInv, JobsOf, TypeOK, Jobs
  <2>2. QED  BY <1>2, <1>5, <2>1 DEF JobInv
<1>8. WorkflowInv(w)'
  BY <1>1, <1>2, <1>6, <1>7 DEF WorkflowInv, JobsOf
<1>9. QED  BY <1>3, <1>4, <1>8, StepOfOne

(* An attempt that fails is retried, for a handoff only, or fails the      *)
(* workflow; the worker that raised, if one did, falls idle.               *)
LEMMA AttemptFailsStep ==
  ASSUME IInv, NEW w \in Workflows, task[w].state = "started", AttemptFails(w),
         UNCHANGED <<stage, heard, source, exhausted, result, payload,
                     convs, handoffs, reports, calls>>,
         \/ job' = job
         \/ \E k \in JobsOf(w) : job' = [job EXCEPT ![k] = Idle]
  PROVE  IInv'
<1>1. WorkflowInv(w) /\ TypeOK
  BY DEF IInv
<1>2. status[w] = "running" /\ task[w].tries \in Nat \ {0} /\ task[w].token \in Nat
  BY <1>1 DEF WorkflowInv, TaskInv, TypeOK
<1>3. /\ job' \in [Workers -> Jobs \cup {Idle}]
      /\ \A l \in Workers : job'[l] = job[l] \/ (l \in JobsOf(w) /\ job'[l] = Idle)
  BY <1>1 DEF TypeOK
<1>4. \A l \in JobsOf(w)' : l \in JobsOf(w) /\ job'[l] = job[l]
  BY <1>3 DEF JobsOf
<1>5. CASE task[w].tries < MaxTries(stage[w])
  <2>1. stage[w] \in HandoffStages /\ stage[w] \notin ChatStages
    BY <1>1, <1>2, <1>5 DEF MaxTries, TypeOK, Stages, ChatStages, HandoffStages
  <2>2. task' = [task EXCEPT ![w] = NextTry(task[w])] /\ status' = status
    BY <1>5 DEF AttemptFails
  <2>3. /\ task'[w].state = "queued" /\ task'[w].token = task[w].token + 1
        /\ task'[w].tries \in Nat \ {0}
    BY <1>1, <1>2, <2>2 DEF TypeOK, NextTry
  <2>4. TypeOK'
    <3>1. task' \in [Workflows -> [token : Nat, tries : Nat, state : {"none", "queued", "started"}]]
      BY <1>1, <2>2 DEF TypeOK, NextTry
    <3>2. QED  BY <1>1, <1>3, <2>2, <3>1 DEF TypeOK
  <2>5. OnlyTouches(w)
    BY <1>1, <1>3, <2>2 DEF OnlyTouches, Same, TypeOK, JobsOf
  <2>6. HistoryInv(w)' /\ TaskInv(w)'
    BY <1>1, <1>2, <2>1, <2>2, <2>3 DEF WorkflowInv, HistoryInv, TaskInv
  <2>7. ASSUME NEW l \in JobsOf(w)' PROVE JobInv(w, job[l])'
    <3>1. JobInv(w, job[l]) /\ job[l].token \in Nat /\ job'[l] = job[l]
      BY <1>1, <1>4, <2>7 DEF WorkflowInv, JobsOf, TypeOK, Jobs
    <3>2. job[l].stage \notin ChatStages
      BY <2>1, <3>1 DEF JobInv, ChatJobInv
    <3>3. QED  BY <1>2, <2>3, <3>1, <3>2 DEF JobInv
  <2>8. WorkflowInv(w)'
    BY <1>1, <1>4, <2>6, <2>7 DEF WorkflowInv
  <2>9. QED  BY <2>4, <2>5, <2>8, StepOfOne
<1>6. CASE ~ (task[w].tries < MaxTries(stage[w]))
  <2>1. task' = [task EXCEPT ![w] = NoTask(task[w])] /\ status' = [status EXCEPT ![w] = "failed"]
    BY <1>6 DEF AttemptFails
  <2>2. task'[w].state = "none" /\ task'[w].token = task[w].token /\ status'[w] = "failed"
    BY <1>1, <2>1 DEF TypeOK, NoTask
  <2>3. TypeOK'
    <3>0. NoTask(task[w]) \in [token : Nat, tries : Nat, state : {"none", "queued", "started"}]
      <4>1. task[w] \in [token : Nat, tries : Nat, state : {"none", "queued", "started"}]
        BY <1>1 DEF TypeOK
      <4>2. QED  BY <4>1 DEF NoTask
    <3>1. task' \in [Workflows -> [token : Nat, tries : Nat, state : {"none", "queued", "started"}]]
      BY <1>1, <2>1, <3>0 DEF TypeOK
    <3>2. status' \in [Workflows -> {"new", "running", "completed", "failed"}]
      BY <1>1, <2>1 DEF TypeOK
    <3>3. QED  BY <1>1, <1>3, <3>1, <3>2 DEF TypeOK
  <2>4. OnlyTouches(w)
    BY <1>1, <1>3, <2>1 DEF OnlyTouches, Same, TypeOK, JobsOf
  <2>5. HistoryInv(w)' /\ TaskInv(w)'
    BY <1>1, <1>2, <2>2 DEF WorkflowInv, HistoryInv, TaskInv
  <2>6. ASSUME NEW l \in JobsOf(w)' PROVE JobInv(w, job[l])'
    <3>1. JobInv(w, job[l]) /\ job'[l] = job[l]
      BY <1>1, <1>4, <2>6 DEF WorkflowInv
    <3>2. QED  BY <2>2, <3>1 DEF JobInv, ChatJobInv
  <2>7. WorkflowInv(w)'
    BY <1>1, <1>4, <2>5, <2>6 DEF WorkflowInv
  <2>8. QED  BY <2>3, <2>4, <2>7, StepOfOne
<1>7. QED  BY <1>5, <1>6

(* A worker takes the queued attempt.                                      *)
LEMMA BeginStep ==
  ASSUME IInv, NEW w \in Workflows, NEW k \in Workers, Begin(k, w)
  PROVE  IInv'
<1> DEFINE j == [step |-> "begin", wf |-> w, token |-> task[w].token, stage |-> stage[w],
                 conv |-> 0, outcome |-> NULL, covers |-> {}]
<1>1. WorkflowInv(w) /\ TypeOK
  BY DEF IInv
<1>2. /\ job[k] = Idle /\ task[w].state = "queued"
      /\ task' = [task EXCEPT ![w].state = "started"]
      /\ job' = [job EXCEPT ![k] = j]
      /\ UNCHANGED <<status, stage, heard, source, exhausted, result, payload,
                      convs, handoffs, reports, calls>>
  BY DEF Begin, wfVars
<1>3. j \in Jobs
  BY <1>1 DEF Jobs, TypeOK
<1>4. j # Idle /\ j.step = "begin" /\ j.wf = w /\ j.token = task[w].token /\ j.stage = stage[w]
  BY DEF Idle
<1> HIDE DEF j
<1>5. TypeOK'
  <2>1. task' \in [Workflows -> [token : Nat, tries : Nat, state : {"none", "queued", "started"}]]
    BY <1>1, <1>2 DEF TypeOK
  <2>2. job' \in [Workers -> Jobs \cup {Idle}]
    BY <1>1, <1>2, <1>3 DEF TypeOK
  <2>3. QED  BY <1>1, <1>2, <2>1, <2>2 DEF TypeOK
<1>6. /\ job'[k] = j /\ \A l \in Workers \ {k} : job'[l] = job[l]
      /\ task'[w].state = "started" /\ task'[w].token = task[w].token
      /\ task'[w].tries = task[w].tries
      /\ \A v \in Workflows \ {w} : task'[v] = task[v]
  BY <1>1, <1>2 DEF TypeOK
<1>7. OnlyTouches(w)
  BY <1>2, <1>4, <1>6 DEF OnlyTouches, Same
<1>8. HistoryInv(w)' /\ TaskInv(w)'
  BY <1>1, <1>2, <1>6 DEF WorkflowInv, HistoryInv, TaskInv
<1>9. \A l \in JobsOf(w)' : l = k \/ (l \in JobsOf(w) /\ job'[l] = job[l])
  BY <1>6 DEF JobsOf
<1>10. JobInv(w, job[k])'
  BY <1>1, <1>2, <1>4, <1>6 DEF WorkflowInv, TaskInv, JobInv, ChatJobInv, TypeOK, ChatStages, HandoffStages
<1>11. ASSUME NEW l \in JobsOf(w), l # k
       PROVE  JobInv(w, job[l])' /\ job[l].token # task[w].token
  BY <1>1, <1>2, <1>6, <1>11 DEF WorkflowInv, JobInv, ChatJobInv, JobsOf
<1>12. WorkflowInv(w)'
  BY <1>1, <1>4, <1>6, <1>8, <1>9, <1>10, <1>11 DEF WorkflowInv
<1>13. QED  BY <1>5, <1>7, <1>12, StepOfOne

(* A worker goes from one step of its activity to the next.                *)
LEMMA JobGoesOn ==
  ASSUME IInv, NEW w \in Workflows, NEW k \in JobsOf(w), NEW j \in Jobs,
         j.wf = w, j.token = job[k].token, JobInv(w, j), job' = [job EXCEPT ![k] = j],
         UNCHANGED <<status, stage, heard, task, convs>>, TypeOK'
  PROVE  IInv'
<1>1. WorkflowInv(w) /\ TypeOK /\ j # Idle /\ k \in Workers
  BY DEF IInv, Idle, Jobs, JobsOf
<1>2. job'[k] = j /\ \A l \in Workers \ {k} : job'[l] = job[l]
  BY <1>1 DEF TypeOK
<1>3. OnlyTouches(w)
  BY <1>1, <1>2 DEF OnlyTouches, Same, JobsOf
<1>4. HistoryInv(w)' /\ TaskInv(w)'
  BY <1>1 DEF WorkflowInv, HistoryInv, TaskInv
<1>5. JobsOf(w)' = JobsOf(w)
  BY <1>1, <1>2 DEF JobsOf
<1>6. JobInv(w, job[k])'
  BY <1>2 DEF JobInv, ChatJobInv
<1>7. \A l \in JobsOf(w) \ {k} : JobInv(w, job[l])'
  BY <1>1, <1>2 DEF WorkflowInv, JobInv, ChatJobInv, JobsOf
<1>8. \A l \in JobsOf(w) : job'[l].token = job[l].token
  BY <1>2 DEF JobsOf
<1>9. WorkflowInv(w)'
  BY <1>1, <1>4, <1>5, <1>6, <1>7, <1>8 DEF WorkflowInv
<1>10. QED  BY <1>3, <1>9, StepOfOne

(* The call, the transcripts and the handoff's row.                        *)
LEMMA SideSteps ==
  ASSUME IInv, NEW k \in Workers, PlaceCall(k) \/ LoadTurns(k) \/ RecordHandoff(k)
  PROVE  IInv'
<1>1. job[k] # Idle /\ TypeOK
  BY DEF PlaceCall, LoadTurns, RecordHandoff, Idle, IInv
<1>2. PICK w \in Workflows : w = job[k].wf /\ k \in JobsOf(w) /\ JobInv(w, job[k]) /\ job[k] \in Jobs
  BY <1>1, BusyWorker
<1>3. CASE PlaceCall(k)
  <2> DEFINE j == [job[k] EXCEPT !.step = "placed"]
  <2>1. job' = [job EXCEPT ![k] = j] /\ j \in Jobs
    BY <1>1, <1>2, <1>3 DEF PlaceCall, Jobs
  <2>2. JobInv(w, j) /\ j.wf = w /\ j.token = job[k].token
    BY <1>2, <1>3 DEF PlaceCall, JobInv, ChatJobInv, Jobs, OverVoice, Voiced, HandoffStages
  <2> HIDE DEF j
  <2>3. TypeOK'
    <3>1. job' \in [Workers -> Jobs \cup {Idle}]
      BY <1>1, <2>1 DEF TypeOK
    <3>2. calls' \in Seq([wf : Workflows, outcome : VoiceOutcomes \cup {NULL}, posted : Nat])
      BY <1>1, <1>2, <1>3 DEF TypeOK, PlaceCall
    <3>3. QED  BY <1>1, <1>3, <3>1, <3>2 DEF TypeOK, PlaceCall, wfVars
  <2>4. QED  BY <1>2, <1>3, <2>1, <2>2, <2>3, JobGoesOn DEF PlaceCall, wfVars
<1>4. CASE LoadTurns(k)
  <2> DEFINE c == {x \in Sources(w, job[k].stage) : convs[w][x].outcome # NULL}
             j == [job[k] EXCEPT !.step = "record", !.covers = c]
  <2>1. job' = [job EXCEPT ![k] = j]
    BY <1>1, <1>2, <1>4 DEF LoadTurns
  <2>2. j \in Jobs
    <3>1. c \in SUBSET Nat
      BY <1>1 DEF Sources, TypeOK, ChatStages
    <3> HIDE DEF c
    <3>2. QED  BY <1>2, <3>1 DEF Jobs
  <2>3. JobInv(w, j) /\ j.wf = w /\ j.token = job[k].token
    <3> HIDE DEF c
    <3>1. QED  BY <1>2, <1>4 DEF LoadTurns, JobInv, Jobs, HandoffStages, ChatStages
  <2> HIDE DEF j
  <2>4. TypeOK'
    <3>1. job' \in [Workers -> Jobs \cup {Idle}]
      BY <1>1, <2>1, <2>2 DEF TypeOK
    <3>2. QED  BY <1>1, <1>4, <3>1 DEF TypeOK, LoadTurns, wfVars
  <2>5. QED  BY <1>2, <1>4, <2>1, <2>2, <2>3, <2>4, JobGoesOn DEF LoadTurns, wfVars
<1>5. CASE RecordHandoff(k)
  <2> DEFINE j == [job[k] EXCEPT !.step = "report"]
  <2>1. job' = [job EXCEPT ![k] = j] /\ j \in Jobs
    BY <1>1, <1>2, <1>5 DEF RecordHandoff, Jobs
  <2>2. job[k].stage \in HandoffStages
    BY <1>2, <1>5 DEF RecordHandoff, JobInv, ChatJobInv, Jobs, Stages
  <2>3. JobInv(w, j) /\ j.wf = w /\ j.token = job[k].token
    BY <1>2, <2>2 DEF JobInv, Jobs, HandoffStages, ChatStages
  <2> HIDE DEF j
  <2>4. TypeOK'
    <3>1. job' \in [Workers -> Jobs \cup {Idle}]
      BY <1>1, <2>1 DEF TypeOK
    <3> DEFINE Row == [to : ChatStages, covers : SUBSET Nat]
               r == [to |-> NextStage[job[k].stage], covers |-> job[k].covers]
    <3>2. r \in Row
      BY <1>2, <2>2 DEF NextStage, HandoffStages, ChatStages, Jobs
    <3>3. handoffs' = [handoffs EXCEPT ![w] = Append(handoffs[w], r)] /\ handoffs \in [Workflows -> Seq(Row)]
      BY <1>1, <1>2, <1>5 DEF TypeOK, RecordHandoff
    <3> HIDE DEF r, Row
    <3>4. handoffs' \in [Workflows -> Seq(Row)]
      BY <1>2, <3>2, <3>3
    <3>5. QED  BY <1>1, <1>5, <3>1, <3>4 DEF TypeOK, RecordHandoff, wfVars, Row
  <2>5. QED  BY <1>2, <1>5, <2>1, <2>3, <2>4, JobGoesOn DEF RecordHandoff, wfVars
<1>6. QED  BY <1>3, <1>4, <1>5

(* The one conversation of a workflow is its only chat job: the others are *)
(* handoffs that were given up, and say nothing of the conversations.      *)
LEMMA OthersAreStale ==
  ASSUME IInv, NEW w \in Workflows, NEW k \in JobsOf(w), job[k].token = task[w].token,
         NEW l \in JobsOf(w), l # k
  PROVE  /\ job[l].token < task[w].token
         /\ job[l].stage \notin ChatStages
         /\ job[l].step \in {"begin", "record", "report"}
<1>1. JobInv(w, job[l]) /\ job[l].token # job[k].token /\ job[l] \in Jobs /\ task[w].token \in Nat
  BY DEF IInv, WorkflowInv, JobsOf, TypeOK
<1>2. QED  BY <1>1 DEF JobInv, ChatJobInv, Jobs, Stages

(* They keep what is known of them as long as the task and the stage stay. *)
LEMMA OthersKeepJobInv ==
  ASSUME IInv, NEW w \in Workflows, NEW k \in JobsOf(w), job[k].token = task[w].token,
         NEW l \in JobsOf(w), l # k, job'[l] = job[l], UNCHANGED <<task, stage>>
  PROVE  JobInv(w, job[l])'
<1>1. JobInv(w, job[l])
  BY DEF IInv, WorkflowInv
<1>2. job[l].stage \notin ChatStages
  BY OthersAreStale
<1>3. QED  BY <1>1, <1>2 DEF JobInv

Rows0 == [stage : ChatStages, outcome : PipelineWords \cup {NULL}]

(* A conversation begins: its row is the one ahead of what was heard.      *)
LEMMA InsertStep ==
  ASSUME IInv, NEW k \in Workers, CreateConversation(k) \/ CreatePlaceholder(k)
  PROVE  IInv'
<1> DEFINE o == IF OverVoice(k) THEN "vapi_initiated" ELSE NULL
<1>1. job[k] # Idle /\ TypeOK
  BY DEF CreateConversation, CreatePlaceholder, Idle, IInv
<1>2. PICK w \in Workflows : w = job[k].wf /\ k \in JobsOf(w) /\ JobInv(w, job[k])
                             /\ job[k] \in Jobs /\ WorkflowInv(w)
  BY <1>1, BusyWorker
<1>3. job[k].stage \in ChatStages /\ ChatJobInv(w, job[k])
  BY <1>2 DEF CreateConversation, CreatePlaceholder, JobInv, Jobs, Stages
<1>4. PICK step \in {"talk", "report"} :
        /\ InsertConversation(k, step)
        /\ step = "talk" => ~ OverVoice(k)
        /\ step = "report" => OverVoice(k)
        /\ Len(convs[w]) = Len(heard[w])
        /\ UNCHANGED <<status, stage, heard, source, exhausted, result, payload,
                        task, handoffs, reports, calls>>
  BY <1>2, <1>3 DEF CreateConversation, CreatePlaceholder, ChatJobInv, wfVars, OverVoice, Voiced
<1> DEFINE n == Len(convs[w]) + 1
           r == [stage |-> job[k].stage, outcome |-> NULL]
           j == [job[k] EXCEPT !.step = step, !.conv = n, !.outcome = o]
<1>5. /\ convs' = [convs EXCEPT ![w] = Append(convs[w], r)]
      /\ job' = [job EXCEPT ![k] = j]
  BY <1>1, <1>2, <1>4 DEF InsertConversation, TypeOK
<1>6. convs \in [Workflows -> Seq(Rows0)] /\ r \in Rows0 /\ n \in Nat /\ heard[w] \in Seq(PipelineWords)
  <2>1. convs \in [Workflows -> Seq(Rows0)] /\ heard[w] \in Seq(PipelineWords)
    BY <1>1, <1>2 DEF TypeOK, Rows0
  <2>2. r \in Rows0
    BY <1>3 DEF Rows0
  <2>3. QED  BY <1>2, <2>1, <2>2
<1>7. o \in PipelineWords \cup {NULL} /\ (step = "report" => o \in PipelineWords)
  <2>1. "vapi_initiated" \in PipelineWords
    BY DEF PipelineWords
  <2>2. QED  BY <1>4, <2>1
<1>8. /\ j \in Jobs /\ j.wf = w /\ j.token = job[k].token /\ j.stage = job[k].stage
      /\ j.step = step /\ j.conv = n /\ j.outcome = o
  <2> HIDE DEF n, o
  <2>1. QED  BY <1>2, <1>6, <1>7 DEF Jobs
<1>9. convs' \in [Workflows -> Seq(Rows0)] /\ convs'[w] = Append(convs[w], r)
      /\ \A v \in Workflows \ {w} : convs'[v] = convs[v]
  <2> HIDE DEF r
  <2>1. QED  BY <1>2, <1>5, <1>6
<1>10. /\ Len(convs'[w]) = n /\ convs'[w][n] = r
       /\ \A i \in 1..Len(convs[w]) : convs'[w][i] = convs[w][i]
  <2> HIDE DEF r
  <2>1. QED  BY <1>2, <1>6, <1>9
<1> HIDE DEF j
<1>11. TypeOK'
  <2>1. job' \in [Workers -> Jobs \cup {Idle}]
    BY <1>1, <1>5, <1>8 DEF TypeOK
  <2>2. QED  BY <1>1, <1>4, <1>9, <2>1 DEF TypeOK, Rows0
<1>12. /\ job'[k] = j /\ (\A l \in Workers \ {k} : job'[l] = job[l]) /\ j # Idle
  BY <1>1, <1>5, <1>8 DEF TypeOK, Jobs, Idle
<1>13. OnlyTouches(w)
  BY <1>2, <1>4, <1>8, <1>9, <1>12 DEF OnlyTouches, Same
<1>14. HistoryInv(w)'
  <2>1. HistoryInv(w) /\ status[w] \in {"running", "failed"} /\ Len(heard[w]) \in Nat
    BY <1>2, <1>3, <1>6 DEF WorkflowInv, ChatJobInv
  <2>2. r.outcome = NULL /\ Len(convs[w]) \in Nat /\ n = Len(heard[w]) + 1
    BY <1>4, <2>1
  <2>3. \A i \in 1..Len(convs'[w]) : i = n \/ i \in 1..Len(convs[w])
    BY <1>10, <2>2
  <2> HIDE DEF r, n
  <2>4. QED  BY <1>4, <1>10, <2>1, <2>2, <2>3 DEF HistoryInv
<1>15. TaskInv(w)'
  <2>1. task[w].state # "queued" /\ stage[w] \notin HandoffStages
    BY <1>2, <1>3 DEF JobInv, ChatJobInv, ChatStages, HandoffStages
  <2>2. QED  BY <1>2, <1>4, <2>1 DEF WorkflowInv, TaskInv
<1>16. JobInv(w, job[k])'
  <2>1. ChatJobInv(w, job[k])'
    <3>1. job'[k] = j /\ j.token = task'[w].token /\ status'[w] \in {"running", "failed"}
      BY <1>3, <1>4, <1>8, <1>12 DEF ChatJobInv
    <3>2. Len(convs'[w]) = Len(heard'[w]) + 1
      BY <1>4, <1>10
    <3>3. j.conv = Len(convs'[w]) /\ convs'[w][j.conv].stage = j.stage
          /\ convs'[w][j.conv].outcome = NULL
      BY <1>8, <1>10
    <3>4. Voiced(j.stage) <=> OverVoice(k)
      BY <1>8 DEF Voiced, OverVoice
    <3>5. step = "report" => j.outcome \in PipelineWords /\ Voiced(j.stage)
      BY <1>4, <1>7, <1>8, <3>4
    <3>6. step = "talk" => ~ Voiced(j.stage)
      BY <1>4, <3>4
    <3>7. j.step \in {"talk", "report"}
      BY <1>8
    <3> HIDE DEF o, n, r
    <3>8. QED  BY <1>8, <3>1, <3>2, <3>3, <3>5, <3>6, <3>7 DEF ChatJobInv, Voiced
  <2>2. QED  BY <1>2, <1>3, <1>4, <1>8, <1>12, <2>1 DEF JobInv, ChatStages, HandoffStages
<1>17. JobsOf(w)' = JobsOf(w)
  BY <1>2, <1>8, <1>12 DEF JobsOf
<1>18. \A l \in JobsOf(w) \ {k} : JobInv(w, job[l])'
  <2>1. job[k].token = task[w].token
    BY <1>3 DEF ChatJobInv
  <2>2. \A l \in JobsOf(w) \ {k} : job'[l] = job[l]
    BY <1>12 DEF JobsOf
  <2>3. QED  BY <1>2, <1>4, <2>1, <2>2, OthersKeepJobInv
<1>19. \A l \in JobsOf(w) : job'[l].token = job[l].token
  BY <1>8, <1>12 DEF JobsOf
<1>20. WorkflowInv(w)'
  BY <1>2, <1>14, <1>15, <1>16, <1>17, <1>18, <1>19 DEF WorkflowInv
<1>21. QED  BY <1>11, <1>13, <1>20, StepOfOne

(* A conversation ends: its own row gets the outcome.                      *)
LEMMA EndStep ==
  ASSUME IInv, NEW k \in Workers, NEW o, EndConversation(k, o)
  PROVE  IInv'
<1>1. job[k] # Idle /\ TypeOK /\ job[k].step = "talk"
  BY DEF EndConversation, Idle, IInv
<1>2. PICK w \in Workflows : w = job[k].wf /\ k \in JobsOf(w) /\ JobInv(w, job[k])
                             /\ job[k] \in Jobs /\ WorkflowInv(w)
  BY <1>1, BusyWorker
<1>3. job[k].stage \in ChatStages /\ ChatJobInv(w, job[k])
  BY <1>1, <1>2 DEF JobInv, Jobs, Stages
<1>4. o \in PipelineWords
  BY <1>3 DEF EndConversation, PipelineWords
<1> DEFINE n == Len(convs[w])
           r == [convs[w][n] EXCEPT !.outcome = o]
           j == [job[k] EXCEPT !.step = "report", !.outcome = o]
<1>5. convs \in [Workflows -> Seq(Rows0)] /\ heard[w] \in Seq(PipelineWords)
      /\ job[k].conv = n /\ n = Len(heard[w]) + 1 /\ convs[w][n].stage = job[k].stage
      /\ ~ Voiced(job[k].stage)
  BY <1>1, <1>2, <1>3 DEF TypeOK, Rows0, ChatJobInv
<1>6. n \in DOMAIN convs[w] /\ convs[w] \in Seq(Rows0)
  BY <1>2, <1>5
<1>7. r \in Rows0 /\ r.stage = job[k].stage /\ r.outcome = o
  <2>1. PICK x \in Rows0 : x = convs[w][n]
    BY <1>6
  <2>2. r = [x EXCEPT !.outcome = o] /\ x.stage = job[k].stage
    BY <1>5, <2>1
  <2> HIDE DEF r
  <2>3. QED  BY <1>4, <2>1, <2>2 DEF Rows0
<1>8. convs' = [convs EXCEPT ![w] = [convs[w] EXCEPT ![n] = r]] /\ job' = [job EXCEPT ![k] = j]
      /\ UNCHANGED <<status, stage, heard, source, exhausted, result, payload,
                      task, handoffs, reports, calls>>
  BY <1>2, <1>5 DEF EndConversation, wfVars
<1> HIDE DEF r
<1>9. /\ j \in Jobs /\ j.wf = w /\ j.token = job[k].token /\ j.stage = job[k].stage
      /\ j.step = "report" /\ j.conv = job[k].conv /\ j.outcome = o
  BY <1>2, <1>4 DEF Jobs
<1> HIDE DEF j
<1>10. /\ convs'[w] = [convs[w] EXCEPT ![n] = r] /\ \A v \in Workflows \ {w} : convs'[v] = convs[v]
       /\ DOMAIN convs' = Workflows
  BY <1>2, <1>5, <1>8
<1>11. /\ Len(convs'[w]) = n /\ convs'[w][n] = r /\ convs'[w] \in Seq(Rows0)
       /\ \A i \in 1..n : i # n => convs'[w][i] = convs[w][i]
  BY <1>6, <1>7, <1>10
<1>12. TypeOK'
  <2>1. job' \in [Workers -> Jobs \cup {Idle}]
    BY <1>1, <1>8, <1>9 DEF TypeOK
  <2>2. convs' \in [Workflows -> Seq(Rows0)]
    BY <1>5, <1>7, <1>6, <1>8, <1>11
  <2>3. QED  BY <1>1, <1>8, <2>1, <2>2 DEF TypeOK, Rows0
<1>13. /\ job'[k] = j /\ (\A l \in Workers \ {k} : job'[l] = job[l]) /\ j # Idle
  BY <1>1, <1>8, <1>9 DEF TypeOK, Jobs, Idle
<1>14. OnlyTouches(w)
  BY <1>2, <1>8, <1>9, <1>10, <1>13 DEF OnlyTouches, Same
<1>15. HistoryInv(w)'
  <2>1. HistoryInv(w) /\ Len(heard[w]) \in Nat
    BY <1>2, <1>5 DEF WorkflowInv
  <2> HIDE DEF n
  <2>2. \A i \in 1..Len(heard[w]) : i # n /\ i \in 1..n
    BY <1>5, <2>1
  <2>3. QED  BY <1>5, <1>7, <1>8, <1>11, <2>1, <2>2 DEF HistoryInv, n
<1>16. TaskInv(w)'
  BY <1>2, <1>8, <1>11 DEF WorkflowInv, TaskInv
<1>17. JobInv(w, job[k])'
  <2>1. ChatJobInv(w, job[k])'
    BY <1>3, <1>4, <1>5, <1>7, <1>8, <1>9, <1>11, <1>13 DEF ChatJobInv
  <2>2. QED  BY <1>2, <1>3, <1>8, <1>9, <1>13, <2>1 DEF JobInv, ChatStages, HandoffStages
<1>18. JobsOf(w)' = JobsOf(w)
  BY <1>2, <1>9, <1>13 DEF JobsOf
<1>19. \A l \in JobsOf(w) \ {k} : JobInv(w, job[l])'
  <2>1. job[k].token = task[w].token
    BY <1>3 DEF ChatJobInv
  <2>2. \A l \in JobsOf(w) \ {k} : job'[l] = job[l]
    BY <1>13 DEF JobsOf
  <2>3. QED  BY <1>2, <1>8, <2>1, <2>2, OthersKeepJobInv
<1>20. \A l \in JobsOf(w) : job'[l].token = job[l].token
  BY <1>9, <1>13 DEF JobsOf
<1>21. WorkflowInv(w)'
  BY <1>2, <1>15, <1>16, <1>17, <1>18, <1>19, <1>20 DEF WorkflowInv
<1>22. QED  BY <1>12, <1>14, <1>21, StepOfOne

Tasks == [token : Nat, tries : Nat, state : {"none", "queued", "started"}]

(* The awaited result of a conversation: its row is the last one, and what *)
(* it is matches what the workflow now knows.                              *)
LEMMA AwaitedConversation ==
  ASSUME IInv, NEW k \in Workers, NEW s \in ChatStages, HearOutcome(k, s)
  PROVE  \E w \in Workflows :
           /\ w = job[k].wf /\ k \in JobsOf(w) /\ WorkflowInv(w)
           /\ job[k] \in Jobs /\ job[k].stage = s /\ job[k].step = "report"
           /\ ChatJobInv(w, job[k])
           /\ task[w].state = "started" /\ status[w] = "running" /\ stage[w] = s
           /\ heard' = [heard EXCEPT ![w] = Append(heard[w], job[k].outcome)]
           /\ heard[w] \in Seq(PipelineWords) /\ job[k].outcome \in PipelineWords
<1>1. job[k] # Idle /\ TypeOK /\ job[k].step = "report" /\ Awaited(k)
  BY DEF HearOutcome, Idle, IInv
<1>2. PICK w \in Workflows : w = job[k].wf /\ k \in JobsOf(w) /\ JobInv(w, job[k])
                             /\ job[k] \in Jobs /\ WorkflowInv(w)
  BY <1>1, BusyWorker
<1>3. job[k].stage = s /\ stage[w] = s /\ task[w].state = "started"
  BY <1>1, <1>2 DEF JobInv, HearOutcome, Awaited
<1>4. ChatJobInv(w, job[k]) /\ status[w] = "running"
  BY <1>2, <1>3 DEF JobInv, WorkflowInv, TaskInv
<1>5. heard' = [heard EXCEPT ![w] = Append(heard[w], job[k].outcome)]
  BY <1>1, <1>2 DEF HearOutcome, TypeOK
<1>6. heard[w] \in Seq(PipelineWords) /\ job[k].outcome \in PipelineWords
  BY <1>1, <1>2, <1>4 DEF TypeOK, ChatJobInv
<1>7. QED  BY <1>1, <1>2, <1>3, <1>4, <1>5, <1>6

(* An outcome is heard, and the workflow returns or goes on: it goes on    *)
(* only after something other than an opt-out.                             *)
LEMMA HearStep ==
  ASSUME IInv, NEW k \in Workers, NEW s \in ChatStages, HearOutcome(k, s),
         exhausted' \in [Workflows -> BOOLEAN],
         \/ \E r \in Results : Return(job[k].wf, r)
         \/ /\ job[k].outcome # "opt_out"
            /\ \E next \in Stages :
                 /\ Proceed(job[k].wf, next)
                 /\ next = "assess" => Len(heard[job[k].wf]) + 1 < MaxAssessments
  PROVE  IInv'
<1>1. PICK w \in Workflows :
           /\ w = job[k].wf /\ k \in JobsOf(w) /\ WorkflowInv(w)
           /\ job[k] \in Jobs /\ job[k].stage = s /\ job[k].step = "report"
           /\ ChatJobInv(w, job[k])
           /\ task[w].state = "started" /\ status[w] = "running" /\ stage[w] = s
           /\ heard' = [heard EXCEPT ![w] = Append(heard[w], job[k].outcome)]
           /\ heard[w] \in Seq(PipelineWords) /\ job[k].outcome \in PipelineWords
  BY AwaitedConversation
<1> DEFINE o == job[k].outcome
           n == Len(heard[w]) + 1
<1>2. /\ source' = [source EXCEPT ![w][s] = job[k].conv] /\ job' = [job EXCEPT ![k] = Idle]
      /\ UNCHANGED <<payload, convs, handoffs, reports, calls>>
  BY <1>1 DEF HearOutcome
<1>3. TypeOK /\ k \in Workers /\ Idle \notin Jobs
  BY DEF IInv, Idle, Jobs
<1>4. /\ job'[k] = Idle /\ \A l \in Workers \ {k} : job'[l] = job[l]
      /\ job' \in [Workers -> Jobs \cup {Idle}]
  BY <1>2, <1>3 DEF TypeOK
<1>5. /\ heard' \in [Workflows -> Seq(PipelineWords)] /\ heard'[w] = Append(heard[w], o)
      /\ \A v \in Workflows \ {w} : heard'[v] = heard[v]
      /\ source' \in [Workflows -> [ChatStages -> Nat]]
  <2>1. source \in [Workflows -> [ChatStages -> Nat]] /\ job[k].conv \in Nat
        /\ heard \in [Workflows -> Seq(PipelineWords)]
    BY <1>1, <1>3 DEF TypeOK, Jobs
  <2>2. QED  BY <1>1, <1>2, <2>1
<1>6. /\ Len(heard'[w]) = n /\ n \in Nat /\ heard'[w][n] = o
      /\ \A i \in 1..n : i # n => i \in 1..Len(heard[w]) /\ heard'[w][i] = heard[w][i]
      /\ Len(convs[w]) = n
  <2>1. heard[w] \in Seq(PipelineWords) /\ o \in PipelineWords /\ heard'[w] = Append(heard[w], o)
    BY <1>1, <1>5
  <2>2. Len(convs[w]) = n
    BY <1>1 DEF ChatJobInv
  <2> HIDE DEF o
  <2>3. QED  BY <2>1, <2>2
<1>7. /\ HistoryInv(w) /\ TaskInv(w)
      /\ \A i \in 1..Len(heard[w]) : heard[w][i] # "opt_out"
      /\ ~ Voiced(convs[w][n].stage) => convs[w][n].outcome = o
  <2>1. HistoryInv(w) /\ TaskInv(w)
    BY <1>1 DEF WorkflowInv
  <2>2. \A i \in 1..Len(heard[w]) : heard[w][i] # "opt_out"
    BY <1>1, <2>1 DEF HistoryInv
  <2>3. job[k].conv = n /\ convs[w][n].stage = job[k].stage
        /\ (~ Voiced(job[k].stage) => convs[w][n].outcome = o)
    BY <1>1, <1>6 DEF ChatJobInv
  <2>4. QED  BY <2>1, <2>2, <2>3
<1>8. /\ \A l \in JobsOf(w)' : l \in JobsOf(w) /\ l # k /\ job'[l] = job[l]
  BY <1>3, <1>4 DEF JobsOf
<1>9. ASSUME NEW l \in JobsOf(w)'
      PROVE  /\ JobInv(w, job[l]) /\ job'[l] = job[l] /\ job[l] \in Jobs
             /\ job[l].stage \notin ChatStages /\ job[l].token < task[w].token
             /\ task[w].token \in Nat
  <2>1. l \in JobsOf(w) /\ l # k /\ job'[l] = job[l]
    BY <1>8
  <2>2. QED  BY <1>1, <1>3, <2>1, OthersAreStale DEF WorkflowInv, TypeOK, JobsOf, ChatJobInv
<1> HIDE DEF o, n
<1>10. ASSUME NEW r \in Results, Return(w, r) PROVE IInv'
  <2>1. /\ status' = [status EXCEPT ![w] = "completed"] /\ result' = [result EXCEPT ![w] = r]
        /\ task' = [task EXCEPT ![w] = NoTask(task[w])] /\ stage' = stage
    BY <1>10 DEF Return
  <2>2. NoTask(task[w]) \in Tasks /\ NoTask(task[w]).state = "none"
        /\ NoTask(task[w]).token = task[w].token
    <3>1. task[w] \in Tasks
      BY <1>3 DEF TypeOK, Tasks
    <3>2. QED  BY <3>1 DEF NoTask, Tasks
  <2>3. TypeOK'
    <3>1. task' \in [Workflows -> Tasks]
      BY <1>3, <2>1, <2>2 DEF TypeOK, Tasks
    <3>2. status' \in [Workflows -> {"new", "running", "completed", "failed"}]
          /\ result' \in [Workflows -> Results]
      BY <1>3, <2>1 DEF TypeOK
    <3>3. QED  BY <1>2, <1>3, <1>4, <1>5, <2>1, <3>1, <3>2 DEF TypeOK, Tasks
  <2>4. /\ status'[w] = "completed" /\ task'[w] = NoTask(task[w])
        /\ \A v \in Workflows \ {w} : status'[v] = status[v] /\ task'[v] = task[v]
    BY <1>3, <2>1 DEF TypeOK
  <2>5. OnlyTouches(w)
    BY <1>1, <1>2, <1>4, <1>5, <2>1, <2>4 DEF OnlyTouches, Same
  <2>6. HistoryInv(w)'
    BY <1>2, <1>6, <1>7, <2>1, <2>4 DEF HistoryInv
  <2>7. TaskInv(w)'
    BY <2>2, <2>4 DEF TaskInv
  <2>8. \A l \in JobsOf(w)' : JobInv(w, job[l])'
    BY <1>9, <2>2, <2>4 DEF JobInv, Jobs
  <2>9. WorkflowInv(w)'
    BY <1>1, <1>8, <2>6, <2>7, <2>8 DEF WorkflowInv
  <2>10. QED  BY <2>3, <2>5, <2>9, StepOfOne
<1>11. ASSUME NEW next \in Stages, Proceed(w, next), o # "opt_out",
              next = "assess" => n < MaxAssessments
       PROVE  IInv'
  <2>1. /\ stage' = [stage EXCEPT ![w] = next] /\ UNCHANGED <<status, result>>
        /\ task' = [task EXCEPT ![w] = FirstTry(task[w])]
    BY <1>11 DEF Proceed
  <2>2. FirstTry(task[w]) \in Tasks /\ FirstTry(task[w]).state = "queued"
        /\ FirstTry(task[w]).token = task[w].token + 1 /\ FirstTry(task[w]).tries = 1
    BY <1>3 DEF FirstTry, Tasks, TypeOK
  <2>3. TypeOK'
    <3>1. task' \in [Workflows -> Tasks]
      BY <1>3, <2>1, <2>2 DEF TypeOK, Tasks
    <3>2. stage' \in [Workflows -> Stages]
      BY <1>3, <2>1 DEF TypeOK
    <3>3. QED  BY <1>2, <1>3, <1>4, <1>5, <2>1, <3>1, <3>2 DEF TypeOK, Tasks
  <2>4. /\ stage'[w] = next /\ task'[w] = FirstTry(task[w])
        /\ \A v \in Workflows \ {w} : stage'[v] = stage[v] /\ task'[v] = task[v]
    BY <1>3, <2>1 DEF TypeOK
  <2>5. OnlyTouches(w)
    BY <1>1, <1>2, <1>4, <1>5, <2>1, <2>4 DEF OnlyTouches, Same
  <2>6. HistoryInv(w)'
    <3>1. HistoryInv(w) /\ status'[w] = "running" /\ convs'[w] = convs[w]
      BY <1>1, <1>2, <1>7, <2>1
    <3>2. \A i \in 1..Len(heard'[w]) : heard'[w][i] # "opt_out"
      BY <1>6, <1>7, <1>11
    <3>3. \A i \in 1..Len(heard'[w]) :
             ~ Voiced(convs'[w][i].stage) => convs'[w][i].outcome = heard'[w][i]
      BY <1>6, <1>7, <3>1 DEF HistoryInv
    <3>4. \A i \in 1..Len(convs'[w]) : Voiced(convs'[w][i].stage) => convs'[w][i].outcome = NULL
      BY <3>1 DEF HistoryInv
    <3>5. stage'[w] = "assess" => Len(heard'[w]) < MaxAssessments
      BY <1>6, <1>11, <2>4
    <3>6. Len(convs'[w]) = Len(heard'[w])
      BY <1>6, <3>1
    <3>7. QED  BY <3>1, <3>2, <3>3, <3>4, <3>5, <3>6 DEF HistoryInv, Voiced
  <2>7. TaskInv(w)'
    BY <1>1, <1>2, <1>6, <2>1, <2>2, <2>4 DEF TaskInv
  <2>8. \A l \in JobsOf(w)' : JobInv(w, job[l])'
    BY <1>9, <2>2, <2>4 DEF JobInv, Jobs
  <2>9. WorkflowInv(w)'
    BY <1>1, <1>8, <2>6, <2>7, <2>8 DEF WorkflowInv
  <2>10. QED  BY <2>3, <2>5, <2>9, StepOfOne
<1>12. QED  BY <1>1, <1>10, <1>11 DEF o, n

(* The three outcomes are heard as HearStep says.                          *)
LEMMA DoneSteps ==
  ASSUME IInv, NEW k \in Workers, AssessmentDone(k) \/ ResolutionDone(k) \/ FinalNoticeDone(k)
  PROVE  IInv'
<1>1. exhausted \in [Workflows -> BOOLEAN]
  BY DEF IInv, TypeOK
<1>2. CASE AssessmentDone(k)
  <2> DEFINE w == job[k].wf
             o == job[k].outcome
             last == LeavesLoop(o) \/ Len(heard[w]) + 1 = MaxAssessments
  <2>1. /\ HearOutcome(k, "assess") /\ "assess" \in ChatStages
        /\ exhausted' = [exhausted EXCEPT ![w] = Exhausted(last, o)]
        /\ IF last THEN AfterAssessment(w, o) ELSE Proceed(w, "assess")
    BY <1>2 DEF AssessmentDone, ChatStages
  <2>2. exhausted' \in [Workflows -> BOOLEAN]
    BY <1>1, <2>1 DEF Exhausted
  <2>3. CASE last
    BY <2>1, <2>2, <2>3, HearStep DEF AfterAssessment, Results, Stages, HandoffStages
  <2>4. CASE ~ last
    <3>1. PICK v \in Workflows : v = w /\ WorkflowInv(v) /\ status[v] = "running" /\ stage[v] = "assess"
                                 /\ heard[v] \in Seq(PipelineWords)
      BY <2>1, AwaitedConversation
    <3>2. Len(heard[w]) + 1 < MaxAssessments
      BY <2>4, <3>1, CollectionsAssumption DEF WorkflowInv, HistoryInv
    <3>3. o # "opt_out" /\ "assess" \in Stages /\ Proceed(w, "assess")
      BY <2>1, <2>4 DEF LeavesLoop, Stages, ChatStages
    <3>4. QED  BY <2>1, <2>2, <3>2, <3>3, HearStep
  <2>5. QED  BY <2>3, <2>4
<1>3. CASE ResolutionDone(k)
  <2>1. HearOutcome(k, "resolve") /\ "resolve" \in ChatStages /\ exhausted' \in [Workflows -> BOOLEAN]
        /\ AfterResolution(job[k].wf, job[k].outcome)
    BY <1>1, <1>3 DEF ResolutionDone, ChatStages
  <2>2. QED  BY <2>1, HearStep DEF AfterResolution, Results, Stages, HandoffStages
<1>4. CASE FinalNoticeDone(k)
  <2>1. HearOutcome(k, "final") /\ "final" \in ChatStages /\ exhausted' \in [Workflows -> BOOLEAN]
        /\ Return(job[k].wf, FinalResult(job[k].outcome))
    BY <1>1, <1>4 DEF FinalNoticeDone, ChatStages
  <2>2. FinalResult(job[k].outcome) \in Results
    BY DEF FinalResult, Results
  <2>3. QED  BY <2>1, <2>2, HearStep
<1>5. QED  BY <1>2, <1>3, <1>4

(* What a handoff that is waited for finds: no conversation is open.       *)
LEMMA AwaitedHandoff ==
  ASSUME IInv, NEW k \in Workers, HandoffDone(k)
  PROVE  \E w \in Workflows :
           /\ w = job[k].wf /\ k \in JobsOf(w) /\ WorkflowInv(w) /\ job[k] \in Jobs
           /\ job[k].token = task[w].token
           /\ status[w] = "running" /\ stage[w] \in HandoffStages
           /\ NextStage[stage[w]] \in {"resolve", "final"}
           /\ Proceed(w, NextStage[stage[w]])
<1>1. job[k] # Idle /\ TypeOK /\ job[k].step = "report" /\ Awaited(k)
  BY DEF HandoffDone, Idle, IInv
<1>2. PICK w \in Workflows : w = job[k].wf /\ k \in JobsOf(w) /\ job[k] \in Jobs /\ WorkflowInv(w)
  BY <1>1, BusyWorker
<1>3. status[w] = "running" /\ job[k].token = task[w].token
  BY <1>1, <1>2 DEF WorkflowInv, TaskInv, Awaited
<1>4. QED  BY <1>2, <1>3 DEF HandoffDone, NextStage, HandoffStages

(* The result of a handoff starts the conversation after it; no row and no *)
(* outcome is touched.                                                     *)
LEMMA HandoffStep ==
  ASSUME IInv, NEW k \in Workers, HandoffDone(k)
  PROVE  IInv'
<1>1. PICK w \in Workflows :
           /\ w = job[k].wf /\ k \in JobsOf(w) /\ WorkflowInv(w) /\ job[k] \in Jobs
           /\ job[k].token = task[w].token
           /\ status[w] = "running" /\ stage[w] \in HandoffStages
           /\ NextStage[stage[w]] \in {"resolve", "final"}
           /\ Proceed(w, NextStage[stage[w]])
  BY AwaitedHandoff
<1> DEFINE next == NextStage[stage[w]]
<1>2. /\ job' = [job EXCEPT ![k] = Idle]
      /\ payload' = [payload EXCEPT ![w][stage[w]] = job[k].covers]
      /\ UNCHANGED <<heard, source, exhausted, convs, handoffs, reports, calls>>
  BY <1>1 DEF HandoffDone
<1>3. TypeOK /\ k \in Workers /\ Idle \notin Jobs
  BY DEF IInv, Idle, Jobs
<1>4. /\ job'[k] = Idle /\ \A l \in Workers \ {k} : job'[l] = job[l]
      /\ job' \in [Workers -> Jobs \cup {Idle}]
  BY <1>2, <1>3 DEF TypeOK
<1>5. payload' \in [Workflows -> [HandoffStages -> SUBSET Nat]]
  <2>1. payload \in [Workflows -> [HandoffStages -> SUBSET Nat]] /\ job[k].covers \in SUBSET Nat
    BY <1>1, <1>3 DEF TypeOK, Jobs
  <2>2. QED  BY <1>1, <1>2, <2>1
<1>6. ASSUME NEW l \in JobsOf(w)'
      PROVE  /\ l \in JobsOf(w) /\ JobInv(w, job[l]) /\ job'[l] = job[l] /\ job[l] \in Jobs
             /\ job[l].stage \notin ChatStages /\ job[l].token < task[w].token
             /\ task[w].token \in Nat
  <2>1. l \in JobsOf(w) /\ l # k /\ job'[l] = job[l]
    BY <1>3, <1>4 DEF JobsOf
  <2>2. QED  BY <1>1, <1>3, <2>1, OthersAreStale DEF WorkflowInv, TypeOK, JobsOf
<1> HIDE DEF next
<1>7. /\ stage' = [stage EXCEPT ![w] = next] /\ UNCHANGED <<status, result>>
      /\ task' = [task EXCEPT ![w] = FirstTry(task[w])]
  BY <1>1 DEF Proceed, next
<1>8. FirstTry(task[w]) \in Tasks /\ FirstTry(task[w]).state = "queued"
      /\ FirstTry(task[w]).token = task[w].token + 1 /\ FirstTry(task[w]).tries = 1
  BY <1>3 DEF FirstTry, Tasks, TypeOK
<1>9. next \in {"resolve", "final"} /\ next \in Stages /\ next \notin HandoffStages
  BY <1>1 DEF next, Stages, ChatStages, HandoffStages
<1>10. TypeOK'
  <2>1. task' \in [Workflows -> Tasks]
    BY <1>3, <1>7, <1>8 DEF TypeOK, Tasks
  <2>2. stage' \in [Workflows -> Stages]
    BY <1>3, <1>7, <1>9 DEF TypeOK
  <2>3. QED  BY <1>2, <1>3, <1>4, <1>5, <1>7, <2>1, <2>2 DEF TypeOK, Tasks
<1>11. /\ stage'[w] = next /\ task'[w] = FirstTry(task[w])
       /\ \A v \in Workflows \ {w} : stage'[v] = stage[v] /\ task'[v] = task[v]
  BY <1>3, <1>7 DEF TypeOK
<1>12. OnlyTouches(w)
  BY <1>1, <1>2, <1>4, <1>7, <1>11 DEF OnlyTouches, Same
<1>13. HistoryInv(w)' /\ TaskInv(w)'
  <2>1. /\ HistoryInv(w) /\ TaskInv(w) /\ status[w] = "running" /\ stage[w] \in HandoffStages
        /\ status' = status /\ heard' = heard /\ convs' = convs
    BY <1>1, <1>2, <1>7 DEF WorkflowInv
  <2>2. stage'[w] \notin HandoffStages /\ stage'[w] # "assess"
    BY <1>9, <1>11
  <2>3. HistoryInv(w)'
    BY <2>1, <2>2 DEF HistoryInv
  <2>4. task'[w].state = "queued" /\ task'[w].tries = 1
    BY <1>8, <1>11
  <2>5. TaskInv(w)'
    BY <2>1, <2>2, <2>4 DEF TaskInv
  <2>6. QED  BY <2>3, <2>5
<1>14. \A l \in JobsOf(w)' : JobInv(w, job[l])'
  BY <1>6, <1>8, <1>11 DEF JobInv, Jobs
<1>15. WorkflowInv(w)'
  BY <1>1, <1>6, <1>13, <1>14 DEF WorkflowInv
<1>16. QED  BY <1>10, <1>12, <1>15, StepOfOne

(* The call service and the webhook touch no workflow.                     *)
LEMMA OutsideSteps ==
  ASSUME IInv, UNCHANGED <<wfVars, task, job, convs, handoffs>>, TypeOK'
  PROVE  IInv'
<1>1. ASSUME NEW w \in Workflows PROVE WorkflowInv(w)'
  BY Untouched DEF IInv, Same, wfVars
<1>2. QED  BY <1>1 DEF IInv

(* What the call service and the webhook do is outside every workflow.     *)
LEMMA CallSteps ==
  ASSUME IInv, NEW c \in DOMAIN calls, NEW o \in VoiceOutcomes \cup {NULL},
         (CallEnds(c, o) /\ o \in VoiceOutcomes) \/ WebhookDelivers(c, o)
  PROVE  IInv'
<1> DEFINE Row == [wf : Workflows, outcome : VoiceOutcomes \cup {NULL}, posted : Nat]
<1>1. TypeOK /\ calls \in Seq(Row)
  BY DEF IInv, TypeOK
<1>2. c \in Nat /\ calls[c] \in Row
  <2> HIDE DEF Row
  <2>1. QED  BY <1>1
<1>3. CASE CallEnds(c, o) /\ o \in VoiceOutcomes
  <2>1. [calls[c] EXCEPT !.outcome = o] \in Row
    BY <1>2, <1>3
  <2>2. calls' = [calls EXCEPT ![c] = [calls[c] EXCEPT !.outcome = o]]
    BY <1>3 DEF CallEnds
  <2> HIDE DEF Row
  <2>3. calls' \in Seq(Row)
    BY <1>1, <2>1, <2>2
  <2>4. TypeOK'
    BY <1>1, <1>3, <2>3 DEF CallEnds, TypeOK, wfVars, Row
  <2>5. QED  BY <1>3, <2>4, OutsideSteps DEF CallEnds, wfVars
<1>4. CASE WebhookDelivers(c, o)
  <2>1. [calls[c] EXCEPT !.posted = calls[c].posted + 1] \in Row
    BY <1>2
  <2>2. calls' = [calls EXCEPT ![c] = [calls[c] EXCEPT !.posted = calls[c].posted + 1]]
    BY <1>4 DEF WebhookDelivers
  <2> HIDE DEF Row
  <2>3. calls' \in Seq(Row)
    BY <1>1, <2>1, <2>2
  <2>4. reports' \in Seq([call : Nat, outcome : VoiceOutcomes \cup {NULL}])
    BY <1>1, <1>2, <1>4 DEF WebhookDelivers, TypeOK
  <2>5. TypeOK'
    BY <1>1, <1>4, <2>3, <2>4 DEF WebhookDelivers, TypeOK, wfVars, Row
  <2>6. QED  BY <1>4, <2>5, OutsideSteps DEF WebhookDelivers, wfVars
<1>5. QED  BY <1>3, <1>4

-----------------------------------------------------------------------------
(* No workflow was started and every worker is idle.                       *)
LEMMA IInvInit == Init => IInv
<1> SUFFICES ASSUME Init PROVE IInv
  OBVIOUS
<1>1. TypeOK
  BY DEF Init, TypeOK, Stages, ChatStages, HandoffStages, Results
<1>2. \A w \in Workflows : JobsOf(w) = {}
  BY DEF Init, JobsOf
<1>3. \A w \in Workflows : HistoryInv(w) /\ TaskInv(w)
  BY CollectionsAssumption DEF Init, HistoryInv, TaskInv, HandoffStages
<1>4. QED  BY <1>1, <1>2, <1>3 DEF IInv, WorkflowInv

(* One step of the proof per action.                                       *)
LEMMA IInvStep == IInv /\ [Next]_vars => IInv'
<1> SUFFICES ASSUME IInv, [Next]_vars PROVE IInv'
  OBVIOUS
<1>1. ASSUME NEW w \in Workflows, Start(w) PROVE IInv'
  BY <1>1, StartStep
<1>2. ASSUME NEW w \in Workflows, Timeout(w) PROVE IInv'
  BY <1>2, AttemptFailsStep DEF Timeout
<1>3. ASSUME NEW k \in Workers, Work(k) PROVE IInv'
  <2>1. CASE CreateConversation(k) \/ CreatePlaceholder(k)
    BY <2>1, InsertStep
  <2>2. CASE \E o \in Outcome["assess"] \cup Outcome["resolve"] \cup Outcome["final"] : EndConversation(k, o)
    BY <2>2, EndStep
  <2>3. CASE PlaceCall(k) \/ LoadTurns(k) \/ RecordHandoff(k)
    BY <2>3, SideSteps
  <2>4. CASE AssessmentDone(k) \/ ResolutionDone(k) \/ FinalNoticeDone(k)
    BY <2>4, DoneSteps
  <2>5. CASE HandoffDone(k)
    BY <2>5, HandoffStep
  <2>6. CASE DropResult(k)
    <3>1. job[k] # Idle
      BY <2>6 DEF DropResult, Idle
    <3>2. QED  BY <2>6, <3>1, FallsIdle DEF DropResult
  <2>7. QED  BY <1>3, <2>1, <2>2, <2>3, <2>4, <2>5, <2>6 DEF Work
<1>4. ASSUME NEW k \in Workers, Raise(k) PROVE IInv'
  <2>1. job[k] # Idle
    BY <1>4 DEF Raise, Idle
  <2>2. CASE Awaited(k)
    <3>1. PICK w \in Workflows : w = job[k].wf /\ k \in JobsOf(w)
      BY <2>1, BusyWorker
    <3>2. QED  BY <1>4, <2>2, <3>1, AttemptFailsStep DEF Raise, Awaited
  <2>3. CASE ~ Awaited(k)
    BY <1>4, <2>1, <2>3, FallsIdle DEF Raise, wfVars
  <2>4. QED  BY <2>2, <2>3
<1>5. ASSUME NEW k \in Workers, Crash(k) PROVE IInv'
  BY <1>5, FallsIdle DEF Crash
<1>6. ASSUME NEW k \in Workers, NEW w \in Workflows, Begin(k, w) PROVE IInv'
  BY <1>6, BeginStep
<1>7. ASSUME NEW c \in DOMAIN calls, NEW o \in CallOutcomes, CallEnds(c, o) PROVE IInv'
  BY <1>7, CallSteps, CollectionsAssumption
<1>8. ASSUME NEW c \in DOMAIN calls, NEW o \in CallOutcomes \cup {NULL}, WebhookDelivers(c, o)
      PROVE  IInv'
  BY <1>8, CallSteps, CollectionsAssumption
<1>9. CASE UNCHANGED vars
  <2>1. TypeOK'
    BY <1>9 DEF IInv, TypeOK, vars
  <2>2. QED  BY <1>9, <2>1, OutsideSteps DEF vars, wfVars
<1>10. QED  BY <1>1, <1>2, <1>3, <1>4, <1>5, <1>6, <1>7, <1>8, <1>9 DEF Next, Over

(* The invariant holds in every reachable state.                           *)
THEOREM Invariant == Spec => []IInv
  BY IInvInit, IInvStep, PTL DEF Spec

(* Types hold: in particular no worker returns and no row records an       *)
(* outcome the workflow was not told of.                                   *)
THEOREM TypeCorrect == Spec => []TypeOK
<1>1. IInv => TypeOK
  BY DEF IInv
<1>2. QED  BY <1>1, Invariant, PTL

(* Nobody is contacted after an opt-out in a conversation of the workflow, *)
(* for any number of workers, crashes, timeouts and retries.               *)
THEOREM OptOutIsFinal == Spec => []NoContactAfterOptOut
<1>1. IInv => NoContactAfterOptOut
  <2> SUFFICES ASSUME IInv, NEW w \in Workflows, NEW i \in DOMAIN convs[w], NEW j \in DOMAIN convs[w],
                      i < j, convs[w][i].outcome = "opt_out"
               PROVE  FALSE
    BY DEF NoContactAfterOptOut
  <2>1. HistoryInv(w) /\ convs[w] \in Seq(Rows0) /\ heard[w] \in Seq(PipelineWords)
    BY DEF IInv, WorkflowInv, TypeOK, Rows0
  <2>2. i \in 1..Len(heard[w]) /\ i \in 1..Len(convs[w]) /\ j \in 1..Len(convs[w])
    BY <2>1 DEF HistoryInv
  <2>3. ~ Voiced(convs[w][i].stage)
    BY <2>1, <2>2 DEF HistoryInv, NULL
  <2>4. heard[w][i] = "opt_out"
    BY <2>1, <2>2, <2>3 DEF HistoryInv
  <2>5. QED  BY <2>1, <2>2, <2>4 DEF HistoryInv
<1>2. QED  BY <1>1, Invariant, PTL

(* What the workflow heard is what the rows say, when no call is placed.   *)
THEOREM RowsAreTheHistory ==
  ASSUME ~ VoiceMode
  PROVE  Spec => []RowsMatchHistory
<1>1. IInv => RowsMatchHistory
  <2> SUFFICES ASSUME IInv, NEW w \in Workflows
               PROVE  /\ Len(convs[w]) \in {Len(heard[w]), Len(heard[w]) + 1}
                      /\ \A i \in DOMAIN heard[w] : convs[w][i].outcome = heard[w][i]
    BY DEF RowsMatchHistory
  <2>1. HistoryInv(w) /\ heard[w] \in Seq(PipelineWords)
    BY DEF IInv, WorkflowInv, TypeOK
  <2>2. QED  BY <2>1 DEF HistoryInv, Voiced
<1>2. QED  BY <1>1, Invariant, PTL

(* A workflow's borrower is never in two conversations at once.            *)
THEOREM OneAtATime == Spec => []OneConversationAtATime
<1>1. IInv => OneConversationAtATime
  <2> SUFFICES ASSUME IInv, NEW k \in Workers, NEW l \in Workers, k # l,
                      job[k].step = "talk", job[l].step = "talk", job[k].wf = job[l].wf
               PROVE  FALSE
    BY DEF OneConversationAtATime
  <2>1. job[k] # Idle /\ job[l] # Idle
    BY DEF Idle
  <2>2. PICK w \in Workflows : w = job[k].wf /\ k \in JobsOf(w) /\ l \in JobsOf(w)
                               /\ JobInv(w, job[k]) /\ job[k] \in Jobs
    BY <2>1, BusyWorker
  <2>3. job[k].token = task[w].token
    BY <2>2 DEF JobInv, ChatJobInv, Jobs, Stages
  <2>4. QED  BY <2>2, <2>3, OthersAreStale
<1>2. QED  BY <1>1, Invariant, PTL

-----------------------------------------------------------------------------
(* The refinement of the promise.                                          *)

(* A step that leaves a workflow's rows, history and verdict, and at most  *)
(* goes from a handoff to the stage it is for, is a stutter.               *)
LEMMA Stutters ==
  ASSUME NEW w \in Workflows,
         heard'[w] = heard[w], convs'[w] = convs[w],
         PipelineStage(w)' = PipelineStage(w), PipelineVerdict(w)' = PipelineVerdict(w)
  PROVE  UNCHANGED Promise(w)!vars
BY DEF Promise!vars, PipelineContacts

(* A step that leaves a workflow alone is a stutter of its promise.        *)
LEMMA SameStutters ==
  ASSUME NEW w \in Workflows, Same(w), result'[w] = result[w]
  PROVE  UNCHANGED Promise(w)!vars
<1>1. PipelineStage(w)' = PipelineStage(w) /\ PipelineVerdict(w)' = PipelineVerdict(w)
  BY DEF Same, PipelineStage, PipelineVerdict
<1>2. QED  BY <1>1, Stutters DEF Same

(* The contacts are a sequence of stages as long as that of the rows.      *)
LEMMA StagesOfRows ==
  ASSUME NEW s \in Seq(Rows0), NEW t, t = [i \in DOMAIN s |-> s[i].stage]
  PROVE  /\ t \in Seq(ChatStages) /\ Len(t) = Len(s)
         /\ \A i \in 1..Len(s) : t[i] = s[i].stage
<1>1. Len(s) \in Nat /\ DOMAIN s = 1..Len(s) /\ \A i \in 1..Len(s) : s[i] \in Rows0
  BY LenProperties
<1>2. t \in [1..Len(s) -> ChatStages]
  BY <1>1 DEF Rows0
<1>3. t \in Seq(ChatStages)
  BY <1>1, <1>2, SeqDef
<1>4. Len(t) = Len(s)
  BY <1>1, <1>2, <1>3, LenProperties
<1>5. QED  BY <1>1, <1>3, <1>4

(* A new row is a contact of the stage.                                    *)
LEMMA InsertIsContact ==
  ASSUME IInv, NEW w \in Workflows, NEW k \in Workers, CreateConversation(k) \/ CreatePlaceholder(k)
  PROVE  Promise(w)!Contact \/ UNCHANGED Promise(w)!vars
<1>1. job[k] # Idle /\ TypeOK
  BY DEF CreateConversation, CreatePlaceholder, Idle, IInv
<1>2. PICK v \in Workflows : v = job[k].wf /\ k \in JobsOf(v) /\ JobInv(v, job[k])
                             /\ job[k] \in Jobs /\ WorkflowInv(v)
  BY <1>1, BusyWorker
<1>3. job[k].stage \in ChatStages /\ ChatJobInv(v, job[k]) /\ job[k].step \in {"begin", "placed"}
  BY <1>2 DEF CreateConversation, CreatePlaceholder, JobInv, Jobs, Stages
<1> DEFINE r == [stage |-> job[k].stage, outcome |-> NULL]
<1>4. /\ convs' = [convs EXCEPT ![v] = Append(convs[v], r)]
      /\ UNCHANGED <<status, stage, heard, result, task>>
  BY <1>1, <1>2 DEF CreateConversation, CreatePlaceholder, InsertConversation, wfVars
<1>5. r.stage = job[k].stage
  OBVIOUS
<1> HIDE DEF r
<1>6. CASE v # w
  BY <1>1, <1>4, <1>6, SameStutters DEF TypeOK, Same
<1>7. CASE v = w
  <2>1. /\ PipelineVerdict(w) \in {"open", "failed"} /\ PipelineVerdict(w)' = PipelineVerdict(w)
    BY <1>3, <1>4, <1>7 DEF ChatJobInv, PipelineVerdict
  <2>2. PipelineStage(w) = job[k].stage /\ PipelineStage(w)' = PipelineStage(w)
    BY <1>2, <1>3, <1>4, <1>7 DEF JobInv, ChatJobInv, PipelineStage, ChatStages, HandoffStages
  <2>3. /\ convs'[w] = Append(convs[w], r) /\ convs[w] \in Seq(Rows0) /\ Len(convs[w]) = Len(heard[w])
    BY <1>1, <1>3, <1>4, <1>7 DEF ChatJobInv, TypeOK, Rows0
  <2>4. /\ PipelineContacts(w) \in Seq(ChatStages) /\ Len(PipelineContacts(w)) = Len(convs[w])
        /\ \A i \in 1..Len(convs[w]) : PipelineContacts(w)[i] = convs[w][i].stage
    BY <2>3, StagesOfRows DEF PipelineContacts
  <2>5. convs'[w] \in Seq(Rows0) /\ Len(convs'[w]) = Len(convs[w]) + 1
        /\ convs'[w][Len(convs[w]) + 1] = r
        /\ \A i \in 1..Len(convs[w]) : convs'[w][i] = convs[w][i]
    BY <1>3, <2>3 DEF Rows0, r
  <2>6. /\ PipelineContacts(w)' \in Seq(ChatStages) /\ Len(PipelineContacts(w)') = Len(convs'[w])
        /\ \A i \in 1..Len(convs'[w]) : PipelineContacts(w)'[i] = convs'[w][i].stage
    BY <2>5, StagesOfRows DEF PipelineContacts
  <2>7. PipelineContacts(w)' = Append(PipelineContacts(w), PipelineStage(w))
    <3> DEFINE c == PipelineContacts(w)
               d == PipelineContacts(w)'
    <3>1. PipelineStage(w) \in ChatStages
      BY <1>3, <2>2
    <3> HIDE DEF c, d
    <3>2. c \in Seq(ChatStages) /\ Len(c) = Len(convs[w]) /\ Len(convs[w]) \in Nat
      BY <2>3, <2>4 DEF c
    <3>3. d \in Seq(ChatStages) /\ Len(d) = Len(convs[w]) + 1
      BY <2>5, <2>6 DEF d
    <3>4. Append(c, PipelineStage(w)) \in Seq(ChatStages) /\ Len(Append(c, PipelineStage(w))) = Len(d)
      BY <3>1, <3>2, <3>3
    <3>5. \A i \in 1..Len(d) : d[i] = Append(c, PipelineStage(w))[i]
      <4>1. ASSUME NEW i \in 1..Len(convs[w]) PROVE d[i] = Append(c, PipelineStage(w))[i]
        <5>1. c[i] = convs[w][i].stage
          BY <2>4 DEF c
        <5>2. d[i] = convs'[w][i].stage
          BY <2>5, <2>6, <3>2 DEF d
        <5>3. convs'[w][i] = convs[w][i]
          BY <2>5
        <5>4. Append(c, PipelineStage(w))[i] = c[i]
          BY <3>1, <3>2
        <5>5. QED  BY <5>1, <5>2, <5>3, <5>4
      <4>2. d[Len(convs[w]) + 1] = PipelineStage(w)
        BY <1>5, <2>2, <2>5, <2>6, <3>2 DEF d
      <4>3. QED  BY <3>2, <3>3, <4>1, <4>2
    <3>6. QED  BY <3>3, <3>4, <3>5, SeqEqual DEF c, d
  <2>8. heard'[w] = heard[w]
    BY <1>4
  <2>9. QED  BY <2>1, <2>2, <2>3, <2>4, <2>7, <2>8 DEF Promise!Contact
<1>8. QED  BY <1>6, <1>7

(* The end of a conversation is not heard yet.                             *)
LEMMA EndIsStutter ==
  ASSUME IInv, NEW w \in Workflows, NEW k \in Workers, NEW o, EndConversation(k, o)
  PROVE  UNCHANGED Promise(w)!vars
<1>1. job[k] # Idle /\ TypeOK /\ job[k].step = "talk"
  BY DEF EndConversation, Idle, IInv
<1>2. PICK v \in Workflows : v = job[k].wf
  BY <1>1, BusyWorker
<1> DEFINE n == job[k].conv
           r == [convs[v][n] EXCEPT !.outcome = o]
<1>3. /\ convs' = [convs EXCEPT ![v] = [convs[v] EXCEPT ![n] = r]]
      /\ UNCHANGED <<status, stage, heard, result, task>>
  BY <1>2 DEF EndConversation, wfVars
<1>4. CASE v # w
  BY <1>1, <1>3, <1>4, SameStutters DEF TypeOK, Same
<1>5. CASE v = w
  <2>1. convs[w] \in Seq(Rows0)
    BY <1>1 DEF TypeOK, Rows0
  <2>2. DOMAIN convs[w] = 1..Len(convs[w]) /\ \A i \in DOMAIN convs[w] : convs[w][i] \in Rows0
    BY <2>1, LenProperties
  <2>3. convs'[w] = [convs[w] EXCEPT ![n] = r]
    BY <1>1, <1>3, <1>5 DEF TypeOK
  <2>4. ASSUME NEW i \in DOMAIN convs[w] PROVE convs'[w][i].stage = convs[w][i].stage
    <3>1. CASE i # n
      BY <2>3, <3>1
    <3>2. CASE i = n
      <4>1. convs'[w][i] = r
        BY <2>3, <3>2
      <4>2. PICK x \in Rows0 : x = convs[w][n]
        BY <2>2, <3>2
      <4>3. r = [x EXCEPT !.outcome = o]
        BY <1>5, <4>2
      <4> HIDE DEF r
      <4>4. QED  BY <3>2, <4>1, <4>2, <4>3 DEF Rows0
    <3>3. QED  BY <3>1, <3>2
  <2>5. DOMAIN convs'[w] = DOMAIN convs[w]
    BY <2>3
  <2>6. PipelineContacts(w)' = PipelineContacts(w)
    BY <2>4, <2>5 DEF PipelineContacts
  <2>7. PipelineStage(w)' = PipelineStage(w) /\ PipelineVerdict(w)' = PipelineVerdict(w) /\ heard'[w] = heard[w]
    BY <1>3 DEF PipelineStage, PipelineVerdict
  <2>8. QED  BY <2>6, <2>7 DEF Promise!vars
<1>6. QED  BY <1>4, <1>5

(* A failed attempt is nothing, or the failure of the pipeline.            *)
LEMMA FailIsFail ==
  ASSUME IInv, NEW w \in Workflows, NEW v \in Workflows,
         task[v].state = "started", AttemptFails(v), UNCHANGED <<stage, heard, result, convs>>
  PROVE  Promise(w)!Fail \/ UNCHANGED Promise(w)!vars
<1>1. TypeOK /\ status[v] = "running"
  BY DEF IInv, WorkflowInv, TaskInv
<1>2. CASE v # w \/ status' = status
  <2>1. PipelineStage(w)' = PipelineStage(w) /\ status'[w] = status[w]
    BY <1>1, <1>2 DEF PipelineStage, TypeOK, AttemptFails
  <2>2. QED  BY <2>1, Stutters DEF PipelineVerdict
<1>3. CASE v = w /\ status' # status
  <2>1. status'[w] = "failed"
    BY <1>1, <1>3 DEF AttemptFails, TypeOK
  <2>2. PipelineVerdict(w) = "open" /\ PipelineVerdict(w)' = "failed"
    BY <1>1, <1>3, <2>1 DEF PipelineVerdict
  <2>3. PipelineStage(w)' = PipelineStage(w) /\ PipelineContacts(w)' = PipelineContacts(w)
    BY DEF PipelineStage, PipelineContacts
  <2>4. QED  BY <2>2, <2>3 DEF Promise!Fail
<1>4. QED  BY <1>2, <1>3

(* A result that reaches the workflow is heard, with the verdict or the    *)
(* next stage of the promise.                                              *)
LEMMA DoneIsHear ==
  ASSUME IInv, NEW w \in Workflows, NEW k \in Workers,
         AssessmentDone(k) \/ ResolutionDone(k) \/ FinalNoticeDone(k)
  PROVE  (\E o \in PipelineWords : Promise(w)!Hear(o)) \/ UNCHANGED Promise(w)!vars
<1>1. PICK s \in ChatStages :
        /\ HearOutcome(k, s)
        /\ s = "assess" => AssessmentDone(k)
        /\ s = "resolve" => ResolutionDone(k)
        /\ s = "final" => FinalNoticeDone(k)
  BY DEF AssessmentDone, ResolutionDone, FinalNoticeDone, ChatStages
<1>2. PICK v \in Workflows :
           /\ v = job[k].wf /\ k \in JobsOf(v) /\ WorkflowInv(v)
           /\ job[k] \in Jobs /\ job[k].stage = s /\ job[k].step = "report"
           /\ ChatJobInv(v, job[k])
           /\ task[v].state = "started" /\ status[v] = "running" /\ stage[v] = s
           /\ heard' = [heard EXCEPT ![v] = Append(heard[v], job[k].outcome)]
           /\ heard[v] \in Seq(PipelineWords) /\ job[k].outcome \in PipelineWords
  BY <1>1, AwaitedConversation
<1> DEFINE o == job[k].outcome
           last == LeavesLoop(o) \/ Len(heard[v]) + 1 = MaxAssessments
<1>3. TypeOK /\ convs' = convs
  BY <1>1 DEF IInv, HearOutcome
<1>4. \/ s = "assess" /\ last /\ o = "opt_out" /\ Return(v, "opt_out")
      \/ s = "assess" /\ last /\ o # "opt_out" /\ Proceed(v, "handoff2")
      \/ s = "assess" /\ ~ last /\ Proceed(v, "assess")
      \/ s = "resolve" /\ o = "deal_agreed" /\ Return(v, "resolved_at_resolution")
      \/ s = "resolve" /\ o = "opt_out" /\ Return(v, "opt_out")
      \/ s = "resolve" /\ o \notin {"deal_agreed", "opt_out"} /\ Proceed(v, "handoff3")
      \/ s = "final" /\ Return(v, FinalResult(o))
  BY <1>1, <1>2 DEF AssessmentDone, ResolutionDone, FinalNoticeDone, AfterAssessment,
     AfterResolution, ChatStages
<1>5. CASE v # w
  <2>1. /\ status'[w] = status[w] /\ stage'[w] = stage[w] /\ result'[w] = result[w]
        /\ heard'[w] = heard[w]
    BY <1>2, <1>3, <1>4, <1>5 DEF Return, Proceed, TypeOK
  <2>2. QED  BY <1>3, <2>1, Stutters DEF PipelineStage, PipelineVerdict
<1>6. CASE v = w
  <2>1. /\ PipelineVerdict(w) = "open" /\ PipelineStage(w) = s
    BY <1>2, <1>6 DEF PipelineVerdict, PipelineStage, ChatStages, HandoffStages
  <2>2. /\ heard'[w] = Append(heard[w], o) /\ Len(heard'[w]) = Len(heard[w]) + 1
        /\ Len(heard[w]) \in Nat
    BY <1>2, <1>3, <1>6 DEF TypeOK
  <2>3. Len(PipelineContacts(w)) = Len(heard[w]) + 1 /\ PipelineContacts(w)' = PipelineContacts(w)
    <3>1. convs[w] \in Seq(Rows0) /\ Len(convs[w]) = Len(heard[w]) + 1
      BY <1>2, <1>3, <1>6 DEF TypeOK, Rows0, ChatJobInv
    <3>2. QED  BY <1>3, <3>1, StagesOfRows DEF PipelineContacts
  <2>4. ASSUME NEW r, Return(w, r) PROVE PipelineVerdict(w)' = r /\ PipelineStage(w)' = s
    <3>1. status'[w] = "completed" /\ result'[w] = r /\ stage'[w] = stage[w]
      BY <1>3, <2>4 DEF Return, TypeOK
    <3>2. QED  BY <2>1, <3>1 DEF PipelineVerdict, PipelineStage
  <2>5. ASSUME NEW next \in Stages, Proceed(w, next)
        PROVE  /\ PipelineVerdict(w)' = "open"
               /\ PipelineStage(w)' = IF next \in HandoffStages THEN NextStage[next] ELSE next
    <3>1. status'[w] = "running" /\ stage'[w] = next
      BY <1>2, <1>3, <1>6, <2>5 DEF Proceed, TypeOK
    <3>2. QED  BY <3>1 DEF PipelineVerdict, PipelineStage
  <2>6. s = "assess" => Len(heard[w]) < MaxAssessments
    BY <1>2, <1>6 DEF WorkflowInv, HistoryInv
  <2>7. "handoff2" \in Stages /\ "handoff3" \in Stages /\ "assess" \in Stages
        /\ NextStage["handoff2"] = "resolve" /\ NextStage["handoff3"] = "final"
        /\ "handoff2" \in HandoffStages /\ "handoff3" \in HandoffStages /\ "assess" \notin HandoffStages
    BY DEF Stages, ChatStages, HandoffStages, NextStage
  <2>8. Promise(w)!Hear(o)
    <3> USE <2>1, <2>2, <2>3 DEF Promise!Hear, Promise!Closing, Promise!Verdict
    <3>1. CASE s = "assess" /\ last /\ o = "opt_out" /\ Return(w, "opt_out")
      BY <3>1, <2>4
    <3>2. CASE s = "assess" /\ last /\ o # "opt_out" /\ Proceed(w, "handoff2")
      <4>1. PipelineVerdict(w)' = "open" /\ PipelineStage(w)' = "resolve"
        BY <3>2, <2>5, <2>7
      <4>2. o \in {"assessed", "partial"} \/ Len(heard'[w]) = MaxAssessments
        BY <1>6, <3>2 DEF LeavesLoop
      <4>3. QED  BY <3>2, <4>1, <4>2
    <3>3. CASE s = "assess" /\ ~ last /\ Proceed(w, "assess")
      <4>1. PipelineVerdict(w)' = "open" /\ PipelineStage(w)' = "assess"
        BY <3>3, <2>5, <2>7
      <4>2. o \notin {"assessed", "partial", "opt_out"} /\ Len(heard'[w]) < MaxAssessments
        BY <1>6, <3>3, <2>6, CollectionsAssumption DEF LeavesLoop
      <4>3. QED  BY <3>3, <4>1, <4>2
    <3>4. CASE s = "resolve" /\ o = "deal_agreed" /\ Return(w, "resolved_at_resolution")
      BY <3>4, <2>4
    <3>5. CASE s = "resolve" /\ o = "opt_out" /\ Return(w, "opt_out")
      BY <3>5, <2>4
    <3>6. CASE s = "resolve" /\ o \notin {"deal_agreed", "opt_out"} /\ Proceed(w, "handoff3")
      <4>1. PipelineVerdict(w)' = "open" /\ PipelineStage(w)' = "final"
        BY <3>6, <2>5, <2>7
      <4>2. QED  BY <3>6, <4>1
    <3>7. CASE s = "final" /\ Return(w, FinalResult(o))
      BY <3>7, <2>4 DEF FinalResult
    <3>8. QED  BY <1>4, <1>6, <3>1, <3>2, <3>3, <3>4, <3>5, <3>6, <3>7
  <2>9. QED  BY <1>2, <2>8
<1>7. QED  BY <1>5, <1>6

(* A handoff's result goes on to the stage it is for.                      *)
LEMMA HandoffIsStutter ==
  ASSUME IInv, NEW w \in Workflows, NEW k \in Workers, HandoffDone(k)
  PROVE  UNCHANGED Promise(w)!vars
<1>1. PICK v \in Workflows :
           /\ v = job[k].wf /\ k \in JobsOf(v) /\ WorkflowInv(v) /\ job[k] \in Jobs
           /\ job[k].token = task[v].token
           /\ status[v] = "running" /\ stage[v] \in HandoffStages
           /\ NextStage[stage[v]] \in {"resolve", "final"}
           /\ Proceed(v, NextStage[stage[v]])
  BY AwaitedHandoff
<1>2. TypeOK /\ UNCHANGED <<heard, convs, status, result>>
  BY <1>1 DEF IInv, HandoffDone, Proceed
<1>3. CASE v # w
  <2>1. stage'[w] = stage[w]
    BY <1>1, <1>2, <1>3 DEF Proceed, TypeOK
  <2>2. QED  BY <1>2, <2>1, Stutters DEF PipelineStage, PipelineVerdict
<1>4. CASE v = w
  <2>1. stage'[w] = NextStage[stage[w]]
    BY <1>1, <1>2, <1>4 DEF Proceed, TypeOK
  <2>2. QED  BY <1>1, <1>2, <1>4, <2>1, Stutters DEF PipelineStage, PipelineVerdict, HandoffStages
<1>5. QED  BY <1>3, <1>4

(* One step of the proof per action.                                       *)
LEMMA PromiseStep ==
  ASSUME IInv, [Next]_vars, NEW w \in Workflows
  PROVE  [Promise(w)!Next]_(Promise(w)!vars)
<1> DEFINE Keeps == Promise(w)!Next \/ UNCHANGED Promise(w)!vars
<1> SUFFICES Keeps
  OBVIOUS
<1>0. TypeOK
  BY DEF IInv
<1>1. ASSUME NEW v \in Workflows, Start(v) PROVE Keeps
  <2>1. CASE v # w
    BY <1>0, <1>1, <2>1, SameStutters DEF Start, Same, TypeOK
  <2>2. CASE v = w
    <3>1. PipelineVerdict(w) = "idle" /\ PipelineVerdict(w)' = "open"
      BY <1>0, <1>1, <2>2 DEF Start, PipelineVerdict, TypeOK
    <3>2. /\ PipelineStage(w)' = PipelineStage(w) /\ PipelineContacts(w)' = PipelineContacts(w)
          /\ heard'[w] = heard[w]
      BY <1>1 DEF Start, PipelineStage, PipelineContacts
    <3>3. QED  BY <3>1, <3>2 DEF Promise!Next, Promise!Open
  <2>3. QED  BY <2>1, <2>2
<1>2. ASSUME NEW v \in Workflows, Timeout(v) PROVE Keeps
  BY <1>2, FailIsFail DEF Timeout, Promise!Next
<1>3. ASSUME UNCHANGED <<wfVars, convs>> PROVE Keeps
  <2>1. PipelineStage(w)' = PipelineStage(w) /\ PipelineVerdict(w)' = PipelineVerdict(w)
    BY <1>3 DEF PipelineStage, PipelineVerdict, wfVars
  <2>2. QED  BY <1>3, <2>1, Stutters DEF wfVars
<1>4. ASSUME NEW k \in Workers, Work(k) PROVE Keeps
  <2>1. CASE CreateConversation(k) \/ CreatePlaceholder(k)
    BY <2>1, InsertIsContact DEF Promise!Next
  <2>2. CASE \E o \in Outcome["assess"] \cup Outcome["resolve"] \cup Outcome["final"] : EndConversation(k, o)
    BY <2>2, EndIsStutter
  <2>3. CASE PlaceCall(k) \/ LoadTurns(k) \/ RecordHandoff(k) \/ DropResult(k)
    BY <1>3, <2>3 DEF PlaceCall, LoadTurns, RecordHandoff, DropResult
  <2>4. CASE AssessmentDone(k) \/ ResolutionDone(k) \/ FinalNoticeDone(k)
    BY <2>4, DoneIsHear DEF Promise!Next
  <2>5. CASE HandoffDone(k)
    BY <2>5, HandoffIsStutter
  <2>6. QED  BY <1>4, <2>1, <2>2, <2>3, <2>4, <2>5 DEF Work
<1>5. ASSUME NEW k \in Workers, Raise(k) PROVE Keeps
  <2>1. CASE Awaited(k)
    <3>1. job[k] # Idle
      BY <1>5 DEF Raise, Idle
    <3>2. job[k].wf \in Workflows
      BY <3>1, BusyWorker
    <3>3. QED  BY <1>5, <2>1, <3>2, FailIsFail DEF Raise, Awaited, Promise!Next
  <2>2. CASE ~ Awaited(k)
    BY <1>3, <1>5, <2>2 DEF Raise, wfVars
  <2>3. QED  BY <2>1, <2>2
<1>6. ASSUME NEW k \in Workers, NEW v \in Workflows, Crash(k) \/ Begin(k, v) PROVE Keeps
  BY <1>3, <1>6 DEF Crash, Begin
<1>7. ASSUME NEW k \in Workers, Crash(k) PROVE Keeps
  BY <1>3, <1>7 DEF Crash
<1>8. ASSUME NEW c, NEW o, CallEnds(c, o) \/ WebhookDelivers(c, o) PROVE Keeps
  BY <1>3, <1>8 DEF CallEnds, WebhookDelivers
<1>9. CASE UNCHANGED vars
  BY <1>3, <1>9 DEF vars, wfVars
<1>10. QED  BY <1>1, <1>2, <1>4, <1>5, <1>6, <1>7, <1>8, <1>9 DEF Next, Over

(* Every workflow keeps the promise of module Pipeline (its safety part):  *)
(* its conversations are begun one at a time and stage after stage, the    *)
(* outcomes decide as promised, a failure is final.                        *)
THEOREM KeepsPromise ==
  ASSUME NEW w \in Workflows
  PROVE  Spec => Promise(w)!Init /\ [][Promise(w)!Next]_(Promise(w)!vars)
<1>1. Init => Promise(w)!Init
  <2> SUFFICES ASSUME Init PROVE Promise(w)!Init
    OBVIOUS
  <2>1. convs[w] = <<>> /\ heard[w] = <<>> /\ stage[w] = "assess" /\ status[w] = "new"
    BY DEF Init
  <2>2. PipelineContacts(w) = <<>>
    BY <2>1 DEF PipelineContacts
  <2>3. PipelineStage(w) = "assess" /\ PipelineVerdict(w) = "idle"
    BY <2>1 DEF PipelineStage, PipelineVerdict, HandoffStages
  <2>4. QED  BY <2>1, <2>2, <2>3 DEF Promise!Init
<1>2. IInv /\ [Next]_vars => [Promise(w)!Next]_(Promise(w)!vars)
  BY PromiseStep
<1>3. QED  BY <1>1, <1>2, Invariant, PTL DEF Spec

-----------------------------------------------------------------------------
(***************************************************************************)
(* In voice mode: however many workers there are, crash or are given up,   *)
(* a workflow asks the call service for one call at most. The resolution   *)
(* is tried once, so nobody who took it up hands it to another.            *)
(***************************************************************************)

Called(w) == \E c \in DOMAIN calls : calls[c].wf = w

(* The workflow's only attempt at the resolution was taken up, and nobody  *)
(* is about to place a call for it.                                        *)
PastCall(w) ==
  /\ stage[w] \in {"resolve", "handoff3", "final"}
  /\ stage[w] = "resolve" => task[w].state # "queued"
  /\ \A k \in JobsOf(w) : job[k].stage = "resolve" => job[k].step # "begin"

CallInv == OneCallPerWorkflow /\ \A w \in Workflows : Called(w) => PastCall(w)

(* Nothing becomes about to call but by taking up a resolution.            *)
LEMMA PastCallKept ==
  ASSUME NEW w, PastCall(w),
         stage'[w] \in {"resolve", "handoff3", "final"},
         stage'[w] = "resolve" => task'[w].state # "queued",
         \A k \in Workers : \/ job'[k] = job[k] \/ job'[k] = Idle
                            \/ job'[k].wf # w \/ job'[k].stage # "resolve" \/ job'[k].step # "begin"
  PROVE  PastCall(w)'
BY DEF PastCall, JobsOf

(* The resolution is tried once: no step leads back to the call.           *)
LEMMA PastCallStays ==
  ASSUME IInv, Next, NEW w \in Workflows, PastCall(w)
  PROVE  PastCall(w)'
<1> DEFINE Jobs0 == \A k \in Workers :
             \/ job'[k] = job[k] \/ job'[k] = Idle
             \/ job'[k].wf # w \/ job'[k].stage # "resolve" \/ job'[k].step # "begin"
           Stage0 == /\ stage'[w] \in {"resolve", "handoff3", "final"}
                     /\ stage'[w] = "resolve" => task'[w].state # "queued"
<1>0. /\ TypeOK /\ WorkflowInv(w)
      /\ stage[w] \in {"resolve", "handoff3", "final"}
      /\ stage[w] = "resolve" => task[w].state # "queued"
  BY DEF IInv, PastCall
<1>q. ASSUME Jobs0, Stage0 PROVE PastCall(w)'
  BY <1>q, PastCallKept
<1>i. ASSUME NEW k \in Workers, NEW j, job' = [job EXCEPT ![k] = j],
             j = Idle \/ j.step # "begin" \/ j.stage # "resolve" \/ j.wf # w
      PROVE  Jobs0
  BY <1>0, <1>i DEF TypeOK
<1> HIDE DEF Jobs0
<1>1. ASSUME NEW v \in Workflows, Start(v) PROVE PastCall(w)'
  <2>1. v # w
    BY <1>0, <1>1 DEF Start, WorkflowInv, HistoryInv
  <2>2. Stage0
    BY <1>0, <1>1, <2>1 DEF Start, TypeOK
  <2>3. Jobs0
    BY <1>1 DEF Start, Jobs0
  <2>4. QED  BY <1>q, <2>2, <2>3
<1>f. ASSUME NEW v \in Workflows, task[v].state = "started", AttemptFails(v), UNCHANGED stage PROVE Stage0
  <2>1. CASE v # w
    BY <1>0, <1>f, <2>1 DEF AttemptFails, TypeOK
  <2>2. CASE v = w /\ stage[w] = "resolve"
    <3>1. task[w].tries >= 1 /\ task[w].tries \in Nat
      BY <1>0, <1>f, <2>2 DEF WorkflowInv, TaskInv, TypeOK
    <3>2. ~ (task[w].tries < MaxTries(stage[w]))
      BY <2>2, <3>1 DEF MaxTries, ChatStages
    <3>3. task' = [task EXCEPT ![w] = NoTask(task[w])]
      BY <1>f, <2>2, <3>2 DEF AttemptFails
    <3>4. task'[w].state = "none"
      BY <1>0, <3>3 DEF NoTask, TypeOK
    <3>5. QED  BY <1>0, <1>f, <3>4
  <2>3. CASE v = w /\ stage[w] # "resolve"
    BY <1>0, <1>f, <2>3
  <2>4. QED  BY <2>1, <2>2, <2>3
<1>2. ASSUME NEW v \in Workflows, Timeout(v) PROVE PastCall(w)'
  <2>1. Jobs0
    BY <1>2 DEF Timeout, Jobs0
  <2>2. Stage0
    BY <1>2, <1>f DEF Timeout
  <2>3. QED  BY <1>q, <2>1, <2>2
<1>3. ASSUME NEW k \in Workers, Raise(k) PROVE PastCall(w)'
  <2>0. Jobs0
    BY <1>3, <1>i DEF Raise
  <2>1. job[k] # Idle
    BY <1>3 DEF Raise, Idle
  <2>2. job[k].wf \in Workflows
    BY <2>1, BusyWorker
  <2>3. Stage0
    BY <1>0, <1>3, <1>f, <2>2 DEF Raise, Awaited
  <2>4. QED  BY <1>q, <2>0, <2>3
<1>4. ASSUME NEW k \in Workers, Crash(k) \/ DropResult(k) PROVE PastCall(w)'
  <2>1. Jobs0
    BY <1>4, <1>i DEF Crash, DropResult
  <2>2. Stage0
    BY <1>0, <1>4 DEF Crash, DropResult, wfVars
  <2>3. QED  BY <1>q, <2>1, <2>2
<1>5. ASSUME NEW k \in Workers, NEW v \in Workflows, Begin(k, v) PROVE PastCall(w)'
  <2>1. CASE v = w
    <3>1. stage[w] # "resolve"
      BY <1>0, <1>5, <2>1 DEF Begin
    <3>2. Jobs0
      BY <1>5, <1>i, <2>1, <3>1 DEF Begin
    <3>3. Stage0
      BY <1>0, <1>5, <3>1 DEF Begin, wfVars
    <3>4. QED  BY <1>q, <3>2, <3>3
  <2>2. CASE v # w
    <3>1. Jobs0
      BY <1>5, <1>i, <2>2 DEF Begin
    <3>2. Stage0
      BY <1>0, <1>5, <2>2 DEF Begin, wfVars, TypeOK
    <3>3. QED  BY <1>q, <3>1, <3>2
  <2>3. QED  BY <2>1, <2>2
<1>6. ASSUME NEW k \in Workers,
             \/ CreateConversation(k) \/ PlaceCall(k) \/ CreatePlaceholder(k)
             \/ LoadTurns(k) \/ RecordHandoff(k)
             \/ \E o \in Outcome["assess"] \cup Outcome["resolve"] \cup Outcome["final"] : EndConversation(k, o)
      PROVE  PastCall(w)'
  <2>1. job[k] # Idle
    <3>1. job[k].step \in {"begin", "talk", "placed", "record"}
      BY <1>6 DEF CreateConversation, PlaceCall, CreatePlaceholder, LoadTurns, RecordHandoff, EndConversation
    <3>2. QED  BY <3>1 DEF Idle
  <2>2. job[k] \in Jobs
    BY <2>1, BusyWorker
  <2>3. job'[k].step # "begin" /\ \A l \in Workers \ {k} : job'[l] = job[l]
    <3>1. CASE CreateConversation(k) \/ CreatePlaceholder(k)
      <4>1. PICK step \in {"talk", "report"} : InsertConversation(k, step)
        BY <3>1 DEF CreateConversation, CreatePlaceholder
      <4>2. PICK n : n = Len(convs[job[k].wf]) + 1
        OBVIOUS
      <4>3. PICK o : o = IF OverVoice(k) THEN "vapi_initiated" ELSE NULL
        OBVIOUS
      <4>4. job' = [job EXCEPT ![k].step = step, ![k].conv = n, ![k].outcome = o]
        BY <4>1, <4>2, <4>3 DEF InsertConversation
      <4>5. job'[k] = [job[k] EXCEPT !.step = step, !.conv = n, !.outcome = o]
            /\ \A l \in Workers \ {k} : job'[l] = job[l]
        BY <1>0, <4>4 DEF TypeOK
      <4>6. QED  BY <2>2, <4>5 DEF Jobs
    <3>2. CASE PlaceCall(k) \/ RecordHandoff(k)
      <4>1. PICK step \in {"placed", "report"} : job' = [job EXCEPT ![k].step = step]
        BY <3>2 DEF PlaceCall, RecordHandoff
      <4>2. job'[k] = [job[k] EXCEPT !.step = step] /\ \A l \in Workers \ {k} : job'[l] = job[l]
        BY <1>0, <4>1 DEF TypeOK
      <4>3. QED  BY <2>2, <4>2 DEF Jobs
    <3>3. CASE LoadTurns(k)
      BY <1>0, <2>2, <3>3 DEF LoadTurns, TypeOK, Jobs
    <3>4. ASSUME NEW o, EndConversation(k, o)
          PROVE  job'[k].step # "begin" /\ \A l \in Workers \ {k} : job'[l] = job[l]
      BY <1>0, <2>2, <3>4 DEF EndConversation, TypeOK, Jobs
    <3>5. QED  BY <1>6, <3>1, <3>2, <3>3, <3>4
  <2>4. Jobs0
    BY <2>3 DEF Jobs0
  <2>5. Stage0
    BY <1>0, <1>6 DEF CreateConversation, PlaceCall, CreatePlaceholder, LoadTurns, RecordHandoff,
       EndConversation, wfVars
  <2>6. QED  BY <1>q, <2>4, <2>5
<1>p. ASSUME NEW v \in Workflows, NEW next,
             Proceed(v, next) \/ \E r \in Results : Return(v, r),
             v = w => next \in {"handoff3", "final"}
      PROVE  Stage0
  <2>1. CASE Proceed(v, next)
    BY <1>0, <1>p, <2>1 DEF Proceed, FirstTry, TypeOK
  <2>2. CASE \E r \in Results : Return(v, r)
    <3>1. UNCHANGED stage /\ task' = [task EXCEPT ![v] = NoTask(task[v])]
      BY <2>2 DEF Return
    <3>2. stage'[w] = "resolve" => task'[w].state # "queued"
      BY <1>0, <3>1 DEF NoTask, TypeOK
    <3>3. QED  BY <1>0, <3>1, <3>2
  <2>3. QED  BY <1>p, <2>1, <2>2
<1>7. ASSUME NEW k \in Workers, AssessmentDone(k) \/ ResolutionDone(k) \/ FinalNoticeDone(k)
      PROVE  PastCall(w)'
  <2>1. PICK s \in ChatStages :
          /\ HearOutcome(k, s)
          /\ s = "assess" => AssessmentDone(k)
          /\ s = "resolve" => ResolutionDone(k)
          /\ s = "final" => FinalNoticeDone(k)
    BY <1>7 DEF AssessmentDone, ResolutionDone, FinalNoticeDone, ChatStages
  <2>2. PICK v \in Workflows : v = job[k].wf /\ stage[v] = s
    BY <2>1, AwaitedConversation
  <2>3. Jobs0
    BY <2>1, <1>i DEF HearOutcome
  <2>4. CASE v # w
    <3>1. stage'[w] = stage[w] /\ task'[w] = task[w]
      BY <1>0, <1>7, <2>2, <2>4 DEF AssessmentDone, ResolutionDone, FinalNoticeDone, AfterAssessment,
         AfterResolution, Proceed, Return, TypeOK
    <3>2. QED  BY <1>0, <1>q, <2>3, <3>1
  <2>5. CASE v = w
    <3>1. s \in {"resolve", "final"}
      BY <1>0, <2>2, <2>5 DEF ChatStages
    <3>2. Proceed(v, "handoff3") \/ \E r \in Results : Return(v, r)
      BY <2>1, <2>2, <3>1 DEF ResolutionDone, FinalNoticeDone, AfterResolution, FinalResult, Results
    <3>3. QED  BY <1>q, <1>p, <2>3, <3>2
  <2>6. QED  BY <2>4, <2>5
<1>8. ASSUME NEW k \in Workers, HandoffDone(k) PROVE PastCall(w)'
  <2>1. PICK v \in Workflows : v = job[k].wf /\ stage[v] \in HandoffStages /\ Proceed(v, NextStage[stage[v]])
    BY <1>8, AwaitedHandoff
  <2>2. Jobs0
    BY <1>8, <1>i DEF HandoffDone
  <2>3. v = w => NextStage[stage[v]] = "final"
    BY <1>0, <2>1 DEF HandoffStages, NextStage
  <2>4. QED  BY <1>q, <1>p, <2>1, <2>2, <2>3
<1>9. ASSUME NEW c, NEW o, CallEnds(c, o) \/ WebhookDelivers(c, o) PROVE PastCall(w)'
  <2>1. Jobs0 /\ Stage0
    BY <1>0, <1>9 DEF CallEnds, WebhookDelivers, wfVars, Jobs0
  <2>2. QED  BY <1>q, <2>1
<1>10. CASE Over
  BY <1>10 DEF Over, vars, PastCall, JobsOf
<1>11. QED
  BY <1>1, <1>2, <1>3, <1>4, <1>5, <1>6, <1>7, <1>8, <1>9, <1>10 DEF Next, Work

(* Only PlaceCall adds a call, and it adds the workflow's first.           *)
LEMMA FirstCall ==
  ASSUME IInv, NEW k \in Workers, PlaceCall(k)
  PROVE  \E w \in Workflows :
           /\ ~ PastCall(w) /\ PastCall(w)'
           /\ calls' = Append(calls, [wf |-> w, outcome |-> NULL, posted |-> 0])
<1>1. job[k] # Idle /\ TypeOK /\ job[k].step = "begin" /\ job[k].stage = "resolve"
  BY DEF PlaceCall, OverVoice, Idle, IInv
<1>2. PICK w \in Workflows : w = job[k].wf /\ k \in JobsOf(w) /\ JobInv(w, job[k]) /\ job[k] \in Jobs
  BY <1>1, BusyWorker
<1>3. job[k].token = task[w].token /\ stage[w] = "resolve" /\ task[w].state # "queued"
  BY <1>1, <1>2 DEF JobInv, ChatJobInv, ChatStages
<1>4. job'[k].step # "begin" /\ \A l \in Workers \ {k} : job'[l] = job[l]
  BY <1>1, <1>2 DEF PlaceCall, TypeOK, Jobs
<1>5. \A l \in JobsOf(w) : l # k => job[l].stage # "resolve"
  BY <1>2, <1>3, OthersAreStale DEF ChatStages
<1>6. \A l \in JobsOf(w)' : job'[l].stage = "resolve" => job'[l].step # "begin"
  BY <1>4, <1>5 DEF JobsOf
<1>7. PastCall(w)'
  BY <1>3, <1>6 DEF PastCall, PlaceCall, wfVars
<1>8. QED  BY <1>1, <1>2, <1>7 DEF PastCall, PlaceCall

(* So the calls of a workflow stay one, and what was called stays past it. *)
LEMMA CallInvStep == IInv /\ CallInv /\ [Next]_vars => CallInv'
<1> SUFFICES ASSUME IInv, CallInv, [Next]_vars PROVE CallInv'
  OBVIOUS
<1> DEFINE Call0 == [wf : Workflows, outcome : VoiceOutcomes \cup {NULL}, posted : Nat]
<1>1. calls \in Seq(Call0)
  BY DEF IInv, TypeOK
<1>2. \A w \in Workflows : Called(w) => PastCall(w)'
  BY PastCallStays DEF CallInv, vars, PastCall, JobsOf
<1>3. ASSUME NEW k \in Workers, PlaceCall(k) PROVE CallInv'
  <2> DEFINE n == Len(calls)
  <2>1. PICK w \in Workflows :
          /\ ~ Called(w) /\ PastCall(w)'
          /\ calls' = Append(calls, [wf |-> w, outcome |-> NULL, posted |-> 0])
    BY <1>3, FirstCall DEF CallInv
  <2>3. /\ DOMAIN calls' = DOMAIN calls \cup {n + 1}
        /\ \A c \in DOMAIN calls : calls'[c].wf = calls[c].wf
        /\ calls'[n + 1].wf = w
    BY <1>1, <2>1
  <2> HIDE DEF n
  <2>4. OneCallPerWorkflow'
    BY <2>1, <2>3 DEF OneCallPerWorkflow, Called, CallInv
  <2>5. \A v \in Workflows : Called(v)' => Called(v) \/ v = w
    BY <2>3 DEF Called
  <2>6. QED  BY <1>2, <2>1, <2>4, <2>5 DEF CallInv
<1>4. ASSUME DOMAIN calls' = DOMAIN calls, \A c \in DOMAIN calls : calls'[c].wf = calls[c].wf
      PROVE  CallInv'
  <2>1. OneCallPerWorkflow'
    BY <1>4 DEF OneCallPerWorkflow, CallInv
  <2>2. \A v \in Workflows : Called(v)' => Called(v)
    BY <1>4 DEF Called
  <2>3. QED  BY <1>2, <2>1, <2>2 DEF CallInv
<1>5. CASE UNCHANGED calls
  BY <1>4, <1>5
<1>6. ASSUME NEW c \in DOMAIN calls, NEW o, CallEnds(c, o) \/ WebhookDelivers(c, o)
      PROVE  CallInv'
  <2>1. \E r : calls' = [calls EXCEPT ![c] = r] /\ r.wf = calls[c].wf
    <3>1. calls[c] \in Call0
      <4> HIDE DEF Call0
      <4>1. QED  BY <1>1
    <3>2. \E r : calls' = [calls EXCEPT ![c] = r]
                 /\ (r = [calls[c] EXCEPT !.outcome = o] \/ r = [calls[c] EXCEPT !.posted = calls[c].posted + 1])
      BY <1>6 DEF CallEnds, WebhookDelivers
    <3>3. QED  BY <3>1, <3>2
  <2>2. DOMAIN calls' = DOMAIN calls /\ \A d \in DOMAIN calls : calls'[d].wf = calls[d].wf
    BY <1>1, <2>1
  <2>3. QED  BY <1>4, <2>2
<1>7. \/ UNCHANGED calls
      \/ \E k \in Workers : PlaceCall(k)
      \/ \E c \in DOMAIN calls : \E o : CallEnds(c, o) \/ WebhookDelivers(c, o)
  <2>1. ASSUME NEW k \in Workers, Work(k) PROVE UNCHANGED calls \/ PlaceCall(k)
    BY <2>1 DEF Work, CreateConversation, EndConversation, CreatePlaceholder, LoadTurns, RecordHandoff,
       DropResult, AssessmentDone, ResolutionDone, FinalNoticeDone, HearOutcome, HandoffDone
  <2>2. ASSUME NEW k \in Workers, Raise(k) \/ Crash(k) \/ \E w \in Workflows : Begin(k, w)
        PROVE  UNCHANGED calls
    BY <2>2 DEF Raise, Crash, Begin
  <2>3. ASSUME NEW w \in Workflows, Start(w) \/ Timeout(w) PROVE UNCHANGED calls
    BY <2>3 DEF Start, Timeout
  <2>4. QED  BY <2>1, <2>2, <2>3 DEF Next, Over, vars
<1>8. QED  BY <1>3, <1>5, <1>6, <1>7

(* The call service is asked at most once per workflow, for any number of  *)
(* workers, crashes and timeouts.                                          *)
THEOREM CalledOnce == Spec => []OneCallPerWorkflow
<1>1. Init => CallInv
  BY DEF Init, CallInv, OneCallPerWorkflow, Called
<1>2. CallInv => OneCallPerWorkflow
  BY DEF CallInv
<1>3. QED  BY <1>1, <1>2, CallInvStep, Invariant, PTL DEF Spec

-----------------------------------------------------------------------------
(***************************************************************************)
(* What the handoffs cover, when every conversation is a chat: whatever is *)
(* retried or given up, each summary is made from the whole of the stages  *)
(* before, and the agent of the next stage starts with such a summary.     *)
(***************************************************************************)

(* The workflow has asked for handoff s, and has its result.               *)
Reached(w, s) == stage[w] \in IF s = "handoff2" THEN {"handoff2", "resolve", "handoff3", "final"}
                              ELSE {"handoff3", "final"}
Passed(w, s)  == stage[w] \in IF s = "handoff2" THEN {"resolve", "handoff3", "final"} ELSE {"final"}

(* The ids the workflow keeps name the rows they are meant to name.        *)
SourceInv(w) ==
  /\ stage[w] # "assess" =>
       /\ source[w]["assess"] \in Rows(w, "assess")
       /\ source[w]["assess"] <= Len(heard[w])
       /\ \A i \in Rows(w, "assess") : i <= source[w]["assess"]
  /\ stage[w] \in {"assess", "handoff2"} => Rows(w, "resolve") = {}
  /\ stage[w] = "resolve" /\ status[w] # "completed" => Rows(w, "resolve") \subseteq {Len(heard[w]) + 1}
  /\ Reached(w, "handoff3") =>
       /\ Rows(w, "resolve") = {source[w]["resolve"]}
       /\ source[w]["resolve"] <= Len(heard[w])
  /\ stage[w] # "final" => Rows(w, "final") = {}

Recorded(w, s) == \E i \in DOMAIN handoffs[w] : handoffs[w][i].to = NextStage[s]

(* An attempt at a handoff that has loaded its turns has all of them, the  *)
(* rows have what the attempts had, and the workflow what a row has.       *)
AttemptInv(w, j) ==
  /\ Reached(w, j.stage)
  /\ j.step \in {"record", "report"} => j.covers = Sources(w, j.stage)
  /\ j.step = "report" => Recorded(w, j.stage)

CoverInv(w) ==
  /\ \A k \in JobsOf(w) : job[k].stage \in HandoffStages => AttemptInv(w, job[k])
  /\ \A s \in HandoffStages : \A i \in DOMAIN handoffs[w] :
       handoffs[w][i].to = NextStage[s] => Reached(w, s) /\ handoffs[w][i].covers = Sources(w, s)
  /\ \A s \in HandoffStages : Passed(w, s) => payload[w][s] = Sources(w, s) /\ Recorded(w, s)

HandoffOf(w) == SourceInv(w) /\ CoverInv(w)

HandoffInv == \A w \in Workflows : HandoffOf(w)

-----------------------------------------------------------------------------
(* A step that leaves what a workflow knows and has on file, and changes   *)
(* its attempts only to correct ones, keeps the invariant.                 *)
LEMMA HandoffFrame ==
  ASSUME NEW w, HandoffOf(w),
         stage'[w] = stage[w], heard'[w] = heard[w], source'[w] = source[w],
         payload'[w] = payload[w], handoffs'[w] = handoffs[w],
         status[w] = "completed" => status'[w] = "completed",
         \A s \in ChatStages : Rows(w, s)' = Rows(w, s),
         \A k \in Workers : \/ job'[k] = job[k] \/ job'[k] = Idle \/ job'[k].wf # w
                            \/ job'[k].stage \in HandoffStages => AttemptInv(w, job'[k])
  PROVE  HandoffOf(w)'
<1>1. \A s : Reached(w, s)' = Reached(w, s) /\ Passed(w, s)' = Passed(w, s)
             /\ Sources(w, s)' = Sources(w, s) /\ Recorded(w, s)' = Recorded(w, s)
  BY DEF Reached, Passed, Sources, Recorded
<1>2. SourceInv(w)'
  BY <1>1 DEF HandoffOf, SourceInv, ChatStages
<1>3. ASSUME NEW k \in JobsOf(w)', job'[k].stage \in HandoffStages
      PROVE  AttemptInv(w, job[k])'
  <2>1. AttemptInv(w, job'[k])
    BY <1>3 DEF JobsOf, HandoffOf, CoverInv
  <2>2. QED  BY <1>1, <2>1 DEF AttemptInv
<1>4. CoverInv(w)'
  BY <1>1, <1>3 DEF HandoffOf, CoverInv
<1>5. QED  BY <1>2, <1>4 DEF HandoffOf

(* The same rows have the same stages.                                     *)
LEMMA SameRows ==
  ASSUME NEW w, convs'[w] = convs[w], NEW s
  PROVE  Rows(w, s)' = Rows(w, s)
BY DEF Rows

(* What a step does to one worker it does to no other.                     *)
LEMMA OneJob ==
  ASSUME TypeOK, NEW k \in Workers, NEW j, job' = [job EXCEPT ![k] = j]
  PROVE  job'[k] = j /\ \A l \in Workers \ {k} : job'[l] = job[l]
BY DEF TypeOK

(* A word that was heard is an outcome, and so was written on the row.     *)
LEMMA WordsAreNotNull == NULL \notin PipelineWords
<1>1. \A s \in ChatStages : NULL \notin ConversationOutcomes(AgentOf[s])
  BY DEF ChatStages, AgentOf, ConversationOutcomes, ClassifiedOutcomes, ReasonOutcomes, EndReasons, NULL
<1>2. QED  BY <1>1, CollectionsAssumption DEF PipelineWords, NULL

(* The conversations a handoff is for were held to their end.              *)
LEMMA SourcesWereHeld ==
  ASSUME ~ VoiceMode, IInv, NEW w \in Workflows, SourceInv(w), NEW s \in HandoffStages, Reached(w, s),
         NEW c \in Sources(w, s)
  PROVE  convs[w][c].outcome # NULL
<1>1. HistoryInv(w) /\ convs[w] \in Seq(Rows0) /\ heard[w] \in Seq(PipelineWords)
  BY DEF IInv, WorkflowInv, TypeOK, Rows0
<1>2. \E r \in ChatStages : c \in Rows(w, r) /\ c <= Len(heard[w])
  BY DEF SourceInv, Reached, Sources, HandoffStages, ChatStages
<1>3. c \in 1..Len(heard[w])
  BY <1>1, <1>2 DEF Rows
<1>4. convs[w][c].outcome = heard[w][c] /\ heard[w][c] \in PipelineWords
  BY <1>1, <1>3 DEF HistoryInv, Voiced
<1>5. QED  BY <1>4, WordsAreNotNull

-----------------------------------------------------------------------------
(* One lemma per kind of step; w is the workflow whose invariant is kept,  *)
(* whoever the step is about.                                              *)

(* Attempts begin, fail and are given up: nothing on file changes.         *)
LEMMA AttemptsKeepHandoffs ==
  ASSUME IInv, NEW w \in Workflows, HandoffOf(w),
         UNCHANGED <<stage, heard, source, payload, convs, handoffs>>,
         status[w] = "completed" => status'[w] = "completed",
         \/ job' = job
         \/ \E k \in Workers : job' = [job EXCEPT ![k] = Idle]
         \/ \E k \in Workers, v \in Workflows : Begin(k, v)
  PROVE  HandoffOf(w)'
<1>1. CASE job' = job \/ \E k \in Workers : job' = [job EXCEPT ![k] = Idle]
  <2>1. \A k \in Workers : job'[k] = job[k] \/ job'[k] = Idle
    BY <1>1 DEF IInv, TypeOK
  <2>2. QED  BY <2>1, HandoffFrame, SameRows
<1>2. ASSUME NEW k \in Workers, NEW v \in Workflows, Begin(k, v)
      PROVE  HandoffOf(w)'
  <2> DEFINE j == [step |-> "begin", wf |-> v, token |-> task[v].token, stage |-> stage[v],
                   conv |-> 0, outcome |-> NULL, covers |-> {}]
  <2>1. job' = [job EXCEPT ![k] = j] /\ j.wf = v /\ j.stage = stage[v] /\ j.step = "begin"
    BY <1>2 DEF Begin
  <2> HIDE DEF j
  <2>2. job'[k] = j /\ \A l \in Workers \ {k} : job'[l] = job[l]
    BY <2>1, OneJob DEF IInv
  <2>3. j.wf = w /\ j.stage \in HandoffStages => AttemptInv(w, j)
    BY <2>1 DEF AttemptInv, Reached, HandoffStages
  <2>4. QED  BY <2>2, <2>3, HandoffFrame, SameRows
<1>3. QED  BY <1>1, <1>2

(* The turns of every conversation it is for are loaded.                   *)
LEMMA LoadKeepsHandoffs ==
  ASSUME ~ VoiceMode, IInv, NEW w \in Workflows, HandoffOf(w), NEW k \in Workers, LoadTurns(k)
  PROVE  HandoffOf(w)'
<1>1. job[k] # Idle /\ job[k].stage \in HandoffStages /\ TypeOK
  BY DEF LoadTurns, Idle, IInv
<1>2. job[k] \in Jobs /\ k \in JobsOf(job[k].wf)
  BY <1>1, BusyWorker
<1> DEFINE v == job[k].wf
           c == {x \in Sources(v, job[k].stage) : convs[v][x].outcome # NULL}
           j == [job[k] EXCEPT !.step = "record", !.covers = c]
<1>3. job' = [job EXCEPT ![k] = j]
  BY <1>1, <1>2 DEF LoadTurns, TypeOK
<1>4. j.wf = v /\ j.stage = job[k].stage /\ j.step = "record" /\ j.covers = c
  <2> HIDE DEF c
  <2>1. QED  BY <1>2 DEF Jobs
<1>5. v = w => AttemptInv(w, j)
  <2> SUFFICES ASSUME v = w PROVE AttemptInv(w, j)
    OBVIOUS
  <2>1. Reached(w, job[k].stage)
    BY <1>1, <1>2 DEF HandoffOf, CoverInv, AttemptInv
  <2>2. c = Sources(w, job[k].stage)
    BY <1>1, <2>1, SourcesWereHeld DEF HandoffOf
  <2> HIDE DEF c, j
  <2>3. QED  BY <1>4, <2>1, <2>2 DEF AttemptInv
<1> HIDE DEF v, j
<1>6. job'[k] = j /\ \A l \in Workers \ {k} : job'[l] = job[l]
  BY <1>1, <1>3, OneJob
<1>7. UNCHANGED <<stage, status, heard, source, payload, convs, handoffs>>
  BY DEF LoadTurns, wfVars
<1>8. QED  BY <1>4, <1>5, <1>6, <1>7, HandoffFrame, SameRows

(* A conversation begins or ends: its job is no handoff.                   *)
LEMMA TalkKeepsAttempts ==
  ASSUME IInv, NEW k \in Workers,
         CreateConversation(k) \/ \E o : EndConversation(k, o)
  PROVE  \A l \in Workers : job'[l] = job[l] \/ job'[l].stage \notin HandoffStages
<1>1. job[k] # Idle /\ TypeOK
  <2>1. job[k].step \in {"begin", "talk"}
    BY DEF CreateConversation, EndConversation
  <2>2. QED  BY <2>1 DEF Idle, IInv
<1>2. job[k] \in Jobs /\ JobInv(job[k].wf, job[k])
  BY <1>1, BusyWorker
<1>3. job[k].stage \in ChatStages
  BY <1>2 DEF CreateConversation, EndConversation, JobInv, Jobs, Stages
<1>4. \A l \in Workers \ {k} : job'[l] = job[l]
  BY <1>1 DEF CreateConversation, EndConversation, InsertConversation, TypeOK
<1>5. job'[k].stage = job[k].stage
  BY <1>1, <1>2 DEF CreateConversation, EndConversation, InsertConversation, TypeOK, Jobs
<1>6. QED  BY <1>3, <1>4, <1>5 DEF ChatStages, HandoffStages

(* A conversation that begins is of the stage the workflow is at; it is    *)
(* the one row ahead of what was heard.                                    *)
LEMMA InsertKeepsHandoffs ==
  ASSUME IInv, NEW w \in Workflows, HandoffOf(w), NEW k \in Workers, CreateConversation(k)
  PROVE  HandoffOf(w)'
<1>1. job[k] # Idle /\ TypeOK
  BY DEF CreateConversation, Idle, IInv
<1>2. PICK v \in Workflows : v = job[k].wf /\ JobInv(v, job[k]) /\ job[k] \in Jobs
  BY <1>1, BusyWorker
<1>3. /\ Len(convs[v]) = Len(heard[v]) /\ job[k].stage = stage[v] /\ stage[v] \in ChatStages
      /\ status[v] # "completed"
  BY <1>2 DEF CreateConversation, JobInv, ChatJobInv
<1> DEFINE r == [stage |-> job[k].stage, outcome |-> NULL]
<1>4. /\ convs \in [Workflows -> Seq(Rows0)] /\ r \in Rows0
      /\ convs' = [convs EXCEPT ![v] = Append(convs[v], r)]
  BY <1>1, <1>2, <1>3 DEF CreateConversation, InsertConversation, TypeOK, Rows0
<1>5. UNCHANGED <<stage, status, heard, source, payload, handoffs>>
  BY DEF CreateConversation, wfVars
<1>6. \A l \in Workers : job'[l] = job[l] \/ job'[l].stage \notin HandoffStages
  BY TalkKeepsAttempts
<1>7. CASE v # w
  <2>1. convs'[w] = convs[w]
    BY <1>4, <1>7
  <2>2. QED  BY <1>5, <1>6, <2>1, HandoffFrame, SameRows
<1>8. CASE v = w
  <2> DEFINE n == Len(heard[w]) + 1
  <2>1. /\ DOMAIN convs'[w] = DOMAIN convs[w] \cup {n}
        /\ convs'[w][n].stage = stage[w]
        /\ \A i \in DOMAIN convs[w] : i # n /\ convs'[w][i] = convs[w][i]
    <3>1. convs'[w] = Append(convs[w], r) /\ n = Len(convs[w]) + 1 /\ convs[w] \in Seq(Rows0)
      BY <1>3, <1>4, <1>8
    <3>2. r.stage = stage[w]
      BY <1>3, <1>8
    <3> HIDE DEF r, n
    <3>3. QED  BY <1>4, <3>1, <3>2
  <2> HIDE DEF n
  <2>2. \A s : Rows(w, s)' = Rows(w, s) \cup (IF s = stage[w] THEN {n} ELSE {})
    BY <2>1 DEF Rows
  <2>3. SourceInv(w)'
    <3>1. CASE stage[w] = "assess"
      BY <1>5, <2>2, <3>1 DEF HandoffOf, SourceInv, Reached
    <3>2. CASE stage[w] = "resolve"
      BY <1>3, <1>5, <1>8, <2>2, <3>2 DEF HandoffOf, SourceInv, Reached, n
    <3>3. CASE stage[w] = "final"
      BY <1>5, <2>2, <3>3 DEF HandoffOf, SourceInv, Reached
    <3>4. QED  BY <1>3, <1>8, <3>1, <3>2, <3>3 DEF ChatStages
  <2>4. CoverInv(w)'
    <3>1. \A t : Reached(w, t)' = Reached(w, t) /\ Passed(w, t)' = Passed(w, t)
                 /\ Sources(w, t)' = Sources(w, t) /\ Recorded(w, t)' = Recorded(w, t)
      BY <1>5 DEF Reached, Passed, Sources, Recorded
    <3>2. ASSUME NEW l \in JobsOf(w)', job'[l].stage \in HandoffStages PROVE AttemptInv(w, job[l])'
      <4>1. l \in JobsOf(w) /\ job'[l] = job[l]
        BY <1>6, <3>2 DEF JobsOf
      <4>2. AttemptInv(w, job[l])
        BY <3>2, <4>1 DEF HandoffOf, CoverInv
      <4>3. QED  BY <3>1, <4>1, <4>2 DEF AttemptInv
    <3>3. QED  BY <1>5, <3>1, <3>2 DEF HandoffOf, CoverInv
  <2>5. QED  BY <2>3, <2>4 DEF HandoffOf
<1>9. QED  BY <1>7, <1>8

(* A conversation that ends keeps its row and its stage.                   *)
LEMMA EndKeepsHandoffs ==
  ASSUME IInv, NEW w \in Workflows, HandoffOf(w), NEW k \in Workers, NEW o, EndConversation(k, o)
  PROVE  HandoffOf(w)'
<1>1. job[k] # Idle /\ TypeOK
  BY DEF EndConversation, Idle, IInv
<1>2. PICK v \in Workflows : v = job[k].wf
  BY <1>1, BusyWorker
<1> DEFINE c == job[k].conv
<1>3. /\ convs \in [Workflows -> Seq(Rows0)]
      /\ convs' = [convs EXCEPT ![v] = [convs[v] EXCEPT ![c] = [convs[v][c] EXCEPT !.outcome = o]]]
  BY <1>1, <1>2 DEF EndConversation, TypeOK, Rows0
<1> HIDE DEF c
<1>4. /\ DOMAIN convs'[w] = DOMAIN convs[w]
      /\ \A i \in DOMAIN convs[w] : convs'[w][i].stage = convs[w][i].stage
  <2>1. CASE v # w
    BY <1>3, <2>1
  <2>2. CASE v = w
    <3>1. convs'[w] = [convs[w] EXCEPT ![c] = [convs[w][c] EXCEPT !.outcome = o]] /\ convs[w] \in Seq(Rows0)
      BY <1>3, <2>2
    <3>2. \A i \in DOMAIN convs[w] : convs[w][i] \in Rows0
      BY <3>1
    <3>3. DOMAIN convs'[w] = DOMAIN convs[w]
          /\ \A i \in DOMAIN convs[w] :
               convs'[w][i] = IF i = c THEN [convs[w][c] EXCEPT !.outcome = o] ELSE convs[w][i]
      BY <3>1
    <3>4. QED  BY <3>2, <3>3 DEF Rows0
  <2>3. QED  BY <2>1, <2>2
<1>5. \A s : Rows(w, s)' = Rows(w, s)
  BY <1>4 DEF Rows
<1>6. \A l \in Workers : job'[l] = job[l] \/ job'[l].stage \notin HandoffStages
  BY TalkKeepsAttempts
<1>7. UNCHANGED <<stage, status, heard, source, payload, handoffs>>
  BY DEF EndConversation, wfVars
<1>8. QED  BY <1>5, <1>6, <1>7, HandoffFrame

(* The row an attempt writes covers what the attempt had loaded.           *)
LEMMA RecordKeepsHandoffs ==
  ASSUME IInv, NEW w \in Workflows, HandoffOf(w), NEW k \in Workers, RecordHandoff(k)
  PROVE  HandoffOf(w)'
<1>1. job[k] # Idle /\ TypeOK /\ job[k].step = "record"
  BY DEF RecordHandoff, Idle, IInv
<1>2. PICK v \in Workflows : v = job[k].wf /\ JobInv(v, job[k]) /\ job[k] \in Jobs /\ k \in JobsOf(v)
  BY <1>1, BusyWorker
<1>3. PICK s \in HandoffStages : s = job[k].stage
  BY <1>1, <1>2 DEF JobInv, ChatJobInv, Jobs, Stages
<1> DEFINE h == [to |-> NextStage[s], covers |-> job[k].covers]
           H == [to : ChatStages, covers : SUBSET Nat]
<1>4. handoffs' = [handoffs EXCEPT ![v] = Append(handoffs[v], h)] /\ handoffs \in [Workflows -> Seq(H)]
  BY <1>1, <1>2, <1>3 DEF RecordHandoff, TypeOK
<1>5. /\ \A l \in Workers \ {k} : job'[l] = job[l]
      /\ job'[k].wf = v /\ job'[k].stage = s /\ job'[k].step = "report" /\ job'[k].covers = job[k].covers
  BY <1>1, <1>2, <1>3 DEF RecordHandoff, TypeOK, Jobs
<1>6. UNCHANGED <<stage, status, heard, source, payload, convs>>
  BY DEF RecordHandoff, wfVars
<1>7. CASE v # w
  <2>1. handoffs'[w] = handoffs[w]
    BY <1>4, <1>7
  <2>2. QED  BY <1>5, <1>6, <1>7, <2>1, HandoffFrame, SameRows
<1>8. CASE v = w
  <2> DEFINE n == Len(handoffs[w]) + 1
  <2>1. /\ DOMAIN handoffs'[w] = DOMAIN handoffs[w] \cup {n}
        /\ handoffs'[w][n] = h
        /\ \A i \in DOMAIN handoffs[w] : handoffs'[w][i] = handoffs[w][i]
    <3>1. handoffs'[w] = Append(handoffs[w], h) /\ handoffs[w] \in Seq(H)
      BY <1>4, <1>8
    <3> HIDE DEF h, H
    <3>2. QED  BY <3>1
  <2> HIDE DEF n
  <2>2. Reached(w, s) /\ job[k].covers = Sources(w, s)
    BY <1>1, <1>2, <1>3, <1>8 DEF HandoffOf, CoverInv, AttemptInv
  <2>3. Recorded(w, s)' /\ \A t : Recorded(w, t) => Recorded(w, t)'
    <3>1. h.to = NextStage[s]
      OBVIOUS
    <3> HIDE DEF h
    <3>2. QED  BY <2>1, <3>1 DEF Recorded
  <2>4. \A t : Reached(w, t)' = Reached(w, t) /\ Passed(w, t)' = Passed(w, t) /\ Sources(w, t)' = Sources(w, t)
    BY <1>6 DEF Reached, Passed, Sources
  <2>5. SourceInv(w)'
    <3>1. \A t : Rows(w, t)' = Rows(w, t)
      BY <1>6 DEF Rows
    <3>2. QED  BY <1>6, <2>4, <3>1 DEF HandoffOf, SourceInv
  <2>6. ASSUME NEW l \in JobsOf(w)', job'[l].stage \in HandoffStages PROVE AttemptInv(w, job[l])'
    <3>1. CASE l = k
      BY <1>5, <2>2, <2>3, <2>4, <3>1 DEF AttemptInv
    <3>2. CASE l # k
      <4>1. l \in JobsOf(w) /\ job'[l] = job[l]
        BY <1>5, <2>6, <3>2 DEF JobsOf
      <4>2. AttemptInv(w, job[l])
        BY <2>6, <4>1 DEF HandoffOf, CoverInv
      <4>3. QED  BY <2>3, <2>4, <4>1, <4>2 DEF AttemptInv
    <3>3. QED  BY <3>1, <3>2
  <2>7. ASSUME NEW t \in HandoffStages, NEW i \in DOMAIN handoffs'[w], handoffs'[w][i].to = NextStage[t]
        PROVE  Reached(w, t)' /\ handoffs'[w][i].covers = Sources(w, t)'
    <3>1. CASE i \in DOMAIN handoffs[w]
      <4>1. handoffs[w][i].to = NextStage[t] /\ handoffs'[w][i].covers = handoffs[w][i].covers
        BY <2>1, <2>7, <3>1
      <4>2. Reached(w, t) /\ handoffs[w][i].covers = Sources(w, t)
        BY <3>1, <4>1 DEF HandoffOf, CoverInv
      <4>3. QED  BY <2>4, <4>1, <4>2
    <3>2. CASE i = n
      <4>1. NextStage[t] = NextStage[s] /\ handoffs'[w][i].covers = job[k].covers
        BY <2>1, <2>7, <3>2
      <4>2. t = s
        BY <1>3, <2>7, <4>1 DEF NextStage, HandoffStages
      <4>3. QED  BY <2>2, <2>4, <4>1, <4>2
    <3>3. QED  BY <2>1, <2>7, <3>1, <3>2
  <2>8. ASSUME NEW t \in HandoffStages, Passed(w, t)'
        PROVE  payload'[w][t] = Sources(w, t)' /\ Recorded(w, t)'
    BY <1>6, <2>3, <2>4, <2>8 DEF HandoffOf, CoverInv
  <2>9. CoverInv(w)'
    BY <2>6, <2>7, <2>8 DEF CoverInv
  <2>10. QED  BY <2>5, <2>9 DEF HandoffOf
<1>9. QED  BY <1>7, <1>8

(* A step that is about another workflow's result keeps this one's rows.   *)
LEMMA ResultOfAnother ==
  ASSUME IInv, NEW w \in Workflows, HandoffOf(w), NEW k \in Workers,
         job' = [job EXCEPT ![k] = Idle], UNCHANGED <<convs, handoffs>>,
         stage'[w] = stage[w], heard'[w] = heard[w], source'[w] = source[w],
         payload'[w] = payload[w], status'[w] = status[w]
  PROVE  HandoffOf(w)'
<1>1. \A l \in Workers : job'[l] = job[l] \/ job'[l] = Idle
  BY DEF IInv, TypeOK
<1>2. QED  BY <1>1, HandoffFrame, SameRows

(* What the workflow's next stage may be after a conversation of stage s.  *)
GoesOn(w, s) == \/ s = "assess"  /\ stage'[w] \in {"assess", "handoff2"}
                \/ s = "resolve" /\ stage'[w] = "handoff3"
                \/ stage'[w] = s /\ status'[w] = "completed"

(* An outcome is heard: the id that is kept is that of the last row, and   *)
(* no handoff that is asked for afterwards was asked for before.           *)
LEMMA HearKeepsHandoffs ==
  ASSUME IInv, NEW w \in Workflows, HandoffOf(w), NEW k \in Workers, NEW s \in ChatStages,
         HearOutcome(k, s), job[k].wf = w, GoesOn(w, s)
  PROVE  HandoffOf(w)'
<1>1. /\ k \in JobsOf(w) /\ ChatJobInv(w, job[k]) /\ job[k].step = "report" /\ job[k].stage = s
      /\ stage[w] = s /\ status[w] = "running" /\ job[k] \in Jobs
  BY AwaitedConversation
<1>2. /\ TypeOK /\ convs[w] \in Seq(Rows0) /\ heard[w] \in Seq(PipelineWords)
      /\ heard' = [heard EXCEPT ![w] = Append(heard[w], job[k].outcome)]
      /\ job[k].outcome \in PipelineWords
      /\ source' = [source EXCEPT ![w][s] = job[k].conv]
      /\ UNCHANGED <<payload, convs, handoffs>>
  BY AwaitedConversation DEF IInv, TypeOK, HearOutcome, Rows0
<1> DEFINE n == Len(heard[w]) + 1
<1>3. Len(convs[w]) = n /\ job[k].conv = n /\ convs[w][n].stage = s /\ n \in Nat \ {0}
  BY <1>1, <1>2 DEF ChatJobInv
<1>4. Len(heard'[w]) = n
  BY <1>2 DEF TypeOK
<1>5. /\ source'[w][s] = n
      /\ \A t \in ChatStages \ {s} : source'[w][t] = source[w][t]
  BY <1>2, <1>3 DEF TypeOK
<1> HIDE DEF n
<1>6. n \in Rows(w, s) /\ \A t : \A i \in Rows(w, t) : i \in Nat /\ i <= n
  BY <1>2, <1>3 DEF Rows
<1>7. \A t : Rows(w, t)' = Rows(w, t)
  BY <1>2 DEF Rows
<1>8. Len(heard[w]) <= n /\ Len(heard[w]) + 1 = n /\ Len(heard[w]) \in Nat
  BY <1>2 DEF n
<1>9. SourceInv(w)'
  <2>1. CASE s = "assess"
    BY <1>1, <1>4, <1>5, <1>6, <1>7, <2>1 DEF HandoffOf, SourceInv, Reached, GoesOn
  <2>2. CASE s = "resolve"
    <3>1. /\ source'[w]["assess"] = source[w]["assess"] /\ source[w]["assess"] \in Rows(w, "assess")
          /\ source[w]["assess"] <= Len(heard[w]) /\ \A i \in Rows(w, "assess") : i <= source[w]["assess"]
          /\ Rows(w, "final") = {}
      BY <1>1, <1>5, <2>2 DEF HandoffOf, SourceInv, ChatStages
    <3>2. Rows(w, "resolve") \subseteq {n}
      BY <1>1, <1>8, <2>2 DEF HandoffOf, SourceInv
    <3>3. Rows(w, "resolve") = {source'[w]["resolve"]} /\ source'[w]["resolve"] = n
      BY <1>5, <1>6, <2>2, <3>2
    <3>4. source[w]["assess"] <= n
      BY <1>6, <1>8, <3>1
    <3>5. stage'[w] = "handoff3" \/ (stage'[w] = "resolve" /\ status'[w] = "completed")
      BY <2>2 DEF GoesOn
    <3>6. n <= n
      BY <1>3
    <3>7. QED  BY <1>4, <1>7, <3>1, <3>3, <3>4, <3>5, <3>6 DEF SourceInv, Reached
  <2>3. CASE s = "final"
    <3>1. /\ source'[w]["assess"] = source[w]["assess"] /\ source'[w]["resolve"] = source[w]["resolve"]
          /\ stage'[w] = "final"
      BY <1>5, <2>3 DEF ChatStages, GoesOn
    <3>2. /\ source[w]["assess"] \in Rows(w, "assess") /\ source[w]["assess"] <= Len(heard[w])
          /\ \A i \in Rows(w, "assess") : i <= source[w]["assess"]
          /\ Rows(w, "resolve") = {source[w]["resolve"]} /\ source[w]["resolve"] <= Len(heard[w])
      BY <1>1, <2>3 DEF HandoffOf, SourceInv, Reached
    <3>3. source[w]["assess"] <= n /\ source[w]["resolve"] <= n
      BY <1>6, <1>8, <3>2
    <3>4. QED  BY <1>4, <1>7, <3>1, <3>2, <3>3 DEF SourceInv, Reached
  <2>4. QED  BY <2>1, <2>2, <2>3 DEF ChatStages
<1>10. \A t \in HandoffStages :
         /\ Reached(w, t) => Reached(w, t)' /\ Sources(w, t)' = Sources(w, t)
         /\ Passed(w, t)' => Passed(w, t)
  <2>1. CASE s = "assess"
    BY <1>1, <2>1 DEF GoesOn, Reached, Passed, HandoffStages
  <2>2. CASE s = "resolve"
    BY <1>1, <1>5, <2>2 DEF GoesOn, Reached, Passed, HandoffStages, Sources, ChatStages
  <2>3. CASE s = "final"
    BY <1>1, <1>5, <2>3 DEF GoesOn, Reached, Passed, HandoffStages, Sources, ChatStages
  <2>4. QED  BY <2>1, <2>2, <2>3 DEF ChatStages
<1>11. \A t : Recorded(w, t)' = Recorded(w, t)
  BY <1>2 DEF Recorded
<1>12. ASSUME NEW t \in HandoffStages, Passed(w, t) PROVE Reached(w, t)
  BY <1>12 DEF Passed, Reached
<1>13. ASSUME NEW l \in JobsOf(w)', job'[l].stage \in HandoffStages PROVE AttemptInv(w, job[l])'
  <2>1. l \in JobsOf(w) /\ job'[l] = job[l]
    BY <1>2, <1>13 DEF JobsOf, HearOutcome, TypeOK
  <2>2. AttemptInv(w, job[l])
    BY <1>13, <2>1 DEF HandoffOf, CoverInv
  <2>3. QED  BY <1>10, <1>11, <1>13, <2>1, <2>2 DEF AttemptInv
<1>14. CoverInv(w)'
  BY <1>2, <1>10, <1>11, <1>12, <1>13 DEF HandoffOf, CoverInv
<1>15. QED  BY <1>9, <1>14 DEF HandoffOf

(* A conversation's result is heard, or is another workflow's.             *)
LEMMA DoneKeepsHandoffs ==
  ASSUME IInv, NEW w \in Workflows, HandoffOf(w), NEW k \in Workers,
         AssessmentDone(k) \/ ResolutionDone(k) \/ FinalNoticeDone(k)
  PROVE  HandoffOf(w)'
<1>1. PICK s \in ChatStages :
        /\ HearOutcome(k, s)
        /\ s = "assess" => AssessmentDone(k)
        /\ s = "resolve" => ResolutionDone(k)
        /\ s = "final" => FinalNoticeDone(k)
  BY DEF AssessmentDone, ResolutionDone, FinalNoticeDone, ChatStages
<1>2. PICK v \in Workflows : v = job[k].wf /\ stage[v] = s
  BY <1>1, AwaitedConversation
<1>3. TypeOK
  BY DEF IInv
<1>4. CASE v # w
  <2>1. stage'[w] = stage[w] /\ status'[w] = status[w]
    <3>1. (\E next : Proceed(v, next)) \/ \E r : Return(v, r)
      BY <1>2 DEF AssessmentDone, ResolutionDone, FinalNoticeDone, AfterAssessment, AfterResolution
    <3>2. QED  BY <1>3, <1>4, <3>1 DEF Proceed, Return, TypeOK
  <2>2. heard'[w] = heard[w] /\ source'[w] = source[w]
    BY <1>1, <1>2, <1>3, <1>4 DEF HearOutcome, TypeOK
  <2>3. QED  BY <1>1, <2>1, <2>2, ResultOfAnother DEF HearOutcome
<1>5. CASE v = w
  <2>1. GoesOn(w, s)
    <3>1. \A next \in Stages : Proceed(w, next) => stage'[w] = next
      BY <1>3 DEF Proceed, TypeOK
    <3>2. \A r \in Results : Return(w, r) => stage'[w] = stage[w] /\ status'[w] = "completed"
      BY <1>3 DEF Return, TypeOK
    <3>3. CASE s = "assess"
      <4>1. Proceed(w, "assess") \/ Proceed(w, "handoff2") \/ Return(w, "opt_out")
        BY <1>1, <1>2, <1>5, <3>3 DEF AssessmentDone, AfterAssessment
      <4>2. QED  BY <1>2, <1>5, <3>1, <3>2, <3>3, <4>1 DEF GoesOn, Stages, ChatStages, HandoffStages, Results
    <3>4. CASE s = "resolve"
      <4>1. Proceed(w, "handoff3") \/ Return(w, "resolved_at_resolution") \/ Return(w, "opt_out")
        BY <1>1, <1>2, <1>5, <3>4 DEF ResolutionDone, AfterResolution
      <4>2. QED  BY <1>2, <1>5, <3>1, <3>2, <3>4, <4>1 DEF GoesOn, Stages, ChatStages, HandoffStages, Results
    <3>5. CASE s = "final"
      <4>1. \E r \in Results : Return(w, r)
        BY <1>1, <1>2, <1>5, <3>5 DEF FinalNoticeDone, FinalResult, Results
      <4>2. QED  BY <1>2, <1>5, <3>2, <3>5, <4>1 DEF GoesOn
    <3>6. QED  BY <3>3, <3>4, <3>5 DEF ChatStages
  <2>2. QED  BY <1>1, <1>2, <1>5, <2>1, HearKeepsHandoffs
<1>6. QED  BY <1>4, <1>5

(* The workflow goes on with what its attempt had, which is on file.       *)
LEMMA ResultKeepsHandoffs ==
  ASSUME IInv, NEW w \in Workflows, HandoffOf(w), NEW k \in Workers, HandoffDone(k)
  PROVE  HandoffOf(w)'
<1>1. PICK v \in Workflows :
           /\ v = job[k].wf /\ k \in JobsOf(v) /\ WorkflowInv(v) /\ job[k] \in Jobs
           /\ job[k].token = task[v].token
           /\ status[v] = "running" /\ stage[v] \in HandoffStages
           /\ Proceed(v, NextStage[stage[v]])
  BY AwaitedHandoff
<1>2. /\ TypeOK /\ job[k].step = "report"
      /\ payload' = [payload EXCEPT ![v][stage[v]] = job[k].covers]
      /\ job' = [job EXCEPT ![k] = Idle]
      /\ UNCHANGED <<heard, source, convs, handoffs>>
  BY <1>1 DEF HandoffDone, IInv
<1>3. UNCHANGED status
  BY <1>1 DEF Proceed
<1>4. CASE v # w
  <2>1. stage'[w] = stage[w] /\ payload'[w] = payload[w]
    BY <1>1, <1>2, <1>4 DEF Proceed, TypeOK
  <2>2. QED  BY <1>2, <1>3, <2>1, ResultOfAnother
<1>5. CASE v = w
  <2>1. PICK s \in HandoffStages : s = stage[w]
    BY <1>1, <1>5
  <2>2. job[k].stage = s /\ AttemptInv(w, job[k])
    BY <1>1, <1>5, <2>1 DEF WorkflowInv, JobInv, HandoffOf, CoverInv
  <2>3. stage'[w] = NextStage[s]
    BY <1>1, <1>2, <1>5, <2>1 DEF Proceed, TypeOK
  <2>4. /\ payload'[w][s] = Sources(w, s) /\ Recorded(w, s)
        /\ \A t \in HandoffStages \ {s} : payload'[w][t] = payload[w][t]
    BY <1>2, <1>5, <2>1, <2>2 DEF TypeOK, AttemptInv
  <2>5. \A t : Rows(w, t)' = Rows(w, t) /\ Sources(w, t)' = Sources(w, t) /\ Recorded(w, t)' = Recorded(w, t)
    BY <1>2 DEF Rows, Sources, Recorded
  <2>6. SourceInv(w)'
    BY <1>2, <2>1, <2>3, <2>5 DEF HandoffOf, SourceInv, Reached, NextStage, HandoffStages
  <2>7. \A t \in HandoffStages :
          /\ Reached(w, t) => Reached(w, t)'
          /\ Passed(w, t)' => Passed(w, t) \/ t = s
    BY <2>1, <2>3 DEF Reached, Passed, NextStage, HandoffStages
  <2>8. ASSUME NEW l \in JobsOf(w)', job'[l].stage \in HandoffStages PROVE AttemptInv(w, job[l])'
    <3>1. l \in JobsOf(w) /\ job'[l] = job[l]
      BY <1>2, <2>8 DEF JobsOf, TypeOK
    <3>2. AttemptInv(w, job[l])
      BY <2>8, <3>1 DEF HandoffOf, CoverInv
    <3>3. QED  BY <2>5, <2>7, <2>8, <3>1, <3>2 DEF AttemptInv
  <2>9. ASSUME NEW t \in HandoffStages, Passed(w, t)' PROVE payload'[w][t] = Sources(w, t) /\ Recorded(w, t)
    <3>1. CASE t = s
      BY <2>4, <3>1
    <3>2. CASE t # s
      BY <2>4, <2>7, <2>9, <3>2 DEF HandoffOf, CoverInv
    <3>3. QED  BY <3>1, <3>2
  <2>10. CoverInv(w)'
    BY <1>2, <2>5, <2>7, <2>8, <2>9 DEF HandoffOf, CoverInv
  <2>11. QED  BY <2>6, <2>10 DEF HandoffOf
<1>6. QED  BY <1>4, <1>5

-----------------------------------------------------------------------------
(* One step of the proof per kind of step.                                 *)
LEMMA HandoffInvStep == ~ VoiceMode /\ IInv /\ HandoffInv /\ [Next]_vars => HandoffInv'
<1> SUFFICES ASSUME ~ VoiceMode, IInv, [Next]_vars, NEW w \in Workflows, HandoffOf(w)
             PROVE  HandoffOf(w)'
  BY DEF HandoffInv
<1>0. TypeOK
  BY DEF IInv
<1>1. ASSUME NEW v \in Workflows, Start(v) PROVE HandoffOf(w)'
  BY <1>0, <1>1, AttemptsKeepHandoffs DEF Start, TypeOK
<1>f. ASSUME NEW v \in Workflows, task[v].state = "started", AttemptFails(v)
      PROVE  status[w] = "completed" => status'[w] = "completed"
  <2>1. status[v] = "running"
    BY <1>f DEF IInv, WorkflowInv, TaskInv
  <2>2. QED  BY <1>0, <1>f, <2>1 DEF AttemptFails, TypeOK
<1>2. ASSUME NEW v \in Workflows, Timeout(v) PROVE HandoffOf(w)'
  BY <1>2, <1>f, AttemptsKeepHandoffs DEF Timeout
<1>3. ASSUME NEW k \in Workers, Raise(k) PROVE HandoffOf(w)'
  <2>1. job[k] # Idle
    BY <1>3 DEF Raise, Idle
  <2>2. job[k].wf \in Workflows
    BY <2>1, BusyWorker
  <2>3. status[w] = "completed" => status'[w] = "completed"
    BY <1>3, <1>f, <2>2 DEF Raise, Awaited
  <2>4. QED  BY <1>3, <2>3, AttemptsKeepHandoffs DEF Raise
<1>4. ASSUME NEW k \in Workers, Crash(k) \/ DropResult(k) PROVE HandoffOf(w)'
  BY <1>4, AttemptsKeepHandoffs DEF Crash, DropResult, wfVars
<1>5. ASSUME NEW k \in Workers, NEW v \in Workflows, Begin(k, v) PROVE HandoffOf(w)'
  <2>1. UNCHANGED <<stage, status, heard, source, payload, convs, handoffs>>
    BY <1>5 DEF Begin, wfVars
  <2>2. QED  BY <1>5, <2>1, AttemptsKeepHandoffs
<1>6. ASSUME NEW k \in Workers, PlaceCall(k) \/ CreatePlaceholder(k) PROVE FALSE
  <2>1. ~ PlaceCall(k)
    BY DEF PlaceCall, OverVoice
  <2>2. job[k].step = "placed"
    BY <1>6, <2>1 DEF CreatePlaceholder
  <2>3. job[k] # Idle
    BY <2>2 DEF Idle
  <2>4. JobInv(job[k].wf, job[k]) /\ job[k] \in Jobs
    BY <2>3, BusyWorker
  <2>5. QED  BY <2>2, <2>4 DEF JobInv, ChatJobInv, Voiced, Jobs, Stages
<1>7. ASSUME NEW k \in Workers, Work(k) PROVE HandoffOf(w)'
  BY <1>4, <1>6, <1>7, InsertKeepsHandoffs, EndKeepsHandoffs, LoadKeepsHandoffs, RecordKeepsHandoffs,
     DoneKeepsHandoffs, ResultKeepsHandoffs DEF Work
<1>8. CASE UNCHANGED <<wfVars, task, job, convs, handoffs>>
  BY <1>8, AttemptsKeepHandoffs DEF wfVars
<1>9. ASSUME NEW c, NEW o, CallEnds(c, o) \/ WebhookDelivers(c, o) PROVE HandoffOf(w)'
  BY <1>8, <1>9 DEF CallEnds, WebhookDelivers
<1>10. CASE UNCHANGED vars
  BY <1>8, <1>10 DEF vars, wfVars
<1>11. QED  BY <1>1, <1>2, <1>3, <1>4, <1>5, <1>7, <1>9, <1>10 DEF Next, Over

(* A stage that has a row was reached through the handoff that is for it.  *)
LEMMA HandoffInvCovers == IInv /\ HandoffInv => HandoffComplete
<1> SUFFICES ASSUME IInv, NEW w \in Workflows, HandoffOf(w), NEW s \in HandoffStages, Rows(w, NextStage[s]) # {}
             PROVE  /\ payload[w][s] = HandedOn(w, NextStage[s])
                    /\ \E i \in DOMAIN handoffs[w] : handoffs[w][i].to = NextStage[s]
                    /\ \A i \in DOMAIN handoffs[w] :
                         handoffs[w][i].to = NextStage[s] => handoffs[w][i].covers = payload[w][s]
  BY DEF HandoffInv, HandoffComplete, HandoffStages
<1>0. stage[w] \in Stages /\ convs[w] \in Seq(Rows0)
  BY DEF IInv, TypeOK, Rows0
<1>1. Passed(w, s)
  BY <1>0 DEF Stages, ChatStages, HandoffOf, SourceInv, Passed, NextStage, HandoffStages
<1>2. payload[w][s] = Sources(w, s) /\ Recorded(w, s)
  BY <1>1 DEF HandoffOf, CoverInv
<1>3. Sources(w, s) = HandedOn(w, NextStage[s])
  <2>1. /\ source[w]["assess"] \in Rows(w, "assess")
        /\ \A i \in Rows(w, "assess") : i <= source[w]["assess"]
        /\ s = "handoff3" => Rows(w, "resolve") = {source[w]["resolve"]}
    BY <1>1 DEF HandoffOf, SourceInv, Passed, Reached, HandoffStages
  <2>2. \A i \in Rows(w, "assess") : i \in Nat
    BY <1>0 DEF Rows
  <2>3. {i \in Rows(w, "assess") : \A j \in Rows(w, "assess") : j <= i} = {source[w]["assess"]}
    BY <2>1, <2>2
  <2>4. QED  BY <2>1, <2>3 DEF Sources, HandedOn, NextStage, HandoffStages
<1>4. QED  BY <1>2, <1>3 DEF HandoffOf, CoverInv, Recorded

(* When every conversation is a chat: the agent of a later stage starts    *)
(* with a summary of the last assessment and, for the final notice, of the *)
(* resolution, both held to their end, whatever workers crashed, which     *)
(* attempts were given up, and however many rows they left. The            *)
(* assessments before the last are summarised for nobody.                  *)
THEOREM HandoffsAreComplete ==
  ASSUME ~ VoiceMode
  PROVE  Spec => []HandoffComplete
<1>1. Init => HandoffInv
  <2> SUFFICES ASSUME Init, NEW w \in Workflows PROVE HandoffOf(w)
    BY DEF HandoffInv
  <2>1. convs[w] = <<>> /\ handoffs[w] = <<>> /\ stage[w] = "assess" /\ JobsOf(w) = {}
    BY DEF Init, JobsOf
  <2>2. \A s : Rows(w, s) = {}
    BY <2>1 DEF Rows
  <2>3. QED  BY <2>1, <2>2 DEF HandoffOf, SourceInv, CoverInv, Reached, Passed, HandoffStages
<1>2. IInv /\ HandoffInv /\ [Next]_vars => HandoffInv'
  BY HandoffInvStep
<1>3. QED  BY <1>1, <1>2, HandoffInvCovers, Invariant, PTL DEF Spec
=============================================================================
