---------------------------- MODULE WorkflowEngine ----------------------------
(***************************************************************************)
(* One run of a workflow: startRun and resumeStep of                       *)
(* modules/workflows/workflows.service.ts, and advance and resumeStep of   *)
(* engine/workflow-engine.service.ts, called by the workers of the         *)
(* `workflows` queue and by requests.                                      *)
(*                                                                         *)
(* advance loads the run, then its step rows, and walks the workflow's     *)
(* steps on that snapshot; every upsert and update is a write of its own,  *)
(* and none is conditional on what the row holds by then.                  *)
(*                                                                         *)
(* The context is the set of steps whose output it holds.  A condition     *)
(* asks for the output of an earlier step, present or absent.              *)
(***************************************************************************)
EXTENDS Naturals

CONSTANTS
  N,           \* the number of steps of the workflow
  Workers,     \* queue workers and request handlers
  MaxResumes,  \* bound: how often a client resumes a step
  MayFail,     \* whether a call may fail or a process crash
  MayStray     \* whether a client may resume a step that does not wait

ASSUME NAssumption == N \in Nat
ASSUME MaxResumesAssumption == MaxResumes \in Nat
ASSUME SwitchesAssumption == MayFail \in BOOLEAN /\ MayStray \in BOOLEAN

Steps == 1..N

VARIABLES
  auto,        \* the steps of an AUTO_STEP_TYPES type
  condition,   \* workflow_steps.condition
  status,      \* workflow_runs.status, NONE before startRun
  context,     \* workflow_runs.context: the steps whose output is in it
  stepStatus,  \* workflow_run_steps.status, NONE without a row
  jobs,        \* advance jobs in the queue
  resumes,     \* how often a step was resumed so far
  req,         \* what each worker is doing and what it remembers
  produced,    \* history: the steps that have given an output
  reran,       \* history: terminal steps that advance processed again
  mishaps      \* history: what of Mishaps has happened

template == <<auto, condition>>
history == <<produced, reran>>
vars == <<auto, condition, status, context, stepStatus, jobs, resumes, req,
          produced, reran, mishaps>>

\* The run statuses and step statuses the engine ever writes.
RunStatus == {"PENDING", "RUNNING", "WAITING", "COMPLETED"}
RunStepStatus == {"WAITING", "COMPLETED", "SKIPPED"}
NONE == "NONE"

TERMINAL_RUN_STEP == {"COMPLETED", "SKIPPED"}

\* on = 0: no condition; else whether the output of step `on` must be there.
Condition == [on : 0..N, present : BOOLEAN]

(***************************************************************************)
(* overlap: advance or resumeStep began while another was at work.         *)
(* stray: a step was resumed that did not wait.  failure: a call failed.   *)
(***************************************************************************)
Mishaps == {"overlap", "stray", "failure"}

Places == {"idle", "enqueue", "load", "loadSteps", "begin", "step", "context",
           "park", "resume", "reopen"}

\* A request: what runs, how far, its position in the loop, the step it
\* resumes, and what it loaded: the run's status, the context, the step rows.
Request == [op : {"none", "start", "advance", "resume"}, at : Places,
            pos : 1..(N + 1), step : 0..N, run : RunStatus,
            ctx : SUBSET Steps, output : SUBSET Steps,
            seen : [Steps -> RunStepStatus \cup {NONE}]]

NoRows == [i \in Steps |-> NONE]

Idle == [op |-> "none", at |-> "idle", pos |-> 1, step |-> 0,
         run |-> "PENDING", ctx |-> {}, output |-> {}, seen |-> NoRows]

TypeOK ==
  /\ auto \in SUBSET Steps
  /\ condition \in [Steps -> Condition]
  /\ status \in RunStatus \cup {NONE}
  /\ context \in SUBSET Steps
  /\ stepStatus \in [Steps -> RunStepStatus \cup {NONE}]
  /\ jobs \in Nat
  /\ resumes \in 0..MaxResumes
  /\ req \in [Workers -> Request]
  /\ produced \in SUBSET Steps
  /\ reran \in SUBSET Steps
  /\ mishaps \in SUBSET Mishaps

Init ==
  /\ auto \in SUBSET Steps
  /\ condition \in [Steps -> Condition]
  /\ \A i \in Steps : condition[i].on < i
  /\ \A i \in Steps : condition[i].on = 0 => condition[i].present
  /\ status = NONE
  /\ context = {}
  /\ stepStatus = NoRows
  /\ jobs = 0
  /\ resumes = 0
  /\ req = [w \in Workers |-> Idle]
  /\ produced = {}
  /\ reran = {}
  /\ mishaps = {}

-----------------------------------------------------------------------------

ConditionMet(c, ctx) == c.on # 0 => (c.on \in ctx) = c.present

Busy(w) == req[w].at \notin {"idle", "enqueue"}

Goto(w, r) == req' = [req EXCEPT ![w] = r]

\* What beginning to work on the run at the side of another worker is.
Overlapped(w) == IF \E v \in Workers \ {w} : Busy(v) THEN {"overlap"} ELSE {}

\* advance returns: to the queue's worker, or to resumeStep, which then adds
\* a job.
Return(r) == IF r.op = "resume" THEN [Idle EXCEPT !.op = "resume", !.at = "enqueue"]
             ELSE Idle

\* The loop's next iteration.
NextStep(r) == [r EXCEPT !.at = "step", !.pos = r.pos + 1]

\* Upsert the row of the step at hand.
Upsert(w, st) ==
  LET i == req[w].pos
  IN /\ stepStatus' = [stepStatus EXCEPT ![i] = st]
     /\ reran' = IF stepStatus[i] \in TERMINAL_RUN_STEP THEN reran \cup {i}
                 ELSE reran

-----------------------------------------------------------------------------
(* startRun.                                                               *)

StartRun(w) ==
  /\ req[w] = Idle
  /\ status = NONE
  /\ status' = "PENDING"
  /\ Goto(w, [Idle EXCEPT !.op = "start", !.at = "enqueue"])
  /\ UNCHANGED <<template, context, stepStatus, jobs, resumes, history, mishaps>>

\* Planted bug: nothing is added to the queue.
MutEnqueue(w) ==
  /\ req[w].at = "enqueue"
  /\ Goto(w, Idle)
  /\ UNCHANGED <<template, status, context, stepStatus, jobs, resumes, history,
                 mishaps>>

\* queue.add, after the run was created or resumed.
Enqueue(w) ==
  /\ req[w].at = "enqueue"
  /\ jobs' = jobs + 1
  /\ Goto(w, Idle)
  /\ UNCHANGED <<template, status, context, stepStatus, resumes, history, mishaps>>

-----------------------------------------------------------------------------
(* advance.                                                                *)

TakeJob(w) ==
  /\ req[w] = Idle
  /\ jobs > 0
  /\ jobs' = jobs - 1
  /\ mishaps' = mishaps \cup Overlapped(w)
  /\ Goto(w, [Idle EXCEPT !.op = "advance", !.at = "load"])
  /\ UNCHANGED <<template, status, context, stepStatus, resumes, history>>

LoadRun(w) ==
  /\ req[w].at = "load"
  /\ Goto(w, [req[w] EXCEPT !.at = "loadSteps", !.run = status, !.ctx = context])
  /\ UNCHANGED <<template, status, context, stepStatus, jobs, resumes, history,
                 mishaps>>

\* Planted bug: a run that is COMPLETED is walked again.
MutLoadSteps(w) ==
  LET r == [req[w] EXCEPT !.seen = stepStatus]
      waits == \E i \in Steps : stepStatus[i] = "WAITING"
  IN /\ r.at = "loadSteps"
     /\ Goto(w, IF waits THEN [r EXCEPT !.at = "park"] ELSE [r EXCEPT !.at = "begin"])
     /\ UNCHANGED <<template, status, context, stepStatus, jobs, resumes, history,
                    mishaps>>

\* The include's second SELECT.  A terminal run is left alone, a waiting step
\* parks the run, a PENDING run is begun; else the loop starts.
LoadSteps(w) ==
  LET r == [req[w] EXCEPT !.seen = stepStatus]
      waits == \E i \in Steps : stepStatus[i] = "WAITING"
  IN /\ r.at = "loadSteps"
     /\ \/ r.run = "COMPLETED" /\ Goto(w, Return(r))
        \/ r.run # "COMPLETED" /\ waits /\ Goto(w, [r EXCEPT !.at = "park"])
        \/ r.run = "PENDING" /\ ~waits /\ Goto(w, [r EXCEPT !.at = "begin"])
        \/ r.run \in {"RUNNING", "WAITING"} /\ ~waits
             /\ Goto(w, [r EXCEPT !.at = "step", !.pos = 1])
     /\ UNCHANGED <<template, status, context, stepStatus, jobs, resumes, history,
                    mishaps>>

Begin(w) ==
  /\ req[w].at = "begin"
  /\ status' = "RUNNING"
  /\ Goto(w, [req[w] EXCEPT !.at = "step", !.pos = 1])
  /\ UNCHANGED <<template, context, stepStatus, jobs, resumes, history, mishaps>>

\* Planted bug: only COMPLETED steps count as processed.
MutProcessed(r) == r.seen[r.pos] = "COMPLETED"

\* The loop, at a step: has the snapshot of the rows that it is processed?
Processed(r) == r.seen[r.pos] \in TERMINAL_RUN_STEP

AtStep(w) == req[w].at = "step" /\ req[w].pos \in Steps
Due(w) == AtStep(w) /\ ~Processed(req[w])
Applies(w) == ConditionMet(condition[req[w].pos], req[w].ctx)

PassStep(w) ==
  /\ AtStep(w)
  /\ Processed(req[w])
  /\ Goto(w, NextStep(req[w]))
  /\ UNCHANGED <<template, status, context, stepStatus, jobs, resumes, history,
                 mishaps>>

\* Planted bug: a skipped step leaves no row.
MutSkipStep(w) ==
  /\ Due(w)
  /\ ~Applies(w)
  /\ Goto(w, NextStep(req[w]))
  /\ UNCHANGED <<template, status, context, stepStatus, jobs, resumes, history,
                 mishaps>>

SkipStep(w) ==
  /\ Due(w)
  /\ ~Applies(w)
  /\ Upsert(w, "SKIPPED")
  /\ Goto(w, NextStep(req[w]))
  /\ UNCHANGED <<template, status, context, jobs, resumes, produced, mishaps>>

\* A human or timed step waits to be resumed, and the loop ends.
ParkStep(w) ==
  /\ Due(w)
  /\ Applies(w)
  /\ req[w].pos \notin auto
  /\ Upsert(w, "WAITING")
  /\ Goto(w, [req[w] EXCEPT !.at = "park"])
  /\ UNCHANGED <<template, status, context, jobs, resumes, produced, mishaps>>

Park(w) ==
  /\ req[w].at = "park"
  /\ status' = "WAITING"
  /\ Goto(w, Return(req[w]))
  /\ UNCHANGED <<template, context, stepStatus, jobs, resumes, history, mishaps>>

\* Planted bug: the output is stored with the step, not in the context.
MutRunStep(w) ==
  LET r == req[w]
  IN /\ Due(w)
     /\ Applies(w)
     /\ r.pos \in auto
     /\ Upsert(w, "COMPLETED")
     /\ produced' = produced \cup {r.pos}
     /\ Goto(w, [r EXCEPT !.at = "context"])
     /\ UNCHANGED <<template, status, context, jobs, resumes, mishaps>>

\* An automatic step is executed, its row written ...
RunStep(w) ==
  LET r == req[w]
  IN /\ Due(w)
     /\ Applies(w)
     /\ r.pos \in auto
     /\ Upsert(w, "COMPLETED")
     /\ produced' = produced \cup {r.pos}
     /\ Goto(w, [r EXCEPT !.at = "context", !.ctx = r.ctx \cup {r.pos}])
     /\ UNCHANGED <<template, status, context, jobs, resumes, mishaps>>

\* ... and, by another write, the whole context as this advance knows it.
SaveContext(w) ==
  /\ req[w].at = "context"
  /\ context' = req[w].ctx
  /\ Goto(w, NextStep(req[w]))
  /\ UNCHANGED <<template, status, stepStatus, jobs, resumes, history, mishaps>>

\* Planted bug: the loop ends before the last step.
MutCompleteRun(w) ==
  /\ req[w].at = "step"
  /\ req[w].pos = N
  /\ status' = "COMPLETED"
  /\ context' = req[w].ctx
  /\ Goto(w, Return(req[w]))
  /\ UNCHANGED <<template, stepStatus, jobs, resumes, history, mishaps>>

\* No step is left.
CompleteRun(w) ==
  /\ req[w].at = "step"
  /\ req[w].pos = N + 1
  /\ status' = "COMPLETED"
  /\ context' = req[w].ctx
  /\ Goto(w, Return(req[w]))
  /\ UNCHANGED <<template, stepStatus, jobs, resumes, history, mishaps>>

-----------------------------------------------------------------------------
(* resumeStep.                                                             *)

\* The run is loaded.  Nothing asks whether the step waits or the run is over.
Resume(w, i, output) ==
  /\ req[w] = Idle
  /\ status # NONE
  /\ resumes < MaxResumes
  /\ MayStray \/ stepStatus[i] = "WAITING"
  /\ resumes' = resumes + 1
  /\ mishaps' = mishaps \cup Overlapped(w)
                  \cup (IF stepStatus[i] = "WAITING" THEN {} ELSE {"stray"})
  /\ Goto(w, [Idle EXCEPT !.op = "resume", !.at = "resume", !.step = i,
                          !.output = output, !.ctx = context \cup output])
  /\ UNCHANGED <<template, status, context, stepStatus, jobs, history>>

CompleteStep(w) ==
  LET r == req[w]
  IN /\ r.at = "resume"
     /\ stepStatus' = [stepStatus EXCEPT ![r.step] = "COMPLETED"]
     /\ produced' = produced \cup r.output
     /\ Goto(w, [r EXCEPT !.at = "reopen"])
     /\ UNCHANGED <<template, status, context, jobs, resumes, reran, mishaps>>

\* RUNNING and the merged context; then advance is called.
Reopen(w) ==
  /\ req[w].at = "reopen"
  /\ status' = "RUNNING"
  /\ context' = req[w].ctx
  /\ Goto(w, [req[w] EXCEPT !.at = "load"])
  /\ UNCHANGED <<template, stepStatus, jobs, resumes, history, mishaps>>

-----------------------------------------------------------------------------

\* A call fails or the process dies.  BullMQ gives the job of a worker that
\* died back to the queue; a job that failed is not tried again.
Fail(w) ==
  /\ MayFail
  /\ req[w] # Idle
  /\ \/ UNCHANGED jobs
     \/ req[w].op = "advance" /\ jobs' = jobs + 1
  /\ mishaps' = mishaps \cup {"failure"}
  /\ Goto(w, Idle)
  /\ UNCHANGED <<template, status, context, stepStatus, resumes, history>>

Continue(w) ==
  \/ Enqueue(w)
  \/ LoadRun(w)
  \/ LoadSteps(w)
  \/ Begin(w)
  \/ PassStep(w)
  \/ SkipStep(w)
  \/ ParkStep(w)
  \/ Park(w)
  \/ RunStep(w)
  \/ SaveContext(w)
  \/ CompleteRun(w)
  \/ CompleteStep(w)
  \/ Reopen(w)

Next ==
  \E w \in Workers :
    \/ StartRun(w)
    \/ TakeJob(w)
    \/ \E i \in Steps : \E output \in {{}, {i}} : Resume(w, i, output)
    \/ Continue(w)
    \/ Fail(w)

Spec == Init /\ [][Next]_vars

\* A handler that can go on does, and a job is taken by a worker that is free
\* often enough.  No client is bound to resume anything.
FairSpec ==
  Spec /\ \A w \in Workers : WF_vars(Continue(w)) /\ SF_vars(TakeJob(w))

-----------------------------------------------------------------------------
(* What the engine promises, however calls overlap and fail.               *)

\* Steps are taken up in position order, on however many snapshots advance
\* works at once, as long as only waiting steps are resumed.
StepsInOrder ==
  "stray" \notin mishaps =>
    \A i, j \in Steps : i < j /\ stepStatus[j] # NONE => stepStatus[i] # NONE

\* A run that was completed has a row for every step: none was passed over.
EveryStepDecided ==
  status = "COMPLETED" => \A i \in Steps : stepStatus[i] # NONE

(***************************************************************************)
(* What it promises to a run that is worked on by one call at a time.      *)
(***************************************************************************)

\* "Already-terminal run steps are never re-run", after failures too.
NeverRerun == reran = {}
NeverRerunAlone == "overlap" \notin mishaps => NeverRerun

\* A COMPLETED run stays COMPLETED and keeps its context, whatever jobs are
\* left in the queue.
CompletedStays ==
  [][ status = "COMPLETED" /\ mishaps' \cap {"overlap", "stray"} = {} =>
        status' = "COMPLETED" /\ context' = context ]_vars

\* A branch is taken exactly if the outputs given by the steps before it
\* satisfy its condition: no output is lost on the way to a later condition.
BranchesFollowOutputs ==
  mishaps = {} =>
    \A i \in Steps :
      LET before == produced \cap 1..(i - 1)
      IN /\ stepStatus[i] = "SKIPPED" => ~ConditionMet(condition[i], before)
         /\ stepStatus[i] \in {"WAITING", "COMPLETED"} =>
              ConditionMet(condition[i], before)

\* A run that was started is driven to its end, or to a step that waits.
Settled ==
  \/ status = "COMPLETED"
  \/ status = "WAITING" /\ \E i \in Steps : stepStatus[i] = "WAITING"
RunSettles == status \in {"PENDING", "RUNNING"} ~> (Settled \/ mishaps # {})

(***************************************************************************)
(* The inductive invariant behind the first two: rows are never deleted,   *)
(* so the snapshot and the loop's position only say too little; and nobody *)
(* works on a run that has not been created.                               *)
(***************************************************************************)

JobsAreOfARun == jobs > 0 => status # NONE

MemoryOK(r) ==
  /\ r.op # "none" \/ r.at # "idle" => status # NONE
  /\ \A i \in Steps : r.seen[i] # NONE => stepStatus[i] # NONE
  /\ r.at \in {"step", "context"} =>
       \A i \in Steps : i < r.pos => stepStatus[i] # NONE
  /\ r.at = "context" => r.pos \in Steps /\ stepStatus[r.pos] # NONE
  /\ r.at = "resume" => r.step \in Steps
  /\ r.at = "resume" /\ "stray" \notin mishaps => stepStatus[r.step] # NONE

IndInv ==
  /\ TypeOK
  /\ JobsAreOfARun
  /\ \A w \in Workers : MemoryOK(req[w])
  /\ StepsInOrder
  /\ EveryStepDecided

(***************************************************************************)
(* And behind the others.  Where calls do not overlap (Alone), the one at  *)
(* work knows the rows ahead of it as they are.  Where moreover only       *)
(* waiting steps are resumed (Orderly), a waiting step is the last one, and *)
(* nobody works in a COMPLETED run.  Where besides nothing fails, the      *)
(* context holds every output given, but for the writes yet to come.       *)
(***************************************************************************)

Alone == "overlap" \notin mishaps
Orderly == Alone /\ "stray" \notin mishaps

KnowsRowsFrom(k, r) == \A i \in Steps : i >= k => r.seen[i] = stepStatus[i]

SnapshotOK(r) ==
  /\ r.at = "loadSteps" => r.run = status
  /\ r.at = "begin" => KnowsRowsFrom(1, r)
  /\ r.at = "step" => KnowsRowsFrom(r.pos, r)
  /\ r.at = "context" => KnowsRowsFrom(r.pos + 1, r)

OneIsBusy == \A v, w \in Workers : Busy(v) /\ Busy(w) => v = w

AloneOK == Alone => NeverRerun /\ OneIsBusy /\ \A w \in Workers : SnapshotOK(req[w])

NoneWaits == \A i \in Steps : stepStatus[i] # "WAITING"

RowsOrderly ==
  /\ status = "COMPLETED" => NoneWaits
  /\ \A i, j \in Steps : stepStatus[i] = "WAITING" /\ i < j => stepStatus[j] = NONE

ProgressOK(r) ==
  /\ r.at \in {"begin", "step", "context", "park", "resume", "reopen"} =>
       status # "COMPLETED"
  /\ r.at \in {"begin", "step", "context"} => NoneWaits
  /\ r.at = "resume" => stepStatus[r.step] = "WAITING"

OrderlyOK == Orderly => RowsOrderly /\ \A w \in Workers : ProgressOK(req[w])

ContextOK(r) ==
  /\ r.at \in {"loadSteps", "begin", "step", "context", "reopen"} => r.ctx = produced
  /\ r.at = "resume" => r.ctx = produced \cup r.output /\ r.output \subseteq {r.step}

ContextIsSaved ==
  context = produced \/ \E w \in Workers : req[w].at \in {"context", "reopen"}

ConditionsLookBack == \A i \in Steps : condition[i].on < i

ExactOK ==
  mishaps = {} => ContextIsSaved /\ \A w \in Workers : ContextOK(req[w])

SoloInv ==
  /\ ConditionsLookBack
  /\ AloneOK
  /\ OrderlyOK
  /\ ExactOK
  /\ BranchesFollowOutputs
=============================================================================
