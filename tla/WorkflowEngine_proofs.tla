------------------------- MODULE WorkflowEngine_proofs -------------------------
(***************************************************************************)
(* Proofs that the steps of a run are taken up in order, and that a        *)
(* completed run has decided every one, for every workflow, any number of  *)
(* workers and of resumptions, and all failures.                           *)
(*                                                                         *)
(* Rows are never deleted (Mono).  So a snapshot may say too little of     *)
(* which steps have a row, and never too much, and what the loop has left  *)
(* behind stays decided (OthersKeep).                                      *)
(***************************************************************************)
EXTENDS WorkflowEngine, TLAPS

Mono ==
  /\ UNCHANGED template
  /\ mishaps \subseteq mishaps'
  /\ status # NONE => status' # NONE
  /\ \A i \in Steps : stepStatus[i] # NONE => stepStatus'[i] # NONE

LEMMA OthersKeep ==
  ASSUME IndInv, Mono, NEW v \in Workers, req'[v] = req[v]
  PROVE  MemoryOK(req[v])'
<1>1. MemoryOK(req[v]) /\ req[v] \in Request
  BY DEF IndInv, TypeOK
<1>2. QED
  BY <1>1 DEF MemoryOK, Mono

\* An action of worker w keeps IndInv if it keeps the types and both
\* properties, and leaves w with a snapshot that does not say too much.
LEMMA Assemble ==
  ASSUME IndInv, NEW w \in Workers, Mono,
         \A v \in Workers \ {w} : req'[v] = req[v],
         TypeOK', JobsAreOfARun', StepsInOrder', EveryStepDecided', MemoryOK(req[w])'
  PROVE  IndInv'
<1>1. \A v \in Workers : MemoryOK(req[v])'
  BY OthersKeep
<1>2. QED
  BY <1>1 DEF IndInv

\* What is known of a worker before it moves.
LEMMA Before ==
  ASSUME IndInv, NEW w \in Workers
  PROVE  req[w] \in Request /\ MemoryOK(req[w])
BY DEF IndInv, TypeOK

\* The request of one worker is replaced.
LEMMA GotoKeeps ==
  ASSUME TypeOK, NEW w \in Workers, NEW x \in Request,
         req' = [req EXCEPT ![w] = x]
  PROVE  /\ req' \in [Workers -> Request]
         /\ req'[w] = x
         /\ \A v \in Workers \ {w} : req'[v] = req[v]
BY DEF TypeOK

\* A step that writes no row: it must not complete the run.
LEMMA NoRowWritten ==
  ASSUME IndInv, UNCHANGED <<template, stepStatus>>, mishaps \subseteq mishaps',
         status' = "COMPLETED" => status = "COMPLETED",
         status # NONE => status' # NONE
  PROVE  Mono /\ StepsInOrder' /\ EveryStepDecided'
BY DEF IndInv, Mono, StepsInOrder, EveryStepDecided

LEMMA IdleType == Idle \in Request /\ NoRows \in [Steps -> RunStepStatus \cup {NONE}]
BY NAssumption DEF Idle, NoRows, Request, Places, RunStatus, RunStepStatus, NONE,
   Steps

\* A worker with nothing behind it.
LEMMA FreshRows ==
  ASSUME NEW x, x.seen = NoRows, x.at \in {"idle", "enqueue", "load"},
         x.op # "none" \/ x.at # "idle" => status # NONE
  PROVE  MemoryOK(x)
BY DEF MemoryOK, NoRows

\* What Return leaves of a request.
LEMMA ReturnType ==
  ASSUME NEW r \in Request
  PROVE  /\ Return(r) \in Request
         /\ Return(r).seen = NoRows
         /\ Return(r).at \in {"idle", "enqueue"}
<1>1. Idle.seen = NoRows /\ Idle.op = "none" /\ Idle.at = "idle"
  BY DEF Idle
<1>2. [Idle EXCEPT !.op = "resume", !.at = "enqueue"] \in Request
  BY IdleType DEF Request, Places
<1>3. /\ [Idle EXCEPT !.op = "resume", !.at = "enqueue"].seen = NoRows
      /\ [Idle EXCEPT !.op = "resume", !.at = "enqueue"].at = "enqueue"
  BY DEF Idle
<1>4. QED
  BY <1>1, <1>2, <1>3, IdleType DEF Return

-----------------------------------------------------------------------------
(* Steps that write no row.                                                *)

\* A step after which its worker has nothing behind it.
LEMMA FreshKeeps ==
  ASSUME IndInv, NEW w \in Workers, NEW x \in Request,
         req' = [req EXCEPT ![w] = x],
         x.seen = NoRows, x.at \in {"idle", "enqueue", "load"},
         UNCHANGED <<template, stepStatus, history>>,
         status' \in RunStatus \cup {NONE}, context' \in SUBSET Steps,
         jobs' \in Nat, resumes' \in 0..MaxResumes,
         mishaps \subseteq mishaps', mishaps' \in SUBSET Mishaps,
         status' = "COMPLETED" => status = "COMPLETED",
         status # NONE => status' # NONE,
         (x.op # "none" \/ x.at # "idle" \/ jobs' > 0) => status' # NONE
  PROVE  IndInv'
<1>1. Mono /\ StepsInOrder' /\ EveryStepDecided'
  BY NoRowWritten
<1>2. TypeOK
  BY DEF IndInv
<1>3. /\ req' \in [Workers -> Request] /\ req'[w] = x
      /\ \A v \in Workers \ {w} : req'[v] = req[v]
  BY <1>2, GotoKeeps
<1>4. TypeOK'
  BY <1>2, <1>3 DEF TypeOK, template, history
<1>5. MemoryOK(req[w])' /\ JobsAreOfARun'
  BY <1>3 DEF MemoryOK, NoRows, JobsAreOfARun
<1>6. QED
  BY <1>1, <1>3, <1>4, <1>5, Assemble

LEMMA StartRunKeeps ==
  ASSUME IndInv, NEW w \in Workers, StartRun(w)
  PROVE  IndInv'
<1> DEFINE x == [Idle EXCEPT !.op = "start", !.at = "enqueue"]
<1>1. x \in Request
  BY IdleType DEF Request, Places
<1>2. x.seen = NoRows /\ x.at = "enqueue"
  BY DEF Idle
<1>3. status' \in RunStatus /\ status' # NONE /\ status' # "COMPLETED"
  BY DEF StartRun, RunStatus, NONE
<1>4. QED
  BY <1>1, <1>2, <1>3, FreshKeeps DEF StartRun, Goto, IndInv, TypeOK

LEMMA EnqueueKeeps ==
  ASSUME IndInv, NEW w \in Workers, Enqueue(w)
  PROVE  IndInv'
<1>1. Idle.seen = NoRows /\ Idle.op = "none" /\ Idle.at = "idle"
  BY DEF Idle
<1>2. jobs' \in Nat /\ status # NONE
  BY DEF Enqueue, IndInv, TypeOK, MemoryOK
<1>3. QED
  BY <1>1, <1>2, IdleType, FreshKeeps DEF Enqueue, Goto, IndInv, TypeOK

LEMMA TakeJobKeeps ==
  ASSUME IndInv, NEW w \in Workers, TakeJob(w)
  PROVE  IndInv'
<1> DEFINE x == [Idle EXCEPT !.op = "advance", !.at = "load"]
<1>1. x \in Request
  BY IdleType DEF Request, Places
<1>2. x.seen = NoRows /\ x.at = "load"
  BY DEF Idle
<1>3. jobs' \in Nat /\ status # NONE
  BY DEF TakeJob, IndInv, TypeOK, JobsAreOfARun
<1>4. mishaps \subseteq mishaps' /\ mishaps' \in SUBSET Mishaps
  BY DEF TakeJob, Overlapped, Mishaps, IndInv, TypeOK
<1>5. QED
  BY <1>1, <1>2, <1>3, <1>4, FreshKeeps DEF TakeJob, Goto, IndInv, TypeOK

LEMMA FailKeeps ==
  ASSUME IndInv, NEW w \in Workers, Fail(w)
  PROVE  IndInv'
<1>1. Idle.seen = NoRows /\ Idle.op = "none" /\ Idle.at = "idle"
  BY DEF Idle
<1>2. jobs' \in Nat /\ (jobs' > 0 => status # NONE)
  <2>1. req[w].op = "advance" => status # NONE
    BY Before DEF MemoryOK
  <2>2. QED
    BY <2>1 DEF Fail, IndInv, TypeOK, JobsAreOfARun
<1>3. mishaps \subseteq mishaps' /\ mishaps' \in SUBSET Mishaps
  BY DEF Fail, Mishaps, IndInv, TypeOK
<1>4. QED
  BY <1>1, <1>2, <1>3, IdleType, FreshKeeps DEF Fail, Goto, IndInv, TypeOK

LEMMA ParkKeeps ==
  ASSUME IndInv, NEW w \in Workers, Park(w)
  PROVE  IndInv'
<1>1. req[w] \in Request
  BY DEF IndInv, TypeOK
<1>2. /\ Return(req[w]) \in Request /\ Return(req[w]).seen = NoRows
      /\ Return(req[w]).at \in {"idle", "enqueue"}
  BY <1>1, ReturnType
<1>3. status' \in RunStatus /\ status' # NONE /\ status' # "COMPLETED"
  BY DEF Park, RunStatus, NONE
<1>4. QED
  BY <1>2, <1>3, FreshKeeps DEF Park, Goto, IndInv, TypeOK

\* A step of the loop that writes no row.
LEMMA LoopKeeps ==
  ASSUME IndInv, NEW w \in Workers, NEW x \in Request,
         req' = [req EXCEPT ![w] = x], MemoryOK(x),
         UNCHANGED <<template, stepStatus, jobs, resumes, history, mishaps>>,
         status' \in RunStatus \cup {NONE}, context' \in SUBSET Steps,
         status' = "COMPLETED" => status = "COMPLETED",
         status # NONE => status' # NONE
  PROVE  IndInv'
<1>1. Mono /\ StepsInOrder' /\ EveryStepDecided'
  BY NoRowWritten
<1>2. TypeOK
  BY DEF IndInv
<1>3. /\ req' \in [Workers -> Request] /\ req'[w] = x
      /\ \A v \in Workers \ {w} : req'[v] = req[v]
  BY <1>2, GotoKeeps
<1>4. TypeOK'
  BY <1>2, <1>3 DEF TypeOK, template, history
<1>5. MemoryOK(req[w])' /\ JobsAreOfARun'
  BY <1>3 DEF MemoryOK, JobsAreOfARun, IndInv
<1>6. QED
  BY <1>1, <1>3, <1>4, <1>5, Assemble

LEMMA LoadRunKeeps ==
  ASSUME IndInv, NEW w \in Workers, LoadRun(w)
  PROVE  IndInv'
<1> DEFINE r == req[w]
           x == [r EXCEPT !.at = "loadSteps", !.run = status, !.ctx = context]
<1>1. r \in Request /\ MemoryOK(r) /\ r.at = "load"
  BY Before DEF LoadRun
<1>2. x \in Request
  <2>1. status \in RunStatus
    BY <1>1 DEF MemoryOK, IndInv, TypeOK
  <2>2. QED
    BY <1>1, <2>1 DEF Request, Places, IndInv, TypeOK
<1>3. MemoryOK(x)
  BY <1>1 DEF MemoryOK, Request
<1>4. QED
  BY <1>2, <1>3, LoopKeeps DEF LoadRun, Goto, IndInv, TypeOK

LEMMA LoadStepsKeeps ==
  ASSUME IndInv, NEW w \in Workers, LoadSteps(w)
  PROVE  IndInv'
<1> DEFINE r == [req[w] EXCEPT !.seen = stepStatus]
<1>1. req[w] \in Request /\ req[w].at = "loadSteps" /\ status # NONE
  BY Before DEF LoadSteps, MemoryOK
<1>2. r \in Request
  BY <1>1 DEF Request, IndInv, TypeOK
<1>3. r.seen = stepStatus
  BY <1>1 DEF Request
<1>4. PICK x \in {Return(r), [r EXCEPT !.at = "park"], [r EXCEPT !.at = "begin"],
                  [r EXCEPT !.at = "step", !.pos = 1]} :
        req' = [req EXCEPT ![w] = x]
  BY DEF LoadSteps, Goto
<1>5. x \in Request /\ MemoryOK(x)
  <2>1. CASE x = Return(r)
    BY <1>1, <1>2, <2>1, ReturnType, FreshRows
  <2>2. CASE x \in {[r EXCEPT !.at = "park"], [r EXCEPT !.at = "begin"]}
    <3>1. x \in Request /\ x.at \in {"park", "begin"} /\ x.seen = stepStatus
      BY <1>2, <1>3, <2>2 DEF Request, Places
    <3>2. QED
      BY <1>1, <3>1 DEF MemoryOK
  <2>3. CASE x = [r EXCEPT !.at = "step", !.pos = 1]
    <3>1. 1 \in 1..(N + 1)
      BY NAssumption
    <3>2. x \in Request
      BY <1>2, <2>3, <3>1 DEF Request, Places
    <3>3. x.at = "step" /\ x.pos = 1 /\ x.seen = stepStatus
      BY <1>2, <1>3, <2>3 DEF Request
    <3>4. \A i \in Steps : ~(i < 1)
      BY NAssumption DEF Steps
    <3>5. QED
      BY <1>1, <3>2, <3>3, <3>4 DEF MemoryOK
  <2>4. QED
    BY <1>4, <2>1, <2>2, <2>3
<1>6. UNCHANGED <<template, status, context, stepStatus, jobs, resumes, history,
                  mishaps>>
  BY DEF LoadSteps
<1>7. QED
  BY <1>4, <1>5, <1>6, LoopKeeps DEF IndInv, TypeOK

LEMMA BeginKeeps ==
  ASSUME IndInv, NEW w \in Workers, Begin(w)
  PROVE  IndInv'
<1> DEFINE x == [req[w] EXCEPT !.at = "step", !.pos = 1]
<1>1. req[w] \in Request /\ MemoryOK(req[w])
  BY Before
<1>2. 1 \in 1..(N + 1) /\ \A i \in Steps : ~(i < 1)
  BY NAssumption DEF Steps
<1>3. x \in Request
  BY <1>1, <1>2 DEF Request, Places
<1>4. x.at = "step" /\ x.pos = 1 /\ x.seen = req[w].seen
  BY <1>1 DEF Request
<1>5. status # NONE
  BY <1>1 DEF Begin, MemoryOK
<1>6. MemoryOK(x)
  BY <1>1, <1>2, <1>4, <1>5 DEF MemoryOK
<1>7. status' \in RunStatus /\ status' # NONE /\ status' # "COMPLETED"
  BY DEF Begin, RunStatus, NONE
<1>8. QED
  BY <1>3, <1>6, <1>7, LoopKeeps DEF Begin, Goto, IndInv, TypeOK

\* The next iteration of the loop, once the step at hand has a row.
LEMMA NextStepType ==
  ASSUME NEW r \in Request, MemoryOK(r), r.at \in {"step", "context"},
         r.pos \in Steps, stepStatus[r.pos] # NONE
  PROVE  NextStep(r) \in Request /\ MemoryOK(NextStep(r))
<1>1. r.pos \in 1..N /\ r.pos + 1 \in 1..(N + 1)
  BY NAssumption DEF Steps
<1>2. NextStep(r) \in Request
  BY <1>1 DEF NextStep, Request, Places
<1>3. /\ NextStep(r).at = "step" /\ NextStep(r).pos = r.pos + 1
      /\ NextStep(r).seen = r.seen
  BY DEF NextStep, Request
<1>4. \A i \in Steps : i < r.pos + 1 => i < r.pos \/ i = r.pos
  BY <1>1, NAssumption DEF Steps
<1>5. MemoryOK(NextStep(r))
  BY <1>3, <1>4 DEF MemoryOK
<1>6. QED
  BY <1>2, <1>5

LEMMA PassStepKeeps ==
  ASSUME IndInv, NEW w \in Workers, PassStep(w)
  PROVE  IndInv'
<1>1. req[w] \in Request /\ MemoryOK(req[w])
  BY Before
<1>2. req[w].at = "step" /\ req[w].pos \in Steps
  BY DEF PassStep, AtStep
<1>3. stepStatus[req[w].pos] # NONE
  BY <1>1, <1>2 DEF PassStep, Processed, TERMINAL_RUN_STEP, MemoryOK, NONE
<1>4. NextStep(req[w]) \in Request /\ MemoryOK(NextStep(req[w]))
  BY <1>1, <1>2, <1>3, NextStepType
<1>5. QED
  BY <1>4, LoopKeeps DEF PassStep, Goto, IndInv, TypeOK

LEMMA SaveContextKeeps ==
  ASSUME IndInv, NEW w \in Workers, SaveContext(w)
  PROVE  IndInv'
<1>1. req[w] \in Request /\ MemoryOK(req[w])
  BY Before
<1>2. req[w].at = "context" /\ req[w].pos \in Steps /\ stepStatus[req[w].pos] # NONE
  BY <1>1 DEF SaveContext, MemoryOK
<1>3. NextStep(req[w]) \in Request /\ MemoryOK(NextStep(req[w]))
  BY <1>1, <1>2, NextStepType
<1>4. context' \in SUBSET Steps
  BY <1>1 DEF SaveContext, Request
<1>5. QED
  BY <1>3, <1>4, LoopKeeps DEF SaveContext, Goto, IndInv, TypeOK

LEMMA ReopenKeeps ==
  ASSUME IndInv, NEW w \in Workers, Reopen(w)
  PROVE  IndInv'
<1> DEFINE x == [req[w] EXCEPT !.at = "load"]
<1>1. req[w] \in Request /\ MemoryOK(req[w])
  BY Before
<1>2. x \in Request
  BY <1>1 DEF Request, Places
<1>3. x.at = "load" /\ x.seen = req[w].seen
  BY <1>1 DEF Request
<1>4. MemoryOK(x)
  BY <1>1, <1>3 DEF Reopen, MemoryOK
<1>5. context' \in SUBSET Steps
  BY <1>1 DEF Reopen, Request
<1>6. status' \in RunStatus /\ status' # NONE /\ status' # "COMPLETED"
  BY DEF Reopen, RunStatus, NONE
<1>7. QED
  BY <1>2, <1>4, <1>5, <1>6, LoopKeeps DEF Reopen, Goto, IndInv, TypeOK

\* A client may call what does not wait, which is then a mishap.
LEMMA ResumeKeeps ==
  ASSUME IndInv, NEW w \in Workers, NEW i \in Steps, NEW output \in {{}, {i}},
         Resume(w, i, output)
  PROVE  IndInv'
<1> DEFINE x == [Idle EXCEPT !.op = "resume", !.at = "resume", !.step = i,
                             !.output = output, !.ctx = context \cup output]
<1>1. i \in 0..N /\ output \in SUBSET Steps /\ context \in SUBSET Steps
  BY NAssumption DEF Steps, IndInv, TypeOK
<1>2. x \in Request
  BY <1>1, IdleType DEF Request, Places
<1>3. x.at = "resume" /\ x.seen = NoRows /\ x.step = i
  BY DEF Idle
<1>4. mishaps \subseteq mishaps' /\ mishaps' \in SUBSET Mishaps
  BY DEF Resume, Overlapped, Mishaps, IndInv, TypeOK
<1>5. UNCHANGED <<template, stepStatus>> /\ UNCHANGED status
  BY DEF Resume
<1>6. Mono /\ StepsInOrder' /\ EveryStepDecided'
  BY <1>4, <1>5, NoRowWritten
<1>7. /\ req' \in [Workers -> Request] /\ req'[w] = x
      /\ \A v \in Workers \ {w} : req'[v] = req[v]
  BY <1>2, GotoKeeps DEF Resume, Goto, IndInv
<1>8. resumes' \in 0..MaxResumes
  BY MaxResumesAssumption DEF Resume, IndInv, TypeOK
<1>9. TypeOK'
  BY <1>4, <1>7, <1>8 DEF Resume, IndInv, TypeOK, template, history
<1>10. "stray" \notin mishaps' => stepStatus'[i] # NONE
  BY <1>5 DEF Resume, NONE
<1>11. \A j \in Steps : NoRows[j] = NONE
  BY DEF NoRows
<1>12. MemoryOK(req[w])' /\ JobsAreOfARun'
  BY <1>3, <1>5, <1>7, <1>10, <1>11 DEF MemoryOK, JobsAreOfARun, Resume
<1>13. QED
  BY <1>6, <1>7, <1>9, <1>12, Assemble
-----------------------------------------------------------------------------
(* Steps that write a row, and the end of the run.                         *)

\* A row is written for step i, everything before which has one.
LEMMA RowWritten ==
  ASSUME IndInv, NEW i \in Steps, NEW st \in RunStepStatus,
         stepStatus' = [stepStatus EXCEPT ![i] = st],
         UNCHANGED <<template, status, mishaps>>,
         "stray" \notin mishaps => \A j \in Steps : j < i => stepStatus[j] # NONE
  PROVE  /\ Mono /\ StepsInOrder' /\ EveryStepDecided'
         /\ stepStatus' \in [Steps -> RunStepStatus \cup {NONE}]
         /\ stepStatus'[i] # NONE
<1>1. st # NONE /\ stepStatus \in [Steps -> RunStepStatus \cup {NONE}]
  BY DEF RunStepStatus, NONE, IndInv, TypeOK
<1>2. /\ stepStatus' \in [Steps -> RunStepStatus \cup {NONE}]
      /\ stepStatus'[i] = st
      /\ \A j \in Steps \ {i} : stepStatus'[j] = stepStatus[j]
  BY <1>1
<1>3. \A j \in Steps : stepStatus[j] # NONE => stepStatus'[j] # NONE
  BY <1>1, <1>2
<1>4. StepsInOrder'
  BY <1>1, <1>2 DEF IndInv, StepsInOrder
<1>5. EveryStepDecided'
  BY <1>3 DEF IndInv, EveryStepDecided
<1>6. QED
  BY <1>1, <1>2, <1>3, <1>4, <1>5 DEF Mono

\* The loop writes the row of the step it is at and goes on as x.
LEMMA LoopWrites ==
  ASSUME IndInv, NEW w \in Workers, NEW x \in Request, NEW st \in RunStepStatus,
         Due(w), Upsert(w, st), Goto(w, x),
         x.at \in {"park", "context", "step"},
         x.at = "context" => x.pos = req[w].pos,
         x.at = "step" => x.pos = req[w].pos + 1,
         x.seen = req[w].seen,
         UNCHANGED <<template, status, context, jobs, resumes, mishaps>>,
         produced' \in SUBSET Steps
  PROVE  IndInv'
<1> DEFINE i == req[w].pos
<1>1. req[w] \in Request /\ MemoryOK(req[w]) /\ req[w].at = "step" /\ i \in Steps
  BY Before DEF Due, AtStep
<1>2. \A j \in Steps : j < i => stepStatus[j] # NONE
  BY <1>1 DEF MemoryOK
<1>3. stepStatus' = [stepStatus EXCEPT ![i] = st]
  BY DEF Upsert
<1>4. /\ Mono /\ StepsInOrder' /\ EveryStepDecided'
      /\ stepStatus' \in [Steps -> RunStepStatus \cup {NONE}]
      /\ stepStatus'[i] # NONE
  BY <1>1, <1>2, <1>3, RowWritten
<1>5. /\ req' \in [Workers -> Request] /\ req'[w] = x
      /\ \A v \in Workers \ {w} : req'[v] = req[v]
  BY GotoKeeps DEF Goto, IndInv
<1>6. reran' \in SUBSET Steps
  BY <1>1 DEF Upsert, IndInv, TypeOK
<1>7. TypeOK'
  BY <1>4, <1>5, <1>6 DEF IndInv, TypeOK, template
<1>8. \A j \in Steps : j < i \/ j = i => stepStatus'[j] # NONE
  BY <1>2, <1>4 DEF Mono
<1>9. \A j \in Steps : j < i + 1 => j < i \/ j = i
  BY <1>1, NAssumption DEF Steps
<1>10. \A j \in Steps : x.seen[j] # NONE => stepStatus'[j] # NONE
  BY <1>1, <1>4 DEF MemoryOK, Mono
<1>11. MemoryOK(req[w])' /\ JobsAreOfARun'
  BY <1>1, <1>5, <1>8, <1>9, <1>10 DEF MemoryOK, JobsAreOfARun, IndInv
<1>12. QED
  BY <1>4, <1>5, <1>7, <1>11, Assemble

LEMMA SkipStepKeeps ==
  ASSUME IndInv, NEW w \in Workers, SkipStep(w)
  PROVE  IndInv'
<1>1. req[w] \in Request /\ req[w].pos \in 1..N
  BY Before DEF SkipStep, Due, AtStep, Steps
<1>2. req[w].pos + 1 \in 1..(N + 1)
  BY <1>1, NAssumption
<1>3. NextStep(req[w]) \in Request
  BY <1>1, <1>2 DEF NextStep, Request, Places
<1>4. /\ NextStep(req[w]).at = "step" /\ NextStep(req[w]).pos = req[w].pos + 1
      /\ NextStep(req[w]).seen = req[w].seen
  BY <1>1 DEF NextStep, Request
<1>5. "SKIPPED" \in RunStepStatus
  BY DEF RunStepStatus
<1>6. QED
  BY <1>3, <1>4, <1>5, LoopWrites DEF SkipStep, IndInv, TypeOK

LEMMA ParkStepKeeps ==
  ASSUME IndInv, NEW w \in Workers, ParkStep(w)
  PROVE  IndInv'
<1> DEFINE x == [req[w] EXCEPT !.at = "park"]
<1>1. req[w] \in Request
  BY Before
<1>2. x \in Request /\ x.at = "park" /\ x.seen = req[w].seen
  BY <1>1 DEF Request, Places
<1>3. "WAITING" \in RunStepStatus /\ produced' \in SUBSET Steps
  BY DEF RunStepStatus, ParkStep, IndInv, TypeOK
<1>4. Due(w) /\ Upsert(w, "WAITING") /\ Goto(w, x)
  BY DEF ParkStep
<1>5. UNCHANGED <<template, status, context, jobs, resumes, mishaps>>
  BY DEF ParkStep
<1> HIDE DEF x
<1>6. QED
  BY <1>2, <1>3, <1>4, <1>5, LoopWrites

LEMMA RunStepKeeps ==
  ASSUME IndInv, NEW w \in Workers, RunStep(w)
  PROVE  IndInv'
<1> DEFINE r == req[w]
           x == [r EXCEPT !.at = "context", !.ctx = r.ctx \cup {r.pos}]
<1>1. r \in Request /\ r.pos \in Steps
  BY Before DEF RunStep, Due, AtStep
<1>2. x \in Request /\ x.at = "context" /\ x.pos = r.pos /\ x.seen = r.seen
  BY <1>1 DEF Request, Places
<1>3. "COMPLETED" \in RunStepStatus
  BY DEF RunStepStatus
<1>4. produced' \in SUBSET Steps
  BY <1>1 DEF RunStep, IndInv, TypeOK
<1>5. Due(w) /\ Upsert(w, "COMPLETED") /\ Goto(w, x)
  BY DEF RunStep
<1>6. UNCHANGED <<template, status, context, jobs, resumes, mishaps>>
  BY DEF RunStep
<1> HIDE DEF x
<1>7. QED
  BY <1>2, <1>3, <1>4, <1>5, <1>6, LoopWrites

\* The resumed step has a row already, unless it was called astray.
LEMMA CompleteStepKeeps ==
  ASSUME IndInv, NEW w \in Workers, CompleteStep(w)
  PROVE  IndInv'
<1> DEFINE r == req[w]
           i == r.step
           x == [r EXCEPT !.at = "reopen"]
<1>1. r \in Request /\ MemoryOK(r) /\ r.at = "resume"
  BY Before DEF CompleteStep
<1>2. i \in Steps /\ ("stray" \notin mishaps => stepStatus[i] # NONE)
  BY <1>1 DEF MemoryOK
<1>3. "stray" \notin mishaps => \A j \in Steps : j < i => stepStatus[j] # NONE
  BY <1>2 DEF IndInv, StepsInOrder
<1>4. stepStatus' = [stepStatus EXCEPT ![i] = "COMPLETED"]
      /\ "COMPLETED" \in RunStepStatus
  BY DEF CompleteStep, RunStepStatus
<1>5. UNCHANGED <<template, status, mishaps>>
  BY DEF CompleteStep
<1>6. /\ Mono /\ StepsInOrder' /\ EveryStepDecided'
      /\ stepStatus' \in [Steps -> RunStepStatus \cup {NONE}]
  BY <1>2, <1>3, <1>4, <1>5, RowWritten
<1>7. x \in Request /\ x.at = "reopen" /\ x.seen = r.seen
  BY <1>1 DEF Request, Places
<1>8. /\ req' \in [Workers -> Request] /\ req'[w] = x
      /\ \A v \in Workers \ {w} : req'[v] = req[v]
  BY <1>7, GotoKeeps DEF CompleteStep, Goto, IndInv
<1>9. produced' \in SUBSET Steps
  BY <1>1 DEF CompleteStep, Request, IndInv, TypeOK
<1>10. TypeOK'
  BY <1>6, <1>8, <1>9 DEF CompleteStep, IndInv, TypeOK, template
<1>11. \A j \in Steps : x.seen[j] # NONE => stepStatus'[j] # NONE
  BY <1>1, <1>6, <1>7 DEF MemoryOK, Mono
<1>12. MemoryOK(req[w])' /\ JobsAreOfARun'
  BY <1>1, <1>5, <1>7, <1>8, <1>11
     DEF MemoryOK, JobsAreOfARun, IndInv, CompleteStep
<1>13. QED
  BY <1>6, <1>8, <1>10, <1>12, Assemble

\* The loop is past the last step: everything has a row.
LEMMA CompleteRunKeeps ==
  ASSUME IndInv, NEW w \in Workers, CompleteRun(w)
  PROVE  IndInv'
<1> DEFINE r == req[w]
<1>1. r \in Request /\ MemoryOK(r) /\ r.at = "step" /\ r.pos = N + 1
  BY Before DEF CompleteRun
<1>2. \A i \in Steps : i < N + 1
  BY NAssumption DEF Steps
<1>3. \A i \in Steps : stepStatus[i] # NONE
  BY <1>1, <1>2 DEF MemoryOK
<1>4. UNCHANGED <<template, stepStatus, jobs, resumes, history, mishaps>>
  BY DEF CompleteRun
<1>5. Mono /\ StepsInOrder' /\ EveryStepDecided'
  BY <1>3, <1>4 DEF IndInv, Mono, StepsInOrder, EveryStepDecided, CompleteRun, NONE
<1>6. /\ Return(r) \in Request /\ Return(r).seen = NoRows
      /\ Return(r).at \in {"idle", "enqueue"}
  BY <1>1, ReturnType
<1>7. /\ req' \in [Workers -> Request] /\ req'[w] = Return(r)
      /\ \A v \in Workers \ {w} : req'[v] = req[v]
  BY <1>6, GotoKeeps DEF CompleteRun, Goto, IndInv
<1>8. status' \in RunStatus /\ context' \in SUBSET Steps
  BY <1>1 DEF CompleteRun, RunStatus, Request
<1>9. TypeOK'
  BY <1>4, <1>7, <1>8 DEF IndInv, TypeOK, template, history
<1>10. MemoryOK(req[w])' /\ JobsAreOfARun'
  BY <1>6, <1>7, <1>8 DEF MemoryOK, NoRows, JobsAreOfARun, CompleteRun, NONE
<1>11. QED
  BY <1>5, <1>7, <1>9, <1>10, Assemble

-----------------------------------------------------------------------------
(* The theorems.                                                           *)

LEMMA InitInv ==
  ASSUME Init
  PROVE  IndInv
<1>1. NoRows \in [Steps -> RunStepStatus \cup {NONE}] /\ Idle \in Request
  BY IdleType
<1>2. req = [w \in Workers |-> Idle] /\ stepStatus = NoRows /\ status = NONE
  BY DEF Init
<1>3. TypeOK
  BY <1>1, <1>2, MaxResumesAssumption DEF Init, TypeOK, Mishaps
<1>4. Idle.op = "none" /\ Idle.at = "idle" /\ Idle.seen = NoRows
  BY DEF Idle
<1>5. \A w \in Workers : MemoryOK(req[w])
  BY <1>2, <1>4, FreshRows
<1>6. \A i \in Steps : stepStatus[i] = NONE
  BY <1>2 DEF NoRows
<1>7. StepsInOrder /\ EveryStepDecided /\ JobsAreOfARun
  BY <1>2, <1>6 DEF StepsInOrder, EveryStepDecided, JobsAreOfARun, NONE, Init
<1>8. QED
  BY <1>3, <1>5, <1>7 DEF IndInv

LEMMA ContinueKeeps ==
  ASSUME IndInv, NEW w \in Workers, Continue(w)
  PROVE  IndInv'
BY EnqueueKeeps, LoadRunKeeps, LoadStepsKeeps, BeginKeeps, PassStepKeeps,
   SkipStepKeeps, ParkStepKeeps, ParkKeeps, RunStepKeeps, SaveContextKeeps,
   CompleteRunKeeps, CompleteStepKeeps, ReopenKeeps DEF Continue

LEMMA StutterKeeps ==
  ASSUME IndInv, UNCHANGED vars
  PROVE  IndInv'
BY DEF IndInv, TypeOK, MemoryOK, StepsInOrder, EveryStepDecided, JobsAreOfARun, vars,
   template, history

\* The engine keeps its inductive invariant, whatever workers and clients do.
THEOREM Invariance == Spec => []IndInv
<1>1. Init => IndInv
  BY InitInv
<1>2. IndInv /\ [Next]_vars => IndInv'
  <2> SUFFICES ASSUME IndInv, [Next]_vars
               PROVE  IndInv'
    OBVIOUS
  <2>1. ASSUME NEW w \in Workers, StartRun(w) PROVE IndInv'
    BY <2>1, StartRunKeeps
  <2>2. ASSUME NEW w \in Workers, TakeJob(w) PROVE IndInv'
    BY <2>2, TakeJobKeeps
  <2>3. ASSUME NEW w \in Workers, NEW i \in Steps, NEW output \in {{}, {i}},
               Resume(w, i, output)
        PROVE  IndInv'
    BY <2>3, ResumeKeeps
  <2>4. ASSUME NEW w \in Workers, Continue(w) PROVE IndInv'
    BY <2>4, ContinueKeeps
  <2>5. ASSUME NEW w \in Workers, Fail(w) PROVE IndInv'
    BY <2>5, FailKeeps
  <2>6. CASE UNCHANGED vars
    BY <2>6, StutterKeeps
  <2>7. QED
    BY <2>1, <2>2, <2>3, <2>4, <2>5, <2>6 DEF Next
<1>3. QED
  BY <1>1, <1>2, PTL DEF Spec

\* Every reachable state of a run, its queue and its workers is well typed.
THEOREM TypeCorrect == Spec => []TypeOK
<1>1. IndInv => TypeOK
  BY DEF IndInv
<1>2. QED
  BY <1>1, Invariance, PTL

\* advance takes the steps up in position order, on however many snapshots it
\* works at once.
THEOREM OrderIsKept == Spec => []StepsInOrder
<1>1. IndInv => StepsInOrder
  BY DEF IndInv
<1>2. QED
  BY <1>1, Invariance, PTL

\* A COMPLETED run has a row for every step.
THEOREM NoStepIsPassedOver == Spec => []EveryStepDecided
<1>1. IndInv => EveryStepDecided
  BY DEF IndInv
<1>2. QED
  BY <1>1, Invariance, PTL

-----------------------------------------------------------------------------
(***************************************************************************)
(* Calls that do not overlap.  At most one worker is busy, so what SoloInv *)
(* says of the others' memory is said of nobody (SoloAssemble).            *)
(***************************************************************************)

LEMMA SoloAssemble ==
  ASSUME IndInv, SoloInv, NEW w \in Workers, UNCHANGED template,
         \A v \in Workers \ {w} : req'[v] = req[v],
         Alone' => \A v \in Workers \ {w} : ~Busy(v),
         Alone' => NeverRerun' /\ SnapshotOK(req[w])',
         Orderly' => RowsOrderly' /\ ProgressOK(req[w])',
         mishaps' = {} => ContextOK(req[w])'
           /\ (context' = produced' \/ req'[w].at \in {"context", "reopen"}),
         BranchesFollowOutputs'
  PROVE  SoloInv'
<1>1. ConditionsLookBack'
  BY DEF SoloInv, ConditionsLookBack, template
<1>2. Alone' => \A v \in Workers \ {w} : req'[v].at \in {"idle", "enqueue"}
  BY DEF Busy
<1>3. AloneOK'
  <2> SUFFICES ASSUME Alone'
               PROVE  NeverRerun' /\ OneIsBusy' /\ \A v \in Workers : SnapshotOK(req[v])'
    BY DEF AloneOK
  <2>1. OneIsBusy'
    BY <1>2 DEF OneIsBusy, Busy
  <2>2. \A v \in Workers \ {w} : SnapshotOK(req[v])'
    BY <1>2 DEF SnapshotOK
  <2>3. QED
    BY <2>1, <2>2
<1>4. OrderlyOK'
  <2> SUFFICES ASSUME Orderly'
               PROVE  RowsOrderly' /\ \A v \in Workers : ProgressOK(req[v])'
    BY DEF OrderlyOK
  <2>1. \A v \in Workers \ {w} : ProgressOK(req[v])'
    BY <1>2 DEF ProgressOK, Orderly
  <2>2. QED
    BY <2>1
<1>5. ExactOK'
  <2> SUFFICES ASSUME mishaps' = {}
               PROVE  ContextIsSaved' /\ \A v \in Workers : ContextOK(req[v])'
    BY DEF ExactOK
  <2>1. \A v \in Workers \ {w} : ContextOK(req[v])'
    BY <1>2 DEF ContextOK, Alone
  <2>2. QED
    BY <2>1 DEF ContextIsSaved
<1>6. QED
  BY <1>1, <1>3, <1>4, <1>5 DEF SoloInv

\* The others are at rest while a worker is busy, unless calls overlap.
LEMMA OthersRest ==
  ASSUME SoloInv, Alone, NEW w \in Workers, Busy(w)
  PROVE  \A v \in Workers \ {w} : ~Busy(v)
BY DEF SoloInv, AloneOK, OneIsBusy

\* The context holds every output when nobody else is about to write it.
LEMMA ContextNow ==
  ASSUME SoloInv, mishaps = {}, NEW w \in Workers,
         \A v \in Workers \ {w} : ~Busy(v), req[w].at \notin {"context", "reopen"}
  PROVE  context = produced
BY DEF SoloInv, ExactOK, ContextIsSaved, Busy

\* A step of a busy worker that writes no row.
LEMMA SoloMove ==
  ASSUME IndInv, SoloInv, NEW w \in Workers, Busy(w), NEW x \in Request, Goto(w, x),
         UNCHANGED <<template, stepStatus, history, mishaps>>,
         Orderly => (status' = "COMPLETED" => status = "COMPLETED" \/ NoneWaits),
         Alone => SnapshotOK(req[w])',
         Orderly => ProgressOK(req[w])',
         mishaps = {} => ContextOK(req[w])'
           /\ (context' = produced \/ req'[w].at \in {"context", "reopen"})
  PROVE  SoloInv'
<1>1. \A v \in Workers \ {w} : req'[v] = req[v]
  BY GotoKeeps DEF Goto, IndInv
<1>2. Alone' => NeverRerun' /\ \A v \in Workers \ {w} : ~Busy(v)
  BY OthersRest DEF Alone, NeverRerun, history, SoloInv, AloneOK
<1>3. Orderly' => RowsOrderly'
  BY DEF Orderly, Alone, RowsOrderly, NoneWaits, SoloInv, OrderlyOK
<1>4. BranchesFollowOutputs'
  BY DEF BranchesFollowOutputs, SoloInv, history, template
<1>5. Alone' => SnapshotOK(req[w])'
  BY DEF Alone
<1>6. Orderly' => ProgressOK(req[w])'
  BY DEF Orderly, Alone
<1>7. mishaps' = {} => ContextOK(req[w])'
           /\ (context' = produced' \/ req'[w].at \in {"context", "reopen"})
  BY DEF history
<1>8. QED
  BY <1>1, <1>2, <1>3, <1>4, <1>5, <1>6, <1>7, SoloAssemble

\* A busy worker that is done has nothing to be right about.
LEMMA SoloReturn ==
  ASSUME IndInv, SoloInv, NEW w \in Workers, Busy(w), Goto(w, Return(req[w])),
         UNCHANGED <<template, stepStatus, history, mishaps>>,
         Orderly => (status' = "COMPLETED" => status = "COMPLETED" \/ NoneWaits),
         mishaps = {} => context' = produced
  PROVE  SoloInv'
<1>1. req[w] \in Request
  BY Before
<1>2. Return(req[w]) \in Request /\ Return(req[w]).at \in {"idle", "enqueue"}
  BY <1>1, ReturnType
<1>3. req'[w] = Return(req[w])
  BY <1>2, GotoKeeps DEF Goto, IndInv
<1>4. req'[w].at \in {"idle", "enqueue"}
  BY <1>2, <1>3
<1>5. SnapshotOK(req[w])' /\ ProgressOK(req[w])' /\ ContextOK(req[w])'
  BY <1>4 DEF SnapshotOK, ProgressOK, ContextOK
<1>6. QED
  BY <1>2, <1>5, SoloMove

\* What SoloInv says of the worker at hand.
LEMMA SoloBefore ==
  ASSUME IndInv, SoloInv, NEW w \in Workers
  PROVE  /\ req[w] \in Request
         /\ Alone => SnapshotOK(req[w])
         /\ Orderly => ProgressOK(req[w])
         /\ mishaps = {} => Orderly /\ ContextOK(req[w])
BY Before DEF SoloInv, AloneOK, OrderlyOK, ExactOK, Orderly, Alone

-----------------------------------------------------------------------------
(* Steps that write no row.                                                *)

LEMMA SoloLoadRun ==
  ASSUME IndInv, SoloInv, NEW w \in Workers, LoadRun(w)
  PROVE  SoloInv'
<1> DEFINE r == req[w]
           x == [r EXCEPT !.at = "loadSteps", !.run = status, !.ctx = context]
<1>1. r \in Request /\ MemoryOK(r) /\ r.at = "load" /\ Busy(w)
  BY Before DEF LoadRun, Busy
<1>2. x \in Request
  <2>1. status \in RunStatus
    BY <1>1 DEF MemoryOK, IndInv, TypeOK
  <2>2. QED
    BY <1>1, <2>1 DEF Request, Places, IndInv, TypeOK
<1>3. x.at = "loadSteps" /\ x.run = status /\ x.ctx = context
  BY <1>1 DEF Request
<1>4. Goto(w, x) /\ UNCHANGED <<template, status, context, stepStatus, history, mishaps>>
  BY DEF LoadRun
<1>5. req'[w] = x
  BY <1>2, <1>4, GotoKeeps DEF Goto, IndInv
<1>6. mishaps = {} => context = produced
  BY <1>1, OthersRest, ContextNow DEF Alone
<1> HIDE DEF x
<1>7. SnapshotOK(req[w])' /\ ProgressOK(req[w])' /\ (mishaps = {} => ContextOK(req[w])')
  BY <1>3, <1>4, <1>5, <1>6 DEF SnapshotOK, ProgressOK, ContextOK, history
<1>8. QED
  BY <1>1, <1>2, <1>4, <1>6, <1>7, SoloMove

LEMMA SoloLoadSteps ==
  ASSUME IndInv, SoloInv, NEW w \in Workers, LoadSteps(w)
  PROVE  SoloInv'
<1> DEFINE r == [req[w] EXCEPT !.seen = stepStatus]
           waits == \E i \in Steps : stepStatus[i] = "WAITING"
<1>1. /\ req[w] \in Request /\ req[w].at = "loadSteps" /\ Busy(w)
      /\ Alone => SnapshotOK(req[w])
      /\ mishaps = {} => Alone /\ ContextOK(req[w])
  BY SoloBefore DEF LoadSteps, Busy, Orderly
<1>2. /\ r \in Request /\ r.seen = stepStatus /\ r.at = "loadSteps"
      /\ r.run = req[w].run /\ r.ctx = req[w].ctx /\ r.op = req[w].op
  BY <1>1 DEF Request, IndInv, TypeOK
<1>3. UNCHANGED <<template, status, context, stepStatus, history, mishaps>>
  BY DEF LoadSteps
<1>4. /\ Alone => r.run = status
      /\ mishaps = {} => r.ctx = produced /\ context = produced
  <2>1. mishaps = {} => context = produced
    BY <1>1, OthersRest, ContextNow
  <2>2. QED
    BY <1>1, <1>2, <2>1 DEF SnapshotOK, ContextOK
<1>5. CASE r.run = "COMPLETED" /\ Goto(w, Return(r))
  <2>1. Goto(w, Return(req[w]))
    BY <1>2, <1>5 DEF Return
  <2>2. QED
    BY <1>1, <1>3, <1>4, <2>1, SoloReturn
<1>6. CASE r.run # "COMPLETED" /\ ~(r.run = "COMPLETED")
  <2> DEFINE x == IF waits THEN [r EXCEPT !.at = "park"]
                  ELSE IF r.run = "PENDING" THEN [r EXCEPT !.at = "begin"]
                  ELSE [r EXCEPT !.at = "step", !.pos = 1]
  <2>1. Goto(w, x)
    BY <1>6 DEF LoadSteps
  <2>2. 1 \in 1..(N + 1)
    BY NAssumption
  <2>3. /\ x \in Request /\ x.seen = stepStatus /\ x.ctx = r.ctx
        /\ x.at \in {"park", "begin", "step"}
        /\ x.at # "park" => NoneWaits
        /\ x.at = "step" => x.pos = 1
    BY <1>2, <2>2 DEF Request, Places, NoneWaits
  <2>4. req'[w] = x
    BY <2>1, <2>3, GotoKeeps DEF Goto, IndInv
  <2> HIDE DEF x
  <2>5. SnapshotOK(req[w])'
    BY <1>3, <2>3, <2>4 DEF SnapshotOK, KnowsRowsFrom
  <2>6. Orderly => ProgressOK(req[w])'
    BY <1>3, <1>4, <1>6, <2>3, <2>4 DEF Orderly, ProgressOK, NoneWaits
  <2>7. mishaps = {} => ContextOK(req[w])'
    BY <1>3, <1>4, <2>3, <2>4 DEF ContextOK, history
  <2>8. QED
    BY <1>1, <1>3, <1>4, <2>1, <2>3, <2>5, <2>6, <2>7, SoloMove
<1>7. QED
  BY <1>5, <1>6 DEF LoadSteps

LEMMA SoloBegin ==
  ASSUME IndInv, SoloInv, NEW w \in Workers, Begin(w)
  PROVE  SoloInv'
<1> DEFINE r == req[w]
           x == [r EXCEPT !.at = "step", !.pos = 1]
<1>1. /\ r \in Request /\ r.at = "begin" /\ Busy(w)
      /\ Alone => SnapshotOK(r)
      /\ Orderly => ProgressOK(r)
      /\ mishaps = {} => Alone /\ ContextOK(r)
  BY SoloBefore DEF Begin, Busy, Orderly
<1>2. 1 \in 1..(N + 1)
  BY NAssumption
<1>3. /\ x \in Request /\ x.at = "step" /\ x.pos = 1 /\ x.seen = r.seen
      /\ x.ctx = r.ctx
  BY <1>1, <1>2 DEF Request, Places
<1>4. Goto(w, x) /\ UNCHANGED <<template, context, stepStatus, history, mishaps>>
      /\ status' = "RUNNING"
  BY DEF Begin
<1>5. req'[w] = x
  BY <1>3, <1>4, GotoKeeps DEF Goto, IndInv
<1>6. mishaps = {} => context = produced
  BY <1>1, OthersRest, ContextNow
<1> HIDE DEF x
<1>7. /\ Alone => SnapshotOK(req[w])'
      /\ Orderly => ProgressOK(req[w])'
      /\ mishaps = {} => ContextOK(req[w])'
  <2>1. Alone => SnapshotOK(req[w])'
    BY <1>1, <1>3, <1>4, <1>5 DEF SnapshotOK, KnowsRowsFrom
  <2>2. Orderly => ProgressOK(req[w])'
    BY <1>1, <1>3, <1>4, <1>5, SoloBefore DEF ProgressOK, NoneWaits
  <2>3. mishaps = {} => ContextOK(req[w])'
    BY <1>1, <1>3, <1>4, <1>5 DEF ContextOK, history
  <2>4. QED
    BY <2>1, <2>2, <2>3
<1>8. QED
  BY <1>1, <1>3, <1>4, <1>6, <1>7, SoloMove

\* The next iteration of the loop.
LEMMA SoloNextStep ==
  ASSUME IndInv, SoloInv, NEW w \in Workers, req[w].at \in {"step", "context"},
         req[w].pos \in Steps, Goto(w, NextStep(req[w])),
         UNCHANGED <<template, status, stepStatus, history, mishaps>>,
         mishaps = {} => context' = produced
  PROVE  SoloInv'
<1> DEFINE r == req[w]
           x == NextStep(r)
<1>1. /\ r \in Request /\ Busy(w)
      /\ Alone => SnapshotOK(r)
      /\ mishaps = {} => Alone /\ ContextOK(r)
  BY SoloBefore DEF Busy, Orderly
<1>2. r.pos \in 1..N /\ r.pos + 1 \in 1..(N + 1)
  BY NAssumption DEF Steps
<1>3. /\ x \in Request /\ x.at = "step" /\ x.pos = r.pos + 1 /\ x.seen = r.seen
      /\ x.ctx = r.ctx
  BY <1>1, <1>2 DEF NextStep, Request, Places
<1>4. req'[w] = x
  BY <1>3, GotoKeeps DEF Goto, IndInv
<1> HIDE DEF x
<1>5. Alone => SnapshotOK(req[w])'
  <2>1. \A i \in Steps : i >= r.pos + 1 => i >= r.pos
    BY <1>2, NAssumption DEF Steps
  <2>2. QED
    BY <1>1, <1>3, <1>4, <2>1 DEF SnapshotOK, KnowsRowsFrom
<1>6. Orderly => ProgressOK(req[w])'
  BY <1>3, <1>4, SoloBefore DEF ProgressOK, NoneWaits
<1>7. mishaps = {} => ContextOK(req[w])'
  BY <1>1, <1>3, <1>4 DEF ContextOK, history
<1>8. Goto(w, x)
  BY DEF x
<1>9. QED
  BY <1>1, <1>3, <1>5, <1>6, <1>7, <1>8, SoloMove

LEMMA SoloPassStep ==
  ASSUME IndInv, SoloInv, NEW w \in Workers, PassStep(w)
  PROVE  SoloInv'
<1>1. req[w].at = "step" /\ req[w].pos \in Steps /\ Busy(w)
  BY DEF PassStep, AtStep, Busy
<1>2. mishaps = {} => context = produced
  BY <1>1, OthersRest, ContextNow DEF Alone
<1>3. QED
  BY <1>1, <1>2, SoloNextStep DEF PassStep

LEMMA SoloSaveContext ==
  ASSUME IndInv, SoloInv, NEW w \in Workers, SaveContext(w)
  PROVE  SoloInv'
<1>1. req[w].at = "context" /\ req[w].pos \in Steps
  BY Before DEF SaveContext, MemoryOK
<1>2. mishaps = {} => context' = produced
  BY <1>1, SoloBefore DEF SaveContext, ContextOK
<1>3. QED
  BY <1>1, <1>2, SoloNextStep DEF SaveContext

LEMMA SoloPark ==
  ASSUME IndInv, SoloInv, NEW w \in Workers, Park(w)
  PROVE  SoloInv'
<1>1. Busy(w) /\ req[w].at = "park"
  BY DEF Park, Busy
<1>2. mishaps = {} => context' = produced
  BY <1>1, OthersRest, ContextNow DEF Alone, Park
<1>3. QED
  BY <1>1, <1>2, SoloReturn DEF Park

LEMMA SoloCompleteRun ==
  ASSUME IndInv, SoloInv, NEW w \in Workers, CompleteRun(w)
  PROVE  SoloInv'
<1>1. Busy(w) /\ req[w].at = "step"
  BY DEF CompleteRun, Busy
<1>2. Orderly => NoneWaits
  BY <1>1, SoloBefore DEF ProgressOK
<1>3. mishaps = {} => context' = produced
  BY <1>1, SoloBefore DEF CompleteRun, ContextOK
<1>4. QED
  BY <1>1, <1>2, <1>3, SoloReturn DEF CompleteRun

LEMMA SoloReopen ==
  ASSUME IndInv, SoloInv, NEW w \in Workers, Reopen(w)
  PROVE  SoloInv'
<1> DEFINE x == [req[w] EXCEPT !.at = "load"]
<1>1. req[w] \in Request /\ req[w].at = "reopen" /\ Busy(w)
  BY SoloBefore DEF Reopen, Busy
<1>2. x \in Request /\ x.at = "load"
  BY <1>1 DEF Request, Places
<1>3. Goto(w, x) /\ req'[w] = x
  BY <1>2, GotoKeeps DEF Reopen, Goto, IndInv
<1>4. mishaps = {} => context' = produced
  BY <1>1, SoloBefore DEF Reopen, ContextOK
<1> HIDE DEF x
<1>5. SnapshotOK(req[w])' /\ ProgressOK(req[w])' /\ ContextOK(req[w])'
  BY <1>2, <1>3 DEF SnapshotOK, ProgressOK, ContextOK
<1>6. QED
  BY <1>1, <1>2, <1>3, <1>4, <1>5, SoloMove DEF Reopen

-----------------------------------------------------------------------------
(* Steps at either end of a request.                                       *)

LEMMA SoloStart ==
  ASSUME IndInv, SoloInv, NEW w \in Workers, StartRun(w)
  PROVE  SoloInv'
<1> DEFINE x == [Idle EXCEPT !.op = "start", !.at = "enqueue"]
<1>1. x \in Request /\ x.at = "enqueue"
  BY IdleType DEF Idle, Request, Places
<1>2. Goto(w, x) /\ status = NONE /\ status' = "PENDING"
      /\ UNCHANGED <<template, context, stepStatus, history, mishaps>>
  BY DEF StartRun
<1>3. req'[w] = x /\ \A v \in Workers \ {w} : req'[v] = req[v]
  BY <1>1, <1>2, GotoKeeps DEF Goto, IndInv
<1> HIDE DEF x
<1>4. \A v \in Workers : ~Busy(v)
  BY <1>2, Before DEF Busy, MemoryOK
<1>5. SnapshotOK(req[w])' /\ ProgressOK(req[w])' /\ ContextOK(req[w])'
  BY <1>1, <1>3 DEF SnapshotOK, ProgressOK, ContextOK
<1>6. Alone' => NeverRerun'
  BY <1>2 DEF Alone, NeverRerun, history, SoloInv, AloneOK
<1>7. Orderly' => RowsOrderly'
  BY <1>2 DEF Orderly, Alone, RowsOrderly, SoloInv, OrderlyOK
<1>8. mishaps' = {} => context' = produced'
  BY <1>2, <1>4 DEF history, SoloInv, ExactOK, ContextIsSaved, Busy
<1>9. BranchesFollowOutputs'
  BY <1>2 DEF BranchesFollowOutputs, SoloInv, history, template
<1>10. QED
  BY <1>2, <1>3, <1>4, <1>5, <1>6, <1>7, <1>8, <1>9, SoloAssemble

\* A worker that is not on the run before or after leaves it alone.
LEMMA SoloAside ==
  ASSUME IndInv, SoloInv, NEW w \in Workers, ~Busy(w), Goto(w, Idle),
         UNCHANGED <<template, status, context, stepStatus, history>>,
         mishaps \subseteq mishaps'
  PROVE  SoloInv'
<1>1. req'[w] = Idle /\ \A v \in Workers \ {w} : req'[v] = req[v]
  BY IdleType, GotoKeeps DEF Goto, IndInv
<1>2. Idle.at = "idle" /\ req[w].at \in {"idle", "enqueue"}
  BY DEF Idle, Busy
<1>3. ConditionsLookBack' /\ BranchesFollowOutputs'
  BY DEF SoloInv, ConditionsLookBack, BranchesFollowOutputs, template, history
<1>4. AloneOK'
  <2> SUFFICES ASSUME Alone'
               PROVE  NeverRerun' /\ OneIsBusy' /\ \A v \in Workers : SnapshotOK(req[v])'
    BY DEF AloneOK
  <2>1. NeverRerun /\ OneIsBusy /\ \A v \in Workers : SnapshotOK(req[v])
    BY DEF Alone, SoloInv, AloneOK
  <2>2. OneIsBusy'
    BY <1>1, <1>2, <2>1 DEF OneIsBusy, Busy
  <2>3. \A v \in Workers : SnapshotOK(req[v])'
    BY <1>1, <1>2, <2>1 DEF SnapshotOK, KnowsRowsFrom
  <2>4. QED
    BY <2>1, <2>2, <2>3 DEF NeverRerun, history
<1>5. OrderlyOK'
  <2> SUFFICES ASSUME Orderly'
               PROVE  RowsOrderly' /\ \A v \in Workers : ProgressOK(req[v])'
    BY DEF OrderlyOK
  <2>1. RowsOrderly /\ \A v \in Workers : ProgressOK(req[v])
    BY DEF Orderly, Alone, SoloInv, OrderlyOK
  <2>2. \A v \in Workers : ProgressOK(req[v])'
    BY <1>1, <1>2, <2>1 DEF ProgressOK, NoneWaits
  <2>3. QED
    BY <2>1, <2>2 DEF RowsOrderly, NoneWaits
<1>6. ExactOK'
  <2> SUFFICES ASSUME mishaps' = {}
               PROVE  ContextIsSaved' /\ \A v \in Workers : ContextOK(req[v])'
    BY DEF ExactOK
  <2>1. ContextIsSaved /\ \A v \in Workers : ContextOK(req[v])
    BY DEF SoloInv, ExactOK
  <2>2. ContextIsSaved'
    BY <1>1, <1>2, <2>1 DEF ContextIsSaved, history
  <2>3. \A v \in Workers : ContextOK(req[v])'
    BY <1>1, <1>2, <2>1 DEF ContextOK, history
  <2>4. QED
    BY <2>2, <2>3
<1>7. QED
  BY <1>3, <1>4, <1>5, <1>6 DEF SoloInv

LEMMA SoloEnqueue ==
  ASSUME IndInv, SoloInv, NEW w \in Workers, Enqueue(w)
  PROVE  SoloInv'
BY SoloAside DEF Enqueue, Busy

LEMMA SoloFail ==
  ASSUME IndInv, SoloInv, NEW w \in Workers, Fail(w)
  PROVE  SoloInv'
<1>1. /\ mishaps' = mishaps \cup {"failure"} /\ Goto(w, Idle)
      /\ UNCHANGED <<template, status, context, stepStatus, history>>
  BY DEF Fail
<1>2. CASE ~Busy(w)
  BY <1>1, <1>2, SoloAside
<1>3. CASE Busy(w)
  <2>1. req'[w] = Idle /\ \A v \in Workers \ {w} : req'[v] = req[v]
    BY <1>1, IdleType, GotoKeeps DEF Goto, IndInv
  <2>2. Idle.at = "idle"
    BY DEF Idle
  <2>3. SnapshotOK(req[w])' /\ ProgressOK(req[w])'
    BY <2>1, <2>2 DEF SnapshotOK, ProgressOK
  <2>4. Alone' => NeverRerun' /\ \A v \in Workers \ {w} : ~Busy(v)
    BY <1>1, <1>3, OthersRest DEF Alone, NeverRerun, history, SoloInv, AloneOK
  <2>5. Orderly' => RowsOrderly'
    BY <1>1 DEF Orderly, Alone, RowsOrderly, NoneWaits, SoloInv, OrderlyOK
  <2>6. BranchesFollowOutputs' /\ mishaps' # {}
    BY <1>1 DEF BranchesFollowOutputs
  <2>7. QED
    BY <1>1, <2>1, <2>3, <2>4, <2>5, <2>6, SoloAssemble
<1>4. QED
  BY <1>2, <1>3

\* A call that begins, when no other is at work.
LEMMA SoloBeginCall ==
  ASSUME IndInv, SoloInv, NEW w \in Workers, NEW x \in Request, Goto(w, x),
         UNCHANGED <<template, status, context, stepStatus, history>>,
         mishaps \cup Overlapped(w) \subseteq mishaps', req[w] = Idle,
         SnapshotOK(req[w])',
         Orderly' /\ Orderly => ProgressOK(req[w])',
         mishaps' = {} /\ context = produced => ContextOK(req[w])'
  PROVE  SoloInv'
<1>1. \A v \in Workers \ {w} : req'[v] = req[v]
  BY GotoKeeps DEF Goto, IndInv
<1>2. Alone' => Alone /\ \A v \in Workers \ {w} : ~Busy(v)
  BY DEF Alone, Overlapped
<1>3. Alone' => NeverRerun'
  BY <1>2 DEF NeverRerun, history, SoloInv, AloneOK
<1>4. Orderly' => Orderly /\ RowsOrderly'
  BY DEF Orderly, Alone, RowsOrderly, NoneWaits, SoloInv, OrderlyOK
<1>5. mishaps' = {} => mishaps = {} /\ context = produced
  <2>1. mishaps' = {} => mishaps = {} /\ \A v \in Workers \ {w} : ~Busy(v)
    BY <1>2 DEF Alone
  <2>2. req[w].at = "idle"
    BY DEF Idle
  <2>3. QED
    BY <2>1, <2>2, ContextNow
<1>6. BranchesFollowOutputs'
  BY <1>5 DEF BranchesFollowOutputs, SoloInv, history, template
<1>7. Alone' => NeverRerun' /\ SnapshotOK(req[w])'
  BY <1>3
<1>8. Orderly' => RowsOrderly' /\ ProgressOK(req[w])'
  BY <1>4
<1>9. mishaps' = {} => ContextOK(req[w])'
        /\ (context' = produced' \/ req'[w].at \in {"context", "reopen"})
  BY <1>5 DEF history
<1>10. QED
  BY <1>1, <1>2, <1>6, <1>7, <1>8, <1>9, SoloAssemble

LEMMA SoloTakeJob ==
  ASSUME IndInv, SoloInv, NEW w \in Workers, TakeJob(w)
  PROVE  SoloInv'
<1> DEFINE x == [Idle EXCEPT !.op = "advance", !.at = "load"]
<1>1. x \in Request /\ x.at = "load"
  BY IdleType DEF Idle, Request, Places
<1>2. Goto(w, x) /\ req'[w] = x
  BY <1>1, GotoKeeps DEF TakeJob, Goto, IndInv
<1> HIDE DEF x
<1>3. SnapshotOK(req[w])' /\ ProgressOK(req[w])' /\ ContextOK(req[w])'
  BY <1>1, <1>2 DEF SnapshotOK, ProgressOK, ContextOK
<1>4. QED
  BY <1>1, <1>2, <1>3, SoloBeginCall DEF TakeJob

\* In order, only a waiting step is resumed, and no COMPLETED run has one.
LEMMA SoloResume ==
  ASSUME IndInv, SoloInv, NEW w \in Workers, NEW i \in Steps, NEW output \in {{}, {i}},
         Resume(w, i, output)
  PROVE  SoloInv'
<1> DEFINE x == [Idle EXCEPT !.op = "resume", !.at = "resume", !.step = i,
                             !.output = output, !.ctx = context \cup output]
<1>1. i \in 0..N /\ output \in SUBSET Steps /\ context \in SUBSET Steps
  BY NAssumption DEF Steps, IndInv, TypeOK
<1>2. /\ x \in Request /\ x.at = "resume" /\ x.step = i
      /\ x.output = output /\ x.ctx = context \cup output
  BY <1>1, IdleType DEF Idle, Request, Places
<1>3. Goto(w, x) /\ UNCHANGED <<template, status, context, stepStatus, history>>
      /\ req[w] = Idle /\ mishaps \cup Overlapped(w) \subseteq mishaps'
  BY DEF Resume
<1>4. req'[w] = x
  BY <1>2, <1>3, GotoKeeps DEF Goto, IndInv
<1> HIDE DEF x
<1>5. SnapshotOK(req[w])'
  BY <1>2, <1>4 DEF SnapshotOK
<1>6. Orderly' /\ Orderly => ProgressOK(req[w])'
  <2> SUFFICES ASSUME Orderly', Orderly
               PROVE  status' # "COMPLETED" /\ stepStatus'[i] = "WAITING"
    BY <1>2, <1>4 DEF ProgressOK
  <2>1. stepStatus[i] = "WAITING"
    BY DEF Resume, Orderly
  <2>2. status # "COMPLETED"
    BY <2>1 DEF SoloInv, OrderlyOK, RowsOrderly, NoneWaits
  <2>3. QED
    BY <1>3, <2>1, <2>2
<1>7. context = produced => ContextOK(req[w])'
  BY <1>2, <1>3, <1>4 DEF ContextOK, history
<1>8. QED
  BY <1>2, <1>3, <1>5, <1>6, <1>7, SoloBeginCall

-----------------------------------------------------------------------------
(* Steps that write a row.                                                 *)

\* A condition is about outputs of the steps before it only.
LEMMA LooksBack ==
  ASSUME IndInv, ConditionsLookBack, NEW i \in Steps, NEW S \in SUBSET Steps
  PROVE  ConditionMet(condition[i], S) <=> ConditionMet(condition[i], S \cap 1..(i - 1))
<1>1. condition[i].on \in 0..N /\ condition[i].on < i /\ i \in 1..N
  BY DEF IndInv, TypeOK, Condition, ConditionsLookBack, Steps
<1>2. condition[i].on # 0 => condition[i].on \in 1..(i - 1)
  BY <1>1, NAssumption
<1>3. QED
  BY <1>2 DEF ConditionMet

\* A row decided on the outputs before it, while no later row is there, keeps
\* every branch justified, even if its step now gives an output.
LEMMA BranchesKept ==
  ASSUME IndInv, SoloInv, mishaps = {}, UNCHANGED template, NEW i \in Steps,
         \A j \in Steps \ {i} : stepStatus'[j] = stepStatus[j],
         \A j \in Steps : i < j => stepStatus[j] = NONE,
         produced \subseteq produced', produced' \subseteq produced \cup {i},
         stepStatus'[i] = "SKIPPED" => ~ConditionMet(condition[i], produced \cap 1..(i - 1)),
         stepStatus'[i] \in {"WAITING", "COMPLETED"} =>
           ConditionMet(condition[i], produced \cap 1..(i - 1))
  PROVE  BranchesFollowOutputs'
<1> SUFFICES ASSUME NEW j \in Steps
             PROVE  LET before == produced' \cap 1..(j - 1)
                    IN /\ stepStatus'[j] = "SKIPPED" => ~ConditionMet(condition'[j], before)
                       /\ stepStatus'[j] \in {"WAITING", "COMPLETED"} =>
                            ConditionMet(condition'[j], before)
  BY DEF BranchesFollowOutputs
<1>1. i \in 1..N /\ j \in 1..N /\ condition' = condition
  BY DEF Steps, template
<1>2. CASE i < j
  BY <1>1, <1>2 DEF NONE
<1>3. CASE ~(i < j)
  <2>1. i \notin 1..(j - 1)
    BY <1>1, <1>3, NAssumption
  <2>2. produced' \cap 1..(j - 1) = produced \cap 1..(j - 1)
    BY <2>1
  <2>3. QED
    BY <1>1, <2>2 DEF SoloInv, BranchesFollowOutputs
<1>4. QED
  BY <1>2, <1>3

\* What an orderly loop knows of the step it is about to decide.
LEMMA DueIsOpen ==
  ASSUME IndInv, SoloInv, NEW w \in Workers, Due(w)
  PROVE  /\ req[w] \in Request /\ req[w].pos \in Steps /\ req[w].at = "step" /\ Busy(w)
         /\ Alone => /\ stepStatus[req[w].pos] \notin TERMINAL_RUN_STEP
                     /\ KnowsRowsFrom(req[w].pos, req[w])
         /\ Orderly => /\ \A j \in Steps : req[w].pos <= j => stepStatus[j] = NONE
                       /\ status # "COMPLETED" /\ NoneWaits
         /\ mishaps = {} => /\ Orderly /\ context = produced /\ req[w].ctx = produced
<1> DEFINE r == req[w]
           i == r.pos
<1>1. /\ r \in Request /\ i \in Steps /\ r.at = "step" /\ Busy(w)
      /\ Alone => SnapshotOK(r)
      /\ Orderly => ProgressOK(r)
      /\ mishaps = {} => Orderly /\ ContextOK(r)
  BY SoloBefore DEF Due, AtStep, Busy
<1>2. i \in 1..N
  BY <1>1 DEF Steps
<1>3. Alone => stepStatus[i] \notin TERMINAL_RUN_STEP /\ KnowsRowsFrom(i, r)
  BY <1>1, <1>2 DEF SnapshotOK, KnowsRowsFrom, Due, Processed
<1>4. Orderly => NoneWaits /\ status # "COMPLETED"
  BY <1>1 DEF ProgressOK
<1>5. Orderly => stepStatus[i] = NONE
  BY <1>1, <1>3, <1>4
     DEF Orderly, NoneWaits, TERMINAL_RUN_STEP, IndInv, TypeOK, RunStepStatus
<1>6. Orderly => \A j \in Steps : i <= j => stepStatus[j] = NONE
  <2> SUFFICES ASSUME Orderly, NEW j \in Steps, i <= j
               PROVE  stepStatus[j] = NONE
    OBVIOUS
  <2>1. i = j \/ i < j
    BY <1>2 DEF Steps
  <2>2. QED
    BY <1>1, <1>5, <2>1 DEF IndInv, StepsInOrder, Orderly
<1>7. mishaps = {} => context = produced /\ r.ctx = produced
  BY <1>1, OthersRest, ContextNow DEF ContextOK, Orderly
<1>8. QED
  BY <1>1, <1>3, <1>4, <1>6, <1>7

\* The loop writes the row of the step it is at and goes on as x.
LEMMA SoloWrites ==
  ASSUME IndInv, SoloInv, NEW w \in Workers, NEW x \in Request,
         NEW st \in RunStepStatus, Due(w), Upsert(w, st), Goto(w, x),
         UNCHANGED <<template, status, context, mishaps>>,
         produced \subseteq produced', produced' \subseteq produced \cup {req[w].pos},
         \/ x.at = "park" /\ st = "WAITING"
         \/ x.at = "step" /\ x.pos = req[w].pos + 1 /\ st # "WAITING"
         \/ x.at = "context" /\ x.pos = req[w].pos /\ st # "WAITING",
         x.seen = req[w].seen,
         x.at # "park" => (req[w].ctx = produced => x.ctx = produced'),
         x.at # "context" => produced' = produced,
         st = "SKIPPED" <=> ~Applies(w)
  PROVE  SoloInv'
<1> DEFINE r == req[w]
           i == r.pos
<1>1. /\ r \in Request /\ i \in Steps /\ Busy(w)
      /\ Alone => stepStatus[i] \notin TERMINAL_RUN_STEP /\ KnowsRowsFrom(i, r)
      /\ Orderly => /\ \A j \in Steps : i <= j => stepStatus[j] = NONE
                    /\ status # "COMPLETED" /\ NoneWaits
      /\ mishaps = {} => Orderly /\ context = produced /\ r.ctx = produced
  BY DueIsOpen
<1>2. req'[w] = x /\ \A v \in Workers \ {w} : req'[v] = req[v]
  BY GotoKeeps DEF Goto, IndInv
<1>3. /\ stepStatus'[i] = st
      /\ \A j \in Steps \ {i} : stepStatus'[j] = stepStatus[j]
  BY <1>1 DEF Upsert, IndInv, TypeOK
<1>4. i \in 1..N /\ \A j \in Steps : j \in 1..N
  BY <1>1 DEF Steps
<1>5. Alone' => NeverRerun' /\ \A v \in Workers \ {w} : ~Busy(v)
  BY <1>1, OthersRest DEF Alone, Upsert, NeverRerun, SoloInv, AloneOK
<1>6. Alone' => SnapshotOK(req[w])'
  <2>1. \A j \in Steps : j >= i + 1 => j # i /\ j >= i
    BY <1>4, NAssumption
  <2>2. Alone => \A j \in Steps : j >= i + 1 => x.seen[j] = stepStatus'[j]
    BY <1>1, <1>3, <2>1 DEF KnowsRowsFrom
  <2>3. QED
    BY <1>2, <2>2 DEF Alone, SnapshotOK, KnowsRowsFrom
<1>7. Orderly' => RowsOrderly' /\ ProgressOK(req[w])'
  <2> SUFFICES ASSUME Orderly
               PROVE  RowsOrderly' /\ ProgressOK(req[w])'
    BY DEF Orderly, Alone
  <2>1. \A j \in Steps : i < j => stepStatus'[j] = NONE
    BY <1>1, <1>3, <1>4
  <2>2. \A j \in Steps : stepStatus'[j] = "WAITING" => j = i /\ st = "WAITING"
    BY <1>1, <1>3 DEF NoneWaits
  <2>3. RowsOrderly'
    BY <1>1, <2>1, <2>2 DEF RowsOrderly
  <2>4. x.at # "park" => NoneWaits'
    BY <2>2 DEF NoneWaits
  <2>5. QED
    BY <1>1, <1>2, <2>3, <2>4 DEF ProgressOK
<1>8. mishaps' = {} => ContextOK(req[w])'
        /\ (context' = produced' \/ req'[w].at \in {"context", "reopen"})
  BY <1>1, <1>2 DEF ContextOK
<1>9. BranchesFollowOutputs'
  <2> SUFFICES ASSUME mishaps = {}
               PROVE  BranchesFollowOutputs'
    BY DEF BranchesFollowOutputs
  <2>1. Applies(w) <=> ConditionMet(condition[i], produced \cap 1..(i - 1))
    BY <1>1, LooksBack DEF Applies, SoloInv, IndInv, TypeOK
  <2>2. \A j \in Steps : i < j => stepStatus[j] = NONE
    BY <1>1, <1>4
  <2>3. st # "SKIPPED" => Applies(w)
    OBVIOUS
  <2>4. QED
    BY <1>1, <1>3, <2>1, <2>2, <2>3, BranchesKept
<1>10. QED
  BY <1>2, <1>5, <1>6, <1>7, <1>8, <1>9, SoloAssemble

LEMMA SoloSkipStep ==
  ASSUME IndInv, SoloInv, NEW w \in Workers, SkipStep(w)
  PROVE  SoloInv'
<1> DEFINE x == NextStep(req[w])
<1>1. req[w] \in Request /\ req[w].pos \in 1..N
  BY Before DEF SkipStep, Due, AtStep, Steps
<1>2. req[w].pos + 1 \in 1..(N + 1)
  BY <1>1, NAssumption
<1>3. /\ x \in Request /\ x.at = "step" /\ x.pos = req[w].pos + 1
      /\ x.seen = req[w].seen /\ x.ctx = req[w].ctx
  BY <1>1, <1>2 DEF NextStep, Request, Places
<1>4. /\ Due(w) /\ ~Applies(w) /\ Upsert(w, "SKIPPED") /\ Goto(w, x)
      /\ UNCHANGED <<template, status, context, mishaps>> /\ produced' = produced
      /\ "SKIPPED" \in RunStepStatus
  BY DEF SkipStep, RunStepStatus
<1> HIDE DEF x
<1>5. QED
  BY <1>3, <1>4, SoloWrites

LEMMA SoloParkStep ==
  ASSUME IndInv, SoloInv, NEW w \in Workers, ParkStep(w)
  PROVE  SoloInv'
<1> DEFINE x == [req[w] EXCEPT !.at = "park"]
<1>1. req[w] \in Request
  BY Before
<1>2. x \in Request /\ x.at = "park" /\ x.seen = req[w].seen
  BY <1>1 DEF Request, Places
<1>3. /\ Due(w) /\ Applies(w) /\ Upsert(w, "WAITING") /\ Goto(w, x)
      /\ UNCHANGED <<template, status, context, mishaps>> /\ produced' = produced
      /\ "WAITING" \in RunStepStatus
  BY DEF ParkStep, RunStepStatus
<1> HIDE DEF x
<1>4. QED
  BY <1>2, <1>3, SoloWrites

LEMMA SoloRunStep ==
  ASSUME IndInv, SoloInv, NEW w \in Workers, RunStep(w)
  PROVE  SoloInv'
<1> DEFINE r == req[w]
           x == [r EXCEPT !.at = "context", !.ctx = r.ctx \cup {r.pos}]
<1>1. r \in Request /\ r.pos \in Steps
  BY Before DEF RunStep, Due, AtStep
<1>2. /\ x \in Request /\ x.at = "context" /\ x.pos = r.pos /\ x.seen = r.seen
      /\ x.ctx = r.ctx \cup {r.pos}
  BY <1>1 DEF Request, Places
<1>3. /\ Due(w) /\ Applies(w) /\ Upsert(w, "COMPLETED") /\ Goto(w, x)
      /\ UNCHANGED <<template, status, context, mishaps>>
      /\ produced' = produced \cup {r.pos}
      /\ "COMPLETED" \in RunStepStatus
  BY DEF RunStep, RunStepStatus
<1> HIDE DEF x
<1>4. QED
  BY <1>2, <1>3, SoloWrites

\* In order, the step that is resumed waited, as the last one.
LEMMA SoloCompleteStep ==
  ASSUME IndInv, SoloInv, NEW w \in Workers, CompleteStep(w)
  PROVE  SoloInv'
<1> DEFINE r == req[w]
           i == r.step
           x == [r EXCEPT !.at = "reopen"]
<1>1. /\ r \in Request /\ MemoryOK(r) /\ r.at = "resume" /\ Busy(w)
      /\ Orderly => ProgressOK(r)
      /\ mishaps = {} => Orderly /\ ContextOK(r)
  BY SoloBefore, Before DEF CompleteStep, Busy
<1>2. x \in Request /\ x.at = "reopen" /\ x.ctx = r.ctx
  BY <1>1 DEF Request, Places
<1>3. req'[w] = x /\ \A v \in Workers \ {w} : req'[v] = req[v]
  BY <1>2, GotoKeeps DEF CompleteStep, Goto, IndInv
<1> HIDE DEF x
<1>4. /\ stepStatus' = [stepStatus EXCEPT ![i] = "COMPLETED"]
      /\ produced' = produced \cup r.output
      /\ UNCHANGED <<template, status, context, mishaps, reran>>
  BY DEF CompleteStep
<1>5. i \in Steps
  BY <1>1 DEF MemoryOK
<1>6. /\ stepStatus'[i] = "COMPLETED"
      /\ \A j \in Steps \ {i} : stepStatus'[j] = stepStatus[j]
  BY <1>4, <1>5 DEF IndInv, TypeOK
<1>7. Orderly => /\ stepStatus[i] = "WAITING" /\ status # "COMPLETED"
                 /\ \A j \in Steps : i < j => stepStatus[j] = NONE
  BY <1>1, <1>5 DEF ProgressOK, SoloInv, OrderlyOK, RowsOrderly
<1>8. Alone' => /\ NeverRerun' /\ SnapshotOK(req[w])'
                /\ \A v \in Workers \ {w} : ~Busy(v)
  BY <1>1, <1>2, <1>3, <1>4, OthersRest
     DEF Alone, NeverRerun, SnapshotOK, SoloInv, AloneOK
<1>9. Orderly' => RowsOrderly' /\ ProgressOK(req[w])'
  <2> SUFFICES ASSUME Orderly
               PROVE  RowsOrderly' /\ ProgressOK(req[w])'
    BY <1>4 DEF Orderly, Alone
  <2>1. \A j \in Steps : stepStatus'[j] = "WAITING" => j # i /\ stepStatus[j] = "WAITING"
    BY <1>6
  <2>2. \A j, k \in Steps : stepStatus'[j] = "WAITING" /\ j < k => stepStatus'[k] = NONE
    <3> SUFFICES ASSUME NEW j \in Steps, NEW k \in Steps,
                        stepStatus'[j] = "WAITING", j < k
                 PROVE  stepStatus'[k] = NONE
      OBVIOUS
    <3>1. stepStatus[k] = NONE
      BY <2>1 DEF SoloInv, OrderlyOK, RowsOrderly
    <3>2. k # i
      BY <1>7, <3>1 DEF NONE
    <3>3. QED
      BY <1>6, <3>1, <3>2
  <2>3. QED
    BY <1>2, <1>3, <1>4, <1>7, <2>2 DEF RowsOrderly, ProgressOK
<1>10. mishaps' = {} => ContextOK(req[w])' /\ req'[w].at = "reopen"
  BY <1>1, <1>2, <1>3, <1>4 DEF ContextOK
<1>11. BranchesFollowOutputs'
  <2> SUFFICES ASSUME mishaps = {}
               PROVE  BranchesFollowOutputs'
    BY <1>4 DEF BranchesFollowOutputs
  <2>1. ConditionMet(condition[i], produced \cap 1..(i - 1))
    BY <1>1, <1>5, <1>7 DEF SoloInv, BranchesFollowOutputs
  <2>2. r.output \subseteq {i}
    BY <1>1 DEF ContextOK
  <2>3. produced \subseteq produced' /\ produced' \subseteq produced \cup {i}
    BY <1>4, <2>2
  <2>4. QED
    BY <1>1, <1>4, <1>5, <1>6, <1>7, <2>1, <2>3, BranchesKept
<1>12. QED
  BY <1>3, <1>4, <1>8, <1>9, <1>10, <1>11, SoloAssemble

-----------------------------------------------------------------------------

LEMMA InitSoloInv ==
  ASSUME Init
  PROVE  SoloInv
<1>1. \A w \in Workers : req[w].at = "idle"
  BY DEF Init, Idle
<1>2. \A i \in Steps : stepStatus[i] = NONE
  BY DEF Init, NoRows
<1>3. status = NONE /\ context = {} /\ produced = {} /\ reran = {} /\ mishaps = {}
  BY DEF Init
<1>4. ConditionsLookBack
  BY DEF Init, ConditionsLookBack
<1>5. AloneOK
  BY <1>1, <1>3 DEF AloneOK, NeverRerun, OneIsBusy, Busy, SnapshotOK
<1>6. OrderlyOK
  BY <1>1, <1>2, <1>3 DEF OrderlyOK, RowsOrderly, ProgressOK, NoneWaits, NONE
<1>7. ExactOK
  BY <1>1, <1>3 DEF ExactOK, ContextIsSaved, ContextOK
<1>8. BranchesFollowOutputs
  BY <1>2 DEF BranchesFollowOutputs, NONE
<1>9. QED
  BY <1>4, <1>5, <1>6, <1>7, <1>8 DEF SoloInv

LEMMA SoloContinue ==
  ASSUME IndInv, SoloInv, NEW w \in Workers, Continue(w)
  PROVE  SoloInv'
BY SoloEnqueue, SoloLoadRun, SoloLoadSteps, SoloBegin, SoloPassStep, SoloSkipStep,
   SoloParkStep, SoloPark, SoloRunStep, SoloSaveContext, SoloCompleteRun,
   SoloCompleteStep, SoloReopen DEF Continue

LEMMA SoloStutter ==
  ASSUME SoloInv, UNCHANGED vars
  PROVE  SoloInv'
<1>1. ConditionsLookBack' /\ BranchesFollowOutputs'
  BY DEF SoloInv, ConditionsLookBack, BranchesFollowOutputs, vars
<1>2. AloneOK'
  BY DEF SoloInv, AloneOK, Alone, NeverRerun, OneIsBusy, Busy, SnapshotOK,
     KnowsRowsFrom, vars
<1>3. OrderlyOK'
  BY DEF SoloInv, OrderlyOK, Orderly, Alone, RowsOrderly, ProgressOK, NoneWaits, vars
<1>4. ExactOK'
  BY DEF SoloInv, ExactOK, ContextIsSaved, ContextOK, vars
<1>5. QED
  BY <1>1, <1>2, <1>3, <1>4 DEF SoloInv

\* What the engine knows in a run whose calls do not overlap, go astray or
\* fail: each holds as far as its mishap has not happened.
THEOREM SoloInvariance == Spec => []SoloInv
<1>1. Init => SoloInv
  BY InitSoloInv
<1>2. IndInv /\ SoloInv /\ [Next]_vars => SoloInv'
  <2> SUFFICES ASSUME IndInv, SoloInv, [Next]_vars
               PROVE  SoloInv'
    OBVIOUS
  <2>1. ASSUME NEW w \in Workers, StartRun(w) PROVE SoloInv'
    BY <2>1, SoloStart
  <2>2. ASSUME NEW w \in Workers, TakeJob(w) PROVE SoloInv'
    BY <2>2, SoloTakeJob
  <2>3. ASSUME NEW w \in Workers, NEW i \in Steps, NEW output \in {{}, {i}},
               Resume(w, i, output)
        PROVE  SoloInv'
    BY <2>3, SoloResume
  <2>4. ASSUME NEW w \in Workers, Continue(w) PROVE SoloInv'
    BY <2>4, SoloContinue
  <2>5. ASSUME NEW w \in Workers, Fail(w) PROVE SoloInv'
    BY <2>5, SoloFail
  <2>6. CASE UNCHANGED vars
    BY <2>6, SoloStutter
  <2>7. QED
    BY <2>1, <2>2, <2>3, <2>4, <2>5, <2>6 DEF Next
<1>3. QED
  BY <1>1, <1>2, Invariance, PTL DEF Spec

\* As the engine's comment has it, terminal run steps are never re-run, as long
\* as calls on the run do not overlap.
THEOREM NoStepIsRerun == Spec => []NeverRerunAlone
<1>1. SoloInv => NeverRerunAlone
  BY DEF SoloInv, AloneOK, Alone, NeverRerunAlone
<1>2. QED
  BY <1>1, SoloInvariance, PTL

\* Without a mishap every step was run or skipped as the outputs of the steps
\* before it demand: no output is lost on the way to a condition.
THEOREM BranchesAreRight == Spec => []BranchesFollowOutputs
<1>1. SoloInv => BranchesFollowOutputs
  BY DEF SoloInv
<1>2. QED
  BY <1>1, SoloInvariance, PTL

\* A leftover advance job does not disturb a COMPLETED run: its status and its
\* context are final, whatever fails.
THEOREM CompletionIsFinal == Spec => CompletedStays
<1>1. IndInv /\ SoloInv /\ SoloInv' /\ [Next]_vars =>
        [ status = "COMPLETED" /\ mishaps' \cap {"overlap", "stray"} = {} =>
            status' = "COMPLETED" /\ context' = context ]_vars
  <2> SUFFICES ASSUME IndInv, SoloInv, Next, status = "COMPLETED",
                      mishaps' \cap {"overlap", "stray"} = {}
               PROVE  UNCHANGED <<status, context>>
    OBVIOUS
  <2>1. mishaps \subseteq mishaps'
    BY DEF Next, StartRun, TakeJob, Resume, Fail, Continue, Enqueue, LoadRun,
       LoadSteps, Begin, PassStep, SkipStep, ParkStep, Park, RunStep, SaveContext,
       CompleteRun, CompleteStep, Reopen
  <2>2. Orderly
    BY <2>1 DEF Orderly, Alone
  <2>3. \A w \in Workers :
          req[w].at \notin {"begin", "step", "context", "park", "resume", "reopen"}
    BY <2>2 DEF SoloInv, OrderlyOK, ProgressOK
  <2>4. ASSUME NEW w \in Workers, StartRun(w) PROVE FALSE
    BY <2>4 DEF StartRun, NONE
  <2>5. ASSUME NEW w \in Workers, Continue(w) PROVE UNCHANGED <<status, context>>
    BY <2>3, <2>5 DEF Continue, Enqueue, LoadRun, LoadSteps, Begin, PassStep,
       SkipStep, ParkStep, Park, RunStep, SaveContext, CompleteRun, CompleteStep,
       Reopen, Due, AtStep
  <2>6. QED
    BY <2>4, <2>5 DEF Next, TakeJob, Resume, Fail
<1>2. QED
  BY <1>1, Invariance, SoloInvariance, PTL DEF Spec, CompletedStays
=============================================================================
