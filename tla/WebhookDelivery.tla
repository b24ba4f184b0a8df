--------------------------- MODULE WebhookDelivery ---------------------------
(***************************************************************************)
(* One event on its way to an organization's webhooks: dispatch and        *)
(* attemptDelivery of modules/webhooks/webhook-delivery.service.ts, the    *)
(* processor around it, and update and remove of webhooks.service.ts.      *)
(*                                                                         *)
(* Each webhook has at most one delivery of the event, so deliveries and   *)
(* their jobs are named after it.  A job is retried by the queue on two    *)
(* accounts that attemptDelivery does not see: the attempts it has failed, *)
(* and the times its worker fell silent.  attemptDelivery keeps an account *)
(* of its own in the row, and never asks what the row's status is.         *)
(***************************************************************************)
EXTENDS Naturals, FiniteSets

CONSTANTS
  Hooks,        \* the organization's webhooks that subscribe to the event
  Workers,      \* concurrent runs of the processor
  MaxAttempts,  \* WEBHOOK_MAX_ATTEMPTS
  MaxStalls,    \* BullMQ's maxStalledCount
  None          \* no webhook or worker

ASSUME WorkersAssumption == IsFiniteSet(Workers)
ASSUME LimitsAssumption == MaxAttempts \in Nat \ {0} /\ MaxStalls \in Nat
ASSUME NoneAssumption == None \notin Hooks \cup Workers

VARIABLES
  hook,      \* webhooks.active, or that the webhook was removed
  status,    \* webhook_deliveries.status; ABSENT before, REMOVED after the row
  attempts,  \* webhook_deliveries.attempts
  job,       \* the delivery's job
  fanOut,    \* how far dispatch has come
  req,       \* what each worker is doing and what it has read
  posts,     \* history: the requests sent to each webhook
  accepted,  \* history: the webhooks that have answered with success
  again,     \* history: the results recorded over a decided status
  torn,      \* history: the deliveries two workers have had at once
  mishap     \* history: deliveries with a failed call or too many stalls

rows == <<hook, status, attempts>>
history == <<posts, accepted, again, torn, mishap>>
vars == <<hook, status, attempts, job, fanOut, req,
          posts, accepted, again, torn, mishap>>

Decided == {"DELIVERED", "EXHAUSTED"}
Live == {"PENDING", "FAILED"} \cup Decided
Resting == {"none", "done", "failed"}

Job == [at : Resting \cup {"waiting", "delayed", "active"},
        made : Nat, stalls : Nat, owner : Workers \cup {None}]

NoJob == [at |-> "none", made |-> 0, stalls |-> 0, owner |-> None]

Attempt == [at : {"idle", "load", "loaded", "answered", "settle"},
            h : Hooks \cup {None}, attempt : Nat, ok : BOOLEAN, stop : BOOLEAN]

Idle == [at |-> "idle", h |-> None, attempt |-> 0, ok |-> FALSE, stop |-> FALSE]

TypeOK ==
  /\ hook \in [Hooks -> {"active", "inactive", "removed"}]
  /\ status \in [Hooks -> {"ABSENT", "REMOVED"} \cup Live]
  /\ attempts \in [Hooks -> Nat]
  /\ job \in [Hooks -> Job]
  /\ fanOut \in [at : {"idle", "loop", "enqueue", "done", "cut"},
                 todo : SUBSET Hooks, h : Hooks \cup {None}]
  /\ req \in [Workers -> Attempt]
  /\ posts \in [Hooks -> Nat]
  /\ again \in [Hooks -> Nat]
  /\ accepted \in SUBSET Hooks
  /\ torn \in SUBSET Hooks
  /\ mishap \in SUBSET Hooks

Init ==
  /\ hook \in [Hooks -> {"active", "inactive"}]
  /\ status = [h \in Hooks |-> "ABSENT"]
  /\ attempts = [h \in Hooks |-> 0]
  /\ job = [h \in Hooks |-> NoJob]
  /\ fanOut = [at |-> "idle", todo |-> {}, h |-> None]
  /\ req = [w \in Workers |-> Idle]
  /\ posts = [h \in Hooks |-> 0]
  /\ again = [h \in Hooks |-> 0]
  /\ accepted = {}
  /\ torn = {}
  /\ mishap = {}

-----------------------------------------------------------------------------
(* The webhooks.                                                           *)

Update(h, active) ==
  /\ hook[h] # "removed"
  /\ hook' = [hook EXCEPT ![h] = IF active THEN "active" ELSE "inactive"]
  /\ UNCHANGED <<status, attempts, job, fanOut, req, history>>

\* The deliveries go with the webhook; their jobs stay.
Remove(h) ==
  /\ hook[h] # "removed"
  /\ hook' = [hook EXCEPT ![h] = "removed"]
  /\ status' = [status EXCEPT ![h] = IF @ \in Live THEN "REMOVED" ELSE @]
  /\ UNCHANGED <<attempts, job, fanOut, req, history>>

-----------------------------------------------------------------------------
(* dispatch.                                                               *)

Dispatch ==
  /\ fanOut.at = "idle"
  /\ fanOut' = [fanOut EXCEPT !.at = "loop",
                              !.todo = {h \in Hooks : hook[h] = "active"}]
  /\ UNCHANGED <<rows, job, req, history>>

\* Planted bug: the loop goes on to the next webhook without adding a job.
MutCreateDelivery(h) ==
  /\ fanOut.at = "loop" /\ h \in fanOut.todo
  /\ hook[h] # "removed"
  /\ status' = [status EXCEPT ![h] = "PENDING"]
  /\ fanOut' = [fanOut EXCEPT !.todo = @ \ {h}]
  /\ UNCHANGED <<hook, attempts, job, req, history>>

CreateDelivery(h) ==
  /\ fanOut.at = "loop" /\ h \in fanOut.todo
  /\ hook[h] # "removed"
  /\ status' = [status EXCEPT ![h] = "PENDING"]
  /\ fanOut' = [at |-> "enqueue", todo |-> fanOut.todo \ {h}, h |-> h]
  /\ UNCHANGED <<hook, attempts, job, req, history>>

Enqueue ==
  /\ fanOut.at = "enqueue"
  /\ job' = [job EXCEPT ![fanOut.h] = [NoJob EXCEPT !.at = "waiting"]]
  /\ fanOut' = [fanOut EXCEPT !.at = "loop", !.h = None]
  /\ UNCHANGED <<rows, req, history>>

EndDispatch ==
  /\ fanOut.at = "loop" /\ fanOut.todo = {}
  /\ fanOut' = [fanOut EXCEPT !.at = "done"]
  /\ UNCHANGED <<rows, job, req, history>>

\* A webhook removed since the loop's first read refuses its delivery's row, a
\* call fails or the process dies: the webhooks still to do get nothing.
CutDispatch ==
  /\ fanOut.at \in {"loop", "enqueue"}
  /\ fanOut' = [fanOut EXCEPT !.at = "cut"]
  /\ UNCHANGED <<rows, job, req, history>>

-----------------------------------------------------------------------------
(* attemptDelivery and the processor.                                      *)

Goto(w, r) == req' = [req EXCEPT ![w] = r]

Take(w, h) ==
  /\ req[w] = Idle
  /\ job[h].at = "waiting"
  /\ job' = [job EXCEPT ![h].at = "active", ![h].owner = w]
  /\ Goto(w, [Idle EXCEPT !.at = "load", !.h = h])
  /\ UNCHANGED <<rows, fanOut, history>>

\* Planted bug: the attempts are counted as the queue counts them.
MutLoad(w) ==
  LET r == req[w]
  IN /\ r.at = "load"
     /\ Goto(w, IF status[r.h] \in Live
                THEN [r EXCEPT !.at = "loaded", !.attempt = job[r.h].made + 1]
                ELSE [r EXCEPT !.at = "settle", !.stop = TRUE])
     /\ UNCHANGED <<rows, job, fanOut, history>>

\* A delivery that is gone counts as exhausted.
Load(w) ==
  LET r == req[w]
  IN /\ r.at = "load"
     /\ Goto(w, IF status[r.h] \in Live
                THEN [r EXCEPT !.at = "loaded", !.attempt = attempts[r.h] + 1]
                ELSE [r EXCEPT !.at = "settle", !.stop = TRUE])
     /\ UNCHANGED <<rows, job, fanOut, history>>

\* The request, and its answer or the lack of one within TIMEOUT_MS.
Post(w, ok) ==
  LET r == req[w]
  IN /\ r.at = "loaded"
     /\ posts' = [posts EXCEPT ![r.h] = @ + 1]
     /\ accepted' = IF ok THEN accepted \cup {r.h} ELSE accepted
     /\ Goto(w, [r EXCEPT !.at = "answered", !.ok = ok])
     /\ UNCHANGED <<rows, job, fanOut, again, torn, mishap>>

\* Planted bug: the last attempt is not seen as the last.
MutExhausted(r) == ~r.ok /\ r.attempt > MaxAttempts

\* Planted bug: one attempt too few.
MutExhaustedEarly(r) == ~r.ok /\ r.attempt + 1 >= MaxAttempts

Exhausted(r) == ~r.ok /\ r.attempt >= MaxAttempts

StatusOf(r) ==
  IF r.ok THEN "DELIVERED" ELSE IF Exhausted(r) THEN "EXHAUSTED" ELSE "FAILED"

Record(w) ==
  LET r == req[w]
  IN /\ r.at = "answered"
     /\ status[r.h] \in Live
     /\ status' = [status EXCEPT ![r.h] = StatusOf(r)]
     /\ attempts' = [attempts EXCEPT ![r.h] = r.attempt]
     /\ again' = IF status[r.h] \in Decided /\ r.h \notin torn
                 THEN [again EXCEPT ![r.h] = @ + 1] ELSE again
     /\ Goto(w, [r EXCEPT !.at = "settle", !.stop = r.ok \/ Exhausted(r)])
     /\ UNCHANGED <<hook, job, fanOut, posts, accepted, torn, mishap>>

\* The update of a row that is gone throws.
RecordGone(w) ==
  /\ req[w].at = "answered"
  /\ status[req[w].h] \notin Live
  /\ Goto(w, [req[w] EXCEPT !.at = "settle", !.stop = FALSE])
  /\ UNCHANGED <<rows, job, fanOut, history>>

\* The SELECT or the update fails: the processor throws.
CallFails(w) ==
  /\ req[w].at \in {"load", "answered"}
  /\ Goto(w, [req[w] EXCEPT !.at = "settle", !.stop = FALSE])
  /\ mishap' = mishap \cup {req[w].h}
  /\ UNCHANGED <<rows, job, fanOut, posts, accepted, again, torn>>

\* Planted bug: a failed attempt is repeated by a new job, not by throwing.
MutSettled(w, j) ==
  IF req[w].stop THEN [j EXCEPT !.at = "done", !.owner = None]
  ELSE [NoJob EXCEPT !.at = "delayed"]

\* The processor has returned or thrown: the queue ends or delays the job.
Settled(w, j) ==
  IF req[w].stop THEN [j EXCEPT !.at = "done", !.owner = None]
  ELSE [j EXCEPT !.at = IF j.made + 1 < MaxAttempts THEN "delayed" ELSE "failed",
                 !.made = @ + 1, !.owner = None]

\* A worker that has lost its job to another one settles nothing.
Settle(w) ==
  LET h == req[w].h
  IN /\ req[w].at = "settle"
     /\ job' = IF job[h].owner = w THEN [job EXCEPT ![h] = Settled(w, @)] ELSE job
     /\ Goto(w, Idle)
     /\ UNCHANGED <<rows, fanOut, history>>

-----------------------------------------------------------------------------
(* The queue.                                                              *)

Backoff(h) ==
  /\ job[h].at = "delayed"
  /\ job' = [job EXCEPT ![h].at = "waiting"]
  /\ UNCHANGED <<rows, fanOut, req, history>>

Crash(w) ==
  /\ req[w] # Idle
  /\ Goto(w, Idle)
  /\ UNCHANGED <<rows, job, fanOut, history>>

Attended(h) == \E w \in Workers : job[h].owner = w /\ req[w].h = h

Stalled(j) ==
  [j EXCEPT !.at = IF j.stalls < MaxStalls THEN "waiting" ELSE "failed",
            !.stalls = @ + 1, !.owner = None]

\* The lock of the job's worker has run out.
Stall(h) ==
  /\ job[h].at = "active"
  /\ job' = [job EXCEPT ![h] = Stalled(@)]
  /\ torn' = IF Attended(h) THEN torn \cup {h} ELSE torn
  /\ mishap' = IF Attended(h) \/ job[h].stalls >= MaxStalls
               THEN mishap \cup {h} ELSE mishap
  /\ UNCHANGED <<rows, fanOut, req, posts, accepted, again>>

-----------------------------------------------------------------------------

ContinueDispatch ==
  \/ \E h \in Hooks : CreateDelivery(h)
  \/ Enqueue
  \/ EndDispatch

Continue(w) ==
  \/ Load(w)
  \/ \E ok \in BOOLEAN : Post(w, ok)
  \/ Record(w)
  \/ RecordGone(w)
  \/ Settle(w)

Next ==
  \/ Dispatch
  \/ ContinueDispatch
  \/ CutDispatch
  \/ \E h \in Hooks :
       \/ \E active \in BOOLEAN : Update(h, active)
       \/ Remove(h)
       \/ Backoff(h)
       \/ Stall(h)
  \/ \E w \in Workers :
       \/ \E h \in Hooks : Take(w, h)
       \/ Continue(w)
       \/ CallFails(w)
       \/ Crash(w)

Spec == Init /\ [][Next]_vars

\* The event loop and the queue do what they can; a job whose worker is gone
\* is found stalled.
Fairness ==
  /\ WF_vars(ContinueDispatch)
  /\ \A w \in Workers : WF_vars(Continue(w))
  /\ \A h \in Hooks :
       /\ SF_vars(\E w \in Workers : Take(w, h))
       /\ WF_vars(Backoff(h))
       /\ WF_vars(Stall(h) /\ ~Attended(h))

FairSpec == Spec /\ Fairness

-----------------------------------------------------------------------------
(* What a subscriber and the log's readers rely on.                        *)

\* The log of deliveries is one: attempts are counted one by one, and what is
\* decided is attempted again only when a worker fell silent after deciding.
Log == INSTANCE DeliveryLifecycle
  WITH Deliveries <- Hooks, status <- status, attempts <- attempts,
       again <- again, torn <- torn
ImplementsLog == Log!Spec

\* Whatever fails, and however often the job changes hands, a webhook is sent
\* the event a bounded number of times.
PostsBounded == \A h \in Hooks : posts[h] <= MaxAttempts + MaxStalls

\* A status that ends the delivery is backed by what happened on the wire,
\* also when two workers write over each other.
StatusIsBacked ==
  \A h \in Hooks :
    /\ status[h] = "DELIVERED" => h \in accepted
    /\ status[h] = "EXHAUSTED" => posts[h] >= MaxAttempts

\* "Once attempts are exhausted the delivery row is marked EXHAUSTED and the
\* job succeeds": the two accounts of attempts agree when the job has ended,
\* crashes and removals notwithstanding, unless recording itself went wrong.
EndsDecided ==
  \A h \in Hooks \ mishap :
    job[h].at \in {"done", "failed"} => status[h] \in Decided \cup {"REMOVED"}

\* A delivery that was logged is decided in the end, with the same exceptions
\* and that of a dispatch cut short before it added the job.
DeliverySettles ==
  \A h \in Hooks :
    status[h] = "PENDING" ~>
      \/ status[h] \in Decided \cup {"REMOVED"}
      \/ h \in mishap
      \/ fanOut.at = "cut"

(***************************************************************************)
(* The inductive invariant: a worker's request belongs to one lease of its *)
(* job, and as long as a delivery is not torn only the lease's holder      *)
(* works on it, so what it has read is still so.                           *)
(***************************************************************************)

\* The leases of h's job so far, and the workers yet to post under theirs.
Leases(h) ==
  job[h].made + job[h].stalls + IF job[h].at \in {"active", "done"} THEN 1 ELSE 0
ToPost(h) == {w \in Workers : req[w].h = h /\ req[w].at \in {"load", "loaded"}}

FanOutOK ==
  /\ fanOut.at = "idle" => \A h \in Hooks : status[h] = "ABSENT" /\ job[h] = NoJob
  /\ \A h \in fanOut.todo : status[h] = "ABSENT" /\ job[h] = NoJob
  /\ fanOut.at = "enqueue" =>
       /\ fanOut.h \in Hooks \ fanOut.todo
       /\ status[fanOut.h] # "ABSENT" /\ job[fanOut.h] = NoJob

JobOK(h) ==
  /\ job[h].at = "none" =>
       job[h] = NoJob /\ h \notin torn /\ status[h] \notin Decided
  /\ job[h].at \notin {"none", "failed"} =>
       job[h].made < MaxAttempts /\ job[h].stalls <= MaxStalls
  /\ job[h].at = "failed" => job[h].made + job[h].stalls <= MaxAttempts + MaxStalls
  /\ job[h].at = "active" <=> job[h].owner # None
  /\ job[h].at # "none" => status[h] # "ABSENT"

Metered(h) == posts[h] + Cardinality(ToPost(h)) <= Leases(h)

RowOK(h) ==
  /\ attempts[h] <= posts[h]
  /\ status[h] = "FAILED" => attempts[h] < MaxAttempts
  /\ h \notin mishap /\ status[h] \in Live => job[h].made <= attempts[h]

\* What a worker at delivery h has read and posted.
ReadOK(r) ==
  /\ r.at = "idle" <=> r = Idle
  /\ r.at # "idle" => r.h \in Hooks
  /\ r.at = "loaded" => r.attempt \in 1 .. posts[r.h] + 1
  /\ r.at = "answered" =>
       /\ r.attempt \in 1 .. posts[r.h]
       /\ r.ok => r.h \in accepted

\* The one worker of a delivery that is not torn.
LoneOK(w, r) ==
  r.at # "idle" /\ r.h \notin torn =>
    /\ job[r.h].owner = w
    /\ r.at \in {"loaded", "answered"} /\ status[r.h] \in Live =>
         r.attempt = attempts[r.h] + 1
    /\ r.at = "settle" /\ r.stop => status[r.h] \in Decided \cup {"REMOVED"}
    /\ r.at = "settle" /\ ~r.stop /\ r.h \notin mishap =>
         \/ status[r.h] = "REMOVED"
         \/ status[r.h] = "FAILED" /\ job[r.h].made < attempts[r.h]

\* Whether delivery h may still be attempted in its job's current lease.
Pending(h) ==
  \/ job[h].at \in {"waiting", "delayed"}
  \/ \E w \in Workers : /\ req[w].h = h
                        /\ req[w].at = "settle" => ~req[w].stop

AgainOK(h) ==
  h \notin torn =>
    /\ again[h] <= job[h].stalls
    /\ status[h] \in Decided /\ Pending(h) => again[h] < job[h].stalls

IndInv ==
  /\ TypeOK
  /\ torn \subseteq mishap
  /\ FanOutOK
  /\ \A h \in Hooks : JobOK(h) /\ RowOK(h) /\ AgainOK(h)
  /\ \A h \in Hooks : Metered(h)
  /\ \A w \in Workers : ReadOK(req[w]) /\ LoneOK(w, req[w])
  /\ StatusIsBacked
  /\ EndsDecided
=============================================================================
