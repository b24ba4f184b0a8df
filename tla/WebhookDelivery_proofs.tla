------------------------ MODULE WebhookDelivery_proofs ------------------------
(***************************************************************************)
(* Proofs about the deliveries of an event, for any number of webhooks and *)
(* workers, all limits, and all failures: the number of posts is bounded,  *)
(* a deciding status is backed, a job that has ended has decided its       *)
(* delivery, and the log implements DeliveryLifecycle.                     *)
(*                                                                         *)
(* Every step is about one webhook: what holds of the others is kept       *)
(* (Elsewhere), and of a delivery that is not torn one worker holds the    *)
(* job, so that nobody's memory of it can be outdated (Alone).             *)
(***************************************************************************)
EXTENDS WebhookDelivery, FiniteSetTheorems, TLAPS

BackedAt(h) ==
  /\ status[h] = "DELIVERED" => h \in accepted
  /\ status[h] = "EXHAUSTED" => posts[h] >= MaxAttempts

EndsAt(h) ==
  h \notin mishap /\ job[h].at \in {"done", "failed"} =>
    status[h] \in Decided \cup {"REMOVED"}

HookOK(h) == JobOK(h) /\ RowOK(h) /\ AgainOK(h) /\ BackedAt(h) /\ EndsAt(h)

WorkerOK(v) == ReadOK(req[v]) /\ LoneOK(v, req[v])

LEMMA Parts ==
  IndInv <=> /\ TypeOK
             /\ torn \subseteq mishap
             /\ FanOutOK
             /\ \A h \in Hooks : HookOK(h)
             /\ \A h \in Hooks : Metered(h)
             /\ \A v \in Workers : WorkerOK(v)
BY DEF IndInv, HookOK, WorkerOK, StatusIsBacked, EndsDecided, BackedAt, EndsAt

\* A step touches the delivery to h and workers that are, or were idle and
\* are now, at it.
Frame(h) ==
  /\ \A g \in Hooks \ {h} :
       /\ status'[g] = status[g] /\ attempts'[g] = attempts[g]
       /\ job'[g] = job[g] /\ posts'[g] = posts[g] /\ again'[g] = again[g]
       /\ g \in torn' <=> g \in torn
       /\ g \in mishap' <=> g \in mishap
       /\ g \in accepted' <=> g \in accepted
  /\ \A v \in Workers :
       \/ req'[v] = req[v]
       \/ req[v].h \in {h, None} /\ (req'[v].h = h \/ req'[v] = Idle)

LEMMA Elsewhere ==
  ASSUME IndInv, NEW h \in Hooks, Frame(h), NEW g \in Hooks \ {h}
  PROVE  HookOK(g)' /\ Metered(g)'
<1>1. HookOK(g) /\ Metered(g)
  BY Parts
<1>2. /\ status'[g] = status[g] /\ attempts'[g] = attempts[g]
      /\ job'[g] = job[g] /\ posts'[g] = posts[g] /\ again'[g] = again[g]
      /\ g \in torn' <=> g \in torn
      /\ g \in mishap' <=> g \in mishap
      /\ g \in accepted' <=> g \in accepted
  BY DEF Frame
<1>3. \A v \in Workers : req'[v].h = g \/ req[v].h = g => req'[v] = req[v]
  BY NoneAssumption DEF Frame, Idle
<1>4. ToPost(g)' = ToPost(g)
  BY <1>3 DEF ToPost
<1>5. Pending(g)' <=> Pending(g)
  BY <1>2, <1>3 DEF Pending
<1>6. Metered(g)'
  BY <1>1, <1>2, <1>4 DEF Metered, Leases
<1>7. AgainOK(g)'
  BY <1>1, <1>2, <1>5 DEF HookOK, AgainOK
<1>8. JobOK(g)' /\ RowOK(g)'
  BY <1>1, <1>2 DEF HookOK, JobOK, RowOK
<1>9. BackedAt(g)' /\ EndsAt(g)'
  BY <1>1, <1>2 DEF HookOK, BackedAt, EndsAt
<1>10. QED
  BY <1>6, <1>7, <1>8, <1>9 DEF HookOK

LEMMA IdleOK ==
  ASSUME NEW v, req[v] = Idle
  PROVE  WorkerOK(v)
BY DEF WorkerOK, ReadOK, LoneOK, Idle

\* A step about h keeps IndInv if it keeps what IndInv says of h and of the
\* workers that are then at h.
LEMMA Assemble ==
  ASSUME IndInv, TypeOK', NEW h \in Hooks, Frame(h), torn' \subseteq mishap',
         FanOutOK', HookOK(h)', Metered(h)',
         \A v \in Workers : req'[v].h = h => WorkerOK(v)'
  PROVE  IndInv'
<1>1. \A g \in Hooks : HookOK(g)' /\ Metered(g)'
  BY Elsewhere
<1>2. ASSUME NEW v \in Workers
      PROVE  WorkerOK(v)'
  <2>1. CASE req'[v].h = h
    BY <2>1
  <2>2. CASE req'[v] = Idle
    BY <2>2, IdleOK DEF WorkerOK, ReadOK, LoneOK, Idle
  <2>3. CASE req'[v] = req[v] /\ req[v].h # h /\ req[v] # Idle
    <3>1. WorkerOK(v) /\ req[v].h \in Hooks \ {h}
      BY <2>3, Parts DEF WorkerOK, ReadOK
    <3>2. ReadOK(req[v])'
      BY <2>3, <3>1 DEF WorkerOK, ReadOK, Frame
    <3>3. LoneOK(v, req[v])'
      BY <2>3, <3>1 DEF WorkerOK, LoneOK, Frame
    <3>4. QED
      BY <3>2, <3>3 DEF WorkerOK
  <2>4. QED
    BY <2>1, <2>2, <2>3 DEF Frame
<1>3. QED
  BY <1>1, <1>2 DEF IndInv, HookOK, WorkerOK, StatusIsBacked, EndsDecided,
     BackedAt, EndsAt

\* A delivery that is not torn has at most the one worker that holds its job.
LEMMA Alone ==
  ASSUME IndInv, NEW v \in Workers, NEW w \in Workers, req[v].h = req[w].h,
         req[w].at # "idle", req[w].h \notin torn
  PROVE  v = w
<1>1. WorkerOK(v) /\ WorkerOK(w)
  BY Parts
<1>2. req[v].at # "idle"
  BY <1>1, NoneAssumption DEF WorkerOK, ReadOK, Idle
<1>3. job[req[w].h].owner = v /\ job[req[w].h].owner = w
  BY <1>1, <1>2 DEF WorkerOK, LoneOK
<1>4. QED
  BY <1>3

LEMMA PostersAreFinite ==
  ASSUME NEW h
  PROVE  IsFiniteSet(ToPost(h)) /\ Cardinality(ToPost(h)) \in Nat
<1>1. ToPost(h) \subseteq Workers
  BY DEF ToPost
<1>2. QED
  BY <1>1, WorkersAssumption, FS_Subset, FS_CardinalityType

LEMMA LeasesBounded ==
  ASSUME IndInv, NEW h \in Hooks
  PROVE  Leases(h) \in Nat /\ Leases(h) <= MaxAttempts + MaxStalls
<1>1. job[h] \in Job /\ JobOK(h)
  BY Parts DEF TypeOK, HookOK
<1>2. QED
  BY <1>1, LimitsAssumption DEF Job, Resting, JobOK, Leases, NoJob

LEMMA Bounded == IndInv => PostsBounded
<1> SUFFICES ASSUME IndInv, NEW h \in Hooks
             PROVE  posts[h] <= MaxAttempts + MaxStalls
  BY DEF PostsBounded
<1>1. Metered(h) /\ posts[h] \in Nat
  BY Parts DEF TypeOK
<1>2. QED
  BY <1>1, PostersAreFinite, LeasesBounded, LimitsAssumption DEF Metered

\* Nobody new has to post: it is enough that no lease was undone.
LEMMA MeteredKept ==
  ASSUME IndInv, TypeOK', NEW h \in Hooks, posts'[h] = posts[h],
         ToPost(h)' \subseteq ToPost(h), Leases(h)' >= Leases(h),
         Leases(h)' \in Nat
  PROVE  Metered(h)'
<1>1. Metered(h) /\ posts[h] \in Nat
  BY Parts DEF TypeOK
<1>2. Cardinality(ToPost(h)') <= Cardinality(ToPost(h)) /\ Cardinality(ToPost(h)') \in Nat
  BY PostersAreFinite, FS_Subset, FS_CardinalityType
<1>3. QED
  BY <1>1, <1>2, PostersAreFinite, LeasesBounded DEF Metered

-----------------------------------------------------------------------------
THEOREM InitInv == Init => IndInv
<1> SUFFICES ASSUME Init
             PROVE  IndInv
  OBVIOUS
<1>1. TypeOK
  BY DEF Init, TypeOK, Live, Job, NoJob, Resting, Attempt, Idle
<1>2. \A h \in Hooks : HookOK(h)
  BY LimitsAssumption DEF Init, HookOK, JobOK, RowOK, AgainOK, Pending, BackedAt, EndsAt, NoJob,
     Decided, Live, Idle
<1>3. ASSUME NEW h \in Hooks
      PROVE  Metered(h)
  <2>1. ToPost(h) = {}
    BY DEF Init, ToPost, Idle
  <2>2. QED
    BY <2>1, FS_EmptySet DEF Init, Metered, Leases, NoJob
<1>4. FanOutOK /\ torn \subseteq mishap
  BY DEF Init, FanOutOK
<1>5. \A v \in Workers : WorkerOK(v)
  BY IdleOK DEF Init
<1>6. QED
  BY <1>1, <1>2, <1>3, <1>4, <1>5, Parts

-----------------------------------------------------------------------------
(* Steps of a worker at a delivery.                                        *)

LEMMA Given ==
  ASSUME IndInv, NEW w \in Workers, req[w].at # "idle"
  PROVE  /\ req[w] \in Attempt /\ req[w].h \in Hooks
         /\ HookOK(req[w].h) /\ Metered(req[w].h)
         /\ ReadOK(req[w]) /\ LoneOK(w, req[w])
         /\ job[req[w].h] \in Job /\ posts[req[w].h] \in Nat
         /\ attempts[req[w].h] \in Nat /\ again[req[w].h] \in Nat
BY Parts DEF WorkerOK, ReadOK, TypeOK

\* A worker step about h = req[w].h, which leaves w with x.
LEMMA WorkerStep ==
  ASSUME IndInv, TypeOK', NEW w \in Workers, NEW h \in Hooks, NEW x \in Attempt,
         req[w].at # "idle", h = req[w].h, req' = [req EXCEPT ![w] = x],
         x.h = h \/ x = Idle,
         \A g \in Hooks \ {h} :
           /\ status'[g] = status[g] /\ attempts'[g] = attempts[g]
           /\ job'[g] = job[g] /\ posts'[g] = posts[g] /\ again'[g] = again[g]
           /\ g \in mishap' <=> g \in mishap
           /\ g \in accepted' <=> g \in accepted,
         torn' = torn, mishap \subseteq mishap', accepted \subseteq accepted',
         posts[h] <= posts'[h], job[h].at # "none" => job'[h].at # "none",
         job[h] = NoJob => job'[h] = NoJob, fanOut' = fanOut,
         status[h] = "ABSENT" <=> status'[h] = "ABSENT",
         HookOK(h)', Metered(h)', x.h = h => WorkerOK(w)'
  PROVE  IndInv'
<1>1. h \in Hooks /\ TypeOK /\ posts[h] \in Nat /\ posts'[h] \in Nat
  BY Given, Parts DEF TypeOK
<1>2. req'[w] = x /\ \A v \in Workers \ {w} : req'[v] = req[v]
  BY <1>1 DEF TypeOK
<1>3. Frame(h)
  BY <1>2 DEF Frame
<1>4. ASSUME NEW v \in Workers, req'[v].h = h
      PROVE  WorkerOK(v)'
  <2>1. CASE v = w
    BY <1>2, <1>4, <2>1
  <2>2. CASE v # w
    <3>1. req'[v] = req[v] /\ req[v].h = h
      BY <1>2, <1>4, <2>2
    <3>2. h \in torn
      BY <2>2, <3>1, Alone
    <3>3. WorkerOK(v)
      BY Parts
    <3>4. ReadOK(req[v])'
      BY <1>1, <3>1, <3>3 DEF WorkerOK, ReadOK
    <3>5. LoneOK(v, req[v])'
      BY <3>1, <3>2 DEF LoneOK
    <3>6. QED
      BY <3>4, <3>5 DEF WorkerOK
  <2>3. QED
    BY <2>1, <2>2
<1>5. FanOutOK'
  BY <1>1, Parts DEF FanOutOK, TypeOK
<1>6. torn' \subseteq mishap'
  BY Parts
<1>7. QED
  BY <1>1, <1>3, <1>4, <1>5, <1>6, Assemble

\* A step that only moves a worker, and may count a mishap.
LEMMA QuietStep ==
  ASSUME IndInv, NEW w \in Workers, NEW h \in Hooks, NEW x \in Attempt,
         req[w].at # "idle", h = req[w].h, req' = [req EXCEPT ![w] = x],
         x.h = h \/ x = Idle, x.at \in {"load", "loaded"} => req[w].at \in {"load", "loaded"},
         x.at # "settle" \/ ~x.stop => x = Idle \/ req[w].at # "settle" \/ ~req[w].stop,
         UNCHANGED <<rows, job, fanOut, posts, accepted, again, torn>>,
         mishap' \in {mishap, mishap \cup {h}},
         x.h = h => ReadOK(x) /\ LoneOK(w, req[w])'
  PROVE  IndInv'
<1>1. /\ TypeOK /\ HookOK(h) /\ Metered(h) /\ h \in Hooks /\ job[h] \in Job
      /\ req[w] \in Attempt
  BY Given, Parts
<1>2. req'[w] = x /\ \A v \in Workers \ {w} : req'[v] = req[v]
  BY <1>1 DEF TypeOK
<1>3. TypeOK'
  BY <1>1 DEF TypeOK, rows
<1>4. ToPost(h)' \subseteq ToPost(h)
  BY <1>2, NoneAssumption, <1>1 DEF ToPost, Idle
<1>5. Metered(h)'
  BY <1>1, <1>3, <1>4, LeasesBounded, MeteredKept DEF Leases, rows
<1>6. Pending(h)' => Pending(h)
  BY <1>1, <1>2, NoneAssumption DEF Pending, Idle
<1>7. HookOK(h)'
  BY <1>1, <1>6 DEF HookOK, JobOK, RowOK, AgainOK, BackedAt, EndsAt, rows
<1>8. x.h = h => WorkerOK(w)'
  BY <1>2 DEF WorkerOK, ReadOK
<1>9. posts[h] <= posts'[h]
  BY <1>1 DEF TypeOK
<1>10. QED
  BY <1>1, <1>3, <1>5, <1>7, <1>8, <1>9, WorkerStep DEF rows

LEMMA LoadKeeps ==
  ASSUME IndInv, NEW w \in Workers, NEW h \in Hooks, h = req[w].h, Load(w)
  PROVE  IndInv'
<1> DEFINE r == req[w]
           x == IF status[h] \in Live
                THEN [r EXCEPT !.at = "loaded", !.attempt = attempts[h] + 1]
                ELSE [r EXCEPT !.at = "settle", !.stop = TRUE]
<1>1. r.at = "load" /\ req' = [req EXCEPT ![w] = x] /\ req'[w] = x
  BY Parts DEF Load, Goto, TypeOK
<1>2. /\ r \in Attempt /\ h \in Hooks /\ HookOK(h) /\ LoneOK(w, r)
      /\ attempts[h] \in Nat /\ posts[h] \in Nat /\ status[h] \in {"ABSENT", "REMOVED"} \cup Live
      /\ job[h] \in Job
  BY <1>1, Given, Parts DEF TypeOK
<1>3. /\ x \in Attempt /\ x.h = h
      /\ \/ x.at = "settle" /\ x.stop /\ status[h] \notin Live
         \/ x.at = "loaded" /\ x.attempt = attempts[h] + 1
  <2>1. CASE status[h] \in Live
    <3>1. PICK n \in Nat : n = attempts[h] + 1
      BY <1>2
    <3>2. x = [r EXCEPT !.at = "loaded", !.attempt = n]
      BY <2>1, <3>1
    <3> HIDE DEF x
    <3>3. x \in Attempt /\ x.h = h /\ x.at = "loaded" /\ x.attempt = n
      BY <1>2, <3>2 DEF Attempt
    <3>4. QED
      BY <3>1, <3>3
  <2>2. CASE status[h] \notin Live
    <3>1. x = [r EXCEPT !.at = "settle", !.stop = TRUE]
      BY <2>2
    <3> HIDE DEF x
    <3>2. QED
      BY <1>2, <2>2, <3>1 DEF Attempt
  <2> HIDE DEF x
  <2>3. QED
    BY <2>1, <2>2
<1> HIDE DEF x
<1>4. ReadOK(x)
  BY <1>2, <1>3 DEF ReadOK, HookOK, RowOK, Idle
<1>5. LoneOK(w, req[w])'
  <2>1. h \notin torn => job[h].owner = w /\ status[h] # "ABSENT"
    BY <1>1, <1>2, NoneAssumption DEF LoneOK, HookOK, JobOK, NoJob, Job
  <2>2. UNCHANGED <<status, attempts, job, torn>>
    BY DEF Load, history, rows
  <2>3. QED
    BY <1>1, <1>2, <1>3, <2>1, <2>2 DEF LoneOK
<1>6. UNCHANGED <<rows, job, fanOut, history>>
  BY DEF Load
<1>7. QED
  BY <1>1, <1>2, <1>3, <1>4, <1>5, <1>6, QuietStep DEF history

LEMMA CallFailsKeeps ==
  ASSUME IndInv, NEW w \in Workers, NEW h \in Hooks, h = req[w].h, CallFails(w)
  PROVE  IndInv'
<1> DEFINE r == req[w]
           x == [r EXCEPT !.at = "settle", !.stop = FALSE]
<1>1. /\ r.at \in {"load", "answered"}
      /\ req' = [req EXCEPT ![w] = x] /\ req'[w] = x
  BY Parts DEF CallFails, Goto, TypeOK
<1>2. r \in Attempt /\ h \in Hooks /\ ReadOK(r) /\ LoneOK(w, r)
  BY <1>1, Given
<1>3. x \in Attempt /\ x.h = h /\ x.at = "settle" /\ ~x.stop /\ ReadOK(x)
  BY <1>1, <1>2 DEF Attempt, ReadOK, Idle
<1>4. LoneOK(w, req[w])'
  BY <1>1, <1>2, <1>3 DEF LoneOK, CallFails, rows
<1>5. /\ UNCHANGED <<rows, job, fanOut, posts, accepted, again, torn>>
      /\ mishap' = mishap \cup {h}
  BY DEF CallFails
<1> HIDE DEF x
<1>6. QED
  BY <1>1, <1>2, <1>3, <1>4, <1>5, QuietStep

LEMMA RecordGoneKeeps ==
  ASSUME IndInv, NEW w \in Workers, NEW h \in Hooks, h = req[w].h, RecordGone(w)
  PROVE  IndInv'
<1> DEFINE r == req[w]
           x == [r EXCEPT !.at = "settle", !.stop = FALSE]
<1>1. /\ r.at = "answered" /\ status[h] \notin Live
      /\ req' = [req EXCEPT ![w] = x] /\ req'[w] = x
  BY Parts DEF RecordGone, Goto, TypeOK
<1>2. /\ r \in Attempt /\ h \in Hooks /\ ReadOK(r) /\ LoneOK(w, r) /\ HookOK(h)
      /\ status[h] \in {"ABSENT", "REMOVED"} \cup Live /\ job[h] \in Job
  BY <1>1, Given, Parts DEF TypeOK
<1>3. x \in Attempt /\ x.h = h /\ x.at = "settle" /\ ~x.stop /\ ReadOK(x)
  BY <1>1, <1>2 DEF Attempt, ReadOK, Idle
<1>4. LoneOK(w, req[w])'
  <2>1. h \notin torn => job[h].owner = w /\ status[h] = "REMOVED"
    BY <1>1, <1>2, NoneAssumption DEF LoneOK, HookOK, JobOK, NoJob, Job
  <2>2. UNCHANGED <<status, attempts, job, torn>>
    BY DEF RecordGone, history, rows
  <2>3. QED
    BY <1>1, <1>3, <2>1, <2>2 DEF LoneOK
<1>5. UNCHANGED <<rows, job, fanOut, history>>
  BY DEF RecordGone
<1> HIDE DEF x
<1>6. QED
  BY <1>1, <1>2, <1>3, <1>4, <1>5, QuietStep DEF history

LEMMA CrashKeeps ==
  ASSUME IndInv, NEW w \in Workers, NEW h \in Hooks, h = req[w].h, Crash(w)
  PROVE  IndInv'
<1>1. WorkerOK(w) /\ req[w] # Idle
  BY Parts DEF Crash
<1>2. req[w].at # "idle" /\ req[w].h \in Hooks /\ Idle \in Attempt
  BY <1>1 DEF WorkerOK, ReadOK, Attempt, Idle
<1>3. Idle.h # req[w].h
  BY <1>2, NoneAssumption DEF Idle
<1>4. Idle.at = "idle"
  BY DEF Idle
<1>5. req' = [req EXCEPT ![w] = Idle] /\ UNCHANGED <<rows, job, fanOut, history>>
  BY DEF Crash, Goto
<1>6. QED
  BY <1>2, <1>3, <1>4, <1>5, QuietStep DEF history

LEMMA PostKeeps ==
  ASSUME IndInv, NEW w \in Workers, NEW h \in Hooks, h = req[w].h,
         NEW ok \in BOOLEAN, Post(w, ok)
  PROVE  IndInv'
<1> DEFINE r == req[w]
           x == [r EXCEPT !.at = "answered", !.ok = ok]
<1>1. r.at = "loaded" /\ req' = [req EXCEPT ![w] = x] /\ req'[w] = x
  BY Parts DEF Post, Goto, TypeOK
<1>2. /\ r \in Attempt /\ ReadOK(r) /\ LoneOK(w, r) /\ HookOK(h) /\ Metered(h)
      /\ TypeOK /\ posts[h] \in Nat /\ attempts[h] \in Nat
  BY <1>1, Given, Parts
<1>3. x \in Attempt /\ x.h = h /\ x.at = "answered" /\ x.ok = ok /\ x.attempt = r.attempt
  BY <1>1, <1>2 DEF Attempt
<1> HIDE DEF x
<1>4. /\ posts' = [posts EXCEPT ![h] = @ + 1] /\ posts'[h] = posts[h] + 1
      /\ UNCHANGED <<status, attempts, job, fanOut, again, torn, mishap>>
      /\ accepted' = IF ok THEN accepted \cup {h} ELSE accepted
  BY <1>2 DEF Post, TypeOK, rows
<1>5. TypeOK'
  BY <1>1, <1>2, <1>3, <1>4 DEF TypeOK, Post, rows
<1>6. WorkerOK(w)'
  <2>1. ReadOK(req[w])'
    BY <1>1, <1>2, <1>3, <1>4 DEF ReadOK, Idle
  <2>2. LoneOK(w, req[w])'
    BY <1>1, <1>2, <1>3, <1>4 DEF LoneOK
  <2>3. QED
    BY <2>1, <2>2 DEF WorkerOK
<1>7. \A v \in Workers \ {w} : req'[v] = req[v]
  BY <1>1, <1>2 DEF TypeOK
<1>8. Metered(h)'
  <2>1. ToPost(h)' = ToPost(h) \ {w} /\ w \in ToPost(h)
    BY <1>1, <1>2, <1>3, <1>7 DEF ToPost
  <2>2. Cardinality(ToPost(h)') = Cardinality(ToPost(h)) - 1
    BY <2>1, PostersAreFinite, FS_RemoveElement
  <2>3. QED
    BY <1>2, <1>4, <2>2, PostersAreFinite, LeasesBounded DEF Metered, Leases
<1>9. Pending(h)' => Pending(h)
  BY <1>1, <1>2, <1>3, <1>4, <1>7 DEF Pending
<1>10. HookOK(h)'
  BY <1>2, <1>4, <1>9, LimitsAssumption DEF HookOK, JobOK, RowOK, AgainOK, BackedAt, EndsAt
<1>11. ASSUME NEW g \in Hooks \ {h}
       PROVE
      /\ status'[g] = status[g] /\ attempts'[g] = attempts[g]
      /\ job'[g] = job[g] /\ posts'[g] = posts[g] /\ again'[g] = again[g]
      /\ g \in mishap' <=> g \in mishap
      /\ g \in accepted' <=> g \in accepted
  BY <1>2, <1>4 DEF TypeOK
<1>12. posts[h] <= posts'[h] /\ accepted \subseteq accepted' /\ r.at # "idle"
  BY <1>1, <1>2, <1>4
<1>13. QED
  BY <1>1, <1>2, <1>3, <1>4, <1>5, <1>6, <1>8, <1>10, <1>11, <1>12, WorkerStep

LEMMA RecordKeeps ==
  ASSUME IndInv, NEW w \in Workers, NEW h \in Hooks, h = req[w].h, Record(w)
  PROVE  IndInv'
<1> DEFINE r == req[w]
           x == [r EXCEPT !.at = "settle", !.stop = r.ok \/ Exhausted(r)]
<1>1. r.at = "answered" /\ req' = [req EXCEPT ![w] = x] /\ req'[w] = x
  BY Parts DEF Record, Goto, TypeOK
<1>2. /\ r \in Attempt /\ ReadOK(r) /\ LoneOK(w, r) /\ HookOK(h) /\ Metered(h)
      /\ TypeOK /\ posts[h] \in Nat /\ attempts[h] \in Nat /\ again[h] \in Nat
      /\ job[h] \in Job
  BY <1>1, Given, Parts
<1>3. /\ x \in Attempt /\ x.h = h /\ x.at = "settle" /\ x.attempt = r.attempt
      /\ x.stop <=> r.ok \/ Exhausted(r)
  BY <1>1, <1>2 DEF Attempt, Exhausted
<1> HIDE DEF x
<1>4. /\ status[h] \in Live
      /\ status'[h] = StatusOf(r) /\ attempts'[h] = r.attempt
      /\ status' = [status EXCEPT ![h] = StatusOf(r)]
      /\ attempts' = [attempts EXCEPT ![h] = r.attempt]
      /\ again' = IF status[h] \in Decided /\ h \notin torn
                  THEN [again EXCEPT ![h] = @ + 1] ELSE again
      /\ UNCHANGED <<hook, job, fanOut, posts, accepted, torn, mishap>>
  BY <1>2 DEF Record, TypeOK
<1>5. /\ StatusOf(r) \in Live /\ StatusOf(r) # "PENDING"
      /\ StatusOf(r) \in Decided <=> x.stop
      /\ StatusOf(r) = "FAILED" <=> ~x.stop
      /\ StatusOf(r) = "FAILED" => r.attempt < MaxAttempts
      /\ StatusOf(r) = "EXHAUSTED" => r.attempt >= MaxAttempts
      /\ StatusOf(r) = "DELIVERED" => r.ok
  BY <1>2, <1>3, LimitsAssumption DEF StatusOf, Live, Decided, Exhausted, Attempt
<1>6. r.attempt \in 1 .. posts[h] /\ (r.ok => h \in accepted)
  BY <1>1, <1>2 DEF ReadOK
<1>7. TypeOK'
  BY <1>1, <1>2, <1>3, <1>4, <1>5, <1>6 DEF TypeOK
<1>8. \A v \in Workers \ {w} : req'[v] = req[v]
  BY <1>1, <1>2 DEF TypeOK
<1>9. WorkerOK(w)'
  <2>1. ReadOK(req[w])'
    BY <1>1, <1>3 DEF ReadOK, Idle
  <2>2. h \notin torn => job[h].owner = w /\ r.attempt = attempts[h] + 1
    BY <1>1, <1>2, <1>4 DEF LoneOK
  <2>3. h \notin mishap => h \notin torn /\ job[h].made <= attempts[h]
    BY <1>2, <1>4, Parts DEF HookOK, RowOK
  <2>4. LoneOK(w, req[w])'
    BY <1>1, <1>2, <1>3, <1>4, <1>5, <2>2, <2>3 DEF LoneOK, Job
  <2>5. QED
    BY <2>1, <2>4 DEF WorkerOK
<1>10. Metered(h)'
  <2>1. ToPost(h)' \subseteq ToPost(h)
    BY <1>1, <1>2, <1>3, <1>8 DEF ToPost
  <2>2. QED
    BY <1>4, <1>7, <2>1, LeasesBounded, MeteredKept DEF Leases
<1>11. JobOK(h)' /\ BackedAt(h)'
  <2>1. job[h].at # "none"
    BY <1>1, <1>2, NoneAssumption DEF HookOK, JobOK, NoJob, LoneOK
  <2>2. JobOK(h)'
    BY <1>2, <1>4, <1>5, <2>1 DEF HookOK, JobOK, Live, Decided
  <2>3. posts[h] >= MaxAttempts \/ StatusOf(r) # "EXHAUSTED"
    BY <1>2, <1>5, <1>6, LimitsAssumption
  <2>4. QED
    BY <1>4, <1>5, <1>6, <2>2, <2>3 DEF BackedAt
<1>12. RowOK(h)'
  <2>1. h \notin mishap => job[h].made <= attempts[h] /\ r.attempt = attempts[h] + 1
    BY <1>1, <1>2, <1>4, Parts DEF LoneOK, HookOK, RowOK
  <2>2. QED
    BY <1>2, <1>4, <1>5, <1>6, <2>1 DEF RowOK, Job
<1>13. AgainOK(h)'
  <2>1. SUFFICES ASSUME h \notin torn
                 PROVE  /\ again'[h] <= job[h].stalls
                        /\ StatusOf(r) \in Decided => ~Pending(h)'
    BY <1>4 DEF AgainOK
  <2>2. Pending(h) /\ job[h].owner = w
    BY <1>1, <1>2, <2>1 DEF Pending, LoneOK
  <2>3. again[h] <= job[h].stalls /\ (status[h] \in Decided => again[h] < job[h].stalls)
    BY <1>2, <2>1, <2>2 DEF HookOK, AgainOK
  <2>4. again'[h] <= job[h].stalls
    BY <1>2, <1>4, <2>1, <2>3 DEF TypeOK, Job
  <2>5. job[h].at = "active"
    BY <1>2, <2>2, NoneAssumption DEF HookOK, JobOK
  <2>6. \A v \in Workers : req'[v].h = h => v = w
    BY <1>1, <1>8, <2>1, Alone
  <2>7. StatusOf(r) \in Decided => ~Pending(h)'
    BY <1>1, <1>3, <1>4, <1>5, <2>5, <2>6 DEF Pending
  <2>8. QED
    BY <2>4, <2>7
<1>14. EndsAt(h)'
  <2>1. h \notin mishap => job[h].at = "active"
    BY <1>1, <1>2, NoneAssumption, Parts DEF LoneOK, HookOK, JobOK
  <2>2. QED
    BY <1>4, <2>1 DEF EndsAt
<1>15. ASSUME NEW g \in Hooks \ {h}
       PROVE
      /\ status'[g] = status[g] /\ attempts'[g] = attempts[g]
      /\ job'[g] = job[g] /\ posts'[g] = posts[g] /\ again'[g] = again[g]
      /\ g \in mishap' <=> g \in mishap
      /\ g \in accepted' <=> g \in accepted
  BY <1>2, <1>4 DEF TypeOK
<1>16. posts[h] <= posts'[h] /\ HookOK(h)'
  BY <1>2, <1>4, <1>11, <1>12, <1>13, <1>14 DEF HookOK
<1>17. status[h] # "ABSENT" /\ status'[h] # "ABSENT"
  BY <1>4, <1>5 DEF Live, Decided
<1>18. QED
  BY <1>1, <1>2, <1>3, <1>4, <1>7, <1>9, <1>10, <1>15, <1>16, <1>17, WorkerStep

LEMMA SettledType ==
  ASSUME NEW j \in Job, NEW w \in Workers
  PROVE  /\ Settled(w, j) \in Job
         /\ Settled(w, j).stalls = j.stalls
         /\ Settled(w, j).owner = None
         /\ req[w].stop => Settled(w, j).at = "done" /\ Settled(w, j).made = j.made
         /\ ~req[w].stop =>
              /\ Settled(w, j).made = j.made + 1
              /\ Settled(w, j).at = IF j.made + 1 < MaxAttempts THEN "delayed" ELSE "failed"
<1>1. CASE req[w].stop
  BY <1>1 DEF Settled, Job, Resting
<1>2. CASE ~req[w].stop
  <2>1. PICK n \in Nat : n = j.made + 1
    BY DEF Job
  <2>2. PICK a \in {"delayed", "failed"} :
          a = IF j.made + 1 < MaxAttempts THEN "delayed" ELSE "failed"
    OBVIOUS
  <2>3. Settled(w, j) = [j EXCEPT !.at = a, !.made = n, !.owner = None]
    BY <1>2, <2>1, <2>2 DEF Settled
  <2>4. QED
    BY <1>2, <2>1, <2>2, <2>3 DEF Job, Resting
<1>3. QED
  BY <1>1, <1>2

LEMMA SettleKeeps ==
  ASSUME IndInv, NEW w \in Workers, NEW h \in Hooks, h = req[w].h, Settle(w)
  PROVE  IndInv'
<1> DEFINE r == req[w]
<1>1. /\ r.at = "settle" /\ req' = [req EXCEPT ![w] = Idle]
      /\ UNCHANGED <<rows, fanOut, history>>
      /\ job' = IF job[h].owner = w THEN [job EXCEPT ![h] = Settled(w, @)] ELSE job
  BY DEF Settle, Goto
<1>2. /\ r \in Attempt /\ ReadOK(r) /\ LoneOK(w, r) /\ HookOK(h) /\ Metered(h)
      /\ TypeOK /\ posts[h] \in Nat /\ attempts[h] \in Nat /\ again[h] \in Nat
      /\ job[h] \in Job
  BY <1>1, Given, Parts
<1>3. Idle \in Attempt /\ Idle.at = "idle" /\ Idle.h # h
  BY NoneAssumption DEF Idle, Attempt
<1>4. CASE job[h].owner # w
  <2>1. UNCHANGED job
    BY <1>1, <1>4
  <2>2. QED
    BY <1>1, <1>3, <2>1, QuietStep DEF history
<1>5. CASE job[h].owner = w
  <2>1. /\ job'[h] = Settled(w, job[h])
        /\ job' = [job EXCEPT ![h] = Settled(w, job[h])]
        /\ UNCHANGED <<status, attempts, posts, again, accepted, torn, mishap>>
    BY <1>1, <1>2, <1>5 DEF TypeOK, rows, history
  <2>2. /\ job'[h] \in Job /\ job'[h].stalls = job[h].stalls /\ job'[h].owner = None
        /\ r.stop => job'[h].at = "done" /\ job'[h].made = job[h].made
        /\ ~r.stop =>
             /\ job'[h].made = job[h].made + 1
             /\ job'[h].at = IF job[h].made + 1 < MaxAttempts THEN "delayed" ELSE "failed"
    BY <1>2, <2>1, SettledType
  <2>3. /\ job[h].at = "active" /\ job[h].made < MaxAttempts
        /\ job[h].stalls <= MaxStalls /\ status[h] # "ABSENT"
        /\ job[h].made \in Nat /\ job[h].stalls \in Nat
    BY <1>2, <1>5, NoneAssumption DEF HookOK, JobOK, Job
  <2>4. job'[h].at \in {"done", "delayed", "failed"}
    BY <2>2
  <2>5. TypeOK'
    BY <1>1, <1>2, <1>3, <2>1, <2>2 DEF TypeOK, rows, history
  <2>6. \A v \in Workers \ {w} : req'[v] = req[v]
    BY <1>1, <1>2 DEF TypeOK
  <2>7. req'[w] = Idle
    BY <1>1, <1>2 DEF TypeOK
  <2>8. Leases(h)' = Leases(h)
    BY <2>2, <2>3 DEF Leases
  <2>9. Metered(h)'
    <3>1. ToPost(h)' \subseteq ToPost(h)
      BY <1>3, <2>6, <2>7 DEF ToPost
    <3>2. QED
      BY <2>1, <2>5, <2>8, <3>1, LeasesBounded, MeteredKept
  <2>10. JobOK(h)'
    BY <2>1, <2>2, <2>3, <2>4, LimitsAssumption DEF JobOK
  <2>11. RowOK(h)'
    <3>1. h \notin mishap /\ status[h] \in Live => job'[h].made <= attempts[h]
      BY <1>1, <1>2, <2>2, <2>3, Parts DEF HookOK, RowOK, LoneOK, Live, Decided
    <3>2. QED
      BY <1>2, <2>1, <3>1 DEF HookOK, RowOK
  <2>12. AgainOK(h)'
    <3>1. SUFFICES ASSUME h \notin torn, status[h] \in Decided, Pending(h)'
                   PROVE  Pending(h)
      BY <1>2, <2>1, <2>2 DEF HookOK, AgainOK
    <3>2. CASE r.stop
      <4>1. \A v \in Workers : req'[v].h # h
        BY <1>1, <1>3, <2>6, <2>7, <3>1, Alone
      <4>2. QED
        BY <2>2, <3>1, <3>2, <4>1 DEF Pending
    <3>3. CASE ~r.stop
      BY <3>3 DEF Pending
    <3>4. QED
      BY <3>2, <3>3
  <2>13. EndsAt(h)'
    <3>1. SUFFICES ASSUME h \notin mishap, job'[h].at \in {"done", "failed"}
                   PROVE  status[h] \in Decided \cup {"REMOVED"}
      BY <2>1 DEF EndsAt
    <3>2. CASE r.stop
      BY <1>1, <1>2, <3>1, <3>2, Parts DEF LoneOK
    <3>3. CASE ~r.stop
      <4>1. job[h].made + 1 >= MaxAttempts
        BY <2>2, <2>3, <3>1, <3>3, LimitsAssumption
      <4>2. \/ status[h] = "REMOVED"
            \/ status[h] = "FAILED" /\ job[h].made < attempts[h]
        BY <1>1, <1>2, <3>1, <3>3, Parts DEF LoneOK
      <4>3. status[h] = "FAILED" => attempts[h] < MaxAttempts
        BY <1>2 DEF HookOK, RowOK
      <4>4. QED
        BY <1>2, <2>3, <4>1, <4>2, <4>3, LimitsAssumption
    <3>4. QED
      BY <3>2, <3>3
  <2>14. HookOK(h)'
    BY <1>2, <2>1, <2>10, <2>11, <2>12, <2>13 DEF HookOK, BackedAt
  <2>15. ASSUME NEW g \in Hooks \ {h}
         PROVE
      /\ status'[g] = status[g] /\ attempts'[g] = attempts[g]
      /\ job'[g] = job[g] /\ posts'[g] = posts[g] /\ again'[g] = again[g]
      /\ g \in mishap' <=> g \in mishap
      /\ g \in accepted' <=> g \in accepted
    BY <1>2, <2>1 DEF TypeOK
  <2>16. job[h] # NoJob /\ job'[h].at # "none" /\ posts[h] <= posts'[h]
    BY <1>2, <2>1, <2>3, <2>4 DEF NoJob
  <2>17. QED
    BY <1>1, <1>3, <2>1, <2>5, <2>9, <2>14, <2>15, <2>16, WorkerStep
<1>6. QED
  BY <1>4, <1>5

LEMMA TakeKeeps ==
  ASSUME IndInv, NEW w \in Workers, NEW h \in Hooks, Take(w, h)
  PROVE  IndInv'
<1> DEFINE x == [Idle EXCEPT !.at = "load", !.h = h]
<1>1. /\ TypeOK /\ HookOK(h) /\ Metered(h) /\ job[h] \in Job /\ posts[h] \in Nat
      /\ torn \subseteq mishap /\ FanOutOK
  BY Parts DEF TypeOK
<1>2. x \in Attempt /\ x.at = "load" /\ x.h = h
  BY DEF Idle, Attempt
<1> HIDE DEF x
<1>3. /\ req[w] = Idle /\ job[h].at = "waiting"
      /\ job' = [job EXCEPT ![h].at = "active", ![h].owner = w]
      /\ req' = [req EXCEPT ![w] = x]
      /\ UNCHANGED <<rows, fanOut, history>>
  BY DEF Take, Goto, x
<1>4. /\ job'[h] = [job[h] EXCEPT !.at = "active", !.owner = w]
      /\ \A g \in Hooks \ {h} : job'[g] = job[g]
      /\ job' \in [Hooks -> Job]
  BY <1>1, <1>3 DEF TypeOK, Job
<1>5. /\ job'[h].at = "active" /\ job'[h].owner = w /\ job'[h].made = job[h].made
      /\ job'[h].stalls = job[h].stalls
  BY <1>1, <1>4 DEF Job
<1>6. req'[w] = x /\ \A v \in Workers \ {w} : req'[v] = req[v]
  BY <1>1, <1>3 DEF TypeOK
<1>7. TypeOK'
  BY <1>1, <1>2, <1>3, <1>4 DEF TypeOK, rows, history
<1>8. Frame(h)
  BY <1>2, <1>3, <1>4, <1>6 DEF Frame, rows, history, Idle
<1>9. Metered(h)'
  <2>1. ToPost(h)' = ToPost(h) \cup {w} /\ w \notin ToPost(h)
    BY <1>2, <1>3, <1>6 DEF ToPost, Idle
  <2>2. Cardinality(ToPost(h)') = Cardinality(ToPost(h)) + 1
    BY <2>1, PostersAreFinite, FS_AddElement
  <2>3. Leases(h)' = Leases(h) + 1
    BY <1>1, <1>3, <1>5 DEF Leases, Job
  <2>4. QED
    BY <1>1, <1>3, <2>2, <2>3, PostersAreFinite, LeasesBounded DEF Metered, history
<1>10. \A v \in Workers : req[v].h = h => h \in torn
  <2>1. job[h].owner = None
    BY <1>1, <1>3 DEF HookOK, JobOK
  <2>2. SUFFICES ASSUME NEW v \in Workers, req[v].h = h, h \notin torn
                 PROVE  FALSE
    OBVIOUS
  <2>3. WorkerOK(v)
    BY Parts
  <2>4. req[v].at # "idle"
    BY <2>2, <2>3, NoneAssumption DEF WorkerOK, ReadOK, Idle
  <2>5. QED
    BY <2>1, <2>2, <2>3, <2>4, NoneAssumption DEF WorkerOK, LoneOK
<1>11. ASSUME NEW v \in Workers, req'[v].h = h
       PROVE  WorkerOK(v)'
  <2>1. CASE v = w
    BY <1>2, <1>5, <1>6, <2>1 DEF WorkerOK, ReadOK, LoneOK, Idle
  <2>2. CASE v # w
    <3>1. req'[v] = req[v] /\ req[v].h = h /\ h \in torn' /\ WorkerOK(v)
      BY <1>3, <1>6, <1>10, <1>11, <2>2, Parts DEF history
    <3>2. QED
      BY <1>3, <3>1 DEF WorkerOK, ReadOK, LoneOK, history
  <2>3. QED
    BY <2>1, <2>2
<1>12. HookOK(h)'
  <2>1. Pending(h)
    BY <1>3 DEF Pending
  <2>2. AgainOK(h)'
    BY <1>1, <1>3, <1>5, <2>1 DEF HookOK, AgainOK, rows, history
  <2>3. JobOK(h)'
    BY <1>1, <1>3, <1>5, NoneAssumption DEF HookOK, JobOK, rows, history
  <2>4. QED
    BY <1>1, <1>3, <1>5, <2>2, <2>3 DEF HookOK, RowOK, BackedAt, EndsAt, rows, history
<1>13. FanOutOK'
  <2>1. job[h] # NoJob
    BY <1>3 DEF NoJob
  <2>2. UNCHANGED <<fanOut, status>>
    BY <1>3 DEF rows
  <2>3. QED
    BY <1>1, <1>4, <2>1, <2>2 DEF FanOutOK, TypeOK
<1>14. torn' \subseteq mishap'
  BY <1>1, <1>3 DEF history
<1>15. QED
  BY <1>7, <1>8, <1>9, <1>11, <1>12, <1>13, <1>14, Assemble

-----------------------------------------------------------------------------
(* Steps of dispatch, of the queue and of the webhook's owner.             *)

\* A step about h that moves no worker and posts nothing.
LEMMA HookStep ==
  ASSUME IndInv, NEW h \in Hooks, NEW sh \in {"ABSENT", "REMOVED"} \cup Live,
         NEW jh \in Job,
         status' = [status EXCEPT ![h] = sh], job' = [job EXCEPT ![h] = jh],
         UNCHANGED <<attempts, req, posts, accepted, again>>,
         hook' \in [Hooks -> {"active", "inactive", "removed"}],
         fanOut' \in [at : {"idle", "loop", "enqueue", "done", "cut"},
                      todo : SUBSET Hooks, h : Hooks \cup {None}],
         torn' \in {torn, torn \cup {h}}, mishap' \in {mishap, mishap \cup {h}},
         h \in torn' => h \in mishap',
         FanOutOK', HookOK(h)', Leases(h)' >= Leases(h), Leases(h)' \in Nat,
         \A v \in Workers : req[v].h = h => LoneOK(v, req[v])'
  PROVE  IndInv'
<1>1. TypeOK /\ torn \subseteq mishap
  BY Parts
<1>2. TypeOK'
  BY <1>1 DEF TypeOK
<1>3. Frame(h)
  BY <1>1 DEF Frame, TypeOK
<1>4. Metered(h)'
  <2>1. ToPost(h)' = ToPost(h)
    BY DEF ToPost
  <2>2. QED
    BY <1>2, <2>1, MeteredKept
<1>5. ASSUME NEW v \in Workers, req'[v].h = h
      PROVE  WorkerOK(v)'
  <2>1. WorkerOK(v)
    BY Parts
  <2>2. ReadOK(req[v])'
    BY <2>1 DEF WorkerOK, ReadOK
  <2>3. QED
    BY <1>5, <2>2 DEF WorkerOK
<1>6. torn' \subseteq mishap'
  BY <1>1
<1>7. QED
  BY <1>2, <1>3, <1>4, <1>5, <1>6, Assemble

LEMMA At ==
  ASSUME IndInv, NEW h \in Hooks
  PROVE  /\ HookOK(h) /\ TypeOK /\ FanOutOK /\ torn \subseteq mishap
         /\ job[h] \in Job /\ status[h] \in {"ABSENT", "REMOVED"} \cup Live
         /\ job = [job EXCEPT ![h] = job[h]] /\ status = [status EXCEPT ![h] = status[h]]
         /\ \A v \in Workers : WorkerOK(v)
         /\ job[h].at = "none" => \A v \in Workers : req[v].h # h
<1>1. /\ HookOK(h) /\ TypeOK /\ FanOutOK /\ torn \subseteq mishap
      /\ \A v \in Workers : WorkerOK(v)
  BY Parts
<1>2. /\ job[h] \in Job /\ status[h] \in {"ABSENT", "REMOVED"} \cup Live
      /\ job = [job EXCEPT ![h] = job[h]] /\ status = [status EXCEPT ![h] = status[h]]
  BY <1>1 DEF TypeOK
<1>3. ASSUME job[h].at = "none", NEW v \in Workers, req[v].h = h
      PROVE  FALSE
  <2>1. job[h].owner = None /\ h \notin torn
    BY <1>1, <1>3 DEF HookOK, JobOK, NoJob
  <2>2. req[v].at # "idle"
    BY <1>1, <1>3, NoneAssumption DEF WorkerOK, ReadOK, Idle
  <2>3. QED
    BY <1>1, <1>3, <2>1, <2>2, NoneAssumption DEF WorkerOK, LoneOK
<1>4. QED
  BY <1>1, <1>2, <1>3

LEMMA LeasesNat ==
  ASSUME NEW h \in Hooks, job[h] \in Job
  PROVE  Leases(h) \in Nat
BY DEF Leases, Job

LEMMA UpdateKeeps ==
  ASSUME IndInv, NEW h \in Hooks, NEW active \in BOOLEAN, Update(h, active)
  PROVE  IndInv'
<1>1. UNCHANGED <<status, attempts, job, fanOut, req, history>>
  BY DEF Update
<1>2. HookOK(h)' /\ FanOutOK' /\ Leases(h)' = Leases(h)
  BY <1>1, At DEF history, HookOK, JobOK, RowOK, AgainOK, Pending, BackedAt, EndsAt,
     FanOutOK, Leases
<1>3. \A v \in Workers : LoneOK(v, req[v])'
  BY <1>1, At DEF WorkerOK, LoneOK, history
<1>4. hook' \in [Hooks -> {"active", "inactive", "removed"}]
  BY At DEF Update, TypeOK
<1>5. Leases(h) \in Nat
  BY LeasesNat, At
<1>6. /\ status' = [status EXCEPT ![h] = status[h]]
      /\ job' = [job EXCEPT ![h] = job[h]]
      /\ torn' \in {torn, torn \cup {h}} /\ mishap' \in {mishap, mishap \cup {h}}
      /\ hook' \in [Hooks -> {"active", "inactive", "removed"}]
      /\ fanOut' \in [at : {"idle", "loop", "enqueue", "done", "cut"},
                       todo : SUBSET Hooks, h : Hooks \cup {None}]
      /\ UNCHANGED <<attempts, req, posts, accepted, again>>
      /\ h \in torn' => h \in mishap'
      /\ Leases(h)' >= Leases(h) /\ Leases(h)' \in Nat
  BY <1>1, <1>2, <1>3, <1>4, <1>5, At DEF rows, history, TypeOK
<1>7. job[h] \in Job /\ status[h] \in {"ABSENT", "REMOVED"} \cup Live
  BY At
<1>8. QED
  BY <1>2, <1>3, <1>6, <1>7, HookStep

LEMMA RemoveKeeps ==
  ASSUME IndInv, NEW h \in Hooks, Remove(h)
  PROVE  IndInv'
<1> DEFINE sh == IF status[h] \in Live THEN "REMOVED" ELSE status[h]
<1>1. /\ UNCHANGED <<attempts, job, fanOut, req, history>>
      /\ status' = [status EXCEPT ![h] = sh]
      /\ hook' = [hook EXCEPT ![h] = "removed"]
  BY DEF Remove
<1>2. sh \in {"ABSENT", "REMOVED"} /\ (sh = "ABSENT" <=> status[h] = "ABSENT")
  BY At DEF Live, Decided
<1>3. status'[h] = sh /\ \A g \in Hooks \ {h} : status'[g] = status[g]
  BY <1>1, At DEF TypeOK
<1> HIDE DEF sh
<1>4. HookOK(h)'
  BY <1>1, <1>2, <1>3, At DEF history, HookOK, JobOK, RowOK, AgainOK, Pending, BackedAt,
     EndsAt, Live, Decided
<1>5. FanOutOK'
  BY <1>1, <1>2, <1>3, At DEF FanOutOK, TypeOK
<1>6. ASSUME NEW v \in Workers, req[v].h = h
      PROVE  LoneOK(v, req[v])'
  <2>1. req[v].at # "idle" /\ h \notin torn => status[h] # "ABSENT"
    BY <1>6, At, NoneAssumption DEF WorkerOK, LoneOK, HookOK, JobOK, NoJob
  <2>2. LoneOK(v, req[v])
    BY At DEF WorkerOK
  <2>3. QED
    BY <1>1, <1>2, <1>3, <1>6, <2>1, <2>2 DEF LoneOK, history, Live, Decided
<1>7. hook' \in [Hooks -> {"active", "inactive", "removed"}]
  BY <1>1, At DEF TypeOK
<1>8. Leases(h) \in Nat /\ Leases(h)' = Leases(h)
  BY <1>1, LeasesNat, At DEF Leases
<1>9. /\ job' = [job EXCEPT ![h] = job[h]]
      /\ torn' \in {torn, torn \cup {h}} /\ mishap' \in {mishap, mishap \cup {h}}
      /\ hook' \in [Hooks -> {"active", "inactive", "removed"}]
      /\ fanOut' \in [at : {"idle", "loop", "enqueue", "done", "cut"},
                       todo : SUBSET Hooks, h : Hooks \cup {None}]
      /\ UNCHANGED <<attempts, req, posts, accepted, again>>
      /\ h \in torn' => h \in mishap'
      /\ Leases(h)' >= Leases(h) /\ Leases(h)' \in Nat
  BY <1>1, <1>2, <1>4, <1>5, <1>6, <1>7, <1>8, At DEF rows, history, TypeOK
<1>10. job[h] \in Job /\ job' = [job EXCEPT ![h] = job[h]]
      /\ sh \in {"ABSENT", "REMOVED"} \cup Live /\ status' = [status EXCEPT ![h] = sh]
  BY <1>1, <1>2, At
<1>11. \A v \in Workers : req[v].h = h => LoneOK(v, req[v])'
  BY <1>6
<1>12. QED
  BY <1>4, <1>5, <1>9, <1>10, <1>11, HookStep

LEMMA CreateDeliveryKeeps ==
  ASSUME IndInv, NEW h \in Hooks, CreateDelivery(h)
  PROVE  IndInv'
<1>1. /\ fanOut.at = "loop" /\ h \in fanOut.todo
      /\ UNCHANGED <<hook, attempts, job, req, history>>
      /\ status' = [status EXCEPT ![h] = "PENDING"]
      /\ fanOut' = [at |-> "enqueue", todo |-> fanOut.todo \ {h}, h |-> h]
  BY DEF CreateDelivery
<1>2. job[h] = NoJob /\ status[h] = "ABSENT"
  BY <1>1, At DEF FanOutOK
<1>3. status'[h] = "PENDING" /\ \A g \in Hooks \ {h} : status'[g] = status[g]
  BY <1>1, At DEF TypeOK
<1>4. job[h].at = "none" /\ job[h].made = 0 /\ attempts[h] \in Nat
  BY <1>2, At DEF NoJob, TypeOK
<1>5. HookOK(h)'
  BY <1>1, <1>3, <1>4, At DEF history, HookOK, JobOK, RowOK, AgainOK, Pending, BackedAt,
     EndsAt, Decided
<1>6. FanOutOK'
  BY <1>1, <1>2, <1>3, At DEF FanOutOK, TypeOK
<1>7. \A v \in Workers : req[v].h # h
  BY <1>4, At
<1>8. /\ fanOut' \in [at : {"idle", "loop", "enqueue", "done", "cut"},
                       todo : SUBSET Hooks, h : Hooks \cup {None}]
      /\ "PENDING" \in Live
  BY <1>1, At DEF TypeOK, Live
<1>9. Leases(h) \in Nat /\ Leases(h)' = Leases(h)
  BY <1>1, LeasesNat, At DEF Leases
<1>10. /\ job' = [job EXCEPT ![h] = job[h]]
       /\ torn' \in {torn, torn \cup {h}} /\ mishap' \in {mishap, mishap \cup {h}}
       /\ hook' \in [Hooks -> {"active", "inactive", "removed"}]
       /\ fanOut' \in [at : {"idle", "loop", "enqueue", "done", "cut"},
                        todo : SUBSET Hooks, h : Hooks \cup {None}]
       /\ UNCHANGED <<attempts, req, posts, accepted, again>>
       /\ h \in torn' => h \in mishap'
       /\ Leases(h)' >= Leases(h) /\ Leases(h)' \in Nat
  BY <1>1, <1>5, <1>6, <1>7, <1>8, <1>9, At DEF rows, history, TypeOK
<1>11. QED
  BY <1>1, <1>5, <1>6, <1>7, <1>8, <1>9, <1>10, At, HookStep

LEMMA EnqueueKeeps ==
  ASSUME IndInv, Enqueue
  PROVE  IndInv'
<1> DEFINE jh == [NoJob EXCEPT !.at = "waiting"]
<1>1. PICK h \in Hooks : h = fanOut.h /\ h \notin fanOut.todo /\ job[h] = NoJob
                        /\ status[h] # "ABSENT"
  BY Parts DEF Enqueue, FanOutOK
<1>2. /\ UNCHANGED <<rows, req, history>> /\ job' = [job EXCEPT ![h] = jh]
      /\ fanOut' = [fanOut EXCEPT !.at = "loop", !.h = None]
  BY <1>1 DEF Enqueue
<1>3. jh \in Job /\ jh = [at |-> "waiting", made |-> 0, stalls |-> 0, owner |-> None]
  BY DEF Job, NoJob
<1>4. job'[h] = jh /\ \A g \in Hooks \ {h} : job'[g] = job[g]
  BY <1>2, At DEF TypeOK
<1> HIDE DEF jh
<1>5. job[h].at = "none" /\ job[h].made = 0 /\ job[h].stalls = 0 /\ job[h].owner = None
  BY <1>1 DEF NoJob
<1>6. status[h] \notin Decided
  BY <1>5, At DEF HookOK, JobOK
<1>7. again[h] \in Nat /\ attempts[h] \in Nat
  BY At DEF TypeOK
<1>8. HookOK(h)'
  BY <1>1, <1>2, <1>3, <1>4, <1>5, <1>6, <1>7, LimitsAssumption, At
     DEF history, rows, HookOK, JobOK, RowOK, AgainOK, BackedAt, EndsAt
<1>9. FanOutOK'
  BY <1>1, <1>2, <1>4, At DEF FanOutOK, TypeOK, rows
<1>10. \A v \in Workers : req[v].h # h
  BY <1>5, At
<1>11. fanOut' \in [at : {"idle", "loop", "enqueue", "done", "cut"},
                    todo : SUBSET Hooks, h : Hooks \cup {None}]
  BY <1>2, At DEF TypeOK
<1>12. Leases(h) = 0 /\ Leases(h)' = 0
  BY <1>3, <1>4, <1>5 DEF Leases
<1>13. /\ status' = [status EXCEPT ![h] = status[h]]
       /\ torn' \in {torn, torn \cup {h}} /\ mishap' \in {mishap, mishap \cup {h}}
       /\ hook' \in [Hooks -> {"active", "inactive", "removed"}]
       /\ fanOut' \in [at : {"idle", "loop", "enqueue", "done", "cut"},
                        todo : SUBSET Hooks, h : Hooks \cup {None}]
       /\ UNCHANGED <<attempts, req, posts, accepted, again>>
       /\ h \in torn' => h \in mishap'
       /\ Leases(h)' >= Leases(h) /\ Leases(h)' \in Nat
  BY <1>2, <1>3, <1>8, <1>9, <1>10, <1>11, <1>12, At DEF rows, history, TypeOK
<1>14. QED
  BY <1>2, <1>3, <1>8, <1>9, <1>10, <1>11, <1>12, <1>13, At, HookStep

LEMMA BackoffKeeps ==
  ASSUME IndInv, NEW h \in Hooks, Backoff(h)
  PROVE  IndInv'
<1> DEFINE jh == [job[h] EXCEPT !.at = "waiting"]
<1>1. job[h].at = "delayed" /\ UNCHANGED <<rows, fanOut, req, history>>
  BY DEF Backoff
<1>2. job' = [job EXCEPT ![h] = jh]
  BY At DEF Backoff, TypeOK
<1>3. /\ jh \in Job /\ jh.at = "waiting" /\ jh.made = job[h].made
      /\ jh.stalls = job[h].stalls /\ jh.owner = job[h].owner
  BY At DEF Job
<1>4. job'[h] = jh /\ \A g \in Hooks \ {h} : job'[g] = job[g]
  BY <1>2, At DEF TypeOK
<1> HIDE DEF jh
<1>5. HookOK(h)'
  BY <1>1, <1>3, <1>4, At
     DEF history, rows, HookOK, JobOK, RowOK, AgainOK, Pending, BackedAt, EndsAt
<1>6. FanOutOK'
  <2>1. job[h] # NoJob
    BY <1>1 DEF NoJob
  <2>2. QED
    BY <1>1, <1>4, <2>1, At DEF FanOutOK, TypeOK, rows
<1>7. \A v \in Workers : LoneOK(v, req[v])'
  <2>1. ASSUME NEW v \in Workers, req[v].at # "idle", req[v].h \notin torn
        PROVE  req[v].h # h
    BY <1>1, <2>1, At, NoneAssumption DEF WorkerOK, LoneOK, HookOK, JobOK
  <2>2. ASSUME NEW v \in Workers
        PROVE  LoneOK(v, req[v])'
    <3>1. WorkerOK(v)
      BY At
    <3>2. req[v].at # "idle" => req[v].h \in Hooks
      BY <3>1 DEF WorkerOK, ReadOK
    <3>3. QED
      BY <1>1, <1>4, <2>1, <3>1, <3>2 DEF WorkerOK, LoneOK, rows, history
  <2>3. QED
    BY <2>2
<1>8. Leases(h) \in Nat /\ Leases(h)' = Leases(h)
  BY <1>1, <1>3, <1>4, LeasesNat, At DEF Leases
<1>9. /\ status' = [status EXCEPT ![h] = status[h]]
      /\ torn' \in {torn, torn \cup {h}} /\ mishap' \in {mishap, mishap \cup {h}}
      /\ hook' \in [Hooks -> {"active", "inactive", "removed"}]
      /\ fanOut' \in [at : {"idle", "loop", "enqueue", "done", "cut"},
                       todo : SUBSET Hooks, h : Hooks \cup {None}]
      /\ UNCHANGED <<attempts, req, posts, accepted, again>>
      /\ h \in torn' => h \in mishap'
      /\ Leases(h)' >= Leases(h) /\ Leases(h)' \in Nat
  BY <1>1, <1>2, <1>3, <1>5, <1>6, <1>7, <1>8, At DEF rows, history, TypeOK
<1>10. status[h] \in {"ABSENT", "REMOVED"} \cup Live
  BY At
<1>11. QED
  BY <1>2, <1>3, <1>5, <1>6, <1>7, <1>9, <1>10, HookStep

LEMMA StallKeeps ==
  ASSUME IndInv, NEW h \in Hooks, Stall(h)
  PROVE  IndInv'
<1>1. PICK n \in Nat : n = job[h].stalls + 1
  BY At DEF Job
<1>2. PICK a \in {"waiting", "failed"} :
        a = IF job[h].stalls < MaxStalls THEN "waiting" ELSE "failed"
  OBVIOUS
<1> DEFINE jh == [job[h] EXCEPT !.at = a, !.stalls = n, !.owner = None]
<1>a. job[h].at = "active" => job[h].stalls \in Nat /\ MaxStalls \in Nat
  BY LimitsAssumption, At DEF Job
<1>3. /\ job[h].at = "active" /\ UNCHANGED <<rows, fanOut, req, posts, accepted, again>>
      /\ torn' = IF Attended(h) THEN torn \cup {h} ELSE torn
      /\ mishap' = IF Attended(h) \/ a = "failed" THEN mishap \cup {h} ELSE mishap
  BY <1>2, <1>a DEF Stall
<1>4. job' = [job EXCEPT ![h] = jh]
  BY <1>1, <1>2, At DEF Stall, Stalled, TypeOK
<1>5. /\ jh \in Job /\ jh.at = a /\ jh.made = job[h].made
      /\ jh.stalls = n /\ jh.owner = None
  BY At DEF Job, Resting
<1>6. job'[h] = jh /\ \A g \in Hooks \ {h} : job'[g] = job[g]
  BY <1>4, At DEF TypeOK
<1> HIDE DEF jh
<1>7. /\ job[h].made < MaxAttempts /\ job[h].stalls <= MaxStalls /\ status[h] # "ABSENT"
      /\ job[h].made \in Nat /\ job[h].stalls \in Nat
  BY <1>3, At DEF HookOK, JobOK, Job
<1>8. JobOK(h)'
  BY <1>1, <1>2, <1>3, <1>5, <1>6, <1>7, LimitsAssumption DEF JobOK, rows
<1>9. h \notin torn' => ~Attended(h) /\ h \notin torn
  BY <1>3
<1>10. \A v \in Workers : req[v].h = h => h \in torn'
  <2>1. SUFFICES ASSUME NEW v \in Workers, req[v].h = h, h \notin torn'
                 PROVE  FALSE
    OBVIOUS
  <2>2. req[v].at # "idle"
    BY <2>1, At, NoneAssumption DEF WorkerOK, ReadOK, Idle
  <2>3. job[h].owner = v
    BY <1>9, <2>1, <2>2, At DEF WorkerOK, LoneOK
  <2>4. QED
    BY <1>9, <2>1, <2>3 DEF Attended
<1>11. AgainOK(h)'
  <2>1. SUFFICES ASSUME h \notin torn'
                 PROVE  again[h] < n
    BY <1>3, <1>5, <1>6, <1>1, At DEF AgainOK, TypeOK
  <2>2. again[h] <= job[h].stalls /\ again[h] \in Nat
    BY <1>9, <2>1, At DEF HookOK, AgainOK, TypeOK
  <2>3. QED
    BY <1>1, <1>7, <2>2
<1>12. HookOK(h)'
  BY <1>2, <1>3, <1>5, <1>6, <1>8, <1>11, At DEF HookOK, RowOK, BackedAt, EndsAt, rows
<1>13. FanOutOK'
  <2>1. job[h] # NoJob
    BY <1>3 DEF NoJob
  <2>2. QED
    BY <1>3, <1>6, <2>1, At DEF FanOutOK, TypeOK, rows
<1>14. Leases(h) \in Nat /\ Leases(h)' = Leases(h)
  BY <1>1, <1>2, <1>3, <1>5, <1>6, <1>7 DEF Leases
<1>15. \A v \in Workers : req[v].h = h => LoneOK(v, req[v])'
  BY <1>3, <1>10 DEF LoneOK
<1>16. h \in torn' => h \in mishap'
  BY <1>3, At
<1>17. /\ status' = [status EXCEPT ![h] = status[h]]
       /\ torn' \in {torn, torn \cup {h}} /\ mishap' \in {mishap, mishap \cup {h}}
       /\ hook' \in [Hooks -> {"active", "inactive", "removed"}]
       /\ fanOut' \in [at : {"idle", "loop", "enqueue", "done", "cut"},
                        todo : SUBSET Hooks, h : Hooks \cup {None}]
       /\ UNCHANGED <<attempts, req, posts, accepted, again>>
  BY <1>3, At DEF rows, TypeOK
<1>18. Leases(h)' >= Leases(h) /\ Leases(h)' \in Nat
  BY <1>14
<1>19. QED
  BY <1>4, <1>5, <1>12, <1>13, <1>15, <1>16, <1>17, <1>18, At, HookStep

\* The steps of dispatch that touch no webhook.
LEMMA FanOutStep ==
  ASSUME IndInv, UNCHANGED <<rows, job, req, history>>, FanOutOK',
         fanOut' \in [at : {"idle", "loop", "enqueue", "done", "cut"},
                      todo : SUBSET Hooks, h : Hooks \cup {None}]
  PROVE  IndInv'
<1>1. TypeOK'
  BY DEF IndInv, TypeOK, rows, history
<1>2. \A h \in Hooks : JobOK(h)' /\ RowOK(h)' /\ AgainOK(h)' /\ Metered(h)'
  BY DEF IndInv, rows, history, JobOK, RowOK, AgainOK, Pending, Metered, ToPost, Leases
<1>3. \A w \in Workers : ReadOK(req[w])' /\ LoneOK(w, req[w])'
  BY DEF IndInv, rows, history, ReadOK, LoneOK
<1>4. StatusIsBacked' /\ EndsDecided' /\ (torn \subseteq mishap)'
  BY DEF IndInv, rows, history, StatusIsBacked, EndsDecided
<1>5. QED
  BY <1>1, <1>2, <1>3, <1>4 DEF IndInv

LEMMA FanOutKeeps ==
  ASSUME IndInv, Dispatch \/ EndDispatch \/ CutDispatch
  PROVE  IndInv'
<1>1. TypeOK /\ FanOutOK
  BY Parts
<1>2. CASE Dispatch
  <2>1. \A h \in Hooks : status[h] = "ABSENT" /\ job[h] = NoJob
    BY <1>1, <1>2 DEF Dispatch, FanOutOK
  <2>2. FanOutOK' /\ fanOut' \in [at : {"idle", "loop", "enqueue", "done", "cut"},
                                  todo : SUBSET Hooks, h : Hooks \cup {None}]
    BY <1>1, <1>2, <2>1 DEF Dispatch, FanOutOK, TypeOK, rows
  <2>3. QED
    BY <1>2, <2>2, FanOutStep DEF Dispatch
<1>3. CASE EndDispatch \/ CutDispatch
  <2>1. FanOutOK' /\ fanOut' \in [at : {"idle", "loop", "enqueue", "done", "cut"},
                                  todo : SUBSET Hooks, h : Hooks \cup {None}]
    BY <1>1, <1>3 DEF EndDispatch, CutDispatch, FanOutOK, TypeOK, rows
  <2>2. QED
    BY <1>3, <2>1, FanOutStep DEF EndDispatch, CutDispatch
<1>4. QED
  BY <1>2, <1>3

-----------------------------------------------------------------------------
THEOREM NextInv == IndInv /\ [Next]_vars => IndInv'
<1> SUFFICES ASSUME IndInv, [Next]_vars
             PROVE  IndInv'
  OBVIOUS
<1>1. CASE Dispatch \/ EndDispatch \/ CutDispatch
  BY <1>1, FanOutKeeps
<1>2. CASE \E h \in Hooks : CreateDelivery(h)
  BY <1>2, CreateDeliveryKeeps
<1>3. CASE Enqueue
  BY <1>3, EnqueueKeeps
<1>4. ASSUME NEW h \in Hooks,
             (\E active \in BOOLEAN : Update(h, active)) \/ Remove(h) \/ Backoff(h) \/ Stall(h)
      PROVE  IndInv'
  BY <1>4, UpdateKeeps, RemoveKeeps, BackoffKeeps, StallKeeps
<1>5. ASSUME NEW w \in Workers, \E h \in Hooks : Take(w, h)
      PROVE  IndInv'
  BY <1>5, TakeKeeps
<1>6. ASSUME NEW w \in Workers, Continue(w) \/ CallFails(w) \/ Crash(w)
      PROVE  IndInv'
  <2>1. req[w].at # "idle"
    <3>1. WorkerOK(w)
      BY Parts
    <3>2. QED
      BY <1>6, <3>1 DEF Continue, CallFails, Crash, Load, Post, Record, RecordGone, Settle,
         WorkerOK, ReadOK
  <2>2. PICK h \in Hooks : h = req[w].h
    BY <2>1, Given
  <2>3. QED
    BY <1>6, <2>2, LoadKeeps, PostKeeps, RecordKeeps, RecordGoneKeeps, SettleKeeps,
       CallFailsKeeps, CrashKeeps DEF Continue
<1>7. CASE UNCHANGED vars
  <2>1. UNCHANGED <<rows, job, req, history, fanOut>> /\ FanOutOK'
    BY <1>7, Parts DEF vars, rows, history, FanOutOK
  <2>2. QED
    BY <2>1, FanOutStep DEF IndInv, TypeOK
<1>8. QED
  BY <1>1, <1>2, <1>3, <1>4, <1>5, <1>6, <1>7 DEF Next, ContinueDispatch

\* IndInv is an invariant, whatever the limits and the number of workers.
THEOREM Invariance == Spec => []IndInv
BY InitInv, NextInv, PTL DEF Spec

\* The types of every variable, the queue's included.
THEOREM TypeCorrect == Spec => []TypeOK
<1>1. IndInv => TypeOK
  BY DEF IndInv
<1>2. QED
  BY <1>1, Invariance, PTL

\* A webhook is sent an event at most MaxAttempts + MaxStalls times.
THEOREM BoundedPosts == Spec => []PostsBounded
BY Invariance, Bounded, PTL

\* DELIVERED and EXHAUSTED tell what happened on the wire.
THEOREM BackedStatus == Spec => []StatusIsBacked
<1>1. IndInv => StatusIsBacked
  BY DEF IndInv
<1>2. QED
  BY <1>1, Invariance, PTL

\* A job that ended without a mishap has decided its delivery.
THEOREM DecidedEnds == Spec => []EndsDecided
<1>1. IndInv => EndsDecided
  BY DEF IndInv
<1>2. QED
  BY <1>1, Invariance, PTL

-----------------------------------------------------------------------------
(* The refinement.                                                         *)

LEMMA RecordRefines ==
  ASSUME IndInv, NEW w \in Workers, Record(w)
  PROVE  Log!Next
<1>1. req[w].at = "answered"
  BY DEF Record
<1>2. PICK h \in Hooks : h = req[w].h
  BY <1>1, Given
<1>3. PICK r \in Attempt : r = req[w]
  BY <1>1, Given
<1>4. /\ ReadOK(r) /\ LoneOK(w, r) /\ HookOK(h) /\ posts[h] \in Nat /\ TypeOK
      /\ job[h] \in Job /\ again[h] \in Nat
  BY <1>1, <1>2, <1>3, Given, Parts
<1>5. /\ status[h] \in Live /\ UNCHANGED torn
      /\ status' = [status EXCEPT ![h] = StatusOf(r)]
      /\ attempts' = [attempts EXCEPT ![h] = r.attempt]
      /\ again' = IF status[h] \in Decided /\ h \notin torn
                  THEN [again EXCEPT ![h] = @ + 1] ELSE again
  BY <1>2, <1>3 DEF Record
<1>6. r.attempt \in 1 .. MaxAttempts + MaxStalls /\ r.ok \in BOOLEAN
  BY <1>1, <1>2, <1>3, <1>4, Bounded, LimitsAssumption DEF ReadOK, PostsBounded, Attempt
<1>7. StatusOf(r) = Log!Result(r.ok, r.attempt)
  BY <1>6, LimitsAssumption DEF StatusOf, Exhausted, Log!Result
<1>8. status[h] \in Log!Live /\ (status[h] \in Decided <=> status[h] \in Log!Decided)
  BY <1>5 DEF Live, Decided, Log!Live, Log!Decided
<1>9. CASE h \in torn
  <2>1. Log!AttemptTorn(h, r.ok, r.attempt)
    BY <1>5, <1>7, <1>8, <1>9 DEF Log!AttemptTorn
  <2>2. QED
    BY <1>6, <2>1 DEF Log!Next
<1>10. CASE h \notin torn
  <2>1. r.attempt = attempts[h] + 1 /\ job[h].owner = w
    BY <1>1, <1>2, <1>3, <1>4, <1>5, <1>10 DEF LoneOK
  <2>2. job[h].stalls <= MaxStalls /\ job[h].stalls \in Nat
    BY <1>4, <2>1, NoneAssumption DEF HookOK, JobOK, Job
  <2>3. Pending(h)
    BY <1>1, <1>2 DEF Pending
  <2>4. status[h] \in Decided => again[h] < MaxStalls
    BY <1>4, <1>10, <2>2, <2>3, LimitsAssumption DEF HookOK, AgainOK
  <2>5. attempts' = [attempts EXCEPT ![h] = @ + 1]
    BY <1>5, <2>1
  <2>6. Log!Attempt(h, r.ok)
    BY <1>5, <1>7, <1>8, <1>10, <2>1, <2>4, <2>5 DEF Log!Attempt
  <2>7. QED
    BY <1>6, <2>6 DEF Log!Next
<1>11. QED
  BY <1>9, <1>10

LEMMA StepRefines == IndInv /\ [Next]_vars => [Log!Next]_Log!vars
<1> SUFFICES ASSUME IndInv, [Next]_vars
             PROVE  Log!Next \/ UNCHANGED <<status, attempts, again, torn>>
  BY DEF Log!vars
<1>1. CASE Dispatch \/ EndDispatch \/ CutDispatch \/ Enqueue
  BY <1>1 DEF Dispatch, EndDispatch, CutDispatch, Enqueue, rows, history
<1>2. ASSUME NEW h \in Hooks, CreateDelivery(h)
      PROVE  Log!Next
  <2>1. Log!Create(h)
    BY <1>2, Parts DEF CreateDelivery, FanOutOK, Log!Create, history
  <2>2. QED
    BY <2>1 DEF Log!Next
<1>3. ASSUME NEW h \in Hooks, Remove(h)
      PROVE  Log!Next \/ UNCHANGED <<status, attempts, again, torn>>
  <2>1. UNCHANGED <<attempts, again, torn>>
    BY <1>3 DEF Remove, history
  <2>2. CASE status[h] \in Live
    <3>1. Log!Remove(h)
      BY <1>3, <2>1, <2>2 DEF Remove, Log!Remove, Log!Live, Log!Decided, Live, Decided
    <3>2. QED
      BY <3>1 DEF Log!Next
  <2>3. CASE status[h] \notin Live
    BY <1>3, <2>1, <2>3, Parts DEF Remove, TypeOK
  <2>4. QED
    BY <2>2, <2>3
<1>4. ASSUME NEW h \in Hooks, Stall(h)
      PROVE  Log!Next \/ UNCHANGED <<status, attempts, again, torn>>
  <2>1. Log!Tear(h) \/ UNCHANGED <<status, attempts, again, torn>>
    BY <1>4 DEF Stall, Log!Tear, rows
  <2>2. QED
    BY <2>1 DEF Log!Next
<1>5. ASSUME NEW h \in Hooks, (\E active \in BOOLEAN : Update(h, active)) \/ Backoff(h)
      PROVE  UNCHANGED <<status, attempts, again, torn>>
  BY <1>5 DEF Update, Backoff, rows, history
<1>6. ASSUME NEW w \in Workers, Record(w)
      PROVE  Log!Next
  BY <1>6, RecordRefines
<1>7. ASSUME NEW w \in Workers,
             \/ \E h \in Hooks : Take(w, h)
             \/ \E ok \in BOOLEAN : Post(w, ok)
             \/ Load(w) \/ RecordGone(w) \/ Settle(w) \/ CallFails(w) \/ Crash(w)
      PROVE  UNCHANGED <<status, attempts, again, torn>>
  BY <1>7 DEF Take, Post, Load, RecordGone, Settle, CallFails, Crash, rows, history
<1>8. CASE UNCHANGED vars
  BY <1>8 DEF vars
<1>9. QED
  BY <1>1, <1>2, <1>3, <1>4, <1>5, <1>6, <1>7, <1>8 DEF Next, ContinueDispatch, Continue

\* The rows of an event's deliveries implement the log that DeliveryLifecycle
\* describes, for any number of webhooks and workers.
THEOREM Refinement == Spec => ImplementsLog
<1>1. Init => Log!Init
  BY DEF Init, Log!Init
<1>2. QED
  BY <1>1, Invariance, StepRefines, PTL DEF Spec, ImplementsLog, Log!Spec
=============================================================================
