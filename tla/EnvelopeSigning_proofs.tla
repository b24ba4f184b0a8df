----------------------- MODULE EnvelopeSigning_proofs -----------------------
(***************************************************************************)
(* Proofs that what EnvelopeSigning promises of overlapping requests holds *)
(* for every set of signers and of workers, whatever the requests, orders, *)
(* deadlines and failures.                                                 *)
(*                                                                         *)
(* Everything rests on IndInv.  Every step only moves the rows forward     *)
(* (Mono); what a worker remembers, once true, therefore stays true        *)
(* (OthersKeep), and an action's proof is about its own worker alone.      *)
(***************************************************************************)
EXTENDS EnvelopeSigning, TLAPS

\* No step takes back a row, a signature, a decline or the sending, and only
\* before the sending can a signer join on time.
Mono ==
  /\ UNCHANGED <<mode, order>>
  /\ status # "DRAFT" => status' # "DRAFT"
  /\ \A t \in Signers :
       /\ hasSignature[t] => hasSignature'[t]
       /\ declinedAt[t] => declinedAt'[t]
       /\ signerStatus[t] # ABSENT => signerStatus'[t] # ABSENT
       /\ status # "DRAFT" /\ OnTime(t)' => OnTime(t)

RowsOK ==
  /\ DraftIsUntouched
  /\ DeclinedIsRecorded
  /\ SignedHasSignature
  /\ SigningOrderKept
  /\ CompletedHasSignatures

LEMMA InTurnStays ==
  ASSUME Mono, status # "DRAFT", NEW s \in Signers, InTurn(s)
  PROVE  InTurn(s)'
BY DEF Mono, InTurn, Settled

LEMMA OthersKeep ==
  ASSUME IndInv, Mono, NEW v \in Workers, req'[v] = req[v]
  PROVE  MemoryOK(req[v])' /\ SignOK(req[v])'
<1>1. MemoryOK(req[v]) /\ SignOK(req[v]) /\ req[v] \in Request
  BY DEF IndInv, TypeOK
<1>2. MemoryOK(req[v])'
  BY <1>1 DEF MemoryOK, Mono, Request
<1>3. SignOK(req[v])'
  <2> SUFFICES ASSUME req[v].op = "sign", req[v].at # "read"
               PROVE  /\ InTurn(req[v].s)'
                      /\ req[v].at # "ready" => hasSignature'[req[v].s]
                      /\ req[v].at = "txn" =>
                           \A t \in Signers : OnTime(t)' => req[v].seen[t] # ABSENT
    BY DEF SignOK
  <2>1. req[v].s \in Signers /\ status # "DRAFT"
    BY <1>1 DEF MemoryOK, SignerRequests
  <2>2. InTurn(req[v].s)'
    BY <1>1, <2>1, InTurnStays DEF SignOK
  <2>3. QED
    BY <1>1, <2>1, <2>2 DEF SignOK, Mono
<1>4. QED
  BY <1>2, <1>3

\* An action of worker w keeps IndInv if it keeps the types and the rows'
\* invariants and leaves w with a memory that is true of the new rows.
LEMMA Assemble ==
  ASSUME IndInv, NEW w \in Workers, Mono,
         \A v \in Workers \ {w} : req'[v] = req[v],
         TypeOK', RowsOK', MemoryOK(req[w])', SignOK(req[w])'
  PROVE  IndInv'
<1>1. \A v \in Workers : MemoryOK(req[v])' /\ SignOK(req[v])'
  BY OthersKeep
<1>2. QED
  BY <1>1 DEF IndInv, RowsOK

\* An idle worker remembers nothing.
LEMMA IdleKeeps ==
  ASSUME TypeOK, NEW w \in Workers, Finish(w)
  PROVE  /\ req' \in [Workers -> Request]
         /\ \A v \in Workers \ {w} : req'[v] = req[v]
         /\ MemoryOK(req[w])' /\ SignOK(req[w])'
<1>1. Idle \in Request
  BY DEF Idle, Request, NothingSeen, RosterStatus, Steps, EnvelopeStatus
<1>2. req' = [req EXCEPT ![w] = Idle] /\ req'[w] = Idle
  BY DEF Finish, TypeOK
<1>3. /\ req'[w].op = "none" /\ req'[w].next = {}
      /\ \A t \in Signers : req'[w].seen[t] = ABSENT
  BY <1>2 DEF Idle, NothingSeen
<1>4. MemoryOK(req[w])' /\ SignOK(req[w])'
  BY <1>3 DEF MemoryOK, SignOK, SignerRequests, ABSENT
<1>5. QED
  BY <1>1, <1>2, <1>4 DEF TypeOK

\* Steps that touch no row and no signature.
LEMMA RowsUntouched ==
  ASSUME IndInv, UNCHANGED <<mode, order, status, rowVars, hasSignature>>
  PROVE  Mono /\ RowsOK'
BY DEF IndInv, RowsOK, Mono, OnTime, DraftIsUntouched, DeclinedIsRecorded,
       SignedHasSignature, SigningOrderKept, CompletedHasSignatures, InTurn,
       Settled, rowVars

-----------------------------------------------------------------------------
(* The steps that only read, and those that write nothing but jobs.        *)

LEMMA StartRequestKeeps ==
  ASSUME IndInv, NEW w \in Workers, NEW op \in Requests,
         NEW s \in Signers \cup {NoSigner}, StartRequest(w, op, s)
  PROVE  IndInv'
<1> DEFINE r == [Idle EXCEPT !.op = op, !.s = s, !.env = status,
                             !.at = IF op \in {"addSigner", "void"}
                                    THEN "ready" ELSE "read"]
<1>1. Mono /\ RowsOK'
  BY RowsUntouched DEF StartRequest, createVars
<1>2. r \in Request
  BY RequestsAssumption DEF IndInv, TypeOK, Idle, Request, NothingSeen,
     RosterStatus, Steps, EnvelopeStatus
<1>3. req' = [req EXCEPT ![w] = r] /\ req'[w] = r
  BY DEF StartRequest, IndInv, TypeOK
<1>4. TypeOK'
  BY <1>2, <1>3 DEF StartRequest, createVars, rowVars, IndInv, TypeOK
<1>5. /\ r.op = op /\ r.s = s /\ r.env = status /\ r.next = {}
      /\ r.at = (IF op \in {"addSigner", "void"} THEN "ready" ELSE "read")
      /\ \A t \in Signers : r.seen[t] = ABSENT
  BY DEF Idle, NothingSeen
<1>6. op \in SignerRequests \cup {"addSigner"} => s \in Signers
  BY DEF StartRequest, TargetsOf, SignerRequests
<1>7. op \in SignerRequests => status \in {"SENT", "IN_PROGRESS"}
  BY DEF StartRequest, Admits, EnvelopeActionable, IsTerminal, TerminalStatuses,
     EnvelopeStatus, SignerRequests, IndInv, TypeOK
<1>8. MemoryOK(req[w])' /\ SignOK(req[w])'
  BY <1>3, <1>5, <1>6, <1>7
     DEF MemoryOK, SignOK, SignerRequests, ABSENT, StartRequest
<1>9. QED
  BY <1>1, <1>3, <1>4, <1>8, Assemble DEF IndInv, TypeOK

LEMMA StartExpiryKeeps ==
  ASSUME IndInv, NEW w \in Workers, StartExpiry(w)
  PROVE  IndInv'
<1>1. Mono /\ RowsOK'
  BY RowsUntouched DEF StartExpiry, createVars
<1>2. CASE UNCHANGED req
  <2>1. TypeOK'
    BY <1>2 DEF StartExpiry, createVars, rowVars, IndInv, TypeOK
  <2>2. MemoryOK(req[w])' /\ SignOK(req[w])'
    BY <1>1, <1>2, OthersKeep
  <2>3. QED
    BY <1>1, <1>2, <2>1, <2>2, Assemble
<1>3. CASE req' = [req EXCEPT ![w] = [Idle EXCEPT !.op = "expire",
                                                  !.at = "ready",
                                                  !.env = status]]
  <2> DEFINE r == [Idle EXCEPT !.op = "expire", !.at = "ready", !.env = status]
  <2>1. r \in Request
    BY DEF IndInv, TypeOK, Idle, Request, NothingSeen, RosterStatus, Steps,
       EnvelopeStatus, AllRequests
  <2>2. req'[w] = r
    BY <1>3 DEF IndInv, TypeOK
  <2>3. TypeOK'
    BY <1>3, <2>1 DEF StartExpiry, createVars, rowVars, IndInv, TypeOK
  <2>4. r.op = "expire" /\ r.next = {} /\ \A t \in Signers : r.seen[t] = ABSENT
    BY DEF Idle, NothingSeen
  <2>5. MemoryOK(req[w])' /\ SignOK(req[w])'
    BY <2>2, <2>4 DEF MemoryOK, SignOK, SignerRequests, ABSENT
  <2>6. QED
    BY <1>1, <1>3, <2>3, <2>5, Assemble DEF IndInv, TypeOK
<1>4. QED
  BY <1>2, <1>3 DEF StartExpiry

LEMMA ReadSignersKeeps ==
  ASSUME IndInv, NEW w \in Workers, ReadSigners(w)
  PROVE  IndInv'
<1> DEFINE r == req[w]
           q == req'[w]
<1>1. Mono /\ RowsOK'
  BY RowsUntouched DEF ReadSigners, createVars
<1>2. r \in Request /\ MemoryOK(r) /\ r.at = "read"
  BY DEF ReadSigners, IndInv, TypeOK
<1>3. \A t \in Signers : signerStatus[t] \in RosterStatus /\ viewedAt[t] \in BOOLEAN
  BY DEF IndInv, TypeOK
<1>4. ActionableSigners(signerStatus, order, mode) \in SUBSET Roster(signerStatus)
  BY DEF ActionableSigners, Incomplete
<1>5. Roster(signerStatus) = {t \in Signers : signerStatus[t] # ABSENT}
  BY DEF Roster, IndInv, TypeOK
<1>6. \A x \in Request : req' = [req EXCEPT ![w] = x] =>
        q = x /\ req' \in [Workers -> Request] /\ \A v \in Workers \ {w} : req'[v] = req[v]
  BY DEF IndInv, TypeOK
<1>7. /\ q \in Request /\ req' \in [Workers -> Request]
      /\ \A v \in Workers \ {w} : req'[v] = req[v]
      /\ MemoryOK(req[w])' /\ SignOK(req[w])'
  <2>1. CASE r.op = "send"
    <3> DEFINE x == [r EXCEPT !.at = "ready",
                       !.next = ActionableSigners(signerStatus, order, mode)]
    <3>1. x \in Request
      BY <1>2, <1>4, <1>5 DEF Request, Steps
    <3>2. req' = [req EXCEPT ![w] = x]
      BY <2>1 DEF ReadSigners
    <3>3. q = x /\ x.op = "send" /\ x.seen = r.seen
          /\ x.next = ActionableSigners(signerStatus, order, mode)
      BY <1>2, <1>6, <2>1, <3>1, <3>2 DEF Request
    <3>4. MemoryOK(req[w])'
      BY <1>2, <1>4, <1>5, <3>3
         DEF MemoryOK, SignerRequests, ReadSigners, rowVars
    <3>5. SignOK(req[w])'
      BY <3>3 DEF SignOK
    <3>6. QED
      BY <1>6, <3>1, <3>2, <3>4, <3>5
  <2>2. CASE r.op = "view"
    <3> DEFINE x == [r EXCEPT !.at = "ready", !.viewed = viewedAt[r.s],
                              !.seen[r.s] = signerStatus[r.s]]
    <3>1. r.s \in Signers /\ signerStatus[r.s] # ABSENT
      BY <1>5, <2>2 DEF ReadSigners
    <3>2. x \in Request
      BY <1>2, <1>3, <3>1 DEF Request, Steps
    <3>3. req' = [req EXCEPT ![w] = x]
      BY <2>2 DEF ReadSigners
    <3>4. /\ q = x /\ x.op = "view" /\ x.next = r.next /\ x.s = r.s
          /\ x.env = r.env
          /\ x.seen = [r.seen EXCEPT ![r.s] = signerStatus[r.s]]
      BY <1>2, <1>6, <2>2, <3>2, <3>3 DEF Request
    <3>5. r.seen \in [Signers -> RosterStatus]
      BY <1>2 DEF Request
    <3>6. MemoryOK(req[w])'
      BY <1>2, <2>2, <3>1, <3>4, <3>5 DEF MemoryOK, SignerRequests, ReadSigners,
         rowVars, IndInv, SignedHasSignature, DeclinedIsRecorded
    <3>7. SignOK(req[w])'
      BY <3>4 DEF SignOK
    <3>8. QED
      BY <1>6, <3>2, <3>3, <3>6, <3>7
  <2>3. CASE r.op \in {"consent", "decline", "sign"}
    <3> DEFINE x == [r EXCEPT !.at = "ready"]
    <3>1. x \in Request
      BY <1>2 DEF Request, Steps
    <3>2. req' = [req EXCEPT ![w] = x]
      BY <2>3 DEF ReadSigners
    <3>3. /\ q = x /\ x.op = r.op /\ x.s = r.s /\ x.env = r.env
          /\ x.seen = r.seen /\ x.next = r.next /\ x.at = "ready"
      BY <1>2, <1>6, <3>1, <3>2 DEF Request
    <3>4. r.s \in Signers /\ signerStatus[r.s] # ABSENT
      BY <1>5, <2>3 DEF ReadSigners, IsSignerActionable, ActionableSigners,
         Incomplete
    <3>5. MemoryOK(req[w])'
      BY <1>2, <2>3, <3>3, <3>4 DEF MemoryOK, SignerRequests, ReadSigners, rowVars
    <3>6. r.op = "sign" => InTurn(r.s)
      <4> SUFFICES ASSUME r.op = "sign", mode = "SEQUENTIAL",
                          NEW t \in Signers, OnTime(t), order[t] < order[r.s]
                   PROVE  Settled(t)
        BY DEF InTurn
      <4>1. r.s \in ActionableSigners(signerStatus, order, mode)
        BY DEF ReadSigners, IsSignerActionable
      <4>2. order[t] \in Nat /\ order[r.s] \in Nat
        BY <3>4, OrdersAssumption DEF IndInv, TypeOK
      <4>3. t \notin Incomplete(signerStatus)
        BY <4>1, <4>2 DEF ActionableSigners
      <4>4. signerStatus[t] \in {"SIGNED", "DECLINED"}
        BY <1>5, <4>3 DEF Incomplete, OnTime, IsSignerComplete
      <4>5. QED
        BY <4>4 DEF Settled, IndInv, SignedHasSignature, DeclinedIsRecorded
    <3>7. SignOK(req[w])'
      BY <1>2, <2>3, <3>3, <3>6
         DEF SignOK, InTurn, OnTime, Settled, ReadSigners, createVars, rowVars
    <3>8. QED
      BY <1>6, <3>1, <3>2, <3>5, <3>7
  <2>4. QED
    BY <2>1, <2>2, <2>3 DEF ReadSigners
<1>8. TypeOK'
  BY <1>7 DEF ReadSigners, createVars, rowVars, IndInv, TypeOK
<1>9. QED
  BY <1>1, <1>7, <1>8, Assemble

\* A request that ends without touching a row.
LEMMA EndKeeps ==
  ASSUME IndInv, NEW w \in Workers, Finish(w),
         UNCHANGED <<mode, order, deadline, status, rowVars, hasSignature>>,
         enqueued' \in SUBSET Signers, expiryJob' \in BOOLEAN
  PROVE  IndInv'
<1>1. Mono /\ RowsOK'
  BY RowsUntouched
<1>2. TypeOK
  BY DEF IndInv
<1>3. TypeOK'
  BY <1>2, IdleKeeps DEF TypeOK, rowVars
<1>4. QED
  BY <1>1, <1>2, <1>3, IdleKeeps, Assemble

\* The signers whose jobs a worker may be adding are signers.
LEMMA EnqueuingType ==
  ASSUME IndInv, NEW w \in Workers
  PROVE  req[w].next \in SUBSET Signers /\ Enqueuing(w) \in SUBSET Signers
<1>1. req[w] \in Request /\ req[w].seen \in [Signers -> RosterStatus]
  BY DEF IndInv, TypeOK, Request
<1>2. NextToNotify(req[w]) \in SUBSET Signers
  BY <1>1 DEF NextToNotify, ActionableSigners, Incomplete, Roster
<1>3. QED
  BY <1>1, <1>2 DEF Enqueuing, Wanted, Request

LEMMA RefuseRequestKeeps ==
  ASSUME IndInv, NEW w \in Workers, RefuseRequest(w)
  PROVE  IndInv'
BY EndKeeps DEF RefuseRequest, createVars, IndInv, TypeOK

LEMMA TransactionTimeoutKeeps ==
  ASSUME IndInv, NEW w \in Workers, TransactionTimeout(w)
  PROVE  IndInv'
BY EndKeeps DEF TransactionTimeout, createVars, IndInv, TypeOK

LEMMA ScheduleExpiryKeeps ==
  ASSUME IndInv, NEW w \in Workers, ScheduleExpiry(w)
  PROVE  IndInv'
BY EndKeeps DEF ScheduleExpiry, createVars, IndInv, TypeOK

LEMMA FailKeeps ==
  ASSUME IndInv, NEW w \in Workers, Fail(w)
  PROVE  IndInv'
<1>1. PICK added \in SUBSET Enqueuing(w) : enqueued' = enqueued \cup added
  BY DEF Fail
<1>2. enqueued' \in SUBSET Signers
  BY <1>1, EnqueuingType DEF IndInv, TypeOK
<1>3. expiryJob' \in BOOLEAN
  BY DEF Fail, IndInv, TypeOK
<1>4. QED
  BY <1>2, <1>3, EndKeeps DEF Fail, createVars

LEMMA EnqueueNotificationsKeeps ==
  ASSUME IndInv, NEW w \in Workers, EnqueueNotifications(w)
  PROVE  IndInv'
<1> DEFINE r == req[w]
           x == [r EXCEPT !.at = "schedule"]
<1>1. Mono /\ RowsOK'
  BY RowsUntouched DEF EnqueueNotifications, createVars
<1>2. r \in Request /\ MemoryOK(r) /\ r.op = "send"
  BY DEF EnqueueNotifications, Is, IndInv, TypeOK
<1>3. req' = [req EXCEPT ![w] = x] /\ x \in Request
  BY <1>2 DEF EnqueueNotifications, Request, Steps
<1>4. req'[w] = x /\ \A v \in Workers \ {w} : req'[v] = req[v]
  BY <1>3 DEF IndInv, TypeOK
<1>5. x.op = "send" /\ x.seen = r.seen /\ x.next = r.next
  BY <1>2 DEF Request
<1>6. TypeOK'
  BY <1>3, EnqueuingType
     DEF EnqueueNotifications, createVars, rowVars, IndInv, TypeOK
<1>7. MemoryOK(req[w])' /\ SignOK(req[w])'
  BY <1>2, <1>4, <1>5
     DEF MemoryOK, SignOK, SignerRequests, EnqueueNotifications, rowVars
<1>8. QED
  BY <1>1, <1>4, <1>6, <1>7, Assemble

LEMMA BeginSignKeeps ==
  ASSUME IndInv, NEW w \in Workers, BeginSign(w)
  PROVE  IndInv'
<1> DEFINE r == req[w]
           x == [r EXCEPT !.at = "txn",
                          !.seen = [signerStatus EXCEPT ![r.s] = "SIGNED"]]
<1>1. Mono /\ RowsOK'
  BY RowsUntouched DEF BeginSign, createVars
<1>2. /\ r \in Request /\ MemoryOK(r) /\ SignOK(r)
      /\ r.op = "sign" /\ r.at = "signed"
  BY DEF BeginSign, Is, IndInv, TypeOK
<1>3. r.s \in Signers /\ hasSignature[r.s] /\ signerStatus[r.s] # ABSENT
  BY <1>2 DEF MemoryOK, SignOK, SignerRequests
<1>4. x \in Request
  BY <1>2 DEF Request, Steps, IndInv, TypeOK, RosterStatus, SignerStatus
<1>5. req' = [req EXCEPT ![w] = x] /\ req'[w] = x
  BY <1>2 DEF BeginSign, IndInv, TypeOK, Request
<1>6. /\ x.op = "sign" /\ x.at = "txn" /\ x.s = r.s /\ x.env = r.env
      /\ x.next = r.next
      /\ \A t \in Signers : x.seen[t] = IF t = r.s THEN "SIGNED" ELSE signerStatus[t]
  BY <1>2 DEF Request, IndInv, TypeOK
<1>7. TypeOK'
  BY <1>4, <1>5 DEF BeginSign, createVars, rowVars, IndInv, TypeOK
<1> HIDE DEF x
<1>8. UNCHANGED <<status, signerStatus, hasSignature, declinedAt, late, mode, order>>
  BY DEF BeginSign, createVars, rowVars
<1>9. \A t \in Signers :
        /\ x.seen[t] # ABSENT => signerStatus[t] # ABSENT
        /\ x.seen[t] = "SIGNED" => hasSignature[t]
        /\ x.seen[t] = "DECLINED" => declinedAt[t]
  BY <1>3, <1>6 DEF IndInv, SignedHasSignature, DeclinedIsRecorded
<1>10. MemoryOK(req[w])'
  BY <1>2, <1>3, <1>5, <1>6, <1>8, <1>9 DEF MemoryOK, SignerRequests
<1>11. InTurn(req[w].s)'
  BY <1>2, <1>5, <1>6, <1>8 DEF SignOK, InTurn, OnTime, Settled
<1>12. \A t \in Signers : OnTime(t)' => x.seen[t] # ABSENT
  BY <1>6, <1>8 DEF OnTime, ABSENT
<1>13. SignOK(req[w])'
  BY <1>3, <1>5, <1>6, <1>8, <1>11, <1>12 DEF SignOK
<1>14. QED
  BY <1>1, <1>5, <1>7, <1>10, <1>13, Assemble DEF IndInv, TypeOK

-----------------------------------------------------------------------------
(* The steps that write rows.                                              *)

\* What a write of signers' statuses and of the envelope's has to respect.
LEMMA WriteKeepsRows ==
  ASSUME IndInv, Mono, UNCHANGED hasSignature,
         \A s \in Signers : signerStatus'[s] = "SIGNED" => hasSignature[s],
         \A s \in Signers : signerStatus'[s] = "DECLINED" => declinedAt'[s],
         \/ status' # "COMPLETED"
         \/ status' = status
         \/ \A s \in Signers : OnTime(s)' => hasSignature[s]
  PROVE  RowsOK'
<1>1. DraftIsUntouched'
  BY DEF IndInv, DraftIsUntouched, Mono
<1>2. DeclinedIsRecorded' /\ SignedHasSignature'
  BY DEF DeclinedIsRecorded, SignedHasSignature
<1>3. SigningOrderKept'
  <2> SUFFICES ASSUME NEW s \in Signers, hasSignature[s]
               PROVE  InTurn(s)'
    BY DEF SigningOrderKept
  <2>1. status # "DRAFT" /\ InTurn(s)
    BY DEF IndInv, DraftIsUntouched, SigningOrderKept
  <2>2. QED
    BY <2>1, InTurnStays
<1>4. CompletedHasSignatures'
  BY DEF IndInv, CompletedHasSignatures, Mono
<1>5. QED
  BY <1>1, <1>2, <1>3, <1>4 DEF RowsOK

LEMMA EndWriteKeeps ==
  ASSUME IndInv, NEW w \in Workers, Finish(w), Mono, RowsOK',
         UNCHANGED <<mode, order, deadline>>, status' \in EnvelopeStatus,
         signerStatus' \in [Signers -> RosterStatus],
         viewedAt' \in [Signers -> BOOLEAN], declinedAt' \in [Signers -> BOOLEAN],
         UNCHANGED hasSignature, late' \in SUBSET Signers,
         enqueued' \in SUBSET Signers, UNCHANGED expiryJob
  PROVE  IndInv'
<1>1. TypeOK
  BY DEF IndInv
<1>2. TypeOK'
  BY <1>1, IdleKeeps DEF TypeOK
<1>3. QED
  BY <1>1, <1>2, IdleKeeps, Assemble

\* A row joins on time only while the envelope is a DRAFT.
LEMMA InsertSignerKeeps ==
  ASSUME IndInv, NEW w \in Workers, InsertSigner(w)
  PROVE  IndInv'
<1> DEFINE s == req[w].s
<1>1. req[w] \in Request /\ s \in Signers
  BY DEF InsertSigner, Is, IndInv, TypeOK, MemoryOK
<1>2. CASE signerStatus[s] = ABSENT
  <2>1. /\ signerStatus' = [signerStatus EXCEPT ![s] = "PENDING"]
        /\ late' = IF status = "DRAFT" THEN late ELSE late \cup {s}
        /\ UNCHANGED <<mode, order, deadline, status, viewedAt, declinedAt,
                       hasSignature, enqueued, expiryJob>>
    BY <1>2 DEF InsertSigner, createVars
  <2>2. signerStatus \in [Signers -> RosterStatus] /\ late \in SUBSET Signers
    BY DEF IndInv, TypeOK
  <2>3. Mono
    BY <1>1, <2>1, <2>2 DEF Mono, OnTime, ABSENT
  <2>4. RowsOK'
    BY <1>1, <2>1, <2>2, <2>3, WriteKeepsRows
       DEF IndInv, SignedHasSignature, DeclinedIsRecorded
  <2>5. signerStatus' \in [Signers -> RosterStatus] /\ late' \in SUBSET Signers
    BY <1>1, <2>1, <2>2 DEF RosterStatus, SignerStatus
  <2>6. QED
    BY <2>1, <2>3, <2>4, <2>5, EndWriteKeeps DEF InsertSigner, IndInv, TypeOK
<1>3. CASE signerStatus[s] # ABSENT
  BY <1>3, EndKeeps DEF InsertSigner, createVars, rowVars, IndInv, TypeOK
<1>4. QED
  BY <1>2, <1>3

LEMMA CommitConsentKeeps ==
  ASSUME IndInv, NEW w \in Workers, CommitConsent(w)
  PROVE  IndInv'
<1> DEFINE s == req[w].s
<1>1. s \in Signers
  BY DEF CommitConsent, Is, IndInv, MemoryOK, SignerRequests
<1>2. /\ signerStatus' = [signerStatus EXCEPT ![s] = "CONSENTED"]
      /\ UNCHANGED <<mode, order, deadline, status, viewedAt, declinedAt, late,
                     hasSignature, enqueued, expiryJob>>
  BY DEF CommitConsent, createVars
<1>3. signerStatus \in [Signers -> RosterStatus]
  BY DEF IndInv, TypeOK
<1>4. signerStatus[s] # ABSENT
  BY DEF CommitConsent, Is, IndInv, MemoryOK, SignerRequests
<1>5. Mono
  BY <1>1, <1>2, <1>3, <1>4 DEF Mono, OnTime, ABSENT
<1>6. RowsOK'
  BY <1>1, <1>2, <1>3, <1>5, WriteKeepsRows
     DEF IndInv, SignedHasSignature, DeclinedIsRecorded
<1>7. signerStatus' \in [Signers -> RosterStatus]
  BY <1>1, <1>2, <1>3 DEF RosterStatus, SignerStatus
<1>8. QED
  BY <1>2, <1>5, <1>6, <1>7, EndWriteKeeps DEF CommitConsent, IndInv, TypeOK

LEMMA CommitDeclineKeeps ==
  ASSUME IndInv, NEW w \in Workers, CommitDecline(w)
  PROVE  IndInv'
<1> DEFINE s == req[w].s
<1>1. s \in Signers
  BY DEF CommitDecline, Is, IndInv, MemoryOK, SignerRequests
<1>2. /\ signerStatus' = [signerStatus EXCEPT ![s] = "DECLINED"]
      /\ declinedAt' = [declinedAt EXCEPT ![s] = TRUE]
      /\ status' = "DECLINED"
      /\ UNCHANGED <<mode, order, deadline, viewedAt, late, hasSignature,
                     enqueued, expiryJob>>
  BY DEF CommitDecline, createVars
<1>3. /\ signerStatus \in [Signers -> RosterStatus]
      /\ declinedAt \in [Signers -> BOOLEAN]
  BY DEF IndInv, TypeOK
<1>4. signerStatus[s] # ABSENT
  BY DEF CommitDecline, Is, IndInv, MemoryOK, SignerRequests
<1>5. Mono
  BY <1>1, <1>2, <1>3, <1>4 DEF Mono, OnTime, ABSENT
<1>6. RowsOK'
  BY <1>1, <1>2, <1>3, <1>5, WriteKeepsRows
     DEF IndInv, SignedHasSignature, DeclinedIsRecorded
<1>7. /\ signerStatus' \in [Signers -> RosterStatus]
      /\ declinedAt' \in [Signers -> BOOLEAN] /\ status' \in EnvelopeStatus
  BY <1>1, <1>2, <1>3 DEF RosterStatus, SignerStatus, EnvelopeStatus
<1>8. QED
  BY <1>2, <1>5, <1>6, <1>7, EndWriteKeeps DEF CommitDecline, IndInv, TypeOK

\* void and expireIfDue leave the signers alone.
LEMMA CommitEndedKeeps ==
  ASSUME IndInv, NEW w \in Workers, CommitVoid(w) \/ CommitExpiry(w)
  PROVE  IndInv'
<1>1. /\ status' \in {"VOIDED", "EXPIRED"} /\ Finish(w)
      /\ UNCHANGED <<mode, order, deadline, signerStatus, viewedAt, declinedAt,
                     late, hasSignature, enqueued, expiryJob>>
  BY DEF CommitVoid, CommitExpiry, createVars, rowVars
<1>2. Mono
  BY <1>1 DEF Mono, OnTime
<1>3. RowsOK'
  BY <1>1, <1>2, WriteKeepsRows DEF IndInv, SignedHasSignature, DeclinedIsRecorded
<1>4. QED
  BY <1>1, <1>2, <1>3, EndWriteKeeps DEF IndInv, TypeOK, EnvelopeStatus

\* What markViewed writes back is the status it loaded: it may be stale, but a
\* SIGNED or DECLINED that was loaded is still backed by what it stands for.
LEMMA CommitViewKeeps ==
  ASSUME IndInv, NEW w \in Workers, CommitView(w)
  PROVE  IndInv'
<1> DEFINE r == req[w]
           shown == IF r.seen[r.s] \in {"PENDING", "NOTIFIED"} THEN "VIEWED"
                    ELSE r.seen[r.s]
<1>1. /\ r \in Request /\ MemoryOK(r) /\ r.op = "view" /\ r.at = "ready"
  BY DEF CommitView, Is, IndInv, TypeOK
<1>2. /\ r.s \in Signers /\ status # "DRAFT" /\ r.seen[r.s] # ABSENT
      /\ r.seen[r.s] = "SIGNED" => hasSignature[r.s]
      /\ r.seen[r.s] = "DECLINED" => declinedAt[r.s]
      /\ r.seen[r.s] \in RosterStatus
  BY <1>1 DEF MemoryOK, SignerRequests, Request
<1>3. /\ signerStatus \in [Signers -> RosterStatus]
      /\ viewedAt \in [Signers -> BOOLEAN]
  BY DEF IndInv, TypeOK
<1>4. /\ status' = (IF r.env = "SENT" THEN "IN_PROGRESS" ELSE status)
      /\ UNCHANGED <<mode, order, deadline, declinedAt, late, hasSignature,
                     enqueued, expiryJob>>
      /\ \/ UNCHANGED <<signerStatus, viewedAt>>
         \/ /\ viewedAt' = [viewedAt EXCEPT ![r.s] = TRUE]
            /\ signerStatus' = [signerStatus EXCEPT ![r.s] = shown]
  BY DEF CommitView, createVars
<1>5. /\ shown \in RosterStatus /\ shown # ABSENT
      /\ shown = "SIGNED" => hasSignature[r.s]
      /\ shown = "DECLINED" => declinedAt[r.s]
  BY <1>2 DEF RosterStatus, SignerStatus, ABSENT
<1> HIDE DEF shown
<1>6. /\ signerStatus' \in [Signers -> RosterStatus]
      /\ viewedAt' \in [Signers -> BOOLEAN]
      /\ \A t \in Signers :
           \/ signerStatus'[t] = signerStatus[t]
           \/ t = r.s /\ signerStatus'[t] = shown
  BY <1>2, <1>3, <1>4, <1>5
<1>7. Mono
  BY <1>2, <1>4, <1>5, <1>6 DEF Mono, OnTime, IndInv, MemoryOK
<1>8. RowsOK'
  <2>1. \A t \in Signers :
          /\ signerStatus'[t] = "SIGNED" => hasSignature[t]
          /\ signerStatus'[t] = "DECLINED" => declinedAt'[t]
    BY <1>4, <1>5, <1>6 DEF IndInv, SignedHasSignature, DeclinedIsRecorded
  <2>2. QED
    BY <1>4, <1>7, <2>1, WriteKeepsRows
<1>9. QED
  BY <1>4, <1>6, <1>7, <1>8, EndWriteKeeps
     DEF CommitView, IndInv, TypeOK, EnvelopeStatus

\* send writes over whatever the rows hold, but only over rows there are.
LEMMA CommitSendKeeps ==
  ASSUME IndInv, NEW w \in Workers, CommitSend(w)
  PROVE  IndInv'
<1> DEFINE r == req[w]
           x == [r EXCEPT !.at = "enqueue"]
<1>1. r \in Request /\ MemoryOK(r) /\ r.op = "send"
  BY DEF CommitSend, Is, IndInv, TypeOK
<1>2. req' = [req EXCEPT ![w] = x] /\ x \in Request
  BY <1>1 DEF CommitSend, Request, Steps
<1>3. req'[w] = x /\ \A v \in Workers \ {w} : req'[v] = req[v]
  BY <1>2 DEF IndInv, TypeOK
<1>4. x.op = "send" /\ x.seen = r.seen /\ x.next = r.next
  BY <1>1 DEF Request
<1>5. /\ status' = "SENT"
      /\ signerStatus' = [s \in Signers |-> IF s \in r.next THEN "NOTIFIED"
                                            ELSE signerStatus[s]]
      /\ UNCHANGED <<mode, order, deadline, viewedAt, declinedAt, late,
                     hasSignature, enqueued, expiryJob>>
  BY DEF CommitSend, createVars
<1>6. \A s \in Signers :
        \/ signerStatus'[s] = signerStatus[s]
        \/ signerStatus[s] # ABSENT /\ signerStatus'[s] = "NOTIFIED"
  BY <1>1, <1>5 DEF MemoryOK
<1>7. Mono
  BY <1>5, <1>6 DEF Mono, OnTime, ABSENT
<1>8. RowsOK'
  BY <1>5, <1>6, <1>7, WriteKeepsRows
     DEF IndInv, SignedHasSignature, DeclinedIsRecorded
<1>9. signerStatus' \in [Signers -> RosterStatus]
  BY <1>5 DEF IndInv, TypeOK, RosterStatus, SignerStatus
<1>10. TypeOK'
  BY <1>2, <1>5, <1>9 DEF IndInv, TypeOK, EnvelopeStatus
<1> HIDE DEF x
<1>11. MemoryOK(req[w])' /\ SignOK(req[w])'
  BY <1>1, <1>3, <1>4, <1>5, <1>7
     DEF MemoryOK, SignOK, SignerRequests, Mono
<1>12. QED
  BY <1>3, <1>7, <1>8, <1>10, <1>11, Assemble

\* A signature is added only for a signer whose turn it is.
LEMMA ApplySignatureKeeps ==
  ASSUME IndInv, NEW w \in Workers, ApplySignature(w)
  PROVE  IndInv'
<1> DEFINE r == req[w]
           x == [r EXCEPT !.at = "signed"]
<1>1. /\ r \in Request /\ MemoryOK(r) /\ SignOK(r)
      /\ r.op = "sign" /\ r.at = "ready"
  BY DEF ApplySignature, Is, IndInv, TypeOK
<1>2. req' = [req EXCEPT ![w] = x] /\ x \in Request
  BY <1>1 DEF ApplySignature, Request, Steps
<1>3. req'[w] = x /\ \A v \in Workers \ {w} : req'[v] = req[v]
  BY <1>2 DEF IndInv, TypeOK
<1>4. /\ x.op = "sign" /\ x.at = "signed" /\ x.s = r.s /\ x.env = r.env
      /\ x.seen = r.seen /\ x.next = r.next
  BY <1>1 DEF Request
<1>5. /\ hasSignature' = [hasSignature EXCEPT ![r.s] = TRUE]
      /\ UNCHANGED <<mode, order, deadline, status, signerStatus, viewedAt,
                     declinedAt, late, enqueued, expiryJob>>
  BY DEF ApplySignature, createVars, rowVars
<1>6. r.s \in Signers /\ status # "DRAFT" /\ InTurn(r.s)
  BY <1>1 DEF MemoryOK, SignOK, SignerRequests
<1>7. hasSignature \in [Signers -> BOOLEAN]
  BY DEF IndInv, TypeOK
<1>8. Mono
  BY <1>5, <1>6, <1>7 DEF Mono, OnTime
<1>9. \A s \in Signers : InTurn(s) => InTurn(s)'
  BY <1>6, <1>8, InTurnStays
<1>10. RowsOK'
  <2>1. DraftIsUntouched' /\ DeclinedIsRecorded'
    BY <1>5, <1>6 DEF DraftIsUntouched, DeclinedIsRecorded, IndInv
  <2>2. SignedHasSignature' /\ CompletedHasSignatures'
    BY <1>5, <1>8
       DEF SignedHasSignature, CompletedHasSignatures, OnTime, IndInv, Mono
  <2>3. SigningOrderKept'
    BY <1>5, <1>6, <1>7, <1>9 DEF SigningOrderKept, IndInv
  <2>4. QED
    BY <2>1, <2>2, <2>3 DEF RowsOK
<1>11. TypeOK'
  BY <1>2, <1>5, <1>6, <1>7 DEF IndInv, TypeOK
<1> HIDE DEF x
<1>12. MemoryOK(req[w])'
  BY <1>1, <1>3, <1>4, <1>5, <1>8 DEF MemoryOK, SignerRequests, Mono
<1>13. SignOK(req[w])'
  BY <1>3, <1>4, <1>5, <1>6, <1>7, <1>9 DEF SignOK
<1>14. QED
  BY <1>3, <1>8, <1>10, <1>11, <1>12, <1>13, Assemble

\* sign completes the envelope only on a reread that shows everyone SIGNED,
\* and the reread misses no one who was there when the envelope was sent.
LEMMA CommitSignKeeps ==
  ASSUME IndInv, NEW w \in Workers, CommitSign(w)
  PROVE  IndInv'
<1> DEFINE r == req[w]
           next == NextToNotify(r)
<1>1. /\ r \in Request /\ MemoryOK(r) /\ SignOK(r)
      /\ r.op = "sign" /\ r.at = "txn"
  BY DEF CommitSign, Is, IndInv, TypeOK
<1>2. /\ r.s \in Signers /\ status # "DRAFT" /\ hasSignature[r.s]
      /\ signerStatus[r.s] # ABSENT /\ r.env \in {"SENT", "IN_PROGRESS"}
  BY <1>1 DEF MemoryOK, SignOK, SignerRequests
<1>3. /\ status' = NewStatus(r)
      /\ signerStatus' = [t \in Signers |-> IF t = r.s THEN "SIGNED"
                                            ELSE IF t \in next THEN "NOTIFIED"
                                            ELSE signerStatus[t]]
      /\ enqueued' = enqueued \cup next
      /\ UNCHANGED <<mode, order, deadline, viewedAt, declinedAt, late,
                     hasSignature, expiryJob>>
  BY DEF CommitSign, createVars
<1>4. r.seen \in [Signers -> RosterStatus]
  BY <1>1 DEF Request
<1>5. next \in SUBSET Signers /\ \A t \in next : r.seen[t] # ABSENT
  BY <1>4 DEF NextToNotify, ActionableSigners, Incomplete, Roster
<1>6. \A t \in next : signerStatus[t] # ABSENT
  BY <1>1, <1>5 DEF MemoryOK
<1>7. NewStatus(r) \in {"IN_PROGRESS", "COMPLETED"}
  BY <1>2 DEF NewStatus
<1>8. NewStatus(r) = "COMPLETED" => \A t \in Signers : OnTime(t) => hasSignature[t]
  <2> SUFFICES ASSUME NewStatus(r) = "COMPLETED", NEW t \in Signers, OnTime(t)
               PROVE  hasSignature[t]
    OBVIOUS
  <2>1. AllSignersSigned(r.seen)
    BY <1>2 DEF NewStatus
  <2>2. r.seen[t] # ABSENT
    BY <1>1 DEF SignOK
  <2>3. r.seen[t] = "SIGNED"
    BY <1>4, <2>1, <2>2 DEF AllSignersSigned, Roster
  <2>4. QED
    BY <1>1, <2>3 DEF MemoryOK
<1> HIDE DEF next
<1>9. \A t \in Signers :
        \/ signerStatus'[t] = signerStatus[t]
        \/ signerStatus[t] # ABSENT /\ signerStatus'[t] = "NOTIFIED"
        \/ t = r.s /\ signerStatus'[t] = "SIGNED"
  BY <1>3, <1>6
<1>10. Mono
  BY <1>2, <1>3, <1>7, <1>9 DEF Mono, OnTime, ABSENT
<1>11. \A t \in Signers : OnTime(t)' => OnTime(t)
  BY <1>2, <1>10 DEF Mono
<1>12. RowsOK'
  BY <1>2, <1>3, <1>8, <1>9, <1>10, <1>11, WriteKeepsRows
     DEF IndInv, SignedHasSignature, DeclinedIsRecorded
<1>13. /\ signerStatus' \in [Signers -> RosterStatus]
       /\ status' \in EnvelopeStatus /\ enqueued' \in SUBSET Signers
  BY <1>3, <1>5, <1>7
     DEF IndInv, TypeOK, RosterStatus, SignerStatus, EnvelopeStatus
<1>14. QED
  BY <1>3, <1>10, <1>12, <1>13, EndWriteKeeps DEF CommitSign, IndInv, TypeOK

LEMMA DeadlinePassesKeeps ==
  ASSUME IndInv, DeadlinePasses
  PROVE  IndInv'
<1>1. Mono /\ RowsOK'
  BY RowsUntouched DEF DeadlinePasses, createVars
<1>2. TypeOK'
  BY DEF DeadlinePasses, createVars, rowVars, IndInv, TypeOK, Deadlines
<1>3. \A w \in Workers : MemoryOK(req[w])' /\ SignOK(req[w])'
  BY <1>1, OthersKeep DEF DeadlinePasses
<1>4. QED
  BY <1>1, <1>2, <1>3 DEF IndInv, RowsOK

LEMMA StutterKeeps ==
  ASSUME IndInv, UNCHANGED vars
  PROVE  IndInv'
<1>1. Mono /\ RowsOK'
  BY RowsUntouched DEF vars, rowVars
<1>2. TypeOK'
  BY DEF vars, IndInv, TypeOK
<1>3. \A w \in Workers : MemoryOK(req[w])' /\ SignOK(req[w])'
  BY <1>1, OthersKeep DEF vars
<1>4. QED
  BY <1>1, <1>2, <1>3 DEF IndInv, RowsOK

-----------------------------------------------------------------------------
(* The theorems.                                                           *)

LEMMA InitIndInv == Init => IndInv
<1> SUFFICES ASSUME Init PROVE IndInv
  OBVIOUS
<1>1. Idle \in Request /\ Idle.op = "none" /\ Idle.next = {}
      /\ \A t \in Signers : Idle.seen[t] = ABSENT
  BY DEF Idle, Request, NothingSeen, RosterStatus, Steps, EnvelopeStatus
<1>2. TypeOK
  BY <1>1, ExpiresAtAssumption
     DEF Init, TypeOK, EnvelopeStatus, RosterStatus, SignerStatus, Deadlines
<1>3. \A w \in Workers : req[w] = Idle
  BY DEF Init
<1>4. \A w \in Workers : MemoryOK(req[w]) /\ SignOK(req[w])
  BY <1>1, <1>3 DEF MemoryOK, SignOK, SignerRequests, ABSENT
<1>5. \A s \in Signers : signerStatus[s] \in {"PENDING", ABSENT} /\ ~hasSignature[s]
  BY DEF Init
<1>6. RowsOK
  BY <1>5 DEF Init, RowsOK, DraftIsUntouched, DeclinedIsRecorded,
     SignedHasSignature, SigningOrderKept, CompletedHasSignatures, ABSENT
<1>7. QED
  BY <1>2, <1>4, <1>6 DEF IndInv, RowsOK

LEMMA NextKeepsIndInv == IndInv /\ [Next]_vars => IndInv'
<1> SUFFICES ASSUME IndInv, [Next]_vars PROVE IndInv'
  OBVIOUS
<1>1. ASSUME NEW w \in Workers, NEW op \in Requests,
             NEW s \in Signers \cup {NoSigner}, StartRequest(w, op, s)
      PROVE  IndInv'
  BY <1>1, StartRequestKeeps
<1>2. ASSUME NEW w \in Workers, StartExpiry(w)
      PROVE  IndInv'
  BY <1>2, StartExpiryKeeps
<1>3. ASSUME NEW w \in Workers, Continue(w)
      PROVE  IndInv'
  <2>1. CASE ReadSigners(w)
    BY <2>1, ReadSignersKeeps
  <2>2. CASE RefuseRequest(w)
    BY <2>2, RefuseRequestKeeps
  <2>3. CASE InsertSigner(w)
    BY <2>3, InsertSignerKeeps
  <2>4. CASE CommitSend(w)
    BY <2>4, CommitSendKeeps
  <2>5. CASE EnqueueNotifications(w)
    BY <2>5, EnqueueNotificationsKeeps
  <2>6. CASE ScheduleExpiry(w)
    BY <2>6, ScheduleExpiryKeeps
  <2>7. CASE CommitView(w)
    BY <2>7, CommitViewKeeps
  <2>8. CASE CommitConsent(w)
    BY <2>8, CommitConsentKeeps
  <2>9. CASE ApplySignature(w)
    BY <2>9, ApplySignatureKeeps
  <2>10. CASE BeginSign(w)
    BY <2>10, BeginSignKeeps
  <2>11. CASE CommitSign(w)
    BY <2>11, CommitSignKeeps
  <2>12. CASE CommitDecline(w)
    BY <2>12, CommitDeclineKeeps
  <2>13. CASE CommitVoid(w) \/ CommitExpiry(w)
    BY <2>13, CommitEndedKeeps
  <2>14. QED
    BY <1>3, <2>1, <2>2, <2>3, <2>4, <2>5, <2>6, <2>7, <2>8, <2>9, <2>10,
       <2>11, <2>12, <2>13 DEF Continue
<1>4. ASSUME NEW w \in Workers, TransactionTimeout(w)
      PROVE  IndInv'
  BY <1>4, TransactionTimeoutKeeps
<1>5. ASSUME NEW w \in Workers, Fail(w)
      PROVE  IndInv'
  BY <1>5, FailKeeps
<1>6. CASE DeadlinePasses
  BY <1>6, DeadlinePassesKeeps
<1>7. CASE UNCHANGED vars
  BY <1>7, StutterKeeps
<1>8. QED
  BY <1>1, <1>2, <1>3, <1>4, <1>5, <1>6, <1>7 DEF Next

\* Whatever requests overlap, and wherever they fail, IndInv holds: what a
\* handler of envelopes.service.ts remembers stays true of the rows.
THEOREM Invariance == Spec => []IndInv
<1>1. Init => IndInv
  BY InitIndInv
<1>2. IndInv /\ [Next]_vars => IndInv'
  BY NextKeepsIndInv
<1>3. QED
  BY <1>1, <1>2, PTL DEF Spec

\* Every row, and all a handler keeps in memory, stays of its type.
THEOREM TypeCorrect == Spec => []TypeOK
<1>1. IndInv => TypeOK
  BY DEF IndInv
<1>2. QED
  BY <1>1, Invariance, PTL

\* No signer is ever shown as SIGNED without a signatures row: not by sign,
\* and not by markViewed or send writing a stale status back.
THEOREM SignedIsBacked == Spec => []SignedHasSignature
<1>1. IndInv => SignedHasSignature
  BY DEF IndInv
<1>2. QED
  BY <1>1, Invariance, PTL

\* However sign requests overlap with views, consents, declines and sends, no
\* one signs before the lower orders the envelope was sent to have settled.
THEOREM OrderIsKept == Spec => []SigningOrderKept
<1>1. IndInv => SigningOrderKept
  BY DEF IndInv
<1>2. QED
  BY <1>1, Invariance, PTL

\* No interleaving of sign transactions completes an envelope before everyone
\* it was sent to has a signature.
THEOREM CompletedIsBacked == Spec => []CompletedHasSignatures
<1>1. IndInv => CompletedHasSignatures
  BY DEF IndInv
<1>2. QED
  BY <1>1, Invariance, PTL

-----------------------------------------------------------------------------
(***************************************************************************)
(* One request at a time.  Where overlapping requests break the envelope's *)
(* lifecycle (section 4 of the README), a single worker keeps it, whatever *)
(* fails on the way: what the worker remembers are the rows.               *)
(***************************************************************************)

Moves == status' = status \/ CanTransition(status, status')

\* What an action of w leaves is SoloInv if the rows and w are all right.
LEMMA SoloAssemble ==
  ASSUME OneWorker, NEW w \in Workers, SoloRowsOK', NotifiedIsQueued',
         FreshOK(req[w])'
  PROVE  SoloInv'
BY DEF SoloInv, OneWorker

LEMMA SoloIdle ==
  ASSUME OneWorker, TypeOK, NEW w \in Workers, Finish(w), SoloRowsOK',
         NotifiedIsQueued'
  PROVE  SoloInv'
<1>1. req'[w] = Idle
  BY DEF Finish, TypeOK
<1>2. FreshOK(req[w])'
  BY <1>1 DEF FreshOK, Idle, SignerRequests
<1>3. QED
  BY <1>2, SoloAssemble

LEMMA SoloRowsUntouched ==
  ASSUME SoloRowsOK, UNCHANGED <<mode, order, status, signerStatus, declinedAt>>
  PROVE  SoloRowsOK' /\ Moves
BY DEF SoloRowsOK, DraftIsPending, LiveIsUnfinished, TurnIsNotPending,
       CompletedIsAllSigned, DeclineTerminates, Moves

\* No job is forgotten by a step other than adding send's jobs.
LEMMA QueuedStays ==
  ASSUME OneWorker, SoloInv, NEW w \in Workers,
         \A s \in Signers : signerStatus'[s] = "NOTIFIED" =>
                              signerStatus[s] = "NOTIFIED" \/ s \in enqueued',
         enqueued \in SUBSET enqueued', MayFail \/ ~Is(w, "send", "enqueue")
  PROVE  NotifiedIsQueued'
BY DEF NotifiedIsQueued, SoloInv, OneWorker

\* A request that ends without touching a row.
LEMMA SoloEnd ==
  ASSUME OneWorker, IndInv, SoloInv, NEW w \in Workers, Finish(w),
         UNCHANGED <<mode, order, status, rowVars>>,
         enqueued \in SUBSET enqueued', MayFail \/ ~Is(w, "send", "enqueue")
  PROVE  SoloInv' /\ Moves
<1>1. SoloRowsOK' /\ Moves
  BY SoloRowsUntouched DEF SoloInv, rowVars
<1>2. NotifiedIsQueued'
  BY QueuedStays DEF rowVars
<1>3. QED
  BY <1>1, <1>2, SoloIdle DEF IndInv

\* A row that is written over, short of completing it, announces nobody else.
LEMMA TurnKept ==
  ASSUME IndInv, TurnIsNotPending, UNCHANGED <<mode, order>>,
         signerStatus' \in [Signers -> RosterStatus], NEW s \in Signers,
         \A t \in Signers \ {s} : signerStatus'[t] = signerStatus[t],
         signerStatus'[s] \in {"VIEWED", "CONSENTED"},
         status' \in {"SENT", "IN_PROGRESS"} => status \in {"SENT", "IN_PROGRESS"}
  PROVE  TurnIsNotPending'
<1> SUFFICES ASSUME status' \in {"SENT", "IN_PROGRESS"},
                    NEW t \in ActionableSigners(signerStatus', order, mode),
                    signerStatus'[t] = "PENDING"
             PROVE  FALSE
  BY DEF TurnIsNotPending
<1>1. signerStatus \in [Signers -> RosterStatus]
  BY DEF IndInv, TypeOK
<1>2. t \in Incomplete(signerStatus') /\ t \in Signers /\ t # s
  BY DEF ActionableSigners, Incomplete, Roster
<1>3. t \in Incomplete(signerStatus)
  BY <1>1, <1>2 DEF Incomplete, Roster
<1>4. \A u \in Incomplete(signerStatus) : u \in Incomplete(signerStatus')
  <2> SUFFICES ASSUME NEW u \in Incomplete(signerStatus)
               PROVE  u \in Incomplete(signerStatus')
    OBVIOUS
  <2>1. u \in Signers /\ signerStatus[u] # ABSENT /\ ~IsSignerComplete(signerStatus[u])
    BY <1>1 DEF Incomplete, Roster
  <2>2. CASE u = s
    BY <2>1, <2>2 DEF Incomplete, Roster, IsSignerComplete, ABSENT
  <2>3. CASE u # s
    BY <2>1, <2>3 DEF Incomplete, Roster
  <2>4. QED
    BY <2>2, <2>3
<1>5. t \in ActionableSigners(signerStatus, order, mode)
  BY <1>3, <1>4 DEF ActionableSigners
<1>6. QED
  BY <1>2, <1>5 DEF TurnIsNotPending

-----------------------------------------------------------------------------

LEMMA SoloStartRequest ==
  ASSUME OneWorker, IndInv, SoloInv, NEW w \in Workers, NEW op \in Requests,
         NEW s \in Signers \cup {NoSigner}, StartRequest(w, op, s)
  PROVE  SoloInv' /\ Moves
<1> DEFINE r == [Idle EXCEPT !.op = op, !.s = s, !.env = status,
                             !.at = IF op \in {"addSigner", "void"}
                                    THEN "ready" ELSE "read"]
<1>1. SoloRowsOK' /\ Moves
  BY SoloRowsUntouched DEF StartRequest, createVars, rowVars, SoloInv
<1>2. NotifiedIsQueued'
  BY QueuedStays DEF StartRequest, rowVars, Is, Idle
<1>3. req'[w] = r
  BY DEF StartRequest, IndInv, TypeOK
<1>4. /\ r.op = op /\ r.env = status
      /\ r.at = (IF op \in {"addSigner", "void"} THEN "ready" ELSE "read")
  BY DEF Idle
<1> HIDE DEF r
<1>5. /\ op = "addSigner" => status = "DRAFT"
      /\ op = "send" => status = "DRAFT"
      /\ op = "void" => CanTransition(status, "VOIDED")
      /\ op # "expire"
  BY DEF StartRequest, Admits, CanTransition, EnvelopeTransitions,
     TerminalStatuses, SignerRequests
<1>6. FreshOK(req[w])'
  BY <1>3, <1>4, <1>5 DEF FreshOK, StartRequest
<1>7. QED
  BY <1>1, <1>2, <1>6, SoloAssemble

LEMMA SoloStartExpiry ==
  ASSUME OneWorker, IndInv, SoloInv, NEW w \in Workers, StartExpiry(w)
  PROVE  SoloInv' /\ Moves
<1>1. SoloRowsOK' /\ Moves
  BY SoloRowsUntouched DEF StartExpiry, createVars, rowVars, SoloInv
<1>2. NotifiedIsQueued'
  BY QueuedStays DEF StartExpiry, rowVars, Is, Idle
<1>3. CASE UNCHANGED req
  <2>1. FreshOK(req[w]) /\ req'[w] = req[w] /\ req[w].op = "none"
    BY <1>3 DEF StartExpiry, Idle, SoloInv
  <2>2. FreshOK(req[w])'
    BY <2>1 DEF FreshOK, SignerRequests
  <2>3. QED
    BY <1>1, <1>2, <2>2, SoloAssemble
<1>4. CASE /\ CanTransition(status, "EXPIRED")
           /\ req' = [req EXCEPT ![w] = [Idle EXCEPT !.op = "expire",
                                                     !.at = "ready",
                                                     !.env = status]]
  <2> DEFINE r == [Idle EXCEPT !.op = "expire", !.at = "ready", !.env = status]
  <2>1. req'[w] = r
    BY <1>4 DEF IndInv, TypeOK
  <2>2. r.op = "expire"
    BY DEF Idle
  <2>3. FreshOK(req[w])'
    BY <1>4, <2>1, <2>2 DEF FreshOK, SignerRequests, StartExpiry
  <2>4. QED
    BY <1>1, <1>2, <2>3, SoloAssemble
<1>5. QED
  BY <1>3, <1>4 DEF StartExpiry

LEMMA SoloReadSigners ==
  ASSUME OneWorker, IndInv, SoloInv, NEW w \in Workers, ReadSigners(w)
  PROVE  SoloInv' /\ Moves
<1> DEFINE r == req[w]
           q == req'[w]
<1>1. SoloRowsOK' /\ Moves
  BY SoloRowsUntouched DEF ReadSigners, createVars, rowVars, SoloInv
<1>2. NotifiedIsQueued'
  BY QueuedStays DEF ReadSigners, rowVars, Is
<1>3. r \in Request /\ MemoryOK(r) /\ FreshOK(r) /\ r.at = "read"
  BY DEF ReadSigners, IndInv, TypeOK, SoloInv
<1>4. UNCHANGED <<status, signerStatus, order, mode>>
  BY DEF ReadSigners, createVars, rowVars
<1>5. CASE r.op = "send"
  <2> DEFINE x == [r EXCEPT !.at = "ready",
                       !.next = ActionableSigners(signerStatus, order, mode)]
  <2>1. req' = [req EXCEPT ![w] = x] /\ Roster(signerStatus) # {}
    BY <1>5 DEF ReadSigners
  <2>2. q = x
    BY <2>1 DEF IndInv, TypeOK
  <2>3. x.op = "send" /\ x.next = ActionableSigners(signerStatus, order, mode)
    BY <1>3, <1>5 DEF Request
  <2>4. FreshOK(req[w])'
    BY <1>3, <1>4, <1>5, <2>1, <2>2, <2>3 DEF FreshOK, SignerRequests
  <2>5. QED
    BY <1>1, <1>2, <2>4, SoloAssemble
<1>6. CASE r.op = "view"
  <2> DEFINE x == [r EXCEPT !.at = "ready", !.viewed = viewedAt[r.s],
                            !.seen[r.s] = signerStatus[r.s]]
  <2>1. req' = [req EXCEPT ![w] = x]
    BY <1>6 DEF ReadSigners
  <2>2. q = x
    BY <2>1 DEF IndInv, TypeOK
  <2>3. r.s \in Signers /\ r.seen \in [Signers -> RosterStatus]
    BY <1>3, <1>6 DEF MemoryOK, SignerRequests, Request
  <2>4. /\ x.op = "view" /\ x.s = r.s /\ x.env = r.env
        /\ x.seen[r.s] = signerStatus[r.s]
    BY <1>3, <1>6, <2>3 DEF Request
  <2>5. FreshOK(req[w])'
    BY <1>3, <1>4, <1>6, <2>2, <2>4 DEF FreshOK, SignerRequests
  <2>6. QED
    BY <1>1, <1>2, <2>5, SoloAssemble
<1>7. CASE r.op \in {"consent", "decline", "sign"}
  <2> DEFINE x == [r EXCEPT !.at = "ready"]
  <2>1. req' = [req EXCEPT ![w] = x]
    BY <1>7 DEF ReadSigners
  <2>2. q = x
    BY <2>1 DEF IndInv, TypeOK
  <2>3. x.op = r.op /\ x.env = r.env /\ x.at = "ready"
    BY <1>3 DEF Request
  <2>4. FreshOK(req[w])'
    BY <1>3, <1>4, <1>7, <2>2, <2>3 DEF FreshOK, SignerRequests
  <2>5. QED
    BY <1>1, <1>2, <2>4, SoloAssemble
<1>8. QED
  BY <1>5, <1>6, <1>7 DEF ReadSigners

LEMMA SoloEnds ==
  ASSUME OneWorker, IndInv, SoloInv, NEW w \in Workers,
         RefuseRequest(w) \/ TransactionTimeout(w) \/ ScheduleExpiry(w) \/ Fail(w)
  PROVE  SoloInv' /\ Moves
<1>1. CASE RefuseRequest(w)
  BY <1>1, SoloEnd DEF RefuseRequest, createVars, Is
<1>2. CASE TransactionTimeout(w)
  BY <1>2, SoloEnd DEF TransactionTimeout, createVars, Waiting, Wanted, Is
<1>3. CASE ScheduleExpiry(w)
  BY <1>3, SoloEnd DEF ScheduleExpiry, createVars, Is
<1>4. CASE Fail(w)
  <2>1. PICK added \in SUBSET Enqueuing(w) : enqueued' = enqueued \cup added
    BY <1>4 DEF Fail
  <2>2. QED
    BY <1>4, <2>1, SoloEnd DEF Fail, createVars
<1>5. QED
  BY <1>1, <1>2, <1>3, <1>4

-----------------------------------------------------------------------------
(* The writes.                                                             *)

LEMMA SoloInsertSigner ==
  ASSUME OneWorker, IndInv, SoloInv, NEW w \in Workers, InsertSigner(w)
  PROVE  SoloInv' /\ Moves
<1> DEFINE r == req[w]
<1>1. r \in Request /\ FreshOK(r) /\ r.op = "addSigner"
  BY DEF InsertSigner, Is, IndInv, TypeOK, SoloInv
<1>2. status = "DRAFT" /\ status' = "DRAFT"
  BY <1>1 DEF FreshOK, InsertSigner
<1>3. \A t \in Signers : signerStatus'[t] \in {"PENDING", ABSENT}
  BY <1>2 DEF InsertSigner, SoloInv, SoloRowsOK, DraftIsPending, IndInv, TypeOK
<1>4. SoloRowsOK' /\ Moves
  BY <1>2, <1>3
     DEF SoloInv, SoloRowsOK, DraftIsPending, LiveIsUnfinished, TurnIsNotPending,
         CompletedIsAllSigned, DeclineTerminates, InsertSigner, Moves
<1>5. NotifiedIsQueued'
  BY <1>3 DEF NotifiedIsQueued, ABSENT
<1>6. QED
  BY <1>4, <1>5, SoloIdle DEF InsertSigner, IndInv

LEMMA SoloCommitSend ==
  ASSUME OneWorker, IndInv, SoloInv, NEW w \in Workers, CommitSend(w)
  PROVE  SoloInv' /\ Moves
<1> DEFINE r == req[w]
           x == [r EXCEPT !.at = "enqueue"]
<1>1. /\ r \in Request /\ FreshOK(r) /\ r.op = "send" /\ r.at = "ready"
      /\ signerStatus \in [Signers -> RosterStatus]
  BY DEF CommitSend, Is, IndInv, TypeOK, SoloInv
<1>2. /\ status = "DRAFT" /\ Roster(signerStatus) # {}
      /\ r.next = ActionableSigners(signerStatus, order, mode)
  BY <1>1 DEF FreshOK
<1>3. /\ status' = "SENT"
      /\ signerStatus' = [s \in Signers |-> IF s \in r.next THEN "NOTIFIED"
                                            ELSE signerStatus[s]]
      /\ UNCHANGED <<mode, order, declinedAt, enqueued>>
      /\ req' = [req EXCEPT ![w] = x]
  BY DEF CommitSend, createVars
<1>4. req'[w] = x
  BY <1>3 DEF IndInv, TypeOK
<1>5. x.op = "send" /\ x.at = "enqueue" /\ x.next = r.next
  BY <1>1 DEF Request
<1> HIDE DEF x
<1>6. \A s \in Signers : signerStatus[s] \in {"PENDING", ABSENT}
  BY <1>2 DEF SoloInv, SoloRowsOK, DraftIsPending
<1>7. \A s \in r.next : s \in Signers /\ signerStatus[s] = "PENDING"
  BY <1>1, <1>2, <1>6 DEF ActionableSigners, Incomplete, Roster
<1>8. /\ Roster(signerStatus') = Roster(signerStatus)
      /\ Incomplete(signerStatus') = Incomplete(signerStatus)
  <2>1. \A s \in Signers : signerStatus'[s] # ABSENT <=> signerStatus[s] # ABSENT
    BY <1>3, <1>7 DEF ABSENT
  <2>2. Roster(signerStatus') = Roster(signerStatus)
    BY <1>1, <1>3, <2>1 DEF Roster
  <2>3. \A s \in Signers : ~IsSignerComplete(signerStatus'[s]) /\ ~IsSignerComplete(signerStatus[s])
    BY <1>3, <1>6 DEF IsSignerComplete, ABSENT
  <2>4. \A s \in Roster(signerStatus) : s \in Signers
    BY <1>1 DEF Roster
  <2>5. QED
    BY <2>2, <2>3, <2>4 DEF Incomplete
<1>9. LiveIsUnfinished'
  <2>1. PICK s \in Signers : signerStatus[s] = "PENDING"
    BY <1>1, <1>2, <1>6 DEF Roster
  <2>2. s \in Roster(signerStatus')
    BY <1>1, <1>8, <2>1 DEF Roster, ABSENT
  <2>3. signerStatus'[s] # "SIGNED"
    BY <1>3, <2>1
  <2>4. QED
    BY <2>2, <2>3 DEF LiveIsUnfinished, AllSignersSigned
<1>10. TurnIsNotPending'
  <2>1. ActionableSigners(signerStatus', order', mode') = r.next
    BY <1>2, <1>3, <1>8 DEF ActionableSigners
  <2>2. QED
    BY <1>3, <1>7, <2>1 DEF TurnIsNotPending
<1>11. DeclineTerminates'
  BY <1>2, <1>3 DEF DeclineTerminates, SoloInv, SoloRowsOK
<1>12. SoloRowsOK' /\ Moves
  BY <1>2, <1>3, <1>9, <1>10, <1>11
     DEF SoloRowsOK, DraftIsPending, CompletedIsAllSigned, Moves, CanTransition,
         EnvelopeTransitions
<1>13. NotifiedIsQueued'
  <2>1. \A s \in Signers : signerStatus'[s] = "NOTIFIED" => s \in r.next
    BY <1>3, <1>6 DEF ABSENT
  <2>2. QED
    BY <1>4, <1>5, <2>1 DEF NotifiedIsQueued, Is
<1>14. FreshOK(req[w])'
  BY <1>4, <1>5 DEF FreshOK, SignerRequests
<1>15. QED
  BY <1>12, <1>13, <1>14, SoloAssemble

LEMMA SoloEnqueueNotifications ==
  ASSUME OneWorker, IndInv, SoloInv, NEW w \in Workers, EnqueueNotifications(w)
  PROVE  SoloInv' /\ Moves
<1> DEFINE r == req[w]
           x == [r EXCEPT !.at = "schedule"]
<1>1. r \in Request /\ r.op = "send"
  BY DEF EnqueueNotifications, Is, IndInv, TypeOK
<1>2. /\ req' = [req EXCEPT ![w] = x]
      /\ enqueued' = enqueued \cup r.next
      /\ UNCHANGED <<mode, order, status, signerStatus, declinedAt>>
  BY DEF EnqueueNotifications, createVars, rowVars
<1>3. req'[w] = x
  BY <1>2 DEF IndInv, TypeOK
<1>4. x.op = "send" /\ x.at = "schedule"
  BY <1>1 DEF Request
<1>5. SoloRowsOK' /\ Moves
  BY <1>2, SoloRowsUntouched DEF SoloInv
<1>6. NotifiedIsQueued'
  BY <1>2 DEF NotifiedIsQueued, SoloInv, OneWorker
<1>7. FreshOK(req[w])'
  BY <1>3, <1>4 DEF FreshOK, SignerRequests
<1>8. QED
  BY <1>5, <1>6, <1>7, SoloAssemble

LEMMA SoloCommitView ==
  ASSUME OneWorker, IndInv, SoloInv, NEW w \in Workers, CommitView(w)
  PROVE  SoloInv' /\ Moves
<1> DEFINE r == req[w]
           shown == IF r.seen[r.s] \in {"PENDING", "NOTIFIED"} THEN "VIEWED"
                    ELSE r.seen[r.s]
<1>1. /\ r \in Request /\ MemoryOK(r) /\ FreshOK(r)
      /\ r.op = "view" /\ r.at = "ready"
      /\ signerStatus \in [Signers -> RosterStatus]
  BY DEF CommitView, Is, IndInv, TypeOK, SoloInv
<1>2. /\ r.s \in Signers /\ signerStatus[r.s] # ABSENT
      /\ r.seen[r.s] = signerStatus[r.s]
      /\ status = r.env /\ status \in {"SENT", "IN_PROGRESS"}
  BY <1>1 DEF MemoryOK, FreshOK, SignerRequests
<1>3. /\ UNCHANGED <<mode, order, declinedAt, enqueued>>
      /\ \/ UNCHANGED signerStatus
         \/ signerStatus' = [signerStatus EXCEPT ![r.s] = shown]
  BY DEF CommitView, createVars
<1>4. status' = "IN_PROGRESS"
  BY <1>2 DEF CommitView
<1>5. shown = signerStatus[r.s] \/ shown = "VIEWED"
  BY <1>2
<1> HIDE DEF shown
<1>6. /\ \A t \in Signers \ {r.s} : signerStatus'[t] = signerStatus[t]
      /\ signerStatus'[r.s] \in {signerStatus[r.s], "VIEWED"}
      /\ signerStatus' \in [Signers -> RosterStatus]
  BY <1>1, <1>2, <1>3, <1>5 DEF RosterStatus, SignerStatus
<1>7. LiveIsUnfinished'
  <2>1. ~AllSignersSigned(signerStatus) /\ r.s \in Roster(signerStatus)
    BY <1>1, <1>2 DEF SoloInv, SoloRowsOK, LiveIsUnfinished, Roster
  <2>2. PICK t \in Roster(signerStatus) : signerStatus[t] # "SIGNED"
    BY <2>1 DEF AllSignersSigned
  <2>3. t \in Signers /\ signerStatus[t] # ABSENT
    BY <1>1, <2>2 DEF Roster
  <2>4. signerStatus'[t] # "SIGNED" /\ signerStatus'[t] # ABSENT
    BY <1>6, <2>2, <2>3 DEF ABSENT
  <2>5. QED
    BY <1>6, <2>3, <2>4 DEF LiveIsUnfinished, AllSignersSigned, Roster
<1>8. TurnIsNotPending'
  <2>1. CASE UNCHANGED signerStatus
    BY <1>2, <1>3, <2>1 DEF TurnIsNotPending, SoloInv, SoloRowsOK
  <2>2. CASE signerStatus'[r.s] = "VIEWED"
    BY <1>2, <1>3, <1>6, <2>2, TurnKept DEF SoloInv, SoloRowsOK
  <2>3. QED
    BY <1>1, <1>3, <1>5, <1>6, <2>1, <2>2
<1>9. DeclineTerminates'
  BY <1>2, <1>3 DEF DeclineTerminates, SoloInv, SoloRowsOK
<1>10. SoloRowsOK' /\ Moves
  BY <1>2, <1>4, <1>7, <1>8, <1>9
     DEF SoloRowsOK, DraftIsPending, CompletedIsAllSigned, Moves, CanTransition,
         EnvelopeTransitions
<1>11. NotifiedIsQueued'
  BY <1>1, <1>3, <1>6, QueuedStays DEF Is
<1>12. QED
  BY <1>10, <1>11, SoloIdle DEF CommitView, IndInv

LEMMA SoloCommitConsent ==
  ASSUME OneWorker, IndInv, SoloInv, NEW w \in Workers, CommitConsent(w)
  PROVE  SoloInv' /\ Moves
<1> DEFINE r == req[w]
<1>1. /\ r \in Request /\ MemoryOK(r) /\ FreshOK(r)
      /\ r.op = "consent" /\ r.at = "ready"
      /\ signerStatus \in [Signers -> RosterStatus]
  BY DEF CommitConsent, Is, IndInv, TypeOK, SoloInv
<1>2. /\ r.s \in Signers /\ signerStatus[r.s] # ABSENT
      /\ status \in {"SENT", "IN_PROGRESS"}
  BY <1>1 DEF MemoryOK, FreshOK, SignerRequests
<1>3. /\ UNCHANGED <<mode, order, status, declinedAt, enqueued>>
      /\ signerStatus' = [signerStatus EXCEPT ![r.s] = "CONSENTED"]
  BY DEF CommitConsent, createVars
<1>4. /\ \A t \in Signers \ {r.s} : signerStatus'[t] = signerStatus[t]
      /\ signerStatus'[r.s] = "CONSENTED"
      /\ signerStatus' \in [Signers -> RosterStatus]
  BY <1>1, <1>2, <1>3 DEF RosterStatus, SignerStatus
<1>5. LiveIsUnfinished'
  BY <1>2, <1>4 DEF LiveIsUnfinished, AllSignersSigned, Roster, ABSENT
<1>6. TurnIsNotPending'
  BY <1>2, <1>3, <1>4, TurnKept DEF SoloInv, SoloRowsOK
<1>7. SoloRowsOK' /\ Moves
  BY <1>2, <1>3, <1>5, <1>6
     DEF SoloInv, SoloRowsOK, DraftIsPending, CompletedIsAllSigned,
         DeclineTerminates, Moves
<1>8. NotifiedIsQueued'
  BY <1>1, <1>3, <1>4, QueuedStays DEF Is
<1>9. QED
  BY <1>7, <1>8, SoloIdle DEF CommitConsent, IndInv

LEMMA SoloSigning ==
  ASSUME OneWorker, IndInv, SoloInv, NEW w \in Workers,
         ApplySignature(w) \/ BeginSign(w)
  PROVE  SoloInv' /\ Moves
<1> DEFINE r == req[w]
<1>1. r \in Request /\ FreshOK(r) /\ r.op = "sign"
  BY DEF ApplySignature, BeginSign, Is, IndInv, TypeOK, SoloInv
<1>2. UNCHANGED <<mode, order, status, signerStatus, declinedAt, enqueued>>
  BY DEF ApplySignature, BeginSign, createVars, rowVars
<1>3. SoloRowsOK' /\ Moves
  BY <1>2, SoloRowsUntouched DEF SoloInv
<1>4. NotifiedIsQueued'
  BY <1>1, <1>2, QueuedStays DEF Is
<1>5. CASE ApplySignature(w)
  <2> DEFINE x == [r EXCEPT !.at = "signed"]
  <2>1. req'[w] = x
    BY <1>5 DEF ApplySignature, IndInv, TypeOK
  <2>2. x.op = "sign" /\ x.at = "signed" /\ x.env = r.env
    BY <1>1 DEF Request
  <2>3. FreshOK(req[w])'
    BY <1>1, <1>2, <2>1, <2>2 DEF FreshOK, SignerRequests
  <2>4. QED
    BY <1>3, <1>4, <2>3, SoloAssemble
<1>6. CASE BeginSign(w)
  <2> DEFINE x == [r EXCEPT !.at = "txn",
                            !.seen = [signerStatus EXCEPT ![r.s] = "SIGNED"]]
  <2>1. req'[w] = x
    BY <1>6 DEF BeginSign, IndInv, TypeOK
  <2>2. /\ x.op = "sign" /\ x.at = "txn" /\ x.env = r.env /\ x.s = r.s
        /\ x.seen = [signerStatus EXCEPT ![r.s] = "SIGNED"]
    BY <1>1 DEF Request
  <2>3. FreshOK(req[w])'
    BY <1>1, <1>2, <2>1, <2>2 DEF FreshOK, SignerRequests
  <2>4. QED
    BY <1>3, <1>4, <2>3, SoloAssemble
<1>7. QED
  BY <1>5, <1>6

\* The reread is the roster as it will be but for the signers to notify: it
\* settles the envelope if it shows everyone SIGNED, and announces the next
\* bucket if it does not.
LEMMA SoloCommitSign ==
  ASSUME OneWorker, IndInv, SoloInv, NEW w \in Workers, CommitSign(w)
  PROVE  SoloInv' /\ Moves
<1> DEFINE r == req[w]
           next == NextToNotify(r)
<1>1. /\ r \in Request /\ MemoryOK(r) /\ FreshOK(r)
      /\ r.op = "sign" /\ r.at = "txn"
      /\ signerStatus \in [Signers -> RosterStatus]
  BY DEF CommitSign, Is, IndInv, TypeOK, SoloInv
<1>2. /\ r.s \in Signers /\ r.env = status /\ status \in {"SENT", "IN_PROGRESS"}
      /\ r.seen = [signerStatus EXCEPT ![r.s] = "SIGNED"]
  BY <1>1 DEF MemoryOK, FreshOK, SignerRequests
<1>3. r.seen \in [Signers -> RosterStatus] /\ r.seen[r.s] = "SIGNED"
  BY <1>1, <1>2 DEF Request
<1>4. next = {t \in ActionableSigners(r.seen, order, mode) :
                r.seen[t] = "PENDING" /\ NewStatus(r) = "IN_PROGRESS"}
  BY DEF NextToNotify
<1>5. \A t \in next : t \in Signers /\ r.seen[t] = "PENDING"
  BY <1>3, <1>4 DEF ActionableSigners, Incomplete, Roster
<1>6. /\ status' = NewStatus(r) /\ UNCHANGED <<mode, order, declinedAt>>
      /\ enqueued' = enqueued \cup next
      /\ signerStatus' \in [Signers -> RosterStatus]
      /\ \A t \in Signers : signerStatus'[t] = IF t \in next THEN "NOTIFIED"
                                               ELSE r.seen[t]
  <2>1. /\ status' = NewStatus(r) /\ UNCHANGED <<mode, order, declinedAt>>
        /\ enqueued' = enqueued \cup next
        /\ signerStatus' = [t \in Signers |-> IF t = r.s THEN "SIGNED"
                                              ELSE IF t \in next THEN "NOTIFIED"
                                              ELSE signerStatus[t]]
    BY DEF CommitSign, createVars
  <2> HIDE DEF next
  <2>2. r.s \notin next
    BY <1>3, <1>5
  <2>3. \A t \in Signers : signerStatus'[t] = IF t \in next THEN "NOTIFIED"
                                              ELSE r.seen[t]
    BY <1>1, <1>2, <2>1, <2>2
  <2>4. signerStatus' \in [Signers -> RosterStatus]
    BY <1>1, <2>1 DEF RosterStatus, SignerStatus
  <2>5. QED
    BY <2>1, <2>3, <2>4
<1>7. \/ NewStatus(r) = "COMPLETED" /\ AllSignersSigned(r.seen)
      \/ NewStatus(r) = "IN_PROGRESS" /\ ~AllSignersSigned(r.seen)
  BY <1>2 DEF NewStatus
<1> HIDE DEF next
<1>8. /\ Roster(signerStatus') = Roster(r.seen)
      /\ Incomplete(signerStatus') = Incomplete(r.seen)
  <2>1. \A t \in Signers :
          /\ signerStatus'[t] # ABSENT <=> r.seen[t] # ABSENT
          /\ IsSignerComplete(signerStatus'[t]) <=> IsSignerComplete(r.seen[t])
    BY <1>5, <1>6 DEF ABSENT, IsSignerComplete
  <2>2. Roster(signerStatus') = Roster(r.seen)
    BY <1>3, <1>6, <2>1 DEF Roster
  <2>3. \A t \in Roster(r.seen) : t \in Signers
    BY <1>3 DEF Roster
  <2>4. QED
    BY <2>1, <2>2, <2>3 DEF Incomplete
<1>9. LiveIsUnfinished' /\ CompletedIsAllSigned'
  <2>1. CASE NewStatus(r) = "COMPLETED"
    <3>1. next = {}
      BY <1>4, <2>1
    <3>2. \A t \in Signers : signerStatus'[t] = r.seen[t]
      BY <1>6, <3>1
    <3>3. \A t \in Roster(r.seen) : t \in Signers
      BY <1>3 DEF Roster
    <3>4. AllSignersSigned(signerStatus')
      BY <1>7, <1>8, <2>1, <3>2, <3>3 DEF AllSignersSigned
    <3>5. QED
      BY <1>6, <2>1, <3>4 DEF LiveIsUnfinished, CompletedIsAllSigned
  <2>2. CASE NewStatus(r) = "IN_PROGRESS"
    <3>1. r.s \in Roster(r.seen)
      BY <1>2, <1>3 DEF Roster, ABSENT
    <3>2. PICK t \in Roster(r.seen) : r.seen[t] # "SIGNED"
      BY <1>7, <2>2, <3>1 DEF AllSignersSigned
    <3>3. t \in Signers
      BY <1>3 DEF Roster
    <3>4. signerStatus'[t] # "SIGNED"
      BY <1>6, <3>2, <3>3
    <3>5. QED
      BY <1>6, <1>8, <2>2, <3>2, <3>4
         DEF LiveIsUnfinished, CompletedIsAllSigned, AllSignersSigned
  <2>3. QED
    BY <1>7, <2>1, <2>2
<1>10. TurnIsNotPending'
  <2> SUFFICES ASSUME status' \in {"SENT", "IN_PROGRESS"},
                      NEW t \in ActionableSigners(signerStatus', order', mode'),
                      signerStatus'[t] = "PENDING"
               PROVE  FALSE
    BY DEF TurnIsNotPending
  <2>1. t \in ActionableSigners(r.seen, order, mode)
    BY <1>6, <1>8 DEF ActionableSigners
  <2>2. t \in Signers
    BY <1>3, <2>1 DEF ActionableSigners, Incomplete, Roster
  <2>3. t \notin next /\ r.seen[t] = "PENDING"
    BY <1>6, <2>2
  <2>4. NewStatus(r) = "IN_PROGRESS"
    BY <1>6, <1>7
  <2>5. QED
    BY <1>4, <2>1, <2>3, <2>4
<1>11. DeclineTerminates'
  BY <1>2, <1>6 DEF DeclineTerminates, SoloInv, SoloRowsOK
<1>12. SoloRowsOK' /\ Moves
  BY <1>2, <1>6, <1>7, <1>9, <1>10, <1>11
     DEF SoloRowsOK, DraftIsPending, Moves, CanTransition, EnvelopeTransitions,
         TerminalStatuses
<1>13. NotifiedIsQueued'
  <2>1. \A t \in Signers : signerStatus'[t] = "NOTIFIED" =>
          signerStatus[t] = "NOTIFIED" \/ t \in enqueued'
    BY <1>1, <1>2, <1>6
  <2>2. QED
    BY <1>1, <1>6, <2>1, QueuedStays DEF Is
<1>14. QED
  BY <1>12, <1>13, SoloIdle DEF CommitSign, IndInv

\* declining, voiding and expiring an envelope settle it.
LEMMA SoloSettles ==
  ASSUME OneWorker, IndInv, SoloInv, NEW w \in Workers,
         CommitDecline(w) \/ CommitVoid(w) \/ CommitExpiry(w)
  PROVE  SoloInv' /\ Moves
<1> DEFINE r == req[w]
<1>1. r \in Request /\ MemoryOK(r) /\ FreshOK(r)
  BY DEF IndInv, TypeOK, SoloInv
<1>2. UNCHANGED <<mode, order, enqueued>> /\ ~Is(w, "send", "enqueue") /\ Finish(w)
  BY DEF CommitDecline, CommitVoid, CommitExpiry, createVars, Is
<1>3. CASE CommitDecline(w)
  <2>1. r.s \in Signers /\ CanTransition(status, "DECLINED") /\ status' = "DECLINED"
        /\ signerStatus' = [signerStatus EXCEPT ![r.s] = "DECLINED"]
    BY <1>1, <1>3 DEF CommitDecline, Is, MemoryOK, FreshOK, SignerRequests
  <2>2. SoloRowsOK' /\ Moves
    BY <2>1 DEF SoloRowsOK, DraftIsPending, LiveIsUnfinished, TurnIsNotPending,
       CompletedIsAllSigned, DeclineTerminates, Moves
  <2>3. NotifiedIsQueued'
    BY <1>2, <2>1, QueuedStays DEF IndInv, TypeOK
  <2>4. QED
    BY <1>2, <2>2, <2>3, SoloIdle DEF IndInv
<1>4. CASE CommitVoid(w) \/ CommitExpiry(w)
  <2>1. /\ status' \in {"VOIDED", "EXPIRED"} /\ CanTransition(status, status')
        /\ UNCHANGED <<signerStatus, declinedAt>>
    BY <1>1, <1>4 DEF CommitVoid, CommitExpiry, Is, FreshOK, rowVars
  <2>2. status # "DECLINED"
    BY <2>1 DEF CanTransition, EnvelopeTransitions, TerminalStatuses
  <2>3. SoloRowsOK' /\ Moves
    BY <2>1, <2>2 DEF SoloInv, SoloRowsOK, DraftIsPending, LiveIsUnfinished,
       TurnIsNotPending, CompletedIsAllSigned, DeclineTerminates, Moves
  <2>4. NotifiedIsQueued'
    BY <1>2, <2>1, QueuedStays
  <2>5. QED
    BY <1>2, <2>3, <2>4, SoloIdle DEF IndInv
<1>5. QED
  BY <1>3, <1>4

\* Time passing and stuttering change nothing of it.
LEMMA SoloRests ==
  ASSUME IndInv, SoloInv, UNCHANGED <<mode, order, status, signerStatus,
         declinedAt, enqueued, req>>
  PROVE  SoloInv' /\ Moves
<1>1. SoloRowsOK' /\ Moves
  BY SoloRowsUntouched DEF SoloInv
<1>2. NotifiedIsQueued'
  BY DEF NotifiedIsQueued, SoloInv, Is
<1>3. \A w \in Workers : FreshOK(req[w])'
  BY DEF SoloInv, FreshOK
<1>4. QED
  BY <1>1, <1>2, <1>3 DEF SoloInv

LEMMA InitSoloInv == Init => SoloInv
<1> SUFFICES ASSUME Init PROVE SoloInv
  OBVIOUS
<1>1. \A w \in Workers : req[w].op = "none" /\ FreshOK(req[w])
  BY DEF Init, Idle, FreshOK, SignerRequests
<1>2. SoloRowsOK
  BY DEF Init, SoloRowsOK, DraftIsPending, LiveIsUnfinished, TurnIsNotPending,
     CompletedIsAllSigned, DeclineTerminates
<1>3. NotifiedIsQueued
  BY DEF Init, NotifiedIsQueued, ABSENT
<1>4. QED
  BY <1>1, <1>2, <1>3 DEF SoloInv

LEMMA NextKeepsSoloInv ==
  ASSUME OneWorker, IndInv, SoloInv, [Next]_vars
  PROVE  SoloInv' /\ Moves
<1>1. ASSUME NEW w \in Workers, NEW op \in Requests,
             NEW s \in Signers \cup {NoSigner}, StartRequest(w, op, s)
      PROVE  SoloInv' /\ Moves
  BY <1>1, SoloStartRequest
<1>2. ASSUME NEW w \in Workers, StartExpiry(w)
      PROVE  SoloInv' /\ Moves
  BY <1>2, SoloStartExpiry
<1>3. ASSUME NEW w \in Workers, Continue(w)
      PROVE  SoloInv' /\ Moves
  <2>1. CASE ReadSigners(w)
    BY <2>1, SoloReadSigners
  <2>2. CASE RefuseRequest(w) \/ ScheduleExpiry(w)
    BY <2>2, SoloEnds
  <2>3. CASE InsertSigner(w)
    BY <2>3, SoloInsertSigner
  <2>4. CASE CommitSend(w)
    BY <2>4, SoloCommitSend
  <2>5. CASE EnqueueNotifications(w)
    BY <2>5, SoloEnqueueNotifications
  <2>6. CASE CommitView(w)
    BY <2>6, SoloCommitView
  <2>7. CASE CommitConsent(w)
    BY <2>7, SoloCommitConsent
  <2>8. CASE ApplySignature(w) \/ BeginSign(w)
    BY <2>8, SoloSigning
  <2>9. CASE CommitSign(w)
    BY <2>9, SoloCommitSign
  <2>10. CASE CommitDecline(w) \/ CommitVoid(w) \/ CommitExpiry(w)
    BY <2>10, SoloSettles
  <2>11. QED
    BY <1>3, <2>1, <2>2, <2>3, <2>4, <2>5, <2>6, <2>7, <2>8, <2>9, <2>10
       DEF Continue
<1>4. ASSUME NEW w \in Workers, TransactionTimeout(w) \/ Fail(w)
      PROVE  SoloInv' /\ Moves
  BY <1>4, SoloEnds
<1>5. CASE DeadlinePasses
  BY <1>5, SoloRests DEF DeadlinePasses, createVars, rowVars
<1>6. CASE UNCHANGED vars
  BY <1>6, SoloRests DEF vars
<1>7. QED
  BY <1>1, <1>2, <1>3, <1>4, <1>5, <1>6 DEF Next

\* With one worker SoloInv holds: what the handler of envelopes.service.ts
\* remembers of the envelope is what the rows say, whatever fails.
THEOREM SoloInvariance ==
  ASSUME OneWorker
  PROVE  Spec => []SoloInv
<1>1. IndInv /\ SoloInv /\ [Next]_vars => SoloInv'
  BY NextKeepsSoloInv
<1>2. QED
  BY <1>1, InitSoloInv, Invariance, PTL DEF Spec

\* One request at a time, the roster and the status agree: once everyone has
\* signed and no request runs, the envelope is settled; it is COMPLETED only if
\* everyone is SIGNED; and one decline is the end of it.
THEOREM SoloSettlement ==
  ASSUME OneWorker
  PROVE  Spec => [](AllSignedIsTerminal /\ CompletedIsAllSigned /\ DeclineTerminates)
<1>1. IndInv /\ SoloInv =>
        AllSignedIsTerminal /\ CompletedIsAllSigned /\ DeclineTerminates
  <2> SUFFICES ASSUME IndInv, SoloInv, AllSignersSigned(signerStatus)
               PROVE  IsTerminal(status)
    BY DEF SoloInv, SoloRowsOK, AllSignedIsTerminal
  <2>1. PICK s \in Signers : signerStatus[s] = "SIGNED"
    BY DEF AllSignersSigned, Roster, IndInv, TypeOK
  <2>2. status \notin {"DRAFT", "SENT", "IN_PROGRESS"}
    BY <2>1 DEF SoloInv, SoloRowsOK, DraftIsPending, LiveIsUnfinished, ABSENT
  <2>3. QED
    BY <2>2 DEF IsTerminal, TerminalStatuses, IndInv, TypeOK, EnvelopeStatus
<1>2. QED
  BY <1>1, Invariance, SoloInvariance, PTL

\* One request at a time, an envelope that everyone has signed is settled as
\* soon as no request runs: sign's reread completes it.
THEOREM SoloCompletion ==
  ASSUME OneWorker
  PROVE  Spec => []AllSignedIsTerminal
<1>1. QED
  BY SoloSettlement, PTL

\* One request at a time, COMPLETED means that everyone is SIGNED: consent and
\* markViewed find no signer to turn back once sign has completed.
THEOREM SoloCompleteness ==
  ASSUME OneWorker
  PROVE  Spec => []CompletedIsAllSigned
<1>1. QED
  BY SoloSettlement, PTL

\* One request at a time, a decline is the end of the envelope, whatever
\* requests come after it and whatever fails.
THEOREM SoloDecline ==
  ASSUME OneWorker
  PROVE  Spec => []DeclineTerminates
<1>1. QED
  BY SoloSettlement, PTL

\* One request at a time and nothing failing, sign and send leave nobody whose
\* turn it is PENDING, and nobody NOTIFIED without a notify-signer job.
THEOREM SoloAnnouncement ==
  ASSUME OneWorker, ~MayFail
  PROVE  Spec => []TurnIsAnnounced
<1>1. IndInv /\ SoloInv => TurnIsAnnounced
  <2> SUFFICES ASSUME IndInv, SoloInv, Quiescent, EnvelopeActionable
               PROVE  /\ \A s \in ActionableSigners(signerStatus, order, mode) :
                           signerStatus[s] # "PENDING"
                      /\ \A s \in Signers :
                           signerStatus[s] = "NOTIFIED" => s \in enqueued
    BY DEF TurnIsAnnounced
  <2>1. status \in {"SENT", "IN_PROGRESS"}
    BY DEF EnvelopeActionable, IsTerminal, TerminalStatuses, IndInv, TypeOK,
       EnvelopeStatus
  <2>2. \A w \in Workers : ~Is(w, "send", "enqueue")
    BY DEF Quiescent, Is, Idle
  <2>3. QED
    BY <2>1, <2>2 DEF SoloInv, SoloRowsOK, TurnIsNotPending, NotifiedIsQueued
<1>2. QED
  BY <1>1, Invariance, SoloInvariance, PTL

\* One request at a time, envelopes.service.ts implements EnvelopeLifecycle:
\* every step leaves the status alone or moves it along ENVELOPE_TRANSITIONS.
THEOREM SoloRefinement ==
  ASSUME OneWorker
  PROVE  Spec => ImplementsLifecycle
<1>1. Init => Lifecycle!Init
  BY DEF Init, Lifecycle!Init
<1>2. IndInv /\ IndInv' /\ SoloInv /\ [Next]_vars => [Lifecycle!Next]_status
  <2> SUFFICES ASSUME IndInv, IndInv', SoloInv, [Next]_vars, status' # status
               PROVE  Lifecycle!Next
    OBVIOUS
  <2>1. CanTransition(status, status')
    BY NextKeepsSoloInv DEF Moves
  <2>2. status' \in Lifecycle!EnvelopeStatus
    BY DEF IndInv, TypeOK, EnvelopeStatus, Lifecycle!EnvelopeStatus
  <2>3. Lifecycle!CanTransition(status, status')
    BY <2>1 DEF CanTransition, EnvelopeTransitions, TerminalStatuses,
       Lifecycle!CanTransition, Lifecycle!EnvelopeTransitions,
       Lifecycle!TerminalStatuses
  <2>4. QED
    BY <2>2, <2>3 DEF Lifecycle!Next, Lifecycle!Move
<1>3. QED
  BY <1>1, <1>2, Invariance, SoloInvariance, PTL
     DEF Spec, ImplementsLifecycle, Lifecycle!Spec
=============================================================================
