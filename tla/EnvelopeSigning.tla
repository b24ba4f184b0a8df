--------------------------- MODULE EnvelopeSigning ---------------------------
(***************************************************************************)
(* One envelope of modules/envelopes/envelopes.service.ts, served by       *)
(* several request handlers at once.                                       *)
(*                                                                         *)
(* A handler is a chain of awaits on PostgreSQL (READ COMMITTED), and any  *)
(* other handler may run in between.  It reads the envelope row            *)
(* (StartRequest), then the signer rows (ReadSigners: Prisma's `include`   *)
(* is a second SELECT), decides on what it read, and writes later what it  *)
(* decided then: no write re-checks the row it overwrites.  An `update`    *)
(* holds its row lock until the transaction ends; only sign's transaction  *)
(* reads between two writes, so only it is open across steps.              *)
(***************************************************************************)
EXTENDS EnvelopeState, FiniteSets

CONSTANTS
  Signers,        \* signers that may be on the roster
  Workers,        \* concurrent request handlers and queue workers
  NoSigner,       \* the target of a request about the envelope as a whole
  Orders,         \* signing orders a signer may be given
  ExpiresAt,      \* deadlines create may be given, as of that moment
  Requests,       \* the kinds of request issued
  MayFail         \* whether a handler may fail or its process may crash

SignerRequests == {"view", "consent", "sign", "decline"}
AllRequests == SignerRequests \cup {"addSigner", "send", "void", "expire"}

ASSUME NoSignerAssumption == NoSigner \notin Signers
ASSUME OrdersAssumption == Orders \subseteq Nat
ASSUME ExpiresAtAssumption == ExpiresAt \subseteq {"none", "future", "passed"}
ASSUME RequestsAssumption == Requests \subseteq AllRequests
ASSUME MayFailAssumption == MayFail \in BOOLEAN

VARIABLES
  mode,          \* envelopes.signingOrder
  order,         \* envelope_signers.order
  deadline,      \* envelopes.expiresAt against the clock
  status,        \* envelopes.status
  signerStatus,  \* envelope_signers.status, ABSENT without a row
  viewedAt,      \* whether envelope_signers.viewedAt is set
  declinedAt,    \* whether envelope_signers.declinedAt is set
  hasSignature,  \* whether a signatures row names the signer
  enqueued,      \* signers for whom a notify-signer job was ever added
  expiryJob,     \* whether a check-expiry job waits in the queue
  req,           \* what each worker is doing and what it remembers
  late           \* history: signers inserted after the envelope left DRAFT

createVars == <<mode, order>>
rowVars == <<signerStatus, viewedAt, declinedAt, late>>
vars == <<mode, order, deadline, status, signerStatus, viewedAt, declinedAt,
          hasSignature, enqueued, expiryJob, req, late>>

Deadlines == {"none", "future", "passed"}
RosterStatus == SignerStatus \cup {ABSENT}
NothingSeen == [s \in Signers |-> ABSENT]

(***************************************************************************)
(* A worker's request: its kind and target, how far it is and, of what it  *)
(* has read, what it still needs: the envelope status, the signer rows,    *)
(* whether its signer's viewedAt was set, the signers send will notify.    *)
(***************************************************************************)
Steps == {"idle", "read", "ready", "signed", "txn", "enqueue", "schedule"}
Request == [op : AllRequests \cup {"none"}, at : Steps,
            s : Signers \cup {NoSigner}, env : EnvelopeStatus,
            seen : [Signers -> RosterStatus], viewed : BOOLEAN,
            next : SUBSET Signers]

Idle == [op |-> "none", at |-> "idle", s |-> NoSigner, env |-> "DRAFT",
         seen |-> NothingSeen, viewed |-> FALSE, next |-> {}]

TypeOK ==
  /\ mode \in SigningModes
  /\ order \in [Signers -> Orders]
  /\ deadline \in Deadlines
  /\ status \in EnvelopeStatus
  /\ signerStatus \in [Signers -> RosterStatus]
  /\ viewedAt \in [Signers -> BOOLEAN]
  /\ declinedAt \in [Signers -> BOOLEAN]
  /\ hasSignature \in [Signers -> BOOLEAN]
  /\ enqueued \in SUBSET Signers
  /\ expiryJob \in BOOLEAN
  /\ req \in [Workers -> Request]
  /\ late \in SUBSET Signers

\* The envelope just created, with the signers added so far.  The request
\* body is free to choose a deadline that has already passed.
Init ==
  /\ mode \in SigningModes
  /\ order \in [Signers -> Orders]
  /\ deadline \in ExpiresAt
  /\ status = "DRAFT"
  /\ signerStatus \in [Signers -> {"PENDING", ABSENT}]
  /\ viewedAt = [s \in Signers |-> FALSE]
  /\ declinedAt = [s \in Signers |-> FALSE]
  /\ hasSignature = [s \in Signers |-> FALSE]
  /\ enqueued = {}
  /\ expiryJob = FALSE
  /\ req = [w \in Workers |-> Idle]
  /\ late = {}

-----------------------------------------------------------------------------
(* Row locks of open sign transactions.                                    *)

Locked(w, s) == \E v \in Workers \ {w} : req[v].at = "txn" /\ req[v].s = s

\* sign's status after its transaction: computed from the envelope status
\* the request loaded before signing, not from the row it overwrites.
NewStatus(r) ==
  IF AllSignersSigned(r.seen) THEN "COMPLETED"
  ELSE IF r.env = "SENT" THEN "IN_PROGRESS" ELSE r.env

\* Planted bug: the next bucket is not notified.
MutNextToNotify(r) == {}

\* The signers sign's transaction marks NOTIFIED and enqueues jobs for.
NextToNotify(r) ==
  {t \in ActionableSigners(r.seen, order, mode) :
     r.seen[t] = "PENDING" /\ NewStatus(r) = "IN_PROGRESS"}

\* The rows the rest of a worker's open transaction has to lock.
Wanted(w) == IF req[w].at = "txn" THEN NextToNotify(req[w]) ELSE {}

\* An open transaction that waits for a row another one holds.
Waiting(w) == \E s \in Wanted(w) : Locked(w, s)

Is(w, op, at) == req[w].op = op /\ req[w].at = at

\* The signers whose notify-signer jobs a worker is adding.
Enqueuing(w) ==
  IF Is(w, "send", "enqueue") THEN req[w].next
  ELSE {s \in Wanted(w) : ~Waiting(w)}

Finish(w) == req' = [req EXCEPT ![w] = Idle]

-----------------------------------------------------------------------------
(* The first read of each request, with the checks it makes on the         *)
(* envelope row.  A check that fails ends the request: no step.            *)

\* Planted bug: what has ended can still be acted on.
MutEnvelopeActionable == status # "DRAFT"

EnvelopeActionable == ~IsTerminal(status) /\ status # "DRAFT"

\* getDraft for addSigner; assertTransition for send and void;
\* assertEnvelopeActionable for what a signer does.
Admits(op) ==
  \/ op = "addSigner" /\ status = "DRAFT"
  \/ op = "send" /\ CanTransition(status, "SENT")
  \/ op = "void" /\ CanTransition(status, "VOIDED")
  \/ op \in SignerRequests /\ EnvelopeActionable

TargetsOf(op) == IF op \in {"send", "void"} THEN {NoSigner} ELSE Signers

\* send, markViewed, consent, sign and decline go on to read the signers.
StartRequest(w, op, s) ==
  /\ req[w] = Idle
  /\ op \in Requests
  /\ s \in TargetsOf(op)
  /\ Admits(op)
  /\ req' = [req EXCEPT ![w] =
               [Idle EXCEPT !.op = op, !.s = s, !.env = status,
                            !.at = IF op \in {"addSigner", "void"}
                                   THEN "ready" ELSE "read"]]
  /\ UNCHANGED <<createVars, deadline, status, rowVars, hasSignature, enqueued,
                 expiryJob>>

\* The queue worker takes the check-expiry job; expireIfDue returns at once
\* when the envelope is already terminal.
StartExpiry(w) ==
  /\ req[w] = Idle
  /\ "expire" \in Requests
  /\ expiryJob /\ deadline = "passed"
  /\ expiryJob' = FALSE
  /\ \/ /\ IsTerminal(status)
        /\ UNCHANGED req
     \/ /\ CanTransition(status, "EXPIRED")
        /\ req' = [req EXCEPT ![w] = [Idle EXCEPT !.op = "expire",
                                                  !.at = "ready",
                                                  !.env = status]]
  /\ UNCHANGED <<createVars, deadline, status, rowVars, hasSignature, enqueued>>

\* The second read, and the checks made on the signer rows.
ReadSigners(w) ==
  LET r == req[w]
      ready == [r EXCEPT !.at = "ready"]
  IN /\ r.at = "read"
     /\ \/ /\ r.op = "send"
           /\ Roster(signerStatus) # {}
           /\ req' = [req EXCEPT ![w] =
                [ready EXCEPT !.next = ActionableSigners(signerStatus, order, mode)]]
        \/ /\ r.op = "view"
           /\ r.s \in Roster(signerStatus)
           /\ req' = [req EXCEPT ![w] =
                [ready EXCEPT !.viewed = viewedAt[r.s],
                              !.seen[r.s] = signerStatus[r.s]]]
        \/ /\ r.op \in {"consent", "decline"}
           /\ r.s \in Roster(signerStatus)
           /\ req' = [req EXCEPT ![w] = ready]
        \/ /\ r.op = "sign"
           /\ signerStatus[r.s] # "SIGNED"
           /\ IsSignerActionable(signerStatus, order, mode, r.s)
           /\ req' = [req EXCEPT ![w] = ready]
     /\ UNCHANGED <<createVars, deadline, status, rowVars, hasSignature, enqueued,
                    expiryJob>>

\* send without signers, an unknown signer, one who has signed or whose turn
\* it is not: the request is refused.
RefuseRequest(w) ==
  LET r == req[w]
  IN /\ r.at = "read"
     /\ \/ r.op = "send" /\ Roster(signerStatus) = {}
        \/ r.op \in SignerRequests /\ r.s \notin Roster(signerStatus)
        \/ r.op = "sign" /\ ~IsSignerActionable(signerStatus, order, mode, r.s)
     /\ Finish(w)
     /\ UNCHANGED <<createVars, deadline, status, rowVars, hasSignature, enqueued,
                    expiryJob>>

-----------------------------------------------------------------------------
(* The writes.  Each is atomic: its locks are taken and released in it.    *)

\* addSigner: the unique index on (envelopeId, email) refuses a second row.
InsertSigner(w) ==
  LET s == req[w].s
  IN /\ Is(w, "addSigner", "ready")
     /\ IF signerStatus[s] = ABSENT
        THEN /\ signerStatus' = [signerStatus EXCEPT ![s] = "PENDING"]
             /\ late' = IF status = "DRAFT" THEN late ELSE late \cup {s}
        ELSE UNCHANGED <<signerStatus, late>>
     /\ Finish(w)
     /\ UNCHANGED <<createVars, deadline, status, viewedAt, declinedAt,
                    hasSignature, enqueued, expiryJob>>

\* send's transaction: SENT and NOTIFIED are written whatever the rows hold.
CommitSend(w) ==
  LET toNotify == req[w].next
  IN /\ Is(w, "send", "ready")
     /\ \A s \in toNotify : ~Locked(w, s)
     /\ status' = "SENT"
     /\ signerStatus' = [s \in Signers |-> IF s \in toNotify THEN "NOTIFIED"
                                           ELSE signerStatus[s]]
     /\ req' = [req EXCEPT ![w].at = "enqueue"]
     /\ UNCHANGED <<createVars, deadline, viewedAt, declinedAt, late, hasSignature,
                    enqueued, expiryJob>>

\* After the commit: one notify-signer job per signer ...
EnqueueNotifications(w) ==
  /\ Is(w, "send", "enqueue")
  /\ enqueued' = enqueued \cup req[w].next
  /\ req' = [req EXCEPT ![w].at = "schedule"]
  /\ UNCHANGED <<createVars, deadline, status, rowVars, hasSignature, expiryJob>>

\* Planted bug: no job for a deadline that has already passed.
MutScheduleExpiry(w) ==
  /\ Is(w, "send", "schedule")
  /\ expiryJob' = (expiryJob \/ deadline = "future")
  /\ Finish(w)
  /\ UNCHANGED <<createVars, deadline, status, rowVars, hasSignature, enqueued>>

\* ... then, if a deadline is set, the delayed check-expiry job.
ScheduleExpiry(w) ==
  /\ Is(w, "send", "schedule")
  /\ expiryJob' = (expiryJob \/ deadline # "none")
  /\ Finish(w)
  /\ UNCHANGED <<createVars, deadline, status, rowVars, hasSignature, enqueued>>

\* markViewed: the first view writes viewedAt and the status it loaded,
\* advanced to VIEWED; maybeAdvanceToInProgress goes by the loaded status.
CommitView(w) ==
  LET r == req[w]
  IN /\ Is(w, "view", "ready")
     /\ IF r.viewed
        THEN UNCHANGED <<signerStatus, viewedAt>>
        ELSE /\ ~Locked(w, r.s)
             /\ viewedAt' = [viewedAt EXCEPT ![r.s] = TRUE]
             /\ signerStatus' = [signerStatus EXCEPT ![r.s] =
                  IF r.seen[r.s] \in {"PENDING", "NOTIFIED"} THEN "VIEWED"
                  ELSE r.seen[r.s]]
     /\ status' = IF r.env = "SENT" THEN "IN_PROGRESS" ELSE status
     /\ Finish(w)
     /\ UNCHANGED <<createVars, deadline, declinedAt, late, hasSignature, enqueued,
                    expiryJob>>

\* consent sets CONSENTED on whatever status the signer has.
CommitConsent(w) ==
  LET s == req[w].s
  IN /\ Is(w, "consent", "ready")
     /\ ~Locked(w, s)
     /\ signerStatus' = [signerStatus EXCEPT ![s] = "CONSENTED"]
     /\ Finish(w)
     /\ UNCHANGED <<createVars, deadline, status, viewedAt, declinedAt, late,
                    hasSignature, enqueued, expiryJob>>

\* Planted bug: the signature is not persisted.
MutApplySignature(w) ==
  /\ Is(w, "sign", "ready")
  /\ req' = [req EXCEPT ![w].at = "signed"]
  /\ UNCHANGED <<createVars, deadline, status, rowVars, hasSignature, enqueued,
                 expiryJob>>

\* sign calls signForSigner, which commits a signatures row of its own.
ApplySignature(w) ==
  LET s == req[w].s
  IN /\ Is(w, "sign", "ready")
     /\ hasSignature' = [hasSignature EXCEPT ![s] = TRUE]
     /\ req' = [req EXCEPT ![w].at = "signed"]
     /\ UNCHANGED <<createVars, deadline, status, rowVars, enqueued, expiryJob>>

\* Planted bug: the roster is read before the signer's own update.
MutBeginSign(w) ==
  /\ Is(w, "sign", "signed")
  /\ ~Locked(w, req[w].s)
  /\ req' = [req EXCEPT ![w].at = "txn", ![w].seen = signerStatus]
  /\ UNCHANGED <<createVars, deadline, status, rowVars, hasSignature, enqueued,
                 expiryJob>>

\* sign's transaction opens: the signer row is updated, unseen by others
\* until the commit, and findMany rereads the roster, own update included.
BeginSign(w) ==
  LET s == req[w].s
  IN /\ Is(w, "sign", "signed")
     /\ ~Locked(w, s)
     /\ req' = [req EXCEPT ![w].at = "txn",
                           ![w].seen = [signerStatus EXCEPT ![s] = "SIGNED"]]
     /\ UNCHANGED <<createVars, deadline, status, rowVars, hasSignature, enqueued,
                    expiryJob>>

\* The rest of sign's transaction: the envelope's status, the next signers'
\* NOTIFIED and their jobs, the commit.
CommitSign(w) ==
  LET r == req[w]
      next == NextToNotify(r)
  IN /\ Is(w, "sign", "txn")
     /\ ~Waiting(w)
     /\ status' = NewStatus(r)
     /\ signerStatus' = [t \in Signers |-> IF t = r.s THEN "SIGNED"
                                           ELSE IF t \in next THEN "NOTIFIED"
                                           ELSE signerStatus[t]]
     /\ enqueued' = enqueued \cup next
     /\ Finish(w)
     /\ UNCHANGED <<createVars, deadline, viewedAt, declinedAt, late, hasSignature,
                    expiryJob>>

\* Planted bug: a decline leaves the envelope open.
MutCommitDecline(w) ==
  LET s == req[w].s
  IN /\ Is(w, "decline", "ready")
     /\ ~Locked(w, s)
     /\ signerStatus' = [signerStatus EXCEPT ![s] = "DECLINED"]
     /\ declinedAt' = [declinedAt EXCEPT ![s] = TRUE]
     /\ Finish(w)
     /\ UNCHANGED <<createVars, deadline, status, viewedAt, late, hasSignature,
                    enqueued, expiryJob>>

CommitDecline(w) ==
  LET r == req[w]
  IN /\ Is(w, "decline", "ready")
     /\ ~Locked(w, r.s)
     /\ CanTransition(r.env, "DECLINED")
     /\ signerStatus' = [signerStatus EXCEPT ![r.s] = "DECLINED"]
     /\ declinedAt' = [declinedAt EXCEPT ![r.s] = TRUE]
     /\ status' = "DECLINED"
     /\ Finish(w)
     /\ UNCHANGED <<createVars, deadline, viewedAt, late, hasSignature, enqueued,
                    expiryJob>>

\* void and expireIfDue: one update each, by a check made on the first read.
CommitVoid(w) ==
  /\ Is(w, "void", "ready")
  /\ status' = "VOIDED"
  /\ Finish(w)
  /\ UNCHANGED <<createVars, deadline, rowVars, hasSignature, enqueued, expiryJob>>

CommitExpiry(w) ==
  /\ Is(w, "expire", "ready")
  /\ status' = "EXPIRED"
  /\ Finish(w)
  /\ UNCHANGED <<createVars, deadline, rowVars, hasSignature, enqueued, expiryJob>>

-----------------------------------------------------------------------------
(* Failures and time.                                                      *)

\* Prisma ends an interactive transaction that waits too long, and
\* PostgreSQL one that is in a deadlock: sign fails, its signature stays.
\* (A deadlock with a transaction that is one step here is a Fail.)
TransactionTimeout(w) ==
  /\ Waiting(w)
  /\ Finish(w)
  /\ UNCHANGED <<createVars, deadline, status, rowVars, hasSignature, enqueued,
                 expiryJob>>

\* A database or queue call fails, or the process dies: the open transaction
\* rolls back, but jobs it already added stay.  BullMQ gives a stalled
\* check-expiry job back to the queue; one that failed is dropped.
Fail(w) ==
  /\ MayFail
  /\ req[w] # Idle
  /\ enqueued' \in
       {enqueued \cup added : added \in SUBSET Enqueuing(w)}
  /\ expiryJob' \in {expiryJob, expiryJob \/ req[w].op = "expire"}
  /\ Finish(w)
  /\ UNCHANGED <<createVars, deadline, status, rowVars, hasSignature>>

DeadlinePasses ==
  /\ deadline = "future"
  /\ deadline' = "passed"
  /\ UNCHANGED <<createVars, status, rowVars, hasSignature, enqueued, expiryJob,
                 req>>

-----------------------------------------------------------------------------

\* What a handler does once its request is admitted.
Continue(w) ==
  \/ ReadSigners(w)
  \/ RefuseRequest(w)
  \/ InsertSigner(w)
  \/ CommitSend(w)
  \/ EnqueueNotifications(w)
  \/ ScheduleExpiry(w)
  \/ CommitView(w)
  \/ CommitConsent(w)
  \/ ApplySignature(w)
  \/ BeginSign(w)
  \/ CommitSign(w)
  \/ CommitDecline(w)
  \/ CommitVoid(w)
  \/ CommitExpiry(w)

Next ==
  \/ \E w \in Workers :
       \/ \E op \in Requests, s \in Signers \cup {NoSigner} : StartRequest(w, op, s)
       \/ StartExpiry(w)
       \/ Continue(w)
       \/ TransactionTimeout(w)
       \/ Fail(w)
  \/ DeadlinePasses

Spec == Init /\ [][Next]_vars

(***************************************************************************)
(* Fairness: an async handler that can go on does, and a transaction that  *)
(* waits too long is ended.  A queue worker that is free again and again   *)
(* takes the job that waits (strong, since requests use the worker too).   *)
(* No request is ever bound to arrive.                                     *)
(***************************************************************************)
Fairness ==
  \A w \in Workers :
    /\ WF_vars(Continue(w))
    /\ WF_vars(TransactionTimeout(w))
    /\ SF_vars(StartExpiry(w))

FairSpec == Spec /\ Fairness

-----------------------------------------------------------------------------
(***************************************************************************)
(* What holds however requests interleave and fail.                        *)
(***************************************************************************)

\* What the roster's history proves of a signer who counts as complete: a
\* signatures row, or a recorded decline.
Settled(s) == hasSignature[s] \/ declinedAt[s]

\* On the roster since before the envelope was sent.
OnTime(s) == signerStatus[s] # ABSENT /\ s \notin late

InTurn(s) ==
  mode = "SEQUENTIAL" =>
    \A t \in Signers : OnTime(t) /\ order[t] < order[s] => Settled(t)

\* A signer is shown as SIGNED only with a signatures row behind it, however
\* stale the status that markViewed, send or sign writes back.
SignedHasSignature ==
  \A s \in Signers : signerStatus[s] = "SIGNED" => hasSignature[s]

\* The signing order of sign: no one has a signature while a signer of a
\* lower order, on the roster when the envelope was sent, has neither signed
\* nor declined, even if that signer's row was overwritten meanwhile.
SigningOrderKept == \A s \in Signers : hasSignature[s] => InTurn(s)

\* An envelope reads COMPLETED only if everyone it was sent to has signed:
\* concurrent transactions cannot complete it past a missing signature.
CompletedHasSignatures ==
  status = "COMPLETED" => \A s \in Signers : OnTime(s) => hasSignature[s]

(***************************************************************************)
(* The inductive invariant behind the three.  What a worker remembers may  *)
(* be stale, but only in one direction: rows stay, signatures and recorded *)
(* declines stay, DRAFT does not come back.                                *)
(***************************************************************************)

MemoryOK(r) ==
  /\ r.op \in SignerRequests \cup {"addSigner"} => r.s \in Signers
  /\ r.op \in SignerRequests =>
       /\ status # "DRAFT"
       /\ r.env \in {"SENT", "IN_PROGRESS"}
       /\ r.at # "read" => signerStatus[r.s] # ABSENT
  /\ r.op = "view" /\ r.at # "read" => r.seen[r.s] # ABSENT
  /\ \A t \in Signers :
       /\ r.seen[t] # ABSENT \/ t \in r.next => signerStatus[t] # ABSENT
       /\ r.seen[t] = "SIGNED" => hasSignature[t]
       /\ r.seen[t] = "DECLINED" => declinedAt[t]

\* A sign request past its checks: it was, and stays, the signer's turn; its
\* signature precedes its transaction; its reread missed no one on time.
SignOK(r) ==
  r.op = "sign" /\ r.at # "read" =>
    /\ InTurn(r.s)
    /\ r.at # "ready" => hasSignature[r.s]
    /\ r.at = "txn" => \A t \in Signers : OnTime(t) => r.seen[t] # ABSENT

DraftIsUntouched ==
  status = "DRAFT" => \A s \in Signers : ~hasSignature[s]

DeclinedIsRecorded ==
  \A s \in Signers : signerStatus[s] = "DECLINED" => declinedAt[s]

\* All of it together, as TLC checks it and the proofs use it.
IndInv ==
  /\ TypeOK
  /\ DraftIsUntouched
  /\ DeclinedIsRecorded
  /\ \A w \in Workers : MemoryOK(req[w]) /\ SignOK(req[w])
  /\ SignedHasSignature
  /\ SigningOrderKept
  /\ CompletedHasSignatures

-----------------------------------------------------------------------------
(***************************************************************************)
(* What holds if requests on the envelope are served one at a time, and    *)
(* may not when they overlap.                                              *)
(***************************************************************************)

Quiescent == \A w \in Workers : req[w] = Idle

\* The envelope's status moves only along ENVELOPE_TRANSITIONS, hence never
\* out of a terminal status.
Lifecycle == INSTANCE EnvelopeLifecycle WITH status <- status
ImplementsLifecycle == Lifecycle!Spec

\* sign "advances the envelope to COMPLETED when all have signed": once no
\* request runs, a roster whose every signer is SIGNED has settled it.
AllSignedIsTerminal ==
  Quiescent /\ AllSignersSigned(signerStatus) => IsTerminal(status)

\* COMPLETED is never shown next to a signer who is not SIGNED.
CompletedIsAllSigned == status = "COMPLETED" => AllSignersSigned(signerStatus)

\* A single decline terminates the whole envelope, and for good.
DeclineTerminates ==
  (\E s \in Signers : declinedAt[s]) => status = "DECLINED"

\* sign notifies the next bucket: when no request runs, nobody whose turn it
\* is in a live envelope is left PENDING, and whoever shows as NOTIFIED has
\* had a notify-signer job.
TurnIsAnnounced ==
  Quiescent /\ EnvelopeActionable =>
    /\ \A s \in ActionableSigners(signerStatus, order, mode) :
         signerStatus[s] # "PENDING"
    /\ \A s \in Signers : signerStatus[s] = "NOTIFIED" => s \in enqueued

(***************************************************************************)
(* The inductive invariant behind them when there is one worker: what it   *)
(* remembers are the rows themselves, and a live envelope has a signer who *)
(* has yet to sign, nobody who declined, and no turn left unannounced.     *)
(***************************************************************************)

OneWorker == \A v, w \in Workers : v = w

FreshOK(r) ==
  /\ r.op \in SignerRequests => r.env = status
  /\ r.op = "addSigner" => status = "DRAFT"
  /\ r.op = "send" /\ r.at \in {"read", "ready"} => status = "DRAFT"
  /\ r.op = "send" /\ r.at = "ready" =>
       /\ Roster(signerStatus) # {}
       /\ r.next = ActionableSigners(signerStatus, order, mode)
  /\ r.op = "void" => CanTransition(status, "VOIDED")
  /\ r.op = "expire" => CanTransition(status, "EXPIRED")
  /\ r.op = "view" /\ r.at = "ready" => r.seen[r.s] = signerStatus[r.s]
  /\ r.op = "sign" /\ r.at = "txn" =>
       r.seen = [signerStatus EXCEPT ![r.s] = "SIGNED"]

DraftIsPending ==
  status = "DRAFT" => \A s \in Signers : signerStatus[s] \in {"PENDING", ABSENT}

LiveIsUnfinished ==
  status \in {"SENT", "IN_PROGRESS"} => ~AllSignersSigned(signerStatus)

TurnIsNotPending ==
  status \in {"SENT", "IN_PROGRESS"} =>
    \A s \in ActionableSigners(signerStatus, order, mode) :
      signerStatus[s] # "PENDING"

NotifiedIsQueued ==
  ~MayFail =>
    \A s \in Signers : signerStatus[s] = "NOTIFIED" =>
      s \in enqueued \/ \E w \in Workers : Is(w, "send", "enqueue") /\ s \in req[w].next

SoloRowsOK ==
  /\ DraftIsPending
  /\ LiveIsUnfinished
  /\ TurnIsNotPending
  /\ CompletedIsAllSigned
  /\ DeclineTerminates

SoloInv == SoloRowsOK /\ NotifiedIsQueued /\ \A w \in Workers : FreshOK(req[w])

\* A sent envelope whose deadline passes ends, by its check-expiry job if by
\* nothing else.
OverdueEnds ==
  status \in {"SENT", "IN_PROGRESS"} /\ deadline = "passed" ~> IsTerminal(status)
=============================================================================
