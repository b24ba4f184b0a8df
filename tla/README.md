# CERTIDZ: a verification project

TLA+ modules, TLC runs and TLAPS proofs for the CertiDZ API
(`src/apps/api/src/modules`), a NestJS service over PostgreSQL (Prisma, READ
COMMITTED) and Redis (BullMQ).  Handlers are async functions: every `await` on
the database is a point where any other handler may run, and almost every
write is an update by id of something that was decided on an earlier read.  That
is what the modules are about.  Paths below are relative to
`src/apps/api/src/modules` unless they start with `src/`.

- [1. The system](#1-the-system)
- [2. What is modelled, module by module](#2-what-is-modelled-module-by-module)
- [3. The runs](#3-the-runs)
- [4. Where the code and its words differ](#4-where-the-code-and-its-words-differ)
- [5. What is proved](#5-what-is-proved)
- [6. What is left](#6-what-is-left)
- [7. Running it](#7-running-it)

## 1. The system

### Components

| Component | State it keeps | Operations | Module |
|---|---|---|---|
| Envelope state machine (`envelopes/envelope-state.ts`) | none; a table of transitions and predicates on a roster | `canTransition`, `isTerminal`, `actionableSigners`, `isSignerActionable`, `allSignersSigned` | `EnvelopeState`, `EnvelopeLifecycle` |
| Envelope service (`envelopes/envelopes.service.ts`, `.processor.ts`) | `Envelope`, `EnvelopeSigner`, `SignatureField`; jobs `notify-signer`, `check-expiry` | create, addSigner, addField, send, markViewed, consent, sign, decline, void, expireIfDue | `EnvelopeSigning` |
| Signatures (`signatures/signatures.service.ts`) | `Signature` | signForSigner, verify | `DocumentSigning`; the row also in `EnvelopeSigning` |
| Audit log (`audit/*`) | `AuditEvent`, one hash chain per tenant | append (through the interceptor and the listener), verifyChain, query | `AuditChain` |
| Sessions and refresh tokens (`auth/auth.service.ts`, `auth/strategies/jwt.strategy.ts`, `users/users.service.ts`) | `Session`, `RefreshToken`, the password hash | register, login, refresh, logout, revokeSession, changePassword | `SessionTokens` |
| Workflow engine (`workflows/*`) | `WorkflowRun`, `WorkflowRunStep`; `advance` jobs | template CRUD, startRun, advance, resumeStep; the condition evaluator | `WorkflowEngine` |
| Organizations and memberships (`organizations/*`) | `Organization`, `Membership` | create, update, softDelete, inviteMember, acceptInvite, changeMemberRole, removeMember; the guards | `Memberships` |
| Documents (`documents/documents.service.ts`) | `Document`, `DocumentVersion`, objects in S3 | requestUploadUrl, confirmUpload, createVersion, updateTags, softDelete | `DocumentSigning` |
| Certificates (`certificates/certificates.service.ts`) | `Certificate`, `RevocationEntry` | issue, revoke, getStatus | `DocumentSigning` |
| The CA (`certificates/ca.service.ts`) | the CA's four objects in S3, each instance's copy | the bootstrap, issueEndEntity, verifyChain | `CertificateAuthority` |
| Webhooks (`webhooks/*`) | `Webhook`, `WebhookDelivery`; delivery jobs | dispatch, attemptDelivery, update, remove | `WebhookDelivery`, `DeliveryLifecycle` |
| Billing (`billing/*`) | `Subscription`, `UsageRecord`, the organization's plan | changePlan, assertWithinLimit, record | `UsageMetering` |
| Identity verification (`identity/*`) | `IdentityVerification`, `IdentityDocument` | createSession, addDocument, runVerification | `IdentityVerification` |
| Multi-factor authentication (`auth/mfa.service.ts`) | `MfaFactor` | enrol, verify, validate a TOTP code | not modelled |
| Notifications (`notifications/*`) | `Notification`; dispatch jobs | notify, dispatch, mark read | not modelled |
| Storage, AI gateway, health, configuration | none of their own | thin wrappers of clients, probes, wiring | not modelled: pure I/O |
| Web front end, UI package | mock data | presentation | not modelled |

### How they interact

- An HTTP request passes the JWT guard (`jwt.strategy.ts`: is the session
  live?), then `TenantGuard` (which membership?) and `PermissionsGuard` (which
  role?), and reaches one service method.  The service reads rows, checks,
  writes rows, adds jobs to a BullMQ queue and emits an `audit.record` event.
- `sign` calls `signForSigner`, which commits a signature of its own, and then
  opens a transaction on the envelope; the next signers are told by jobs.
- Audit records are appended by an event listener that the request does not
  wait for and whose failures are logged and forgotten.
- Queue workers run `check-expiry`, `notify-signer`, `advance`, deliveries and
  notifications; BullMQ hands the job of a worker that died to another one.  A
  job that throws is tried again only if it was added with `attempts`, which
  webhook deliveries are, and the `notify-signer` jobs of `send`
  (envelopes.service.ts:204; those of `sign` are not).
- PostgreSQL's unique indexes (`AuditEvent(chainKey, seq)`,
  `Membership(orgId, userId)`, `WorkflowRunStep(runId, stepId)`,
  `MfaFactor(userId, type, label)`) and row
  locks are the only things that two requests can collide on.

### What is hard

No handler locks what it reads.  Hence lost updates (a status decided on a stale
read overwrites a newer one), write skew (two transactions each miss the
other's uncommitted write), checks that are outdated when they are acted on
(single-use tokens, last owners, plan limits), crashes between two writes that
belong together (a sent envelope nobody was told of, a run without a job),
retries of what has been done (audit inserts whose reply was lost, refreshes
whose reply was lost), and transactions that wait for each other's rows.
`PROJECT.json` lists these hazards one by one at their lines, with the
properties that are about each.

### What makes each component correct

- *Envelope*: the status only follows the table; a terminal status is final;
  nobody signs out of turn; COMPLETED means everyone has signed, and everyone
  having signed means COMPLETED; a decline ends it; whoever's turn it is was
  told; an overdue envelope ends.
- *Audit log*: each chain is a chain; verification rejects exactly the altered
  ones; no event twice; none lost without the trail being told; times in order.
- *Sessions*: refresh tokens are single-use; a replay, a revocation and a change
  of the password end what they should.
- *Workflow engine*: steps in order, none passed over, none run twice; a branch
  follows the outputs; a started run reaches its end or a step that waits.
- *Memberships*: an owner remains; only owners make owners; a member is who
  accepted.
- *Documents and signatures*: version numbers have no gap and name one object; what
  is signed was a version of the document; a report accuses nobody of a change that
  did not happen, and clears no certificate that was revoked before.
- *The CA*: one CA for all instances, across restarts.
- *Webhooks*: a delivery is tried until it succeeds or its attempts are used up, never
  without bound, and its row says what happened on the wire.
- *Billing*: recorded usage keeps within the plan, or exceeds it by a known amount.
- *Identity*: an approved session has passed its checks; processing ends in a verdict.

## 2. What is modelled, module by module

All modules share one way of seeing a handler.  `req[w]` (`task[e]` in the audit
log) is what worker `w` is doing and what it remembers of its reads; one action is
the code between two awaits, with the guard that the code has there; and no
action knows more of the rows than its worker has read.  `Fail` is external: a
call fails, a reply is lost or the process dies, at any point.  Variables
marked *history* are not in the code; they record what properties ask about.
Operators named `Mut...` are planted bugs: each is the definition below it with
a plausible mistake, and the property paired with it in `PROJECT.json` is
violated when it takes that definition's place.

### `EnvelopeState`, `EnvelopeLifecycle`

`EnvelopeState` is `envelope-state.ts`: the transition table, and the predicates
on a roster, which is a function from signers to statuses (`ABSENT` without a row).
`actionableSigners` in the mode PARALLEL is everyone incomplete; in SEQUENTIAL
those of the lowest incomplete order.  `EnvelopeLifecycle` is the abstract
specification: one variable, `status`, that starts at DRAFT and moves along the
table.

### `EnvelopeSigning`

One envelope, its signers, its two kinds of jobs and `Workers` handlers.

| Action | Code (`envelopes.service.ts`) |
|---|---|
| `Init` | `create` 57-85, and signers added one after the other; the deadline may lie in the past, which nothing checks |
| `StartRequest`, `ReadSigners`, `RefuseRequest` | the envelope's SELECT with the checks of `getDraft`, `loadSigner`, `assertEnvelopeActionable`; the `include`'s second SELECT with the turn check; the refusals |
| `InsertSigner` | `addSigner` 104-126 |
| `CommitSend`, `EnqueueNotifications`, `ScheduleExpiry` | `send` 180-217: the transaction, then the jobs, then the delayed job |
| `CommitView`, `CommitConsent` | `markViewed` 237-256, `consent` 258-265 |
| `ApplySignature`, `BeginSign`, `CommitSign` | `sign` 301-358: `signForSigner` commits; the transaction marks the signer and rereads the roster; it writes the status and commits, and the next signers' jobs are added |
| `CommitDecline`, `CommitVoid`, `StartExpiry`, `CommitExpiry` | `decline`, `void`, `expireIfDue` |
| `TransactionTimeout`, `Fail`, `DeadlinePasses` | the database, the process, the clock |

Only `sign`'s transaction reads between two writes, so only it is open across
steps and holds a row lock (`Locked`); the others are single steps.  A deadlock
with a one-step transaction is a `Fail`.  Left out: `addField` (signing reads no
field), timestamps nothing reads (`sentAt`, `completedAt`, `consentedAt`, ...),
audit records, `getStatus`, reminders.  `hasSignature[s]` says that at least one
signature row names `s`.

### `AuditChain`

`rows` is the table, `task[e]` the append of event `e`.  `Emit`, `ReadHead`, `Create`,
`LoseRace`, `LoseReply` and `Fail` are `append` 33-95 attempt by attempt; `VerifyChain`,
`Sorted` (its query) and `VerifyEvents` (the walk) are `verifyChain` and `verifyEvents` 98-157.  `Alter` changes a row behind the service's
back: it edits the payload, rehashes or not, or deletes a row that is not the last
(a chain without its tail verifies, and must: nothing outside the table says how long
it is).  The digest is ideal: the hash of a row is the sequence of event cores it
digests, so equal hashes mean equal input.  The API runs as two replicas, each with a clock
of its own: `now` is the slowest clock, and `createdAt` is any time from `now` to `now + MaxSkew`
(`Clocks`), anew at each attempt.  `Chronological` bounds by that skew how far the times of a
chain go back; with one clock it says that they do not.

### `SessionTokens`

One user.  `StartLogin`, `CreateSession`, `IssueToken` and `Reply` are `login` after its
checks (95-168, 281-317); `StartRefresh`, `ReadSession`, `LockToken`, `CommitRotation`
are `refresh` 174-248, whose replay branch continues as a revocation; `StartRevoke`,
`LockSession`, `CommitRevocation` are `logout` and both `revokeSession`s; `StartChange`,
`LockOthers`, `CommitChange` are `changePassword` 137-195.  Refresh locks token then
session, revocation sessions then tokens, so two of them can wait for each other
(`Waiting`), and one is ended (`Abort`).  Nothing keeps two refreshes of one token, or a login
and a change of the password, apart, in the code or here; history says what such an overlap
leaves behind.  `fork` of a refresh: another one of its token was under way when it began, or the
token is `forked` itself; what it mints is `forked` then.  `spent`: its token had been rotated,
or its session had ended.  `late`: sessions of logins that verified a password that was changed
before the session was created, or was being changed; the next change finds them.  Left out: the second
factor, registration (the initial state), the profile.

### `WorkflowEngine`

One run of any workflow of `N` steps.  `context` is the set of steps whose output the
run's context holds, and a condition asks for the output of an earlier step, present
or absent: conditions matter to the engine only as something that depends on outputs.

| Action | Code |
|---|---|
| `Init` | a template `create` and `validateSteps` accept (`workflows.service.ts` 36-72): distinct positions, any types and conditions |
| `StartRun`, `Enqueue` | `startRun`; `queue.add` after it and after `resumeStep` |
| `TakeJob`, `LoadRun`, `LoadSteps`, `Begin` | the processor; `load`'s two SELECTs; the early returns and RUNNING (`workflow-engine.service.ts` 72-89) |
| `PassStep`, `SkipStep`, `ParkStep`, `Park`, `RunStep`, `SaveContext`, `CompleteRun` | the loop 97-144, one action per write |
| `Resume`, `CompleteStep`, `Reopen` | the engine's `resumeStep` 151-171, which goes on as an `advance` |

The loop works on the snapshot (`seen`, `ctx`) the worker loaded; upserts
overwrite whatever the row holds by then.  Statuses that nothing ever writes
(FAILED, CANCELLED, step PENDING, RUNNING) are left out.  The history `mishaps` records whether
calls have overlapped, a step that did not wait was resumed, or something failed.

### `Memberships`

One organization.  A request is guarded (`Guard`: an ACTIVE membership with
`members:manage`), reads its target and checks its authority (`ReadTarget`,
`RefuseTarget`), counts the other owners if it would take one away (`CountOwners`,
`RefuseLastOwner`: `assertNotLastOwner`), and writes (`ChangeRole`, `Remove`); an
invitation is created (`StartInvite`, `CreateInvite`) and accepted by whoever has its
token (`StartAccept`, `Accept`), unless the unique index refuses (`RefuseSecondRow`).
`outdated` is the set of workers since whose first read somebody has written, and
`staleWrite` says whether one of them has written nevertheless.  Left out: the
organization's own data and deletion, teams, the status SUSPENDED (never written).

### `DocumentSigning`

The documents of an organization, their bytes in the bucket, and the certificates and
signatures made over them.  Clients write bytes directly while their presigned URL is open.

| Action | Code |
|---|---|
| `RequestUploadUrl`, `Put`, `ExpireUrl` | `requestUploadUrl`; the client; `UPLOAD_URL_TTL` |
| `StartConfirm`, `CommitConfirm` | `confirmUpload` (`documents.service.ts` 68-117) |
| `StartVersion`, `HeadVersion`, `CommitVersion`, `RefuseRow` | `createVersion` 134-175: the number from the document's row, the object's HEAD, the transaction that the unique indexes may refuse |
| `StartDelete`, `CommitDelete` | `softDelete` |
| `Issue`, `StartRevoke`, `CommitRevoke` | `certificates.service.ts`: issuing, `revoke` |
| `StartSign`, `ReadBytes`, `Certify`, `Store` | `signForSigner` (`signatures.service.ts` 83-163), one action per call |
| `StartVerify`, `CheckBytes`, `ReadStatus`, `ReadEntry` | `verify` 179-226 and `getStatus`'s two queries; `at = "report"` is the report returned |

A digest is its content.  `sealed` (history) says that the URL of the signed object had
expired when its bytes were read: from then on nothing can change them.  `was` (history) says
that the certificate was revoked before the verification began.

### `CertificateAuthority`

`Instances` of the API bootstrap the development CA from four objects in the bucket:
`Start`, `FindRoot`, `Generate`, one `GetPart` or `PutPart` per object (they run in parallel in the
code), `Reject` when something fails, `IssueLeaf`, and `Stop` for exits and crashes.  A
generation stands for the keys and certificates that one `generateAndPersist` makes.  A
put that was sent lands also when another one has failed.  `initPromise` is kept when it
rejects, so a rejected instance stays without a CA until it restarts.  `Generations` is
a bound: how many CAs may leave traces at once.  `disturbed` (history) says that two generations
overlapped or one was cut short.

### `WebhookDelivery`, `DeliveryLifecycle`

One event on its way to an organization's webhooks.  `Dispatch`, `CreateDelivery`, `Enqueue`,
`EndDispatch` are `dispatch` 41-67, `CutDispatch` its failures; `Take`, `Load`, `Post`, `Record`,
`RecordGone`, `CallFails`, `Settle` are the processor and `attemptDelivery` 74-143; `Update` and
`Remove` are `webhooks.service.ts`; `Backoff`, `Stall`, `Crash` are the queue and the process.  BullMQ
counts failed attempts (`job.made`) and silences of a worker (`job.stalls`);
`attemptDelivery` counts in the row.  A worker that was only slow goes on beside the one
that got its job: the delivery is then *torn* (history).  `mishap` (history) is where a call
to the database failed or the stalls were used up.

`DeliveryLifecycle` is the abstract log: a delivery is created, attempted, decided by a
success or the last attempt, perhaps removed; attempts are counted one by one; a
decided delivery is attempted again at most `MaxStalls` times; and a torn one keeps only
the bound on its count.  `ImplementsLog` is the refinement, by the variables of the same names.

### `UsageMetering`

One metric of one organization.  `Start`, `ReadSubscription`, `ReadOrganization`, `Check`, `Record` are
`recordUsage`: `resolvePlan`'s two queries, `getUsed` with the comparison, and the upsert,
which adds to the row of the month that it is by then.  `ChangePlan` is `changePlan` (only FREE is
applied), `Subscribe` the payment provider, which alone writes subscriptions,
`Rollover` the end of the month.  `cap`, `lifted` and `peak` (history) record the highest limit
requests of this month may hold, whether one may hold none, and how many requests have been
between check and record at once.

### `IdentityVerification`

One session and the documents it may be given.  `CreateVerification` (`createSession`), `StartAdd`, `CommitAdd`,
`ReadDocuments`, `MarkProcessing`, `Judge` (the checks of one document and its update) and `Decide`
are the service's three operations; the provider behaves as the mock does.
Scores are tenths; documents are judged in any order, since the query states none.  A run
asks for no status, so sessions that are decided are run again.  `overlapped` and `cut` (history)
say whether two runs overlapped and whether one ended without a verdict.  `expiresAt` is
written and never read, so it is left out.

## 3. The runs

Deadlock is not checked in any run: an envelope in a terminal state, a log with
every event stored, or a bounded number of sessions really are the end, and what
must not stop short of them is stated as liveness or about quiescent states.

| Run | Instance | Question |
|---|---|---|
| `EnvelopeRaces` | 2 signers, 2 workers, orders 1-2, both modes, failures; symmetric; 3.4M states | What survives any interleaving: `SignedHasSignature`, `SigningOrderKept`, `CompletedHasSignatures` |
| `EnvelopeSingleWriter` | 3 signers, 1 worker, all requests and deadlines, no failures, fair; 1.1M states | What the documented discipline (one writer per envelope) buys: `ImplementsLifecycle`, `AllSignedIsTerminal`, `CompletedIsAllSigned`, `DeclineTerminates`, `TurnIsAnnounced`, `OverdueEnds` |
| `EnvelopeStaleWrite` | 2 signers, 2 workers | Violation: see section 4 |
| `AuditRaces` | 4 events, 2 chains, 3 attempts, clocks 1 apart, a failed append, alterations of a chain; symmetric; 1.3M states | `VerifyIsExact`, `Linked`, `StoredOnce`, `Chronological`, `GivesUpOnlyWhenOvertaken` |
| `SessionRaces` | 2 sessions, 3 tokens, 2 passwords, 2 workers, failures; symmetric; 3.7M states | `SpentForGood`, `OneLineage`, `ReplayRevokes`, `ChangeEndsOthers` |
| `WorkflowRuns` | all templates of 3 steps, 2 workers, 2 resumptions, strays, failures, fair; 695k states | `StepsInOrder`, `EveryStepDecided`, `NeverRerunAlone`, `BranchesFollowOutputs`, `CompletedStays`, `RunSettles` |
| `MembershipRaces` | 3 users, 3 memberships, 3 roles, 2 workers, failures; symmetric; 2.8M states | `OwnerRemains`, `OwnersMakeOwners`, `MembersAccepted` |
| `SigningRaces` | 2 documents, 2 objects, 2 contents, 1 certificate, 2 workers; symmetric; 429k states | `HistoryIsDense`, `SignaturesCoverVersions`, `VerdictIsFair` |
| `CaRestarts` | 2 instances, 3 generations; symmetric; 769k states | `ChainsVerify` |
| `WebhookRetries` | 1 webhook, 2 workers, 3 attempts, 1 stall, fair; 106k states | `ImplementsLog`, `PostsBounded`, `StatusIsBacked`, `EndsDecided`, `DeliverySettles` |
| `UsageLimits` | 3 workers, limits of 2, 3 and none, quantities 1-2; symmetric; 361k states | `AllowanceKept`, `OvershootBounded` |
| `IdentityRaces` | 2 documents, 2 workers, a failing and a good score, fair; 84k states | `ApprovedIsClean`, `RunDecides` |

### Why the bounds are enough

- *Two workers.*  Every race found is between two handlers; the safety properties
  of the envelope, the audit log, the workflow engine and the memberships are
  proved for any number.  Audit appends are one worker per event: four are the
  least for which one can lose three races.  `FewFaults` stops following a behaviour
  after a second failed append or once both chains were altered; one chain may be altered as often as may be.
  Two values of `now` and a skew of 1 make a row that is dated before, with and after the one it links to.
- *Signers and orders.*  Two signers in two orders make a next bucket, in one a
  bucket of two.  The single-writer run has three, so that a bucket of two can
  come before or after another.  Only orders that start at 1 are run
  (`CanonicalOrder`), since orders are only compared; the jobs ever
  enqueued are left out of the racing run's states (`AllButEnqueued`), since no guard
  and no property of that run reads them.
- *Tokens.*  Three tokens are two rotations in one session, two overlapping refreshes of
  its first token, or a rotation next to another session.  The theorems cover the rest.
- *Workflow.*  Three steps make a step before, at and after a waiting one; a
  condition looks at the step right before (`ShortConditions`).  `OneMishap` stops following
  a behaviour after its second *kind* of mishap; the properties that hold under several
  kinds (`StepsInOrder`, `EveryStepDecided`) are the proved ones.
- *Memberships.*  Three rows: two owners who may remove each other and someone else
  who is invited, promoted, removed.  Roles: OWNER, ADMIN (manages members, is no owner)
  and MEMBER (does not); COMPLIANCE_OFFICER, MANAGER and AUDITOR, which do not manage
  members either, differ from MEMBER only in rank.

- *Signing.*  Two documents and two objects make an object that is claimed twice, and
  two versions of one document; one certificate is signed with, revoked, outlived and
  asked about by either worker.  The theorems cover the rest.
- *The CA.*  Two instances overlap; three generations are one that left traces in the bucket
  and one at each instance.
- *Webhooks.*  Deliveries share nothing but `dispatch`, whose loop one webhook passes through
  and leaves; two workers tear a delivery; three attempts have a first, a middle and a
  last, and one stall is BullMQ's default.
- *Usage.*  Three requests show an overshoot of two of them next to a third that is refused;
  `MCBound` stops following months without a limit after a usage no limit allows.
- *Identity.*  Two documents are the least for a run to be cut between them, and two
  scores the least for a failed check to be outweighed in the mean.

### Fairness

A handler that can take its next step does (`WF` of `Continue`): the event loop runs
every continuation whose promise has settled.  A transaction that waits too long is
ended (`WF` of `TransactionTimeout` or `Abort`): Prisma's timeout and PostgreSQL's deadlock
detection.  A waiting job is taken by a worker that is free again and again (`SF` of `StartExpiry`,
`TakeJob`, `Take`), strong because requests of the same instance may occupy it in between.  No client
is ever bound to send anything.  Liveness is checked without failures (`MayFail = FALSE`)
or up to the first mishap (`RunSettles`): the code has no recovery, so after a crash nothing
more is promised; the hazards say where that matters.  Webhook deliveries are the exception, and
`DeliverySettles` is checked with crashes: the queue finds the job of a dead worker (`WF` of `Stall`
without a live owner) and ends its back-off (`WF` of `Backoff`).  `RunDecides` excuses a run
that was cut.

## 4. Where the code and its words differ

The run `EnvelopeStaleWrite` ends in a counterexample to what a document says:
DATABASE.md:494 promises a single writer per envelope by `SELECT ... FOR UPDATE`,
envelope-state.ts:11 that terminal states are final.  No handler takes that lock.  `sign` loads
a SENT envelope, `expireIfDue` makes it EXPIRED, `sign` writes IN_PROGRESS; or `expireIfDue`
overwrites COMPLETED.

Five more configurations are kept for the same purpose.  Each makes TLC print, in seconds, a
behaviour that contradicts a comment; `PROJECT.json` does not list them as runs.

| Configuration, module | Property | What TLC shows |
|---|---|---|
| `EnvelopeWriteSkew`, `MCEnvelopeSigning` | `AllSignedIsTerminal` | two last signers sign at once; under READ COMMITTED neither transaction sees the other's SIGNED, and the fully signed envelope stays IN_PROGRESS for good |
| `AuditDrops`, `MCAuditChain` | `NothingDropped` | the interceptor "guarantees a baseline trail"; of four events recorded at once one may lose three races, and the listener swallows the error |
| `SessionsSingleUse`, `MCSessionTokens` | `SingleUse` | refresh is documented as single-use; two overlapping refreshes of one token both mint a successor, and the first one's is live but unlinked |
| `WorkflowRerun`, `MCWorkflowEngine` | `NeverRerun` | "already-terminal run steps are never re-run"; two overlapping resumptions of one waiting step make two advances on two snapshots |
| `MembershipOrphan`, `MCMemberships` | `HasOwner` | "Never allow removing the last OWNER"; two owners removed at once each count as the other's remaining owner |

The other side of each is checked as well: under the discipline that would prevent it, the
property holds (`EnvelopeSingleWriter`, `GivesUpOnlyWhenOvertaken`, `NeverRerunAlone`,
`OwnerRemains`), or what goes wrong comes from such an overlap and from nothing else (`OneLineage`).

Met while modelling, and visible in the modules:

- ca.service.ts:52 says the CA is "generated once and persisted to object storage, then reused across
  restarts".  `ChainsVerify` has to except `disturbed`: two instances that start on an empty
  bucket each keep a CA of their own, and a generation that was cut leaves a bucket that later loads
  may find mixed.
- usage.service.ts:108 calls `record` "idempotent per period"; it adds its quantity each time it
  is called (`Record`).
- notifications.processor.ts:16 says that BullMQ retries the whole job; `process` catches what a channel
  throws, so the job never fails, and its queue sets no attempts (notifications.module.ts:12).
- A session of a method with a face match is APPROVED without any selfie: SELFIE_MISSING is not
  among the blocking flags (`Judge`, `Approved`).
- The expiry of a verification session is stored and never enforced.

## 5. What is proved

TLAPS proves, for all values of the constants under the named assumptions in
each module (natural orders and bounds, a `None` apart from the rest, a founder among
the users), that each inductive invariant (`IndInv`, `ExactInv`, `CaIndInv`,
`IdentityInv`) is an invariant, and from it the type invariant and the safety properties.
Two proof modules hold two components that share no state: the CA beside
the documents it certifies, identity verification beside the sessions; their definitions
have names that let one module extend both.

- `EnvelopeSigning_proofs`: `SignedHasSignature`, `SigningOrderKept`,
  `CompletedHasSignatures`, for any number of requests; and for one request at a time (`OneWorker`)
  `AllSignedIsTerminal`, `CompletedIsAllSigned`, `DeclineTerminates`, the refinement
  `ImplementsLifecycle` and, if nothing fails, `TurnIsAnnounced`.  None is inductive: handlers write back what they remember.
  The argument is that memory can be stale in one direction only.  Rows
  stay, signatures and recorded declines stay, DRAFT does not come back (`Mono`), so what a
  worker remembers stays true (`OthersKeep`), and an action's proof is about its own
  worker: `MemoryOK` and `SignOK` say what it may remember at each step.
  With one worker nothing is stale (`SoloInv`): what it remembers is what the rows say (`FreshOK`), and
  between requests a live envelope has a signer who has not signed, no decline and nobody whose
  turn is not announced (`SoloRowsOK`).  So the transition a handler writes starts at the
  status it checked, which is the step proof of the refinement.
- `AuditChain_proofs`: `Linked`, `StoredOnce`, `Chronological`,
  `GivesUpOnlyWhenOvertaken`.  A chain has no gap (`Dense`) and a last row (`HasLast`), the head
  an append read is a row of it (`HeadOK`), and each attempt lost was lost to a later row
  (`RetryOK`); the unique index then makes an insert an extension of the last row.
  `VerifyIsExact` rests on `ExactInv` besides, for what the hashes carry.  In a chain that no one
  altered they carry every earlier core (`Carried`), rows of a chain are in different places (`Apart`)
  and can be put in order (`CanSort`), and without a gap the i-th row of the walk is in place i.
  An altered chain has lost a core that the hash of its last row still carries (`Broken`),
  while a verified walk would have met every core that hash carries (`WalkCarries`).  An append
  read the last row unless another came since (`AtTip`), so its own hash carries what is lost;
  and it cannot put it back, because the append of that event is over (`Lost`).  The walk is of any
  length: instead of an induction, the least counterexample (`Least`) is shown not to be one.
- `WorkflowEngine_proofs`: `StepsInOrder`, `EveryStepDecided`, for any workflow, with
  any overlaps and failures.  Rows are never deleted, so a snapshot may say too little and
  never too much, and what the loop has left behind stays decided (`MemoryOK`).
  `NeverRerunAlone`, `BranchesFollowOutputs` and `CompletedStays` rest on `SoloInv`, in three layers of what has not
  gone wrong: while calls do not overlap the one under way knows every row and nothing else
  waits (`AloneOK`); while no step is resumed out of turn the rows are a prefix of the order
  (`OrderlyOK`); and while nothing is cut the context is the outputs of the rows (`ExactOK`).
- `Memberships_proofs`: `OwnerRemains`, `OwnersMakeOwners`, `MembersAccepted`.  A write leaves no
  other request under way that is not outdated, so what a fresh request knows (`FreshOK`: the
  change it is about to write leaves an owner, the invitation is still open) has to hold
  when it reads, and no write has to keep it.

- `WebhookDelivery_proofs`: `PostsBounded`, `StatusIsBacked`, `EndsDecided`, and the refinement
  `ImplementsLog`.  A worker's request belongs to one lease of its job, so posts and
  workers yet to post are metered by the leases (`Metered`), of which there are at most `MaxAttempts +
  MaxStalls`; as long as a delivery is not torn its lease's holder works alone, so what it has
  read is still so (`LoneOK`), and a decided delivery is attempted again only after a
  stall (`AgainOK`).  The step proof of the refinement maps each action to `Create`, `Attempt`,
  `Tear`, `AttemptTorn`, `Remove` or a stutter.
- `UsageMetering_proofs`: `AllowanceKept`, `OvershootBounded`, for any plans in which FREE is the least.
  Every limit that a request holds or will read is under `cap` (`CapOK`), and each request that
  has been checked reserves `MaxQuantity` under `peak` (`Reserved`).
- `DocumentSigning_proofs`: `HistoryIsDense`, `SignaturesCoverVersions`, `VerdictIsFair`, for any number of
  documents, objects, certificates and requests.  What a request has read of a document is one
  of its versions for good, an object whose URL has expired stays as it is (`SealedOK`), and the
  two tables of revocations agree (`RevokedOK`).
  In the same module, of `CertificateAuthority`: `ChainsVerify`.  Undisturbed, the bucket is empty, part
  of what the one generating instance holds, or one complete CA (`BucketOK`, `PutsOK`), which is
  what every other instance has read (`ReadsOK`) and every certificate comes from (`LeafOK`).
- `SessionTokens_proofs`: `SpentForGood`, `OneLineage`, `ReplayRevokes`, `ChangeEndsOthers`, for any number
  of sessions, tokens and requests, whatever overlaps and fails: there is no assumption but that
  `None` is apart.  What they leave open is what the code leaves open: `OneLineage` excepts the `forked`
  tokens and `ChangeEndsOthers` the `late` sessions, and taken literally `SingleUse` is false, as `SessionsSingleUse` shows.
  `IndInv` says what a request may remember (`Remembers`: a row that was read is still
  there) and that a token's successors stay in its session and point back to a revoked parent
  (`Rooted`, `FamilyStays`), so that whoever ends a session ends them all.  A spent token gets no further
  than `ReadSession` (`SpentStops`).  Of two refreshes of a token at most one was alone with it when
  it began (`AloneApart`); the usable tokens and those that such a refresh is about to rotate are
  the one `Line` of their session (`OneLine`), which a login begins (`FirstToken`).  A change has locked every
  other session but the late ones before it commits (`OthersLocked`), and so leaves only current
  ones (`LiveCurrent`, of expired sessions too).  Most actions write no row: `QuietKeeps` says once that such a step
  keeps the invariant if the moved request fits the rows and the other requests.
  In the same module, of `IdentityVerification`: `ApprovedIsClean`, for any documents, scores and requests.
  While runs do not overlap, one that judges finds the verification in PROCESSING, and what
  it has left behind is clean or blocks (`RunsAlone`); documents without a row have no
  scores (`ScoresOfAdded`), so one added during a run is clean until it is judged.

To let TLC look for a counterexample to the induction hypothesis of a proof, add the invariant to the
INVARIANTS of the component's configuration; each was checked that way before it was proved.

Only model-checked: liveness (`OverdueEnds`, `RunSettles`, `DeliverySettles`,
`RunDecides`), because fairness and ENABLED are out of this prover's reach.  So is induction
with a predicate of one's own; where an argument needs it, a least counterexample
stands in.  No module declares a RECURSIVE operator.

## 6. What is left

Done, in this order: `EnvelopeState`, `EnvelopeLifecycle`, `EnvelopeSigning`, `AuditChain`,
`SessionTokens`, `WorkflowEngine`, `Memberships`; then `WebhookDelivery` with
`DeliveryLifecycle`, `UsageMetering`, `DocumentSigning`, `IdentityVerification`,
`CertificateAuthority`; with the proofs of section 5.

Worth doing next: TOTP enrolment, composed with
`SessionTokens` at the point where `login` creates its session; the condition evaluator as
a recursive function.

### Not modelled

- *Multi-factor authentication*: `SessionTokens` begins after the second factor.  The unique index
  `(userId, type, label)`, whose label is always the same, keeps a user to one TOTP factor, so of
  two enrolments at once one fails or is replaced; and no operation removes a verified factor.
- *Notifications*: one job per notification, nothing read back, no caller of `notify` in the
  repository; what two requests share is a row's READ flag.
- *Storage, AI gateway, health, configuration, controllers, DTOs*: wrappers of clients, prompt texts,
  probes, validation and wiring.  They keep no state of the program's own.
- *Web front end and UI package*, more than half of the repository's lines: pages over mock
  data, without a connection to the API.
- *In modelled parts*: audit records of the other services (`AuditChain` takes any events),
  timestamps nothing reads, reads that change nothing, and the encodings of X.509, CMS and JWT,
  which libraries do.

The modules cover the API's services in which requests meet over rows that several of them
write, but for the TOTP factor; the rest of what is outside is presentation, or has no state
to interleave.

## 7. Running it

From this directory:

    tlc -workers 2 -config EnvelopeRaces.cfg MCEnvelopeSigning
    tlapm EnvelopeSigning_proofs.tla

`PROJECT.json` names the module of every run, the properties each configuration checks, the
lines each definition models, the planted bug for each property, and the hazards.
