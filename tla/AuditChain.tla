----------------------------- MODULE AuditChain -----------------------------
(***************************************************************************)
(* The hash-chained audit log of modules/audit: AuditListener hands every  *)
(* emitted event to AuditService.append, which reads the head of the       *)
(* event's chain, hashes the event onto it and inserts the row, without a  *)
(* transaction around the two.  Appends to one chain therefore race, and   *)
(* the unique index on (chainKey, seq) decides: the loser rereads the head *)
(* and tries again, MaxAppendRetries times in all.                         *)
(*                                                                         *)
(* The hash is ideal: a hash is the sequence of event cores it digests, so *)
(* different inputs have different hashes.                                 *)
(***************************************************************************)
EXTENDS Naturals, Sequences, FiniteSets, SequencesExt

CONSTANTS
  Events,            \* the events emitted
  Chains,            \* chain keys: tenants, and "platform"
  OtherPayload,      \* what an edited row may say instead
  MaxAppendRetries,  \* MAX_APPEND_RETRIES
  MaxNow,            \* bound on the time
  MaxSkew,           \* how far the clocks of the API's replicas may be apart
  MayFail,           \* whether an append may fail or its process may crash
  MayAlter           \* whether rows are altered behind the service's back

ASSUME OtherPayloadAssumption == OtherPayload \notin Events
ASSUME RetriesAssumption == MaxAppendRetries \in Nat \ {0}
ASSUME ClockAssumption == MaxNow \in Nat /\ MaxSkew \in Nat
ASSUME SwitchesAssumption == MayFail \in BOOLEAN /\ MayAlter \in BOOLEAN

VARIABLES
  chainKey,  \* the chain of each event
  rows,      \* the table audit_events
  task,      \* the append of each event and what it remembers
  now,       \* the time, as the slowest clock has it
  altered    \* history: chains altered other than by append

vars == <<chainKey, rows, task, now, altered>>

Core == [chainKey : Chains, seq : Nat, payload : Events \cup {OtherPayload},
         createdAt : Nat]
Hashes == Seq(Core)
GENESIS == <<>>
Hash(prevHash, core) == Append(prevHash, core)

Row == [core : Core, prevHash : Hashes, hash : Hashes]
ChainHead == [seq : Nat, hash : Hashes]

(***************************************************************************)
(* An append: how far it is, which attempt this is, the head it read and   *)
(* the createdAt it took; as history, the seq of the head it first read.   *)
(***************************************************************************)
Steps == {"idle", "read", "create", "done", "gaveUp", "failed"}
Task == [at : Steps, attempt : Nat, head : ChainHead, createdAt : Nat,
         first : Nat]

EmptyHead == [seq |-> 0, hash |-> GENESIS]
NoTask == [at |-> "idle", attempt |-> 1, head |-> EmptyHead, createdAt |-> 0,
           first |-> 0]

TypeOK ==
  /\ chainKey \in [Events -> Chains]
  /\ rows \in SUBSET Row
  /\ task \in [Events -> Task]
  /\ now \in Nat
  /\ altered \in SUBSET Chains

Init ==
  /\ chainKey \in [Events -> Chains]
  /\ rows = {}
  /\ task = [e \in Events |-> NoTask]
  /\ now = 0
  /\ altered = {}

-----------------------------------------------------------------------------

ChainRows(k) == {r \in rows : r.core.chainKey = k}

\* findFirst by descending seq.
HeadOf(k) ==
  IF ChainRows(k) = {} THEN EmptyHead
  ELSE LET last == CHOOSE r \in ChainRows(k) :
                     \A q \in ChainRows(k) : q.core.seq <= r.core.seq
       IN [seq |-> last.core.seq, hash |-> last.hash]

\* Planted bug: createdAt is the time of the request that emitted the event.
MutClocks == 0 .. now + MaxSkew

\* What new Date() may return, on whichever replica the append runs.
Clocks == now .. now + MaxSkew

\* The next attempt starts afresh.
Retry(e) ==
  task' = [task EXCEPT ![e] = [NoTask EXCEPT !.at = "read",
                                             !.attempt = task[e].attempt + 1,
                                             !.first = task[e].first]]

\* What an append remembers goes with it, but for the history.
End(e, how) ==
  task' = [task EXCEPT ![e] = [NoTask EXCEPT !.at = how, !.first = task[e].first]]

\* The listener runs the append later, on its own: the request that emitted
\* the event does not wait for it.
Emit(e) ==
  /\ task[e].at = "idle"
  /\ task' = [task EXCEPT ![e].at = "read"]
  /\ UNCHANGED <<chainKey, rows, now, altered>>

\* Each attempt reads the head anew, and its replica's clock after it.
ReadHead(e) ==
  LET head == HeadOf(chainKey[e])
      t == task[e]
  IN /\ t.at = "read"
     /\ \E clock \in Clocks : task' = [task EXCEPT ![e] =
          [t EXCEPT !.at = "create",
                    !.head = head,
                    !.createdAt = clock,
                    !.first = IF t.attempt = 1 THEN head.seq ELSE @]]
     /\ UNCHANGED <<chainKey, rows, now, altered>>

NewRow(e) ==
  LET t == task[e]
      core == [chainKey |-> chainKey[e], seq |-> t.head.seq + 1, payload |-> e,
               createdAt |-> t.createdAt]
  IN [core |-> core, prevHash |-> t.head.hash, hash |-> Hash(t.head.hash, core)]

\* Planted bug: the table has no unique index on (chainKey, seq).
MutConflict(e) == \E r \in rows : r.hash = NewRow(e).hash

\* The unique indices on (chainKey, seq) and on hash.
Conflict(e) ==
  \E r \in rows :
    \/ /\ r.core.chainKey = chainKey[e]
       /\ r.core.seq = NewRow(e).core.seq
    \/ r.hash = NewRow(e).hash

Insert(e) ==
  /\ task[e].at = "create"
  /\ ~Conflict(e)
  /\ rows' = rows \cup {NewRow(e)}
  /\ UNCHANGED <<chainKey, now, altered>>

Create(e) ==
  /\ Insert(e)
  /\ End(e, "done")

\* Planted bug: the last attempt is not made.
MutLoseRace(e) ==
  /\ task[e].at = "create"
  /\ Conflict(e)
  /\ IF task[e].attempt + 1 < MaxAppendRetries
     THEN Retry(e)
     ELSE End(e, "gaveUp")
  /\ UNCHANGED <<chainKey, rows, now, altered>>

\* P2002: another writer won.  After the last attempt the error goes to the
\* listener, which logs it: the event is dropped.
LoseRace(e) ==
  /\ task[e].at = "create"
  /\ Conflict(e)
  /\ IF task[e].attempt < MaxAppendRetries
     THEN Retry(e)
     ELSE End(e, "gaveUp")
  /\ UNCHANGED <<chainKey, rows, now, altered>>

\* Any other error, or the process dies: no retry.
Fail(e) ==
  /\ MayFail
  /\ task[e].at \in {"read", "create"}
  /\ End(e, "failed")
  /\ UNCHANGED <<chainKey, rows, now, altered>>

\* Planted bug: an insert whose outcome is unknown is retried.
MutLoseReply(e) ==
  /\ MayFail
  /\ Insert(e)
  /\ Retry(e)

\* The insert is committed but its reply is lost: append fails all the same.
LoseReply(e) ==
  /\ MayFail
  /\ Insert(e)
  /\ End(e, "failed")

Tick ==
  /\ now < MaxNow
  /\ now' = now + 1
  /\ UNCHANGED <<chainKey, rows, task, altered>>

(***************************************************************************)
(* Outside the service: a historical row, one with a later row after it,   *)
(* is deleted or edited, its own hash recomputed or not.                   *)
(***************************************************************************)
Edited(r) ==
  LET core == [r.core EXCEPT !.payload = OtherPayload]
  IN {[r EXCEPT !.core = core],
      [r EXCEPT !.core = core, !.hash = Hash(r.prevHash, core)]}

Alter(k) ==
  /\ MayAlter
  /\ altered' = altered \cup {k}
  /\ \E r \in ChainRows(k) :
       /\ \E q \in ChainRows(k) : r.core.seq < q.core.seq
       /\ r.core.payload # OtherPayload
       /\ \/ rows' = rows \ {r}
          \/ \E x \in Edited(r) : rows' = (rows \ {r}) \cup {x}
  /\ UNCHANGED <<chainKey, task, now>>

-----------------------------------------------------------------------------

Appending(e) == ReadHead(e) \/ Create(e) \/ LoseRace(e)

Next ==
  \/ \E e \in Events : Emit(e) \/ Appending(e) \/ Fail(e) \/ LoseReply(e)
  \/ \E k \in Chains : Alter(k)
  \/ Tick

Spec == Init /\ [][Next]_vars

\* An append that has begun goes on: the event loop runs every callback.
FairSpec == Spec /\ \A e \in Events : WF_vars(Appending(e))

-----------------------------------------------------------------------------
(* verifyChain.                                                            *)

\* Planted bug: the walk does not compare prevHash with the row before.
MutVerifyEvents(events) ==
  \A i \in DOMAIN events :
    /\ events[i].core.seq = i
    /\ events[i].hash = Hash(events[i].prevHash, events[i].core)

\* The walk along the rows: no gap, each linked to the one before, each hash
\* as recomputed.
VerifyEvents(events) ==
  \A i \in DOMAIN events :
    /\ events[i].core.seq = i
    /\ events[i].prevHash = IF i = 1 THEN GENESIS ELSE events[i - 1].hash
    /\ events[i].hash = Hash(events[i].prevHash, events[i].core)

\* findMany by ascending seq.
Sorted(k) ==
  CHOOSE s \in SetToSeqs(ChainRows(k)) :
    \A i, j \in DOMAIN s : i < j => s[i].core.seq <= s[j].core.seq

VerifyChain(k) == VerifyEvents(Sorted(k))

-----------------------------------------------------------------------------
(* What the log promises.                                                  *)

\* verifyChain accepts a chain exactly as long as none of its historical rows
\* was altered: racing appends never break it, and appends after an alteration
\* never cover it up.
VerifyIsExact == \A k \in Chains : VerifyChain(k) <=> k \notin altered

\* A row that no one altered links to the row before it, and no two rows of a
\* chain share a place, although every append decides on a head that may be
\* stale by the time it inserts.
Linked ==
  \A k \in Chains \ altered : \A r \in ChainRows(k) :
    /\ r.hash = Hash(r.prevHash, r.core)
    /\ \/ r.core.seq = 1 /\ r.prevHash = GENESIS
       \/ \E p \in ChainRows(k) :
            p.core.seq + 1 = r.core.seq /\ p.hash = r.prevHash
    /\ \A q \in ChainRows(k) : q.core.seq = r.core.seq => q = r

\* An event is stored at most once however often its append is retried, and
\* it is stored if its append succeeded.
StoredOnce ==
  \A e \in Events :
    LET stored == {r \in rows : r.core.payload = e}
    IN /\ \A p, q \in stored : p = q
       /\ stored # {} => task[e].at \in {"done", "failed"}
       /\ chainKey[e] \notin altered /\ task[e].at = "done" => stored # {}

\* Along a chain createdAt goes back by no more than the replicas' clocks are
\* apart, however often an append was overtaken: each attempt takes it after
\* the row it links to was stored.
Chronological ==
  \A k \in Chains \ altered : \A p, q \in ChainRows(k) :
    p.core.seq < q.core.seq => p.core.createdAt <= q.core.createdAt + MaxSkew

\* An append gives up only after that many other events were stored in its
\* chain since its first read: fewer racing appends lose nothing.
GivesUpOnlyWhenOvertaken ==
  \A e \in Events :
    task[e].at = "gaveUp" /\ chainKey[e] \notin altered =>
      \E r \in ChainRows(chainKey[e]) :
        r.core.seq >= task[e].first + MaxAppendRetries

(***************************************************************************)
(* The inductive invariant behind these: what an append remembers of its   *)
(* chain, and that the chain has no gap.                                   *)
(***************************************************************************)

\* A chain has a last row, which no alteration touches.
HasLast(k) ==
  \/ ChainRows(k) = {}
  \/ \E r \in ChainRows(k) : \A q \in ChainRows(k) : q.core.seq <= r.core.seq

Dense(k) ==
  \A r \in ChainRows(k) : \A n \in 1..r.core.seq :
    \E p \in ChainRows(k) : p.core.seq = n

\* The head that was read is a row, or the chain was empty; no row up to it
\* is younger than the append's createdAt, but for the skew.
HeadOK(e) ==
  LET t == task[e]
      k == chainKey[e]
  IN /\ \/ t.head = EmptyHead
        \/ \E p \in ChainRows(k) : p.core.seq = t.head.seq /\ p.hash = t.head.hash
     /\ \A p \in ChainRows(k) :
          p.core.seq <= t.head.seq => p.core.createdAt <= t.createdAt + MaxSkew
     /\ t.head.seq + 1 >= t.first + t.attempt

\* Every attempt lost was lost to a row stored since the one before.
RetryOK(e) ==
  task[e].attempt = 1 \/
    \E r \in ChainRows(chainKey[e]) :
      r.core.seq + 1 >= task[e].first + task[e].attempt

TaskOK(e) ==
  /\ task[e].createdAt <= now + MaxSkew
  /\ task[e].at = "idle" => task[e].attempt = 1
  /\ chainKey[e] \notin altered =>
       /\ task[e].at = "create" => HeadOK(e)
       /\ task[e].at = "read" => RetryOK(e)

\* The core that a row's hash digests last; editing a row keeps its place.
Digested(r) == r.hash[Len(r.hash)]

RowsOfEvents ==
  \A r \in rows :
    /\ r.core.createdAt <= now + MaxSkew
    /\ r.core.payload \in Events => r.core.chainKey = chainKey[r.core.payload]
    /\ Digested(r).chainKey = r.core.chainKey /\ Digested(r).seq = r.core.seq

\* All of it together.
IndInv ==
  /\ TypeOK
  /\ RowsOfEvents
  /\ \A e \in Events : TaskOK(e)
  /\ \A k \in Chains : HasLast(k) /\ (k \notin altered => Dense(k))
  /\ Linked
  /\ StoredOnce
  /\ Chronological
  /\ GivesUpOnlyWhenOvertaken

(***************************************************************************)
(* What verification rests on besides.  Every hash carries the cores of    *)
(* the rows up to its own; what an alteration took out of a chain stays in *)
(* the hash of the last row, and no append can put it back.                *)
(***************************************************************************)

Newest(k) == {r \in ChainRows(k) : \A q \in ChainRows(k) : q.core.seq <= r.core.seq}

\* The rows of a chain, altered or not, are in different places.
Apart(k) == \A p, q \in ChainRows(k) : p.core.seq = q.core.seq => p = q

Carried(k) ==
  \A q \in ChainRows(k) :
    /\ Len(q.hash) = q.core.seq
    /\ \A p \in ChainRows(k) :
         p.core.seq <= q.core.seq => q.hash[p.core.seq] = p.core

\* The last row carries the core of an event whose row is no longer there.
Lost(k, core) ==
  /\ core.payload \in Events
  /\ task[core.payload].at \in {"done", "failed"}
  /\ \A r \in ChainRows(k) : r.core # core

Broken(k) ==
  \E q \in Newest(k) : \E j \in 1 .. Len(q.hash) :
    q.hash[j].seq < q.core.seq /\ Lost(k, q.hash[j])

\* The head that was read is the last row, unless another was stored since.
AtTip(e) ==
  LET k == chainKey[e]
      head == task[e].head
  IN \/ ChainRows(k) = {} /\ head = EmptyHead
     \/ \E q \in Newest(k) :
          \/ head.seq < q.core.seq
          \/ head.seq = q.core.seq /\ head.hash = q.hash

ExactInv ==
  /\ \A k \in Chains :
       /\ Apart(k)
       /\ k \notin altered => Carried(k)
       /\ k \in altered => Broken(k)
  /\ \A e \in Events : task[e].at = "create" => AtTip(e)

\* As the interceptor's comment has it, "guarantees a baseline trail": without
\* failures every event that was emitted ends up in the log.
NothingDropped == \A e \in Events : task[e].at # "gaveUp"
=============================================================================
