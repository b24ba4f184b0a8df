-------------------------- MODULE AuditChain_proofs --------------------------
(***************************************************************************)
(* Proofs about AuditChain for any events, chains and number of attempts,  *)
(* with and without failures and alterations.                              *)
(***************************************************************************)
EXTENDS AuditChain, FiniteSetTheorems, WellFoundedInduction, TLAPS

\* The part of IndInv that is about the rows alone.
RowsOK ==
  /\ RowsOfEvents
  /\ \A k \in Chains : HasLast(k) /\ (k \notin altered => Dense(k))
  /\ Linked
  /\ Chronological

LEMMA RowsStay ==
  ASSUME IndInv, UNCHANGED <<chainKey, rows, altered>>, now' \in Nat, now <= now'
  PROVE  RowsOK'
<1>1. RowsOfEvents'
  <2> SUFFICES ASSUME NEW r \in rows PROVE r.core.createdAt <= now' + MaxSkew
    BY DEF IndInv, RowsOfEvents
  <2>1. /\ r.core.createdAt \in Nat /\ now \in Nat
        /\ r.core.createdAt <= now + MaxSkew
    BY DEF IndInv, TypeOK, RowsOfEvents, Row, Core
  <2>2. QED
    BY <2>1, ClockAssumption
<1>2. QED
  BY <1>1 DEF IndInv, RowsOK, HasLast, Dense, Linked, Chronological, ChainRows

\* A step of e's append that inserts nothing.
LEMMA TaskStep ==
  ASSUME IndInv, NEW e \in Events, NEW t \in Task,
         task' = [task EXCEPT ![e] = t],
         UNCHANGED <<chainKey, rows, now, altered>>,
         task[e].at \notin {"done", "failed"}, t.at # "done",
         TaskOK(e)',
         t.at = "gaveUp" /\ chainKey[e] \notin altered =>
           \E r \in ChainRows(chainKey[e]) :
             r.core.seq >= t.first + MaxAppendRetries
  PROVE  IndInv'
<1>1. TypeOK' /\ task'[e] = t /\ \A f \in Events \ {e} : task'[f] = task[f]
  BY DEF IndInv, TypeOK
<1>2. RowsOK'
  BY RowsStay DEF IndInv, TypeOK
<1>3. \A f \in Events : TaskOK(f)'
  <2> SUFFICES ASSUME NEW f \in Events \ {e} PROVE TaskOK(f)'
    OBVIOUS
  <2>1. TaskOK(f) /\ task'[f] = task[f]
    BY <1>1 DEF IndInv
  <2>2. QED
    BY <2>1 DEF TaskOK, HeadOK, RetryOK, ChainRows
<1>4. StoredOnce'
  <2>1. {r \in rows : r.core.payload = e} = {}
    BY DEF IndInv, StoredOnce
  <2>2. QED
    BY <1>1, <2>1 DEF IndInv, StoredOnce
<1>5. GivesUpOnlyWhenOvertaken'
  BY <1>1 DEF IndInv, GivesUpOnlyWhenOvertaken, ChainRows
<1>6. QED
  BY <1>1, <1>2, <1>3, <1>4, <1>5 DEF IndInv, RowsOK

LEMMA EmitKeeps ==
  ASSUME IndInv, NEW e \in Events, Emit(e)
  PROVE  IndInv'
<1> DEFINE t == [task[e] EXCEPT !.at = "read"]
<1>1. task[e] \in Task /\ TaskOK(e) /\ task[e].at = "idle"
  BY DEF IndInv, TypeOK, Emit
<1>2. t \in Task /\ task' = [task EXCEPT ![e] = t] /\ task'[e] = t
  BY <1>1 DEF Emit, Task, Steps, IndInv, TypeOK
<1>3. /\ t.at = "read" /\ t.attempt = task[e].attempt
      /\ t.createdAt = task[e].createdAt
  BY <1>1 DEF Task
<1>4. TaskOK(e)'
  BY <1>1, <1>2, <1>3 DEF Emit, TaskOK, RetryOK
<1> HIDE DEF t
<1>5. QED
  BY <1>1, <1>2, <1>3, <1>4, TaskStep DEF Emit

\* What findFirst returns.
LEMMA HeadFact ==
  ASSUME IndInv, NEW k \in Chains
  PROVE  /\ HeadOf(k) \in ChainHead
         /\ \/ HeadOf(k) = EmptyHead
            \/ \E p \in ChainRows(k) :
                 p.core.seq = HeadOf(k).seq /\ p.hash = HeadOf(k).hash
         /\ \A q \in ChainRows(k) : q.core.seq <= HeadOf(k).seq
<1>1. CASE ChainRows(k) = {}
  BY <1>1 DEF HeadOf, EmptyHead, ChainHead, GENESIS, Hashes
<1>2. CASE ChainRows(k) # {}
  <2> DEFINE last == CHOOSE r \in ChainRows(k) :
                       \A q \in ChainRows(k) : q.core.seq <= r.core.seq
  <2>1. \E r \in ChainRows(k) : \A q \in ChainRows(k) : q.core.seq <= r.core.seq
    BY <1>2 DEF IndInv, HasLast
  <2>2. /\ last \in ChainRows(k)
        /\ \A q \in ChainRows(k) : q.core.seq <= last.core.seq
    BY <2>1
  <2> HIDE DEF last
  <2>3. last.core.seq \in Nat /\ last.hash \in Hashes
    BY <2>2 DEF IndInv, TypeOK, Row, Core, ChainRows
  <2>4. HeadOf(k) = [seq |-> last.core.seq, hash |-> last.hash]
    BY <1>2 DEF HeadOf, last
  <2>5. QED
    BY <2>2, <2>3, <2>4 DEF ChainHead
<1>3. QED
  BY <1>1, <1>2

LEMMA ReadHeadKeeps ==
  ASSUME IndInv, NEW e \in Events, ReadHead(e)
  PROVE  IndInv'
<1> DEFINE k == chainKey[e]
           t == task[e]
           head == HeadOf(k)
           first == IF t.attempt = 1 THEN head.seq ELSE t.first
           Taking(clock) == [t EXCEPT !.at = "create", !.head = head,
                                      !.createdAt = clock, !.first = first]
<1>1. /\ t \in Task /\ TaskOK(e) /\ t.at = "read" /\ k \in Chains /\ now \in Nat
  BY DEF IndInv, TypeOK, ReadHead
<1>2. /\ head \in ChainHead
      /\ \/ head = EmptyHead
         \/ \E p \in ChainRows(k) : p.core.seq = head.seq /\ p.hash = head.hash
      /\ \A q \in ChainRows(k) : q.core.seq <= head.seq
  BY <1>1, HeadFact
<1>3. /\ head.seq \in Nat /\ t.attempt \in Nat /\ t.first \in Nat
      /\ \A q \in ChainRows(k) : q.core.seq \in Nat
  BY <1>1, <1>2 DEF ChainHead, Task, IndInv, TypeOK, Row, Core, ChainRows
<1>4. PICK clock \in Clocks :
        /\ UNCHANGED <<chainKey, rows, now, altered>>
        /\ task' = [task EXCEPT ![e] = Taking(clock)]
  BY DEF ReadHead
<1> DEFINE x == Taking(clock)
<1>0. clock \in Nat /\ now <= clock /\ clock <= now + MaxSkew
  BY <1>1, <1>4, ClockAssumption DEF Clocks
<1> HIDE DEF head
<1>5. x \in Task /\ task'[e] = x
  BY <1>0, <1>1, <1>2, <1>3, <1>4 DEF Task, Steps, IndInv, TypeOK
<1>6. /\ x.at = "create" /\ x.head = head /\ x.createdAt = clock
      /\ x.first = first /\ x.attempt = t.attempt
  BY <1>1 DEF Task
<1>12. task' = [task EXCEPT ![e] = x]
  BY <1>4
<1> HIDE DEF x, Taking
<1>7. k \notin altered => head.seq + 1 >= first + t.attempt
  <2>1. CASE t.attempt = 1
    BY <1>3, <2>1
  <2>2. CASE t.attempt # 1
    <3> SUFFICES ASSUME k \notin altered
                 PROVE  head.seq + 1 >= t.first + t.attempt
      BY <2>2
    <3>1. PICK r \in ChainRows(k) : r.core.seq + 1 >= t.first + t.attempt
      BY <1>1, <2>2 DEF TaskOK, RetryOK
    <3>2. r.core.seq <= head.seq
      BY <1>2
    <3>3. QED
      BY <1>3, <3>1, <3>2
  <2>3. QED
    BY <2>1, <2>2
<1>8. \A p \in ChainRows(k) : p.core.createdAt <= clock + MaxSkew
  <2> SUFFICES ASSUME NEW p \in ChainRows(k)
               PROVE  p.core.createdAt <= clock + MaxSkew
    OBVIOUS
  <2>1. p.core.createdAt \in Nat /\ p.core.createdAt <= now + MaxSkew
    BY DEF IndInv, TypeOK, RowsOfEvents, ChainRows, Row, Core
  <2>2. QED
    BY <1>0, <1>1, <2>1, ClockAssumption
<1>9. k \notin altered => HeadOK(e)'
  BY <1>2, <1>4, <1>5, <1>6, <1>7, <1>8 DEF HeadOK, ChainRows
<1>10. TaskOK(e)'
  BY <1>0, <1>1, <1>4, <1>5, <1>6, <1>9 DEF TaskOK
<1>11. QED
  BY <1>1, <1>4, <1>5, <1>6, <1>10, <1>12, TaskStep

\* End forgets all but the history.
LEMMA EndFact ==
  ASSUME IndInv, NEW e \in Events, NEW how \in {"done", "gaveUp", "failed"},
         End(e, how)
  PROVE  /\ task' \in [Events -> Task]
         /\ task'[e].at = how /\ task'[e].first = task[e].first
         /\ task'[e].createdAt = 0 /\ task'[e].attempt = 1
         /\ \A f \in Events \ {e} : task'[f] = task[f]
<1> DEFINE x == [NoTask EXCEPT !.at = how, !.first = task[e].first]
<1>1. task[e].first \in Nat
  BY DEF IndInv, TypeOK, Task
<1>2. NoTask \in Task
  BY DEF NoTask, Task, Steps, EmptyHead, ChainHead, GENESIS, Hashes
<1>3. x \in Task
  BY <1>1, <1>2 DEF Task, Steps
<1>4. task' = [task EXCEPT ![e] = x]
  BY DEF End
<1>5. /\ x.at = how /\ x.first = task[e].first /\ x.createdAt = 0
      /\ x.attempt = 1
  BY DEF NoTask
<1> HIDE DEF x
<1>6. QED
  BY <1>3, <1>4, <1>5 DEF IndInv, TypeOK

\* So does Retry, but for the number of the attempt.
LEMMA RetryFact ==
  ASSUME IndInv, NEW e \in Events, Retry(e)
  PROVE  \E x \in Task :
           /\ task' = [task EXCEPT ![e] = x] /\ task'[e] = x
           /\ x.at = "read" /\ x.attempt = task[e].attempt + 1
           /\ x.first = task[e].first /\ x.createdAt = 0
<1> DEFINE x == [NoTask EXCEPT !.at = "read", !.attempt = task[e].attempt + 1,
                               !.first = task[e].first]
<1>1. task[e].first \in Nat /\ task[e].attempt + 1 \in Nat
  BY DEF IndInv, TypeOK, Task
<1>2. EmptyHead \in ChainHead
  BY DEF EmptyHead, ChainHead, GENESIS, Hashes
<1>3. x \in Task
  BY <1>1, <1>2 DEF NoTask, Task, Steps
<1>4. task' = [task EXCEPT ![e] = x]
  BY DEF Retry
<1>5. /\ x.at = "read" /\ x.attempt = task[e].attempt + 1
      /\ x.first = task[e].first /\ x.createdAt = 0
  BY DEF NoTask
<1> HIDE DEF x
<1>6. task'[e] = x
  BY <1>4 DEF IndInv, TypeOK
<1>7. QED
  BY <1>3, <1>4, <1>5, <1>6

LEMMA EndedOK ==
  ASSUME IndInv, NEW e \in Events, NEW how \in {"done", "gaveUp", "failed"},
         End(e, how), now' = now
  PROVE  TaskOK(e)'
<1>1. now \in Nat
  BY DEF IndInv, TypeOK
<1>2. QED
  BY <1>1, EndFact, ClockAssumption DEF TaskOK

\* A step that ends e's append without a row.
LEMMA EndStep ==
  ASSUME IndInv, NEW e \in Events, NEW how \in {"gaveUp", "failed"},
         End(e, how), UNCHANGED <<chainKey, rows, now, altered>>,
         task[e].at \notin {"done", "failed"},
         how = "gaveUp" /\ chainKey[e] \notin altered =>
           \E r \in ChainRows(chainKey[e]) :
             r.core.seq >= task[e].first + MaxAppendRetries
  PROVE  IndInv'
<1>1. /\ task'[e] \in Task /\ task'[e].at = how
      /\ task'[e].first = task[e].first
  BY EndFact
<1>2. task' = [task EXCEPT ![e] = task'[e]]
  BY EndFact DEF End
<1>3. QED
  BY <1>1, <1>2, EndedOK, TaskStep

LEMMA FailKeeps ==
  ASSUME IndInv, NEW e \in Events, Fail(e)
  PROVE  IndInv'
BY EndStep DEF Fail

LEMMA HashFact ==
  ASSUME NEW h \in Hashes, NEW c \in Core
  PROVE  Hash(h, c) \in Hashes /\ Hash(h, c)[Len(Hash(h, c))] = c
BY DEF Hash, Hashes

LEMMA NewRowFact ==
  ASSUME IndInv, NEW e \in Events
  PROVE  /\ NewRow(e) \in Row
         /\ NewRow(e).core.chainKey = chainKey[e]
         /\ NewRow(e).core.seq = task[e].head.seq + 1
         /\ NewRow(e).core.payload = e
         /\ NewRow(e).core.createdAt = task[e].createdAt
         /\ NewRow(e).prevHash = task[e].head.hash
         /\ NewRow(e).hash = Hash(NewRow(e).prevHash, NewRow(e).core)
         /\ Digested(NewRow(e)) = NewRow(e).core
<1> DEFINE t == task[e]
           core == [chainKey |-> chainKey[e], seq |-> t.head.seq + 1,
                    payload |-> e, createdAt |-> t.createdAt]
<1>1. t \in Task /\ chainKey[e] \in Chains
  BY DEF IndInv, TypeOK
<1>2. core \in Core /\ t.head.hash \in Hashes
  BY <1>1 DEF Core, Task, ChainHead
<1> HIDE DEF core
<1>3. Hash(t.head.hash, core) \in Hashes
      /\ Hash(t.head.hash, core)[Len(Hash(t.head.hash, core))] = core
  BY <1>2, HashFact
<1>4. NewRow(e) = [core |-> core, prevHash |-> t.head.hash,
                   hash |-> Hash(t.head.hash, core)]
  BY DEF NewRow, core
<1>5. NewRow(e) \in Row
  BY <1>2, <1>3, <1>4 DEF Row
<1>6. /\ core.chainKey = chainKey[e] /\ core.seq = t.head.seq + 1
      /\ core.payload = e /\ core.createdAt = t.createdAt
  BY DEF core
<1>7. QED
  BY <1>3, <1>4, <1>5, <1>6 DEF Digested

\* A hash covers the place of its row, so the index on hash refuses nothing
\* that the index on (chainKey, seq) allows.
LEMMA ConflictFact ==
  ASSUME IndInv, NEW e \in Events
  PROVE  Conflict(e) <=> \E r \in rows : /\ r.core.chainKey = chainKey[e]
                                         /\ r.core.seq = task[e].head.seq + 1
<1>1. ASSUME NEW r \in rows, r.hash = NewRow(e).hash
      PROVE  r.core.chainKey = chainKey[e] /\ r.core.seq = task[e].head.seq + 1
  <2>1. Digested(r) = NewRow(e).core
    BY <1>1, NewRowFact DEF Digested
  <2>2. QED
    BY <2>1, NewRowFact DEF IndInv, RowsOfEvents
<1>2. QED
  BY <1>1, NewRowFact DEF Conflict

\* The row that won the race is one past the head that was read, or further.
LEMMA LoseRaceKeeps ==
  ASSUME IndInv, NEW e \in Events, LoseRace(e)
  PROVE  IndInv'
<1> DEFINE k == chainKey[e]
           t == task[e]
<1>1. t \in Task /\ TaskOK(e) /\ t.at = "create" /\ k \in Chains
  BY DEF IndInv, TypeOK, LoseRace
<1>2. /\ t.head.seq \in Nat /\ t.attempt \in Nat /\ t.first \in Nat
      /\ \A q \in ChainRows(k) : q.core.seq \in Nat
  BY <1>1 DEF Task, ChainHead, IndInv, TypeOK, Row, Core, ChainRows
<1>3. UNCHANGED <<chainKey, rows, now, altered>>
  BY DEF LoseRace
<1>4. k \notin altered => \E r \in ChainRows(k) : r.core.seq >= t.first + t.attempt
  <2> SUFFICES ASSUME k \notin altered
               PROVE  \E r \in ChainRows(k) : r.core.seq >= t.first + t.attempt
    OBVIOUS
  <2>1. t.head.seq + 1 >= t.first + t.attempt
    BY <1>1 DEF TaskOK, HeadOK
  <2>2. PICK r \in rows : r.core.chainKey = k /\ r.core.seq = t.head.seq + 1
    BY ConflictFact DEF LoseRace
  <2>3. QED
    BY <2>1, <2>2 DEF ChainRows
<1>5. CASE t.attempt < MaxAppendRetries
  <2>0. Retry(e)
    BY <1>5 DEF LoseRace
  <2>1. PICK x \in Task :
          /\ task' = [task EXCEPT ![e] = x] /\ task'[e] = x
          /\ x.at = "read" /\ x.attempt = t.attempt + 1 /\ x.first = t.first
          /\ x.createdAt = 0
    BY <2>0, RetryFact
  <2>2. k \notin altered => RetryOK(e)'
    BY <1>2, <1>3, <1>4, <2>1 DEF RetryOK, ChainRows
  <2>3. now \in Nat
    BY DEF IndInv, TypeOK
  <2>4. TaskOK(e)'
    BY <1>3, <2>1, <2>2, <2>3, ClockAssumption DEF TaskOK
  <2>5. QED
    BY <1>1, <1>3, <2>1, <2>4, TaskStep
<1>6. CASE ~(t.attempt < MaxAppendRetries)
  <2>1. End(e, "gaveUp")
    BY <1>6 DEF LoseRace
  <2>2. k \notin altered =>
          \E r \in ChainRows(k) : r.core.seq >= t.first + MaxAppendRetries
    BY <1>2, <1>4, <1>6, RetriesAssumption
  <2>3. QED
    BY <1>1, <1>3, <2>1, <2>2, EndStep
<1>7. QED
  BY <1>5, <1>6

\* The new row is the last of its chain: a later one would, the chain being
\* dense, leave a row in the new one's place.
LEMMA InsertFact ==
  ASSUME IndInv, NEW e \in Events, Insert(e), chainKey[e] \notin altered
  PROVE  /\ HeadOK(e)
         /\ \A q \in ChainRows(chainKey[e]) : q.core.seq <= task[e].head.seq
<1> DEFINE k == chainKey[e]
           h == task[e].head
<1>1. k \in Chains /\ h.seq \in Nat /\ HeadOK(e)
  BY DEF IndInv, TypeOK, Task, ChainHead, TaskOK, Insert
<1>2. ASSUME NEW q \in ChainRows(k), ~(q.core.seq <= h.seq) PROVE FALSE
  <2>1. q.core.seq \in Nat
    BY DEF IndInv, TypeOK, Row, Core, ChainRows
  <2>2. h.seq + 1 \in 1..q.core.seq
    BY <1>1, <1>2, <2>1
  <2>3. \E p \in ChainRows(k) : p.core.seq = h.seq + 1
    BY <1>1, <2>2 DEF IndInv, Dense
  <2>4. QED
    BY <2>3, ConflictFact DEF Insert, ChainRows
<1>3. QED
  BY <1>1, <1>2

LEMMA InsertKeepsRows ==
  ASSUME IndInv, NEW e \in Events, Insert(e)
  PROVE  RowsOK'
<1> DEFINE k == chainKey[e]
           x == NewRow(e)
           t == task[e]
<1>1. /\ rows' = rows \cup {x} /\ UNCHANGED <<chainKey, now, altered>>
      /\ k \in Chains /\ t \in Task /\ t.head.seq \in Nat
      /\ t.createdAt \in Nat /\ t.createdAt <= now + MaxSkew
  BY DEF Insert, IndInv, TypeOK, Task, ChainHead, TaskOK
<1>2. /\ x.core.chainKey = k /\ x.core.seq = t.head.seq + 1
      /\ x.core.payload = e /\ x.core.createdAt = t.createdAt
      /\ x.prevHash = t.head.hash /\ x.hash = Hash(x.prevHash, x.core)
      /\ Digested(x) = x.core
  BY NewRowFact
<1> HIDE DEF x
<1>3. /\ ChainRows(k)' = ChainRows(k) \cup {x}
      /\ \A c \in Chains \ {k} : ChainRows(c)' = ChainRows(c)
  BY <1>1, <1>2 DEF ChainRows
<1>4. \A q \in rows : q.core.seq \in Nat /\ q.core.createdAt \in Nat
  BY DEF IndInv, TypeOK, Row, Core
<1>5. \A q \in ChainRows(k) : q.core.seq \in Nat /\ q.core.createdAt \in Nat
  BY <1>4 DEF ChainRows
<1>6. RowsOfEvents'
  BY <1>1, <1>2 DEF IndInv, RowsOfEvents, Digested
<1>7. ASSUME NEW c \in Chains PROVE HasLast(c)' /\ (c \notin altered' => Dense(c)')
  <2>1. CASE c # k
    BY <1>1, <1>3, <2>1 DEF IndInv, HasLast, Dense
  <2>2. HasLast(k)'
    <3>1. CASE ChainRows(k) = {}
      BY <1>1, <1>2, <1>3, <3>1 DEF HasLast
    <3>2. CASE ChainRows(k) # {}
      <4>1. PICK r \in ChainRows(k) : \A q \in ChainRows(k) : q.core.seq <= r.core.seq
        BY <1>1, <3>2 DEF IndInv, HasLast
      <4>2. CASE x.core.seq <= r.core.seq
        BY <1>3, <4>1, <4>2 DEF HasLast
      <4>3. CASE ~(x.core.seq <= r.core.seq)
        <5>1. \A q \in ChainRows(k) : q.core.seq <= x.core.seq
          BY <1>1, <1>2, <1>5, <4>1, <4>3
        <5>2. QED
          BY <1>1, <1>2, <1>3, <5>1 DEF HasLast
      <4>4. QED
        BY <4>2, <4>3
    <3>3. QED
      BY <3>1, <3>2
  <2>3. k \notin altered => Dense(k)'
    <3> SUFFICES ASSUME k \notin altered, NEW n \in 1..x.core.seq
                 PROVE  \E p \in ChainRows(k)' : p.core.seq = n
      BY <1>1, <1>3 DEF IndInv, Dense
    <3>1. CASE n = x.core.seq
      BY <1>3, <3>1
    <3>2. CASE n # x.core.seq
      <4>1. n \in 1..t.head.seq
        BY <1>1, <1>2, <3>2
      <4>2. t.head # EmptyHead
        BY <4>1 DEF EmptyHead
      <4>3. \E p \in ChainRows(k) : p.core.seq = t.head.seq
        BY <4>2, InsertFact DEF HeadOK
      <4>4. QED
        BY <1>1, <1>3, <4>1, <4>3 DEF IndInv, Dense
    <3>3. QED
      BY <3>1, <3>2
  <2>4. QED
    BY <1>1, <2>1, <2>2, <2>3
<1>8. k \notin altered =>
        /\ HeadOK(e)
        /\ \A q \in ChainRows(k) : q.core.seq <= t.head.seq
  BY InsertFact
<1>9. Linked'
  <2> SUFFICES ASSUME NEW c \in Chains \ altered, NEW r \in ChainRows(c)'
               PROVE  /\ r.hash = Hash(r.prevHash, r.core)
                      /\ \/ r.core.seq = 1 /\ r.prevHash = GENESIS
                         \/ \E p \in ChainRows(c)' :
                              p.core.seq + 1 = r.core.seq /\ p.hash = r.prevHash
                      /\ \A q \in ChainRows(c)' : q.core.seq = r.core.seq => q = r
    BY <1>1 DEF Linked
  <2>1. CASE c # k
    BY <1>3, <2>1 DEF IndInv, Linked
  <2>2. CASE c = k /\ r = x
    <3>1. \/ t.head = EmptyHead
          \/ \E p \in ChainRows(k) : p.core.seq = t.head.seq /\ p.hash = t.head.hash
      BY <1>8, <2>2 DEF HeadOK
    <3>2. t.head = EmptyHead => x.core.seq = 1 /\ x.prevHash = GENESIS
      BY <1>2 DEF EmptyHead
    <3>3. \A q \in ChainRows(k) : q.core.seq # x.core.seq
      BY <1>1, <1>2, <1>5, <1>8, <2>2
    <3>4. QED
      BY <1>1, <1>2, <1>3, <2>2, <3>1, <3>2, <3>3
  <2>3. CASE c = k /\ r # x
    <3>1. r \in ChainRows(k)
      BY <1>1, <1>3, <2>3
    <3>2. r.core.seq # x.core.seq
      BY <1>1, <1>2, <1>5, <1>8, <2>3, <3>1
    <3>3. QED
      BY <1>1, <1>3, <2>3, <3>1, <3>2 DEF IndInv, Linked
  <2>4. QED
    BY <2>1, <2>2, <2>3
<1>10. Chronological'
  <2> SUFFICES ASSUME NEW c \in Chains \ altered, NEW p \in ChainRows(c)',
                      NEW q \in ChainRows(c)', p.core.seq < q.core.seq
               PROVE  p.core.createdAt <= q.core.createdAt + MaxSkew
    BY <1>1 DEF Chronological
  <2>1. CASE p \in ChainRows(c) /\ q \in ChainRows(c)
    BY <2>1 DEF IndInv, Chronological
  <2>2. CASE c = k /\ p = x /\ q \in ChainRows(k)
    BY <1>1, <1>2, <1>5, <2>2, InsertFact
  <2>3. CASE c = k /\ p \in ChainRows(k) /\ q = x
    BY <1>2, <2>3, InsertFact DEF HeadOK
  <2>4. CASE p = x /\ q = x
    BY <1>1, <1>2, <2>4
  <2>5. QED
    BY <1>1, <1>3, <2>1, <2>2, <2>3, <2>4
<1>11. QED
  BY <1>6, <1>7, <1>9, <1>10 DEF RowsOK

\* An insert disturbs no other append: the head it read is still a row, and
\* the new row is past it.
LEMMA InsertStep ==
  ASSUME IndInv, NEW e \in Events, Insert(e), NEW how \in {"done", "failed"},
         End(e, how)
  PROVE  IndInv'
<1> DEFINE k == chainKey[e]
           x == NewRow(e)
<1>1. /\ rows' = rows \cup {x} /\ UNCHANGED <<chainKey, now, altered>>
      /\ task[e].at = "create" /\ ~Conflict(e)
  BY DEF Insert
<1>2. x \in Row /\ x.core.chainKey = k /\ x.core.payload = e
      /\ x.core.seq = task[e].head.seq + 1
  BY NewRowFact
<1> HIDE DEF x
<1>3. /\ task' \in [Events -> Task] /\ task'[e].at = how
      /\ \A f \in Events \ {e} : task'[f] = task[f]
  BY EndFact
<1>4. TypeOK'
  BY <1>1, <1>2, <1>3 DEF IndInv, TypeOK
<1>5. RowsOK'
  BY InsertKeepsRows
<1>6. /\ ChainRows(k)' = ChainRows(k) \cup {x}
      /\ \A c \in Chains \ {k} : ChainRows(c)' = ChainRows(c)
  BY <1>1, <1>2 DEF ChainRows
<1>7. ASSUME NEW f \in Events \ {e} PROVE TaskOK(f)'
  <2> DEFINE c == chainKey[f]
  <2>1. TaskOK(f) /\ c \in Chains /\ task'[f] = task[f]
    BY <1>3 DEF IndInv, TypeOK
  <2>2. CASE c # k
    BY <1>1, <1>6, <2>1, <2>2 DEF TaskOK, HeadOK, RetryOK
  <2>3. CASE c = k
    <3>1. k \notin altered /\ task[f].at = "create" => HeadOK(f)'
      <4> SUFFICES ASSUME k \notin altered, HeadOK(f)
                   PROVE  HeadOK(f)'
        BY <2>1, <2>3 DEF TaskOK
      <4>1. ~(x.core.seq <= task[f].head.seq)
        <5>1. \A q \in ChainRows(k) : q.core.seq <= task[e].head.seq
          BY InsertFact
        <5>2. task[e].head.seq \in Nat /\ task[f].head.seq \in Nat
          BY DEF IndInv, TypeOK, Task, ChainHead
        <5>3. task[f].head = EmptyHead \/
                \E p \in ChainRows(k) : p.core.seq = task[f].head.seq
          BY <2>3 DEF HeadOK
        <5>4. task[f].head.seq <= task[e].head.seq
          BY <5>1, <5>2, <5>3 DEF EmptyHead
        <5>5. QED
          BY <1>2, <5>2, <5>4
      <4>2. QED
        BY <1>1, <1>6, <2>1, <2>3, <4>1 DEF HeadOK
    <3>2. RetryOK(f) => RetryOK(f)'
      BY <1>1, <1>6, <2>1, <2>3 DEF RetryOK
    <3>3. QED
      BY <1>1, <2>1, <2>3, <3>1, <3>2 DEF TaskOK
  <2>4. QED
    BY <2>2, <2>3
<1>8. \A f \in Events : TaskOK(f)'
  BY <1>1, <1>7, EndedOK
<1>9. StoredOnce'
  <2>1. {r \in rows : r.core.payload = e} = {}
    BY <1>1 DEF IndInv, StoredOnce
  <2>2. {r \in rows' : r.core.payload = e} = {x}
    BY <1>1, <1>2, <2>1
  <2>3. \A f \in Events \ {e} :
          {r \in rows' : r.core.payload = f} = {r \in rows : r.core.payload = f}
    BY <1>1, <1>2
  <2>4. QED
    BY <1>1, <1>3, <2>2, <2>3 DEF IndInv, StoredOnce
<1>10. GivesUpOnlyWhenOvertaken'
  BY <1>1, <1>3, <1>6 DEF IndInv, TypeOK, GivesUpOnlyWhenOvertaken
<1>11. QED
  BY <1>4, <1>5, <1>8, <1>9, <1>10 DEF IndInv, RowsOK

LEMMA CreateKeeps ==
  ASSUME IndInv, NEW e \in Events, Create(e)
  PROVE  IndInv'
BY InsertStep DEF Create

LEMMA LoseReplyKeeps ==
  ASSUME IndInv, NEW e \in Events, LoseReply(e)
  PROVE  IndInv'
BY InsertStep DEF LoseReply

-----------------------------------------------------------------------------

\* Editing a row changes what it says, not its place.
LEMMA EditedFact ==
  ASSUME IndInv, NEW r \in rows, NEW x \in Edited(r)
  PROVE  /\ x \in Row /\ x.core.chainKey = r.core.chainKey /\ x.core.seq = r.core.seq
         /\ x.core.payload = OtherPayload
         /\ x.core.createdAt = r.core.createdAt
         /\ Digested(x).chainKey = r.core.chainKey /\ Digested(x).seq = r.core.seq
<1> DEFINE core == [r.core EXCEPT !.payload = OtherPayload]
<1>1. /\ r.core \in Core /\ r.prevHash \in Hashes /\ r.hash \in Hashes /\ r \in Row
  BY DEF Row, IndInv, TypeOK
<1>2. /\ core \in Core /\ core.chainKey = r.core.chainKey /\ core.seq = r.core.seq
      /\ core.payload = OtherPayload /\ core.createdAt = r.core.createdAt
  BY <1>1 DEF Core
<1>3. x = [r EXCEPT !.core = core] \/
      x = [r EXCEPT !.core = core, !.hash = Hash(r.prevHash, core)]
  BY DEF Edited
<1> HIDE DEF core
<1>4. /\ Hash(r.prevHash, core) \in Hashes
      /\ Hash(r.prevHash, core)[Len(Hash(r.prevHash, core))] = core
  BY <1>1, <1>2, HashFact
<1>5. CASE x = [r EXCEPT !.core = core]
  <2>1. x \in Row /\ x.core = core /\ x.hash = r.hash
    BY <1>1, <1>2, <1>5 DEF Row
  <2>2. QED
    BY <1>2, <2>1 DEF IndInv, RowsOfEvents, Digested
<1>6. CASE x = [r EXCEPT !.core = core, !.hash = Hash(r.prevHash, core)]
  <2>1. x \in Row /\ x.core = core /\ x.hash = Hash(r.prevHash, core)
    BY <1>1, <1>2, <1>4, <1>6 DEF Row
  <2>2. QED
    BY <1>2, <1>4, <2>1 DEF Digested
<1>7. QED
  BY <1>3, <1>5, <1>6

\* An alteration leaves the last row, the other chains and the events of the
\* other chains as they were.
LEMMA AlterKeeps ==
  ASSUME IndInv, NEW k \in Chains, Alter(k)
  PROVE  IndInv'
<1>1. PICK r \in ChainRows(k) :
        /\ \E q \in ChainRows(k) : r.core.seq < q.core.seq
        /\ \/ rows' = rows \ {r}
           \/ \E x \in Edited(r) : rows' = (rows \ {r}) \cup {x}
  BY DEF Alter
<1>2. /\ altered' = altered \cup {k} /\ UNCHANGED <<chainKey, task, now>>
      /\ r \in rows /\ r.core.chainKey = k /\ r \in Row
  BY DEF Alter, ChainRows, IndInv, TypeOK
<1>3. ASSUME NEW x \in Edited(r)
      PROVE  /\ x \in Row /\ x.core.chainKey = k /\ x.core.seq = r.core.seq
             /\ x.core.payload = OtherPayload
             /\ x.core.createdAt = r.core.createdAt
             /\ Digested(x).chainKey = k /\ Digested(x).seq = r.core.seq
  BY <1>2, EditedFact
<1>4. \A p \in rows' : \/ p \in rows /\ p # r
                       \/ p \in Edited(r)
  BY <1>1
<1>5. \A p \in rows : p # r => p \in rows'
  BY <1>1
<1>6. \A c \in Chains \ {k} : ChainRows(c)' = ChainRows(c)
  BY <1>2, <1>3, <1>4, <1>5 DEF ChainRows
<1>7. TypeOK'
  BY <1>2, <1>3, <1>4 DEF IndInv, TypeOK
<1>8. RowsOfEvents'
  <2> SUFFICES ASSUME NEW p \in rows'
               PROVE  /\ p.core.createdAt <= now + MaxSkew
                      /\ p.core.payload \in Events =>
                           p.core.chainKey = chainKey[p.core.payload]
                      /\ Digested(p).chainKey = p.core.chainKey
                      /\ Digested(p).seq = p.core.seq
    BY <1>2 DEF RowsOfEvents, Digested
  <2>1. CASE p \in rows
    BY <2>1 DEF IndInv, RowsOfEvents
  <2>2. CASE p \in Edited(r)
    BY <1>2, <1>3, <2>2, OtherPayloadAssumption DEF IndInv, RowsOfEvents
  <2>3. QED
    BY <1>4, <2>1, <2>2
<1>9. ASSUME NEW c \in Chains PROVE HasLast(c)' /\ (c \notin altered' => Dense(c)')
  <2>1. CASE c # k
    BY <1>2, <1>6, <2>1 DEF IndInv, HasLast, Dense
  <2>2. CASE c = k
    <3>1. PICK l \in ChainRows(k) : \A q \in ChainRows(k) : q.core.seq <= l.core.seq
      BY <1>1 DEF IndInv, HasLast
    <3>2. \A q \in ChainRows(k) : q.core.seq \in Nat
      BY DEF IndInv, TypeOK, Row, Core, ChainRows
    <3>3. l # r
      BY <1>1, <3>1, <3>2
    <3>4. l \in ChainRows(k)'
      BY <1>5, <3>3 DEF ChainRows
    <3>5. \A q \in ChainRows(k)' : q.core.seq <= l.core.seq
      BY <1>1, <1>3, <1>4, <3>1 DEF ChainRows
    <3>6. QED
      BY <1>2, <2>2, <3>4, <3>5 DEF HasLast
  <2>3. QED
    BY <2>1, <2>2
<1>10. Linked' /\ Chronological'
  BY <1>2, <1>6 DEF IndInv, Linked, Chronological
<1>11. \A f \in Events : TaskOK(f)'
  BY <1>2, <1>6 DEF IndInv, TypeOK, TaskOK, HeadOK, RetryOK
<1>12. StoredOnce'
  <2> SUFFICES ASSUME NEW f \in Events
               PROVE  LET stored == {p \in rows' : p.core.payload = f}
                      IN /\ \A p, q \in stored : p = q
                         /\ stored # {} => task[f].at \in {"done", "failed"}
                         /\ chainKey[f] \notin altered' /\ task[f].at = "done" =>
                              stored # {}
    BY <1>2 DEF StoredOnce
  <2>1. \A p \in rows' : p.core.payload = f => p \in rows
    BY <1>3, <1>4, OtherPayloadAssumption
  <2>2. chainKey[f] # k => \A p \in rows : p.core.payload = f => p \in rows'
    BY <1>2, <1>5 DEF IndInv, RowsOfEvents
  <2>3. QED
    BY <1>2, <2>1, <2>2 DEF IndInv, StoredOnce
<1>13. GivesUpOnlyWhenOvertaken'
  BY <1>2, <1>6 DEF IndInv, TypeOK, GivesUpOnlyWhenOvertaken
<1>14. QED
  BY <1>7, <1>8, <1>9, <1>10, <1>11, <1>12, <1>13 DEF IndInv

\* The clock moves, or nothing does.
LEMMA ClockKeeps ==
  ASSUME IndInv, UNCHANGED <<chainKey, rows, task, altered>>, now' \in Nat,
         now <= now'
  PROVE  IndInv'
<1>1. RowsOK'
  BY RowsStay
<1>2. TypeOK'
  BY DEF IndInv, TypeOK
<1>3. \A e \in Events : TaskOK(e)'
  <2> SUFFICES ASSUME NEW e \in Events PROVE TaskOK(e)'
    OBVIOUS
  <2>1. TaskOK(e) /\ task[e].createdAt \in Nat /\ now \in Nat
    BY DEF IndInv, TypeOK, Task
  <2>2. task[e].createdAt <= now' + MaxSkew
    BY <2>1, ClockAssumption DEF TaskOK
  <2>3. QED
    BY <2>1, <2>2 DEF TaskOK, HeadOK, RetryOK, ChainRows
<1>4. StoredOnce' /\ GivesUpOnlyWhenOvertaken'
  BY DEF IndInv, StoredOnce, GivesUpOnlyWhenOvertaken, ChainRows
<1>5. QED
  BY <1>1, <1>2, <1>3, <1>4 DEF IndInv, RowsOK

LEMMA InitIndInv == Init => IndInv
<1> SUFFICES ASSUME Init PROVE IndInv
  OBVIOUS
<1>1. NoTask \in Task
  BY DEF NoTask, Task, Steps, EmptyHead, ChainHead, GENESIS, Hashes
<1>2. \A e \in Events : task[e] = NoTask
  BY DEF Init
<1>3. NoTask.at = "idle" /\ NoTask.attempt = 1 /\ NoTask.createdAt = 0
  BY DEF NoTask
<1>4. TypeOK
  BY <1>1 DEF Init, TypeOK
<1>5. \A e \in Events : TaskOK(e)
  BY <1>2, <1>3, ClockAssumption DEF Init, TaskOK
<1>6. \A k \in Chains : ChainRows(k) = {}
  BY DEF Init, ChainRows
<1>7. RowsOfEvents /\ Linked /\ Chronological /\ StoredOnce
  BY <1>2, <1>3, <1>6
     DEF Init, RowsOfEvents, Linked, Chronological, StoredOnce
<1>8. GivesUpOnlyWhenOvertaken
  BY <1>2, <1>3 DEF GivesUpOnlyWhenOvertaken
<1>9. QED
  BY <1>4, <1>5, <1>6, <1>7, <1>8 DEF IndInv, HasLast, Dense

LEMMA NextKeepsIndInv == IndInv /\ [Next]_vars => IndInv'
<1> SUFFICES ASSUME IndInv, [Next]_vars PROVE IndInv'
  OBVIOUS
<1>1. ASSUME NEW e \in Events,
             Emit(e) \/ Appending(e) \/ Fail(e) \/ LoseReply(e)
      PROVE  IndInv'
  BY <1>1, EmitKeeps, ReadHeadKeeps, CreateKeeps, LoseRaceKeeps, FailKeeps,
     LoseReplyKeeps DEF Appending
<1>2. ASSUME NEW k \in Chains, Alter(k) PROVE IndInv'
  BY <1>2, AlterKeeps
<1>3. now \in Nat
  BY DEF IndInv, TypeOK
<1>4. CASE Tick
  BY <1>3, <1>4, ClockKeeps DEF Tick
<1>5. CASE UNCHANGED vars
  BY <1>3, <1>5, ClockKeeps DEF vars
<1>6. QED
  BY <1>1, <1>2, <1>4, <1>5 DEF Next

\* IndInv holds however the appends of audit.service.ts race, fail and lose
\* their replies, and whatever historical rows are altered meanwhile.
THEOREM Invariance == Spec => []IndInv
<1>1. Init => IndInv
  BY InitIndInv
<1>2. IndInv /\ [Next]_vars => IndInv'
  BY NextKeepsIndInv
<1>3. QED
  BY <1>1, <1>2, PTL DEF Spec

\* Events, rows and the memory of every append keep their types.
THEOREM TypeCorrect == Spec => []TypeOK
<1>1. IndInv => TypeOK
  BY DEF IndInv
<1>2. QED
  BY <1>1, Invariance, PTL

\* Racing appends never fork or tear a chain: each row links to the one
\* before it and is alone in its place.
THEOREM ChainsStayLinked == Spec => []Linked
<1>1. IndInv => Linked
  BY DEF IndInv
<1>2. QED
  BY <1>1, Invariance, PTL

\* Retries and lost replies never store an event twice, and an append that
\* reported success has stored its event.
THEOREM EventsAreStoredOnce == Spec => []StoredOnce
<1>1. IndInv => StoredOnce
  BY DEF IndInv
<1>2. QED
  BY <1>1, Invariance, PTL

\* Along a chain createdAt, which each API replica takes from its own clock,
\* goes back by no more than those clocks are apart, whatever that skew is.
THEOREM ChainsAreChronological == Spec => []Chronological
<1>1. IndInv => Chronological
  BY DEF IndInv
<1>2. QED
  BY <1>1, Invariance, PTL

\* append only gives up once MAX_APPEND_RETRIES other events have overtaken it.
THEOREM GivingUpNeedsARace == Spec => []GivesUpOnlyWhenOvertaken
<1>1. IndInv => GivesUpOnlyWhenOvertaken
  BY DEF IndInv
<1>2. QED
  BY <1>1, Invariance, PTL

-----------------------------------------------------------------------------
(* The verification of a chain.                                            *)

\* Every set of naturals with an element has a least one.
LEMMA Least ==
  ASSUME NEW S \in SUBSET Nat, S # {}
  PROVE  \E n \in S : \A m \in S : n <= m
<1>1. PICK x \in S : \A y \in S : ~ (<<y, x>> \in OpToRel(<, Nat))
  BY NatLessThanWellFounded, WFMin
<1>2. \A y \in S : ~ (y < x)
  BY <1>1 DEF OpToRel
<1>3. QED
  BY <1>2

\* That s runs through the rows R by ascending seq.
Ascends(s, m, R) ==
  /\ s \in [1 .. m -> R]
  /\ \A r \in R : \E i \in 1 .. m : s[i] = r
  /\ \A i, j \in 1 .. m : i < j => s[i].core.seq < s[j].core.seq

\* Rows in different places can be put in order: from one bound on their
\* places to the next, at most one row comes to the end.
LEMMA CanSort ==
  ASSUME NEW R, NEW b \in Nat, \A r \in R : r.core.seq \in Nat /\ r.core.seq < b,
         \A p, q \in R : p.core.seq = q.core.seq => p = q
  PROVE  \E m \in Nat : \E s : Ascends(s, m, R)
<1> DEFINE Below(n) == {r \in R : r.core.seq < n}
           Ordered(n) == \E m \in Nat : \E s : Ascends(s, m, Below(n))
           Bad == {n \in Nat : ~ Ordered(n)}
<1>1. Below(b) = R
  OBVIOUS
<1> SUFFICES ASSUME b \in Bad PROVE FALSE
  <2> HIDE DEF Below
  <2>1. QED
    BY <1>1
<1>2. PICK n \in Bad : \A k \in Bad : n <= k
  <2>1. Bad \in SUBSET Nat /\ Bad # {}
    OBVIOUS
  <2> HIDE DEF Bad
  <2>2. QED
    BY <2>1, Least
<1>3. n # 0
  <2>1. Below(0) = {}
    OBVIOUS
  <2>2. Ascends([i \in 1 .. 0 |-> 0], 0, Below(0))
    BY <2>1 DEF Ascends
  <2> HIDE DEF Below
  <2>3. Ordered(0)
    BY <2>2
  <2> HIDE DEF Ordered
  <2>4. QED
    BY <2>3
<1>4. n - 1 \in Nat /\ n - 1 \notin Bad
  <2>1. n \in Nat
    OBVIOUS
  <2> HIDE DEF Bad
  <2>2. QED
    BY <1>2, <1>3, <2>1
<1>5. PICK m \in Nat : \E s : Ascends(s, m, Below(n - 1))
  BY <1>4
<1>6. PICK s : Ascends(s, m, Below(n - 1))
  BY <1>5
<1>7. CASE \A r \in R : r.core.seq # n - 1
  <2>1. Below(n) = Below(n - 1)
    BY <1>4, <1>7
  <2>2. QED
    BY <1>6, <2>1
<1>8. CASE \E r \in R : r.core.seq = n - 1
  <2>1. PICK x \in R : x.core.seq = n - 1
    BY <1>8
  <2>2. Below(n) = Below(n - 1) \cup {x}
    BY <1>4, <2>1
  <2> DEFINE t == [i \in 1 .. m + 1 |-> IF i = m + 1 THEN x ELSE s[i]]
  <2>3. /\ t \in [1 .. m + 1 -> Below(n)]
        /\ t[m + 1] = x /\ \A i \in 1 .. m : t[i] = s[i] /\ s[i] \in Below(n - 1)
    BY <1>6, <2>2 DEF Ascends
  <2> HIDE DEF t
  <2>4. \A i \in 1 .. m + 1 : i \in 1 .. m \/ i = m + 1
    OBVIOUS
  <2>5. \A r \in Below(n) : \E i \in 1 .. m + 1 : t[i] = r
    BY <1>6, <2>2, <2>3 DEF Ascends
  <2>6. ASSUME NEW i \in 1 .. m + 1, NEW j \in 1 .. m + 1, i < j
        PROVE  t[i].core.seq < t[j].core.seq
    <3>1. i \in 1 .. m
      BY <2>6
    <3>2. CASE j \in 1 .. m
      BY <1>6, <2>3, <2>6, <3>1, <3>2 DEF Ascends
    <3>3. CASE j = m + 1
      BY <2>1, <2>3, <3>1, <3>3
    <3>4. QED
      BY <2>4, <3>2, <3>3
  <2>7. Ascends(t, m + 1, Below(n)) /\ m + 1 \in Nat
    BY <2>3, <2>5, <2>6 DEF Ascends
  <2>8. QED
    BY <2>7
<1>9. QED
  BY <1>7, <1>8

LEMMA ChainFacts ==
  ASSUME IndInv, NEW k \in Chains
  PROVE  \A r \in ChainRows(k) : r \in Row /\ r.core \in Core /\ r.core.seq \in Nat
BY DEF IndInv, TypeOK, ChainRows, Row, Core

\* The query returns the rows of a chain, all of them, by ascending seq.
LEMMA SortedFact ==
  ASSUME IndInv, NEW k \in Chains, Apart(k)
  PROVE  \E m \in Nat : Ascends(Sorted(k), m, ChainRows(k))
<1> DEFINE R == ChainRows(k)
<1>1. \A r \in R : r.core.seq \in Nat
  BY ChainFacts
<1>2. \E b \in Nat : \A r \in R : r.core.seq < b
  <2>1. CASE R = {}
    BY <2>1
  <2>2. CASE R # {}
    <3>1. PICK l \in R : \A q \in R : q.core.seq <= l.core.seq
      BY <2>2 DEF IndInv, HasLast
    <3>2. \A q \in R : q.core.seq < l.core.seq + 1
      BY <1>1, <3>1
    <3>3. QED
      BY <1>1, <3>2
  <2>3. QED
    BY <2>1, <2>2
<1>3. PICK m \in Nat : \E s : Ascends(s, m, R)
  <2>1. \A p, q \in R : p.core.seq = q.core.seq => p = q
    BY DEF Apart
  <2> HIDE DEF R
  <2>2. PICK b \in Nat : \A r \in R : r.core.seq < b
    BY <1>2
  <2>3. QED
    BY <1>1, <2>1, <2>2, CanSort
<1>4. PICK s : Ascends(s, m, R)
  BY <1>3
<1>5. /\ \A i, j \in 1 .. m : i # j => s[i] # s[j]
      /\ \A i, j \in 1 .. m : i < j => s[i].core.seq <= s[j].core.seq
      /\ s \in [1 .. m -> R]
  BY <1>1, <1>4 DEF Ascends
<1>6. IsFiniteSet(1 .. m) /\ Cardinality(1 .. m) = m
  BY FS_Interval
<1>7. Cardinality(R) = m /\ IsFiniteSet(R)
  <2>1. s \in Bijection(1 .. m, R)
    BY <1>4, <1>5 DEF Ascends, Bijection, Injection, Surjection, IsInjective
  <2>2. ExistsBijection(1 .. m, R)
    BY <2>1 DEF ExistsBijection
  <2> HIDE DEF R
  <2>3. QED
    BY <1>6, <2>2, FS_Bijection
<1> DEFINE t == Sorted(k)
           InOrder(x) == \A i, j \in DOMAIN x : i < j => x[i].core.seq <= x[j].core.seq
<1>8. t \in SetToSeqs(R) /\ InOrder(t)
  <2>1. s \in SetToSeqs(R) /\ InOrder(s)
    BY <1>5, <1>7 DEF SetToSeqs
  <2>2. t = CHOOSE x \in SetToSeqs(R) : InOrder(x)
    BY DEF Sorted
  <2> HIDE DEF t, R, InOrder
  <2>3. QED
    BY <2>1, <2>2
<1>9. /\ t \in [1 .. m -> R]
      /\ \A i, j \in 1 .. m : i # j => t[i] # t[j]
      /\ \A i, j \in 1 .. m : i < j => t[i].core.seq <= t[j].core.seq
  BY <1>7, <1>8 DEF SetToSeqs
<1> HIDE DEF t
<1>10. \A r \in R : \E i \in 1 .. m : t[i] = r
  <2>1. t \in Injection(1 .. m, R)
    BY <1>9 DEF Injection, IsInjective
  <2> HIDE DEF R
  <2>2. t \in Surjection(1 .. m, R)
    BY <1>6, <1>7, <2>1, FS_Injection
  <2>3. QED
    BY <2>2 DEF Surjection
<1>11. \A i, j \in 1 .. m : i < j => t[i].core.seq < t[j].core.seq
  BY <1>1, <1>9 DEF Apart
<1>12. Ascends(t, m, R)
  BY <1>9, <1>10, <1>11 DEF Ascends
<1>13. QED
  BY <1>12 DEF t

\* The hashes of a verified walk carry all cores up to their own.
LEMMA WalkCarries ==
  ASSUME NEW m \in Nat, NEW t \in [1 .. m -> Row], VerifyEvents(t)
  PROVE  \A i \in 1 .. m : /\ Len(t[i].hash) = i
                           /\ \A j \in 1 .. i : t[i].hash[j] = t[j].core
<1> DEFINE Good(i) == /\ Len(t[i].hash) = i
                      /\ \A j \in 1 .. i : t[i].hash[j] = t[j].core
           Bad == {i \in 1 .. m : ~ Good(i)}
<1> SUFFICES ASSUME Bad # {} PROVE FALSE
  OBVIOUS
<1>1. PICK i \in Bad : \A n \in Bad : i <= n
  <2>1. Bad \in SUBSET Nat
    OBVIOUS
  <2> HIDE DEF Bad
  <2>2. QED
    BY <2>1, Least
<1>2. i \in 1 .. m /\ ~ Good(i)
  OBVIOUS
<1>3. i = 1 \/ (i - 1 \in 1 .. m /\ Good(i - 1))
  <2>1. i = 1 \/ (i - 1 \in 1 .. m /\ i - 1 \notin Bad)
    <3> HIDE DEF Bad
    <3>1. QED
      BY <1>1, <1>2
  <2>2. QED
    BY <2>1
<1>4. t[i] \in Row /\ t[i].prevHash \in Hashes /\ t[i].core \in Core
  BY <1>2 DEF Row
<1>5. /\ t[i].prevHash = IF i = 1 THEN GENESIS ELSE t[i - 1].hash
      /\ t[i].hash = Append(t[i].prevHash, t[i].core)
  BY <1>2 DEF VerifyEvents, Hash
<1>6. CASE i = 1
  BY <1>2, <1>4, <1>5, <1>6 DEF GENESIS, Hashes
<1>7. CASE i # 1
  <2>1. /\ t[i].prevHash = t[i - 1].hash
        /\ Len(t[i].prevHash) = i - 1
        /\ \A j \in 1 .. i - 1 : t[i].prevHash[j] = t[j].core
    BY <1>3, <1>5, <1>7
  <2>2. /\ Len(t[i].hash) = i /\ t[i].hash[i] = t[i].core
        /\ \A j \in 1 .. i - 1 : t[i].hash[j] = t[i].prevHash[j]
    BY <1>2, <1>4, <1>5, <2>1 DEF Hashes
  <2>3. QED
    BY <1>2, <2>1, <2>2
<1>8. QED
  BY <1>6, <1>7

\* The places of a chain that no one altered begin at 1.
LEMMA Places ==
  ASSUME IndInv, NEW k \in Chains \ altered, NEW r \in ChainRows(k)
  PROVE  r.core.seq \in Nat /\ r.core.seq >= 1
<1>1. r.core.seq = 1 \/ \E p \in ChainRows(k) : p.core.seq + 1 = r.core.seq
  BY DEF IndInv, Linked
<1>2. QED
  BY <1>1, ChainFacts

\* A chain that no one altered: the i-th row of the walk is in place i, after
\* the row it links to.
LEMMA UnalteredVerifies ==
  ASSUME IndInv, NEW k \in Chains \ altered, Apart(k)
  PROVE  VerifyChain(k)
<1> DEFINE t == Sorted(k)
           R == ChainRows(k)
<1>1. PICK m \in Nat : Ascends(t, m, R)
  BY SortedFact
<1> HIDE DEF t
<1>2. \A r \in R : r.core.seq \in Nat /\ r.core.seq >= 1
  BY Places
<1>3. \A i \in 1 .. m : t[i].core.seq = i
  <2> DEFINE Bad == {i \in 1 .. m : t[i].core.seq # i}
  <2> SUFFICES ASSUME Bad # {} PROVE FALSE
    OBVIOUS
  <2>1. PICK i \in Bad : \A n \in Bad : i <= n
    <3>1. Bad \in SUBSET Nat
      OBVIOUS
    <3> HIDE DEF Bad
    <3>2. QED
      BY <3>1, Least
  <2>2. i \in 1 .. m /\ t[i].core.seq # i /\ t[i] \in R
    BY <1>1 DEF Ascends
  <2>3. \A j \in 1 .. m : j < i => t[j].core.seq = j
    <3>1. \A j \in 1 .. m : j < i => j \notin Bad
      <4> HIDE DEF Bad
      <4>1. QED
        BY <2>1, <2>2
    <3>2. QED
      BY <3>1
  <2>4. CASE t[i].core.seq < i
    <3>1. t[i].core.seq \in 1 .. m
      BY <1>2, <2>2, <2>4
    <3>2. t[t[i].core.seq].core.seq < t[i].core.seq
      BY <1>1, <2>2, <2>4, <3>1 DEF Ascends
    <3>3. QED
      BY <1>2, <2>2, <2>3, <2>4, <3>1, <3>2
  <2>5. CASE t[i].core.seq > i
    <3>1. i \in 1 .. t[i].core.seq
      BY <1>2, <2>2, <2>5
    <3>2. PICK p \in R : p.core.seq = i
      BY <2>2, <3>1 DEF IndInv, Dense
    <3>3. PICK j \in 1 .. m : t[j] = p
      BY <1>1 DEF Ascends
    <3>4. ~ (j < i) /\ j # i
      BY <2>2, <2>3, <3>2, <3>3
    <3>5. t[i].core.seq < t[j].core.seq
      BY <1>1, <2>2, <3>4 DEF Ascends
    <3>6. QED
      BY <1>2, <2>2, <2>5, <3>2, <3>3, <3>5
  <2>6. QED
    BY <1>2, <2>2, <2>4, <2>5
<1>4. ASSUME NEW i \in 1 .. m
      PROVE  /\ t[i].prevHash = IF i = 1 THEN GENESIS ELSE t[i - 1].hash
             /\ t[i].hash = Hash(t[i].prevHash, t[i].core)
  <2>1. t[i] \in R /\ t[i].core.seq = i
    BY <1>1, <1>3 DEF Ascends
  <2>2. /\ t[i].hash = Hash(t[i].prevHash, t[i].core)
        /\ \/ i = 1 /\ t[i].prevHash = GENESIS
           \/ \E p \in R : p.core.seq + 1 = i /\ p.hash = t[i].prevHash
    BY <2>1 DEF IndInv, Linked
  <2>3. CASE i = 1
    BY <1>2, <2>2, <2>3
  <2>4. CASE i # 1
    <3>1. PICK p \in R : p.core.seq + 1 = i /\ p.hash = t[i].prevHash
      BY <2>2, <2>4
    <3>2. p.core.seq = i - 1
      BY <1>2, <3>1
    <3>3. i - 1 \in 1 .. m
      BY <2>4
    <3>4. t[i - 1] \in R /\ t[i - 1].core.seq = i - 1
      BY <1>1, <1>3, <3>3 DEF Ascends
    <3>5. p = t[i - 1]
      BY <3>2, <3>4 DEF Apart
    <3>6. QED
      BY <2>2, <2>4, <3>1, <3>5
  <2>5. QED
    BY <2>3, <2>4
<1>5. DOMAIN t = 1 .. m
  BY <1>1 DEF Ascends
<1>6. VerifyEvents(t)
  BY <1>3, <1>4, <1>5 DEF VerifyEvents
<1>7. QED
  BY <1>6 DEF VerifyChain, t

\* A verified walk would find the core that the last hash still carries.
LEMMA BrokenFails ==
  ASSUME IndInv, NEW k \in Chains, Apart(k), Broken(k)
  PROVE  ~ VerifyChain(k)
<1> DEFINE t == Sorted(k)
<1> SUFFICES ASSUME VerifyEvents(t) PROVE FALSE
  BY DEF VerifyChain
<1>1. PICK m \in Nat : Ascends(t, m, ChainRows(k))
  BY SortedFact
<1> HIDE DEF t
<1>2. PICK q \in ChainRows(k) : \E j \in 1 .. Len(q.hash) : Lost(k, q.hash[j])
  BY DEF Broken, Newest
<1>3. PICK j \in 1 .. Len(q.hash) : Lost(k, q.hash[j])
  BY <1>2
<1>4. PICK n \in 1 .. m : t[n] = q
  BY <1>1 DEF Ascends
<1>5. t \in [1 .. m -> Row] /\ \A i \in 1 .. m : t[i] \in ChainRows(k)
  BY <1>1, ChainFacts DEF Ascends
<1>6. Len(q.hash) = n /\ \A i \in 1 .. n : q.hash[i] = t[i].core
  BY <1>4, <1>5, WalkCarries
<1>7. j \in 1 .. m /\ q.hash[j] = t[j].core
  BY <1>6
<1>8. QED
  BY <1>3, <1>5, <1>7 DEF Lost

LEMMA ExactFact == IndInv /\ ExactInv => VerifyIsExact
BY UnalteredVerifies, BrokenFails DEF ExactInv, VerifyIsExact

\* A step that writes no row, ends no append twice and reads the head anew.
LEMMA ReadersKeepExact ==
  ASSUME IndInv, ExactInv, UNCHANGED <<chainKey, rows, altered>>,
         \A f \in Events : task[f].at \in {"done", "failed"} => task'[f] = task[f],
         \A f \in Events : task'[f].at = "create" =>
           task'[f] = task[f] \/ AtTip(f)'
  PROVE  ExactInv'
<1>1. \A k \in Chains : ChainRows(k)' = ChainRows(k) /\ Newest(k)' = Newest(k)
  BY DEF ChainRows, Newest
<1>2. ASSUME NEW k \in Chains
      PROVE  Apart(k)' /\ (k \notin altered' => Carried(k)') /\ (k \in altered' => Broken(k)')
  <2>1. Apart(k) => Apart(k)'
    BY <1>1 DEF Apart
  <2>2. Carried(k) => Carried(k)'
    BY <1>1 DEF Carried
  <2>3. \A core : Lost(k, core) => Lost(k, core)'
    BY <1>1 DEF Lost
  <2>4. Broken(k) => Broken(k)'
    BY <1>1, <2>3 DEF Broken
  <2>5. QED
    BY <2>1, <2>2, <2>4 DEF ExactInv
<1>3. ASSUME NEW f \in Events, task'[f].at = "create" PROVE AtTip(f)'
  <2>1. chainKey[f] \in Chains
    BY DEF IndInv, TypeOK
  <2>2. CASE task'[f] = task[f]
    BY <1>1, <1>3, <2>1, <2>2 DEF ExactInv, AtTip
  <2>3. QED
    BY <1>3, <2>2
<1>4. QED
  BY <1>2, <1>3 DEF ExactInv

LEMMA ReadHeadKeepsExact ==
  ASSUME IndInv, ExactInv, NEW e \in Events, ReadHead(e)
  PROVE  ExactInv'
<1> DEFINE k == chainKey[e]
           head == HeadOf(k)
<1>1. /\ k \in Chains /\ task[e] \in Task /\ task[e].at = "read"
      /\ UNCHANGED <<chainKey, rows, now, altered>>
      /\ task' \in [Events -> Task]
  BY ReadHeadKeeps DEF IndInv, TypeOK, ReadHead
<1>2. /\ task'[e].head = head
      /\ \A f \in Events \ {e} : task'[f] = task[f]
  BY <1>1 DEF ReadHead, IndInv, TypeOK, Task
<1>3. ChainRows(k) = {} => head = EmptyHead
  BY DEF HeadOf
<1>4. ASSUME ChainRows(k) # {}
      PROVE  \E q \in Newest(k) : head.seq = q.core.seq /\ head.hash = q.hash
  <2> DEFINE last == CHOOSE r \in ChainRows(k) :
                       \A q \in ChainRows(k) : q.core.seq <= r.core.seq
  <2>1. \E r \in ChainRows(k) : \A q \in ChainRows(k) : q.core.seq <= r.core.seq
    BY <1>1, <1>4 DEF IndInv, HasLast
  <2>2. last \in Newest(k)
    BY <2>1 DEF Newest
  <2> HIDE DEF last
  <2>3. head = [seq |-> last.core.seq, hash |-> last.hash]
    BY <1>4 DEF HeadOf, last
  <2>4. QED
    BY <2>2, <2>3
<1>5. ChainRows(k)' = ChainRows(k) /\ Newest(k)' = Newest(k) /\ chainKey'[e] = k
  BY <1>1 DEF ChainRows, Newest
<1> HIDE DEF head
<1>6. AtTip(e)'
  BY <1>2, <1>3, <1>4, <1>5 DEF AtTip
<1>7. QED
  BY <1>1, <1>2, <1>6, ReadersKeepExact

\* An insert extends the chain of its event, or fills a place that was
\* emptied; either way it cannot restore what was lost.
LEMMA InsertKeepsExact ==
  ASSUME IndInv, ExactInv, NEW e \in Events, Insert(e),
         NEW how \in {"done", "failed"}, End(e, how)
  PROVE  ExactInv'
<1> DEFINE k == chainKey[e]
           x == NewRow(e)
           head == task[e].head
<1>1. /\ rows' = rows \cup {x} /\ UNCHANGED <<chainKey, now, altered>>
      /\ task[e].at = "create" /\ ~Conflict(e) /\ k \in Chains
      /\ head \in ChainHead /\ AtTip(e)
  BY DEF Insert, IndInv, TypeOK, Task, ExactInv
<1>2. /\ x \in Row /\ x.core \in Core /\ x.core.chainKey = k /\ x.core.payload = e
      /\ x.core.seq = head.seq + 1 /\ x.hash = Append(head.hash, x.core)
  BY NewRowFact DEF Row, Hash
<1> HIDE DEF x
<1>3. head.seq \in Nat /\ head.hash \in Seq(Core) /\ x.core.seq \in Nat
  BY <1>1, <1>2 DEF ChainHead, Hashes
<1>4. /\ task'[e].at = how
      /\ \A f \in Events \ {e} : task'[f] = task[f]
  BY EndFact
<1>5. /\ ChainRows(k)' = ChainRows(k) \cup {x}
      /\ \A c \in Chains \ {k} : ChainRows(c)' = ChainRows(c) /\ Newest(c)' = Newest(c)
  BY <1>1, <1>2 DEF ChainRows, Newest
<1>6. \A r \in ChainRows(k) :
        r \in Row /\ r.core \in Core /\ r.core.seq \in Nat /\ r.core.seq # x.core.seq
  BY <1>1, <1>2, ConflictFact, ChainFacts DEF ChainRows
<1>7. \A q \in Newest(k) :
        /\ x.core.seq < q.core.seq => q \in Newest(k)'
        /\ x.core.seq > q.core.seq => x \in Newest(k)'
  BY <1>3, <1>5, <1>6 DEF Newest
<1>8. \A c \in Chains : \A core : Lost(c, core) /\ core # x.core => Lost(c, core)'
  BY <1>1, <1>4, <1>5 DEF Lost
<1>9. \A c \in Chains : \A core : Lost(c, core) => core # x.core
  BY <1>1, <1>2 DEF Lost
<1>10. ASSUME NEW c \in Chains \ {k}
       PROVE  Apart(c)' /\ (c \notin altered' => Carried(c)') /\ (c \in altered' => Broken(c)')
  <2>1. Apart(c)' /\ (c \notin altered' => Carried(c)')
    BY <1>1, <1>5 DEF ExactInv, Apart, Carried
  <2>2. c \in altered' => Broken(c)'
    BY <1>1, <1>5, <1>8, <1>9 DEF ExactInv, Broken
  <2>3. QED
    BY <2>1, <2>2
<1>11. Apart(k)'
  BY <1>1, <1>5, <1>6 DEF ExactInv, Apart
<1>12. ASSUME k \notin altered PROVE Carried(k)'
  <2>1. \A q \in ChainRows(k) : q.core.seq <= head.seq /\ q.core.seq >= 1
    BY <1>1, <1>12, InsertFact, Places
  <2>2. /\ Len(head.hash) = head.seq
        /\ \A p \in ChainRows(k) : head.hash[p.core.seq] = p.core
    <3>1. CASE ChainRows(k) = {} /\ head = EmptyHead
      BY <3>1 DEF EmptyHead, GENESIS
    <3>2. CASE \E q \in Newest(k) :
                 \/ head.seq < q.core.seq
                 \/ head.seq = q.core.seq /\ head.hash = q.hash
      <4>1. PICK q \in ChainRows(k) : head.seq = q.core.seq /\ head.hash = q.hash
        BY <1>3, <1>6, <2>1, <3>2 DEF Newest
      <4>2. QED
        BY <1>1, <1>12, <2>1, <4>1 DEF ExactInv, Carried
    <3>3. QED
      BY <1>1, <3>1, <3>2 DEF AtTip
  <2>3. /\ Len(x.hash) = x.core.seq /\ x.hash[x.core.seq] = x.core
        /\ \A i \in 1 .. head.seq : x.hash[i] = head.hash[i]
    BY <1>2, <1>3, <2>2
  <2>4. \A p \in ChainRows(k) : x.hash[p.core.seq] = p.core
    BY <1>3, <1>6, <2>1, <2>2, <2>3
  <2>5. \A p \in ChainRows(k) : ~ (x.core.seq <= p.core.seq)
    BY <1>2, <1>3, <1>6, <2>1
  <2>6. QED
    BY <1>1, <1>5, <1>12, <2>3, <2>4, <2>5 DEF ExactInv, Carried
<1>13. ASSUME k \in altered PROVE Broken(k)'
  <2>1. PICK q \in Newest(k) : \E j \in 1 .. Len(q.hash) :
          q.hash[j].seq < q.core.seq /\ Lost(k, q.hash[j])
    BY <1>1, <1>13 DEF ExactInv, Broken
  <2>2. PICK j \in 1 .. Len(q.hash) : q.hash[j].seq < q.core.seq /\ Lost(k, q.hash[j])
    BY <2>1
  <2>3. q \in ChainRows(k) /\ q.hash \in Seq(Core) /\ q.core.seq \in Nat
    BY <1>6 DEF Newest, Row, Hashes
  <2>4. Lost(k, q.hash[j])'
    BY <1>1, <1>8, <1>9, <2>2
  <2>5. CASE x.core.seq < q.core.seq
    BY <1>7, <2>2, <2>4, <2>5 DEF Broken
  <2>6. CASE x.core.seq > q.core.seq
    <3>1. PICK l \in Newest(k) : \/ head.seq < l.core.seq
                                 \/ head.seq = l.core.seq /\ head.hash = l.hash
      BY <1>1, <2>3 DEF AtTip
    <3>2. l \in ChainRows(k) /\ l.core.seq <= q.core.seq /\ q.core.seq <= l.core.seq
      BY <2>3, <3>1 DEF Newest
    <3>3. l = q
      BY <1>1, <1>6, <2>3, <3>2 DEF ExactInv, Apart
    <3>4. head.hash = q.hash
      BY <1>2, <1>3, <2>3, <2>6, <3>1, <3>3
    <3>5. j \in 1 .. Len(x.hash) /\ x.hash[j] = q.hash[j]
      <4>1. /\ Len(x.hash) = Len(head.hash) + 1
            /\ \A i \in 1 .. Len(head.hash) : x.hash[i] = head.hash[i]
        BY <1>2, <1>3
      <4>2. j \in 1 .. Len(head.hash) /\ Len(head.hash) \in Nat
        BY <1>3, <2>2, <3>4
      <4>3. QED
        BY <3>4, <4>1, <4>2
    <3>6. q.hash[j].seq \in Nat
      <4>1. q.hash[j] \in Core
        BY <2>3
      <4>2. QED
        BY <4>1 DEF Core
    <3>7. q.hash[j].seq < x.core.seq
      BY <1>3, <2>2, <2>3, <2>6, <3>6
    <3>8. QED
      BY <1>7, <2>4, <2>6, <3>5, <3>7 DEF Broken
  <2>7. QED
    BY <1>3, <1>6, <2>3, <2>5, <2>6
<1>14. ASSUME NEW f \in Events, task'[f].at = "create" PROVE AtTip(f)'
  <2>1. f # e /\ task'[f] = task[f] /\ AtTip(f) /\ task[f].head \in ChainHead
    BY <1>4, <1>14 DEF ExactInv, IndInv, TypeOK, Task
  <2>2. CASE chainKey[f] # k
    <3>1. chainKey[f] \in Chains \ {k}
      BY <2>2 DEF IndInv, TypeOK
    <3>2. QED
      BY <1>1, <1>5, <2>1, <3>1 DEF AtTip
  <2>3. CASE chainKey[f] = k /\ ChainRows(k) = {} /\ task[f].head = EmptyHead
    <3>1. x \in Newest(k)'
      BY <1>3, <1>5, <2>3 DEF Newest
    <3>2. task'[f].head.seq < x.core.seq
      BY <1>2, <1>3, <2>1, <2>3 DEF EmptyHead
    <3>3. QED
      BY <1>1, <2>3, <3>1, <3>2 DEF AtTip
  <2>4. CASE chainKey[f] = k /\ \E q \in Newest(k) :
               \/ task[f].head.seq < q.core.seq
               \/ task[f].head.seq = q.core.seq /\ task[f].head.hash = q.hash
    <3>1. PICK q \in Newest(k) :
               \/ task[f].head.seq < q.core.seq
               \/ task[f].head.seq = q.core.seq /\ task[f].head.hash = q.hash
      BY <2>4
    <3>2. q \in ChainRows(k) /\ q.core.seq \in Nat /\ task[f].head.seq \in Nat
      BY <1>6, <2>1 DEF Newest, ChainHead
    <3>3. CASE x.core.seq < q.core.seq
      BY <1>1, <1>7, <2>1, <2>4, <3>1, <3>3 DEF AtTip
    <3>4. CASE x.core.seq > q.core.seq
      <4>1. task'[f].head.seq < x.core.seq
        BY <1>3, <2>1, <3>1, <3>2, <3>4
      <4>2. QED
        BY <1>1, <1>7, <2>4, <3>4, <4>1 DEF AtTip
    <3>5. QED
      BY <1>3, <1>6, <3>2, <3>3, <3>4
  <2>5. QED
    BY <2>1, <2>2, <2>3, <2>4 DEF AtTip
<1>15. QED
  BY <1>1, <1>10, <1>11, <1>12, <1>13, <1>14 DEF ExactInv

\* An alteration spares the last row, whose hash has carried the core of the
\* altered row since it was stored.
LEMMA AlterKeepsExact ==
  ASSUME IndInv, ExactInv, NEW k \in Chains, Alter(k)
  PROVE  ExactInv'
<1>1. PICK r \in ChainRows(k) :
        /\ \E q \in ChainRows(k) : r.core.seq < q.core.seq
        /\ r.core.payload # OtherPayload
        /\ \/ rows' = rows \ {r}
           \/ \E x \in Edited(r) : rows' = (rows \ {r}) \cup {x}
  BY DEF Alter
<1>2. /\ altered' = altered \cup {k} /\ UNCHANGED <<chainKey, task, now>>
      /\ r \in rows /\ r.core.chainKey = k
  BY DEF Alter, ChainRows
<1>3. \A p \in ChainRows(k)' :
        \/ p \in ChainRows(k) /\ p # r
        \/ p.core.seq = r.core.seq /\ p.core.payload = OtherPayload
  BY <1>1, <1>2, EditedFact DEF ChainRows
<1>4. \A p \in ChainRows(k) : p # r => p \in ChainRows(k)'
  BY <1>1 DEF ChainRows
<1>5. \A c \in Chains \ {k} : ChainRows(c)' = ChainRows(c) /\ Newest(c)' = Newest(c)
  <2>1. \A c \in Chains \ {k} : ChainRows(c)' = ChainRows(c)
    BY <1>1, <1>2, EditedFact DEF ChainRows
  <2>2. QED
    BY <2>1 DEF Newest
<1>6. \A p \in ChainRows(k) : p \in Row /\ p.core \in Core /\ p.core.seq \in Nat
  BY ChainFacts
<1>7. \A q \in Newest(k) : q \in Newest(k)' /\ r.core.seq < q.core.seq
  <2> SUFFICES ASSUME NEW q \in Newest(k)
               PROVE  q \in Newest(k)' /\ r.core.seq < q.core.seq
    OBVIOUS
  <2>1. r.core.seq < q.core.seq /\ q \in ChainRows(k)
    BY <1>1, <1>6 DEF Newest
  <2>2. q \in ChainRows(k)'
    BY <1>1, <1>4, <1>6, <2>1
  <2>3. \A p \in ChainRows(k) : p.core.seq <= q.core.seq
    BY DEF Newest
  <2>4. r \in ChainRows(k) /\ r.core.seq <= q.core.seq
    BY <2>3
  <2>5. \A p \in ChainRows(k)' : p.core.seq <= q.core.seq
    BY <1>3, <2>3, <2>4
  <2>6. QED
    BY <2>1, <2>2, <2>5 DEF Newest
<1>8. \A c \in Chains : \A core : Lost(c, core) => Lost(c, core)'
  <2> SUFFICES ASSUME NEW c \in Chains, NEW core, Lost(c, core) PROVE Lost(c, core)'
    OBVIOUS
  <2>1. \A p \in ChainRows(c)' : p.core # core
    BY <1>3, <1>5, OtherPayloadAssumption DEF Lost
  <2>2. QED
    BY <1>2, <2>1 DEF Lost
<1>9. ASSUME NEW c \in Chains \ {k}
      PROVE  Apart(c)' /\ (c \notin altered' => Carried(c)') /\ (c \in altered' => Broken(c)')
  <2>1. Apart(c)' /\ (c \notin altered' => Carried(c)')
    BY <1>2, <1>5 DEF ExactInv, Apart, Carried
  <2>2. c \in altered' => Broken(c)'
    BY <1>2, <1>5, <1>8 DEF ExactInv, Broken
  <2>3. QED
    BY <2>1, <2>2
<1>10. Apart(k)'
  <2>1. \A p \in ChainRows(k)' : p.core.seq = r.core.seq => p \notin ChainRows(k) \/ p = r
    BY DEF ExactInv, Apart
  <2> SUFFICES ASSUME NEW p \in ChainRows(k)', NEW q \in ChainRows(k)',
                      p.core.seq = q.core.seq
               PROVE  p = q
    BY DEF Apart
  <2>2. CASE p \in rows /\ q \in rows
    BY <1>2, <2>2 DEF ExactInv, Apart, ChainRows
  <2>3. QED
    BY <1>1, <1>2, <1>3, <2>1, <2>2, EditedFact DEF ExactInv, Apart, ChainRows
<1>11. Broken(k)'
  <2>1. CASE k \in altered
    BY <1>7, <1>8, <2>1 DEF ExactInv, Broken
  <2>2. CASE k \notin altered
    <3>1. PICK q \in Newest(k) : TRUE
      BY <1>1 DEF IndInv, HasLast, Newest
    <3>2. q \in ChainRows(k) /\ r.core.seq < q.core.seq
      BY <1>7 DEF Newest
    <3>3. q.hash[r.core.seq] = r.core /\ Len(q.hash) = q.core.seq
      BY <1>6, <2>2, <3>2 DEF ExactInv, Carried
    <3>4. r.core.seq \in 1 .. Len(q.hash)
      BY <1>6, <2>2, <3>2, <3>3, Places
    <3>5. Lost(k, r.core)'
      <4>1. r.core.payload \in Events
        BY <1>1, <1>6 DEF Core
      <4>2. task[r.core.payload].at \in {"done", "failed"}
        BY <1>2, <4>1 DEF IndInv, StoredOnce
      <4>3. \A p \in ChainRows(k)' : p.core # r.core
        BY <1>1, <1>3 DEF ExactInv, Apart
      <4>4. QED
        BY <1>2, <4>1, <4>2, <4>3 DEF Lost
    <3>6. QED
      BY <1>7, <3>2, <3>3, <3>4, <3>5 DEF Broken
  <2>3. QED
    BY <2>1, <2>2
<1>12. ASSUME NEW f \in Events, task'[f].at = "create" PROVE AtTip(f)'
  <2>1. AtTip(f) /\ chainKey[f] \in Chains
    BY <1>2, <1>12 DEF ExactInv, IndInv, TypeOK
  <2>2. CASE chainKey[f] # k
    BY <1>2, <1>5, <2>1, <2>2 DEF AtTip
  <2>3. CASE chainKey[f] = k
    BY <1>1, <1>2, <1>7, <2>1, <2>3 DEF AtTip
  <2>4. QED
    BY <2>2, <2>3
<1>13. QED
  BY <1>2, <1>9, <1>10, <1>11, <1>12 DEF ExactInv

LEMMA InitExact == Init => ExactInv
<1> SUFFICES ASSUME Init PROVE ExactInv
  OBVIOUS
<1>1. /\ \A k \in Chains : ChainRows(k) = {} /\ k \notin altered
      /\ \A e \in Events : task[e].at = "idle"
  BY DEF Init, ChainRows, NoTask
<1>2. QED
  BY <1>1 DEF ExactInv, Apart, Carried

LEMMA NextKeepsExact == IndInv /\ ExactInv /\ [Next]_vars => ExactInv'
<1> SUFFICES ASSUME IndInv, ExactInv, [Next]_vars PROVE ExactInv'
  OBVIOUS
<1>1. \A e \in Events : task[e] \in Task
  BY DEF IndInv, TypeOK
<1>2. ASSUME NEW e \in Events, Emit(e) \/ LoseRace(e) \/ Fail(e) PROVE ExactInv'
  <2>1. UNCHANGED <<chainKey, rows, altered>>
    BY <1>2 DEF Emit, LoseRace, Fail
  <2>2. /\ task[e].at \notin {"done", "failed"} /\ task'[e].at # "create"
        /\ \A f \in Events \ {e} : task'[f] = task[f]
    <3>1. CASE Emit(e)
      BY <1>1, <3>1 DEF Emit, IndInv, TypeOK, Task
    <3>2. CASE LoseRace(e)
      BY <3>2, EndFact, RetryFact DEF LoseRace, IndInv, TypeOK
    <3>3. CASE Fail(e)
      BY <3>3, EndFact DEF Fail
    <3>4. QED
      BY <1>2, <3>1, <3>2, <3>3
  <2>3. QED
    BY <2>1, <2>2, ReadersKeepExact
<1>3. ASSUME NEW e \in Events, Create(e) \/ LoseReply(e) PROVE ExactInv'
  BY <1>3, InsertKeepsExact DEF Create, LoseReply
<1>4. CASE Tick \/ UNCHANGED vars
  <2>1. UNCHANGED <<chainKey, rows, task, altered>>
    BY <1>4 DEF Tick, vars
  <2>2. QED
    BY <2>1, ReadersKeepExact
<1>5. QED
  BY <1>2, <1>3, <1>4, ReadHeadKeepsExact, AlterKeepsExact DEF Next, Appending

\* verifyChain fails exactly on the chains that were altered, for any events,
\* races, failures and alterations.
THEOREM VerificationIsExact == Spec => []VerifyIsExact
<1>1. Init => IndInv /\ ExactInv
  BY InitIndInv, InitExact
<1>2. (IndInv /\ ExactInv) /\ [Next]_vars => (IndInv /\ ExactInv)'
  BY NextKeepsIndInv, NextKeepsExact
<1>3. IndInv /\ ExactInv => VerifyIsExact
  BY ExactFact
<1>4. QED
  BY <1>1, <1>2, <1>3, PTL DEF Spec
=============================================================================
