------------------------- MODULE SessionTokens_proofs -------------------------
(***************************************************************************)
(* Proofs that a replayed token ends its session, that a spent token is    *)
(* good for nothing, that a live session has one line of tokens but for    *)
(* refreshes that overlapped, and that a change of the password ends the   *)
(* sessions it finds: for any sessions, tokens, passwords and workers,     *)
(* whatever overlaps.                                                      *)
(*                                                                         *)
(* Most steps write no row.  For those it is enough that the request fits  *)
(* the rows and the other requests once it has moved (QuietKeeps).         *)
(*                                                                         *)
(* At the end, the same for the other component about one user's account:  *)
(* an APPROVED identity verification is clean (IdentityVerification).      *)
(***************************************************************************)
EXTENDS SessionTokens, IdentityVerification, TLAPS

\* All that requests read, except who holds which token.
rows == <<userVars, session, loginPassword, late, tokenSession, revoked, replacedBy,
          parent, forked>>

\* That worker w may go on with r beside the others, on the rows as they are.
Fits(w, r) ==
  /\ r.at # "issue"
  /\ r.spent => r.at = "session" /\ ~Live(r.s)
  /\ Alone(r) =>
       /\ r.t \notin forked /\ r.t \in Line(r.s)
       /\ \A v \in Workers \ {w} : Alone(req[v]) => req[v].t # r.t
  /\ r.at = "sweepAll" =>
       \A s \in Sessions \ {r.s} : session[s] = "live" => s \in r.locks \cup late

Basics == TypeOK /\ Remembers /\ Rooted

\* The part of IndInv that says what overlapping requests do not break.
Promises ==
  /\ SpentStops
  /\ AloneApart
  /\ OneLine
  /\ FirstToken
  /\ OthersLocked
  /\ LiveCurrent

LEMMA IdleOK ==
  /\ Idle \in Request /\ Idle.at = "idle" /\ ~Idle.spent
  /\ Knows(Idle)
  /\ \A w \in Workers : Fits(w, Idle)
BY DEF Idle, Request, Steps, Knows, Fits, InUse, Alone

LEMMA GotoMoves ==
  ASSUME TypeOK, NEW w \in Workers, NEW r \in Request, Goto(w, r)
  PROVE  /\ req' \in [Workers -> Request]
         /\ req'[w] = r
         /\ \A v \in Workers \ {w} : req'[v] = req[v]
BY DEF TypeOK, Goto

\* A step that writes no row.
LEMMA QuietBasics ==
  ASSUME Basics, NEW w \in Workers, NEW r \in Request, Goto(w, r), Knows(r),
         UNCHANGED <<rows, expired>>,
         held' \in SUBSET Tokens, \A t \in held' : Minted(t),
         replayed' \in SUBSET Sessions
  PROVE  Basics'
<1>1. /\ req' \in [Workers -> Request]
      /\ \A v \in Workers : Knows(req'[v])
  BY GotoMoves DEF Basics, Remembers
<1>2. TypeOK'
  BY <1>1 DEF Basics, TypeOK, rows, userVars
<1>3. Remembers'
  BY <1>1 DEF Remembers, Knows, InUse, Minted, rows
<1>4. Rooted'
  BY DEF Basics, Rooted, Minted, rows
<1>5. QED
  BY <1>2, <1>3, <1>4 DEF Basics

\* The line of no session becomes longer.
LEMMA QuietKeeps ==
  ASSUME Basics, Promises, NEW w \in Workers, NEW r \in Request, Goto(w, r),
         Knows(r), Fits(w, r), UNCHANGED <<rows, expired>>
  PROVE  Promises'
<1>1. req'[w] = r /\ \A v \in Workers \ {w} : req'[v] = req[v]
  BY GotoMoves DEF Basics
<1>2. UNCHANGED <<password, changer, session, loginPassword, late, tokenSession,
                  revoked, replacedBy, parent, forked, expired>>
  BY DEF rows, userVars
<1>3. SpentStops'
  BY <1>1, <1>2 DEF Promises, SpentStops, Fits, Live
<1>4. AloneApart'
  BY <1>1, <1>2 DEF Promises, AloneApart, Fits, Alone, InUse
<1>5. OneLine'
  <2>1. Alone(r) => tokenSession[r.t] = r.s
    BY DEF Knows, Alone
  <2>2. \A s \in Sessions : Line(s)' \subseteq Line(s)
    BY <1>1, <1>2, <2>1 DEF Line, TokensOf, Fits, Alone, InUse
  <2>3. QED
    BY <1>2, <2>2 DEF Promises, OneLine
<1>6. FirstToken'
  BY <1>1, <1>2 DEF Promises, FirstToken, Fits, TokensOf
<1>7. OthersLocked'
  BY <1>1, <1>2 DEF Promises, OthersLocked, Fits
<1>8. LiveCurrent'
  BY <1>2 DEF Promises, LiveCurrent
<1>9. QED
  BY <1>3, <1>4, <1>5, <1>6, <1>7, <1>8 DEF Promises

-----------------------------------------------------------------------------
(* The steps that write rows.                                              *)

LEMMA CreateSessionBasics ==
  ASSUME Basics, NEW w \in Workers, CreateSession(w)
  PROVE  Basics'
<1>1. PICK s \in Sessions :
        /\ session[s] = "none"
        /\ session' = [session EXCEPT ![s] = "live"]
        /\ loginPassword' = [loginPassword EXCEPT ![s] = req[w].pw]
        /\ late' = IF req[w].pw # password \/ Changing THEN late \cup {s} ELSE late
        /\ Goto(w, [Idle EXCEPT !.at = "issue", !.s = s])
  BY DEF CreateSession
<1> DEFINE r == [Idle EXCEPT !.at = "issue", !.s = s]
<1>2. req[w].pw \in Passwords
  BY DEF CreateSession, Basics, Remembers, Knows
<1>3. r \in Request /\ r.at = "issue" /\ r.s = s
  BY DEF Idle, Request, Steps
<1>4. /\ req' \in [Workers -> Request] /\ req'[w] = r
      /\ \A v \in Workers \ {w} : req'[v] = req[v]
  BY <1>1, <1>3, GotoMoves DEF Basics
<1>5. UNCHANGED <<password, changer, expired, tokenVars, replayed>>
  BY DEF CreateSession, userVars
<1>6. TypeOK'
  BY <1>1, <1>2, <1>4, <1>5 DEF Basics, TypeOK, tokenVars
<1>7. \A x \in Sessions : session[x] # "none" \/ x = s => session'[x] # "none"
  BY <1>1 DEF Basics, TypeOK
<1>8. Remembers'
  <2>1. ASSUME NEW v \in Workers \ {w} PROVE Knows(req[v])'
    BY <1>4, <1>5, <1>7 DEF Basics, Remembers, Knows, InUse, Minted, tokenVars
  <2>2. Knows(req[w])'
    BY <1>3, <1>4, <1>7 DEF Knows, InUse
  <2>3. QED
    BY <2>1, <2>2 DEF Remembers
<1>9. Rooted'
  BY <1>5, <1>7 DEF Basics, TypeOK, Rooted, Minted, tokenVars
<1>10. QED
  BY <1>6, <1>8, <1>9 DEF Basics

LEMMA IssueTokenBasics ==
  ASSUME Basics, NEW w \in Workers, IssueToken(w)
  PROVE  Basics'
<1>1. PICK t \in Tokens :
        /\ ~Minted(t)
        /\ tokenSession' = [tokenSession EXCEPT ![t] = req[w].s]
        /\ Goto(w, [Idle EXCEPT !.at = "reply", !.t = t])
  BY DEF IssueToken
<1> DEFINE r == [Idle EXCEPT !.at = "reply", !.t = t]
<1>2. req[w].s \in Sessions /\ session[req[w].s] # "none"
  BY DEF IssueToken, Basics, Remembers, Knows
<1>3. r \in Request /\ r.at = "reply" /\ r.t = t
  BY DEF Idle, Request, Steps
<1>4. /\ req' \in [Workers -> Request] /\ req'[w] = r
      /\ \A v \in Workers \ {w} : req'[v] = req[v]
  BY <1>1, <1>3, GotoMoves DEF Basics
<1>5. UNCHANGED <<password, changer, session, expired, loginPassword, late, revoked,
                  replacedBy, held, parent, forked, replayed>>
  BY DEF IssueToken, userVars, sessionVars
<1>6. TypeOK'
  BY <1>1, <1>2, <1>4, <1>5 DEF Basics, TypeOK
<1>7. /\ \A u \in Tokens : Minted(u) => tokenSession'[u] = tokenSession[u]
      /\ tokenSession'[t] = req[w].s /\ req[w].s # None
  BY <1>1, <1>2, NoneAssumption DEF Basics, TypeOK, Minted
<1>8. \A u \in Tokens : Minted(u) => Minted(u)'
  BY <1>7 DEF Minted
<1>9. Remembers'
  <2>1. Minted(t)'
    BY <1>7 DEF Minted
  <2>2. ASSUME NEW v \in Workers \ {w} PROVE Knows(req[v])'
    <3>1. Knows(req[v]) /\ req'[v] = req[v]
      BY <1>4 DEF Basics, Remembers
    <3>2. InUse(req[v]) => Minted(req[v].t)
      BY <3>1, NoneAssumption DEF Knows, Minted
    <3>3. QED
      BY <1>5, <1>7, <1>8, <3>1, <3>2 DEF Knows, InUse
  <2>3. Knows(req[w])'
    BY <1>3, <1>4, <2>1 DEF Knows, InUse
  <2>4. QED
    BY <2>2, <2>3 DEF Remembers
<1>10. Rooted'
  <2>1. \A u \in Tokens : u # t => tokenSession'[u] = tokenSession[u]
    BY <1>1 DEF Basics, TypeOK
  <2>2. \A u \in Tokens : Minted(u)' => session'[tokenSession'[u]] # "none"
    BY <1>2, <1>5, <1>7, <2>1 DEF Basics, Rooted, Minted
  <2>3. \A u \in held' : Minted(u)'
    BY <1>5, <1>8 DEF Basics, TypeOK, Rooted
  <2>4. QED
    BY <2>2, <2>3 DEF Rooted
<1>11. QED
  BY <1>6, <1>9, <1>10 DEF Basics

LEMMA CommitRotationBasics ==
  ASSUME Basics, NEW w \in Workers, CommitRotation(w)
  PROVE  Basics'
<1>1. PICK next \in Tokens :
        /\ ~Minted(next)
        /\ tokenSession' = [tokenSession EXCEPT ![next] = req[w].s]
        /\ parent' = [parent EXCEPT ![next] = req[w].t]
        /\ replacedBy' = [replacedBy EXCEPT ![req[w].t] = next]
        /\ forked' = IF req[w].fork THEN forked \cup {next} ELSE forked
        /\ Goto(w, [Idle EXCEPT !.at = "reply", !.t = next, !.spent = req[w].spent])
  BY DEF CommitRotation
<1> DEFINE r == [Idle EXCEPT !.at = "reply", !.t = next, !.spent = req[w].spent]
<1>2. /\ req[w].s \in Sessions /\ req[w].t \in Tokens /\ req[w] \in Request
      /\ tokenSession[req[w].t] = req[w].s
  BY DEF CommitRotation, InUse, Basics, Remembers, Knows, TypeOK
<1>3. r \in Request /\ r.at = "reply" /\ r.t = next
  BY <1>2 DEF Idle, Request, Steps
<1>4. /\ req' \in [Workers -> Request] /\ req'[w] = r
      /\ \A v \in Workers \ {w} : req'[v] = req[v]
  BY <1>1, <1>3, GotoMoves DEF Basics
<1>5. /\ UNCHANGED <<password, changer, session, expired, loginPassword, late, held,
                     replayed>>
      /\ revoked' = revoked \cup {req[w].t}
  BY DEF CommitRotation, userVars, sessionVars
<1>6. TypeOK'
  BY <1>1, <1>2, <1>4, <1>5 DEF Basics, TypeOK
<1>7. /\ \A u \in Tokens : Minted(u) => tokenSession'[u] = tokenSession[u]
      /\ tokenSession'[next] = req[w].s /\ req[w].s # None
  BY <1>1, <1>2, NoneAssumption DEF Basics, TypeOK, Minted
<1>8. \A u \in Tokens : Minted(u) => Minted(u)'
  BY <1>7 DEF Minted
<1>9. Remembers'
  <2>1. Minted(next)'
    BY <1>7 DEF Minted
  <2>2. ASSUME NEW v \in Workers \ {w} PROVE Knows(req[v])'
    <3>1. Knows(req[v]) /\ req'[v] = req[v]
      BY <1>4 DEF Basics, Remembers
    <3>2. InUse(req[v]) => Minted(req[v].t)
      BY <3>1, NoneAssumption DEF Knows, Minted
    <3>3. QED
      BY <1>5, <1>7, <1>8, <3>1, <3>2 DEF Knows, InUse
  <2>3. Knows(req[w])'
    BY <1>3, <1>4, <2>1 DEF Knows, InUse
  <2>4. QED
    BY <2>2, <2>3 DEF Remembers
<1>10. Rooted'
  <2>1. \A u \in Tokens : u # next => tokenSession'[u] = tokenSession[u]
    BY <1>1 DEF Basics, TypeOK
  <2>2. session[req[w].s] # "none"
    BY <1>2, <1>7 DEF Basics, Rooted, Minted
  <2>3. \A u \in Tokens : Minted(u)' => session'[tokenSession'[u]] # "none"
    BY <1>5, <1>7, <2>1, <2>2 DEF Basics, Rooted, Minted
  <2>4. \A u \in held' : Minted(u)'
    BY <1>5, <1>8 DEF Basics, TypeOK, Rooted
  <2>5. QED
    BY <2>3, <2>4 DEF Rooted
<1>11. QED
  BY <1>6, <1>9, <1>10 DEF Basics

\* A step that ends its request and may revoke sessions and tokens.
LEMMA RevokingBasics ==
  ASSUME Basics, NEW w \in Workers, Finish(w),
         password' \in Passwords, changer' \in Sessions \cup {None},
         revoked' \in SUBSET Tokens, late' \in SUBSET Sessions,
         session' \in [Sessions -> {"none", "live", "revoked"}],
         \A s \in Sessions : session[s] # "none" => session'[s] # "none",
         UNCHANGED <<expired, loginPassword, tokenSession, replacedBy, held,
                     parent, forked, replayed>>
  PROVE  Basics'
<1>1. /\ req' \in [Workers -> Request] /\ req'[w] = Idle
      /\ \A v \in Workers \ {w} : req'[v] = req[v]
  BY IdleOK, GotoMoves DEF Basics, Finish
<1>2. TypeOK'
  BY <1>1 DEF Basics, TypeOK
<1>3. Remembers'
  <2>1. \A v \in Workers : Knows(req'[v])
    BY <1>1, IdleOK DEF Basics, Remembers
  <2>2. QED
    BY <2>1 DEF Remembers, Knows, InUse, Minted
<1>4. Rooted'
  <2>1. \A t \in Tokens : Minted(t) => tokenSession[t] \in Sessions
    BY DEF Basics, TypeOK, Minted
  <2>2. QED
    BY <2>1 DEF Basics, Rooted, Minted
<1>5. QED
  BY <1>2, <1>3, <1>4 DEF Basics

LEMMA CommitRevocationBasics ==
  ASSUME Basics, NEW w \in Workers, CommitRevocation(w)
  PROVE  Basics'
<1>1. /\ session' = [session EXCEPT ![req[w].s] = "revoked"]
      /\ revoked' = revoked \cup TokensOf(req[w].s)
      /\ Finish(w)
      /\ UNCHANGED <<password, changer, expired, loginPassword, late, tokenSession,
                     replacedBy, held, parent, forked, replayed>>
  BY DEF CommitRevocation, userVars
<1>2. /\ session' \in [Sessions -> {"none", "live", "revoked"}]
      /\ \A s \in Sessions : session[s] # "none" => session'[s] # "none"
  BY <1>1 DEF Basics, TypeOK
<1>3. QED
  BY <1>1, <1>2, RevokingBasics DEF Basics, TypeOK, TokensOf

LEMMA CommitChangeBasics ==
  ASSUME Basics, NEW w \in Workers, CommitChange(w)
  PROVE  Basics'
<1>1. /\ password' \in Passwords
      /\ changer' = req[w].s
      /\ session' = [s \in Sessions |->
                       IF s \in req[w].locks THEN "revoked" ELSE session[s]]
      /\ revoked' = revoked \cup Unswept(Sessions \ {req[w].s})
      /\ Finish(w)
      /\ late' = late \ req[w].locks
      /\ UNCHANGED <<expired, loginPassword, tokenSession, replacedBy, held,
                     parent, forked, replayed>>
  BY DEF CommitChange
<1>2. /\ session' \in [Sessions -> {"none", "live", "revoked"}]
      /\ \A s \in Sessions : session[s] # "none" => session'[s] # "none"
  BY <1>1 DEF Basics, TypeOK
<1>3. req[w].s \in Sessions
  BY DEF CommitChange, Basics, Remembers, Knows
<1>4. QED
  BY <1>1, <1>2, <1>3, RevokingBasics DEF Basics, TypeOK, Unswept

-----------------------------------------------------------------------------
(* What they do to the promises.                                           *)

\* Whatever ended a session, it stays ended.
LEMMA EndedStays ==
  ASSUME SpentStops,
         \A v \in Workers : req'[v].spent => req'[v] = req[v],
         \A v \in Workers : \A s :
           req[v].spent /\ req[v].s = s /\ ~Live(s) => ~Live(s)'
  PROVE  SpentStops'
BY DEF SpentStops

LEMMA CreateSessionKeeps ==
  ASSUME Basics, Promises, NEW w \in Workers, CreateSession(w)
  PROVE  Promises'
<1>1. PICK s \in Sessions :
        /\ session[s] = "none"
        /\ session' = [session EXCEPT ![s] = "live"]
        /\ loginPassword' = [loginPassword EXCEPT ![s] = req[w].pw]
        /\ late' = IF req[w].pw # password \/ Changing THEN late \cup {s} ELSE late
        /\ Goto(w, [Idle EXCEPT !.at = "issue", !.s = s])
  BY DEF CreateSession
<1> DEFINE r == [Idle EXCEPT !.at = "issue", !.s = s]
<1>2. req[w].at = "verified"
  BY DEF CreateSession
<1>3. r \in Request /\ r.at = "issue" /\ r.s = s /\ ~r.spent
  BY DEF Idle, Request, Steps
<1>4. req'[w] = r /\ \A v \in Workers \ {w} : req'[v] = req[v]
  BY <1>1, <1>3, GotoMoves DEF Basics
<1>5. UNCHANGED <<password, changer, expired, tokenSession, revoked, replacedBy, parent,
                  forked>>
  BY DEF CreateSession, userVars, tokenVars
<1>6. session'[s] = "live" /\ \A x \in Sessions \ {s} : session'[x] = session[x]
  BY <1>1 DEF Basics, TypeOK
<1>7. TokensOf(s) = {}
  BY <1>1, NoneAssumption DEF Basics, Rooted, Minted, TokensOf
<1>8. \A v \in Workers \ {w} :
        InUse(req[v]) \/ req[v].at = "issue" => req[v].s \in Sessions \ {s}
  <2> SUFFICES ASSUME NEW v \in Workers \ {w}, InUse(req[v]) \/ req[v].at = "issue"
               PROVE  req[v].s \in Sessions \ {s}
    OBVIOUS
  <2>1. Knows(req[v])
    BY DEF Basics, Remembers
  <2>2. CASE InUse(req[v])
    BY <1>7, <2>1, <2>2 DEF Knows, TokensOf
  <2>3. CASE req[v].at = "issue"
    BY <1>1, <2>1, <2>3 DEF Knows
  <2>4. QED
    BY <2>2, <2>3
<1>9. SpentStops'
  <2>1. \A v \in Workers : req[v].spent => v # w /\ InUse(req[v])
    BY <1>2 DEF Promises, SpentStops, InUse
  <2>2. \A v \in Workers : \A x :
          req[v].spent /\ req[v].s = x /\ ~Live(x) => ~Live(x)'
    BY <1>5, <1>6, <1>8, <2>1 DEF Live
  <2>3. \A v \in Workers : req'[v].spent => req'[v] = req[v]
    BY <1>3, <1>4
  <2>4. QED
    BY <2>2, <2>3, EndedStays DEF Promises
<1>10. \A v \in Workers : Alone(req'[v]) => v # w /\ req'[v] = req[v]
  BY <1>3, <1>4 DEF Alone, InUse
<1>11. AloneApart'
  BY <1>5, <1>10 DEF Promises, AloneApart
<1>12. OneLine'
  <2>1. \A x \in Sessions : Line(x)' \subseteq Line(x)
    BY <1>5, <1>10 DEF Line, TokensOf
  <2>2. Line(s)' = {}
    BY <1>7, <2>1 DEF Line
  <2>3. QED
    BY <1>6, <2>1, <2>2 DEF Promises, OneLine
<1>13. FirstToken'
  <2> SUFFICES ASSUME NEW v \in Workers, req'[v].at = "issue"
               PROVE  /\ TokensOf(req[v].s)' = {}
                      /\ \A x \in Workers \ {v} :
                           req'[x].at = "issue" => req'[x].s # req'[v].s
    BY DEF FirstToken
  <2>1. CASE v = w
    <3>1. req'[w].s = s
      BY <1>3, <1>4
    <3>2. QED
      BY <1>4, <1>5, <1>7, <1>8, <2>1, <3>1 DEF TokensOf
  <2>2. CASE v # w
    <3>1. req'[v] = req[v] /\ req'[w].s = s
      BY <1>3, <1>4, <2>2
    <3>2. req[v].s # s /\ TokensOf(req[v].s) = {}
      BY <1>8, <2>2, <3>1 DEF Promises, FirstToken
    <3>3. QED
      BY <1>4, <1>5, <2>2, <3>1, <3>2 DEF Promises, FirstToken, TokensOf
  <2>3. QED
    BY <2>1, <2>2
<1>14. late \subseteq late'
  BY <1>1
<1>15. OthersLocked'
  <2> SUFFICES ASSUME NEW v \in Workers, req'[v].at = "sweepAll",
                      NEW x \in Sessions \ {req'[v].s}, session'[x] = "live"
               PROVE  x \in req'[v].locks \cup late'
    BY DEF OthersLocked
  <2>1. v # w /\ req'[v] = req[v]
    BY <1>3, <1>4
  <2>2. s \in late'
    BY <1>1, <2>1 DEF Changing
  <2>3. CASE x # s
    BY <1>6, <1>14, <2>1, <2>3 DEF Promises, OthersLocked
  <2>4. QED
    BY <2>2, <2>3
<1>16. LiveCurrent'
  <2>1. loginPassword'[s] = req[w].pw
    BY <1>1 DEF Basics, TypeOK
  <2>2. loginPassword'[s] = password \/ s \in late'
    BY <1>1, <2>1
  <2>3. \A x \in Sessions \ {s} : loginPassword'[x] = loginPassword[x]
    BY <1>1 DEF Basics, TypeOK
  <2>4. QED
    BY <1>5, <1>6, <1>14, <2>2, <2>3 DEF Promises, LiveCurrent
<1>17. QED
  BY <1>9, <1>11, <1>12, <1>13, <1>15, <1>16 DEF Promises

\* The first token of a session.
LEMMA IssueTokenKeeps ==
  ASSUME Basics, Promises, NEW w \in Workers, IssueToken(w)
  PROVE  Promises'
<1>1. PICK t \in Tokens :
        /\ ~Minted(t)
        /\ tokenSession' = [tokenSession EXCEPT ![t] = req[w].s]
        /\ Goto(w, [Idle EXCEPT !.at = "reply", !.t = t])
  BY DEF IssueToken
<1> DEFINE r == [Idle EXCEPT !.at = "reply", !.t = t]
<1>2. req[w].at = "issue" /\ req[w].s \in Sessions
  BY DEF IssueToken, Basics, Remembers, Knows
<1>3. r \in Request /\ r.at = "reply" /\ ~r.spent
  BY DEF Idle, Request, Steps
<1>4. req'[w] = r /\ \A v \in Workers \ {w} : req'[v] = req[v]
  BY <1>1, <1>3, GotoMoves DEF Basics
<1>5. UNCHANGED <<password, changer, session, expired, loginPassword, late, revoked,
                  replacedBy, parent, forked>>
  BY DEF IssueToken, userVars, sessionVars
<1>6. /\ tokenSession'[t] = req[w].s
      /\ \A u \in Tokens \ {t} : tokenSession'[u] = tokenSession[u]
  BY <1>1 DEF Basics, TypeOK
<1>7. TokensOf(req[w].s) = {}
  BY <1>2 DEF Promises, FirstToken
<1>8. SpentStops'
  BY <1>3, <1>4, <1>5, EndedStays DEF Promises, Live
<1>9. \A v \in Workers : Alone(req'[v]) => v # w /\ req'[v] = req[v]
  BY <1>3, <1>4 DEF Alone, InUse
<1>10. AloneApart'
  BY <1>5, <1>9 DEF Promises, AloneApart
<1>11. OneLine'
  <2>1. \A x \in Sessions : x = req[w].s => Line(x)' \subseteq {t}
    BY <1>6, <1>7 DEF Line, TokensOf
  <2>2. \A x \in Sessions : x # req[w].s => Line(x)' \subseteq Line(x)
    BY <1>5, <1>6, <1>9 DEF Line, TokensOf
  <2>3. QED
    BY <1>5, <2>1, <2>2 DEF Promises, OneLine
<1>12. FirstToken'
  <2> SUFFICES ASSUME NEW v \in Workers, req'[v].at = "issue"
               PROVE  /\ TokensOf(req[v].s)' = {}
                      /\ \A x \in Workers \ {v} :
                           req'[x].at = "issue" => req'[x].s # req'[v].s
    BY DEF FirstToken
  <2>1. v # w /\ req'[v] = req[v]
    BY <1>3, <1>4
  <2>2. req[v].s # req[w].s /\ TokensOf(req[v].s) = {}
    BY <1>2, <2>1 DEF Promises, FirstToken
  <2>3. TokensOf(req[v].s)' = {}
    BY <1>6, <2>1, <2>2 DEF TokensOf
  <2>4. QED
    BY <1>3, <1>4, <2>1, <2>3 DEF Promises, FirstToken
<1>13. OthersLocked'
  BY <1>3, <1>4, <1>5 DEF Promises, OthersLocked
<1>14. LiveCurrent'
  BY <1>5 DEF Promises, LiveCurrent
<1>15. QED
  BY <1>8, <1>10, <1>11, <1>12, <1>13, <1>14 DEF Promises

\* The line goes on at the successor, or the successor is forked.
LEMMA CommitRotationKeeps ==
  ASSUME Basics, Promises, NEW w \in Workers, CommitRotation(w)
  PROVE  Promises'
<1> DEFINE t == req[w].t
<1>1. PICK next \in Tokens :
        /\ ~Minted(next)
        /\ tokenSession' = [tokenSession EXCEPT ![next] = req[w].s]
        /\ forked' = IF req[w].fork THEN forked \cup {next} ELSE forked
        /\ Goto(w, [Idle EXCEPT !.at = "reply", !.t = next, !.spent = req[w].spent])
  BY DEF CommitRotation
<1> DEFINE r == [Idle EXCEPT !.at = "reply", !.t = next, !.spent = req[w].spent]
<1>2. /\ req[w].at = "touch" /\ InUse(req[w]) /\ ~req[w].spent
      /\ req[w].s \in Sessions /\ t \in Tokens /\ tokenSession[t] = req[w].s
      /\ req[w] \in Request
  BY DEF CommitRotation, InUse, Basics, Remembers, Knows, TypeOK, Promises, SpentStops
<1>3. r \in Request /\ r.at = "reply" /\ ~r.spent
  BY <1>2 DEF Idle, Request, Steps
<1>4. req'[w] = r /\ \A v \in Workers \ {w} : req'[v] = req[v]
  BY <1>1, <1>3, GotoMoves DEF Basics
<1>5. /\ UNCHANGED <<password, changer, session, expired, loginPassword, late>>
      /\ revoked' = revoked \cup {t}
  BY DEF CommitRotation, userVars, sessionVars
<1>6. /\ tokenSession'[next] = req[w].s
      /\ \A u \in Tokens \ {next} : tokenSession'[u] = tokenSession[u]
  BY <1>1 DEF Basics, TypeOK
<1>7. \A v \in Workers : Alone(req'[v]) =>
        v # w /\ req'[v] = req[v] /\ req[v].t \in Tokens \ {next}
  <2> SUFFICES ASSUME NEW v \in Workers, Alone(req'[v])
               PROVE  v # w /\ req'[v] = req[v] /\ req[v].t \in Tokens \ {next}
    OBVIOUS
  <2>1. v # w /\ req'[v] = req[v]
    BY <1>3, <1>4 DEF Alone, InUse
  <2>2. Knows(req[v]) /\ InUse(req[v])
    BY <2>1 DEF Alone, Basics, Remembers
  <2>3. QED
    BY <1>1, <2>1, <2>2, NoneAssumption DEF Knows, Minted
<1>8. SpentStops'
  BY <1>3, <1>4, <1>5, EndedStays DEF Promises, Live
<1>9. AloneApart'
  BY <1>1, <1>7 DEF Promises, AloneApart
<1>10. OneLine'
  <2>1. \A x \in Sessions : Line(x)' \ {next} \subseteq Line(x)
    BY <1>1, <1>5, <1>6, <1>7 DEF Line, TokensOf
  <2>2. ASSUME NEW x \in Sessions, session[x] = "live", NEW y \in Line(x)',
               NEW z \in Line(x)', y # z
        PROVE  FALSE
    <3>1. next \in {y, z}
      BY <2>1, <2>2 DEF Promises, OneLine
    <3>2. x = req[w].s /\ next \in Line(x)'
      BY <1>6, <2>2, <3>1 DEF Line, TokensOf
    <3>3. next \notin forked'
      BY <1>7, <3>2 DEF Line
    <3>4. Alone(req[w])
      BY <1>1, <1>2, <3>3 DEF Alone
    <3>5. t \in Line(x)
      BY <1>2, <3>2, <3>4 DEF Line, TokensOf
    <3>6. t \in Line(x)'
      BY <2>1, <2>2, <3>1, <3>2, <3>5 DEF Promises, OneLine
    <3>7. PICK v \in Workers : Alone(req'[v]) /\ req'[v].t = t
      BY <1>5, <3>6 DEF Line
    <3>8. QED
      BY <1>7, <3>4, <3>7 DEF Promises, AloneApart
  <2>3. QED
    BY <1>5, <2>2 DEF OneLine
<1>11. FirstToken'
  <2> SUFFICES ASSUME NEW v \in Workers, req'[v].at = "issue"
               PROVE  /\ TokensOf(req[v].s)' = {}
                      /\ \A x \in Workers \ {v} :
                           req'[x].at = "issue" => req'[x].s # req'[v].s
    BY DEF FirstToken
  <2>1. v # w /\ req'[v] = req[v]
    BY <1>3, <1>4
  <2>2. TokensOf(req[v].s) = {}
    BY <2>1 DEF Promises, FirstToken
  <2>3. req[v].s # req[w].s
    BY <1>2, <2>2 DEF TokensOf
  <2>4. TokensOf(req[v].s)' = {}
    BY <1>6, <2>1, <2>2, <2>3 DEF TokensOf
  <2>5. QED
    BY <1>3, <1>4, <2>1, <2>4 DEF Promises, FirstToken
<1>12. OthersLocked'
  BY <1>3, <1>4, <1>5 DEF Promises, OthersLocked
<1>13. LiveCurrent'
  BY <1>5 DEF Promises, LiveCurrent
<1>14. QED
  BY <1>8, <1>9, <1>10, <1>11, <1>12, <1>13 DEF Promises

\* What is left to show of a request that ends and revokes sessions and tokens.
LEMMA RevokingKeeps ==
  ASSUME Basics, Promises, NEW w \in Workers, Finish(w),
         revoked \subseteq revoked',
         \A s \in Sessions : session'[s] = "live" => session[s] = "live",
         \A s \in late : session'[s] = "live" => s \in late',
         UNCHANGED <<expired, tokenSession, forked>>,
         LiveCurrent'
  PROVE  Promises'
<1>1. req'[w] = Idle /\ \A v \in Workers \ {w} : req'[v] = req[v]
  BY IdleOK, GotoMoves DEF Basics, Finish
<1>2. SpentStops'
  <2>1. \A v \in Workers : req[v].spent => req[v].s \in Sessions
    BY DEF Promises, SpentStops, Basics, Remembers, Knows, InUse
  <2>2. QED
    BY <1>1, <2>1, IdleOK, EndedStays DEF Promises, Live
<1>3. \A v \in Workers : Alone(req'[v]) => v # w /\ req'[v] = req[v]
  BY <1>1, IdleOK DEF Alone, InUse
<1>4. AloneApart'
  BY <1>3 DEF Promises, AloneApart
<1>5. OneLine'
  <2>1. \A s \in Sessions : Line(s)' \subseteq Line(s)
    BY <1>3 DEF Line, TokensOf
  <2>2. QED
    BY <2>1 DEF Promises, OneLine
<1>6. FirstToken'
  BY <1>1, IdleOK DEF Promises, FirstToken, TokensOf
<1>7. OthersLocked'
  BY <1>1, IdleOK DEF Promises, OthersLocked
<1>8. QED
  BY <1>2, <1>4, <1>5, <1>6, <1>7 DEF Promises

\* A session that is revoked ends with all its tokens.
LEMMA CommitRevocationKeeps ==
  ASSUME Basics, Promises, NEW w \in Workers, CommitRevocation(w)
  PROVE  Promises'
<1>1. /\ session' = [session EXCEPT ![req[w].s] = "revoked"]
      /\ revoked' = revoked \cup TokensOf(req[w].s)
      /\ Finish(w)
      /\ UNCHANGED <<password, changer, expired, loginPassword, late, tokenSession, forked>>
  BY DEF CommitRevocation, userVars
<1>2. \A s \in Sessions : session'[s] = "live" => session[s] = "live"
  BY <1>1 DEF Basics, TypeOK
<1>3. LiveCurrent'
  BY <1>1, <1>2 DEF Promises, LiveCurrent
<1>4. QED
  BY <1>1, <1>2, <1>3, RevokingKeeps

\* After a change only its own session can be live, or one created since.
LEMMA CommitChangeKeeps ==
  ASSUME Basics, Promises, NEW w \in Workers, CommitChange(w)
  PROVE  Promises'
<1>1. /\ req[w].at = "sweepAll"
      /\ changer' = req[w].s
      /\ session' = [s \in Sessions |->
                       IF s \in req[w].locks THEN "revoked" ELSE session[s]]
      /\ revoked' = revoked \cup Unswept(Sessions \ {req[w].s})
      /\ Finish(w)
      /\ late' = late \ req[w].locks
      /\ UNCHANGED <<expired, tokenSession, forked>>
  BY DEF CommitChange
<1>2. \A s \in Sessions : session'[s] = "live" =>
        session[s] = "live" /\ s \notin req[w].locks
  BY <1>1
<1>3. \A s \in Sessions : session'[s] = "live" => s = req[w].s \/ s \in late'
  BY <1>1, <1>2 DEF Promises, OthersLocked
<1>4. LiveCurrent'
  BY <1>1, <1>3 DEF LiveCurrent
<1>5. \A s \in late : session'[s] = "live" => s \in late'
  BY <1>1, <1>2 DEF Basics, TypeOK
<1>6. revoked \subseteq revoked'
  BY <1>1
<1>7. QED
  BY <1>1, <1>2, <1>4, <1>5, <1>6, RevokingKeeps

-----------------------------------------------------------------------------
(* The steps that write no row.                                            *)

Kept == Basics' /\ (FamilyStays /\ Promises => Promises')

LEMMA QuietStep ==
  ASSUME Basics, NEW w \in Workers, NEW r \in Request, Goto(w, r),
         Knows(r), FamilyStays /\ Promises => Fits(w, r),
         UNCHANGED <<rows, expired>>,
         held' \in SUBSET Tokens, \A t \in held' : Minted(t),
         replayed' \in SUBSET Sessions
  PROVE  Kept
<1>1. Basics'
  BY QuietBasics
<1>2. ASSUME FamilyStays, Promises PROVE Promises'
  BY <1>2, QuietKeeps
<1>3. QED
  BY <1>1, <1>2 DEF Kept

LEMMA FinishStep ==
  ASSUME Basics, NEW w \in Workers, Finish(w), UNCHANGED <<rows, expired>>,
         held' \in SUBSET Tokens, \A t \in held' : Minted(t),
         replayed' \in SUBSET Sessions
  PROVE  Kept
BY IdleOK, QuietStep DEF Finish

\* What is unchanged in a step that writes nothing at all.
LEMMA NothingWritten ==
  ASSUME Basics, UNCHANGED <<userVars, sessionVars, tokenVars>>
  PROVE  /\ UNCHANGED <<rows, expired>>
         /\ held' \in SUBSET Tokens /\ \A t \in held' : Minted(t)
BY DEF Basics, TypeOK, Rooted, rows, userVars, sessionVars, tokenVars

LEMMA StartLoginKept ==
  ASSUME Basics, NEW w \in Workers, StartLogin(w)
  PROVE  Kept
<1> DEFINE r == [Idle EXCEPT !.at = "verified", !.pw = password]
<1>1. password \in Passwords /\ replayed' \in SUBSET Sessions
  BY DEF StartLogin, Basics, TypeOK
<1>2. r \in Request /\ r.at = "verified" /\ r.pw = password /\ ~r.spent
  BY <1>1 DEF Idle, Request, Steps
<1>3. Knows(r)
  BY <1>1, <1>2 DEF Knows, InUse
<1>4. Fits(w, r)
  BY <1>2 DEF Fits, Alone, InUse
<1>5. QED
  BY <1>1, <1>2, <1>3, <1>4, NothingWritten, QuietStep DEF StartLogin

LEMMA ReplyKept ==
  ASSUME Basics, NEW w \in Workers, Reply(w)
  PROVE  Kept
<1>1. req[w].t \in Tokens /\ Minted(req[w].t)
  BY DEF Reply, Basics, Remembers, Knows
<1>2. /\ held' \in SUBSET Tokens /\ \A t \in held' : Minted(t)
      /\ replayed' \in SUBSET Sessions
  BY <1>1 DEF Reply, Basics, TypeOK, Rooted
<1>3. UNCHANGED <<rows, expired>>
  BY DEF Reply, rows, sessionVars
<1>4. QED
  BY <1>2, <1>3, FinishStep DEF Reply

\* A token that is not revoked was not rotated, so if it is spent its session
\* has ended; if no other refresh of it is under way, the line goes on from it.
LEMMA StartRefreshKept ==
  ASSUME Basics, NEW w \in Workers, NEW t \in Tokens, StartRefresh(w, t)
  PROVE  Kept
<1> DEFINE s == tokenSession[t]
           again == [Idle EXCEPT !.at = "revoke", !.s = s]
           r == Presented(t)
<1>1. s \in Sessions /\ session[s] # "none" /\ replayed \in SUBSET Sessions
  BY DEF StartRefresh, Basics, TypeOK, Rooted, Minted
<1>2. UNCHANGED <<userVars, sessionVars, tokenVars>>
  BY DEF StartRefresh
<1>3. CASE t \in revoked
  <2>1. Goto(w, again) /\ replayed' = replayed \cup {s}
    BY <1>3 DEF StartRefresh
  <2>2. again \in Request /\ again.at = "revoke" /\ again.s = s /\ ~again.spent
    BY <1>1 DEF Idle, Request, Steps
  <2>3. Knows(again) /\ Fits(w, again)
    BY <1>1, <2>2 DEF Knows, Fits, Alone, InUse
  <2>4. QED
    BY <1>1, <1>2, <2>1, <2>2, <2>3, NothingWritten, QuietStep
<1>4. CASE t \notin revoked
  <2>1. Goto(w, r) /\ replayed' = replayed
    BY <1>4 DEF StartRefresh
  <2>2. /\ r \in Request /\ r.at = "session" /\ r.s = s /\ r.t = t
        /\ r.spent = Spent(t) /\ r.fork = (t \in forked \/ Refreshing(t))
    <3>1. Spent(t) \in BOOLEAN /\ (t \in forked \/ Refreshing(t)) \in BOOLEAN
      BY DEF Spent
    <3> HIDE DEF s
    <3>2. QED
      BY <1>1, <3>1 DEF Presented, Idle, Request, Steps, s
  <2> HIDE DEF r
  <2>3. Knows(r)
    BY <1>1, <2>2 DEF Knows, InUse
  <2>4. ASSUME FamilyStays, Promises PROVE Fits(w, r)
    <3>1. \A u \in Tokens : parent[u] # t
      BY <1>4, <2>4, NoneAssumption DEF FamilyStays
    <3>2. r.spent => ~Live(r.s)
      BY <2>2, <3>1 DEF Spent
    <3>3. ASSUME Alone(r)
          PROVE  /\ t \notin forked /\ t \in Line(s)
                 /\ \A v \in Workers : Alone(req[v]) => req[v].t # t
      <4>1. t \notin forked /\ ~Refreshing(t)
        BY <2>2, <3>3 DEF Alone
      <4>2. QED
        BY <1>4, <4>1 DEF Line, TokensOf, Refreshing, Alone
    <3>4. QED
      BY <2>2, <3>2, <3>3 DEF Fits
  <2>5. QED
    BY <1>1, <1>2, <2>1, <2>2, <2>3, <2>4, NothingWritten, QuietStep
<1>5. QED
  BY <1>3, <1>4

\* Reading the session and locking the token: the request stays in use.
LEMMA OnwardKept ==
  ASSUME Basics, NEW w \in Workers, ReadSession(w) \/ LockToken(w)
  PROVE  Kept
<1>1. UNCHANGED <<userVars, sessionVars, tokenVars, replayed>>
  BY DEF ReadSession, LockToken
<1>2. req[w] \in Request /\ Knows(req[w]) /\ replayed' \in SUBSET Sessions
  BY <1>1 DEF Basics, TypeOK, Remembers
<1>3. ASSUME NEW at \in {"rotate", "touch"}, InUse(req[w]),
             req[w].at = "session" => Live(req[w].s),
             Goto(w, [req[w] EXCEPT !.at = at])
      PROVE  Kept
  <2> DEFINE r == [req[w] EXCEPT !.at = at]
  <2>1. /\ r \in Request /\ r.at = at /\ r.s = req[w].s /\ r.t = req[w].t
        /\ r.spent = req[w].spent /\ r.fork = req[w].fork
    BY <1>2 DEF Request, Steps
  <2>2. Knows(r)
    BY <1>2, <1>3, <2>1 DEF Knows, InUse
  <2>3. ASSUME Promises PROVE Fits(w, r)
    <3>1. ~r.spent
      BY <1>3, <2>1, <2>3 DEF Promises, SpentStops
    <3>2. Alone(r) => Alone(req[w]) /\ r.t \in Line(r.s)
      BY <1>2, <1>3, <2>1 DEF Alone, Line, TokensOf, Knows
    <3>3. QED
      BY <2>1, <2>3, <3>1, <3>2 DEF Promises, AloneApart, Fits
  <2>4. QED
    BY <1>1, <1>2, <1>3, <2>1, <2>2, <2>3, NothingWritten, QuietStep
<1>4. CASE Finish(w)
  BY <1>1, <1>2, <1>4, NothingWritten, FinishStep
<1>5. QED
  BY <1>3, <1>4 DEF ReadSession, LockToken, InUse

LEMMA StartRevokeKept ==
  ASSUME Basics, NEW w \in Workers, NEW by \in Sessions, NEW s \in Sessions,
         StartRevoke(w, by, s)
  PROVE  Kept
<1> DEFINE r == [Idle EXCEPT !.at = "revoke", !.s = s]
<1>1. r \in Request /\ r.at = "revoke" /\ r.s = s /\ ~r.spent
  BY DEF Idle, Request, Steps
<1>2. session[s] # "none" /\ replayed' \in SUBSET Sessions
  BY DEF StartRevoke, Basics, TypeOK
<1>3. Knows(r) /\ Fits(w, r)
  BY <1>1, <1>2 DEF Knows, Fits, Alone, InUse
<1>4. QED
  BY <1>1, <1>2, <1>3, NothingWritten, QuietStep DEF StartRevoke

LEMMA LockSessionKept ==
  ASSUME Basics, NEW w \in Workers, LockSession(w)
  PROVE  Kept
<1> DEFINE r == [req[w] EXCEPT !.at = "sweep", !.locks = {req[w].s}]
<1>1. /\ req[w] \in Request /\ req[w].s \in Sessions /\ session[req[w].s] # "none"
      /\ replayed' \in SUBSET Sessions
  BY DEF LockSession, Basics, TypeOK, Remembers, Knows
<1>2. r \in Request /\ r.at = "sweep" /\ r.s = req[w].s /\ r.spent = req[w].spent
  BY <1>1 DEF Request, Steps
<1>3. Knows(r)
  BY <1>1, <1>2 DEF Knows, InUse
<1>4. Promises => Fits(w, r)
  BY <1>2 DEF LockSession, Promises, SpentStops, Fits, Alone, InUse
<1>5. QED
  BY <1>1, <1>2, <1>3, <1>4, NothingWritten, QuietStep DEF LockSession

LEMMA StartChangeKept ==
  ASSUME Basics, NEW w \in Workers, NEW s \in Sessions, StartChange(w, s)
  PROVE  Kept
<1> DEFINE r == [Idle EXCEPT !.at = "change", !.s = s, !.pw = password]
<1>1. password \in Passwords /\ session[s] # "none" /\ replayed' \in SUBSET Sessions
  BY DEF StartChange, Live, Basics, TypeOK
<1>2. r \in Request /\ r.at = "change" /\ r.s = s /\ ~r.spent
  BY <1>1 DEF Idle, Request, Steps
<1>3. Knows(r)
  BY <1>1, <1>2 DEF Knows, InUse
<1>4. Fits(w, r)
  BY <1>2 DEF Fits, Alone, InUse
<1>5. QED
  BY <1>1, <1>2, <1>3, <1>4, NothingWritten, QuietStep DEF StartChange

LEMMA LockOthersKept ==
  ASSUME Basics, NEW w \in Workers, LockOthers(w)
  PROVE  Kept
<1> DEFINE others == {x \in Sessions \ {req[w].s} : session[x] = "live"}
           r == [req[w] EXCEPT !.at = "sweepAll", !.locks = others]
<1>1. /\ req[w].at = "change" /\ req[w] \in Request
      /\ req[w].s \in Sessions /\ session[req[w].s] # "none"
      /\ replayed' \in SUBSET Sessions
  BY DEF LockOthers, Basics, TypeOK, Remembers, Knows
<1>2. /\ r \in Request /\ r.at = "sweepAll" /\ r.s = req[w].s /\ r.locks = others
      /\ r.spent = req[w].spent
  BY <1>1 DEF Request, Steps
<1>3. Knows(r)
  BY <1>1, <1>2 DEF Knows, InUse
<1>4. Promises => Fits(w, r)
  BY <1>1, <1>2 DEF Promises, SpentStops, Fits, Alone, InUse
<1>5. QED
  BY <1>1, <1>2, <1>3, <1>4, NothingWritten, QuietStep DEF LockOthers

LEMMA DropKept ==
  ASSUME Basics, NEW w \in Workers, Drop(w)
  PROVE  Kept
<1>1. replayed' \in SUBSET Sessions
  BY DEF Drop, Basics, TypeOK
<1>2. QED
  BY <1>1, NothingWritten, FinishStep DEF Drop

LEMMA ExpireKept ==
  ASSUME Basics, NEW s \in Sessions, Expire(s)
  PROVE  Kept
<1>1. /\ UNCHANGED <<password, changer, session, loginPassword, late, tokenSession,
                     revoked, replacedBy, held, parent, forked, req, replayed>>
      /\ expired' \in SUBSET Sessions /\ expired \subseteq expired'
  BY DEF Expire, userVars, tokenVars, Basics, TypeOK
<1>2. Basics'
  BY <1>1 DEF Basics, TypeOK, Remembers, Knows, InUse, Minted, Rooted
<1>3. ASSUME Promises PROVE Promises'
  <2>1. SpentStops'
    BY <1>1, <1>3 DEF Promises, SpentStops, Live
  <2>2. \A x \in Sessions : Line(x)' = Line(x)
    BY <1>1 DEF Line, TokensOf, Alone, InUse
  <2>3. QED
    BY <1>1, <1>3, <2>1, <2>2 DEF Promises, AloneApart, OneLine, FirstToken,
       OthersLocked, LiveCurrent, Alone, InUse, TokensOf
<1>4. QED
  BY <1>2, <1>3 DEF Kept

-----------------------------------------------------------------------------

LEMMA InitHolds ==
  ASSUME Init
  PROVE  Basics /\ FamilyStays /\ ReplayRevokes /\ Promises
<1>1. /\ \A w \in Workers : req[w] = Idle
      /\ \A s \in Sessions : session[s] = "none"
      /\ \A t \in Tokens : /\ tokenSession[t] = None
                           /\ parent[t] = None /\ replacedBy[t] = None
      /\ held = {} /\ replayed = {}
  BY DEF Init
<1>2. TypeOK
  BY IdleOK DEF Init, TypeOK
<1>3. Remembers /\ Rooted
  BY <1>1, IdleOK DEF Remembers, Rooted, Minted
<1>4. FamilyStays /\ ReplayRevokes
  BY <1>1 DEF FamilyStays, ReplayRevokes
<1>5. SpentStops /\ AloneApart /\ FirstToken /\ OthersLocked
  BY <1>1, IdleOK DEF SpentStops, AloneApart, Alone, FirstToken, OthersLocked, InUse
<1>6. OneLine /\ LiveCurrent
  BY <1>1 DEF OneLine, LiveCurrent
<1>7. QED
  BY <1>2, <1>3, <1>4, <1>5, <1>6 DEF Basics, Promises

LEMMA NextKept ==
  ASSUME Basics, [Next]_vars
  PROVE  Kept
<1>1. CASE UNCHANGED vars
  <2>1. UNCHANGED <<password, session, expired, tokenSession, revoked, replacedBy, held,
                    req, loginPassword, late, parent, forked, changer, replayed>>
    BY <1>1 DEF vars
  <2>2. Basics'
    BY <2>1 DEF Basics, TypeOK, Remembers, Knows, InUse, Minted, Rooted
  <2>3. \A x \in Sessions : Line(x)' = Line(x)
    BY <2>1 DEF Line, TokensOf, Alone, InUse
  <2>4. Promises => Promises'
    BY <2>1, <2>3 DEF Promises, SpentStops, AloneApart, OneLine, FirstToken,
       OthersLocked, LiveCurrent, Live, Alone, InUse, TokensOf
  <2>5. QED
    BY <2>2, <2>4 DEF Kept
<1>2. ASSUME NEW w \in Workers, Continue(w) PROVE Kept
  <2>1. CASE CreateSession(w)
    BY <2>1, CreateSessionBasics, CreateSessionKeeps DEF Kept
  <2>2. CASE IssueToken(w)
    BY <2>2, IssueTokenBasics, IssueTokenKeeps DEF Kept
  <2>3. CASE Reply(w)
    BY <2>3, ReplyKept
  <2>4. CASE ReadSession(w) \/ LockToken(w)
    BY <2>4, OnwardKept
  <2>5. CASE CommitRotation(w)
    BY <2>5, CommitRotationBasics, CommitRotationKeeps DEF Kept
  <2>6. CASE LockSession(w)
    BY <2>6, LockSessionKept
  <2>7. CASE CommitRevocation(w)
    BY <2>7, CommitRevocationBasics, CommitRevocationKeeps DEF Kept
  <2>8. CASE LockOthers(w)
    BY <2>8, LockOthersKept
  <2>9. CASE CommitChange(w)
    BY <2>9, CommitChangeBasics, CommitChangeKeeps DEF Kept
  <2>10. QED
    BY <1>2, <2>1, <2>2, <2>3, <2>4, <2>5, <2>6, <2>7, <2>8, <2>9 DEF Continue
<1>3. ASSUME NEW w \in Workers, StartLogin(w) PROVE Kept
  BY <1>3, StartLoginKept
<1>4. ASSUME NEW w \in Workers, NEW t \in Tokens, StartRefresh(w, t) PROVE Kept
  BY <1>4, StartRefreshKept
<1>5. ASSUME NEW w \in Workers, NEW by \in Sessions, NEW s \in Sessions,
             StartRevoke(w, by, s)
      PROVE  Kept
  BY <1>5, StartRevokeKept
<1>6. ASSUME NEW w \in Workers, NEW s \in Sessions, StartChange(w, s) PROVE Kept
  BY <1>6, StartChangeKept
<1>7. ASSUME NEW w \in Workers, Abort(w) \/ Fail(w) PROVE Kept
  BY <1>7, DropKept DEF Abort, Fail
<1>8. ASSUME NEW s \in Sessions, Expire(s) PROVE Kept
  BY <1>8, ExpireKept
<1>9. QED
  BY <1>1, <1>2, <1>3, <1>4, <1>5, <1>6, <1>7, <1>8 DEF Next

-----------------------------------------------------------------------------
(* A session of which a revoked token was presented.                       *)

Answering(r, s) == r.s = s /\ r.at \in {"revoke", "sweep"}

LEMMA MovesReplay ==
  ASSUME Basics, ReplayRevokes, NEW w \in Workers, NEW r, Goto(w, r),
         replayed' \subseteq replayed,
         \A s \in Sessions : session[s] = "revoked" => session'[s] = "revoked",
         \A s \in replayed' : Answering(req[w], s) =>
           Answering(r, s) \/ session'[s] = "revoked"
  PROVE  ReplayRevokes'
<1> SUFFICES ASSUME NEW s \in replayed', session'[s] # "revoked"
             PROVE  \E v \in Workers : Answering(req'[v], s)
  BY DEF ReplayRevokes, Answering
<1>1. s \in Sessions /\ s \in replayed /\ session[s] # "revoked"
  BY DEF Basics, TypeOK
<1>2. req'[w] = r /\ \A v \in Workers \ {w} : req'[v] = req[v]
  BY DEF Goto, Basics, TypeOK
<1>3. PICK v \in Workers : Answering(req[v], s)
  BY <1>1 DEF ReplayRevokes, Answering
<1>4. QED
  BY <1>2, <1>3

\* Steps of a request that answers no replay, on the sessions as they are.
LEMMA OthersReplay ==
  ASSUME Basics, ReplayRevokes, NEW w \in Workers, NEW r, Goto(w, r),
         req[w].at \notin {"revoke", "sweep"}, UNCHANGED <<session, replayed>>
  PROVE  ReplayRevokes'
BY MovesReplay DEF Answering

LEMMA StartRefreshReplay ==
  ASSUME Basics, ReplayRevokes, NEW w \in Workers, NEW t \in Tokens, StartRefresh(w, t)
  PROVE  ReplayRevokes'
<1> DEFINE again == [Idle EXCEPT !.at = "revoke", !.s = tokenSession[t]]
<1>1. req[w].at = "idle" /\ UNCHANGED session
  BY IdleOK DEF StartRefresh, sessionVars
<1>2. CASE t \in revoked
  <2>1. Goto(w, again) /\ replayed' = replayed \cup {tokenSession[t]}
    BY <1>2 DEF StartRefresh
  <2>2. req'[w] = again /\ \A v \in Workers \ {w} : req'[v] = req[v]
    BY <2>1 DEF Goto, Basics, TypeOK
  <2>3. again.at = "revoke" /\ again.s = tokenSession[t]
    BY DEF Idle
  <2>4. Answering(req'[w], tokenSession[t])
    BY <2>2, <2>3 DEF Answering
  <2>5. ASSUME NEW s \in replayed, session[s] # "revoked"
        PROVE  \E v \in Workers : Answering(req'[v], s)
    <3>1. PICK v \in Workers : Answering(req[v], s)
      BY <2>5 DEF ReplayRevokes, Answering
    <3>2. req'[v] = req[v]
      BY <1>1, <2>2, <3>1 DEF Answering
    <3>3. QED
      BY <3>1, <3>2
  <2>6. QED
    BY <1>1, <2>1, <2>4, <2>5 DEF ReplayRevokes, Answering
<1>3. CASE t \notin revoked
  BY <1>1, <1>3, OthersReplay DEF StartRefresh
<1>4. QED
  BY <1>2, <1>3

LEMMA ReplayStep ==
  ASSUME Basics, ReplayRevokes, [Next]_vars
  PROVE  ReplayRevokes'
<1>1. CASE UNCHANGED vars
  BY <1>1 DEF ReplayRevokes, vars
<1>2. ASSUME NEW w \in Workers, Continue(w) PROVE ReplayRevokes'
  <2>1. CASE CreateSession(w)
    <3>1. PICK s \in Sessions :
            /\ session[s] = "none" /\ session' = [session EXCEPT ![s] = "live"]
            /\ Goto(w, [Idle EXCEPT !.at = "issue", !.s = s])
      BY <2>1 DEF CreateSession
    <3>2. /\ req[w].at = "verified" /\ replayed' = replayed
          /\ \A x \in Sessions : session[x] = "revoked" => session'[x] = "revoked"
      BY <2>1, <3>1 DEF CreateSession, Basics, TypeOK
    <3>3. QED
      BY <3>1, <3>2, MovesReplay DEF Answering
  <2>2. CASE IssueToken(w)
    BY <2>2, OthersReplay DEF IssueToken, sessionVars
  <2>3. CASE Reply(w)
    BY <2>3, OthersReplay DEF Reply, Finish, sessionVars
  <2>4. CASE ReadSession(w) \/ LockToken(w)
    BY <2>4, OthersReplay DEF ReadSession, LockToken, Finish, sessionVars
  <2>5. CASE CommitRotation(w)
    BY <2>5, OthersReplay DEF CommitRotation, sessionVars
  <2>6. CASE LockSession(w)
    <3> DEFINE r == [req[w] EXCEPT !.at = "sweep", !.locks = {req[w].s}]
    <3>1. Goto(w, r) /\ UNCHANGED <<session, replayed>>
      BY <2>6 DEF LockSession, sessionVars
    <3>2. r.at = "sweep" /\ r.s = req[w].s
      BY DEF Basics, TypeOK, Request
    <3>3. \A s : Answering(req[w], s) => Answering(r, s)
      BY <3>2 DEF Answering
    <3>4. QED
      BY <3>1, <3>3, MovesReplay
  <2>7. CASE CommitRevocation(w)
    <3>1. /\ Finish(w) /\ UNCHANGED replayed
          /\ session' = [session EXCEPT ![req[w].s] = "revoked"]
          /\ req[w].s \in Sessions
      BY <2>7 DEF CommitRevocation, Basics, Remembers, Knows
    <3>2. /\ session'[req[w].s] = "revoked"
          /\ \A s \in Sessions : session[s] = "revoked" => session'[s] = "revoked"
      BY <3>1 DEF Basics, TypeOK
    <3>3. QED
      BY <3>1, <3>2, MovesReplay DEF Finish, Answering
  <2>8. CASE LockOthers(w)
    BY <2>8, OthersReplay DEF LockOthers, sessionVars
  <2>9. CASE CommitChange(w)
    <3>1. /\ Finish(w) /\ UNCHANGED replayed /\ req[w].at = "sweepAll"
          /\ session' = [s \in Sessions |->
                           IF s \in req[w].locks THEN "revoked" ELSE session[s]]
      BY <2>9 DEF CommitChange
    <3>2. \A s \in Sessions : session[s] = "revoked" => session'[s] = "revoked"
      BY <3>1
    <3>3. \A s : ~Answering(req[w], s)
      BY <3>1 DEF Answering
    <3>4. QED
      BY <3>1, <3>2, <3>3, MovesReplay DEF Finish
  <2>10. QED
    BY <1>2, <2>1, <2>2, <2>3, <2>4, <2>5, <2>6, <2>7, <2>8, <2>9 DEF Continue
<1>3. ASSUME NEW w \in Workers, StartLogin(w) PROVE ReplayRevokes'
  BY <1>3, IdleOK, OthersReplay DEF StartLogin, sessionVars
<1>4. ASSUME NEW w \in Workers, NEW t \in Tokens, StartRefresh(w, t)
      PROVE  ReplayRevokes'
  BY <1>4, StartRefreshReplay
<1>5. ASSUME NEW w \in Workers, NEW by \in Sessions, NEW s \in Sessions,
             StartRevoke(w, by, s)
      PROVE  ReplayRevokes'
  BY <1>5, IdleOK, OthersReplay DEF StartRevoke, sessionVars
<1>6. ASSUME NEW w \in Workers, NEW s \in Sessions, StartChange(w, s)
      PROVE  ReplayRevokes'
  BY <1>6, IdleOK, OthersReplay DEF StartChange, sessionVars
<1>7. ASSUME NEW w \in Workers, Drop(w) PROVE ReplayRevokes'
  <2>1. /\ Finish(w) /\ UNCHANGED session /\ replayed' \subseteq replayed
        /\ req[w].at \in {"revoke", "sweep"} => req[w].s \notin replayed'
    BY <1>7 DEF Drop, sessionVars
  <2>2. QED
    BY <2>1, MovesReplay DEF Finish, Answering
<1>8. ASSUME NEW s \in Sessions, Expire(s) PROVE ReplayRevokes'
  BY <1>8 DEF Expire, ReplayRevokes
<1>9. QED
  BY <1>1, <1>2, <1>3, <1>4, <1>5, <1>6, <1>7, <1>8 DEF Next, Abort, Fail

-----------------------------------------------------------------------------
(* The links between a token and its successor.                            *)

LEMMA FamilyStep ==
  ASSUME Basics, FamilyStays, [Next]_vars
  PROVE  FamilyStays'
<1>1. CASE UNCHANGED <<tokenSession, parent, replacedBy>> /\ revoked \subseteq revoked'
  BY <1>1 DEF FamilyStays, Minted
<1>2. ASSUME NEW w \in Workers, IssueToken(w) PROVE FamilyStays'
  <2>1. /\ UNCHANGED <<parent, replacedBy, revoked>>
        /\ \A u \in Tokens : Minted(u) => tokenSession'[u] = tokenSession[u]
    BY <1>2 DEF IssueToken, Basics, TypeOK
  <2>2. \A u \in Tokens : parent[u] # None => parent[u] \in Tokens /\ Minted(parent[u])
    BY DEF FamilyStays, Minted, Basics, TypeOK
  <2>3. QED
    BY <2>1, <2>2 DEF FamilyStays, Minted
<1>3. ASSUME NEW w \in Workers, CommitRotation(w) PROVE FamilyStays'
  <2> DEFINE t == req[w].t
  <2>1. PICK next \in Tokens :
          /\ ~Minted(next)
          /\ tokenSession' = [tokenSession EXCEPT ![next] = req[w].s]
          /\ parent' = [parent EXCEPT ![next] = t]
          /\ replacedBy' = [replacedBy EXCEPT ![t] = next]
    BY <1>3 DEF CommitRotation
  <2>2. /\ req[w].s \in Sessions /\ t \in Tokens /\ tokenSession[t] = req[w].s
        /\ t # None /\ revoked' = revoked \cup {t}
    BY <1>3, NoneAssumption DEF CommitRotation, InUse, Basics, Remembers, Knows
  <2>3. /\ tokenSession'[next] = req[w].s /\ parent'[next] = t /\ replacedBy'[t] = next
        /\ \A u \in Tokens \ {next} : /\ tokenSession'[u] = tokenSession[u]
                                      /\ parent'[u] = parent[u]
        /\ \A u \in Tokens \ {t} : replacedBy'[u] = replacedBy[u]
        /\ next # t /\ next # None
    BY <2>1, <2>2, NoneAssumption DEF Basics, TypeOK, Minted
  <2>4. \A u \in Tokens : parent[u] # None =>
          parent[u] \in Tokens /\ Minted(u) /\ Minted(parent[u])
    BY DEF FamilyStays, Minted, Basics, TypeOK
  <2>5. \A u \in Tokens : replacedBy[u] # None =>
          replacedBy[u] \in Tokens /\ parent[replacedBy[u]] = u /\ u # None
    BY NoneAssumption DEF FamilyStays, Basics, TypeOK
  <2>6. ASSUME NEW u \in Tokens, parent'[u] # None
        PROVE  /\ Minted(u)'
               /\ parent'[u] \in revoked'
               /\ tokenSession'[parent'[u]] = tokenSession'[u]
    <3>1. CASE u = next
      BY <2>2, <2>3, <3>1, NoneAssumption DEF Minted
    <3>2. CASE u # next
      BY <2>1, <2>2, <2>3, <2>4, <2>6, <3>2 DEF FamilyStays, Minted
    <3>3. QED
      BY <3>1, <3>2
  <2>7. ASSUME NEW u \in Tokens, replacedBy'[u] # None
        PROVE  parent'[replacedBy'[u]] = u
    <3>1. CASE u = t
      BY <2>3, <3>1
    <3>2. CASE u # t
      <4>1. replacedBy'[u] = replacedBy[u] /\ parent[replacedBy[u]] = u
        BY <2>3, <2>5, <2>7, <3>2
      <4>2. replacedBy[u] \in Tokens /\ Minted(replacedBy[u])
        BY <2>4, <2>5, <2>7, <4>1
      <4>3. QED
        BY <2>1, <2>3, <4>1, <4>2
    <3>3. QED
      BY <3>1, <3>2
  <2>8. QED
    BY <2>6, <2>7 DEF FamilyStays
<1>4. ASSUME NEW w \in Workers, Continue(w) PROVE FamilyStays'
  BY <1>1, <1>2, <1>3, <1>4 DEF Continue, CreateSession, Reply, ReadSession, LockToken,
     LockSession, CommitRevocation, LockOthers, CommitChange, tokenVars
<1>5. QED
  BY <1>1, <1>4 DEF Next, vars, StartLogin, StartRefresh, StartRevoke, StartChange,
     Abort, Fail, Drop, Expire, tokenVars

-----------------------------------------------------------------------------
(* The theorems.                                                           *)

\* The inductive invariant: what requests remember, the links between tokens
\* and what overlapping logins, refreshes, revocations and changes keep.
THEOREM BasicInvariant == Spec => []IndInv
<1>1. Init => IndInv
  BY InitHolds DEF Basics, Promises, IndInv
<1>2. IndInv /\ [Next]_vars => IndInv'
  BY NextKept, FamilyStep, ReplayStep DEF Basics, Promises, Kept, IndInv
<1>3. QED
  BY <1>1, <1>2, PTL DEF Spec

\* Every variable keeps its type: sessions, tokens and requests under way.
THEOREM TypeCorrect == Spec => []TypeOK
<1>1. IndInv => TypeOK
  BY DEF IndInv
<1>2. QED
  BY <1>1, BasicInvariant, PTL

\* Replaying a rotated token revokes its session unless the request that was
\* to do it fails: the answer of refresh to a revoked token.
THEOREM ReplayRevokesAlways == Spec => []ReplayRevokes
<1>1. IndInv => ReplayRevokes
  BY DEF IndInv
<1>2. QED
  BY <1>1, BasicInvariant, PTL

\* A token and the one it was rotated into belong to one session, so that
\* revoking the session by its tokens' sessionId reaches the whole chain.
THEOREM FamilyStaysAlways == Spec => []FamilyStays
<1>1. IndInv => FamilyStays
  BY DEF IndInv
<1>2. QED
  BY <1>1, BasicInvariant, PTL

\* A refresh that presents a token after it was rotated, or after its session
\* ended, is answered with no token, whatever overlaps.
THEOREM SpentStaysSpent == Spec => []SpentForGood
<1>1. IndInv => SpentForGood
  BY DEF IndInv, SpentStops, SpentForGood
<1>2. QED
  BY <1>1, BasicInvariant, PTL

\* Only overlapping refreshes of one token, which nothing in refresh excludes,
\* give a live session a second token that refresh would accept.
THEOREM OneLineageAlways == Spec => []OneLineage
<1>1. ASSUME IndInv PROVE OneLineage
  <2>1. \A s \in Sessions : TokensOf(s) \ (revoked \cup forked) \subseteq Line(s)
    BY DEF Line
  <2>2. QED
    BY <1>1, <2>1 DEF IndInv, OneLine, OneLineage, Live
<1>2. QED
  BY <1>1, BasicInvariant, PTL

\* changePassword ends every other session there was when it took its locks:
\* only a login that verified the old password and created its session then
\* or later is left.
THEOREM ChangeEndsOthersAlways == Spec => []ChangeEndsOthers
<1>1. IndInv => ChangeEndsOthers
  BY DEF IndInv, LiveCurrent, ChangeEndsOthers, Live
<1>2. QED
  BY <1>1, BasicInvariant, PTL

-----------------------------------------------------------------------------
(***************************************************************************)
(* The identity verification of a user, for any documents, scores and      *)
(* requests.  It shares no state with the sessions.                        *)
(***************************************************************************)

LEMMA IdNothing ==
  /\ Nothing \in Doing /\ Nothing.at = "idle" /\ Nothing.left = {}
  /\ ~Failed(Null)
BY DEF Nothing, Doing, Failed, Null, PassThreshold

LEMMA IdDo ==
  ASSUME IdentityTypeOK, NEW w \in Requests, NEW r \in Doing, Do(w, r)
  PROVE  /\ doing' \in [Requests -> Doing]
         /\ doing'[w] = r
         /\ \A v \in Requests \ {w} : doing'[v] = doing[v]
BY DEF IdentityTypeOK, Do

LEMMA IdInit == IdentityInit => IdentityInv
<1> SUFFICES ASSUME IdentityInit PROVE IdentityInv
  OBVIOUS
<1>1. /\ \A w \in Requests : doing[w] = Nothing
      /\ \A d \in Docs : document[d] = NoDocument
      /\ verification.at = "none"
  BY DEF IdentityInit
<1>2. IdentityTypeOK
  <2>1. NoDocument \in Document
    BY DEF NoDocument, Document, Score, Null
  <2>2. QED
    BY <2>1, IdNothing DEF IdentityInit, IdentityTypeOK, Statuses
<1>3. ScoresOfAdded /\ RunsAlone /\ ApprovedIsClean
  BY <1>1, IdNothing DEF ScoresOfAdded, RunsAlone, ApprovedIsClean, Running
<1>4. QED
  BY <1>2, <1>3 DEF IdentityInv

LEMMA IdCreateVerification ==
  ASSUME IdentityInv, CreateVerification
  PROVE  IdentityInv'
<1>1. /\ verification.at = "none"
      /\ verification'.at = "PENDING_DOCUMENTS"
      /\ verification' \in [at : Statuses, face : BOOLEAN, liveness : BOOLEAN]
      /\ UNCHANGED <<document, doing, overlapped, cut>>
  BY DEF CreateVerification, Statuses
<1>2. IdentityTypeOK' /\ ScoresOfAdded' /\ ApprovedIsClean'
  BY <1>1 DEF IdentityInv, IdentityTypeOK, ScoresOfAdded, ApprovedIsClean
<1>3. ~overlapped => RunsAlone'
  BY <1>1 DEF IdentityInv, RunsAlone, Running, Clean
<1>4. QED
  BY <1>1, <1>2, <1>3 DEF IdentityInv

\* A request that neither runs nor will, beside documents that are clean.
LEMMA IdAside ==
  ASSUME IdentityInv, NEW w \in Requests, NEW r \in Doing, Do(w, r),
         r.at \in {"idle", "add"}, r.left = {}, r.at = "add" => r.doc \in Docs,
         document' \in [Docs -> Document],
         \A d \in Docs :
           \/ document'[d] = document[d]
           \/ document'[d].at = "added" /\ Clean(d)',
         UNCHANGED <<verification, overlapped>>, cut' \in BOOLEAN
  PROVE  IdentityInv'
<1>1. /\ doing' \in [Requests -> Doing] /\ doing'[w] = r
      /\ \A v \in Requests \ {w} : doing'[v] = doing[v]
  BY IdDo DEF IdentityInv
<1>2. IdentityTypeOK'
  BY <1>1 DEF IdentityInv, IdentityTypeOK
<1>3. \A d \in Docs : /\ Clean(d) => Clean(d)'
                      /\ document[d].at = "added" => document'[d].at = "added"
  BY DEF Clean
<1>4. ScoresOfAdded'
  <2>1. \A d \in Docs : document'[d].at = "absent" => document'[d] = NoDocument
    BY DEF IdentityInv, ScoresOfAdded
  <2>2. \A v \in Requests : \A d \in doing[v].left : d \in Docs /\ document[d].at = "added"
    BY DEF IdentityInv, ScoresOfAdded, IdentityTypeOK, Doing
  <2>3. \A v \in Requests : \A d \in doing'[v].left : document'[d].at = "added"
    BY <1>1, <1>3, <2>2
  <2>4. QED
    BY <1>1, <2>1, <2>3 DEF IdentityInv, ScoresOfAdded
<1>5. ASSUME ~overlapped PROVE RunsAlone'
  <2>1. \A v \in Requests :
          doing'[v].at \in {"mark", "judge"} => v # w /\ doing'[v] = doing[v]
    BY <1>1
  <2>2. \A v \in Requests : doing'[v].at \in {"mark", "judge"} =>
          /\ Running(v)
          /\ ~doing[v].blocked => \A d \in Docs \ doing[v].left : Clean(d)'
    BY <1>3, <1>5, <2>1 DEF IdentityInv, RunsAlone, Running
  <2>3. QED
    BY <1>5, <2>1, <2>2 DEF IdentityInv, RunsAlone, Running
<1>6. ApprovedIsClean'
  BY <1>3 DEF IdentityInv, ApprovedIsClean, Clean
<1>7. QED
  BY <1>2, <1>4, <1>5, <1>6 DEF IdentityInv

LEMMA IdStartAdd ==
  ASSUME IdentityInv, NEW w \in Requests, NEW d \in Docs, StartAdd(w, d)
  PROVE  IdentityInv'
<1> DEFINE r == [Nothing EXCEPT !.at = "add", !.doc = d]
<1>1. r \in Doing /\ r.at = "add" /\ r.doc = d /\ r.left = {}
  BY DEF Nothing, Doing
<1>2. document' \in [Docs -> Document] /\ cut' \in BOOLEAN
  BY DEF StartAdd, IdentityInv, IdentityTypeOK
<1>3. QED
  BY <1>1, <1>2, IdAside DEF StartAdd

LEMMA IdCommitAdd ==
  ASSUME IdentityInv, NEW w \in Requests, CommitAdd(w)
  PROVE  IdentityInv'
<1>1. PICK selfie \in BOOLEAN :
        document' = [document EXCEPT
          ![doing[w].doc] = [NoDocument EXCEPT !.at = "added", !.selfie = selfie]]
  BY DEF CommitAdd
<1> DEFINE x == [NoDocument EXCEPT !.at = "added", !.selfie = selfie]
<1>2. x \in Document /\ x.at = "added" /\ x.face = Null /\ x.live = Null
  BY DEF NoDocument, Document, Score, Null
<1>3. doing[w].doc \in Docs
  BY DEF CommitAdd, IdentityInv, ScoresOfAdded
<1>4. /\ document' \in [Docs -> Document] /\ document'[doing[w].doc] = x
      /\ \A d \in Docs \ {doing[w].doc} : document'[d] = document[d]
  BY <1>1, <1>2, <1>3 DEF IdentityInv, IdentityTypeOK
<1>5. ASSUME NEW d \in Docs, d = doing[w].doc PROVE Clean(d)'
  BY <1>2, <1>4, <1>5, IdNothing DEF Clean
<1>6. \A d \in Docs :
        \/ document'[d] = document[d]
        \/ document'[d].at = "added" /\ Clean(d)'
  BY <1>2, <1>4, <1>5
<1>7. Do(w, Nothing) /\ UNCHANGED <<verification, overlapped>> /\ cut' \in BOOLEAN
  BY DEF CommitAdd, IdentityInv, IdentityTypeOK
<1>8. QED
  BY <1>4, <1>6, <1>7, IdNothing, IdAside

LEMMA IdCut ==
  ASSUME IdentityInv, NEW w \in Requests, Cut(w)
  PROVE  IdentityInv'
<1>1. document' \in [Docs -> Document] /\ cut' \in BOOLEAN
  BY DEF Cut, IdentityInv, IdentityTypeOK
<1>2. QED
  BY <1>1, IdNothing, IdAside DEF Cut

\* The run has yet to judge every document that is there.
LEMMA IdReadDocuments ==
  ASSUME IdentityInv, NEW w \in Requests, ReadDocuments(w)
  PROVE  IdentityInv'
<1> DEFINE read == {d \in Docs : document[d].at = "added"}
           r == [Nothing EXCEPT !.at = "mark", !.left = read]
<1>1. r \in Doing /\ r.at = "mark" /\ r.left = read /\ ~r.blocked
  BY DEF Nothing, Doing
<1>2. /\ Do(w, r) /\ verification.at # "none"
      /\ UNCHANGED <<verification, document, cut>>
      /\ overlapped' = (overlapped \/ \E v \in Requests : Running(v))
  BY DEF ReadDocuments
<1>3. /\ doing' \in [Requests -> Doing] /\ doing'[w] = r
      /\ \A v \in Requests \ {w} : doing'[v] = doing[v]
  BY <1>1, <1>2, IdDo DEF IdentityInv
<1>4. IdentityTypeOK'
  BY <1>2, <1>3 DEF IdentityInv, IdentityTypeOK
<1>5. ScoresOfAdded'
  BY <1>1, <1>2, <1>3 DEF IdentityInv, ScoresOfAdded
<1>6. ASSUME ~overlapped' PROVE RunsAlone'
  <2>1. \A v \in Requests : doing'[v].at \in {"mark", "judge"} => v = w
    BY <1>2, <1>3, <1>6 DEF Running
  <2>2. \A d \in Docs \ read : document[d] = NoDocument
    BY DEF IdentityInv, ScoresOfAdded, IdentityTypeOK, Document
  <2>3. \A d \in Docs \ read : Clean(d)'
    BY <1>2, <2>2, IdNothing DEF Clean, NoDocument
  <2>4. QED
    BY <1>1, <1>2, <1>3, <2>1, <2>3 DEF RunsAlone, Running
<1>7. ApprovedIsClean'
  BY <1>2 DEF IdentityInv, ApprovedIsClean
<1>8. QED
  BY <1>4, <1>5, <1>6, <1>7 DEF IdentityInv

LEMMA IdMarkProcessing ==
  ASSUME IdentityInv, NEW w \in Requests, MarkProcessing(w)
  PROVE  IdentityInv'
<1> DEFINE r == [doing[w] EXCEPT !.at = "judge"]
<1>1. doing[w] \in Doing /\ doing[w].at = "mark"
  BY DEF MarkProcessing, IdentityInv, IdentityTypeOK
<1>2. /\ r \in Doing /\ r.at = "judge" /\ r.left = doing[w].left
      /\ r.blocked = doing[w].blocked
  BY <1>1 DEF Doing
<1>3. /\ Do(w, r) /\ UNCHANGED <<document, overlapped, cut>>
      /\ verification' = [verification EXCEPT !.at = "PROCESSING"]
  BY DEF MarkProcessing
<1>4. /\ doing' \in [Requests -> Doing] /\ doing'[w] = r
      /\ \A v \in Requests \ {w} : doing'[v] = doing[v]
  BY <1>2, <1>3, IdDo DEF IdentityInv
<1>5. /\ verification'.at = "PROCESSING"
      /\ verification' \in [at : Statuses, face : BOOLEAN, liveness : BOOLEAN]
  BY <1>3 DEF IdentityInv, IdentityTypeOK, Statuses
<1>6. UNCHANGED document
  BY <1>3
<1>7. IdentityTypeOK'
  BY <1>3, <1>4, <1>5 DEF IdentityInv, IdentityTypeOK
<1>8. ScoresOfAdded'
  <2>1. ASSUME NEW v \in Requests
        PROVE  /\ doing'[v].left = doing[v].left
               /\ doing'[v].at = "add" => doing'[v] = doing[v]
    BY <1>2, <1>4
  <2>2. ASSUME NEW v \in Requests, NEW d \in doing'[v].left
        PROVE  document'[d].at = "added"
    BY <1>6, <2>1 DEF IdentityInv, ScoresOfAdded
  <2>3. ASSUME NEW v \in Requests, doing'[v].at = "add"
        PROVE  doing'[v].doc \in Docs
    BY <2>1, <2>3 DEF IdentityInv, ScoresOfAdded
  <2>4. \A d \in Docs : document'[d].at = "absent" => document'[d] = NoDocument
    BY <1>6 DEF IdentityInv, ScoresOfAdded
  <2>5. QED
    BY <2>2, <2>3, <2>4 DEF ScoresOfAdded
<1>9. ASSUME ~overlapped PROVE RunsAlone'
  <2>1. /\ \A v \in Requests : doing[v].at \in {"mark", "judge"} => v = w
        /\ \A d \in Docs \ doing[w].left : Clean(d)
    BY <1>1, <1>9 DEF IdentityInv, RunsAlone, Running
  <2>2. \A v \in Requests : doing'[v].at \in {"mark", "judge"} => v = w
    BY <1>4, <2>1
  <2>3. \A d \in Docs : Clean(d) => Clean(d)'
    BY <1>3 DEF Clean
  <2>4. QED
    BY <1>2, <1>4, <1>5, <2>1, <2>2, <2>3 DEF RunsAlone, Running
<1>10. ApprovedIsClean'
  BY <1>5 DEF ApprovedIsClean
<1>11. QED
  BY <1>3, <1>7, <1>8, <1>9, <1>10 DEF IdentityInv

\* What a check writes, and that the flags block what fails.
LEMMA IdJudge ==
  ASSUME IdentityInv, NEW w \in Requests, NEW d \in Docs,
         Judge(w, d)
  PROVE  IdentityInv'
<1>1. PICK score \in Scores, outdated \in BOOLEAN,
           face \in Checked(verification.face, d),
           live \in Checked(verification.liveness, d) :
        /\ document' = [document EXCEPT ![d].face = face, ![d].live = live]
        /\ Do(w, [doing[w] EXCEPT
                      !.left = @ \ {d},
                      !.sum = @ + score + Sum(face) + Sum(live),
                      !.count = @ + 1 + Count(face) + Count(live),
                      !.blocked = @ \/ outdated \/ Failed(face) \/ Failed(live)])
  BY DEF Judge
<1> DEFINE r == [doing[w] EXCEPT
                   !.left = @ \ {d},
                   !.sum = @ + score + Sum(face) + Sum(live),
                   !.count = @ + 1 + Count(face) + Count(live),
                   !.blocked = @ \/ outdated \/ Failed(face) \/ Failed(live)]
<1>2. /\ doing[w] \in Doing /\ doing[w].at = "judge" /\ d \in doing[w].left
      /\ UNCHANGED <<verification, overlapped, cut>>
  BY DEF Judge, IdentityInv, IdentityTypeOK
<1>3. face \in Score /\ live \in Score
  BY DEF Checked, Score, Null
<1>4. /\ Sum(face) \in Nat /\ Sum(live) \in Nat /\ score \in Nat
      /\ Count(face) \in Nat /\ Count(live) \in Nat
  BY <1>3, ScoresAssumption DEF Sum, Count, Score, Null
<1>5. /\ r.at = "judge" /\ r.left = doing[w].left \ {d}
      /\ r.blocked = (doing[w].blocked \/ outdated \/ Failed(face) \/ Failed(live))
  BY <1>2 DEF Doing
<1>6. r \in Doing
  <2>1. /\ doing[w].sum + score + Sum(face) + Sum(live) \in Nat
        /\ doing[w].count + 1 + Count(face) + Count(live) \in Nat
    BY <1>2, <1>4 DEF Doing
  <2>2. (doing[w].blocked \/ outdated \/ Failed(face) \/ Failed(live)) \in BOOLEAN
    OBVIOUS
  <2>3. QED
    BY <1>2, <2>1, <2>2 DEF Doing
<1>7. /\ doing' \in [Requests -> Doing] /\ doing'[w] = r
      /\ \A v \in Requests \ {w} : doing'[v] = doing[v]
  BY <1>1, <1>6, IdDo DEF IdentityInv
<1>8. document[d] \in Document /\ document[d].at = "added"
  BY <1>2 DEF IdentityInv, IdentityTypeOK, ScoresOfAdded
<1>9. /\ document' \in [Docs -> Document]
      /\ document'[d].at = "added" /\ document'[d].face = face /\ document'[d].live = live
      /\ \A e \in Docs \ {d} : document'[e] = document[e]
  BY <1>1, <1>3, <1>8 DEF IdentityInv, IdentityTypeOK, Document
<1>10. IdentityTypeOK'
  BY <1>2, <1>7, <1>9 DEF IdentityInv, IdentityTypeOK
<1>11. ScoresOfAdded'
  <2>1. \A e \in Docs : /\ document'[e].at = "absent" => document'[e] = NoDocument
                        /\ document[e].at = "added" => document'[e].at = "added"
    BY <1>8, <1>9 DEF IdentityInv, ScoresOfAdded
  <2>2. \A v \in Requests : \A e \in doing[v].left : e \in Docs /\ document[e].at = "added"
    BY DEF IdentityInv, ScoresOfAdded, IdentityTypeOK, Doing
  <2>3. \A v \in Requests : doing'[v].left \subseteq doing[v].left
    BY <1>5, <1>7
  <2>4. \A v \in Requests : doing'[v].at = "add" => doing'[v].doc \in Docs
    BY <1>5, <1>7 DEF IdentityInv, ScoresOfAdded
  <2>5. QED
    BY <2>1, <2>2, <2>3, <2>4 DEF ScoresOfAdded
<1>12. ASSUME ~overlapped PROVE RunsAlone' /\ verification.at = "PROCESSING"
  <2>1. /\ \A v \in Requests : doing[v].at \in {"mark", "judge"} => v = w
        /\ verification.at = "PROCESSING"
        /\ ~doing[w].blocked => \A e \in Docs \ doing[w].left : Clean(e)
    BY <1>2, <1>12 DEF IdentityInv, RunsAlone, Running
  <2>2. \A v \in Requests : doing'[v].at \in {"mark", "judge"} => v = w
    BY <1>7, <2>1
  <2>3. \A e \in Docs \ {d} : Clean(e) => Clean(e)'
    BY <1>9 DEF Clean
  <2>4. ~r.blocked => Clean(d)'
    BY <1>5, <1>9 DEF Clean
  <2>5. ~r.blocked => \A e \in Docs \ r.left : Clean(e)'
    BY <1>5, <2>1, <2>3, <2>4
  <2>6. QED
    BY <1>2, <1>5, <1>7, <2>1, <2>2, <2>5 DEF RunsAlone, Running
<1>13. ApprovedIsClean'
  BY <1>2, <1>12 DEF ApprovedIsClean
<1>14. QED
  BY <1>2, <1>10, <1>11, <1>12, <1>13 DEF IdentityInv

\* A verdict follows when nothing is left to judge.
LEMMA IdDecide ==
  ASSUME IdentityInv, NEW w \in Requests, Decide(w)
  PROVE  IdentityInv'
<1>1. /\ doing[w].at = "judge" /\ doing[w].left = {} /\ Do(w, Nothing)
      /\ verification' = [verification EXCEPT
                            !.at = IF Approved(doing[w]) THEN "APPROVED" ELSE "REJECTED"]
      /\ UNCHANGED <<document, overlapped, cut>>
  BY DEF Decide
<1>2. /\ doing' \in [Requests -> Doing] /\ doing'[w] = Nothing
      /\ \A v \in Requests \ {w} : doing'[v] = doing[v]
  BY <1>1, IdNothing, IdDo DEF IdentityInv
<1>3. /\ verification' \in [at : Statuses, face : BOOLEAN, liveness : BOOLEAN]
      /\ verification'.at = "APPROVED" => ~doing[w].blocked
  BY <1>1 DEF IdentityInv, IdentityTypeOK, Statuses, Approved
<1>4. IdentityTypeOK'
  BY <1>1, <1>2, <1>3 DEF IdentityInv, IdentityTypeOK
<1>5. ScoresOfAdded'
  BY <1>1, <1>2, IdNothing DEF IdentityInv, ScoresOfAdded
<1>6. ASSUME ~overlapped PROVE RunsAlone'
  <2>1. \A v \in Requests : doing[v].at \in {"mark", "judge"} => v = w
    BY <1>1, <1>6 DEF IdentityInv, RunsAlone, Running
  <2>2. \A v \in Requests : doing'[v].at \notin {"mark", "judge"}
    BY <1>2, <2>1, IdNothing
  <2>3. QED
    BY <2>2 DEF RunsAlone, Running
<1>7. ApprovedIsClean'
  <2> SUFFICES ASSUME verification'.at = "APPROVED", ~overlapped, NEW d \in Docs
               PROVE  Clean(d)'
    BY <1>1 DEF ApprovedIsClean, Clean
  <2>1. Clean(d)
    BY <1>1, <1>3 DEF IdentityInv, RunsAlone
  <2>2. QED
    BY <1>1, <2>1 DEF Clean
<1>8. QED
  BY <1>1, <1>4, <1>5, <1>6, <1>7 DEF IdentityInv

LEMMA IdNext ==
  ASSUME IdentityInv, [IdentityNext]_identityVars
  PROVE  IdentityInv'
<1>1. CASE UNCHANGED identityVars
  BY <1>1 DEF identityVars, IdentityInv, IdentityTypeOK, ScoresOfAdded, RunsAlone,
     ApprovedIsClean, Running, Clean
<1>2. CASE IdentityNext
  BY <1>2, IdCreateVerification, IdStartAdd, IdCommitAdd, IdReadDocuments, IdMarkProcessing,
     IdJudge, IdDecide, IdCut DEF IdentityNext, Run
<1>3. QED
  BY <1>1, <1>2

\* The inductive invariant holds of every behaviour.
THEOREM IdInvariance == IdentitySpec => []IdentityInv
<1>1. IdentityInv /\ [IdentityNext]_identityVars => IdentityInv'
  BY IdNext
<1>2. QED
  BY IdInit, <1>1, PTL DEF IdentitySpec

\* Every reachable state of the session, its documents and its runs is well
\* typed.
THEOREM IdTypeCorrect == IdentitySpec => []IdentityTypeOK
<1>1. IdentityInv => IdentityTypeOK
  BY DEF IdentityInv
<1>2. QED
  BY IdInvariance, <1>1, PTL

\* No failed face match or liveness check in an APPROVED session, for any
\* number of documents and runs that do not overlap.
THEOREM CleanApproval == IdentitySpec => []ApprovedIsClean
<1>1. IdentityInv => ApprovedIsClean
  BY DEF IdentityInv
<1>2. QED
  BY IdInvariance, <1>1, PTL
===============================================================================
