---------------------------- MODULE SessionTokens ----------------------------
(***************************************************************************)
(* The sessions and refresh tokens of one user: login, refresh, logout and *)
(* revocation of modules/auth/auth.service.ts, the session guard of        *)
(* auth/strategies/jwt.strategy.ts, and revokeSession and changePassword   *)
(* of modules/users/users.service.ts.                                      *)
(*                                                                         *)
(* A request checks what it read and writes later, in one transaction      *)
(* whose updates are blind.  A transaction is open across two steps here:  *)
(* refresh locks the token row, then the session row; revocation locks     *)
(* sessions, then tokens, so the two can wait for each other.  Nothing an  *)
(* open transaction wrote is seen before it commits.                       *)
(*                                                                         *)
(* A refresh token is younger than its session and lives as long, so its   *)
(* own expiry never decides; only the session's is modelled.               *)
(***************************************************************************)
EXTENDS Naturals, FiniteSets

CONSTANTS
  Sessions,    \* bound: the sessions that may ever be created
  Tokens,      \* bound: the refresh tokens that may ever be minted
  Passwords,   \* what the user's password may be
  Workers,     \* concurrent requests
  None,        \* no session, token or password
  MayFail      \* whether a request may fail or its reply be lost

ASSUME NoneAssumption == None \notin Sessions \cup Tokens \cup Passwords
ASSUME SwitchesAssumption == MayFail \in BOOLEAN

VARIABLES
  password,      \* the password users.passwordHash stands for
  session,       \* sessions: no row yet, live or revoked
  expired,       \* sessions whose expiresAt has passed
  tokenSession,  \* refresh_tokens.sessionId, None without a row
  revoked,       \* tokens whose revokedAt is set
  replacedBy,    \* refresh_tokens.replacedById
  held,          \* tokens that a client was given
  req,           \* what each worker is doing and what it remembers
  loginPassword, \* history: the password each session's login verified
  late,          \* history: sessions created beside or after a change of the
                 \* password that their login verified, which no change has
                 \* found since
  parent,        \* history: the token each token was minted for
  forked,        \* history: tokens that go back to one of two refreshes of a
                 \* token that overlapped, the one that came second
  changer,       \* history: the session that last changed the password
  replayed       \* history: sessions of which a revoked token was presented

tokenVars == <<tokenSession, revoked, replacedBy, held, parent, forked>>
sessionVars == <<session, expired, loginPassword, late>>
userVars == <<password, changer>>
vars == <<password, session, expired, tokenSession, revoked, replacedBy, held,
          req, loginPassword, late, parent, forked, changer, replayed>>

Steps == {"idle", "verified", "issue", "session", "rotate", "touch", "reply",
          "revoke", "sweep", "change", "sweepAll"}

(***************************************************************************)
(* A request: its step, its session and token, the password it verified    *)
(* and the sessions its transaction has locked; as history, of a refresh,  *)
(* whether its token was spent when it was presented and whether another   *)
(* refresh of it was under way.                                            *)
(***************************************************************************)
Request == [at : Steps, s : Sessions \cup {None}, t : Tokens \cup {None},
            pw : Passwords \cup {None}, locks : SUBSET Sessions,
            spent : BOOLEAN, fork : BOOLEAN]

Idle == [at |-> "idle", s |-> None, t |-> None, pw |-> None, locks |-> {},
         spent |-> FALSE, fork |-> FALSE]

TypeOK ==
  /\ password \in Passwords
  /\ session \in [Sessions -> {"none", "live", "revoked"}]
  /\ expired \in SUBSET Sessions
  /\ tokenSession \in [Tokens -> Sessions \cup {None}]
  /\ revoked \in SUBSET Tokens
  /\ replacedBy \in [Tokens -> Tokens \cup {None}]
  /\ held \in SUBSET Tokens
  /\ req \in [Workers -> Request]
  /\ loginPassword \in [Sessions -> Passwords \cup {None}]
  /\ late \in SUBSET Sessions
  /\ parent \in [Tokens -> Tokens \cup {None}]
  /\ forked \in SUBSET Tokens
  /\ changer \in Sessions \cup {None}
  /\ replayed \in SUBSET Sessions

Init ==
  /\ password \in Passwords
  /\ session = [s \in Sessions |-> "none"]
  /\ expired = {}
  /\ tokenSession = [t \in Tokens |-> None]
  /\ revoked = {}
  /\ replacedBy = [t \in Tokens |-> None]
  /\ held = {}
  /\ req = [w \in Workers |-> Idle]
  /\ loginPassword = [s \in Sessions |-> None]
  /\ late = {}
  /\ parent = [t \in Tokens |-> None]
  /\ forked = {}
  /\ changer = None
  /\ replayed = {}

-----------------------------------------------------------------------------

TokensOf(s) == {t \in Tokens : tokenSession[t] = s}
Minted(t) == tokenSession[t] # None

\* What JwtStrategy.validate and refresh ask of a session.
Live(s) == session[s] = "live" /\ s \notin expired

Goto(w, r) == req' = [req EXCEPT ![w] = r]
Finish(w) == Goto(w, Idle)

(* Row locks of the transactions that are open.                            *)

SessionLocked(w, s) == \E v \in Workers \ {w} : s \in req[v].locks

TokenLocked(w, t) == \E v \in Workers \ {w} : req[v].at = "touch" /\ req[v].t = t

Unswept(S) == {t \in Tokens \ revoked : tokenSession[t] \in S}

\* A request whose next update waits for another transaction.
Waiting(w) ==
  LET r == req[w]
  IN \/ r.at = "rotate" /\ TokenLocked(w, r.t)
     \/ r.at \in {"touch", "revoke"} /\ SessionLocked(w, r.s)
     \/ r.at = "sweep" /\ \E t \in Unswept({r.s}) : TokenLocked(w, t)
     \/ r.at = "change" /\ \/ \E v \in Workers : req[v].at = "sweepAll"
                           \/ \E s \in Sessions \ {r.s} :
                                session[s] = "live" /\ SessionLocked(w, s)
     \/ r.at = "sweepAll" /\ \E t \in Unswept(Sessions \ {r.s}) : TokenLocked(w, t)

(* What the history variables record.                                      *)

\* A token that was rotated, or whose session has ended.
Spent(t) == ~Live(tokenSession[t]) \/ \E u \in Tokens : parent[u] = t

\* A refresh of the token is under way.
InUse(r) == r.at \in {"session", "rotate", "touch"}
Refreshing(t) == \E v \in Workers : InUse(req[v]) /\ req[v].t = t

\* A change of the password has taken its locks and not committed.
Changing == \E v \in Workers : req[v].at = "sweepAll"

-----------------------------------------------------------------------------
(* login.                                                                  *)

\* The password is verified against the hash that was read.
StartLogin(w) ==
  /\ req[w] = Idle
  /\ Goto(w, [Idle EXCEPT !.at = "verified", !.pw = password])
  /\ UNCHANGED <<userVars, sessionVars, tokenVars, replayed>>

CreateSession(w) ==
  /\ req[w].at = "verified"
  /\ \E s \in Sessions :
       /\ session[s] = "none"
       /\ session' = [session EXCEPT ![s] = "live"]
       /\ loginPassword' = [loginPassword EXCEPT ![s] = req[w].pw]
       /\ late' = IF req[w].pw # password \/ Changing THEN late \cup {s} ELSE late
       /\ Goto(w, [Idle EXCEPT !.at = "issue", !.s = s])
  /\ UNCHANGED <<userVars, expired, tokenVars, replayed>>

\* A second write, outside any transaction with the first.
IssueToken(w) ==
  /\ req[w].at = "issue"
  /\ \E t \in Tokens :
       /\ ~Minted(t)
       /\ tokenSession' = [tokenSession EXCEPT ![t] = req[w].s]
       /\ Goto(w, [Idle EXCEPT !.at = "reply", !.t = t])
  /\ UNCHANGED <<userVars, sessionVars, revoked, replacedBy, held, parent, forked,
                 replayed>>

\* The client gets the token that was minted, by login or by refresh.
Reply(w) ==
  /\ req[w].at = "reply"
  /\ held' = held \cup {req[w].t}
  /\ Finish(w)
  /\ UNCHANGED <<userVars, sessionVars, tokenSession, revoked, replacedBy, parent,
                 forked, replayed>>

-----------------------------------------------------------------------------
(* refresh.                                                                *)

\* A refresh that has read the row of its token.
Presented(t) ==
  [Idle EXCEPT !.at = "session", !.s = tokenSession[t], !.t = t,
               !.spent = Spent(t), !.fork = t \in forked \/ Refreshing(t)]

\* Planted bug: a revoked token is merely refused.
MutStartRefresh(w, t) ==
  /\ req[w] = Idle
  /\ t \in held
  /\ IF t \in revoked
     THEN /\ replayed' = replayed \cup {tokenSession[t]}
          /\ UNCHANGED req
     ELSE /\ Goto(w, Presented(t))
          /\ UNCHANGED replayed
  /\ UNCHANGED <<userVars, sessionVars, tokenVars>>

\* The token row is read.  Any token a client was given may be presented, in
\* particular one that was rotated before: then the session is revoked.
StartRefresh(w, t) ==
  /\ req[w] = Idle
  /\ t \in held
  /\ IF t \in revoked
     THEN /\ Goto(w, [Idle EXCEPT !.at = "revoke", !.s = tokenSession[t]])
          /\ replayed' = replayed \cup {tokenSession[t]}
     ELSE /\ Goto(w, Presented(t))
          /\ UNCHANGED replayed
  /\ UNCHANGED <<userVars, sessionVars, tokenVars>>

\* Planted bug: of the session, only the expiry is checked.
MutReadSession(w) ==
  /\ req[w].at = "session"
  /\ IF req[w].s \notin expired
     THEN Goto(w, [req[w] EXCEPT !.at = "rotate"]) ELSE Finish(w)
  /\ UNCHANGED <<userVars, sessionVars, tokenVars, replayed>>

\* The session row is read next, by a SELECT of its own.
ReadSession(w) ==
  /\ req[w].at = "session"
  /\ IF Live(req[w].s) THEN Goto(w, [req[w] EXCEPT !.at = "rotate"]) ELSE Finish(w)
  /\ UNCHANGED <<userVars, sessionVars, tokenVars, replayed>>

\* The rotation's transaction: the successor is created and the presented
\* token's row updated, hence locked ...
LockToken(w) ==
  /\ req[w].at = "rotate"
  /\ ~Waiting(w)
  /\ Goto(w, [req[w] EXCEPT !.at = "touch"])
  /\ UNCHANGED <<userVars, sessionVars, tokenVars, replayed>>

\* Planted bug: the presented token is linked to its successor but not retired.
MutCommitRotation(w) ==
  LET t == req[w].t
  IN /\ req[w].at = "touch"
     /\ ~Waiting(w)
     /\ \E next \in Tokens :
          /\ ~Minted(next)
          /\ tokenSession' = [tokenSession EXCEPT ![next] = req[w].s]
          /\ parent' = [parent EXCEPT ![next] = t]
          /\ replacedBy' = [replacedBy EXCEPT ![t] = next]
          /\ forked' = IF req[w].fork THEN forked \cup {next} ELSE forked
          /\ Goto(w, [Idle EXCEPT !.at = "reply", !.t = next, !.spent = req[w].spent])
     /\ UNCHANGED <<userVars, sessionVars, revoked, held, replayed>>

\* ... then the session's, and all of it commits.
CommitRotation(w) ==
  LET t == req[w].t
  IN /\ req[w].at = "touch"
     /\ ~Waiting(w)
     /\ revoked' = revoked \cup {t}
     /\ \E next \in Tokens :
          /\ ~Minted(next)
          /\ tokenSession' = [tokenSession EXCEPT ![next] = req[w].s]
          /\ parent' = [parent EXCEPT ![next] = t]
          /\ replacedBy' = [replacedBy EXCEPT ![t] = next]
          /\ forked' = IF req[w].fork THEN forked \cup {next} ELSE forked
          /\ Goto(w, [Idle EXCEPT !.at = "reply", !.t = next, !.spent = req[w].spent])
     /\ UNCHANGED <<userVars, sessionVars, held, replayed>>

-----------------------------------------------------------------------------
(* logout, revokeSession and the answer to a replayed token.               *)

\* Through the session guard of `by`: logout if s is its own session.
StartRevoke(w, by, s) ==
  /\ req[w] = Idle
  /\ Live(by)
  /\ session[s] # "none"
  /\ Goto(w, [Idle EXCEPT !.at = "revoke", !.s = s])
  /\ UNCHANGED <<userVars, sessionVars, tokenVars, replayed>>

LockSession(w) ==
  /\ req[w].at = "revoke"
  /\ ~Waiting(w)
  /\ Goto(w, [req[w] EXCEPT !.at = "sweep", !.locks = {req[w].s}])
  /\ UNCHANGED <<userVars, sessionVars, tokenVars, replayed>>

CommitRevocation(w) ==
  /\ req[w].at = "sweep"
  /\ ~Waiting(w)
  /\ session' = [session EXCEPT ![req[w].s] = "revoked"]
  /\ revoked' = revoked \cup TokensOf(req[w].s)
  /\ Finish(w)
  /\ UNCHANGED <<userVars, expired, loginPassword, late, tokenSession, replacedBy,
                 held, parent, forked, replayed>>

-----------------------------------------------------------------------------
(* changePassword.                                                         *)

\* Through the session guard of s; the current password is verified.
StartChange(w, s) ==
  /\ req[w] = Idle
  /\ Live(s)
  /\ Goto(w, [Idle EXCEPT !.at = "change", !.s = s, !.pw = password])
  /\ UNCHANGED <<userVars, sessionVars, tokenVars, replayed>>

\* The transaction locks the user row and every other unrevoked session ...
LockOthers(w) ==
  LET s == req[w].s
  IN /\ req[w].at = "change"
     /\ ~Waiting(w)
     /\ Goto(w, [req[w] EXCEPT !.at = "sweepAll",
                               !.locks = {x \in Sessions \ {s} : session[x] = "live"}])
     /\ UNCHANGED <<userVars, sessionVars, tokenVars, replayed>>

\* Planted bug: the sessions stay, only their tokens are revoked.
MutCommitChange(w) ==
  LET r == req[w]
  IN /\ r.at = "sweepAll"
     /\ ~Waiting(w)
     /\ password' \in Passwords \ {r.pw}
     /\ changer' = r.s
     /\ late' = late \ r.locks
     /\ revoked' = revoked \cup Unswept(Sessions \ {r.s})
     /\ Finish(w)
     /\ UNCHANGED <<session, expired, loginPassword, tokenSession, replacedBy, held,
                    parent, forked, replayed>>

\* ... then the tokens of all other sessions, and commits.
CommitChange(w) ==
  LET r == req[w]
  IN /\ r.at = "sweepAll"
     /\ ~Waiting(w)
     /\ password' \in Passwords \ {r.pw}
     /\ changer' = r.s
     /\ session' = [s \in Sessions |-> IF s \in r.locks THEN "revoked" ELSE session[s]]
     /\ late' = late \ r.locks
     /\ revoked' = revoked \cup Unswept(Sessions \ {r.s})
     /\ Finish(w)
     /\ UNCHANGED <<expired, loginPassword, tokenSession, replacedBy, held, parent,
                    forked, replayed>>

-----------------------------------------------------------------------------
(* Failures and time.                                                      *)

\* What a request leaves undone is forgotten with it, a replay included.
Drop(w) ==
  /\ replayed' = IF req[w].at \in {"revoke", "sweep"} THEN replayed \ {req[w].s}
                 ELSE replayed
  /\ Finish(w)
  /\ UNCHANGED <<userVars, sessionVars, tokenVars>>

\* PostgreSQL ends one of the transactions of a deadlock, Prisma one that
\* waits too long; the request fails.
Abort(w) ==
  /\ Waiting(w)
  /\ Drop(w)

\* A call fails, the process dies, or the reply is lost on its way.
Fail(w) ==
  /\ MayFail
  /\ req[w] # Idle
  /\ Drop(w)

Expire(s) ==
  /\ session[s] # "none"
  /\ s \notin expired
  /\ expired' = expired \cup {s}
  /\ UNCHANGED <<userVars, session, loginPassword, late, tokenVars, req, replayed>>

-----------------------------------------------------------------------------

Continue(w) ==
  \/ CreateSession(w)
  \/ IssueToken(w)
  \/ Reply(w)
  \/ ReadSession(w)
  \/ LockToken(w)
  \/ CommitRotation(w)
  \/ LockSession(w)
  \/ CommitRevocation(w)
  \/ LockOthers(w)
  \/ CommitChange(w)

Next ==
  \/ \E w \in Workers :
       \/ StartLogin(w)
       \/ \E t \in Tokens : StartRefresh(w, t)
       \/ \E by, s \in Sessions : StartRevoke(w, by, s)
       \/ \E s \in Sessions : StartChange(w, s)
       \/ Continue(w)
       \/ Abort(w)
       \/ Fail(w)
  \/ \E s \in Sessions : Expire(s)

Spec == Init /\ [][Next]_vars

\* A request goes on unless it waits, and one that waits too long is ended.
FairSpec ==
  Spec /\ \A w \in Workers : WF_vars(Continue(w)) /\ WF_vars(Abort(w))

-----------------------------------------------------------------------------
(* What the sessions promise, whatever overlaps.                           *)

\* A token that was rotated, or whose session has ended, is good for nothing:
\* whoever presents it from then on gets no token, even one that was minted
\* for the session while it ended and is not revoked itself.
SpentForGood == \A w \in Workers : req[w].at = "reply" => ~req[w].spent

\* A live session has one token that could still be refreshed, and others
\* only by overlapping refreshes of one token: each goes back to such a one
\* that came second.
OneLineage ==
  \A s \in Sessions : Live(s) =>
    \A t, u \in TokensOf(s) \ (revoked \cup forked) : t = u

\* "Replaying a rotated token revokes the whole session": unless the request
\* itself fails, and as soon as it is answered.
ReplayRevokes ==
  \A s \in replayed :
    \/ session[s] = "revoked"
    \/ \E w \in Workers : req[w].s = s /\ req[w].at \in {"revoke", "sweep"}

\* A change of the password ends every other session there was when it took
\* its locks: a live one was opened with the current password, made the change
\* itself, or is of a login that had verified the old password and created its
\* session only then or later; the next change ends that one too.
ChangeEndsOthers ==
  \A s \in Sessions : Live(s) =>
    loginPassword[s] = password \/ s = changer \/ s \in late

\* "Single-use", taken literally: a token minted by refresh has replaced the
\* token presented for it, which is linked to no other successor, so that the
\* chain of rotations can be followed back.
SingleUse ==
  \A t \in Tokens : parent[t] # None =>
    parent[t] \in revoked /\ replacedBy[parent[t]] = t
-----------------------------------------------------------------------------
(* The inductive invariant.                                                *)

\* What a request that has got to a step knows of its session and its token.
Knows(r) ==
  /\ r.at = "verified" => r.pw \in Passwords
  /\ r.at \in {"issue", "revoke", "sweep", "change", "sweepAll"} =>
       r.s \in Sessions /\ session[r.s] # "none"
  /\ r.at = "reply" => r.t \in Tokens /\ Minted(r.t)
  /\ InUse(r) => r.s \in Sessions /\ r.t \in Tokens /\ tokenSession[r.t] = r.s

Remembers == \A w \in Workers : Knows(req[w])

\* A token belongs to a session that was created, and none is held unminted.
Rooted ==
  /\ \A t \in Tokens : Minted(t) => session[tokenSession[t]] # "none"
  /\ \A t \in held : Minted(t)

\* The rotations of a token stay in its session, so that whoever ends the
\* session ends them all; each link back to a parent that was retired.
FamilyStays ==
  \A t \in Tokens :
    /\ parent[t] # None => /\ Minted(t)
                           /\ parent[t] \in revoked
                           /\ tokenSession[parent[t]] = tokenSession[t]
    /\ replacedBy[t] # None => parent[replacedBy[t]] = t

\* A spent token gets no further than the check of its session.
SpentStops ==
  \A w \in Workers : req[w].spent => req[w].at = "session" /\ ~Live(req[w].s)

\* A refresh that was alone with its token when it began, in a line that was
\* not forked before.
Alone(r) == InUse(r) /\ ~r.fork

\* No two refreshes were both alone with one token.
AloneApart ==
  \A w \in Workers : Alone(req[w]) =>
    /\ req[w].t \notin forked
    /\ \A v \in Workers \ {w} : Alone(req[v]) => req[v].t # req[w].t

\* The tokens of a session from which its line goes on: usable ones, and
\* those that a refresh is about to rotate.
Line(s) ==
  {t \in TokensOf(s) : \/ t \notin revoked \cup forked
                       \/ \E w \in Workers : Alone(req[w]) /\ req[w].t = t}

\* Of a session that was not revoked, expired or not, there is one line.
OneLine ==
  \A s \in Sessions : session[s] = "live" => \A t, u \in Line(s) : t = u

\* A login that is about to issue the first token is alone with its session.
FirstToken ==
  \A w \in Workers : req[w].at = "issue" =>
    /\ TokensOf(req[w].s) = {}
    /\ \A v \in Workers \ {w} : req[v].at = "issue" => req[v].s # req[w].s

\* A change that is about to commit has locked every other live session but
\* those created since.
OthersLocked ==
  \A w \in Workers : req[w].at = "sweepAll" =>
    \A s \in Sessions \ {req[w].s} :
      session[s] = "live" => s \in req[w].locks \cup late

\* The sessions that were not revoked, expired or not.
LiveCurrent ==
  \A s \in Sessions : session[s] = "live" =>
    loginPassword[s] = password \/ s = changer \/ s \in late

\* All of it together.
IndInv ==
  /\ TypeOK
  /\ Remembers
  /\ Rooted
  /\ FamilyStays
  /\ ReplayRevokes
  /\ SpentStops
  /\ AloneApart
  /\ OneLine
  /\ FirstToken
  /\ OthersLocked
  /\ LiveCurrent
=============================================================================
