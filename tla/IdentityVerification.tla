------------------------- MODULE IdentityVerification -------------------------
(***************************************************************************)
(* One identity verification: createSession, addDocument and               *)
(* runVerification of modules/identity/identity.service.ts, against a      *)
(* provider that behaves as providers/mock-identity.provider.ts.           *)
(*                                                                         *)
(* A run reads the documents once, marks the session, writes the scores of *)
(* one document after the other and then the verdict.  Nothing keeps two   *)
(* runs apart, or a run from an added document, and a run may be cut.  The *)
(* session is called a verification here: sessions are SessionTokens'.     *)
(* expiresAt is written and never asked for, so it is left out.            *)
(***************************************************************************)
EXTENDS Naturals, FiniteSets

CONSTANTS
  Docs,      \* identity documents that may be added
  Requests,  \* concurrent requests
  Scores,    \* what a check may return, in tenths
  NoDoc      \* no document

ASSUME NoDocAssumption == NoDoc \notin Docs
ASSUME ScoresAssumption == Scores \subseteq 0 .. 10

\* MockIdentityProvider.PASS_THRESHOLD and APPROVAL_THRESHOLD, in tenths.
PassThreshold == 5
ApprovalThreshold == 6

VARIABLES
  verification,  \* identity_verifications row: status and what the method needs
  document,      \* identity_documents rows: whether there is a selfie, scores
  doing,         \* what each request is doing, and what a run has gathered
  overlapped,    \* history: a run read the documents during another run
  cut            \* history: a run ended without a verdict

identityVars == <<verification, document, doing, overlapped, cut>>

Statuses == {"none", "PENDING_DOCUMENTS", "PROCESSING", "APPROVED", "REJECTED"}
Score == Scores \cup {11}
Null == 11   \* no score: outside 0 .. 10

Document == [at : {"absent", "added"}, selfie : BOOLEAN, face : Score, live : Score]
NoDocument == [at |-> "absent", selfie |-> FALSE, face |-> Null, live |-> Null]

\* A request: the document it adds, or the documents its run has yet to
\* judge, the sum and number of its scores, whether a flag blocks.
Doing == [at : {"idle", "add", "mark", "judge"}, doc : Docs \cup {NoDoc},
          left : SUBSET Docs, sum : Nat, count : Nat, blocked : BOOLEAN]

Nothing == [at |-> "idle", doc |-> NoDoc, left |-> {}, sum |-> 0, count |-> 0,
            blocked |-> FALSE]

IdentityTypeOK ==
  /\ verification \in [at : Statuses, face : BOOLEAN, liveness : BOOLEAN]
  /\ document \in [Docs -> Document]
  /\ doing \in [Requests -> Doing]
  /\ overlapped \in BOOLEAN
  /\ cut \in BOOLEAN

IdentityInit ==
  /\ verification = [at |-> "none", face |-> FALSE, liveness |-> FALSE]
  /\ document = [d \in Docs |-> NoDocument]
  /\ doing = [w \in Requests |-> Nothing]
  /\ overlapped = FALSE
  /\ cut = FALSE

Do(w, r) == doing' = [doing EXCEPT ![w] = r]

Running(w) == doing[w].at \in {"mark", "judge"}
Decided == verification.at \in {"APPROVED", "REJECTED"}

-----------------------------------------------------------------------------

\* checksForMethod: no method needs liveness without a face match.
CreateVerification ==
  /\ verification.at = "none"
  /\ \E face, liveness \in BOOLEAN :
       /\ liveness => face
       /\ verification' = [at |-> "PENDING_DOCUMENTS", face |-> face, liveness |-> liveness]
  /\ UNCHANGED <<document, doing, overlapped, cut>>

\* addDocument reads the status ...
StartAdd(w, d) ==
  /\ doing[w] = Nothing
  /\ verification.at = "PENDING_DOCUMENTS"
  /\ document[d] = NoDocument
  /\ \A v \in Requests : doing[v].doc # d
  /\ Do(w, [Nothing EXCEPT !.at = "add", !.doc = d])
  /\ UNCHANGED <<verification, document, overlapped, cut>>

\* ... and inserts the document, whatever the status has become.
CommitAdd(w) ==
  /\ doing[w].at = "add"
  /\ \E selfie \in BOOLEAN :
       document' = [document EXCEPT
                      ![doing[w].doc] = [NoDocument EXCEPT !.at = "added", !.selfie = selfie]]
  /\ Do(w, Nothing)
  /\ UNCHANGED <<verification, overlapped, cut>>

\* Planted bug: the verification is marked before its documents are counted.
MutReadDocuments(w) ==
  LET read == {d \in Docs : document[d].at = "added"}
  IN /\ doing[w] = Nothing
     /\ verification.at # "none"
     /\ IF read = {}
        THEN /\ verification' = [verification EXCEPT !.at = "PROCESSING"]
             /\ UNCHANGED <<doing, overlapped>>
        ELSE /\ Do(w, [Nothing EXCEPT !.at = "mark", !.left = read])
             /\ overlapped' = (overlapped \/ \E v \in Requests : Running(v))
             /\ UNCHANGED verification
     /\ UNCHANGED <<document, cut>>

\* runVerification, of a verification in any status.
ReadDocuments(w) ==
  LET read == {d \in Docs : document[d].at = "added"}
  IN /\ doing[w] = Nothing
     /\ verification.at # "none"
     /\ read # {}
     /\ Do(w, [Nothing EXCEPT !.at = "mark", !.left = read])
     /\ overlapped' = (overlapped \/ \E v \in Requests : Running(v))
     /\ UNCHANGED <<verification, document, cut>>

\* Planted bug: a verification that has a verdict keeps it while it runs again.
MutMarkProcessing(w) ==
  /\ doing[w].at = "mark"
  /\ verification' = [verification EXCEPT !.at = IF Decided THEN @ ELSE "PROCESSING"]
  /\ Do(w, [doing[w] EXCEPT !.at = "judge"])
  /\ UNCHANGED <<document, overlapped, cut>>

MarkProcessing(w) ==
  /\ doing[w].at = "mark"
  /\ verification' = [verification EXCEPT !.at = "PROCESSING"]
  /\ Do(w, [doing[w] EXCEPT !.at = "judge"])
  /\ UNCHANGED <<document, overlapped, cut>>

\* A check that needs a selfie: what is written when it is, or is not, made.
Checked(needed, d) ==
  IF needed /\ document[d].selfie THEN Scores ELSE {Null}

Failed(s) == s < PassThreshold
Sum(S) == IF S = Null THEN 0 ELSE S
Count(S) == IF S = Null THEN 0 ELSE 1

\* The checks of one document and the update of its row; a missing selfie is
\* flagged and does not block.
Judge(w, d) ==
  /\ doing[w].at = "judge"
  /\ d \in doing[w].left
  /\ \E score \in Scores, outdated \in BOOLEAN,
        face \in Checked(verification.face, d), live \in Checked(verification.liveness, d) :
       /\ document' = [document EXCEPT ![d].face = face, ![d].live = live]
       /\ Do(w, [doing[w] EXCEPT
                     !.left = @ \ {d},
                     !.sum = @ + score + Sum(face) + Sum(live),
                     !.count = @ + 1 + Count(face) + Count(live),
                     !.blocked = @ \/ outdated \/ Failed(face) \/ Failed(live)])
  /\ UNCHANGED <<verification, overlapped, cut>>

Approved(r) == r.sum >= ApprovalThreshold * r.count /\ ~r.blocked

\* The verdict, whatever the status has become.
Decide(w) ==
  /\ doing[w].at = "judge"
  /\ doing[w].left = {}
  /\ verification' = [verification EXCEPT
                        !.at = IF Approved(doing[w]) THEN "APPROVED" ELSE "REJECTED"]
  /\ Do(w, Nothing)
  /\ UNCHANGED <<document, overlapped, cut>>

\* A call fails, the provider's included, or the process dies.
Cut(w) ==
  /\ doing[w] # Nothing
  /\ cut' = (cut \/ Running(w))
  /\ Do(w, Nothing)
  /\ UNCHANGED <<verification, document, overlapped>>

Run(w) ==
  \/ MarkProcessing(w)
  \/ \E d \in Docs : Judge(w, d)
  \/ Decide(w)

IdentityNext ==
  \/ CreateVerification
  \/ \E w \in Requests :
       \/ \E d \in Docs : StartAdd(w, d)
       \/ CommitAdd(w)
       \/ ReadDocuments(w)
       \/ Run(w)
       \/ Cut(w)

IdentitySpec == IdentityInit /\ [][IdentityNext]_identityVars

\* Handlers go on unless they fail.
IdentityFairSpec == IdentitySpec /\ \A w \in Requests : WF_identityVars(Run(w))

-----------------------------------------------------------------------------
(* What a verdict promises.                                                *)

\* As long as runs do not overlap, the documents of an APPROVED verification
\* show no failed face match and no failed liveness check, also after runs
\* that were repeated or cut between two documents.
ApprovedIsClean ==
  verification.at = "APPROVED" /\ ~overlapped =>
    \A d \in Docs : ~Failed(document[d].face) /\ ~Failed(document[d].live)

\* A verification that is being processed gets a verdict, unless a run was cut,
\* however often and from how many requests it is run.
RunDecides == verification.at = "PROCESSING" ~> Decided \/ cut

-----------------------------------------------------------------------------
(* The inductive invariant.                                                *)

Clean(d) == ~Failed(document[d].face) /\ ~Failed(document[d].live)

\* A document has no scores before it is there, and a run judges what is.
ScoresOfAdded ==
  /\ \A d \in Docs : document[d].at = "absent" => document[d] = NoDocument
  /\ \A w \in Requests :
       /\ \A d \in doing[w].left : document[d].at = "added"
       /\ doing[w].at = "add" => doing[w].doc \in Docs

\* Runs that do not overlap: while one judges, there is no verdict, and what it
\* leaves behind is clean or blocks.
RunsAlone ==
  /\ \A v, w \in Requests : Running(v) /\ Running(w) => v = w
  /\ \A w \in Requests :
       /\ Running(w) => verification.at # "none"
       /\ doing[w].at = "judge" =>
            /\ verification.at = "PROCESSING"
            /\ ~doing[w].blocked => \A d \in Docs \ doing[w].left : Clean(d)
       /\ doing[w].at = "mark" => ~doing[w].blocked /\ \A d \in Docs \ doing[w].left : Clean(d)

IdentityInv ==
  /\ IdentityTypeOK
  /\ ScoresOfAdded
  /\ ~overlapped => RunsAlone
  /\ ApprovedIsClean
=============================================================================
