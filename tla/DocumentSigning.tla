--------------------------- MODULE DocumentSigning ---------------------------
(***************************************************************************)
(* The documents of an organization, the signatures over their bytes and   *)
(* the signing certificates: modules/documents/documents.service.ts,       *)
(* signForSigner and verify of signatures/signatures.service.ts, and       *)
(* issuing, revoke and getStatus of certificates/certificates.service.ts.  *)
(*                                                                         *)
(* Bytes are in a bucket, rows in a database.  A client writes the bytes   *)
(* itself, as often as it likes while its presigned URL is valid; every    *)
(* call of a handler to either store is a step.  An object key is minted   *)
(* for each URL, a certificate for each signature.                         *)
(***************************************************************************)
EXTENDS Naturals, FiniteSets

CONSTANTS
  Docs,      \* documents
  Keys,      \* object keys under the organization's prefix
  Contents,  \* what an object may hold; a digest tells them apart
  Certs,     \* serials of end-entity certificates
  Workers,   \* concurrent requests
  None       \* no document, key, content or certificate

ASSUME NoneAssumption == None \notin Docs \cup Keys \cup Contents \cup Certs

VARIABLES
  url,         \* the presigned PUT of a key: "none", "open" or "expired"
  object,      \* the bucket
  document,    \* documents rows: status, s3Key, currentVersion
  versions,    \* document_versions rows
  cert,        \* certificates rows: status, whether notAfter has passed
  revocation,  \* the serials with a revocation_entries row
  signature,   \* signatures rows, named after their certificate
  req          \* what each request is doing and what it has read

bucket == <<url, object>>
papers == <<document, versions>>
pki == <<cert, revocation>>
vars == <<url, object, document, versions, cert, revocation, signature, req>>

Document == [at : {"ABSENT", "ACTIVE", "DELETED"}, key : Keys \cup {None}, n : Nat]
NoDocument == [at |-> "ABSENT", key |-> None, n |-> 0]

Version == [doc : Docs, n : Nat, key : Keys]

Certificate == [at : {"none", "ACTIVE", "REVOKED"}, past : BOOLEAN]

\* ltvData.signedS3Key and signedHash; history: the document, and whether the
\* URL had expired when the bytes were read.
Signature == [key : Keys, content : Contents, doc : Docs, sealed : BOOLEAN]
NoSignature == [key |-> None, content |-> None, doc |-> None, sealed |-> FALSE]

Request ==
  [at : {"idle", "confirm", "number", "version", "delete", "sign", "certify",
         "store", "revoke", "verify", "status", "entry", "report"},
   doc : Docs \cup {None}, key : Keys \cup {None}, n : Nat,
   content : Contents \cup {None}, cert : Certs \cup {None},
   sealed : BOOLEAN, bytes : {"unread", "same", "changed"}, good : BOOLEAN,
   was : BOOLEAN]

Idle ==
  [at |-> "idle", doc |-> None, key |-> None, n |-> 0, content |-> None,
   cert |-> None, sealed |-> FALSE, bytes |-> "unread", good |-> FALSE,
   was |-> FALSE]

TypeOK ==
  /\ url \in [Keys -> {"none", "open", "expired"}]
  /\ object \in [Keys -> Contents \cup {None}]
  /\ document \in [Docs -> Document]
  /\ versions \in SUBSET Version
  /\ cert \in [Certs -> Certificate]
  /\ revocation \in SUBSET Certs
  /\ signature \in [Certs -> Signature \cup {NoSignature}]
  /\ req \in [Workers -> Request]

Init ==
  /\ url = [k \in Keys |-> "none"]
  /\ object = [k \in Keys |-> None]
  /\ document = [d \in Docs |-> NoDocument]
  /\ versions = {}
  /\ cert = [c \in Certs |-> [at |-> "none", past |-> FALSE]]
  /\ revocation = {}
  /\ signature = [c \in Certs |-> NoSignature]
  /\ req = [w \in Workers |-> Idle]

Goto(w, r) == req' = [req EXCEPT ![w] = r]

-----------------------------------------------------------------------------
(* The bucket.                                                             *)

RequestUploadUrl(k) ==
  /\ url[k] = "none"
  /\ url' = [url EXCEPT ![k] = "open"]
  /\ UNCHANGED <<object, papers, pki, signature, req>>

Put(k, c) ==
  /\ url[k] = "open"
  /\ object' = [object EXCEPT ![k] = c]
  /\ UNCHANGED <<url, papers, pki, signature, req>>

\* UPLOAD_URL_TTL.
ExpireUrl(k) ==
  /\ url[k] = "open"
  /\ url' = [url EXCEPT ![k] = "expired"]
  /\ UNCHANGED <<object, papers, pki, signature, req>>

-----------------------------------------------------------------------------
(* Documents and their versions.                                           *)

\* A version takes a number of its document and a key of its own.
Taken(d, n, k) == \E v \in versions : v.key = k \/ (v.doc = d /\ v.n = n)

\* The indexes on document_versions and on documents.s3Key.
Unique(d, n, k) ==
  /\ ~Taken(d, n, k)
  /\ \A e \in Docs \ {d} : document[e].key # k

\* confirmUpload has found the object.
StartConfirm(w, d, k) ==
  /\ req[w] = Idle
  /\ document[d].at = "ABSENT"
  /\ object[k] # None
  /\ Goto(w, [Idle EXCEPT !.at = "confirm", !.doc = d, !.key = k])
  /\ UNCHANGED <<bucket, papers, pki, signature>>

Pointed(d, k, n) ==
  [document EXCEPT ![d] = [at |-> @.at, key |-> k, n |-> n]]

CommitConfirm(w) ==
  LET r == req[w]
  IN /\ r.at = "confirm"
     /\ document[r.doc].at = "ABSENT" /\ Unique(r.doc, 1, r.key)
     /\ document' = [document EXCEPT
                       ![r.doc] = [at |-> "ACTIVE", key |-> r.key, n |-> 1]]
     /\ versions' = versions \cup {[doc |-> r.doc, n |-> 1, key |-> r.key]}
     /\ Goto(w, Idle)
     /\ UNCHANGED <<bucket, pki, signature>>

\* createVersion: getActive.
StartVersion(w, d) ==
  /\ req[w] = Idle
  /\ document[d].at = "ACTIVE"
  /\ Goto(w, [Idle EXCEPT !.at = "number", !.doc = d, !.n = document[d].n + 1])
  /\ UNCHANGED <<bucket, papers, pki, signature>>

HeadVersion(w, k) ==
  /\ req[w].at = "number"
  /\ object[k] # None
  /\ Goto(w, [req[w] EXCEPT !.at = "version", !.key = k])
  /\ UNCHANGED <<bucket, papers, pki, signature>>

\* Planted bug: the two writes are not one transaction, so the document is
\* pointed at the new version when the version's row is refused.
MutCommitVersion(w) ==
  LET r == req[w]
  IN /\ r.at = "version"
     /\ document' = Pointed(r.doc, r.key, r.n)
     /\ versions' = IF Unique(r.doc, r.n, r.key)
                    THEN versions \cup {[doc |-> r.doc, n |-> r.n, key |-> r.key]}
                    ELSE versions
     /\ Goto(w, Idle)
     /\ UNCHANGED <<bucket, pki, signature>>

\* Both writes or neither; the document's status is not asked for again.
CommitVersion(w) ==
  LET r == req[w]
  IN /\ r.at = "version"
     /\ Unique(r.doc, r.n, r.key)
     /\ versions' = versions \cup {[doc |-> r.doc, n |-> r.n, key |-> r.key]}
     /\ document' = Pointed(r.doc, r.key, r.n)
     /\ Goto(w, Idle)
     /\ UNCHANGED <<bucket, pki, signature>>

\* The database refuses a row, and the transaction with it.
RefuseRow(w) ==
  LET r == req[w]
  IN /\ r.at \in {"confirm", "version"}
     /\ ~Unique(r.doc, IF r.at = "confirm" THEN 1 ELSE r.n, r.key)
     /\ Goto(w, Idle)
     /\ UNCHANGED <<bucket, papers, pki, signature>>

StartDelete(w, d) ==
  /\ req[w] = Idle
  /\ document[d].at = "ACTIVE"
  /\ Goto(w, [Idle EXCEPT !.at = "delete", !.doc = d])
  /\ UNCHANGED <<bucket, papers, pki, signature>>

CommitDelete(w) ==
  /\ req[w].at = "delete"
  /\ document' = [document EXCEPT ![req[w].doc].at = "DELETED"]
  /\ Goto(w, Idle)
  /\ UNCHANGED <<bucket, versions, pki, signature>>

-----------------------------------------------------------------------------
(* Certificates.                                                           *)

\* issueEndEntity and the row: issueFromCsr, generateAndIssue, signForSigner.
Persisted(c) ==
  /\ cert[c].at = "none"
  /\ cert' = [cert EXCEPT ![c].at = "ACTIVE"]

Issue(c) ==
  /\ Persisted(c)
  /\ UNCHANGED <<bucket, papers, revocation, signature, req>>

\* notAfter passes.
Outlive(c) ==
  /\ cert[c].at # "none" /\ ~cert[c].past
  /\ cert' = [cert EXCEPT ![c].past = TRUE]
  /\ UNCHANGED <<bucket, papers, revocation, signature, req>>

StartRevoke(w, c) ==
  /\ req[w] = Idle
  /\ cert[c].at = "ACTIVE"
  /\ Goto(w, [Idle EXCEPT !.at = "revoke", !.cert = c])
  /\ UNCHANGED <<bucket, papers, pki, signature>>

\* revocation_entries.certificateId is unique: of two revocations one commits.
CommitRevoke(w) ==
  LET c == req[w].cert
  IN /\ req[w].at = "revoke"
     /\ IF c \in revocation THEN UNCHANGED pki
        ELSE /\ revocation' = revocation \cup {c}
             /\ cert' = [cert EXCEPT ![c].at = "REVOKED"]
     /\ Goto(w, Idle)
     /\ UNCHANGED <<bucket, papers, signature>>

-----------------------------------------------------------------------------
(* signForSigner: the document of the signer's envelope, in any status.    *)

StartSign(w, d) ==
  /\ req[w] = Idle
  /\ document[d].at # "ABSENT"
  /\ Goto(w, [Idle EXCEPT !.at = "sign", !.doc = d, !.key = document[d].key])
  /\ UNCHANGED <<bucket, papers, pki, signature>>

ReadBytes(w) ==
  LET k == req[w].key
  IN /\ req[w].at = "sign"
     /\ object[k] # None
     /\ Goto(w, [req[w] EXCEPT !.at = "certify", !.content = object[k],
                               !.sealed = url[k] = "expired"])
     /\ UNCHANGED <<bucket, papers, pki, signature>>

Certify(w, c) ==
  /\ req[w].at = "certify"
  /\ Persisted(c)
  /\ Goto(w, [req[w] EXCEPT !.at = "store", !.cert = c])
  /\ UNCHANGED <<bucket, papers, revocation, signature>>

Store(w) ==
  LET r == req[w]
  IN /\ r.at = "store"
     /\ signature' = [signature EXCEPT
          ![r.cert] = [key |-> r.key, content |-> r.content, doc |-> r.doc,
                       sealed |-> r.sealed]]
     /\ Goto(w, Idle)
     /\ UNCHANGED <<bucket, papers, pki>>

-----------------------------------------------------------------------------
(* verify.  A signature verifies exactly over the bytes it was made of;    *)
(* chainValid, which nothing here decides, is left out.                    *)

\* History: whether the certificate was revoked already.
StartVerify(w, c) ==
  /\ req[w] = Idle
  /\ signature[c] # NoSignature
  /\ Goto(w, [Idle EXCEPT !.at = "verify", !.cert = c, !.was = c \in revocation])
  /\ UNCHANGED <<bucket, papers, pki, signature>>

\* Planted bug: the bytes of the document's current version are fetched.
MutSignedKey(c) == document[signature[c].doc].key

SignedKey(c) == signature[c].key

\* documentIntegrityValid and cmsSignatureValid; a failed fetch is caught.
CheckBytes(w) ==
  LET c == req[w].cert
      same == object[SignedKey(c)] = signature[c].content
  IN /\ req[w].at = "verify"
     /\ \E bytes \in {"unread", IF same THEN "same" ELSE "changed"} :
          Goto(w, [req[w] EXCEPT !.at = "status", !.bytes = bytes])
     /\ UNCHANGED <<bucket, papers, pki, signature>>

\* getStatus selects the certificate and then its revocation.
ReadStatus(w) ==
  /\ req[w].at = "status"
  /\ Goto(w, [req[w] EXCEPT
                !.at = IF cert[req[w].cert].at = "REVOKED" THEN "report"
                       ELSE "entry"])
  /\ UNCHANGED <<bucket, papers, pki, signature>>

ReadEntry(w) ==
  /\ req[w].at = "entry"
  /\ Goto(w, [req[w] EXCEPT !.at = "report", !.good = req[w].cert \notin revocation])
  /\ UNCHANGED <<bucket, papers, pki, signature>>

\* A call fails, the object is missing, or the process dies.
Fail(w) ==
  /\ req[w] # Idle
  /\ Goto(w, Idle)
  /\ UNCHANGED <<bucket, papers, pki, signature>>

Next ==
  \/ \E k \in Keys :
       \/ RequestUploadUrl(k)
       \/ \E c \in Contents : Put(k, c)
       \/ ExpireUrl(k)
  \/ \E c \in Certs : Issue(c) \/ Outlive(c)
  \/ \E w \in Workers :
       \/ \E d \in Docs :
            \/ \E k \in Keys : StartConfirm(w, d, k)
            \/ StartVersion(w, d)
            \/ StartDelete(w, d)
            \/ StartSign(w, d)
       \/ CommitConfirm(w)
       \/ \E k \in Keys : HeadVersion(w, k)
       \/ CommitVersion(w)
       \/ RefuseRow(w)
       \/ CommitDelete(w)
       \/ \E c \in Certs :
            \/ StartRevoke(w, c)
            \/ Certify(w, c)
            \/ StartVerify(w, c)
       \/ CommitRevoke(w)
       \/ ReadBytes(w)
       \/ Store(w)
       \/ CheckBytes(w)
       \/ ReadStatus(w)
       \/ ReadEntry(w)
       \/ Fail(w)

Spec == Init /\ [][Next]_vars

-----------------------------------------------------------------------------
(* What a document and a verification report promise.                      *)

\* However versions are added at once, a document's are numbered without a
\* gap or a double, it points at the last of them, and no object is two
\* versions.
HistoryIsDense ==
  /\ \A d \in Docs :
       /\ {v.n : v \in {x \in versions : x.doc = d}} = 1 .. document[d].n
       /\ document[d].at # "ABSENT" =>
            [doc |-> d, n |-> document[d].n, key |-> document[d].key] \in versions
  /\ \A u, v \in versions : u.key = v.key \/ (u.doc = v.doc /\ u.n = v.n) => u = v

\* What was signed is an object that became a version of the document, also
\* when versions were added between reading the document and signing.
SignaturesCoverVersions ==
  \A c \in Certs : signature[c] # NoSignature =>
    \E v \in versions : v.doc = signature[c].doc /\ v.key = signature[c].key

\* A report never says that a document changed whose bytes were signed after
\* their URL had expired, whatever happened to the document since; and never
\* that a certificate is not revoked that was before the verification began.
VerdictIsFair ==
  \A w \in Workers : req[w].at = "report" =>
    /\ signature[req[w].cert].sealed => req[w].bytes # "changed"
    /\ req[w].was => ~req[w].good

(***************************************************************************)
(* The inductive invariant: what a request has read of a document is one   *)
(* of its versions, and an object whose URL has expired stays as it is.    *)
(***************************************************************************)

IsVersion(d, k) == \E v \in versions : v.doc = d /\ v.key = k

ObjectsOK == \A k \in Keys : url[k] = "none" => object[k] = None

NumbersOK ==
  /\ \A v \in versions : v.n \in 1 .. document[v.doc].n
  /\ \A d \in Docs :
       /\ document[d].at = "ABSENT" => document[d] = NoDocument
       /\ document[d].at # "ABSENT" =>
            [doc |-> d, n |-> document[d].n, key |-> document[d].key] \in versions
       /\ \A n \in 1 .. document[d].n : \E v \in versions : v.doc = d /\ v.n = n
  /\ \A u, v \in versions : u.key = v.key \/ (u.doc = v.doc /\ u.n = v.n) => u = v

SealedOK(s) == s.sealed => url[s.key] = "expired" /\ object[s.key] = s.content

SignaturesOK ==
  \A c \in Certs : signature[c] # NoSignature =>
    SealedOK(signature[c]) /\ IsVersion(signature[c].doc, signature[c].key)

\* A revocation is in both tables.
RevokedOK == \A c \in Certs : c \in revocation <=> cert[c].at = "REVOKED"

RequestOK(r) ==
  /\ r.at = "confirm" => r.doc \in Docs /\ r.key \in Keys
  /\ r.at \in {"number", "version"} =>
       /\ r.doc \in Docs /\ document[r.doc].at # "ABSENT"
       /\ r.n \in 2 .. document[r.doc].n + 1
  /\ r.at = "version" => r.key \in Keys
  /\ r.at = "delete" => r.doc \in Docs /\ document[r.doc].at # "ABSENT"
  /\ r.at \in {"sign", "certify", "store"} =>
       r.doc \in Docs /\ r.key \in Keys /\ IsVersion(r.doc, r.key)
  /\ r.at \in {"certify", "store"} => r.content \in Contents /\ SealedOK(r)
  /\ r.at \in {"store", "revoke"} => r.cert \in Certs
  /\ r.at = "revoke" => cert[r.cert].at # "none"
  /\ r.at \in {"verify", "status", "entry", "report"} =>
       r.cert \in Certs /\ signature[r.cert] # NoSignature
  /\ r.at \in {"status", "entry", "report"} =>
       (signature[r.cert].sealed => r.bytes # "changed")
  /\ r.at \in {"verify", "status", "entry"} => ~r.good
  /\ r.was =>
       r.at \in {"verify", "status", "entry", "report"} /\ r.cert \in revocation
  /\ r.was /\ r.at = "report" => ~r.good

\* A certificate signs once: it is new when it is made for a request.
CertsOK ==
  /\ \A c \in Certs : signature[c] # NoSignature => cert[c].at # "none"
  /\ \A w \in Workers : req[w].at = "store" =>
       cert[req[w].cert].at # "none" /\ signature[req[w].cert] = NoSignature
  /\ \A w, x \in Workers :
       req[w].at = "store" /\ req[x].at = "store" /\ req[w].cert = req[x].cert => w = x

IndInv ==
  /\ TypeOK
  /\ ObjectsOK
  /\ NumbersOK
  /\ SignaturesOK
  /\ RevokedOK
  /\ CertsOK
  /\ \A w \in Workers : RequestOK(req[w])
=============================================================================
