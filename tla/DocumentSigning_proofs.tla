----------------------- MODULE DocumentSigning_proofs -----------------------
(***************************************************************************)
(* Versions are numbered densely, signatures cover versions and reports    *)
(* are fair: the invariant of DocumentSigning, for any number of documents, *)
(* objects, certificates and requests.  At the end, the same for the CA    *)
(* behind the certificates: CertificateAuthority, for any instances.       *)
(***************************************************************************)
EXTENDS DocumentSigning, CertificateAuthority, TLAPS

\* What no step takes back.
Grows ==
  /\ \A d \in Docs :
       /\ document[d].at # "ABSENT" => document'[d].at # "ABSENT"
       /\ document[d].n <= document'[d].n
  /\ versions \subseteq versions'
  /\ \A c \in Certs :
       /\ cert[c].at # "none" => cert'[c].at # "none"
       /\ c \in revocation => c \in revocation'
       /\ signature[c] # NoSignature => signature'[c] = signature[c]
  /\ \A k \in Keys : url[k] = "expired" => url'[k] = "expired" /\ object'[k] = object[k]

LEMMA NoSignatureIsNone ==
  ASSUME NEW s \in Signature
  PROVE  s # NoSignature
BY NoneAssumption DEF Signature, NoSignature

LEMMA SealStays ==
  ASSUME Grows, NEW k \in Keys, url[k] = "expired", NEW c, object[k] = c
  PROVE  url'[k] = "expired" /\ object'[k] = c
BY DEF Grows

\* What a request has read stays true while others go on.
LEMMA RequestStays ==
  ASSUME IndInv, Grows, TypeOK', NEW w \in Workers, UNCHANGED req[w]
  PROVE  RequestOK(req[w])'
<1> DEFINE r == req[w]
<1>1. RequestOK(r) /\ r \in Request
  BY DEF IndInv, TypeOK
<1>2. ASSUME r.at \in {"number", "version"}
      PROVE  r.doc \in Docs /\ document'[r.doc].at # "ABSENT"
             /\ r.n \in 2 .. document'[r.doc].n + 1
  <2>1. r.doc \in Docs /\ document[r.doc].at # "ABSENT" /\ r.n \in 2 .. document[r.doc].n + 1
    BY <1>1, <1>2 DEF RequestOK
  <2>2. document[r.doc].n \in Nat /\ document'[r.doc].n \in Nat
    BY <2>1 DEF IndInv, TypeOK, Document
  <2>3. document'[r.doc].at # "ABSENT" /\ document[r.doc].n <= document'[r.doc].n
    BY <2>1 DEF Grows
  <2>4. QED
    BY <2>1, <2>2, <2>3
<1>3. ASSUME r.at = "delete" PROVE r.doc \in Docs /\ document'[r.doc].at # "ABSENT"
  BY <1>1, <1>3 DEF RequestOK, Grows
<1>4. ASSUME r.at \in {"sign", "certify", "store"}
      PROVE  r.doc \in Docs /\ r.key \in Keys
             /\ \E v \in versions' : v.doc = r.doc /\ v.key = r.key
  BY <1>1, <1>4 DEF RequestOK, IsVersion, Grows
<1>5. ASSUME r.at \in {"certify", "store"}
      PROVE  r.content \in Contents
             /\ (r.sealed => url'[r.key] = "expired" /\ object'[r.key] = r.content)
  BY <1>1, <1>5, SealStays DEF RequestOK, SealedOK
<1>6. ASSUME r.at = "revoke" PROVE cert'[r.cert].at # "none"
  BY <1>1, <1>6 DEF RequestOK, Grows
<1>7. ASSUME r.at \in {"verify", "status", "entry", "report"}
      PROVE  r.cert \in Certs /\ signature'[r.cert] # NoSignature
             /\ signature'[r.cert] = signature[r.cert]
  BY <1>1, <1>7 DEF RequestOK, Grows
<1>8. ASSUME r.was, r.at # "idle" PROVE r.cert \in revocation'
  <2>1. r.cert \in revocation
    BY <1>1, <1>8 DEF RequestOK
  <2>2. r.cert \in Certs
    BY <2>1 DEF IndInv, TypeOK
  <2>3. QED
    BY <2>1, <2>2 DEF Grows
<1>9. req'[w] = r
  OBVIOUS
<1> HIDE DEF r
<1>10. QED
  BY <1>1, <1>2, <1>3, <1>4, <1>5, <1>6, <1>7, <1>8, <1>9
     DEF RequestOK, SealedOK, IsVersion

\* An idle request has read nothing.
LEMMA IdleOK ==
  /\ Idle \in Request
  /\ \A r : r = Idle => RequestOK(r)
BY DEF Idle, Request, RequestOK

LEMMA IdleOKNext ==
  ASSUME NEW w \in Workers, req'[w] = Idle
  PROVE  RequestOK(req[w])'
BY DEF Idle, RequestOK

\* A step that leaves the stores alone and moves one request.
LEMMA GotoInv ==
  ASSUME IndInv, NEW w \in Workers, NEW r \in Request, Goto(w, r), RequestOK(r),
         r.at # "store", UNCHANGED <<bucket, papers, pki, signature>>
  PROVE  IndInv'
<1> USE DEF bucket, papers, pki
<1>1. req' = [req EXCEPT ![w] = r] /\ req \in [Workers -> Request]
  BY DEF Goto, IndInv, TypeOK
<1>2. TypeOK'
  BY <1>1 DEF IndInv, TypeOK
<1>3. ObjectsOK' /\ NumbersOK' /\ SignaturesOK' /\ RevokedOK'
  BY DEF IndInv, ObjectsOK, NumbersOK, SignaturesOK, RevokedOK, SealedOK, IsVersion
<1>4. CertsOK'
  <2>1. \A x \in Workers : req'[x].at = "store" => x # w /\ req'[x] = req[x]
    BY <1>1
  <2>2. QED
    BY <2>1 DEF IndInv, CertsOK
<1>5. ASSUME NEW x \in Workers PROVE RequestOK(req[x])'
  <2>1. CASE x = w
    <3>1. req'[x] = r
      BY <1>1, <2>1
    <3>2. QED
      BY <3>1 DEF RequestOK, SealedOK, IsVersion
  <2>2. CASE x # w
    <3>1. req'[x] = req[x] /\ RequestOK(req[x])
      BY <1>1, <2>2 DEF IndInv
    <3>2. QED
      BY <3>1 DEF RequestOK, SealedOK, IsVersion
  <2>3. QED
    BY <2>1, <2>2
<1>6. QED
  BY <1>2, <1>3, <1>4, <1>5 DEF IndInv

LEMMA InitInv == Init => IndInv
<1> SUFFICES ASSUME Init PROVE IndInv
  OBVIOUS
<1> USE DEF Init
<1>1. TypeOK
  BY IdleOK DEF TypeOK, Document, NoDocument, Certificate
<1>2. ObjectsOK /\ NumbersOK /\ SignaturesOK /\ RevokedOK
  BY DEF ObjectsOK, NumbersOK, SignaturesOK, RevokedOK, NoDocument
<1>3. CertsOK
  BY DEF CertsOK, Idle
<1>4. \A w \in Workers : RequestOK(req[w])
  BY IdleOK
<1>5. QED
  BY <1>1, <1>2, <1>3, <1>4 DEF IndInv

\* The steps that read, refuse or give up.
LEMMA ReadsInv ==
  ASSUME IndInv, NEW w \in Workers,
         \/ \E d \in Docs : \/ \E k \in Keys : StartConfirm(w, d, k)
                            \/ StartVersion(w, d)
                            \/ StartDelete(w, d)
                            \/ StartSign(w, d)
         \/ \E k \in Keys : HeadVersion(w, k)
         \/ RefuseRow(w)
         \/ \E c \in Certs : StartRevoke(w, c) \/ StartVerify(w, c)
         \/ ReadBytes(w)
         \/ CheckBytes(w)
         \/ ReadStatus(w)
         \/ ReadEntry(w)
         \/ Fail(w)
  PROVE  IndInv'
<1> DEFINE q == req[w]
<1>0. q \in Request /\ RequestOK(q) /\ TypeOK
  BY DEF IndInv, TypeOK
<1>1. ASSUME NEW d \in Docs, NEW k \in Keys, StartConfirm(w, d, k) PROVE IndInv'
  <2> DEFINE r == [Idle EXCEPT !.at = "confirm", !.doc = d, !.key = k]
  <2>1. r \in Request /\ RequestOK(r) /\ r.at # "store"
    BY DEF Request, Idle, RequestOK
  <2>2. Goto(w, r) /\ UNCHANGED <<bucket, papers, pki, signature>>
    BY <1>1 DEF StartConfirm
  <2> HIDE DEF r
  <2>3. QED
    BY <2>1, <2>2, GotoInv
<1>2. ASSUME NEW d \in Docs, StartVersion(w, d) PROVE IndInv'
  <2>1. document[d].n \in Nat /\ document[d].at = "ACTIVE"
    BY <1>0, <1>2 DEF StartVersion, TypeOK, Document
  <2>0. PICK m \in Nat : m = document[d].n + 1
    BY <2>1
  <2> DEFINE r == [Idle EXCEPT !.at = "number", !.doc = d, !.n = m]
  <2>2. document[d].n >= 1
    <3>1. [doc |-> d, n |-> document[d].n, key |-> document[d].key] \in versions
      BY <2>1 DEF IndInv, NumbersOK
    <3>2. document[d].n \in 1 .. document[d].n
      BY <3>1 DEF IndInv, NumbersOK
    <3>3. QED
      BY <2>1, <3>2
  <2>3. r \in Request /\ r.at = "number" /\ r.doc = d /\ r.n = document[d].n + 1 /\ ~r.was
    BY <2>0 DEF Request, Idle
  <2>4. Goto(w, r) /\ UNCHANGED <<bucket, papers, pki, signature>>
    BY <1>2, <2>0 DEF StartVersion
  <2> HIDE DEF r
  <2>5. RequestOK(r)
    BY <2>1, <2>2, <2>3 DEF RequestOK
  <2>6. QED
    BY <2>3, <2>4, <2>5, GotoInv
<1>3. ASSUME NEW d \in Docs, StartDelete(w, d) PROVE IndInv'
  <2> DEFINE r == [Idle EXCEPT !.at = "delete", !.doc = d]
  <2>1. r \in Request /\ RequestOK(r) /\ r.at # "store"
    BY <1>3 DEF Request, Idle, RequestOK, StartDelete
  <2>2. Goto(w, r) /\ UNCHANGED <<bucket, papers, pki, signature>>
    BY <1>3 DEF StartDelete
  <2> HIDE DEF r
  <2>3. QED
    BY <2>1, <2>2, GotoInv
<1>4. ASSUME NEW d \in Docs, StartSign(w, d) PROVE IndInv'
  <2> DEFINE k == document[d].key
             r == [Idle EXCEPT !.at = "sign", !.doc = d, !.key = k]
  <2>1. [doc |-> d, n |-> document[d].n, key |-> k] \in versions
    BY <1>4 DEF StartSign, IndInv, NumbersOK
  <2>2. IsVersion(d, k) /\ k \in Keys
    BY <1>0, <2>1 DEF IsVersion, TypeOK, Version
  <2>3. r \in Request /\ RequestOK(r) /\ r.at # "store"
    BY <2>2 DEF Request, Idle, RequestOK
  <2>4. Goto(w, r) /\ UNCHANGED <<bucket, papers, pki, signature>>
    BY <1>4 DEF StartSign
  <2> HIDE DEF r
  <2>5. QED
    BY <2>3, <2>4, GotoInv
<1>5. ASSUME NEW k \in Keys, HeadVersion(w, k) PROVE IndInv'
  <2> DEFINE r == [q EXCEPT !.at = "version", !.key = k]
  <2>1. r \in Request /\ RequestOK(r) /\ r.at # "store"
    BY <1>0, <1>5 DEF Request, RequestOK, HeadVersion
  <2>2. Goto(w, r) /\ UNCHANGED <<bucket, papers, pki, signature>>
    BY <1>5 DEF HeadVersion
  <2> HIDE DEF r
  <2>3. QED
    BY <2>1, <2>2, GotoInv
<1>6. ASSUME NEW c \in Certs, StartRevoke(w, c) PROVE IndInv'
  <2> DEFINE r == [Idle EXCEPT !.at = "revoke", !.cert = c]
  <2>1. r \in Request /\ RequestOK(r) /\ r.at # "store"
    BY <1>6 DEF Request, Idle, RequestOK, StartRevoke
  <2>2. Goto(w, r) /\ UNCHANGED <<bucket, papers, pki, signature>>
    BY <1>6 DEF StartRevoke
  <2> HIDE DEF r
  <2>3. QED
    BY <2>1, <2>2, GotoInv
<1>7. ASSUME NEW c \in Certs, StartVerify(w, c) PROVE IndInv'
  <2>0. PICK b \in BOOLEAN : b = (c \in revocation)
    <3>1. (c \in revocation) \in BOOLEAN
      OBVIOUS
    <3>2. QED
      BY <3>1, Zenon
  <2> DEFINE r == [Idle EXCEPT !.at = "verify", !.cert = c, !.was = b]
  <2>1. r \in Request
    BY DEF Request, Idle
  <2>2. /\ r.at = "verify" /\ r.cert = c /\ ~r.good
        /\ r.was => c \in revocation
    BY <2>0 DEF Idle
  <2>3. RequestOK(r)
    <3> HIDE DEF r
    <3>1. QED
      BY <1>7, <2>2 DEF RequestOK, StartVerify
  <2>4. Goto(w, r) /\ UNCHANGED <<bucket, papers, pki, signature>>
    BY <1>7, <2>0 DEF StartVerify
  <2> HIDE DEF r
  <2>5. QED
    BY <2>1, <2>2, <2>3, <2>4, GotoInv
<1>8. ASSUME ReadBytes(w) PROVE IndInv'
  <2> DEFINE k == q.key
             r == [q EXCEPT !.at = "certify", !.content = object[k],
                            !.sealed = (url[k] = "expired")]
  <2>1. k \in Keys /\ q.doc \in Docs /\ IsVersion(q.doc, k) /\ q.at = "sign"
    BY <1>0, <1>8 DEF RequestOK, ReadBytes
  <2>2. object[k] \in Contents
    BY <1>0, <1>8, <2>1 DEF ReadBytes, TypeOK
  <2>3. r \in Request
    BY <1>0, <2>2 DEF Request
  <2>4. /\ r.at = "certify" /\ r.key = k /\ r.doc = q.doc /\ r.content = object[k]
        /\ r.sealed => url[k] = "expired"
        /\ r.was = q.was /\ r.cert = q.cert
    BY <1>0 DEF Request
  <2>5. RequestOK(r)
    <3>1. ~q.was
      BY <1>0, <2>1 DEF RequestOK
    <3> HIDE DEF r, q, k
    <3>2. QED
      BY <2>1, <2>2, <2>4, <3>1 DEF RequestOK, SealedOK
  <2>6. Goto(w, r) /\ UNCHANGED <<bucket, papers, pki, signature>>
    BY <1>8 DEF ReadBytes
  <2> HIDE DEF r
  <2>7. QED
    BY <2>3, <2>4, <2>5, <2>6, GotoInv
<1>9. ASSUME CheckBytes(w) PROVE IndInv'
  <2> DEFINE c == q.cert
  <2>1. q.at = "verify" /\ c \in Certs /\ signature[c] # NoSignature /\ ~q.good
    BY <1>0, <1>9 DEF RequestOK, CheckBytes
  <2>2. signature[c].sealed => object[SignedKey(c)] = signature[c].content
    BY <2>1 DEF IndInv, SignaturesOK, SealedOK, SignedKey
  <2>3. PICK b \in {"unread", "same", "changed"} :
          /\ Goto(w, [q EXCEPT !.at = "status", !.bytes = b])
          /\ b = "changed" => object[SignedKey(c)] # signature[c].content
    BY <1>9 DEF CheckBytes
  <2> DEFINE r == [q EXCEPT !.at = "status", !.bytes = b]
  <2>4. /\ r \in Request /\ r.at = "status" /\ r.bytes = b /\ r.cert = c
        /\ r.good = q.good /\ r.was = q.was
    BY <1>0 DEF Request
  <2>5. RequestOK(r)
    <3>1. q.was => c \in revocation
      BY <1>0, <2>1 DEF RequestOK
    <3> HIDE DEF r, q, c
    <3>2. QED
      BY <2>1, <2>2, <2>3, <2>4, <3>1 DEF RequestOK
  <2>6. Goto(w, r) /\ UNCHANGED <<bucket, papers, pki, signature>>
    BY <1>9, <2>3 DEF CheckBytes
  <2> HIDE DEF r
  <2>7. QED
    BY <2>4, <2>5, <2>6, GotoInv
<1>10. ASSUME ReadStatus(w) PROVE IndInv'
  <2> DEFINE r == [q EXCEPT !.at = IF cert[q.cert].at = "REVOKED" THEN "report"
                                   ELSE "entry"]
  <2>1. q.at = "status"
    BY <1>10 DEF ReadStatus
  <2>2. r \in Request /\ r.at \in {"entry", "report"} /\ r = [q EXCEPT !.at = r.at]
    BY <1>0 DEF Request
  <2>3. RequestOK(r)
    BY <1>0, <2>1, <2>2 DEF RequestOK, Request
  <2>4. Goto(w, r) /\ UNCHANGED <<bucket, papers, pki, signature>>
    BY <1>10 DEF ReadStatus
  <2> HIDE DEF r
  <2>5. QED
    BY <2>2, <2>3, <2>4, GotoInv
<1>11. ASSUME ReadEntry(w) PROVE IndInv'
  <2> DEFINE r == [q EXCEPT !.at = "report", !.good = (q.cert \notin revocation)]
  <2>1. q.at = "entry"
    BY <1>11 DEF ReadEntry
  <2>2. /\ r \in Request /\ r.at = "report" /\ r.cert = q.cert /\ r.bytes = q.bytes
        /\ r.was = q.was /\ (r.good => q.cert \notin revocation)
    BY <1>0 DEF Request
  <2>3. RequestOK(r)
    <3>1. /\ q.was => q.cert \in revocation
          /\ q.cert \in Certs /\ signature[q.cert] # NoSignature
          /\ signature[q.cert].sealed => q.bytes # "changed"
      BY <1>0, <2>1 DEF RequestOK
    <3> HIDE DEF r, q
    <3>2. QED
      BY <2>2, <3>1 DEF RequestOK
  <2>4. Goto(w, r) /\ UNCHANGED <<bucket, papers, pki, signature>>
    BY <1>11 DEF ReadEntry
  <2> HIDE DEF r
  <2>5. QED
    BY <2>2, <2>3, <2>4, GotoInv
<1>12. ASSUME RefuseRow(w) \/ Fail(w) PROVE IndInv'
  <2>1. Goto(w, Idle) /\ UNCHANGED <<bucket, papers, pki, signature>>
    BY <1>12 DEF RefuseRow, Fail
  <2>2. Idle.at # "store"
    BY DEF Idle
  <2>3. QED
    BY <2>1, <2>2, IdleOK, GotoInv
<1>13. QED
  BY <1>1, <1>2, <1>3, <1>4, <1>5, <1>6, <1>7, <1>8, <1>9, <1>10, <1>11, <1>12

\* A step that moves no request to another document, key or certificate.
LEMMA OthersInv ==
  ASSUME IndInv, Grows, TypeOK', ObjectsOK', NumbersOK', SignaturesOK', RevokedOK', CertsOK',
         \A x \in Workers : req'[x] = req[x] \/ req'[x] = Idle \/ RequestOK(req[x])'
  PROVE  IndInv'
<1>1. ASSUME NEW x \in Workers PROVE RequestOK(req[x])'
  <2>1. CASE req'[x] = req[x]
    BY <2>1, RequestStays
  <2>2. CASE req'[x] = Idle
    BY <2>2, IdleOKNext
  <2>3. QED
    BY <2>1, <2>2
<1>2. QED
  BY <1>1 DEF IndInv

\* Only the bucket changes.
LEMMA BucketInv ==
  ASSUME IndInv, UNCHANGED <<papers, pki, signature, req>>,
         url' \in [Keys -> {"none", "open", "expired"}],
         object' \in [Keys -> Contents \cup {None}],
         \A k \in Keys :
           /\ url[k] = "expired" => url'[k] = "expired" /\ object'[k] = object[k]
           /\ url'[k] = "none" => url[k] = "none" /\ object'[k] = object[k]
  PROVE  IndInv'
<1> USE DEF papers, pki
<1>1. Grows
  BY DEF Grows, IndInv, TypeOK, Document
<1>2. TypeOK'
  BY DEF IndInv, TypeOK
<1>3. ObjectsOK'
  BY DEF IndInv, ObjectsOK
<1>4. NumbersOK' /\ RevokedOK' /\ CertsOK'
  BY DEF IndInv, NumbersOK, RevokedOK, CertsOK
<1>5. SignaturesOK'
  <2> SUFFICES ASSUME NEW c \in Certs, signature[c] # NoSignature
               PROVE  SealedOK(signature[c])' /\ IsVersion(signature[c].doc, signature[c].key)'
    BY DEF SignaturesOK
  <2>1. signature[c] \in Signature
    BY DEF IndInv, TypeOK
  <2>2. SealedOK(signature[c]) /\ IsVersion(signature[c].doc, signature[c].key)
    BY DEF IndInv, SignaturesOK
  <2>3. QED
    BY <2>1, <2>2 DEF SealedOK, IsVersion, Signature
<1>6. QED
  BY <1>1, <1>2, <1>3, <1>4, <1>5, OthersInv

LEMMA BucketStepsInv ==
  ASSUME IndInv, NEW k \in Keys,
         RequestUploadUrl(k) \/ (\E c \in Contents : Put(k, c)) \/ ExpireUrl(k)
  PROVE  IndInv'
<1>0. TypeOK
  BY DEF IndInv
<1>1. CASE RequestUploadUrl(k)
  BY <1>0, <1>1, BucketInv DEF RequestUploadUrl, TypeOK, bucket, papers, pki
<1>2. ASSUME NEW c \in Contents, Put(k, c) PROVE IndInv'
  BY <1>0, <1>2, BucketInv DEF Put, TypeOK, bucket, papers, pki
<1>3. CASE ExpireUrl(k)
  BY <1>0, <1>3, BucketInv DEF ExpireUrl, TypeOK, bucket, papers, pki
<1>4. QED
  BY <1>1, <1>2, <1>3

\* A version is added with the number after the document's last.
LEMMA AddVersionInv ==
  ASSUME IndInv, NEW w \in Workers, NEW d \in Docs, NEW k \in Keys, NEW n \in Nat, NEW at,
         at \in {"ACTIVE", "DELETED"}, n = document[d].n + 1, Unique(d, n, k),
         document' = [document EXCEPT ![d] = [at |-> at, key |-> k, n |-> n]],
         versions' = versions \cup {[doc |-> d, n |-> n, key |-> k]},
         Goto(w, Idle), UNCHANGED <<bucket, pki, signature>>
  PROVE  IndInv'
<1> DEFINE new == [doc |-> d, n |-> n, key |-> k]
<1> USE DEF bucket, pki
<1>1. TypeOK /\ document[d].n \in Nat
  BY DEF IndInv, TypeOK, Document
<1>2. TypeOK' /\ new \in Version
  BY <1>1, IdleOK DEF TypeOK, Document, Version, Goto
<1>3. /\ document'[d] = [at |-> at, key |-> k, n |-> n]
      /\ \A e \in Docs \ {d} : document'[e] = document[e]
  BY <1>1 DEF TypeOK
<1>4. Grows
  <2>1. \A e \in Docs : document[e].n \in Nat
    BY <1>1 DEF TypeOK, Document
  <2>2. \A e \in Docs : /\ document[e].at # "ABSENT" => document'[e].at # "ABSENT"
                        /\ document[e].n <= document'[e].n
    BY <1>3, <2>1
  <2>3. QED
    BY <2>2 DEF Grows
<1>5. NumbersOK'
  <2>1. \A v \in versions' : v.n \in 1 .. document'[v.doc].n
    <3> SUFFICES ASSUME NEW v \in versions' PROVE v.n \in 1 .. document'[v.doc].n
      OBVIOUS
    <3>1. CASE v = new
      BY <1>1, <1>3, <3>1
    <3>2. CASE v \in versions
      <4>1. v.n \in 1 .. document[v.doc].n /\ v.doc \in Docs
        BY <1>1, <3>2 DEF IndInv, NumbersOK, TypeOK, Version
      <4>2. document[v.doc].n \in Nat
        BY <1>1, <4>1 DEF TypeOK, Document
      <4>3. QED
        BY <1>1, <1>3, <4>1, <4>2
    <3>3. QED
      BY <3>1, <3>2
  <2>2. \A e \in Docs : document'[e].at = "ABSENT" => document'[e] = NoDocument
    <3>1. document'[d].at # "ABSENT"
      BY <1>3
    <3>2. \A e \in Docs : document[e].at = "ABSENT" => document[e] = NoDocument
      BY DEF IndInv, NumbersOK
    <3>3. QED
      BY <3>1, <3>2, <1>3
  <2>3. \A e \in Docs : document'[e].at # "ABSENT" =>
          [doc |-> e, n |-> document'[e].n, key |-> document'[e].key] \in versions'
    <3> SUFFICES ASSUME NEW e \in Docs, document'[e].at # "ABSENT"
                 PROVE  [doc |-> e, n |-> document'[e].n, key |-> document'[e].key] \in versions'
      OBVIOUS
    <3>1. CASE e = d
      BY <1>3, <3>1
    <3>2. CASE e # d
      BY <1>3, <3>2 DEF IndInv, NumbersOK
    <3>3. QED
      BY <3>1, <3>2
  <2>4. \A e \in Docs : \A m \in 1 .. document'[e].n :
          \E v \in versions' : v.doc = e /\ v.n = m
    <3> SUFFICES ASSUME NEW e \in Docs, NEW m \in 1 .. document'[e].n
                 PROVE  \E v \in versions' : v.doc = e /\ v.n = m
      OBVIOUS
    <3>1. CASE m \in 1 .. document[e].n
      <4>1. \A i \in 1 .. document[e].n : \E v \in versions : v.doc = e /\ v.n = i
        BY DEF IndInv, NumbersOK
      <4>2. PICK v \in versions : v.doc = e /\ v.n = m
        BY <3>1, <4>1
      <4>3. QED
        BY <4>2
    <3>2. CASE m \notin 1 .. document[e].n
      <4>1. e = d /\ m = n
        BY <1>1, <1>3, <3>2
      <4>2. new \in versions' /\ new.doc = e /\ new.n = m
        BY <4>1
      <4>3. QED
        BY <4>2
    <3>3. QED
      BY <3>1, <3>2
  <2>5. \A u, v \in versions' : u.key = v.key \/ (u.doc = v.doc /\ u.n = v.n) => u = v
    <3>1. \A v \in versions : v.key # k /\ ~(v.doc = d /\ v.n = n)
      BY DEF Unique, Taken
    <3>2. \A u, v \in versions : u.key = v.key \/ (u.doc = v.doc /\ u.n = v.n) => u = v
      BY DEF IndInv, NumbersOK
    <3>3. new.key = k /\ new.doc = d /\ new.n = n
      OBVIOUS
    <3> HIDE DEF new
    <3>4. \A v \in versions' : v = new \/ v \in versions
      BY DEF new
    <3>5. QED
      BY <3>1, <3>2, <3>3, <3>4
  <2>6. QED
    BY <2>1, <2>2, <2>3, <2>4, <2>5 DEF NumbersOK
<1>6. ObjectsOK' /\ RevokedOK'
  BY DEF IndInv, ObjectsOK, RevokedOK
<1>7. SignaturesOK'
  BY DEF IndInv, SignaturesOK, SealedOK, IsVersion
<1>8. CertsOK' /\ \A x \in Workers : req'[x] = req[x] \/ req'[x] = Idle
  <2>1. \A x \in Workers : req'[x] = IF x = w THEN Idle ELSE req[x]
    BY <1>1 DEF Goto, TypeOK
  <2>2. Idle.at # "store"
    BY DEF Idle
  <2>3. QED
    BY <2>1, <2>2 DEF IndInv, CertsOK
<1>9. QED
  BY <1>2, <1>4, <1>5, <1>6, <1>7, <1>8, OthersInv

LEMMA CommitConfirmInv ==
  ASSUME IndInv, NEW w \in Workers, CommitConfirm(w)
  PROVE  IndInv'
<1> DEFINE d == req[w].doc
           k == req[w].key
<1>1. d \in Docs /\ k \in Keys /\ document[d].at = "ABSENT"
  BY DEF IndInv, RequestOK, CommitConfirm
<1>2. document[d].n = 0
  <2>1. document[d] = NoDocument
    BY <1>1 DEF IndInv, NumbersOK
  <2>2. QED
    BY <2>1 DEF NoDocument
<1>3. PICK dd \in Docs, kk \in Keys : dd = d /\ kk = k
  BY <1>1
<1>4. /\ document' = [document EXCEPT ![dd] = [at |-> "ACTIVE", key |-> kk, n |-> 1]]
      /\ versions' = versions \cup {[doc |-> dd, n |-> 1, key |-> kk]}
      /\ Unique(dd, 1, kk) /\ Goto(w, Idle) /\ UNCHANGED <<bucket, pki, signature>>
  BY <1>3 DEF CommitConfirm
<1>5. 1 = document[dd].n + 1 /\ 1 \in Nat
  BY <1>2, <1>3
<1>6. QED
  BY <1>4, <1>5, AddVersionInv

\* The number read may be outdated: then it is taken.
LEMMA CommitVersionInv ==
  ASSUME IndInv, NEW w \in Workers, CommitVersion(w)
  PROVE  IndInv'
<1>1. /\ req[w].doc \in Docs /\ req[w].key \in Keys
      /\ document[req[w].doc].at # "ABSENT"
      /\ req[w].n \in 2 .. document[req[w].doc].n + 1
  BY DEF IndInv, RequestOK, CommitVersion
<1>2. PICK d \in Docs, k \in Keys : d = req[w].doc /\ k = req[w].key
  BY <1>1
<1>3. document[d] \in Document
  BY DEF IndInv, TypeOK
<1>4. PICK n \in Nat : n = req[w].n
  BY <1>1, <1>2, <1>3 DEF Document
<1>5. Unique(d, n, k)
  BY <1>2, <1>4 DEF CommitVersion
<1>6. n = document[d].n + 1
  <2>1. n \in 2 .. document[d].n + 1 /\ document[d].n \in Nat
    BY <1>1, <1>2, <1>3, <1>4 DEF Document
  <2>2. n \notin 1 .. document[d].n
    <3> SUFFICES ASSUME n \in 1 .. document[d].n PROVE FALSE
      OBVIOUS
    <3>1. \E v \in versions : v.doc = d /\ v.n = n
      BY DEF IndInv, NumbersOK
    <3>2. QED
      BY <3>1, <1>5 DEF Unique, Taken
  <2>3. QED
    BY <2>1, <2>2
<1>7. PICK at \in {"ACTIVE", "DELETED"} : at = document[d].at
  BY <1>1, <1>2, <1>3 DEF Document
<1>8. document' = [document EXCEPT ![d] = [at |-> at, key |-> k, n |-> n]]
  <2>1. document' = Pointed(d, k, n)
    BY <1>2, <1>4 DEF CommitVersion
  <2>3. Pointed(d, k, n) = [document EXCEPT ![d] = [at |-> at, key |-> k, n |-> n]]
    BY <1>7 DEF Pointed
  <2>4. QED
    BY <2>1, <2>3
<1>9. versions' = versions \cup {[doc |-> d, n |-> n, key |-> k]}
  BY <1>2, <1>4 DEF CommitVersion
<1>10. Goto(w, Idle) /\ UNCHANGED <<bucket, pki, signature>>
  BY DEF CommitVersion
<1>11. QED
  BY <1>5, <1>6, <1>8, <1>9, <1>10, AddVersionInv

\* A deletion leaves the document's key and number as they are.
LEMMA CommitDeleteInv ==
  ASSUME IndInv, NEW w \in Workers, CommitDelete(w)
  PROVE  IndInv'
<1> USE DEF bucket, pki
<1>1. req[w].doc \in Docs /\ document[req[w].doc].at # "ABSENT"
  BY DEF IndInv, RequestOK, CommitDelete
<1>2. PICK d \in Docs : d = req[w].doc
  BY <1>1
<1>3. /\ document' = [document EXCEPT ![d].at = "DELETED"]
      /\ Goto(w, Idle) /\ UNCHANGED <<bucket, versions, pki, signature>>
  BY <1>2 DEF CommitDelete
<1>4. TypeOK
  BY DEF IndInv
<1>5. \A e \in Docs :
        /\ document'[e].key = document[e].key /\ document'[e].n = document[e].n
        /\ document'[e].at = IF e = d THEN "DELETED" ELSE document[e].at
        /\ e # d => document'[e] = document[e]
        /\ document[e].n \in Nat
  BY <1>3, <1>4 DEF TypeOK, Document
<1>6. Grows
  BY <1>1, <1>2, <1>3, <1>5 DEF Grows
<1>7. TypeOK'
  BY <1>3, <1>4, IdleOK DEF TypeOK, Document, Goto
<1>8. NumbersOK'
  <2>1. \A v \in versions' : v.n \in 1 .. document'[v.doc].n
    BY <1>3, <1>4, <1>5 DEF IndInv, NumbersOK, TypeOK, Version
  <2>2. \A e \in Docs : document'[e].at = "ABSENT" => document'[e] = NoDocument
    BY <1>5 DEF IndInv, NumbersOK
  <2>3. \A e \in Docs : document'[e].at # "ABSENT" =>
          [doc |-> e, n |-> document'[e].n, key |-> document'[e].key] \in versions'
    BY <1>1, <1>2, <1>3, <1>5 DEF IndInv, NumbersOK
  <2>4. \A e \in Docs : \A m \in 1 .. document'[e].n :
          \E v \in versions' : v.doc = e /\ v.n = m
    <3>1. \A e \in Docs : \A m \in 1 .. document[e].n :
            \E v \in versions : v.doc = e /\ v.n = m
      BY DEF IndInv, NumbersOK
    <3>2. versions' = versions /\ \A e \in Docs : document'[e].n = document[e].n
      BY <1>3, <1>5
    <3>3. QED
      BY <3>1, <3>2, Zenon
  <2>5. \A u, v \in versions' : u.key = v.key \/ (u.doc = v.doc /\ u.n = v.n) => u = v
    BY <1>3 DEF IndInv, NumbersOK
  <2>6. QED
    BY <2>1, <2>2, <2>3, <2>4, <2>5 DEF NumbersOK
<1>9. ObjectsOK' /\ RevokedOK'
  BY <1>3 DEF IndInv, ObjectsOK, RevokedOK
<1>10. SignaturesOK'
  BY <1>3 DEF IndInv, SignaturesOK, SealedOK, IsVersion
<1>11. CertsOK' /\ \A x \in Workers : req'[x] = req[x] \/ req'[x] = Idle
  <2>1. \A x \in Workers : req'[x] = IF x = w THEN Idle ELSE req[x]
    BY <1>3, <1>4 DEF Goto, TypeOK
  <2>2. Idle.at # "store"
    BY DEF Idle
  <2>3. QED
    BY <1>3, <2>1, <2>2 DEF IndInv, CertsOK
<1>12. QED
  BY <1>6, <1>7, <1>8, <1>9, <1>10, <1>11, OthersInv

\* Only certificates and revocations change, and a request may end.
LEMMA PkiInv ==
  ASSUME IndInv, TypeOK', RevokedOK',
         UNCHANGED <<bucket, papers, signature>>,
         \A c \in Certs : /\ cert[c].at # "none" => cert'[c].at # "none"
                          /\ c \in revocation => c \in revocation',
         \A x \in Workers : req'[x] = req[x] \/ req'[x] = Idle
  PROVE  IndInv'
<1> USE DEF bucket, papers
<1>1. TypeOK
  BY DEF IndInv
<1>2. Grows
  BY <1>1 DEF Grows, TypeOK, Document
<1>3. ObjectsOK' /\ NumbersOK'
  BY DEF IndInv, ObjectsOK, NumbersOK
<1>4. SignaturesOK'
  BY DEF IndInv, SignaturesOK, SealedOK, IsVersion
<1>6. CertsOK'
  <2>1. Idle.at # "store"
    BY DEF Idle
  <2>2. \A x \in Workers : req'[x].at = "store" => req'[x] = req[x] /\ req[x].cert \in Certs
    <3>1. \A x \in Workers : req[x].at = "store" => req[x].cert \in Certs
      BY DEF IndInv, RequestOK
    <3>2. QED
      BY <2>1, <3>1
  <2>3. QED
    BY <2>2 DEF IndInv, CertsOK
<1>7. QED
  BY <1>2, <1>3, <1>4, <1>6, OthersInv

LEMMA PkiStepsInv ==
  ASSUME IndInv,
         \/ \E c \in Certs : Issue(c) \/ Outlive(c)
         \/ \E w \in Workers : CommitRevoke(w)
  PROVE  IndInv'
<1>0. TypeOK /\ RevokedOK /\ IdleOK
  BY IdleOK DEF IndInv
<1> USE DEF bucket, papers, pki
<1>1. ASSUME NEW c \in Certs, Issue(c) PROVE IndInv'
  <2>1. /\ cert[c].at = "none" /\ cert' = [cert EXCEPT ![c].at = "ACTIVE"]
        /\ UNCHANGED <<bucket, papers, revocation, signature, req>>
    BY <1>1 DEF Issue, Persisted
  <2>2. TypeOK'
    BY <1>0, <2>1 DEF TypeOK, Certificate
  <2>3. RevokedOK'
    BY <1>0, <2>1 DEF RevokedOK, TypeOK, Certificate
  <2>4. \A x \in Certs : cert[x].at # "none" => cert'[x].at # "none"
    BY <1>0, <2>1 DEF TypeOK, Certificate
  <2>5. QED
    BY <2>1, <2>2, <2>3, <2>4, PkiInv
<1>2. ASSUME NEW c \in Certs, Outlive(c) PROVE IndInv'
  <2>1. /\ cert' = [cert EXCEPT ![c].past = TRUE]
        /\ UNCHANGED <<bucket, papers, revocation, signature, req>>
    BY <1>2 DEF Outlive
  <2>2. TypeOK'
    BY <1>0, <2>1 DEF TypeOK, Certificate
  <2>3. RevokedOK'
    BY <1>0, <2>1 DEF RevokedOK, TypeOK, Certificate
  <2>4. \A x \in Certs : cert[x].at # "none" => cert'[x].at # "none"
    BY <1>0, <2>1 DEF TypeOK, Certificate
  <2>5. QED
    BY <2>1, <2>2, <2>3, <2>4, PkiInv
<1>3. ASSUME NEW w \in Workers, CommitRevoke(w) PROVE IndInv'
  <2>1. req[w].cert \in Certs
    BY <1>3 DEF CommitRevoke, IndInv, RequestOK
  <2>2. PICK c \in Certs : c = req[w].cert
    BY <2>1
  <2>3. Goto(w, Idle) /\ UNCHANGED <<bucket, papers, signature>>
    BY <1>3 DEF CommitRevoke
  <2>0. \A x \in Workers : req'[x] = req[x] \/ req'[x] = Idle
    BY <1>0, <2>3 DEF Goto, TypeOK
  <2>4. CASE c \in revocation
    <3>1. UNCHANGED pki
      BY <1>3, <2>2, <2>4 DEF CommitRevoke
    <3>2. TypeOK'
      BY <1>0, <2>3, <3>1, IdleOK DEF TypeOK, Goto
    <3>3. RevokedOK'
      BY <1>0, <3>1 DEF RevokedOK
    <3>4. QED
      BY <2>0, <2>3, <3>1, <3>2, <3>3, PkiInv
  <2>5. CASE c \notin revocation
    <3>1. revocation' = revocation \cup {c} /\ cert' = [cert EXCEPT ![c].at = "REVOKED"]
      BY <1>3, <2>2, <2>5 DEF CommitRevoke
    <3>2. TypeOK'
      BY <1>0, <2>3, <3>1, IdleOK DEF TypeOK, Goto, Certificate
    <3>3. RevokedOK'
      BY <1>0, <3>1 DEF RevokedOK, TypeOK, Certificate
    <3>4. \A x \in Certs : cert[x].at # "none" => cert'[x].at # "none"
      BY <1>0, <3>1 DEF TypeOK, Certificate
    <3>5. QED
      BY <2>0, <2>3, <3>1, <3>2, <3>3, <3>4, PkiInv
  <2>6. QED
    BY <2>4, <2>5
<1>4. QED
  BY <1>1, <1>2, <1>3

\* The certificate made for a signature is new.
LEMMA CertifyInv ==
  ASSUME IndInv, NEW w \in Workers, NEW c \in Certs, Certify(w, c)
  PROVE  IndInv'
<1> USE DEF bucket, papers
<1> DEFINE q == req[w]
           r == [q EXCEPT !.at = "store", !.cert = c]
<1>1. /\ q.at = "certify" /\ cert[c].at = "none" /\ Goto(w, r)
      /\ cert' = [cert EXCEPT ![c].at = "ACTIVE"]
      /\ UNCHANGED <<bucket, papers, revocation, signature>>
  BY DEF Certify, Persisted
<1>2. TypeOK /\ q \in Request /\ RequestOK(q)
  BY DEF IndInv, TypeOK
<1>3. r \in Request
  BY <1>2 DEF Request
<1>4. /\ r.at = "store" /\ r.cert = c /\ r.doc = q.doc /\ r.key = q.key
      /\ r.content = q.content /\ r.sealed = q.sealed /\ r.was = q.was
  BY <1>2 DEF Request
<1>5. \A x \in Workers : req'[x] = IF x = w THEN r ELSE req[x]
  BY <1>1, <1>2 DEF Goto, TypeOK
<1>6. /\ cert'[c].at = "ACTIVE"
      /\ \A x \in Certs \ {c} : cert'[x] = cert[x]
  BY <1>1, <1>2 DEF TypeOK, Certificate
<1>7. TypeOK'
  BY <1>1, <1>2, <1>3 DEF TypeOK, Goto, Certificate
<1>8. Grows
  BY <1>1, <1>2, <1>6 DEF Grows, TypeOK, Document
<1>9. ObjectsOK' /\ NumbersOK'
  BY <1>1 DEF IndInv, ObjectsOK, NumbersOK
<1>10. SignaturesOK'
  BY <1>1 DEF IndInv, SignaturesOK, SealedOK, IsVersion
<1>11. RevokedOK'
  BY <1>1, <1>6 DEF IndInv, RevokedOK
<1>12. signature[c] = NoSignature
  BY <1>1 DEF IndInv, CertsOK
<1>13. \A x \in Workers : req[x].at = "store" => req[x].cert # c /\ req[x].cert \in Certs
  BY <1>1 DEF IndInv, CertsOK, RequestOK
<1>14. CertsOK'
  <2>1. \A x \in Certs : signature'[x] # NoSignature => cert'[x].at # "none"
    BY <1>1, <1>6 DEF IndInv, CertsOK
  <2>2. \A x \in Workers : req'[x].at = "store" =>
          cert'[req'[x].cert].at # "none" /\ signature'[req'[x].cert] = NoSignature
    <3> HIDE DEF r, q
    <3>1. QED
      BY <1>1, <1>4, <1>5, <1>6, <1>12, <1>13 DEF IndInv, CertsOK
  <2>3. \A x, y \in Workers :
          req'[x].at = "store" /\ req'[y].at = "store" /\ req'[x].cert = req'[y].cert => x = y
    <3> HIDE DEF r, q
    <3>1. QED
      BY <1>4, <1>5, <1>13 DEF IndInv, CertsOK
  <2>4. QED
    BY <2>1, <2>2, <2>3 DEF CertsOK
<1>15. RequestOK(req[w])'
  <2>1. req'[w] = r
    BY <1>5
  <2>2. /\ q.doc \in Docs /\ q.key \in Keys /\ IsVersion(q.doc, q.key)
        /\ q.content \in Contents /\ SealedOK(q)
    BY <1>1, <1>2 DEF RequestOK
  <2>3. ~q.was
    BY <1>1, <1>2 DEF RequestOK
  <2> HIDE DEF r, q
  <2>4. QED
    BY <1>1, <1>4, <2>1, <2>2, <2>3 DEF RequestOK, SealedOK, IsVersion
<1>16. \A x \in Workers : req'[x] = req[x] \/ RequestOK(req[x])'
  <2> HIDE DEF r, q
  <2>1. QED
    BY <1>5, <1>15
<1>17. QED
  BY <1>7, <1>8, <1>9, <1>10, <1>11, <1>14, <1>16, OthersInv

\* What is stored is what was read: the bytes of a version.
LEMMA StoreInv ==
  ASSUME IndInv, NEW w \in Workers, Store(w)
  PROVE  IndInv'
<1> USE DEF bucket, papers, pki
<1>1. TypeOK /\ req[w].at = "store" /\ RequestOK(req[w])
  BY DEF Store, IndInv
<1>2. /\ req[w].cert \in Certs /\ req[w].doc \in Docs /\ req[w].key \in Keys
      /\ IsVersion(req[w].doc, req[w].key) /\ req[w].content \in Contents
      /\ SealedOK(req[w])
      /\ cert[req[w].cert].at # "none" /\ signature[req[w].cert] = NoSignature
  BY <1>1 DEF RequestOK, IndInv, CertsOK
<1>3. PICK c \in Certs : c = req[w].cert
  BY <1>2
<1>4. PICK s \in Signature :
        s = [key |-> req[w].key, content |-> req[w].content, doc |-> req[w].doc,
             sealed |-> req[w].sealed]
  BY <1>1, <1>2 DEF Signature, TypeOK, Request
<1>5. /\ s.key = req[w].key /\ s.content = req[w].content /\ s.doc = req[w].doc
      /\ s.sealed = req[w].sealed /\ s # NoSignature
  BY <1>4, NoSignatureIsNone
<1>6. /\ signature' = [signature EXCEPT ![c] = s] /\ Goto(w, Idle)
      /\ UNCHANGED <<bucket, papers, pki>>
  BY <1>3, <1>4 DEF Store
<1>7. /\ signature'[c] = s
      /\ \A x \in Certs \ {c} : signature'[x] = signature[x]
  BY <1>1, <1>6 DEF TypeOK
<1>8. TypeOK'
  BY <1>1, <1>6, IdleOK DEF TypeOK, Goto
<1>9. Grows
  <2>1. \A d \in Docs : document[d].n \in Nat
    BY <1>1 DEF TypeOK, Document
  <2>2. \A x \in Certs : signature[x] # NoSignature => signature'[x] = signature[x]
    BY <1>2, <1>3, <1>7
  <2>3. QED
    BY <1>6, <2>1, <2>2 DEF Grows
<1>10. ObjectsOK' /\ NumbersOK' /\ RevokedOK'
  BY <1>6 DEF IndInv, ObjectsOK, NumbersOK, RevokedOK
<1>11. SignaturesOK'
  <2> SUFFICES ASSUME NEW x \in Certs, signature'[x] # NoSignature
               PROVE  SealedOK(signature[x])' /\ IsVersion(signature[x].doc, signature[x].key)'
    BY DEF SignaturesOK
  <2>1. CASE x = c
    BY <1>2, <1>5, <1>6, <1>7, <2>1 DEF SealedOK, IsVersion
  <2>2. CASE x # c
    <3>1. signature'[x] = signature[x]
      BY <1>7, <2>2
    <3>2. SealedOK(signature[x]) /\ IsVersion(signature[x].doc, signature[x].key)
      BY <3>1 DEF IndInv, SignaturesOK
    <3>3. QED
      BY <1>6, <3>1, <3>2 DEF SealedOK, IsVersion
  <2>3. QED
    BY <2>1, <2>2
<1>12. \A x \in Workers : req'[x] = IF x = w THEN Idle ELSE req[x]
  BY <1>1, <1>6 DEF Goto, TypeOK
<1>13. CertsOK'
  <2>1. Idle.at # "store"
    BY DEF Idle
  <2>2. \A x \in Certs : signature'[x] # NoSignature => cert'[x].at # "none"
    BY <1>2, <1>3, <1>6, <1>7 DEF IndInv, CertsOK
  <2>3. \A x \in Workers : req'[x].at = "store" => x # w /\ req'[x] = req[x]
    BY <1>12, <2>1
  <2>4. \A x \in Workers : x # w /\ req[x].at = "store" =>
          req[x].cert \in Certs \ {c} /\ signature[req[x].cert] = NoSignature
    BY <1>1, <1>3 DEF IndInv, CertsOK, RequestOK
  <2>5. QED
    BY <1>6, <1>7, <2>2, <2>3, <2>4 DEF IndInv, CertsOK
<1>14. \A x \in Workers : req'[x] = req[x] \/ req'[x] = Idle
  BY <1>12
<1>15. QED
  BY <1>8, <1>9, <1>10, <1>11, <1>13, <1>14, OthersInv

LEMMA NextInv == IndInv /\ [Next]_vars => IndInv'
<1> SUFFICES ASSUME IndInv, [Next]_vars PROVE IndInv'
  OBVIOUS
<1>1. ASSUME NEW k \in Keys,
             RequestUploadUrl(k) \/ (\E c \in Contents : Put(k, c)) \/ ExpireUrl(k)
      PROVE  IndInv'
  BY <1>1, BucketStepsInv
<1>2. ASSUME NEW w \in Workers, NEW c \in Certs, Certify(w, c) PROVE IndInv'
  BY <1>2, CertifyInv
<1>3. ASSUME NEW w \in Workers,
             CommitConfirm(w) \/ CommitVersion(w) \/ CommitDelete(w) \/ Store(w)
      PROVE  IndInv'
  BY <1>3, CommitConfirmInv, CommitVersionInv, CommitDeleteInv, StoreInv
<1>4. ASSUME NEW w \in Workers, CommitRevoke(w) PROVE IndInv'
  BY <1>4, PkiStepsInv
<1>5. ASSUME NEW c \in Certs, Issue(c) \/ Outlive(c) PROVE IndInv'
  BY <1>5, PkiStepsInv
<1>6. ASSUME NEW w \in Workers,
             \/ \E d \in Docs : \/ \E k \in Keys : StartConfirm(w, d, k)
                                \/ StartVersion(w, d)
                                \/ StartDelete(w, d)
                                \/ StartSign(w, d)
             \/ \E k \in Keys : HeadVersion(w, k)
             \/ RefuseRow(w)
             \/ \E c \in Certs : StartRevoke(w, c) \/ StartVerify(w, c)
             \/ ReadBytes(w)
             \/ CheckBytes(w)
             \/ ReadStatus(w)
             \/ ReadEntry(w)
             \/ Fail(w)
      PROVE  IndInv'
  BY <1>6, ReadsInv
<1>7. CASE UNCHANGED vars
  BY <1>7 DEF vars, IndInv, TypeOK, ObjectsOK, NumbersOK, SignaturesOK, RevokedOK,
              CertsOK, RequestOK, SealedOK, IsVersion
<1>8. CASE Next
  BY <1>8, <1>1, <1>2, <1>3, <1>4, <1>5, <1>6 DEF Next
<1>9. QED
  BY <1>7, <1>8

\* The inductive invariant holds of every behaviour.
THEOREM Invariance == Spec => []IndInv
BY InitInv, NextInv, PTL DEF Spec

\* Every reachable state of the stores and the requests is well typed.
THEOREM TypeCorrect == Spec => []TypeOK
<1>1. IndInv => TypeOK
  BY DEF IndInv
<1>2. QED
  BY Invariance, <1>1, PTL

\* Versions are numbered without a gap or a double, for any number of
\* documents and of requests at once.
THEOREM DenseHistory == Spec => []HistoryIsDense
<1>1. IndInv => HistoryIsDense
  <2> SUFFICES ASSUME IndInv PROVE HistoryIsDense
    OBVIOUS
  <2>1. ASSUME NEW d \in Docs
        PROVE  {v.n : v \in {x \in versions : x.doc = d}} = 1 .. document[d].n
    <3>1. \A v \in versions : v.doc = d => v.n \in 1 .. document[d].n
      BY DEF IndInv, NumbersOK
    <3>2. \A n \in 1 .. document[d].n : \E v \in versions : v.doc = d /\ v.n = n
      BY DEF IndInv, NumbersOK
    <3>3. QED
      BY <3>1, <3>2
  <2>2. \A d \in Docs : document[d].at # "ABSENT" =>
          [doc |-> d, n |-> document[d].n, key |-> document[d].key] \in versions
    BY DEF IndInv, NumbersOK
  <2>3. \A u, v \in versions : u.key = v.key \/ (u.doc = v.doc /\ u.n = v.n) => u = v
    BY DEF IndInv, NumbersOK
  <2>4. QED
    BY <2>1, <2>2, <2>3 DEF HistoryIsDense
<1>2. QED
  BY Invariance, <1>1, PTL

\* Nobody signs what is not a version of the envelope's document.
THEOREM CoveredSignatures == Spec => []SignaturesCoverVersions
<1>1. IndInv => SignaturesCoverVersions
  BY DEF IndInv, SignaturesOK, IsVersion, SignaturesCoverVersions
<1>2. QED
  BY Invariance, <1>1, PTL

\* Reports are fair to sealed bytes and to earlier revocations.
THEOREM FairVerdict == Spec => []VerdictIsFair
<1>1. IndInv => VerdictIsFair
  BY DEF IndInv, RequestOK, VerdictIsFair
<1>2. QED
  BY Invariance, <1>1, PTL

-----------------------------------------------------------------------------
(***************************************************************************)
(* The CA that signs the certificates, for any number of instances.  It    *)
(* shares no state with the documents.                                     *)
(***************************************************************************)

\* The conjuncts that hold as long as nothing has disturbed the bootstrap.
Undisturbed == BucketOK /\ PutsOK /\ ReadsOK /\ LeafOK

\* Two of the four objects.
LEMMA RootIsPart == "rootCert" \in Parts /\ "issuingKey" \in Parts
BY DEF Parts

LEMMA CaInitially == CaInit => CaIndInv
<1> SUFFICES ASSUME CaInit PROVE CaIndInv
  OBVIOUS
<1>1. CaTypeOK
  BY DEF CaInit, CaTypeOK, Material, NoMaterial
<1>2. HeldOK
  BY DEF CaInit, HeldOK
<1>3. Undisturbed
  BY DEF CaInit, Undisturbed, BucketOK, PutsOK, ReadsOK, LeafOK
<1>4. QED
  BY <1>1, <1>2, <1>3 DEF CaIndInv, Undisturbed

\* Starting, and a bootstrap that fails before it generates.
LEMMA CaIdleSteps ==
  ASSUME CaIndInv, NEW i \in Instances, Start(i) \/ Reject(i)
  PROVE  CaIndInv'
<1>1. /\ boot' = [boot EXCEPT ![i] = "probe"] \/ boot' = [boot EXCEPT ![i] = "rejected"]
      /\ boot[i] \in {"down", "probe", "load"}
      /\ left' = left \/ left' = [left EXCEPT ![i] = {}]
      /\ UNCHANGED <<caObject, material, leaf, disturbed>>
  BY DEF Start, Reject, BootTo, Leave
<1>2. CaTypeOK /\ HeldOK
  BY DEF CaIndInv
<1>3. /\ boot'[i] \in {"probe", "rejected"} /\ (boot'[i] = "rejected" => left'[i] = {})
      /\ \A j \in Instances \ {i} : boot'[j] = boot[j] /\ left'[j] = left[j]
  BY <1>2 DEF Start, Reject, BootTo, Leave, CaTypeOK
<1>4. CaTypeOK'
  BY <1>1, <1>2 DEF CaTypeOK
<1>5. HeldOK'
  BY <1>1, <1>2, <1>3 DEF HeldOK
<1>6. ASSUME Undisturbed PROVE Undisturbed'
  <2>1. BucketOK'
    BY <1>1, <1>3, <1>6 DEF Undisturbed, BucketOK, Complete
  <2>2. PutsOK'
    BY <1>1, <1>3, <1>6 DEF Undisturbed, PutsOK
  <2>3. ReadsOK'
    BY <1>1, <1>3, <1>6 DEF Undisturbed, ReadsOK, Complete
  <2>4. LeafOK'
    BY <1>1, <1>6 DEF Undisturbed, LeafOK
  <2>5. QED
    BY <2>1, <2>2, <2>3, <2>4 DEF Undisturbed
<1>7. QED
  BY <1>1, <1>4, <1>5, <1>6 DEF CaIndInv, Undisturbed

LEMMA CaFindRoot ==
  ASSUME CaIndInv, NEW i \in Instances, FindRoot(i)
  PROVE  CaIndInv'
<1>1. /\ boot[i] = "probe" /\ caObject["rootCert"] # NoGeneration
      /\ boot' = [boot EXCEPT ![i] = "load"] /\ left' = [left EXCEPT ![i] = Parts]
      /\ UNCHANGED <<caObject, material, leaf, disturbed>>
  BY DEF FindRoot, BootTo, Leave
<1>2. CaTypeOK /\ HeldOK
  BY DEF CaIndInv
<1>3. /\ boot'[i] = "load" /\ left'[i] = Parts
      /\ \A j \in Instances \ {i} : boot'[j] = boot[j] /\ left'[j] = left[j]
  BY <1>1, <1>2 DEF CaTypeOK
<1>4. CaTypeOK'
  BY <1>1, <1>2 DEF CaTypeOK
<1>5. HeldOK'
  BY <1>1, <1>2, <1>3 DEF HeldOK
<1>6. ASSUME Undisturbed PROVE Undisturbed'
  <2>1. BucketOK'
    BY <1>1, <1>3, <1>6 DEF Undisturbed, BucketOK, Complete
  <2>2. PutsOK'
    BY <1>1, <1>3, <1>6 DEF Undisturbed, PutsOK
  <2>3. ReadsOK'
    BY <1>1, <1>3, <1>6 DEF Undisturbed, ReadsOK, Complete
  <2>4. LeafOK'
    BY <1>1, <1>6 DEF Undisturbed, LeafOK
  <2>5. QED
    BY <2>1, <2>2, <2>3, <2>4 DEF Undisturbed
<1>7. QED
  BY <1>1, <1>4, <1>5, <1>6 DEF CaIndInv, Undisturbed

\* Undisturbed, an instance generates only when nothing was ever put.
LEMMA CaGenerate ==
  ASSUME CaIndInv, NEW i \in Instances, Generate(i)
  PROVE  CaIndInv'
<1>1. PICK g \in Generations : material' = [material EXCEPT ![i] = [p \in Parts |-> g]]
  BY DEF Generate
<1>2. /\ boot[i] = "probe" /\ caObject["rootCert"] = NoGeneration
      /\ boot' = [boot EXCEPT ![i] = "put"] /\ left' = [left EXCEPT ![i] = Parts]
      /\ disturbed' = (disturbed \/ \E j \in Instances : boot[j] = "put")
      /\ UNCHANGED <<caObject, leaf>>
  BY DEF Generate, BootTo, Leave
<1>3. CaTypeOK /\ HeldOK
  BY DEF CaIndInv
<1>4. /\ boot'[i] = "put" /\ left'[i] = Parts /\ material'[i] = [p \in Parts |-> g]
      /\ \A j \in Instances \ {i} :
           boot'[j] = boot[j] /\ left'[j] = left[j] /\ material'[j] = material[j]
  BY <1>1, <1>2, <1>3 DEF CaTypeOK
<1>5. CaTypeOK'
  <2>1. disturbed' \in BOOLEAN
    BY <1>2, <1>3 DEF CaTypeOK
  <2>2. [p \in Parts |-> g] \in Material
    BY DEF Material
  <2>3. QED
    BY <1>1, <1>2, <1>3, <2>1, <2>2 DEF CaTypeOK
<1>6. HeldOK'
  BY <1>2, <1>3, <1>4 DEF HeldOK
<1>7. ASSUME ~disturbed' PROVE Undisturbed'
  <2>1. ~disturbed /\ \A j \in Instances : boot[j] # "put"
    BY <1>2, <1>7
  <2>2. Undisturbed
    BY <2>1 DEF CaIndInv, Undisturbed
  <2>3. ~Complete
    BY <1>2, RootIsPart, NoGenerationAssumption DEF Complete
  <2>4. caObject = NoMaterial
    BY <2>1, <2>2, <2>3 DEF Undisturbed, BucketOK
  <2>5. leaf = {}
    BY <1>3, <2>2, <2>3 DEF Undisturbed, LeafOK, Complete, CaTypeOK
  <2>6. \A j \in Instances : boot[j] # "load" /\ boot[j] # "ready"
    BY <1>2, <2>2, <2>3 DEF Undisturbed, ReadsOK
  <2>7. BucketOK'
    BY <1>4 DEF BucketOK
  <2>8. PutsOK'
    <3>1. \A j \in Instances : boot'[j] = "put" => j = i
      BY <1>4, <2>1
    <3>2. caObject' = [p \in Parts |-> IF p \in left'[i] THEN NoGeneration ELSE g]
      BY <1>2, <1>4, <2>4 DEF NoMaterial
    <3>3. left'[i] # {} /\ leaf' = {}
      BY <1>2, <1>4, <2>5, RootIsPart
    <3>4. QED
      BY <1>4, <3>1, <3>2, <3>3 DEF PutsOK
  <2>9. ReadsOK'
    BY <1>4, <2>2, <2>6 DEF Undisturbed, ReadsOK
  <2>10. LeafOK'
    BY <1>2, <2>5 DEF LeafOK
  <2>11. QED
    BY <2>7, <2>8, <2>9, <2>10 DEF Undisturbed
<1>8. QED
  BY <1>5, <1>6, <1>7 DEF CaIndInv, Undisturbed

\* A load reads what is there; the bucket of a finished load is complete.
LEMMA CaGet ==
  ASSUME CaIndInv, NEW i \in Instances, NEW p \in Parts, GetPart(i, p)
  PROVE  CaIndInv'
<1> DEFINE m == [material[i] EXCEPT ![p] = caObject[p]]
           L == left[i] \ {p}
<1>1. CaTypeOK /\ HeldOK
  BY DEF CaIndInv
<1>2. /\ boot[i] = "load" /\ p \in left[i] /\ caObject[p] # NoGeneration
      /\ left' = [left EXCEPT ![i] = L]
      /\ boot' = IF left[i] = {p} THEN [boot EXCEPT ![i] = "ready"] ELSE boot
      /\ UNCHANGED <<caObject, leaf, disturbed>>
  BY DEF GetPart, Settle, BootTo, Leave
<1>3. material' = [material EXCEPT ![i] = m]
  BY <1>1 DEF GetPart
<1>4. m \in Material /\ m[p] = caObject[p] /\ \A q \in Parts \ {p} : m[q] = material[i][q]
  BY <1>1 DEF CaTypeOK, Material
<1>5. /\ left'[i] = L /\ material'[i] = m
      /\ boot'[i] = IF L = {} THEN "ready" ELSE "load"
      /\ \A j \in Instances \ {i} :
           boot'[j] = boot[j] /\ left'[j] = left[j] /\ material'[j] = material[j]
  BY <1>1, <1>2, <1>3 DEF CaTypeOK
<1>6. CaTypeOK'
  BY <1>1, <1>2, <1>3, <1>4 DEF CaTypeOK
<1> HIDE DEF m
<1>7. \A q \in Parts \ L : m[q] # NoGeneration
  BY <1>1, <1>2, <1>4 DEF HeldOK
<1>8. L = {} => m \in [Parts -> Generations]
  BY <1>4, <1>7 DEF Material
<1>9. HeldOK'
  BY <1>1, <1>5, <1>7, <1>8 DEF HeldOK
<1>10. ASSUME Undisturbed PROVE Undisturbed'
  <2>1. caObject["rootCert"] # NoGeneration /\ \A q \in Parts \ L : m[q] = caObject[q]
    BY <1>2, <1>4, <1>10 DEF Undisturbed, ReadsOK
  <2>2. \A j \in Instances : boot'[j] = "put" <=> boot[j] = "put"
    BY <1>2, <1>5
  <2>3. BucketOK'
    BY <1>2, <1>10, <2>2 DEF Undisturbed, BucketOK, Complete
  <2>4. PutsOK'
    BY <1>2, <1>5, <1>10, <2>2 DEF Undisturbed, PutsOK
  <2>5. ASSUME L = {} PROVE m = caObject /\ Complete
    <3>1. m = caObject
      BY <1>1, <1>4, <2>1, <2>5 DEF Material, CaTypeOK
    <3>2. caObject # NoMaterial
      BY <2>1, RootIsPart DEF NoMaterial
    <3>3. ASSUME NEW j \in Instances, boot[j] = "put" PROVE Complete
      <4>1. PICK g \in Generations :
              caObject = [q \in Parts |-> IF q \in left[j] THEN NoGeneration ELSE g]
        BY <1>10, <3>3 DEF Undisturbed, PutsOK
      <4>2. \A q \in Parts : caObject[q] # NoGeneration
        BY <1>7, <2>5, <3>1
      <4>3. caObject = [q \in Parts |-> g]
        BY <4>1, <4>2
      <4>4. QED
        BY <4>3 DEF Complete
    <3>4. QED
      BY <1>10, <3>1, <3>2, <3>3 DEF Undisturbed, BucketOK
  <2>6. ReadsOK'
    BY <1>2, <1>5, <1>10, <2>1, <2>5 DEF Undisturbed, ReadsOK, Complete
  <2>7. LeafOK'
    BY <1>2, <1>10 DEF Undisturbed, LeafOK
  <2>8. QED
    BY <2>3, <2>4, <2>6, <2>7 DEF Undisturbed
<1>11. QED
  BY <1>2, <1>6, <1>9, <1>10 DEF CaIndInv, Undisturbed

\* Undisturbed, a put adds to what the one generation has put.
LEMMA CaPut ==
  ASSUME CaIndInv,
         NEW i \in Instances, NEW p \in Parts, PutPart(i, p)
  PROVE  CaIndInv'
<1> DEFINE L == left[i] \ {p}
<1>1. CaTypeOK /\ HeldOK
  BY DEF CaIndInv
<1>2. /\ boot[i] \in {"put", "rejected"} /\ p \in left[i]
      /\ caObject' = [caObject EXCEPT ![p] = material[i][p]]
      /\ left' = [left EXCEPT ![i] = L]
      /\ boot' = IF boot[i] = "put" /\ left[i] = {p} THEN [boot EXCEPT ![i] = "ready"]
                 ELSE boot
      /\ UNCHANGED <<material, leaf, disturbed>>
  BY DEF PutPart, Settle, BootTo, Leave
<1>3. /\ left'[i] = L
      /\ boot'[i] = IF boot[i] = "put" /\ L = {} THEN "ready" ELSE boot[i]
      /\ \A j \in Instances \ {i} : boot'[j] = boot[j] /\ left'[j] = left[j]
  BY <1>1, <1>2 DEF CaTypeOK
<1>4. CaTypeOK'
  BY <1>1, <1>2 DEF CaTypeOK, Material
<1>5. HeldOK'
  BY <1>1, <1>2, <1>3 DEF HeldOK
<1>6. ASSUME Undisturbed PROVE Undisturbed'
  <2>1. boot[i] = "put"
    BY <1>2, <1>6 DEF Undisturbed, ReadsOK
  <2>2. PICK g \in Generations :
          /\ material[i] = [q \in Parts |-> g]
          /\ caObject = [q \in Parts |-> IF q \in left[i] THEN NoGeneration ELSE g]
    BY <1>6, <2>1 DEF Undisturbed, PutsOK
  <2>3. leaf = {} /\ \A j \in Instances \ {i} : boot[j] # "put"
    BY <1>6, <2>1 DEF Undisturbed, PutsOK
  <2>4. caObject' = [q \in Parts |-> IF q \in L THEN NoGeneration ELSE g]
    BY <1>2, <2>2
  <2>5. caObject[p] = NoGeneration
    BY <1>2, <2>2
  <2>6. \A j \in Instances : boot[j] # "ready"
    BY <1>6, <2>5, NoGenerationAssumption DEF Undisturbed, ReadsOK, Complete
  <2>7. L = {} => Complete'
    BY <2>4 DEF Complete
  <2>8. BucketOK'
    BY <1>3, <2>1, <2>7 DEF BucketOK
  <2>9. PutsOK'
    <3>1. \A j \in Instances : boot'[j] = "put" => j = i /\ L # {}
      BY <1>3, <2>3
    <3>2. material'[i] = [q \in Parts |-> g] /\ left'[i] = L /\ leaf' = {}
      BY <1>2, <1>3, <2>2, <2>3
    <3> HIDE DEF L
    <3>3. QED
      BY <3>1, <3>2, <2>4 DEF PutsOK
  <2>10. ASSUME NEW j \in Instances, boot[j] = "load"
         PROVE  /\ caObject'["rootCert"] # NoGeneration
                /\ \A q \in Parts \ left[j] : material[j][q] = caObject'[q]
    <3>1. caObject["rootCert"] # NoGeneration /\ \A q \in Parts \ left[j] :
            material[j][q] = caObject[q] /\ caObject[q] # NoGeneration
      BY <1>1, <1>6, <2>10 DEF Undisturbed, ReadsOK, HeldOK
    <3>2. \A q \in Parts : caObject[q] # NoGeneration => caObject'[q] = caObject[q]
      BY <2>2, <2>4
    <3>3. QED
      BY <3>1, <3>2, RootIsPart
  <2>11. ASSUME L = {} PROVE material[i] = caObject'
    BY <2>2, <2>4, <2>11
  <2>12. ReadsOK'
    BY <1>2, <1>3, <1>6, <2>1, <2>6, <2>7, <2>10, <2>11 DEF Undisturbed, ReadsOK
  <2>13. LeafOK'
    BY <1>2, <2>3 DEF LeafOK
  <2>14. QED
    BY <2>8, <2>9, <2>12, <2>13 DEF Undisturbed
<1>7. QED
  BY <1>2, <1>4, <1>5, <1>6 DEF CaIndInv, Undisturbed

\* What disturbs has to keep only the types and what is held.
LEMMA CaLosePut ==
  ASSUME CaIndInv, NEW i \in Instances, NEW p \in Parts, LosePut(i, p)
  PROVE  CaIndInv'
<1>1. CaTypeOK /\ HeldOK
  BY DEF CaIndInv
<1>2. /\ left' = [left EXCEPT ![i] = left[i] \ {p}]
      /\ boot' = [boot EXCEPT ![i] = "rejected"]
      /\ disturbed' = TRUE /\ UNCHANGED <<caObject, material, leaf>>
  BY DEF LosePut, BootTo, Leave
<1>3. CaTypeOK'
  BY <1>1, <1>2 DEF CaTypeOK
<1>4. HeldOK'
  BY <1>1, <1>2 DEF HeldOK, CaTypeOK
<1>5. QED
  BY <1>2, <1>3, <1>4 DEF CaIndInv

LEMMA CaIssue ==
  ASSUME CaIndInv, NEW i \in Instances, IssueLeaf(i)
  PROVE  CaIndInv'
<1>1. CaTypeOK /\ HeldOK
  BY DEF CaIndInv
<1>2. /\ boot[i] = "ready" /\ leaf' = leaf \cup {material[i]["issuingKey"]}
      /\ UNCHANGED <<caObject, boot, left, material, disturbed>>
  BY DEF IssueLeaf
<1>3. material[i]["issuingKey"] \in Generations
  BY <1>1, <1>2, RootIsPart DEF HeldOK
<1>4. CaTypeOK'
  BY <1>1, <1>2, <1>3 DEF CaTypeOK
<1>5. HeldOK'
  BY <1>1, <1>2 DEF HeldOK
<1>6. ASSUME Undisturbed PROVE Undisturbed'
  <2>1. material[i] = caObject /\ Complete
    BY <1>2, <1>6 DEF Undisturbed, ReadsOK
  <2>2. PICK g \in Generations : caObject = [p \in Parts |-> g]
    BY <2>1 DEF Complete
  <2>3. material[i]["issuingKey"] = g
    BY <2>1, <2>2, RootIsPart
  <2>4. LeafOK'
    BY <1>2, <1>6, <2>2, <2>3 DEF Undisturbed, LeafOK
  <2>5. ASSUME NEW j \in Instances, boot[j] = "put" PROVE FALSE
    \* A generation under way has not put everything.
    <3>1. /\ left[j] # {}
          /\ \E h \in Generations :
               caObject = [p \in Parts |-> IF p \in left[j] THEN NoGeneration ELSE h]
      BY <1>6, <2>5 DEF Undisturbed, PutsOK
    <3>2. PICK p \in Parts : p \in left[j]
      BY <1>1, <3>1 DEF CaTypeOK
    <3>3. caObject[p] = NoGeneration
      BY <3>1, <3>2
    <3>4. QED
      BY <2>2, <3>3, NoGenerationAssumption
  <2>6. PutsOK'
    BY <1>2, <2>5 DEF PutsOK
  <2>7. BucketOK' /\ ReadsOK'
    BY <1>2, <1>6 DEF Undisturbed, BucketOK, ReadsOK, Complete
  <2>8. QED
    BY <2>4, <2>6, <2>7 DEF Undisturbed
<1>7. QED
  BY <1>2, <1>4, <1>5, <1>6 DEF CaIndInv, Undisturbed

LEMMA CaStop ==
  ASSUME CaIndInv, NEW i \in Instances, Stop(i)
  PROVE  CaIndInv'
<1>1. CaTypeOK /\ HeldOK
  BY DEF CaIndInv
<1>2. /\ boot' = [boot EXCEPT ![i] = "down"] /\ left' = [left EXCEPT ![i] = {}]
      /\ material' = [material EXCEPT ![i] = NoMaterial]
      /\ disturbed' = (disturbed \/ (boot[i] \in {"put", "rejected"} /\ left[i] # {}))
      /\ UNCHANGED <<caObject, leaf>>
  BY DEF Stop, BootTo, Leave
<1>3. /\ boot'[i] = "down" /\ left'[i] = {}
      /\ \A j \in Instances \ {i} :
           boot'[j] = boot[j] /\ left'[j] = left[j] /\ material'[j] = material[j]
  BY <1>1, <1>2 DEF CaTypeOK
<1>4. CaTypeOK'
  <2>1. disturbed' \in BOOLEAN
    BY <1>1, <1>2 DEF CaTypeOK
  <2>2. NoMaterial \in Material
    BY DEF NoMaterial, Material
  <2>3. QED
    BY <1>1, <1>2, <2>1, <2>2 DEF CaTypeOK
<1>5. HeldOK'
  BY <1>1, <1>3 DEF HeldOK
<1>6. ASSUME ~disturbed' PROVE Undisturbed'
  <2>1. Undisturbed
    BY <1>2, <1>6 DEF CaIndInv, Undisturbed
  <2>2. boot[i] = "put" => left[i] = {}
    BY <1>2, <1>6
  <2>3. boot[i] # "put"
    BY <2>1, <2>2 DEF Undisturbed, PutsOK
  <2>4. BucketOK'
    BY <1>2, <1>3, <2>1, <2>3 DEF Undisturbed, BucketOK, Complete
  <2>5. PutsOK'
    BY <1>2, <1>3, <2>1 DEF Undisturbed, PutsOK
  <2>6. ReadsOK'
    BY <1>2, <1>3, <2>1 DEF Undisturbed, ReadsOK, Complete
  <2>7. LeafOK'
    BY <1>2, <2>1 DEF Undisturbed, LeafOK
  <2>8. QED
    BY <2>4, <2>5, <2>6, <2>7 DEF Undisturbed
<1>7. QED
  BY <1>4, <1>5, <1>6 DEF CaIndInv, Undisturbed

LEMMA CaStep ==
  ASSUME CaIndInv, [CaNext]_caVars
  PROVE  CaIndInv'
<1>1. CASE UNCHANGED caVars
  BY <1>1 DEF caVars, CaIndInv, CaTypeOK, HeldOK, BucketOK, PutsOK,
     ReadsOK, LeafOK, Complete
<1>2. CASE CaNext
  BY <1>2, CaIdleSteps, CaFindRoot, CaGenerate, CaGet, CaPut, CaLosePut,
     CaIssue, CaStop DEF CaNext
<1>3. QED
  BY <1>1, <1>2

\* The inductive invariant holds of every behaviour.
THEOREM CaInvariance == CaSpec => []CaIndInv
<1>1. CaIndInv /\ [CaNext]_caVars => CaIndInv'
  BY CaStep
<1>2. QED
  BY CaInitially, <1>1, PTL DEF CaSpec

\* Every reachable state of the bucket and the instances is well typed.
THEOREM CaTypeCorrect == CaSpec => []CaTypeOK
<1>1. CaIndInv => CaTypeOK
  BY DEF CaIndInv
<1>2. QED
  BY CaInvariance, <1>1, PTL

\* Unless generations overlap or one is cut short, what any instance issues
\* verifies at every instance, for any number of instances and restarts.
THEOREM VerifyingChains == CaSpec => []ChainsVerify
<1>1. CaIndInv => ChainsVerify
  <2> SUFFICES ASSUME CaIndInv, ~disturbed, NEW g \in leaf, NEW i \in Instances,
                      boot[i] = "ready"
               PROVE  verifyChain(i, g)
    BY DEF ChainsVerify
  <2>1. material[i] = caObject
    BY DEF CaIndInv, ReadsOK
  <2>2. caObject = [p \in Parts |-> g]
    BY DEF CaIndInv, LeafOK
  <2>3. QED
    BY <2>1, <2>2 DEF verifyChain, Parts
<1>2. QED
  BY CaInvariance, <1>1, PTL
=============================================================================
