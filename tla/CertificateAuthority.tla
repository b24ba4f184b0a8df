------------------------- MODULE CertificateAuthority -------------------------
(***************************************************************************)
(* The bootstrap of the two-tier development CA by the API's instances,    *)
(* and the certificates they issue: modules/certificates/ca.service.ts.    *)
(*                                                                         *)
(* Each instance probes the bucket for the root certificate, and loads the *)
(* four objects or generates and puts them, in parallel; there is no lock. *)
(* Instances start together and restart at any time.  A generation stands  *)
(* for the keys and certificates one of them makes: all CAs have the same  *)
(* names, so only the keys tell generations apart.                         *)
(***************************************************************************)
CONSTANTS
  Instances,    \* instances of the API
  Generations,  \* bound: the CAs of which anything may be left at once
  NoGeneration  \* no generation

ASSUME NoGenerationAssumption == NoGeneration \notin Generations

VARIABLES
  caObject,  \* the bucket: the generation of each of the four objects
  boot,      \* how far each instance's bootstrap is
  left,      \* the objects it has yet to get or to put
  material,  \* what it has loaded or generated
  leaf,      \* the generations whose issuing key has signed a certificate
  disturbed  \* history: two generations overlapped, or one was cut short

caVars == <<caObject, boot, left, material, leaf, disturbed>>

\* STORAGE_KEYS.
Parts == {"rootCert", "rootKey", "issuingCert", "issuingKey"}
Material == [Parts -> Generations \cup {NoGeneration}]
NoMaterial == [p \in Parts |-> NoGeneration]

CaTypeOK ==
  /\ caObject \in Material
  /\ boot \in [Instances -> {"down", "probe", "load", "put", "ready", "rejected"}]
  /\ left \in [Instances -> SUBSET Parts]
  /\ material \in [Instances -> Material]
  /\ leaf \in SUBSET Generations
  /\ disturbed \in BOOLEAN

CaInit ==
  /\ caObject = NoMaterial
  /\ boot = [i \in Instances |-> "down"]
  /\ left = [i \in Instances |-> {}]
  /\ material = [i \in Instances |-> NoMaterial]
  /\ leaf = {}
  /\ disturbed = FALSE

BootTo(i, b) == boot' = [boot EXCEPT ![i] = b]
Leave(i, P) == left' = [left EXCEPT ![i] = P]

\* The keys of a new CA are nobody's.
Fresh(g) ==
  /\ g \notin leaf
  /\ \A p \in Parts : caObject[p] # g /\ \A i \in Instances : material[i][p] # g

-----------------------------------------------------------------------------

\* onModuleInit; calls that come meanwhile share the one bootstrap.
Start(i) ==
  /\ boot[i] = "down"
  /\ BootTo(i, "probe")
  /\ UNCHANGED <<caObject, left, material, leaf, disturbed>>

\* tryLoad: only the root certificate is asked for.
FindRoot(i) ==
  /\ boot[i] = "probe"
  /\ caObject["rootCert"] # NoGeneration
  /\ BootTo(i, "load")
  /\ Leave(i, Parts)
  /\ UNCHANGED <<caObject, material, leaf, disturbed>>

\* Planted bug: an earlier instance's CA is not looked for.
MutGenerate(i) ==
  /\ boot[i] = "probe"
  /\ \E g \in Generations :
       /\ Fresh(g)
       /\ material' = [material EXCEPT ![i] = [p \in Parts |-> g]]
  /\ BootTo(i, "put")
  /\ Leave(i, Parts)
  /\ disturbed' = (disturbed \/ \E j \in Instances : boot[j] = "put")
  /\ UNCHANGED <<caObject, leaf>>

\* generateRoot and generateIssuing.
Generate(i) ==
  /\ boot[i] = "probe"
  /\ caObject["rootCert"] = NoGeneration
  /\ \E g \in Generations :
       /\ Fresh(g)
       /\ material' = [material EXCEPT ![i] = [p \in Parts |-> g]]
  /\ BootTo(i, "put")
  /\ Leave(i, Parts)
  /\ disturbed' = (disturbed \/ \E j \in Instances : boot[j] = "put")
  /\ UNCHANGED <<caObject, leaf>>

\* The promise of all calls resolves with the last one.
Settle(i, p, b) ==
  /\ Leave(i, left[i] \ {p})
  /\ IF left[i] = {p} THEN BootTo(i, b) ELSE UNCHANGED boot

GetPart(i, p) ==
  /\ boot[i] = "load"
  /\ p \in left[i]
  /\ caObject[p] # NoGeneration
  /\ material' = [material EXCEPT ![i][p] = caObject[p]]
  /\ Settle(i, p, "ready")
  /\ UNCHANGED <<caObject, leaf, disturbed>>

\* A put that was sent lands also after another one has failed.
PutPart(i, p) ==
  /\ boot[i] \in {"put", "rejected"}
  /\ p \in left[i]
  /\ caObject' = [caObject EXCEPT ![p] = material[i][p]]
  /\ IF boot[i] = "put" THEN Settle(i, p, "ready")
     ELSE Leave(i, left[i] \ {p}) /\ UNCHANGED boot
  /\ UNCHANGED <<material, leaf, disturbed>>

\* A call fails or an object is missing.  initPromise stays the rejected one:
\* the instance has no CA until it restarts.
Reject(i) ==
  /\ boot[i] \in {"probe", "load"}
  /\ BootTo(i, "rejected")
  /\ Leave(i, {})
  /\ UNCHANGED <<caObject, material, leaf, disturbed>>

LosePut(i, p) ==
  /\ boot[i] \in {"put", "rejected"}
  /\ p \in left[i]
  /\ Leave(i, left[i] \ {p})
  /\ BootTo(i, "rejected")
  /\ disturbed' = TRUE
  /\ UNCHANGED <<caObject, material, leaf>>

\* issueEndEntity signs with the issuing key of this instance.
IssueLeaf(i) ==
  /\ boot[i] = "ready"
  /\ leaf' = leaf \cup {material[i]["issuingKey"]}
  /\ UNCHANGED <<caObject, boot, left, material, disturbed>>

\* The process ends; what it had yet to put is lost.
Stop(i) ==
  /\ boot[i] # "down"
  /\ BootTo(i, "down")
  /\ Leave(i, {})
  /\ material' = [material EXCEPT ![i] = NoMaterial]
  /\ disturbed' = (disturbed \/ (boot[i] \in {"put", "rejected"} /\ left[i] # {}))
  /\ UNCHANGED <<caObject, leaf>>

CaNext ==
  \E i \in Instances :
    \/ Start(i)
    \/ FindRoot(i)
    \/ Generate(i)
    \/ \E p \in Parts : GetPart(i, p) \/ PutPart(i, p) \/ LosePut(i, p)
    \/ Reject(i)
    \/ IssueLeaf(i)
    \/ Stop(i)

CaSpec == CaInit /\ [][CaNext]_caVars

-----------------------------------------------------------------------------

\* verifyChain at instance i: a certificate of the key g is signed by the
\* issuing certificate that i has, and that one by the root that i has.
verifyChain(i, g) ==
  material[i]["issuingCert"] = g /\ material[i]["rootCert"] = g

\* "Generated once and persisted to object storage, then reused across
\* restarts": unless two instances generate at once or a generation is cut
\* short, a certificate that any instance has issued verifies at every
\* instance that is ready, whatever loads, failures and restarts lie between.
ChainsVerify ==
  ~disturbed => \A g \in leaf, i \in Instances : boot[i] = "ready" => verifyChain(i, g)

(***************************************************************************)
(* The inductive invariant: undisturbed, the bucket holds nothing, part of *)
(* what the one instance at "put" has, or one complete CA, and that CA is  *)
(* what every other instance has read and every certificate comes from.    *)
(***************************************************************************)

Complete == \E g \in Generations : caObject = [p \in Parts |-> g]

HeldOK ==
  \A i \in Instances :
    /\ boot[i] \in {"put", "ready"} => material[i] \in [Parts -> Generations]
    /\ boot[i] = "load" => \A p \in Parts \ left[i] : material[i][p] # NoGeneration

BucketOK ==
  \/ caObject = NoMaterial
  \/ Complete
  \/ \E i \in Instances : boot[i] = "put"

PutsOK ==
  \A i \in Instances : boot[i] = "put" =>
    /\ \E g \in Generations :
         /\ material[i] = [p \in Parts |-> g]
         /\ caObject = [p \in Parts |-> IF p \in left[i] THEN NoGeneration ELSE g]
    /\ left[i] # {} /\ leaf = {}
    /\ \A j \in Instances : boot[j] = "put" => j = i

ReadsOK ==
  \A i \in Instances :
    /\ boot[i] = "load" =>
         /\ caObject["rootCert"] # NoGeneration
         /\ \A p \in Parts \ left[i] : material[i][p] = caObject[p]
    /\ boot[i] = "ready" => material[i] = caObject /\ Complete
    /\ boot[i] = "rejected" => left[i] = {}

LeafOK == \A g \in leaf : caObject = [p \in Parts |-> g]

CaIndInv ==
  /\ CaTypeOK
  /\ HeldOK
  /\ ~disturbed => BucketOK /\ PutsOK /\ ReadsOK /\ LeafOK
=============================================================================
