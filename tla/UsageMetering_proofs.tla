------------------------ MODULE UsageMetering_proofs ------------------------
(***************************************************************************)
(* Usage stays within the allowance, but for the requests that overlap:    *)
(* the invariant of UsageMetering, for any number of requests, any         *)
(* catalogue of plans and any quantity.                                    *)
(***************************************************************************)
EXTENDS UsageMetering, FiniteSetTheorems, TLAPS

\* The checked requests are finitely many.
LEMMA CheckedFinite ==
  ASSUME NEW S \in SUBSET Workers
  PROVE  IsFiniteSet(S) /\ Cardinality(S) \in Nat
BY FS_Subset, FS_CardinalityType, WorkersAssumption

\* Only a request that leaves the record step leaves the checked ones, and
\* only one that enters it joins them.
LEMMA CheckedStep ==
  ASSUME TypeOK, NEW w \in Workers, NEW r \in Request, Goto(w, r)
  PROVE  /\ r.at = "record" => Checked' = Checked \cup {w}
         /\ r.at # "record" => Checked' = Checked \ {w}
BY DEF TypeOK, Goto, Checked

\* One more or one fewer, in numbers.
LEMMA CheckedCount ==
  ASSUME NEW S \in SUBSET Workers, NEW w \in Workers
  PROVE  /\ Cardinality(S \ {w}) = IF w \in S THEN Cardinality(S) - 1
                                   ELSE Cardinality(S)
         /\ Cardinality(S \cup {w}) = IF w \in S THEN Cardinality(S)
                                      ELSE Cardinality(S) + 1
<1>1. IsFiniteSet(S)
  BY CheckedFinite
<1>2. QED
  BY <1>1, FS_RemoveElement, FS_AddElement

\* The arithmetic of the reserve.
LEMMA Times ==
  ASSUME NEW q \in Nat, NEW m \in Nat, NEW n \in Nat
  PROVE  /\ q * m \in Nat
         /\ q * (n + 1) = q * n + q
         /\ m <= n => q * m <= q * n
         /\ m >= 1 => q * (m - 1) = q * m - q
<1>1. q * m \in Nat /\ q * (n + 1) = q * n + q
  BY SMT
<1>2. m >= 1 => q * (m - 1) = q * m - q
  BY SMT
<1>3. ASSUME m <= n PROVE q * m <= q * n
  <2>1. PICK d \in Nat : n = m + d
    <3>1. n - m \in Nat /\ n = m + (n - m)
      BY <1>3, SMT
    <3>2. QED
      BY <3>1
  <2>2. q * n = q * m + q * d /\ q * d \in Nat
    BY <2>1, SMT
  <2>3. q * m \in Nat /\ q * n \in Nat
    BY SMT
  <2>4. QED
    BY <2>2, <2>3, SMT
<1>4. QED
  BY <1>1, <1>2, <1>3

LEMMA Sums ==
  ASSUME NEW u \in Nat, NEW a \in Nat, NEW b \in Nat, NEW c \in Nat, NEW d \in Nat
  PROVE  /\ u <= c /\ a <= b => u + a <= c + b
         /\ u + a <= c + b /\ c <= d => u + a <= d + b
OBVIOUS

LEMMA InitInv == Init => IndInv
<1> SUFFICES ASSUME Init PROVE IndInv
  OBVIOUS
<1> USE PlansAssumption, QuantityAssumption DEF Init
<1>1. Allowance[plan] \in Nat \cup {UNLIMITED}
  OBVIOUS
<1>2. TypeOK
  BY <1>1 DEF TypeOK, Idle, Request, UNLIMITED
<1>3. CapOK
  <2>1. Effective(plan, subscription) = plan
    BY DEF Effective
  <2>2. ~lifted => Allowance[plan] # UNLIMITED
    OBVIOUS
  <2>3. ~lifted => Allowance[plan] \in 0 .. cap
    <3>1. Allowance[plan] # UNLIMITED => cap = Allowance[plan] /\ cap \in Nat
      BY <1>1
    <3>2. QED
      BY <2>2, <3>1
  <2>4. \A w \in Workers : req[w].at = "idle"
    BY DEF Idle
  <2>5. QED
    BY <2>1, <2>3, <2>4 DEF CapOK
<1>4. Checked = {}
  BY DEF Checked, Idle
<1>5. Reserved
  <2>1. Cardinality(Checked) = 0
    BY <1>4, FS_EmptySet
  <2>2. used = 0 /\ peak = 0 /\ cap \in Nat
    BY <1>2 DEF TypeOK
  <2>3. MaxQuantity * 0 = 0
    BY SMT
  <2>4. QED
    BY <1>4, <2>1, <2>2, <2>3 DEF Reserved
<1>6. QED
  BY <1>2, <1>3, <1>5 DEF IndInv

\* Steps of a request that neither check nor record leave the reserve alone.
LEMMA ReserveKept ==
  ASSUME Reserved, Checked' = Checked, UNCHANGED <<used, cap, lifted, peak>>,
         \A w \in Checked : req'[w].q = req[w].q
  PROVE  Reserved'
BY DEF Reserved

\* A request that goes away takes nothing with it.
LEMMA ReserveDropped ==
  ASSUME TypeOK, Reserved, NEW w \in Workers, Goto(w, Idle),
         UNCHANGED <<used, cap, lifted, peak>>
  PROVE  Reserved'
<1>1. Checked' = Checked \ {w}
  BY DEF Checked, Goto, Idle, TypeOK
<1>2. Cardinality(Checked) \in Nat /\ Checked \in SUBSET Workers
  BY CheckedFinite DEF Checked
<1>3. /\ Cardinality(Checked') \in Nat
      /\ Cardinality(Checked') <= Cardinality(Checked)
  <2>1. Checked' \in SUBSET Workers
    BY <1>1, <1>2
  <2>2. Cardinality(Checked') \in Nat
    BY <2>1, CheckedFinite
  <2>3. Cardinality(Checked') \in {Cardinality(Checked) - 1, Cardinality(Checked)}
    BY <1>1, <1>2, CheckedCount
  <2>4. QED
    BY <1>2, <2>2, <2>3
<1>4. MaxQuantity * Cardinality(Checked') <= MaxQuantity * Cardinality(Checked)
  BY <1>2, <1>3, Times, QuantityAssumption
<1>5. /\ MaxQuantity * Cardinality(Checked') \in Nat
      /\ MaxQuantity * Cardinality(Checked) \in Nat
      /\ MaxQuantity * peak \in Nat
  BY <1>2, <1>3, Times, QuantityAssumption DEF TypeOK
<1>6. \A x \in Checked' : x \in Checked /\ req'[x] = req[x]
  BY <1>1 DEF Goto, TypeOK, Checked
<1>7. used \in Nat /\ cap \in Nat /\ peak \in Nat
  BY DEF TypeOK
<1>8. ~lifted' => Cardinality(Checked') <= peak'
  BY <1>2, <1>3, <1>7 DEF Reserved
<1>9. ~lifted' => used' + MaxQuantity * Cardinality(Checked') <= cap' + MaxQuantity * peak'
  <2> DEFINE a == MaxQuantity * Cardinality(Checked')
             b == MaxQuantity * Cardinality(Checked)
             c == MaxQuantity * peak
  <2>1. a \in Nat /\ b \in Nat /\ c \in Nat /\ a <= b
    BY <1>4, <1>5
  <2>2. ~lifted => used + b <= cap + c
    BY DEF Reserved
  <2>3. ~lifted => used + a <= cap + c
    <3> HIDE DEF a, b, c
    <3> QED
      BY <2>1, <2>2, <1>7
  <2>4. QED
    BY <2>3
<1>10. QED
  BY <1>6, <1>8, <1>9 DEF Reserved

\* A step of a request that is checked neither before nor after it.
LEMMA ReserveUntouched ==
  ASSUME TypeOK, Reserved, NEW w \in Workers, NEW r, Goto(w, r),
         req[w].at # "record", r.at # "record",
         UNCHANGED <<used, cap, lifted, peak>>
  PROVE  Reserved'
<1>1. Checked' = Checked /\ \A x \in Checked : req'[x] = req[x]
  BY DEF Checked, Goto, TypeOK
<1>2. QED
  BY <1>1, ReserveKept

\* The cap is above every limit that is in force, was read or will be.
LEMMA StartInv ==
  ASSUME IndInv, NEW w \in Workers, NEW q \in 1 .. MaxQuantity, Start(w, q)
  PROVE  IndInv'
<1> DEFINE r == [at |-> "sub", q |-> q, limit |-> 0]
<1>1. r \in Request /\ r.at = "sub"
  BY QuantityAssumption DEF Request
<1>2. TypeOK'
  BY <1>1 DEF IndInv, TypeOK, Start, Goto, history
<1>3. CapOK'
  BY <1>1 DEF IndInv, CapOK, TypeOK, Start, Goto, history, Effective
<1>4. Reserved'
  BY ReserveUntouched DEF IndInv, Start, Idle, history
<1>5. QED
  BY <1>2, <1>3, <1>4 DEF IndInv

\* What a resolved plan makes of a request.
LEMMA ResolvedInv ==
  ASSUME IndInv, NEW w \in Workers, NEW p \in Plans, Resolved(w, p),
         req[w].at \in {"sub", "org"},
         ~lifted => Allowance[p] \in 0 .. cap,
         UNCHANGED <<plan, subscription, used, history>>
  PROVE  IndInv'
<1> DEFINE r == [req[w] EXCEPT !.at = IF Allowance[p] = UNLIMITED THEN "record" ELSE "used",
                               !.limit = Allowance[p]]
<1>1. Goto(w, r)
  BY DEF Resolved
<1>2. r \in Request /\ r.limit = Allowance[p]
  BY PlansAssumption DEF IndInv, TypeOK, Request
<1>3. TypeOK'
  BY <1>1, <1>2 DEF IndInv, TypeOK, Goto, history
<1>4. ASSUME ~lifted PROVE r.at = "used"
  BY <1>4 DEF UNLIMITED, IndInv, TypeOK, Request
<1>5. CapOK'
  <2> SUFFICES ASSUME ~lifted PROVE CapOK'
    BY DEF CapOK, history
  <2>1. r.at = "used" /\ r.limit \in 0 .. cap
    BY <1>2, <1>4
  <2> HIDE DEF r
  <2>2. QED
    BY <1>1, <2>1 DEF IndInv, CapOK, TypeOK, Goto, history, Effective
<1>6. Reserved'
  <2>1. CASE lifted
    BY <2>1 DEF Reserved, history
  <2>2. CASE ~lifted
    <3>1. r.at = "used"
      BY <2>2, <1>4
    <3> HIDE DEF r
    <3>2. QED
      BY <3>1, <1>1, ReserveUntouched DEF IndInv, history
  <2>3. QED
    BY <2>1, <2>2
<1>7. QED
  BY <1>3, <1>5, <1>6 DEF IndInv

LEMMA ReadSubscriptionInv ==
  ASSUME IndInv, NEW w \in Workers, ReadSubscription(w)
  PROVE  IndInv'
<1>1. CASE subscription = None
  <2> DEFINE r == [req[w] EXCEPT !.at = "org"]
  <2>1. Goto(w, r) /\ r \in Request /\ r.at = "org"
    BY <1>1 DEF IndInv, TypeOK, Request, ReadSubscription
  <2>2. req[w].at = "sub" /\ UNCHANGED <<plan, subscription, used, cap, lifted, peak>>
    BY DEF ReadSubscription, history
  <2> HIDE DEF r
  <2>3. TypeOK'
    BY <2>1, <2>2 DEF IndInv, TypeOK, Goto
  <2>4. CapOK'
    BY <1>1, <2>1, <2>2 DEF IndInv, CapOK, TypeOK, Goto, Effective
  <2>5. Reserved'
    BY <2>1, <2>2, ReserveUntouched DEF IndInv
  <2>6. QED
    BY <2>3, <2>4, <2>5 DEF IndInv
<1>2. CASE subscription # None
  <2>1. subscription \in Plans /\ req[w].at = "sub"
    BY <1>2 DEF IndInv, TypeOK, ReadSubscription
  <2>2. Resolved(w, subscription) /\ UNCHANGED <<plan, subscription, used, history>>
    BY <1>2 DEF ReadSubscription
  <2>3. ~lifted => Allowance[subscription] \in 0 .. cap
    BY <1>2 DEF IndInv, CapOK, Effective
  <2>4. QED
    BY <2>1, <2>2, <2>3, ResolvedInv
<1>3. QED
  BY <1>1, <1>2

LEMMA ReadOrganizationInv ==
  ASSUME IndInv, NEW w \in Workers, ReadOrganization(w)
  PROVE  IndInv'
<1>1. plan \in Plans /\ req[w].at = "org"
  BY DEF IndInv, TypeOK, ReadOrganization
<1>2. Resolved(w, plan) /\ UNCHANGED <<plan, subscription, used, history>>
  BY DEF ReadOrganization
<1>3. ~lifted => Allowance[plan] \in 0 .. cap
  BY <1>1 DEF IndInv, CapOK
<1>4. QED
  BY <1>1, <1>2, <1>3, ResolvedInv

LEMMA CheckInv ==
  ASSUME IndInv, NEW w \in Workers, Check(w)
  PROVE  IndInv'
<1> DEFINE n == Cardinality(Checked)
           r == [req[w] EXCEPT !.at = "record"]
<1>1. /\ req[w].at = "used" /\ req[w] \in Request /\ w \notin Checked
      /\ UNCHANGED <<plan, subscription, used, cap, lifted>>
  BY DEF Check, IndInv, TypeOK, Checked
<1>2. n \in Nat /\ Checked \in SUBSET Workers
  BY CheckedFinite DEF Checked
<1>3. CASE ~Fits(req[w])
  <2>1. Goto(w, Idle) /\ UNCHANGED <<used, cap, lifted, peak>>
    BY <1>1, <1>3 DEF Check
  <2>2. TypeOK'
    BY <1>1, <2>1, QuantityAssumption DEF IndInv, TypeOK, Goto, Idle, Request
  <2>3. CapOK'
    BY <1>1, <2>1 DEF IndInv, CapOK, TypeOK, Goto, Idle, Effective
  <2>4. Reserved'
    BY <2>1, ReserveDropped DEF IndInv
  <2>5. QED
    BY <2>2, <2>3, <2>4 DEF IndInv
<1>4. CASE Fits(req[w])
  <2>1. Goto(w, r) /\ peak' = IF n < peak THEN peak ELSE n + 1
    BY <1>4 DEF Check
  <2>2. r \in Request /\ r.at = "record" /\ r.limit = req[w].limit /\ r.q = req[w].q
    BY <1>1 DEF Request
  <2> HIDE DEF r
  <2>3. TypeOK'
    <3>1. peak \in Nat /\ n + 1 \in Nat
      BY <1>2 DEF IndInv, TypeOK
    <3>2. peak' \in Nat
      <4> HIDE DEF n
      <4> QED
        BY <2>1, <3>1
    <3>3. QED
      BY <1>1, <2>1, <2>2, <3>2 DEF IndInv, TypeOK, Goto
  <2>4. CapOK'
    BY <1>1, <2>1, <2>2 DEF IndInv, CapOK, TypeOK, Goto, Effective
  <2>5. Checked' = Checked \cup {w}
    BY <2>1, <2>2 DEF Checked, Goto, IndInv, TypeOK
  <2>6. Cardinality(Checked') = n + 1
    BY <1>1, <1>2, <2>5, CheckedCount
  <2>7. Reserved'
    <3> SUFFICES ASSUME ~lifted PROVE Reserved'
      BY <1>1 DEF Reserved
    <3>1. used \in Nat /\ cap \in Nat /\ peak \in Nat /\ peak' \in Nat
      BY <2>3 DEF IndInv, TypeOK
    <3>2. req[w].limit \in 0 .. cap /\ req[w].q \in Nat
      BY <1>1, QuantityAssumption DEF IndInv, CapOK, Request
    <3>3. used + req[w].q <= cap
      BY <1>4, <3>1, <3>2 DEF Fits
    <3>4. n + 1 <= peak'
      BY <1>2, <2>1, <3>1
    <3>5. MaxQuantity * (n + 1) <= MaxQuantity * peak'
      BY <1>2, <3>1, <3>4, Times, QuantityAssumption
    <3>6. MaxQuantity * (n + 1) \in Nat /\ MaxQuantity * peak' \in Nat
      <4>1. n + 1 \in Nat /\ peak' \in Nat /\ MaxQuantity \in Nat
        BY <1>2, <3>1, QuantityAssumption
      <4>2. QED
        BY <4>1, Times
    <3>7. used' + MaxQuantity * Cardinality(Checked') <= cap' + MaxQuantity * peak'
      <4>1. used <= cap
        BY <3>1, <3>2, <3>3
      <4>2. used + MaxQuantity * (n + 1) <= cap + MaxQuantity * peak'
        BY <4>1, <3>1, <3>5, <3>6, Sums
      <4>3. QED
        BY <4>2, <1>1, <2>6
    <3>8. ASSUME peak' <= 1, NEW x \in Checked' PROVE used' + req'[x].q <= cap'
      <4>1. n = 0
        BY <1>2, <3>1, <3>4, <3>8
      <4>2. Checked = {}
        BY <4>1, <1>2, CheckedFinite, FS_EmptySet
      <4>3. x = w /\ req'[w] = r
        BY <3>8, <4>2, <2>5, <2>1 DEF Goto, IndInv, TypeOK
      <4>4. QED
        BY <4>3, <2>2, <1>1, <3>3
    <3>9. used' <= cap'
      BY <1>1, <3>1, <3>2, <3>3
    <3>10. \A x \in Checked' : req'[x].q <= cap'
      <4>1. req[w].q <= cap
        BY <3>1, <3>2, <3>3
      <4>2. \A x \in Checked : req[x].q <= cap
        BY DEF IndInv, Reserved
      <4>3. QED
        BY <4>1, <4>2, <1>1, <2>1, <2>2, <2>5 DEF Goto, IndInv, TypeOK, Checked
    <3>11. QED
      BY <1>1, <2>6, <3>4, <3>7, <3>8, <3>9, <3>10 DEF Reserved
  <2>8. QED
    BY <2>3, <2>4, <2>7 DEF IndInv
<1>5. QED
  BY <1>3, <1>4

LEMMA RecordInv ==
  ASSUME IndInv, NEW w \in Workers, Record(w)
  PROVE  IndInv'
<1> DEFINE n == Cardinality(Checked)
<1>1. /\ req[w].at = "record" /\ req[w] \in Request /\ w \in Checked
      /\ used' = used + req[w].q /\ Goto(w, Idle)
      /\ UNCHANGED <<plan, subscription, cap, lifted, peak>>
  BY DEF Record, IndInv, TypeOK, Checked, history
<1>2. n \in Nat /\ Checked \in SUBSET Workers
  BY CheckedFinite DEF Checked
<1>3. req[w].q \in 0 .. MaxQuantity /\ used \in Nat /\ cap \in Nat /\ peak \in Nat
  BY <1>1 DEF IndInv, TypeOK, Request
<1>4. TypeOK'
  BY <1>1, <1>3, QuantityAssumption DEF IndInv, TypeOK, Goto, Idle, Request
<1>5. CapOK'
  BY <1>1 DEF IndInv, CapOK, TypeOK, Goto, Idle, Effective
<1>6. Checked' = Checked \ {w}
  BY <1>1 DEF Checked, Goto, Idle, IndInv, TypeOK
<1>7. Cardinality(Checked') = n - 1 /\ Cardinality(Checked') \in Nat
  <2>1. Cardinality(Checked') = n - 1
    BY <1>1, <1>2, <1>6, CheckedCount
  <2>2. Checked' \in SUBSET Workers
    BY <1>2, <1>6
  <2>3. QED
    BY <2>1, <2>2, CheckedFinite
<1>8. Reserved'
  <2> SUFFICES ASSUME ~lifted PROVE Reserved'
    BY <1>1 DEF Reserved
  <2>1. n >= 1
    BY <1>2, <1>7
  <2>2. MaxQuantity * (n - 1) = MaxQuantity * n - MaxQuantity /\ MaxQuantity * n \in Nat
    BY <1>2, <1>3, <2>1, Times, QuantityAssumption
  <2>3. MaxQuantity * peak \in Nat
    BY <1>3, Times, QuantityAssumption
  <2>4. used' + MaxQuantity * Cardinality(Checked') <= cap' + MaxQuantity * peak'
    <3> DEFINE a == MaxQuantity * n
               b == MaxQuantity * peak
    <3>1. a \in Nat /\ b \in Nat /\ used + a <= cap + b
      BY <2>2, <2>3 DEF IndInv, Reserved
    <3>2. (used + req[w].q) + (a - MaxQuantity) <= cap + b
      <4> HIDE DEF a, b
      <4> QED
        BY <3>1, <1>3, QuantityAssumption
    <3>3. QED
      BY <3>2, <2>2, <1>1, <1>7
  <2>5. Cardinality(Checked') <= peak'
    BY <1>1, <1>2, <1>3, <1>7 DEF IndInv, Reserved
  <2>6. ASSUME peak <= 1 PROVE used' <= cap' /\ Checked' = {}
    <3>1. n = 1
      BY <1>2, <1>3, <2>1, <2>6 DEF IndInv, Reserved
    <3>2. Checked' = {}
      <4>1. Checked' \in SUBSET Workers /\ Cardinality(Checked') = 0
        BY <1>2, <1>6, <1>7, <3>1
      <4>2. QED
        BY <4>1, CheckedFinite, FS_EmptySet
    <3>3. used + req[w].q <= cap
      BY <1>1, <2>6 DEF IndInv, Reserved
    <3>4. QED
      BY <1>1, <3>2, <3>3
  <2>7. \A x \in Checked' : req'[x].q <= cap'
    BY <1>1, <1>6 DEF IndInv, Reserved, Goto, TypeOK, Checked
  <2>8. QED
    BY <1>1, <2>4, <2>5, <2>6, <2>7 DEF Reserved
<1>9. QED
  BY <1>4, <1>5, <1>8 DEF IndInv

LEMMA FailInv ==
  ASSUME IndInv, NEW w \in Workers, Fail(w)
  PROVE  IndInv'
<1>1. Goto(w, Idle) /\ UNCHANGED <<plan, subscription, used, cap, lifted, peak>>
  BY DEF Fail, history
<1>2. TypeOK'
  BY <1>1, QuantityAssumption DEF IndInv, TypeOK, Goto, Idle, Request
<1>3. CapOK'
  BY <1>1 DEF IndInv, CapOK, TypeOK, Goto, Idle, Effective
<1>4. Reserved'
  BY <1>1, ReserveDropped DEF IndInv
<1>5. QED
  BY <1>2, <1>3, <1>4 DEF IndInv

\* Raising the cap, or lifting it, leaves every limit under it.
LEMMA RaiseInv ==
  ASSUME IndInv, NEW p \in Plans, Raise(p), UNCHANGED <<used, req, peak>>,
         plan' \in Plans, subscription' \in Plans \cup {None},
         p = Effective(plan', subscription'),
         \/ plan' = plan
         \/ plan' = FREE
  PROVE  IndInv'
<1>1. /\ Allowance[p] \in Nat \cup {UNLIMITED}
      /\ Allowance[FREE] \in Nat
      /\ \A x \in Plans : Allowance[x] # UNLIMITED => Allowance[FREE] <= Allowance[x]
  BY PlansAssumption
<1>2. cap \in Nat /\ used \in Nat /\ peak \in Nat /\ plan \in Plans
  BY DEF IndInv, TypeOK
<1>3. cap' \in Nat /\ cap <= cap' /\ (Allowance[p] \in Nat => Allowance[p] <= cap')
  <2>1. cap' = IF Allowance[p] > cap THEN Allowance[p] ELSE cap
    BY DEF Raise
  <2>2. QED
    BY <1>1, <1>2, <2>1 DEF UNLIMITED
<1>4. lifted' \in BOOLEAN /\ (~lifted' => ~lifted /\ Allowance[p] # UNLIMITED)
  BY DEF Raise
<1>5. TypeOK'
  BY <1>3, <1>4 DEF IndInv, TypeOK
<1>6. CapOK'
  <2> SUFFICES ASSUME ~lifted' PROVE CapOK'
    BY DEF CapOK
  <2> USE <1>4
  <2>1. Allowance[Effective(plan', subscription')] \in 0 .. cap'
    <3>1. Allowance[p] \in Nat
      BY <1>1
    <3>2. QED
      BY <1>3, <3>1
  <2>2. ASSUME NEW w \in Workers, req'[w].at = "org"
        PROVE  Allowance[plan'] \in 0 .. cap'
    <3>1. Allowance[plan] \in 0 .. cap
      BY <2>2 DEF IndInv, CapOK
    <3>2. Allowance[FREE] <= Allowance[plan]
      BY <1>1, <1>2, <3>1 DEF UNLIMITED
    <3>3. QED
      BY <1>1, <1>2, <1>3, <3>1, <3>2
  <2>3. ASSUME NEW w \in Workers, req'[w].at \in {"used", "record"}
        PROVE  req'[w].limit \in 0 .. cap'
    <3>1. req[w].limit \in 0 .. cap
      BY <2>3 DEF IndInv, CapOK
    <3>2. QED
      BY <1>2, <1>3, <3>1
  <2>4. QED
    BY <2>1, <2>2, <2>3 DEF CapOK, Effective
<1>7. Reserved'
  <2> SUFFICES ASSUME ~lifted' PROVE Reserved'
    BY DEF Reserved
  <2>1. Checked' = Checked /\ Cardinality(Checked) \in Nat
    BY CheckedFinite DEF Checked
  <2>2. MaxQuantity * Cardinality(Checked) \in Nat /\ MaxQuantity * peak \in Nat
    BY <1>2, <2>1, Times, QuantityAssumption
  <2>3. ~lifted
    BY <1>4
  <2>4. used' + MaxQuantity * Cardinality(Checked') <= cap' + MaxQuantity * peak'
    <3>1. used + MaxQuantity * Cardinality(Checked) <= cap + MaxQuantity * peak
      BY <2>3 DEF IndInv, Reserved
    <3>2. used + MaxQuantity * Cardinality(Checked) <= cap' + MaxQuantity * peak
      BY <3>1, <2>2, <1>2, <1>3, Sums
    <3>3. QED
      BY <3>2, <2>1
  <2>5. \A w \in Checked : req[w].q \in Nat
    BY QuantityAssumption DEF Checked, IndInv, TypeOK, Request
  <2>6. /\ Cardinality(Checked) <= peak
        /\ \A w \in Checked : req[w].q <= cap'
    <3>1. /\ Cardinality(Checked) <= peak
          /\ \A w \in Checked : req[w].q <= cap
      BY <2>3 DEF IndInv, Reserved
    <3>2. QED
      BY <3>1, <2>5, <1>2, <1>3
  <2>7. peak <= 1 => used <= cap' /\ \A w \in Checked : used + req[w].q <= cap'
    <3>1. peak <= 1 => used <= cap /\ \A w \in Checked : used + req[w].q <= cap
      BY <2>3 DEF IndInv, Reserved
    <3>2. QED
      BY <3>1, <2>5, <1>2, <1>3
  <2>8. QED
    BY <2>1, <2>4, <2>6, <2>7 DEF Reserved
<1>8. QED
  BY <1>5, <1>6, <1>7 DEF IndInv

LEMMA ChangePlanInv ==
  ASSUME IndInv, ChangePlan
  PROVE  IndInv'
<1>1. plan' = FREE /\ FREE \in Plans /\ subscription' = subscription
  BY PlansAssumption DEF ChangePlan
<1>2. subscription \in Plans \cup {None}
  BY DEF IndInv, TypeOK
<1>3. Effective(plan', subscription') = Effective(FREE, subscription)
  BY <1>1 DEF Effective
<1>4. Effective(FREE, subscription) \in Plans
  BY <1>1, <1>2 DEF Effective
<1>5. Raise(Effective(FREE, subscription)) /\ UNCHANGED <<used, req, peak>>
  BY DEF ChangePlan
<1>6. QED
  BY <1>1, <1>2, <1>3, <1>4, <1>5, RaiseInv

LEMMA SubscribeInv ==
  ASSUME IndInv, NEW p \in Plans \cup {None}, Subscribe(p)
  PROVE  IndInv'
<1>1. plan' = plan /\ plan \in Plans /\ subscription' = p
  BY DEF Subscribe, IndInv, TypeOK
<1>2. Effective(plan', subscription') = Effective(plan, p)
  BY <1>1 DEF Effective
<1>3. Effective(plan, p) \in Plans
  BY <1>1 DEF Effective
<1>4. Raise(Effective(plan, p)) /\ UNCHANGED <<used, req, peak>>
  BY DEF Subscribe
<1>5. QED
  BY <1>1, <1>2, <1>3, <1>4, RaiseInv

\* A new period starts from nothing, with the requests still on their way.
LEMMA RolloverInv ==
  ASSUME IndInv, Rollover
  PROVE  IndInv'
<1> DEFINE n == Cardinality(Checked)
           p == Effective(plan, subscription)
           quiet == \A w \in Workers : req[w] = Idle
<1>1. /\ used' = 0 /\ peak' = n
      /\ UNCHANGED <<plan, subscription, req>>
  BY DEF Rollover
<1>2. n \in Nat /\ Checked' = Checked
  BY <1>1, CheckedFinite DEF Checked
<1>3. p \in Plans /\ Allowance[p] \in Nat \cup {UNLIMITED}
  BY PlansAssumption DEF IndInv, TypeOK, Effective
<1>4. CASE quiet
  <2>1. /\ cap' = IF Allowance[p] = UNLIMITED THEN 0 ELSE Allowance[p]
        /\ lifted' = (Allowance[p] = UNLIMITED)
    BY <1>4 DEF Rollover
  <2>2. TypeOK' /\ cap' \in Nat
    BY <1>1, <1>2, <1>3, <2>1 DEF IndInv, TypeOK, UNLIMITED
  <2>3. CapOK'
    <3>1. ~lifted' => Allowance[p] # UNLIMITED
      BY <2>1
    <3>2. ~lifted' => Allowance[p] \in 0 .. cap'
      <4>1. Allowance[p] # UNLIMITED => cap' = Allowance[p] /\ cap' \in Nat
        BY <1>3, <2>1
      <4>2. QED
        BY <3>1, <4>1
    <3>3. \A w \in Workers : req'[w].at = "idle"
      BY <1>1, <1>4 DEF Idle
    <3>4. Effective(plan', subscription') = p
      BY <1>1
    <3>5. QED
      BY <3>2, <3>3, <3>4 DEF CapOK
  <2>4. Checked = {} /\ n = 0
    <3>1. Checked = {}
      BY <1>4 DEF Checked, Idle
    <3>2. QED
      BY <3>1, FS_EmptySet
  <2>5. MaxQuantity * 0 = 0
    BY QuantityAssumption
  <2>6. Reserved'
    BY <1>1, <1>2, <2>2, <2>4, <2>5 DEF Reserved
  <2>7. QED
    BY <2>2, <2>3, <2>6 DEF IndInv
<1>5. CASE ~quiet
  <2>1. UNCHANGED <<cap, lifted>>
    BY <1>5 DEF Rollover
  <2>2. TypeOK' /\ cap \in Nat
    BY <1>1, <1>2, <2>1 DEF IndInv, TypeOK
  <2>3. CapOK'
    BY <1>1, <2>1 DEF IndInv, CapOK, Effective
  <2>4. Reserved'
    <3> SUFFICES ASSUME ~lifted PROVE Reserved'
      BY <2>1 DEF Reserved
    <3>1. MaxQuantity * n \in Nat
      BY <1>2, Times, QuantityAssumption
    <3>2. \A w \in Checked : req[w].q \in Nat /\ req[w].q <= cap
      BY QuantityAssumption DEF IndInv, TypeOK, Request, Reserved, Checked
    <3>3. 0 + MaxQuantity * n <= cap + MaxQuantity * n
      BY <3>1, <2>2, Sums
    <3>4. QED
      BY <3>2, <3>3, <1>1, <1>2, <2>1, <2>2 DEF Reserved
  <2>5. QED
    BY <2>2, <2>3, <2>4 DEF IndInv
<1>6. QED
  BY <1>4, <1>5

LEMMA NextInv == IndInv /\ [Next]_vars => IndInv'
<1> SUFFICES ASSUME IndInv, [Next]_vars PROVE IndInv'
  OBVIOUS
<1>1. CASE ChangePlan
  BY <1>1, ChangePlanInv
<1>2. ASSUME NEW p \in Plans \cup {None}, Subscribe(p) PROVE IndInv'
  BY <1>2, SubscribeInv
<1>3. CASE Rollover
  BY <1>3, RolloverInv
<1>4. ASSUME NEW w \in Workers, NEW q \in 1 .. MaxQuantity, Start(w, q) PROVE IndInv'
  BY <1>4, StartInv
<1>5. ASSUME NEW w \in Workers, ReadSubscription(w) PROVE IndInv'
  BY <1>5, ReadSubscriptionInv
<1>6. ASSUME NEW w \in Workers, ReadOrganization(w) PROVE IndInv'
  BY <1>6, ReadOrganizationInv
<1>7. ASSUME NEW w \in Workers, Check(w) PROVE IndInv'
  BY <1>7, CheckInv
<1>8. ASSUME NEW w \in Workers, Record(w) PROVE IndInv'
  BY <1>8, RecordInv
<1>9. ASSUME NEW w \in Workers, Fail(w) PROVE IndInv'
  BY <1>9, FailInv
<1>10. CASE UNCHANGED vars
  BY <1>10 DEF vars, IndInv, TypeOK, CapOK, Reserved, Effective, Checked
<1>11. QED
  BY <1>1, <1>2, <1>3, <1>4, <1>5, <1>6, <1>7, <1>8, <1>9, <1>10 DEF Next

\* The inductive invariant holds of every behaviour.
THEOREM Invariance == Spec => []IndInv
BY InitInv, NextInv, PTL DEF Spec

\* Requests that do not overlap keep to the allowance, for any catalogue.
THEOREM KeptAllowance == Spec => []AllowanceKept
<1>1. IndInv => AllowanceKept
  BY DEF IndInv, Reserved, AllowanceKept
<1>2. QED
  BY Invariance, <1>1, PTL

\* Any number of overlapping requests exceeds it by what they add at most.
THEOREM BoundedOvershoot == Spec => []OvershootBounded
<1>1. IndInv => OvershootBounded
  <2> SUFFICES ASSUME IndInv, ~lifted PROVE used <= cap + MaxQuantity * peak
    BY DEF OvershootBounded
  <2>1. Checked \in SUBSET Workers /\ Cardinality(Checked) \in Nat
    BY CheckedFinite DEF Checked
  <2>2. used \in Nat /\ cap \in Nat /\ peak \in Nat
    BY DEF IndInv, TypeOK
  <2>3. MaxQuantity * Cardinality(Checked) \in Nat /\ MaxQuantity * peak \in Nat
    BY <2>1, <2>2, Times, QuantityAssumption
  <2> DEFINE a == MaxQuantity * Cardinality(Checked)
             b == MaxQuantity * peak
  <2>4. a \in Nat /\ b \in Nat /\ used + a <= cap + b
    BY <2>3 DEF IndInv, Reserved
  <2>5. used <= cap + b
    <3> HIDE DEF a, b
    <3> QED
      BY <2>2, <2>4
  <2>6. QED
    BY <2>5
<1>2. QED
  BY Invariance, <1>1, PTL
=============================================================================
