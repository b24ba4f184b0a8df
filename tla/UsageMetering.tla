---------------------------- MODULE UsageMetering ----------------------------
(***************************************************************************)
(* One metered quantity of one organization: recordUsage and changePlan of *)
(* modules/billing/billing.service.ts over resolvePlan, assertWithinLimit  *)
(* and record of usage.service.ts.                                         *)
(*                                                                         *)
(* The check and the record are separate statements, the plan takes two    *)
(* more, and the period may end between any two of them.  Subscriptions    *)
(* are written by nothing in the repository: they come and go on their own.*)
(***************************************************************************)
EXTENDS Integers, FiniteSets

CONSTANTS
  Workers,      \* concurrent requests
  Plans, FREE,  \* OrgPlan and its first member
  Allowance,    \* limitForMetric of each plan
  MaxQuantity,  \* bound: the largest quantity recorded at once
  None          \* no active subscription

UNLIMITED == -1

ASSUME WorkersAssumption == IsFiniteSet(Workers)
ASSUME PlansAssumption ==
  /\ FREE \in Plans /\ None \notin Plans
  /\ Allowance \in [Plans -> Nat \cup {UNLIMITED}]
  /\ Allowance[FREE] # UNLIMITED
  /\ \A p \in Plans : Allowance[p] # UNLIMITED => Allowance[FREE] <= Allowance[p]
ASSUME QuantityAssumption == MaxQuantity \in Nat \ {0}

VARIABLES
  plan,          \* organizations.plan
  subscription,  \* the plan of the latest active subscription
  used,          \* usage_records.quantity of the current period
  req,           \* what each request is doing and what it has read
  cap,           \* history: the highest limit this period's requests may hold
  lifted,        \* history: a request of this period may hold no limit
  peak           \* history: most requests at once that fit and had yet to record

history == <<cap, lifted, peak>>
vars == <<plan, subscription, used, req, cap, lifted, peak>>

Request == [at : {"idle", "sub", "org", "used", "record"},
            q : 0 .. MaxQuantity, limit : Nat \cup {UNLIMITED}]

Idle == [at |-> "idle", q |-> 0, limit |-> 0]

TypeOK ==
  /\ plan \in Plans
  /\ subscription \in Plans \cup {None}
  /\ used \in Nat
  /\ req \in [Workers -> Request]
  /\ cap \in Nat /\ peak \in Nat /\ lifted \in BOOLEAN

\* What resolvePlan answers when nothing changes between its two reads.
Effective(p, s) == IF s = None THEN p ELSE s

\* The limits in force, as the history keeps them.
Raise(p) ==
  /\ cap' = IF Allowance[p] > cap THEN Allowance[p] ELSE cap
  /\ lifted' = (lifted \/ Allowance[p] = UNLIMITED)

Checked == {w \in Workers : req[w].at = "record"}

Init ==
  /\ plan \in Plans
  /\ subscription = None
  /\ used = 0
  /\ req = [w \in Workers |-> Idle]
  /\ cap = IF Allowance[plan] = UNLIMITED THEN 0 ELSE Allowance[plan]
  /\ lifted = (Allowance[plan] = UNLIMITED)
  /\ peak = 0

Goto(w, r) == req' = [req EXCEPT ![w] = r]

-----------------------------------------------------------------------------
(* recordUsage.                                                            *)

Start(w, q) ==
  /\ req[w] = Idle
  /\ Goto(w, [at |-> "sub", q |-> q, limit |-> 0])
  /\ UNCHANGED <<plan, subscription, used, history>>

\* A plan without a limit goes straight to the record.
Resolved(w, p) ==
  Goto(w, [req[w] EXCEPT !.at = IF Allowance[p] = UNLIMITED THEN "record" ELSE "used",
                         !.limit = Allowance[p]])

ReadSubscription(w) ==
  /\ req[w].at = "sub"
  /\ IF subscription = None
     THEN Goto(w, [req[w] EXCEPT !.at = "org"])
     ELSE Resolved(w, subscription)
  /\ UNCHANGED <<plan, subscription, used, history>>

ReadOrganization(w) ==
  /\ req[w].at = "org"
  /\ Resolved(w, plan)
  /\ UNCHANGED <<plan, subscription, used, history>>

\* Planted bug: the quantity about to be recorded is left out of the check.
MutFits(r) == used < r.limit

\* Planted bug: the quantity alone is compared with the allowance.
MutFitsAlone(r) == r.q <= r.limit

Fits(r) == used + r.q <= r.limit

\* getUsed and the comparison.
Check(w) ==
  /\ req[w].at = "used"
  /\ IF Fits(req[w])
     THEN /\ Goto(w, [req[w] EXCEPT !.at = "record"])
          /\ peak' = IF Cardinality(Checked) < peak THEN peak
                     ELSE Cardinality(Checked) + 1
     ELSE Goto(w, Idle) /\ UNCHANGED peak
  /\ UNCHANGED <<plan, subscription, used, cap, lifted>>

\* The upsert adds to the row as it is now, of the period that it is now.
Record(w) ==
  /\ req[w].at = "record"
  /\ used' = used + req[w].q
  /\ Goto(w, Idle)
  /\ UNCHANGED <<plan, subscription, history>>

\* A call fails or the process dies.
Fail(w) ==
  /\ req[w] # Idle
  /\ Goto(w, Idle)
  /\ UNCHANGED <<plan, subscription, used, history>>

-----------------------------------------------------------------------------
(* changePlan, the payment provider, the calendar.                         *)

\* Only the free plan is applied; the others wait for the provider.
ChangePlan ==
  /\ plan' = FREE
  /\ Raise(Effective(FREE, subscription))
  /\ UNCHANGED <<subscription, used, req, peak>>

Subscribe(p) ==
  /\ subscription # p
  /\ subscription' = p
  /\ Raise(Effective(plan, p))
  /\ UNCHANGED <<plan, used, req, peak>>

\* The row of the new month does not exist yet; requests go on across the end.
Rollover ==
  LET p == Effective(plan, subscription)
      quiet == \A w \in Workers : req[w] = Idle
  IN /\ used' = 0
     /\ peak' = Cardinality(Checked)
     /\ IF quiet
        THEN /\ cap' = IF Allowance[p] = UNLIMITED THEN 0 ELSE Allowance[p]
             /\ lifted' = (Allowance[p] = UNLIMITED)
        ELSE UNCHANGED <<cap, lifted>>
     /\ UNCHANGED <<plan, subscription, req>>

Next ==
  \/ ChangePlan
  \/ \E p \in Plans \cup {None} : Subscribe(p)
  \/ Rollover
  \/ \E w \in Workers :
       \/ \E q \in 1 .. MaxQuantity : Start(w, q)
       \/ ReadSubscription(w)
       \/ ReadOrganization(w)
       \/ Check(w)
       \/ Record(w)
       \/ Fail(w)

Spec == Init /\ [][Next]_vars

-----------------------------------------------------------------------------
(* What the plan promises.                                                 *)

\* Requests that do not overlap between check and record never exceed the
\* allowance, whatever happens to the plan and the calendar meanwhile.
AllowanceKept == ~lifted /\ peak <= 1 => used <= cap

\* Requests that do overlap exceed it by no more than what each of them adds:
\* "recording metered usage after enforcing the plan limit" is off by at most
\* one quantity for each request that was checked at the same time.
OvershootBounded == ~lifted => used <= cap + MaxQuantity * peak

(***************************************************************************)
(* The inductive invariant: every limit a request holds, or will read, is  *)
(* under the cap, and what is checked is reserved under the peak.          *)
(***************************************************************************)

CapOK ==
  ~lifted =>
    /\ Allowance[Effective(plan, subscription)] \in 0 .. cap
    /\ \A w \in Workers :
         /\ req[w].at = "org" => Allowance[plan] \in 0 .. cap
         /\ req[w].at \in {"used", "record"} => req[w].limit \in 0 .. cap

Reserved ==
  /\ ~lifted =>
       /\ Cardinality(Checked) <= peak
       /\ \A w \in Checked : req[w].q <= cap
  /\ ~lifted => used + MaxQuantity * Cardinality(Checked) <= cap + MaxQuantity * peak
  /\ ~lifted /\ peak <= 1 =>
       /\ used <= cap
       /\ \A w \in Checked : used + req[w].q <= cap

IndInv == TypeOK /\ CapOK /\ Reserved
=============================================================================
