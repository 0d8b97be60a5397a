------------------------------- MODULE Payroll -------------------------------
(***************************************************************************)
(* Monthly payrolls of the hr service, and the salary advances they        *)
(* deduct.  A period is calculated employee by employee, each a read of    *)
(* the approved advances and a later insert; its approval marks the        *)
(* drafts, then the advances of each employee, then tells the ledger.      *)
(* Advances are approved, rejected and paid out meanwhile, each by a read, *)
(* a check and a save of the whole row.  Nothing is in a transaction.      *)
(*                                                                         *)
(* Amounts are left out: a payroll is the set of advances it deducts.  The *)
(* ghosts tell the orderly use of the service from the rest: orderly, that *)
(* no period was begun before the last was approved in full; contested,    *)
(* the advances that two requests handled at a time; late, those approved  *)
(* when a payroll of their employee had looked already.                    *)
(***************************************************************************)
EXTENDS Hr

CONSTANTS
    Advances,
    MaxMonth    \* bound: the periods of the year

ASSUME PayrollAssumption ==
    /\ None \notin Employees \cup Advances
    /\ MaxMonth \in Nat /\ MaxFaults \in Nat

VARIABLES
    owner,      \* the employee of each advance
    adv,        \* status of each advance; "none": not asked for yet
    pay,        \* the payroll of each employee and month
    told,       \* how often the ledger was told of each payroll
    orderly, contested, late   \* ghosts

payrollVars == <<owner, adv, pay, told, job, faults, orderly, contested, late>>
ghosts      == <<orderly, contested, late>>

Months  == 1 .. MaxMonth
Periods == Employees \X Months

AdvanceStatus == {"none", "PENDING", "APPROVED", "REJECTED", "PAID", "DEDUCTED"}
Entry  == [status : {"none", "DRAFT", "APPROVED"}, counted : SUBSET Advances]
Absent == [status |-> "none", counted |-> {}]

PayrollSteps == {"idle", "approve", "reject", "pay", "calc", "draft", "period", "mark"}
PayrollJob ==
    [pc : PayrollSteps, a : Advances \cup {None}, month : 0 .. MaxMonth,
     todo : SUBSET Employees, e : Employees \cup {None},
     counted : SUBSET Advances, list : SUBSET Employees]
Advancing(pc, a) ==
    [pc |-> pc, a |-> a, month |-> 0, todo |-> {}, e |-> None, counted |-> {}, list |-> {}]
Calculating(pc, m, todo, e, counted) ==
    [pc |-> pc, a |-> None, month |-> m, todo |-> todo, e |-> e, counted |-> counted, list |-> {}]
Approving(pc, m, todo, list) ==
    [pc |-> pc, a |-> None, month |-> m, todo |-> todo, e |-> None, counted |-> {}, list |-> list]
Free == Advancing("idle", None)

PayrollInit ==
    /\ owner = [a \in Advances |-> None]
    /\ adv = [a \in Advances |-> "none"]
    /\ pay = [p \in Periods |-> Absent]
    /\ told = [p \in Periods |-> 0]
    /\ job = [r \in Requests |-> Free]
    /\ faults = 0
    /\ orderly = TRUE
    /\ contested = {}
    /\ late = {}

\* A payroll of e has looked at its advances and not yet marked them.
Looked(e) ==
    \/ \E m \in Months : pay[<<e, m>>].status = "DRAFT"
    \/ \E r \in Requests : \/ job[r].pc = "draft" /\ job[r].e = e
                           \/ job[r].pc = "mark" /\ e \in job[r].todo

PayrollRuns == \E r \in Requests : job[r].pc \in {"calc", "draft", "period", "mark"}

-----------------------------------------------------------------------------
(* Advances.                                                                *)

Ask(a, e) ==
    /\ adv[a] = "none"
    /\ adv' = [adv EXCEPT ![a] = "PENDING"]
    /\ owner' = [owner EXCEPT ![a] = e]
    /\ UNCHANGED <<pay, told, job, faults, ghosts>>

Needed(pc)  == IF pc = "pay" THEN {"APPROVED"} ELSE {"PENDING"}
Outcome_Cancelled(pc) == IF pc = "reject" THEN "CANCELLED" ELSE IF pc = "pay" THEN "PAID" ELSE "APPROVED"
Outcome(pc) == CASE pc = "approve" -> "APPROVED" [] pc = "reject" -> "REJECTED" [] pc = "pay" -> "PAID"

\* findOne and the check ...
ReadAdvance(r, a, pc) ==
    /\ job[r] = Free /\ adv[a] \in Needed(pc)
    /\ Do(r, Advancing(pc, a))
    /\ contested' = IF \E q \in Requests : job[q].a = a THEN contested \cup {a} ELSE contested
    /\ UNCHANGED <<owner, adv, pay, told, faults, orderly, late>>

\* ... and the save, over whatever came between.
SaveAdvance(r) ==
    LET a == job[r].a IN
    /\ job[r].pc \in {"approve", "reject", "pay"}
    /\ adv' = [adv EXCEPT ![a] = Outcome(job[r].pc)]
    /\ late' = IF job[r].pc = "approve" /\ Looked(owner[a]) THEN late \cup {a} ELSE late
    /\ Do(r, Free)
    /\ UNCHANGED <<owner, pay, told, faults, orderly, contested>>

-----------------------------------------------------------------------------
(* calculatePeriod.                                                         *)

\* For the active employees of the moment, who may be any.
CalculatePeriod(r, m) ==
    /\ job[r] = Free
    /\ \E active \in SUBSET Employees \ {{}} :
         Do(r, Calculating("calc", m, active, None, {}))
    /\ orderly' = (orderly /\ ~PayrollRuns /\ \A p \in Periods : pay[p].status # "DRAFT")
    /\ UNCHANGED <<owner, adv, pay, told, faults, contested, late>>

\* getAdvanceDeduction: the approved ones, whether they are paid out or not.
Deductible_Paid(e) == {a \in Advances : owner[a] = e /\ adv[a] \in {"APPROVED", "PAID"}}
Deductible(e) == {a \in Advances : owner[a] = e /\ adv[a] = "APPROVED"}

Look(r, e) ==
    /\ job[r].pc = "calc" /\ e \in job[r].todo
    /\ Do(r, Calculating("draft", job[r].month, job[r].todo, e, Deductible(e)))
    /\ UNCHANGED <<owner, adv, pay, told, faults, ghosts>>

\* An insert: it fails, and the rest of the period with it, if there is one.
SaveDraft(r) ==
    LET j == job[r]
        p == <<j.e, j.month>>
        rest == j.todo \ {j.e}
    IN
    /\ j.pc = "draft"
    /\ IF pay[p].status # "none"
         THEN Do(r, Free) /\ UNCHANGED pay
         ELSE /\ pay' = [pay EXCEPT ![p] = [status |-> "DRAFT", counted |-> j.counted]]
              /\ Do(r, IF rest = {} THEN Free
                       ELSE Calculating("calc", j.month, rest, None, {}))
    /\ UNCHANGED <<owner, adv, told, faults, ghosts>>

-----------------------------------------------------------------------------
(* approvePeriod.                                                           *)

Drafts_All(m) == {e \in Employees : pay[<<e, m>>].status # "none"}
Drafts(m) == {e \in Employees : pay[<<e, m>>].status = "DRAFT"}

ReadPeriod(r, m) ==
    /\ job[r] = Free /\ Drafts(m) # {}
    /\ Do(r, Approving("period", m, {}, Drafts(m)))
    /\ orderly' = (orderly /\ ~PayrollRuns)
    /\ UNCHANGED <<owner, adv, pay, told, faults, contested, late>>

\* One UPDATE by id, whatever their status is by now.
ApprovePeriod(r) ==
    LET j == job[r] IN
    /\ j.pc = "period"
    /\ pay' = [p \in Periods |->
                IF p[1] \in j.list /\ p[2] = j.month
                  THEN [status |-> "APPROVED", counted |-> pay[p].counted] ELSE pay[p]]
    /\ Do(r, Approving("mark", j.month, {e \in j.list : pay[<<e, j.month>>].counted # {}}, j.list))
    /\ UNCHANGED <<owner, adv, told, faults, ghosts>>

\* Every approved advance of the employee, counted or not.
Marked(e) == [a \in Advances |-> IF owner[a] = e /\ adv[a] = "APPROVED" THEN "DEDUCTED" ELSE adv[a]]

MarkDeducted(r, e) ==
    /\ job[r].pc = "mark" /\ e \in job[r].todo
    /\ adv' = Marked(e)
    /\ Do(r, Approving("mark", job[r].month, job[r].todo \ {e}, job[r].list))
    /\ UNCHANGED <<owner, pay, told, faults, ghosts>>

\* hr.payroll.finalized, which financial-service books.
Finalize(r) ==
    LET j == job[r] IN
    /\ j.pc = "mark" /\ j.todo = {}
    /\ told' = [p \in Periods |-> told[p] + (IF p[1] \in j.list /\ p[2] = j.month THEN 1 ELSE 0)]
    /\ Do(r, Free)
    /\ UNCHANGED <<owner, adv, pay, faults, ghosts>>

-----------------------------------------------------------------------------

\* A request fails, or the process stops; an approval that breaks off before
\* all is marked leaves advances that the next period deducts again.
StopShort(r) ==
    /\ job[r] # Free /\ Fail
    /\ orderly' = (orderly /\ ~(job[r].pc = "mark" /\ job[r].todo # {}))
    /\ Do(r, Free)
    /\ UNCHANGED <<owner, adv, pay, told, contested, late>>

PayrollNext ==
    \/ \E a \in Advances, e \in Employees : Ask(a, e)
    \/ \E r \in Requests :
         \/ \E a \in Advances, pc \in {"approve", "reject", "pay"} : ReadAdvance(r, a, pc)
         \/ \E m \in Months : CalculatePeriod(r, m) \/ ReadPeriod(r, m)
         \/ \E e \in Employees : Look(r, e) \/ MarkDeducted(r, e)
         \/ SaveAdvance(r) \/ SaveDraft(r) \/ ApprovePeriod(r) \/ Finalize(r) \/ StopShort(r)

PayrollSpec == PayrollInit /\ [][PayrollNext]_payrollVars

-----------------------------------------------------------------------------
(* Properties.                                                              *)

\* Every variable has its type: no status of an advance, for one, that the
\* CHECK constraint of the table does not know.
PayrollTypeOK ==
    /\ owner \in [Advances -> Employees \cup {None}]
    /\ adv \in [Advances -> AdvanceStatus]
    /\ pay \in [Periods -> Entry]
    /\ told \in [Periods -> Nat]
    /\ job \in [Requests -> PayrollJob]
    /\ faults \in 0 .. MaxFaults
    /\ orderly \in BOOLEAN
    /\ contested \subseteq Advances /\ late \subseteq Advances

\* The approved payrolls that deduct a.
Taken(a) == {p \in Periods : pay[p].status = "APPROVED" /\ a \in pay[p].counted}

\* An advance is deducted from one salary, of its own employee, however its
\* approval and its payment fall between the steps of the payroll; and it
\* counts as deducted when it was.  That is so as long as each period is
\* approved in full before the next is begun, for an advance that no two
\* requests handled at a time and, for the converse, that was approved in time.
TakenOnce ==
    orderly => \A a \in Advances \ contested :
        /\ \A p, q \in Taken(a) : p = q /\ p[1] = owner[a]
        /\ adv[a] = "DEDUCTED" => a \in late \/ Taken(a) # {}

\* As long as each period is approved in full before the next is begun, the
\* ledger is told once of a payroll, also when its month is calculated or
\* approved again; and never of one that is not approved.
ToldOnce ==
    orderly => \A p \in Periods : /\ told[p] > 0 => pay[p].status = "APPROVED"
                                 /\ told[p] < 2
=============================================================================
