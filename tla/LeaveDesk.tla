----------------------------- MODULE LeaveDesk -----------------------------
(***************************************************************************)
(* What the leave service promises an employee, without transactions,      *)
(* locks, policy rows or payroll periods: a desk where requests are        *)
(* decided one at a time.  An approval takes the days out of the account   *)
(* of the request, which must cover them; taking back an approved leave    *)
(* puts exactly these days back; nothing else moves a day.                 *)
(***************************************************************************)
EXTENDS Integers

CONSTANTS
    Requests,   \* requests the employee may hand in
    Forms,      \* what a request may ask for
    Accounts,   \* accounts of leave days
    AccountOf,  \* [Forms -> Accounts]
    Cost,       \* [Forms -> days]
    Allowance   \* [Accounts -> days]

VARIABLES
    status,     \* [Requests -> status]
    form,       \* [Requests -> Forms]
    left,       \* [Accounts -> days left]
    arrears     \* requests whose approval is recovered from a later salary

vars == <<status, form, left, arrears>>

Init ==
    /\ status = [r \in Requests |-> "NONE"]
    /\ form \in [Requests -> Forms]
    /\ left = Allowance
    /\ arrears = {}

\* The status of r goes from old to new.
Decide(r, old, new) ==
    /\ status[r] = old
    /\ status' = [status EXCEPT ![r] = new]

HandIn(r) ==
    /\ Decide(r, "NONE", "PENDING")
    /\ \E f \in Forms : form' = [form EXCEPT ![r] = f]
    /\ UNCHANGED <<left, arrears>>

Approve(r) ==
    LET a == AccountOf[form[r]]
        c == Cost[form[r]]
    IN
    /\ Decide(r, "PENDING", "APPROVED")
    /\ c <= left[a]
    /\ left' = [left EXCEPT ![a] = @ - c]
    /\ arrears' \in {arrears, arrears \cup {r}}
    /\ UNCHANGED form

\* The request is rejected, or withdrawn before a decision.
Drop(r) ==
    /\ Decide(r, "PENDING", "REJECTED") \/ Decide(r, "PENDING", "CANCELLED")
    /\ UNCHANGED <<form, left, arrears>>

TakeBack(r) ==
    LET a == AccountOf[form[r]]
        c == Cost[form[r]]
    IN
    /\ Decide(r, "APPROVED", "CANCELLED")
    /\ left' = [left EXCEPT ![a] = @ + c]
    /\ UNCHANGED <<form, arrears>>

Next == \E r \in Requests : HandIn(r) \/ Approve(r) \/ Drop(r) \/ TakeBack(r)

Spec == Init /\ [][Next]_vars

============================================================================
