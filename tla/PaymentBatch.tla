---------------------------- MODULE PaymentBatch ----------------------------
(***************************************************************************)
(* The payment batches of one payroll run: approval, export, bank          *)
(* responses and re-payouts.                                               *)
(*                                                                         *)
(* Code: app/services/payroll/payment_batch_service.py and                 *)
(* app/api/payroll/permissions.py.                                         *)
(*                                                                         *)
(* No handler locks a row.  approve_batch and reconcile_bank_feed read     *)
(* their batch, run further queries, and write at the end: two actions, a  *)
(* load and a commit.  An ORM object writes only the columns whose value   *)
(* differs from the loaded one (Written).  The other handlers write what   *)
(* they have just read and are one action each.  A batch has at most one   *)
(* item per employee, so an item is named by its batch and employee.       *)
(* The payslips belong to the run: RunWritesSlips is what it does to them. *)
(***************************************************************************)
EXTENDS Integers, FiniteSets

CONSTANTS
    Batches,    \* bound: identities of payment_batches rows
    Employees,  \* the run's payroll_run_employees
    Users,      \* users with the payroll permissions
    Utrs,       \* UTR numbers a bank may report
    Calls,      \* approvals and feeds in progress at one time
    MaxCreated, \* bound: batches created from the run at one time
    MaxManual,  \* bound: manual interventions by the payroll desk
    DualPolicy, \* whether the tenant enforces maker-checker
    None        \* NULL

ASSUME NamesAssumption ==
    /\ DualPolicy \in BOOLEAN /\ MaxManual \in Nat /\ MaxCreated \in Nat
    /\ None \notin Batches \cup Users \cup Utrs

Statuses     == {"NONE", "DRAFT", "APPROVED", "SUBMITTED", "RECONCILED", "REJECTED"}

\* No handler tells RETRIED from HELD: HELD stands for both.
ItemStatuses == {"NONE", "PENDING", "HELD", "RELEASED", "SUCCESS", "FAILED", "PAID"}

Batch == [status : Statuses, createdBy : Users \cup {None},
          processedBy : Users \cup {None}, approvedBy : Users \cup {None},
          retryOf : Batches \cup {None}]

Item == [status : ItemStatuses, utr : Utrs \cup {None},
         repay : Batches \cup {None}]

NoBatch == [status |-> "NONE", createdBy |-> None, processedBy |-> None,
            approvedBy |-> None, retryOf |-> None]

NewItem(s) == [status |-> s, utr |-> None, repay |-> None]

\* A row of a bank feed: a paid row needs a UTR, a failed one carries none
\* here, and "NONE" is no row.
FeedRows == {r \in [status : {"NONE", "PAID", "FAILED"}, utr : Utrs \cup {None}] :
                r.status = "PAID" <=> r.utr # None}

\* What a call has loaded.
Call == [op : {"none", "approve", "feed"}, b : Batches \cup {None},
         user : Users \cup {None}, status : Statuses,
         approver : Users \cup {None}, items : [Employees -> Item],
         feed : [Employees -> FeedRows]]

NoCall == [op |-> "none", b |-> None, user |-> None, status |-> "NONE",
           approver |-> None,
           items |-> [e \in Employees |-> NewItem("NONE")],
           feed |-> [e \in Employees |-> [status |-> "NONE", utr |-> None]]]

VARIABLES
    batch,  \* [Batches -> Batch]
    item,   \* [Batches -> [Employees -> Item]]
    slip,   \* [Employees -> payment_status of the payslip]
    files,  \* batches a bank file has been generated for
    manual, \* how often the desk has intervened
    call    \* [Calls -> Call]

vars == <<batch, item, slip, files, manual, call>>

Init ==
    /\ batch = [b \in Batches |-> NoBatch]
    /\ item = [b \in Batches |-> [e \in Employees |-> NewItem("NONE")]]
    /\ slip = [e \in Employees |-> "PENDING"]
    /\ files = {}
    /\ manual = 0
    /\ call = [c \in Calls |-> NoCall]

Written(loaded, new, current) == IF new = loaded THEN current ELSE new

Exists(b) == batch[b].status # "NONE"
HasItem(b, e) == item[b][e].status # "NONE"

Reconcilable == {"APPROVED", "SUBMITTED", "RECONCILED"}

-----------------------------------------------------------------------------
\* create_batch_from_run: one item per employee of the run, whatever the run's
\* status and the batches it already has.
CreateBatch(b, u, held) ==
    /\ ~Exists(b)
    /\ Cardinality({a \in Batches : Exists(a) /\ batch[a].retryOf = None}) < MaxCreated
    /\ batch' = [batch EXCEPT ![b] = [NoBatch EXCEPT !.status = "DRAFT", !.createdBy = u]]
    /\ item' = [item EXCEPT ![b] =
                  [e \in Employees |-> NewItem(IF e \in held THEN "HELD" ELSE "PENDING")]]
    /\ UNCHANGED <<slip, files, manual, call>>

BugMakers(r) == {r.processedBy} \ {None}

\* maker_ids_for_batch.
Makers(r) == {r.createdBy, r.processedBy} \ {None}

\* approve_batch, up to enforce_maker_checker.
ApproveLoads(c, b, u) ==
    /\ call[c].op = "none" /\ Exists(b)
    /\ DualPolicy => u \notin Makers(batch[b])
    /\ call' = [call EXCEPT ![c] = 
          [NoCall EXCEPT !.op = "approve", !.b = b, !.user = u,
                         !.status = batch[b].status, !.approver = batch[b].approvedBy]]
    /\ UNCHANGED <<batch, item, slip, files, manual>>

\* Any status becomes APPROVED.
ApproveCommits(c) ==
    LET b == call[c].b
    IN  /\ call[c].op = "approve"
        /\ batch' = [batch EXCEPT
              ![b].status = Written(call[c].status, "APPROVED", @),
              ![b].approvedBy = Written(call[c].approver, call[c].user, @)]
        /\ call' = [call EXCEPT ![c] = NoCall]
        /\ UNCHANGED <<item, slip, files, manual>>

\* reject_batch: the approver stays on the batch.
RejectBatch(b) ==
    /\ Exists(b)
    /\ manual < MaxManual /\ manual' = manual + 1
    /\ batch' = [batch EXCEPT ![b].status = "REJECTED"]
    /\ UNCHANGED <<item, slip, files, call>>

\* submit_batch: what is pending counts as transferred.
SubmitBatch(b, u) ==
    /\ Exists(b)
    /\ manual < MaxManual /\ manual' = manual + 1
    /\ batch' = [batch EXCEPT ![b].status = "SUBMITTED", ![b].processedBy = u]
    /\ item' = [item EXCEPT ![b] = [e \in Employees |->
                  IF @[e].status = "PENDING" THEN [@[e] EXCEPT !.status = "SUCCESS"]
                  ELSE @[e]]]
    /\ UNCHANGED <<slip, files, call>>

\* reconcile_batch.
ReconcileBatch(b) ==
    /\ Exists(b)
    /\ manual < MaxManual /\ manual' = manual + 1
    /\ batch' = [batch EXCEPT ![b].status = "RECONCILED"]
    /\ UNCHANGED <<item, slip, files, call>>

\* hold_item, release_item and retry_item look at no status.
MarkItem(b, e, s) ==
    /\ HasItem(b, e)
    /\ manual < MaxManual /\ manual' = manual + 1
    /\ item' = [item EXCEPT ![b][e].status = s]
    /\ UNCHANGED <<batch, slip, files, call>>

BugExportApproved(r) == r.status \in Reconcilable

\* assert_export_approved.
ExportApproved(r) == r.approvedBy # None /\ r.status \in Reconcilable

\* generate_bank_file, by a route or by the worker.
GenerateBankFile(b) ==
    /\ ExportApproved(batch[b])
    /\ \E e \in Employees : item[b][e].status \in {"PENDING", "RELEASED", "SUCCESS"}
    /\ files' = files \cup {b}
    /\ UNCHANGED <<batch, item, slip, manual, call>>

\* apply_bank_response: rows are matched by account number, which names an
\* employee.  The preview may have been taken of any batch, and may be applied
\* again when its token has not been deleted.  Payslips are left alone.
ApplyBankResponse(b, rows) ==
    /\ Exists(b)
    /\ manual < MaxManual /\ manual' = manual + 1
    /\ item' = [item EXCEPT ![b] = [e \in Employees |->
                  IF e \in DOMAIN rows /\ HasItem(b, e)
                  THEN [@[e] EXCEPT !.status = rows[e]] ELSE @[e]]]
    /\ batch' = [batch EXCEPT ![b].status = "RECONCILED"]
    /\ UNCHANGED <<slip, files, call>>

\* The payroll run writes payment_status too, with no look at the batches:
\* mark_paid and batch_payout set payslips to PAID, and a calculation sets
\* those it writes back to PENDING.
RunWritesSlips(E, s) ==
    /\ manual < MaxManual /\ manual' = manual + 1
    /\ slip' = [e \in Employees |-> IF e \in E THEN s ELSE slip[e]]
    /\ UNCHANGED <<batch, item, files, call>>

-----------------------------------------------------------------------------
BugRowAllowed(i, r) == r.status # "NONE"

\* "a paid payout cannot be changed by a later feed".
RowAllowed(i, r) == i.status = "PAID" => r.status = "PAID" /\ i.utr \in {None, r.utr}

\* reconcile_bank_feed, up to the end of its validation.
FeedLoads(c, b, u, feed) ==
    /\ call[c].op = "none"
    /\ batch[b].status \in Reconcilable
    /\ \E e \in Employees : feed[e].status # "NONE"
    /\ \A e \in Employees : feed[e].status # "NONE" =>
          HasItem(b, e) /\ RowAllowed(item[b][e], feed[e])
    /\ call' = [call EXCEPT ![c] = 
          [op |-> "feed", b |-> b, user |-> u, status |-> batch[b].status,
           approver |-> None, items |-> item[b], feed |-> feed]]
    /\ UNCHANGED <<batch, item, slip, files, manual>>

BugUnpaid(c) == {e \in Employees : call[c].feed[e].status = "FAILED"}

BugUnpaidIsNew(c) == {e \in Employees : /\ call[c].feed[e].status = "FAILED"
                                        /\ call[c].items[e].status # "FAILED"
                                        /\ call[c].items[e].repay = None}

\* pending_retry: the failed items that have no re-payout yet.
Unpaid(c) == {e \in Employees : /\ call[c].feed[e].status = "FAILED"
                                /\ call[c].items[e].repay = None}

BugFed(c, e, r) ==
    [status |-> call[c].feed[e].status, utr |-> call[c].feed[e].utr,
     repay |-> IF e \in Unpaid(c) THEN r ELSE None]

\* The item of the batch the feed is for, once the row is applied; r is the
\* re-payout batch.
Fed(c, e, r) ==
    LET row    == call[c].feed[e]
        loaded == call[c].items[e]
        now    == item[call[c].b][e]
    IN  IF row.status = "NONE" THEN now
        ELSE [status |-> Written(loaded.status, row.status, now.status),
              utr    |-> Written(loaded.utr, row.utr, now.utr),
              repay  |-> IF e \in Unpaid(c) THEN r ELSE now.repay]

\* payment_status of e's payslip.
FedSlip(c, e) ==
    IF call[c].feed[e].status = "NONE" THEN slip[e] ELSE call[c].feed[e].status

\* The rest of reconcile_bank_feed when nothing has to be paid again.
FeedCommits(c) ==
    LET b == call[c].b
    IN  /\ call[c].op = "feed" /\ Unpaid(c) = {}
        /\ item' = [item EXCEPT ![b] = [e \in Employees |-> Fed(c, e, None)]]
        /\ batch' = [batch EXCEPT
              ![b].status = Written(call[c].status, "RECONCILED", @)]
        /\ slip' = [e \in Employees |-> FedSlip(c, e)]
        /\ call' = [call EXCEPT ![c] = NoCall]
        /\ UNCHANGED <<files, manual>>

\* The same with failed items: a DRAFT batch r pays them again.
FeedCommitsAndRepays(c, r) ==
    LET b == call[c].b
    IN  /\ call[c].op = "feed" /\ Unpaid(c) # {} /\ ~Exists(r)
        /\ item' = [item EXCEPT
              ![b] = [e \in Employees |-> Fed(c, e, r)],
              ![r] = [e \in Employees |->
                        NewItem(IF e \in Unpaid(c) THEN "PENDING" ELSE "NONE")]]
        /\ batch' = [batch EXCEPT
              ![b].status = Written(call[c].status, "RECONCILED", @),
              ![r] = [NoBatch EXCEPT !.status = "DRAFT",
                         !.createdBy = call[c].user, !.retryOf = b]]
        /\ slip' = [e \in Employees |-> FedSlip(c, e)]
        /\ call' = [call EXCEPT ![c] = NoCall]
        /\ UNCHANGED <<files, manual>>

\* A call dies, or its transaction is rolled back.
CallFails(c) ==
    /\ call[c].op # "none"
    /\ call' = [call EXCEPT ![c] = NoCall]
    /\ UNCHANGED <<batch, item, slip, files, manual>>

Next ==
    \/ \E b \in Batches :
         \/ \E u \in Users, held \in SUBSET Employees : CreateBatch(b, u, held)
         \/ \E u \in Users : SubmitBatch(b, u)
         \/ RejectBatch(b) \/ ReconcileBatch(b) \/ GenerateBankFile(b)
         \/ \E e \in Employees, s \in {"HELD", "RELEASED"} : MarkItem(b, e, s)
         \/ \E E \in SUBSET Employees : \E rows \in [E -> {"SUCCESS", "FAILED"}] :
              ApplyBankResponse(b, rows)
    \/ \E E \in SUBSET Employees, s \in {"PAID", "PENDING"} : RunWritesSlips(E, s)
    \/ \E c \in Calls :
         \/ \E b \in Batches, u \in Users : ApproveLoads(c, b, u)
         \/ ApproveCommits(c)
         \/ \E b \in Batches, u \in Users, feed \in [Employees -> FeedRows] :
              FeedLoads(c, b, u, feed)
         \/ FeedCommits(c)
         \/ \E r \in Batches : FeedCommitsAndRepays(c, r)
         \/ CallFails(c)

Spec == Init /\ [][Next]_vars

-----------------------------------------------------------------------------
\* Every row keeps its type.
TypeOK ==
    /\ batch \in [Batches -> Batch]
    /\ item \in [Batches -> [Employees -> Item]]
    /\ slip \in [Employees -> {"PENDING", "PAID", "FAILED"}]
    /\ files \subseteq Batches
    /\ manual \in 0 .. MaxManual
    /\ call \in [Calls -> Call]

\* No bank file leaves without dual control: the batch of every file that was
\* generated has an approver who did not create it, whichever way the batch
\* reached its status and whatever overlapped with the approval.
ExportIsDual ==
    DualPolicy => \A b \in files : batch[b].approvedBy \notin {None, batch[b].createdBy}

\* A failed payout is paid again by one batch at most, however often the bank
\* reports the failure.
OneRepayout ==
    \A r, s \in Batches, e \in Employees :
        /\ batch[r].retryOf # None /\ batch[r].retryOf = batch[s].retryOf
        /\ HasItem(r, e) /\ HasItem(s, e)
        => r = s

\* repayout_batch_id names the batch that pays the item again, and every
\* re-payout is named by the item it pays.
RepayoutIsLinked ==
    \A r \in Batches, b \in Batches, e \in Employees :
        item[b][e].repay = r <=> batch[r].retryOf = b /\ HasItem(r, e)

\* A payslip shown as failed has an item that was put into a re-payout, also
\* when the desk had marked the item as failed before the feed did.  (A payslip
\* shown as paid may have no item at all: mark_paid asks for none.)
FailedIsRepaid ==
    \A e \in Employees : slip[e] = "FAILED" => \E b \in Batches : item[b][e].repay # None

\* "a paid payout cannot be changed by a later feed": committing a feed leaves
\* every paid item paid, under the UTR it was paid with.
FeedKeepsPaid ==
    [][\A c \in Calls, b \in Batches, e \in Employees :
          /\ call[c].op = "feed" /\ item' # item
          /\ item[b][e].status = "PAID" /\ item[b][e].utr # None
          /\ call'[c].op = "none"
          => item'[b][e] = item[b][e]]_vars

\* "Replaying the same feed is safe": a feed whose commit changes no batch and
\* no item changes no payslip either.
ReplayIsSafe ==
    [][\A c \in Calls :
          call[c].op = "feed" /\ call'[c].op = "none" /\ batch' = batch /\ item' = item
          => slip' = slip]_vars

=============================================================================
