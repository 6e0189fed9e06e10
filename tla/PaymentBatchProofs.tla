------------------------- MODULE PaymentBatchProofs -------------------------
(***************************************************************************)
(* Proofs about PaymentBatch, for any number of batches, employees, users, *)
(* manual interventions and bank feeds; the dual control of exports also   *)
(* for any number of overlapping calls.                                    *)
(***************************************************************************)
EXTENDS PaymentBatch, TLAPS

LEMMA NoCallFacts ==
  /\ NoCall \in Call
  /\ NoCall.op = "none"
  BY DEF NoCall, Call, Statuses, Item, ItemStatuses, NewItem, FeedRows

LEMMA NewItemType ==
  ASSUME NEW s \in ItemStatuses
  PROVE  NewItem(s) \in Item /\ NewItem(s).status = s
  BY DEF NewItem, Item

\* Items and batches keep their type when a status is set.
LEMMA SetItemStatus ==
  ASSUME NEW i \in Item, NEW s \in ItemStatuses
  PROVE  /\ [i EXCEPT !.status = s] \in Item
         /\ [i EXCEPT !.status = s].utr = i.utr
         /\ [i EXCEPT !.status = s].repay = i.repay
         /\ [i EXCEPT !.status = s].status = s
  BY DEF Item

LEMMA SetBatchStatus ==
  ASSUME NEW a \in Batch, NEW s \in Statuses
  PROVE  /\ [a EXCEPT !.status = s] \in Batch
         /\ [a EXCEPT !.status = s].status = s
         /\ \A u \in Users : [a EXCEPT !.status = s, !.processedBy = u] \in Batch
  BY DEF Batch

\* A call that has loaded something has loaded a batch of the table.
CallsHaveBatch ==
  \A c \in Calls : call[c].op # "none" =>
    /\ call[c].b \in Batches /\ call[c].user \in Users
    /\ Exists(call[c].b)

TypeInv == TypeOK /\ CallsHaveBatch

\* What an applied row of a feed leaves is an item, and a payment status.
LEMMA FedType ==
  ASSUME TypeInv, NEW c \in Calls, call[c].op = "feed", NEW e \in Employees,
         NEW r \in Batches \cup {None}
  PROVE  Fed(c, e, r) \in Item /\ FedSlip(c, e) \in {"PENDING", "PAID", "FAILED"}
<1>1. /\ call[c] \in Call /\ call[c].b \in Batches
      /\ item[call[c].b][e] \in Item /\ slip[e] \in {"PENDING", "PAID", "FAILED"}
  BY DEF TypeInv, TypeOK, CallsHaveBatch
<1>2. call[c].feed[e] \in FeedRows
  BY <1>1 DEF Call
<1>3. /\ call[c].feed[e].status \in {"NONE", "PAID", "FAILED"}
      /\ call[c].feed[e].utr \in Utrs \cup {None}
  BY <1>2 DEF FeedRows
<1> QED
  BY <1>1, <1>3 DEF Fed, FedSlip, Written, Item, ItemStatuses

\* The steps that only load, drop or touch nothing.
LEMMA LoadsKeepTypeInv ==
  ASSUME TypeInv, NEW c \in Calls,
         \/ \E b \in Batches, u \in Users : ApproveLoads(c, b, u)
         \/ \E b \in Batches, u \in Users, feed \in [Employees -> FeedRows] :
              FeedLoads(c, b, u, feed)
         \/ CallFails(c)
  PROVE  TypeInv'
<1>1. UNCHANGED <<batch, item, slip, files, manual>>
  BY DEF ApproveLoads, FeedLoads, CallFails
<1>2. ASSUME NEW new \in Call, call' = [call EXCEPT ![c] = new],
             new.op # "none" => new.b \in Batches /\ new.user \in Users /\ Exists(new.b)
      PROVE  TypeInv'
  BY <1>1, <1>2 DEF TypeInv, TypeOK, CallsHaveBatch, Exists
<1>3. ASSUME NEW b \in Batches, NEW u \in Users, ApproveLoads(c, b, u) PROVE TypeInv'
  <2>0. PICK new : new = [NoCall EXCEPT !.op = "approve", !.b = b, !.user = u,
                            !.status = batch[b].status, !.approver = batch[b].approvedBy]
    OBVIOUS
  <2>1. batch[b] \in Batch
    BY DEF TypeInv, TypeOK
  <2>2. new \in Call /\ new.b = b /\ new.user = u
    BY <2>0, <2>1, NoCallFacts DEF Call, Batch
  <2> QED
    BY <1>2, <1>3, <2>0, <2>2 DEF ApproveLoads
<1>4. ASSUME NEW b \in Batches, NEW u \in Users, NEW feed \in [Employees -> FeedRows],
             FeedLoads(c, b, u, feed)
      PROVE  TypeInv'
  <2>0. PICK new : new = [op |-> "feed", b |-> b, user |-> u, status |-> batch[b].status,
                          approver |-> None, items |-> item[b], feed |-> feed]
    OBVIOUS
  <2>1. batch[b] \in Batch /\ item[b] \in [Employees -> Item]
    BY DEF TypeInv, TypeOK
  <2>2. new \in Call /\ new.b = b /\ new.user = u
    BY <2>0, <2>1 DEF Call, Batch
  <2>3. Exists(b)
    BY <1>4 DEF FeedLoads, Reconcilable, Exists
  <2> QED
    BY <1>2, <1>4, <2>0, <2>2, <2>3 DEF FeedLoads
<1>5. CASE CallFails(c)
  BY <1>2, <1>5, NoCallFacts DEF CallFails
<1> QED
  BY <1>3, <1>4, <1>5

\* A batch that is written stays a batch.
LEMMA BatchWritten ==
  ASSUME TypeInv, NEW b \in Batches, NEW new \in Batch, new.status # "NONE",
         batch' = [batch EXCEPT ![b] = new]
  PROVE  batch' \in [Batches -> Batch] /\ \A a \in Batches : Exists(a) => Exists(a)'
<1>1. batch \in [Batches -> Batch]
  BY DEF TypeInv, TypeOK
<1> QED
  BY <1>1 DEF Exists

\* The calls of the payroll desk.
LEMMA DeskKeepsTypeInv ==
  ASSUME TypeInv, NEW b \in Batches,
         \/ \E u \in Users, held \in SUBSET Employees : CreateBatch(b, u, held)
         \/ \E u \in Users : SubmitBatch(b, u)
         \/ RejectBatch(b) \/ ReconcileBatch(b) \/ GenerateBankFile(b)
         \/ \E e \in Employees, s \in {"HELD", "RELEASED"} : MarkItem(b, e, s)
         \/ \E E \in SUBSET Employees : \E rows \in [E -> {"SUCCESS", "FAILED"}] :
              ApplyBankResponse(b, rows)
  PROVE  TypeInv'
<1>0. /\ batch \in [Batches -> Batch] /\ item \in [Batches -> [Employees -> Item]]
      /\ manual \in 0 .. MaxManual /\ MaxManual \in Nat /\ files \subseteq Batches
      /\ batch[b] \in Batch /\ item[b] \in [Employees -> Item]
  BY NamesAssumption DEF TypeInv, TypeOK
<1>1. ASSUME UNCHANGED <<slip, call>>, files' \subseteq Batches, manual' \in 0 .. MaxManual,
             batch' \in [Batches -> Batch], item' \in [Batches -> [Employees -> Item]],
             \A a \in Batches : Exists(a) => Exists(a)'
      PROVE  TypeInv'
  BY <1>1 DEF TypeInv, TypeOK, CallsHaveBatch
<1>2. ASSUME manual < MaxManual, manual' = manual + 1 PROVE manual' \in 0 .. MaxManual
  BY <1>0, <1>2
<1>3. ASSUME NEW s \in {"SUBMITTED", "REJECTED", "RECONCILED"}
      PROVE  /\ [batch[b] EXCEPT !.status = s] \in Batch
             /\ [batch[b] EXCEPT !.status = s].status # "NONE"
  BY <1>0, SetBatchStatus DEF Statuses
<1>4. ASSUME NEW u \in Users, NEW held \in SUBSET Employees, CreateBatch(b, u, held)
      PROVE  TypeInv'
  <2>1. \A e \in Employees : NewItem(IF e \in held THEN "HELD" ELSE "PENDING") \in Item
    BY NewItemType DEF ItemStatuses
  <2>2. [NoBatch EXCEPT !.status = "DRAFT", !.createdBy = u] \in Batch
    BY DEF NoBatch, Batch, Statuses
  <2>3. [NoBatch EXCEPT !.status = "DRAFT", !.createdBy = u].status = "DRAFT"
    BY DEF NoBatch
  <2> QED
    BY <1>0, <1>1, <1>4, <2>1, <2>2, <2>3 DEF CreateBatch, Exists
<1>5. ASSUME NEW u \in Users, SubmitBatch(b, u) PROVE TypeInv'
  <2>0. PICK new : new = [batch[b] EXCEPT !.status = "SUBMITTED", !.processedBy = u]
    OBVIOUS
  <2>1. new \in Batch /\ new.status = "SUBMITTED"
    BY <1>0, <2>0 DEF Batch, Statuses
  <2>2. batch' = [batch EXCEPT ![b] = new]
    BY <1>5, <2>0 DEF SubmitBatch
  <2>3. item' \in [Batches -> [Employees -> Item]]
    <3>0. PICK f : f = [e \in Employees |->
                          IF item[b][e].status = "PENDING"
                          THEN [item[b][e] EXCEPT !.status = "SUCCESS"] ELSE item[b][e]]
      OBVIOUS
    <3>1. \A e \in Employees : item[b][e] \in Item /\ "SUCCESS" \in ItemStatuses
      BY <1>0 DEF ItemStatuses
    <3>2. f \in [Employees -> Item]
      BY <3>0, <3>1, SetItemStatus
    <3>3. item' = [item EXCEPT ![b] = f]
      BY <1>0, <1>5, <3>0 DEF SubmitBatch
    <3> QED
      BY <1>0, <3>2, <3>3
  <2> QED
    BY <1>0, <1>1, <1>2, <1>5, <2>1, <2>2, <2>3, BatchWritten DEF SubmitBatch
<1>6. CASE RejectBatch(b) \/ ReconcileBatch(b)
  <2>1. PICK s \in {"REJECTED", "RECONCILED"} :
          batch' = [batch EXCEPT ![b] = [batch[b] EXCEPT !.status = s]]
    BY <1>6 DEF RejectBatch, ReconcileBatch
  <2>2. batch' \in [Batches -> Batch] /\ \A a \in Batches : Exists(a) => Exists(a)'
    BY <1>3, <2>1, BatchWritten
  <2> QED
    BY <1>0, <1>1, <1>2, <1>6, <2>2 DEF RejectBatch, ReconcileBatch
<1>7. CASE GenerateBankFile(b)
  BY <1>0, <1>1, <1>7 DEF GenerateBankFile, Exists
<1>8. ASSUME NEW e \in Employees, NEW s \in {"HELD", "RELEASED"}, MarkItem(b, e, s)
      PROVE  TypeInv'
  <2>1. item[b][e] \in Item /\ s \in ItemStatuses
    BY <1>0 DEF ItemStatuses
  <2>2. item' = [item EXCEPT ![b] = [item[b] EXCEPT ![e] = [item[b][e] EXCEPT !.status = s]]]
    BY <1>8 DEF MarkItem
  <2>3. item' \in [Batches -> [Employees -> Item]]
    BY <1>0, <2>1, <2>2, SetItemStatus
  <2> QED
    BY <1>0, <1>1, <1>2, <1>8, <2>3 DEF MarkItem, Exists
<1>9. ASSUME NEW E \in SUBSET Employees, NEW rows \in [E -> {"SUCCESS", "FAILED"}],
             ApplyBankResponse(b, rows)
      PROVE  TypeInv'
  <2>1. batch' = [batch EXCEPT ![b] = [batch[b] EXCEPT !.status = "RECONCILED"]]
    BY <1>9 DEF ApplyBankResponse
  <2>2. batch' \in [Batches -> Batch] /\ \A a \in Batches : Exists(a) => Exists(a)'
    BY <1>3, <2>1, BatchWritten
  <2>3. item' \in [Batches -> [Employees -> Item]]
    <3>0. PICK f : f = [e \in Employees |->
                          IF e \in DOMAIN rows /\ HasItem(b, e)
                          THEN [item[b][e] EXCEPT !.status = rows[e]] ELSE item[b][e]]
      OBVIOUS
    <3>1. \A e \in Employees : item[b][e] \in Item /\ (e \in DOMAIN rows => rows[e] \in ItemStatuses)
      BY <1>0 DEF ItemStatuses
    <3>2. f \in [Employees -> Item]
      BY <3>0, <3>1, SetItemStatus
    <3>3. item' = [item EXCEPT ![b] = f]
      BY <1>0, <1>9, <3>0 DEF ApplyBankResponse
    <3> QED
      BY <1>0, <3>2, <3>3
  <2> QED
    BY <1>0, <1>1, <1>2, <1>9, <2>2, <2>3 DEF ApplyBankResponse
<1> QED
  BY <1>4, <1>5, <1>6, <1>7, <1>8, <1>9

\* The commit of an approval: the status is APPROVED or as it was, the approver
\* the caller or as it was, and nothing else changes.
LEMMA ApprovalWrites ==
  ASSUME TypeInv, NEW c \in Calls, ApproveCommits(c)
  PROVE  \E b \in Batches, new \in Batch :
           /\ b = call[c].b /\ Exists(b) /\ batch' = [batch EXCEPT ![b] = new]
           /\ new.status \in {"APPROVED", batch[b].status}
           /\ new.approvedBy \in {call[c].user, batch[b].approvedBy}
           /\ new.createdBy = batch[b].createdBy /\ new.retryOf = batch[b].retryOf
<1>0. PICK b : b = call[c].b
  OBVIOUS
<1>1. /\ b \in Batches /\ Exists(b) /\ call[c].user \in Users
      /\ batch \in [Batches -> Batch] /\ batch[b] \in Batch
  BY <1>0 DEF TypeInv, TypeOK, CallsHaveBatch, ApproveCommits
<1>2. PICK s, a : /\ s = Written(call[c].status, "APPROVED", batch[b].status)
                  /\ a = Written(call[c].approver, call[c].user, batch[b].approvedBy)
  OBVIOUS
<1>3. /\ s \in {"APPROVED", batch[b].status} /\ s \in Statuses
      /\ a \in {call[c].user, batch[b].approvedBy} /\ a \in Users \cup {None}
  BY <1>1, <1>2 DEF Written, Batch, Statuses
<1>4. PICK new : new = [batch[b] EXCEPT !.status = s, !.approvedBy = a]
  OBVIOUS
<1>5. /\ new \in Batch /\ new.status = s /\ new.approvedBy = a
      /\ new.createdBy = batch[b].createdBy /\ new.retryOf = batch[b].retryOf
  BY <1>1, <1>3, <1>4 DEF Batch
<1>6. batch' = [batch EXCEPT ![b] = new]
  BY <1>0, <1>1, <1>2, <1>4 DEF ApproveCommits
<1> QED
  BY <1>0, <1>1, <1>3, <1>5, <1>6

\* The commit of a feed: what it writes to its own batch ...
LEMMA FeedWrites ==
  ASSUME TypeInv, NEW c \in Calls, call[c].op = "feed"
  PROVE  LET b   == call[c].b
             new == [batch[b] EXCEPT !.status = Written(call[c].status, "RECONCILED", @)]
         IN  /\ b \in Batches /\ Exists(b) /\ call[c].user \in Users
             /\ new \in Batch /\ new.status # "NONE"
             /\ new.approvedBy = batch[b].approvedBy
             /\ new.createdBy = batch[b].createdBy /\ new.retryOf = batch[b].retryOf
<1>0. PICK b : b = call[c].b
  OBVIOUS
<1>1. /\ b \in Batches /\ Exists(b) /\ call[c].user \in Users /\ batch[b] \in Batch
  BY <1>0 DEF TypeInv, TypeOK, CallsHaveBatch
<1>2. PICK s : s = Written(call[c].status, "RECONCILED", batch[b].status)
  OBVIOUS
<1>3. s \in Statuses /\ s # "NONE"
  BY <1>1, <1>2 DEF Written, Batch, Statuses, Exists
<1> QED
  BY <1>0, <1>1, <1>2, <1>3 DEF Batch

\* ... and the re-payout batch it makes.
LEMMA RepayBatch ==
  ASSUME NEW u \in Users, NEW b \in Batches
  PROVE  LET new == [NoBatch EXCEPT !.status = "DRAFT", !.createdBy = u, !.retryOf = b]
         IN  /\ new \in Batch /\ new.status = "DRAFT" /\ new.createdBy = u
             /\ new.retryOf = b /\ new.approvedBy = None
  BY DEF NoBatch, Batch, Statuses

LEMMA CommitsKeepTypeInv ==
  ASSUME TypeInv, NEW c \in Calls,
         ApproveCommits(c) \/ FeedCommits(c) \/ \E r \in Batches : FeedCommitsAndRepays(c, r)
  PROVE  TypeInv'
<1>0. /\ batch \in [Batches -> Batch] /\ item \in [Batches -> [Employees -> Item]]
      /\ call' = [call EXCEPT ![c] = NoCall] /\ UNCHANGED <<files, manual>>
  BY DEF TypeInv, TypeOK, ApproveCommits, FeedCommits, FeedCommitsAndRepays
<1>1. ASSUME batch' \in [Batches -> Batch], item' \in [Batches -> [Employees -> Item]],
             slip' \in [Employees -> {"PENDING", "PAID", "FAILED"}],
             \A a \in Batches : Exists(a) => Exists(a)'
      PROVE  TypeInv'
  <2>1. call' \in [Calls -> Call] /\ call'[c] = NoCall /\ \A d \in Calls \ {c} : call'[d] = call[d]
    BY <1>0, NoCallFacts DEF TypeInv, TypeOK
  <2> QED
    BY <1>0, <1>1, <2>1, NoCallFacts DEF TypeInv, TypeOK, CallsHaveBatch
<1>2. CASE ApproveCommits(c)
  <2>1. PICK b \in Batches, new \in Batch :
          /\ Exists(b) /\ batch' = [batch EXCEPT ![b] = new]
          /\ new.status \in {"APPROVED", batch[b].status}
    BY <1>2, ApprovalWrites
  <2>2. new.status # "NONE"
    BY <2>1 DEF Exists
  <2>3. UNCHANGED <<item, slip>>
    BY <1>2 DEF ApproveCommits
  <2> QED
    BY <1>0, <1>1, <2>1, <2>2, <2>3, BatchWritten DEF TypeInv, TypeOK
<1>3. CASE FeedCommits(c)
  <2>0. PICK b, new : /\ b = call[c].b
                      /\ new = [batch[b] EXCEPT !.status = Written(call[c].status, "RECONCILED", @)]
    OBVIOUS
  <2>1. b \in Batches /\ new \in Batch /\ new.status # "NONE"
    BY <1>3, <2>0, FeedWrites DEF FeedCommits
  <2>2. \A e \in Employees : Fed(c, e, None) \in Item /\ FedSlip(c, e) \in {"PENDING", "PAID", "FAILED"}
    BY <1>3, FedType DEF FeedCommits
  <2>3. /\ batch' = [batch EXCEPT ![b] = new]
        /\ item' = [item EXCEPT ![b] = [e \in Employees |-> Fed(c, e, None)]]
        /\ slip' = [e \in Employees |-> FedSlip(c, e)]
    BY <1>3, <2>0 DEF FeedCommits
  <2> QED
    BY <1>0, <1>1, <2>1, <2>2, <2>3, BatchWritten
<1>4. ASSUME NEW r \in Batches, FeedCommitsAndRepays(c, r) PROVE TypeInv'
  <2>0. PICK b, new, re :
          /\ b = call[c].b
          /\ new = [batch[b] EXCEPT !.status = Written(call[c].status, "RECONCILED", @)]
          /\ re = [NoBatch EXCEPT !.status = "DRAFT", !.createdBy = call[c].user, !.retryOf = b]
    OBVIOUS
  <2>1. /\ b \in Batches /\ Exists(b) /\ new \in Batch /\ new.status # "NONE"
        /\ re \in Batch /\ re.status # "NONE" /\ ~Exists(r)
    <3>1. call[c].op = "feed" /\ ~Exists(r)
      BY <1>4 DEF FeedCommitsAndRepays
    <3>2. /\ b \in Batches /\ Exists(b) /\ new \in Batch /\ new.status # "NONE"
          /\ call[c].user \in Users
      BY <2>0, <3>1, FeedWrites
    <3> QED
      BY <2>0, <3>1, <3>2, RepayBatch
  <2>2. \A e \in Employees : Fed(c, e, r) \in Item /\ FedSlip(c, e) \in {"PENDING", "PAID", "FAILED"}
    BY <1>4, FedType DEF FeedCommitsAndRepays
  <2>3. \A e \in Employees : NewItem(IF e \in Unpaid(c) THEN "PENDING" ELSE "NONE") \in Item
    BY NewItemType DEF ItemStatuses
  <2>4. PICK f, g : /\ f = [e \in Employees |-> Fed(c, e, r)]
                    /\ g = [e \in Employees |-> NewItem(IF e \in Unpaid(c) THEN "PENDING" ELSE "NONE")]
    OBVIOUS
  <2>5. /\ batch' = [batch EXCEPT ![b] = new, ![r] = re]
        /\ item' = [item EXCEPT ![b] = f, ![r] = g]
        /\ slip' = [e \in Employees |-> FedSlip(c, e)]
    BY <1>0, <1>4, <2>0, <2>1, <2>4 DEF FeedCommitsAndRepays
  <2>6. f \in [Employees -> Item] /\ g \in [Employees -> Item]
    BY <2>2, <2>3, <2>4
  <2>7. batch' \in [Batches -> Batch] /\ \A a \in Batches : Exists(a) => Exists(a)'
    BY <1>0, <2>1, <2>5 DEF Exists
  <2> QED
    BY <1>0, <1>1, <2>1, <2>2, <2>5, <2>6, <2>7
<1> QED
  BY <1>2, <1>3, <1>4

\* The typing invariant, which also says that a call in progress has its batch,
\* holds in every reachable state.
THEOREM TypeInvHolds == Spec => []TypeInv
<1>1. Init => TypeInv
  <2> SUFFICES ASSUME Init PROVE TypeInv
    OBVIOUS
  <2>1. NoBatch \in Batch /\ NewItem("NONE") \in Item
    BY NewItemType DEF NoBatch, Batch, Statuses, ItemStatuses
  <2> QED
    BY <2>1, NoCallFacts, NamesAssumption DEF Init, TypeInv, TypeOK, CallsHaveBatch
<1>2. TypeInv /\ [Next]_vars => TypeInv'
  <2>1. CASE UNCHANGED vars
    BY <2>1 DEF vars, TypeInv, TypeOK, CallsHaveBatch, Exists
  <2>2. ASSUME TypeInv, NEW E \in SUBSET Employees, NEW s \in {"PAID", "PENDING"},
               RunWritesSlips(E, s)
        PROVE  TypeInv'
    <3>1. slip' \in [Employees -> {"PENDING", "PAID", "FAILED"}]
      BY <2>2 DEF RunWritesSlips, TypeInv, TypeOK
    <3>2. manual' \in 0 .. MaxManual
      BY <2>2, NamesAssumption DEF RunWritesSlips, TypeInv, TypeOK
    <3> QED
      BY <2>2, <3>1, <3>2 DEF RunWritesSlips, TypeInv, TypeOK, CallsHaveBatch, Exists
  <2> QED
    BY <2>1, <2>2, DeskKeepsTypeInv, LoadsKeepTypeInv, CommitsKeepTypeInv DEF Next
<1> QED
  BY <1>1, <1>2, PTL DEF Spec

\* Every row stays well typed, also the rows that are written from an object
\* that was loaded before another call wrote them.
THEOREM PaymentTypeCorrect == Spec => []TypeOK
<1>1. TypeInv => TypeOK
  BY DEF TypeInv
<1> QED
  BY <1>1, TypeInvHolds, PTL

(***************************************************************************)
(* Dual control of exports, with any number of calls in progress.          *)
(***************************************************************************)

\* Who created a batch is recorded and never approved it, nor will the
\* approvals that are in progress change that.
DualInv ==
  /\ \A b \in Batches : Exists(b) =>
       /\ batch[b].createdBy # None
       /\ DualPolicy => batch[b].approvedBy # batch[b].createdBy
  /\ \A b \in files : Exists(b) /\ batch[b].approvedBy # None
  /\ \A c \in Calls : call[c].op = "approve" /\ DualPolicy =>
       call[c].user # batch[call[c].b].createdBy

\* Maker, approver and origin of a batch do not change; a new batch has a
\* maker and no approver.
BatchStays(b) ==
  /\ Exists(b) => /\ Exists(b)'
                  /\ batch'[b].createdBy = batch[b].createdBy
                  /\ batch'[b].approvedBy = batch[b].approvedBy
                  /\ batch'[b].retryOf = batch[b].retryOf
  /\ ~Exists(b) /\ Exists(b)' => /\ batch'[b].createdBy # None
                                  /\ batch'[b].approvedBy = None
  /\ ~Exists(b) /\ ~Exists(b)' => batch'[b] = batch[b]

\* Only approve_batch writes approved_by.
LEMMA DeskKeepsMakers ==
  ASSUME TypeInv, NEW b \in Batches,
         \/ \E u \in Users, held \in SUBSET Employees : CreateBatch(b, u, held)
         \/ \E u \in Users : SubmitBatch(b, u)
         \/ RejectBatch(b) \/ ReconcileBatch(b) \/ GenerateBankFile(b)
         \/ \E e \in Employees, s \in {"HELD", "RELEASED"} : MarkItem(b, e, s)
         \/ \E E \in SUBSET Employees : \E rows \in [E -> {"SUCCESS", "FAILED"}] :
              ApplyBankResponse(b, rows)
  PROVE  \A a \in Batches : BatchStays(a)
<1>0. batch \in [Batches -> Batch] /\ batch[b] \in Batch
  BY DEF TypeInv, TypeOK
<1>1. ASSUME NEW u \in Users, NEW held \in SUBSET Employees, CreateBatch(b, u, held)
      PROVE  \A a \in Batches : BatchStays(a)
  <2>0. PICK new : new = [NoBatch EXCEPT !.status = "DRAFT", !.createdBy = u]
    OBVIOUS
  <2>1. new.status = "DRAFT" /\ new.createdBy = u /\ new.approvedBy = None /\ u # None
    BY <2>0, NamesAssumption DEF NoBatch
  <2>2. ~Exists(b) /\ batch' = [batch EXCEPT ![b] = new]
    BY <1>1, <2>0 DEF CreateBatch
  <2> QED
    BY <1>0, <2>1, <2>2 DEF BatchStays, Exists
<1>2. ASSUME NEW u \in Users, SubmitBatch(b, u)
      PROVE  \A a \in Batches : BatchStays(a)
  <2>0. PICK new : new = [batch[b] EXCEPT !.status = "SUBMITTED", !.processedBy = u]
    OBVIOUS
  <2>1. /\ new.status = "SUBMITTED" /\ new.createdBy = batch[b].createdBy
        /\ new.approvedBy = batch[b].approvedBy /\ new.retryOf = batch[b].retryOf
    BY <1>0, <2>0 DEF Batch
  <2>2. Exists(b) /\ batch' = [batch EXCEPT ![b] = new]
    BY <1>2, <2>0 DEF SubmitBatch
  <2> QED
    BY <1>0, <2>1, <2>2 DEF BatchStays, Exists
<1>3. ASSUME \/ RejectBatch(b) \/ ReconcileBatch(b)
             \/ \E E \in SUBSET Employees : \E rows \in [E -> {"SUCCESS", "FAILED"}] :
                  ApplyBankResponse(b, rows)
      PROVE  \A a \in Batches : BatchStays(a)
  <2>1. PICK s \in {"REJECTED", "RECONCILED"} :
          Exists(b) /\ batch' = [batch EXCEPT ![b] = [batch[b] EXCEPT !.status = s]]
    BY <1>3 DEF RejectBatch, ReconcileBatch, ApplyBankResponse
  <2>2. PICK new : new = [batch[b] EXCEPT !.status = s]
    OBVIOUS
  <2>3. /\ new.status # "NONE" /\ new.createdBy = batch[b].createdBy
        /\ new.approvedBy = batch[b].approvedBy /\ new.retryOf = batch[b].retryOf
    BY <1>0, <2>2 DEF Batch
  <2> QED
    BY <1>0, <2>1, <2>2, <2>3 DEF BatchStays, Exists
<1>4. ASSUME UNCHANGED batch PROVE \A a \in Batches : BatchStays(a)
  BY <1>4 DEF BatchStays, Exists
<1> QED
  BY <1>1, <1>2, <1>3, <1>4 DEF GenerateBankFile, MarkItem

LEMMA FeedsKeepMakers ==
  ASSUME TypeInv, NEW c \in Calls,
         FeedCommits(c) \/ \E r \in Batches : FeedCommitsAndRepays(c, r)
  PROVE  \A a \in Batches : BatchStays(a)
<1>0. batch \in [Batches -> Batch] /\ call[c].op = "feed"
  BY DEF TypeInv, TypeOK, FeedCommits, FeedCommitsAndRepays
<1>1. PICK b, new :
        /\ b = call[c].b
        /\ new = [batch[b] EXCEPT !.status = Written(call[c].status, "RECONCILED", @)]
  OBVIOUS
<1>2. /\ b \in Batches /\ Exists(b) /\ new.status # "NONE"
      /\ new.approvedBy = batch[b].approvedBy
      /\ new.createdBy = batch[b].createdBy /\ new.retryOf = batch[b].retryOf
      /\ call[c].user \in Users
  BY <1>0, <1>1, FeedWrites
<1>3. CASE FeedCommits(c)
  <2>1. batch' = [batch EXCEPT ![b] = new]
    BY <1>1, <1>3 DEF FeedCommits
  <2> QED
    BY <1>0, <1>2, <2>1 DEF BatchStays, Exists
<1>4. ASSUME NEW r \in Batches, FeedCommitsAndRepays(c, r)
      PROVE  \A a \in Batches : BatchStays(a)
  <2>0. PICK re : re = [NoBatch EXCEPT !.status = "DRAFT", !.createdBy = call[c].user, !.retryOf = b]
    OBVIOUS
  <2>1. re.status = "DRAFT" /\ re.createdBy = call[c].user /\ re.approvedBy = None
    BY <1>2, <2>0 DEF NoBatch
  <2>3. call[c].user # None
    BY <1>2, NamesAssumption
  <2>2. ~Exists(r) /\ batch' = [batch EXCEPT ![b] = new, ![r] = re]
    BY <1>0, <1>1, <1>4, <2>0 DEF FeedCommitsAndRepays
  <2> QED
    BY <1>0, <1>2, <2>1, <2>2, <2>3 DEF BatchStays, Exists
<1> QED
  BY <1>3, <1>4

\* The steps that write no approver.
LEMMA StayKeepsDual ==
  ASSUME TypeInv, DualInv, \A a \in Batches : BatchStays(a),
         \A b \in files' : b \in files \/ (b \in Batches /\ Exists(b) /\ batch[b].approvedBy # None),
         \A c \in Calls : call'[c].op = "approve" =>
           \/ call'[c] = call[c]
           \/ /\ call'[c].b \in Batches /\ Exists(call'[c].b)
              /\ DualPolicy => call'[c].user # batch[call'[c].b].createdBy
  PROVE  DualInv'
<1>0. files \subseteq Batches
  BY DEF TypeInv, TypeOK
<1>1. ASSUME NEW b \in Batches, Exists(b)'
      PROVE  /\ batch'[b].createdBy # None
             /\ DualPolicy => batch'[b].approvedBy # batch'[b].createdBy
  BY <1>1 DEF DualInv, BatchStays
<1>2. ASSUME NEW b \in files' PROVE Exists(b)' /\ batch'[b].approvedBy # None
  BY <1>0, <1>2 DEF DualInv, BatchStays
<1>3. ASSUME NEW c \in Calls, call'[c].op = "approve", DualPolicy
      PROVE  call'[c].user # batch'[call'[c].b].createdBy
  <2>1. CASE call'[c] = call[c]
    <3>1. call[c].b \in Batches /\ Exists(call[c].b)
      BY <1>3, <2>1 DEF TypeInv, CallsHaveBatch
    <3> QED
      BY <1>3, <2>1, <3>1 DEF DualInv, BatchStays
  <2>2. CASE call'[c] # call[c]
    BY <1>3, <2>2 DEF BatchStays
  <2> QED
    BY <2>1, <2>2
<1> QED
  BY <1>1, <1>2, <1>3 DEF DualInv

\* The commit of an approval writes an approver who is not the maker.
LEMMA ApproveKeepsDual ==
  ASSUME TypeInv, DualInv, NEW c \in Calls, ApproveCommits(c)
  PROVE  DualInv'
<1>0. PICK b \in Batches, new \in Batch :
        /\ b = call[c].b /\ Exists(b) /\ batch' = [batch EXCEPT ![b] = new]
        /\ new.status \in {"APPROVED", batch[b].status}
        /\ new.approvedBy \in {call[c].user, batch[b].approvedBy}
        /\ new.createdBy = batch[b].createdBy
  BY ApprovalWrites
<1>1. /\ call[c].op = "approve" /\ call[c].user # None
      /\ files' = files /\ files \subseteq Batches /\ batch \in [Batches -> Batch]
  BY NamesAssumption DEF ApproveCommits, TypeInv, TypeOK, CallsHaveBatch
<1>2. call'[c].op = "none" /\ \A d \in Calls \ {c} : call'[d] = call[d]
  BY NoCallFacts DEF ApproveCommits, TypeInv, TypeOK
<1>3. /\ batch'[b] = new /\ \A a \in Batches \ {b} : batch'[a] = batch[a]
  BY <1>0, <1>1
<1>4. DualPolicy => new.approvedBy # new.createdBy
  BY <1>0, <1>1 DEF DualInv
<1>5. ASSUME NEW a \in Batches, Exists(a)'
      PROVE  /\ batch'[a].createdBy # None
             /\ DualPolicy => batch'[a].approvedBy # batch'[a].createdBy
  BY <1>0, <1>3, <1>4, <1>5 DEF DualInv, Exists
<1>6. ASSUME NEW a \in files' PROVE Exists(a)' /\ batch'[a].approvedBy # None
  <2>1. a \in Batches /\ Exists(a) /\ batch[a].approvedBy # None
    BY <1>1, <1>6 DEF DualInv
  <2> QED
    BY <1>0, <1>1, <1>3, <2>1 DEF Exists
<1>7. ASSUME NEW d \in Calls, call'[d].op = "approve", DualPolicy
      PROVE  call'[d].user # batch'[call'[d].b].createdBy
  <2>1. call'[d] = call[d] /\ call[d].b \in Batches
    BY <1>2, <1>7 DEF TypeInv, CallsHaveBatch
  <2>2. batch'[call[d].b].createdBy = batch[call[d].b].createdBy
    BY <1>0, <1>3, <2>1
  <2> QED
    BY <1>7, <2>1, <2>2 DEF DualInv
<1> QED
  BY <1>5, <1>6, <1>7 DEF DualInv

\* No approver of a batch, present or about to be written by approve_batch, has
\* created it.
THEOREM DualInvHolds == Spec => []DualInv
<1>1. Init => DualInv
  BY NoCallFacts DEF Init, DualInv, Exists, NoBatch
<1>2. TypeInv /\ DualInv /\ [Next]_vars => DualInv'
  <2> SUFFICES ASSUME TypeInv, DualInv, [Next]_vars PROVE DualInv'
    OBVIOUS
  <2>1. ASSUME NEW b \in Batches,
               \/ \E u \in Users, held \in SUBSET Employees : CreateBatch(b, u, held)
               \/ \E u \in Users : SubmitBatch(b, u)
               \/ RejectBatch(b) \/ ReconcileBatch(b) \/ GenerateBankFile(b)
               \/ \E e \in Employees, s \in {"HELD", "RELEASED"} : MarkItem(b, e, s)
               \/ \E E \in SUBSET Employees : \E rows \in [E -> {"SUCCESS", "FAILED"}] :
                    ApplyBankResponse(b, rows)
        PROVE  DualInv'
    <3>1. call' = call
      BY <2>1 DEF CreateBatch, SubmitBatch, RejectBatch, ReconcileBatch, GenerateBankFile,
                  MarkItem, ApplyBankResponse
    <3>2. files' = files \/ (files' = files \cup {b} /\ Exists(b) /\ batch[b].approvedBy # None)
      BY <2>1 DEF CreateBatch, SubmitBatch, RejectBatch, ReconcileBatch, GenerateBankFile,
                  MarkItem, ApplyBankResponse, ExportApproved, Reconcilable, Exists
    <3>3. \A a \in Batches : BatchStays(a)
      BY <2>1, DeskKeepsMakers
    <3> QED
      BY <3>1, <3>2, <3>3, StayKeepsDual
  <2>2. ASSUME NEW c \in Calls, FeedCommits(c) \/ \E r \in Batches : FeedCommitsAndRepays(c, r)
        PROVE  DualInv'
    <3>1. files' = files /\ call'[c].op = "none" /\ \A d \in Calls \ {c} : call'[d] = call[d]
      BY <2>2, NoCallFacts DEF FeedCommits, FeedCommitsAndRepays, TypeInv, TypeOK
    <3>2. \A a \in Batches : BatchStays(a)
      BY <2>2, FeedsKeepMakers
    <3> QED
      BY <3>1, <3>2, StayKeepsDual
  <2>3. ASSUME NEW c \in Calls, NEW b \in Batches, NEW u \in Users, ApproveLoads(c, b, u)
        PROVE  DualInv'
    <3>0. PICK new : new = [NoCall EXCEPT !.op = "approve", !.b = b, !.user = u,
                              !.status = batch[b].status, !.approver = batch[b].approvedBy]
      OBVIOUS
    <3>1. new.b = b /\ new.user = u
      BY <3>0 DEF NoCall
    <3>2. /\ call' = [call EXCEPT ![c] = new] /\ files' = files /\ batch' = batch
          /\ Exists(b) /\ (DualPolicy => u \notin Makers(batch[b]))
      BY <2>3, <3>0 DEF ApproveLoads
    <3>3. call'[c] = new /\ \A d \in Calls \ {c} : call'[d] = call[d]
      BY <3>2 DEF TypeInv, TypeOK
    <3>4. DualPolicy => u # batch[b].createdBy
      BY <3>2, NamesAssumption DEF Makers
    <3>5. \A a \in Batches : BatchStays(a)
      BY <3>2 DEF BatchStays, Exists
    <3> QED
      BY <3>1, <3>2, <3>3, <3>4, <3>5, StayKeepsDual
  <2>4. ASSUME NEW c \in Calls,
               \/ \E b \in Batches, u \in Users, feed \in [Employees -> FeedRows] :
                    FeedLoads(c, b, u, feed)
               \/ CallFails(c)
        PROVE  DualInv'
    <3>1. files' = files /\ batch' = batch
      BY <2>4 DEF FeedLoads, CallFails
    <3>2. call'[c].op # "approve" /\ \A d \in Calls \ {c} : call'[d] = call[d]
      BY <2>4, NoCallFacts DEF FeedLoads, CallFails, TypeInv, TypeOK
    <3>3. \A a \in Batches : BatchStays(a)
      BY <3>1 DEF BatchStays, Exists
    <3> QED
      BY <3>1, <3>2, <3>3, StayKeepsDual
  <2>5. ASSUME NEW c \in Calls, ApproveCommits(c) PROVE DualInv'
    BY <2>5, ApproveKeepsDual
  <2>6. CASE UNCHANGED vars \/ \E E \in SUBSET Employees, s \in {"PAID", "PENDING"} :
                                  RunWritesSlips(E, s)
    BY <2>6 DEF vars, RunWritesSlips, DualInv, Exists
  <2> QED
    BY <2>1, <2>2, <2>3, <2>4, <2>5, <2>6 DEF Next
<1> QED
  BY <1>1, <1>2, TypeInvHolds, PTL DEF Spec

\* A bank file is generated only for a batch that somebody other than its maker
\* approved, however many approvals, rejections, submissions and feeds overlap
\* and whatever status the batch went through.
THEOREM ExportsAreDual == Spec => []ExportIsDual
<1>1. TypeInv /\ DualInv => ExportIsDual
  BY DEF TypeInv, TypeOK, DualInv, ExportIsDual
<1> QED
  BY <1>1, TypeInvHolds, DualInvHolds, PTL

(***************************************************************************)
(* Re-payouts, when approvals and feeds come one at a time; the desk's     *)
(* other calls still run between the load and the commit of a feed.        *)
(***************************************************************************)

Alone == \A c, d \in Calls : c = d

\* A batch that does not exist has no items and pays for no other batch.
NothingBefore ==
  \A b \in Batches : ~Exists(b) =>
    batch[b].retryOf = None /\ \A e \in Employees : item[b][e] = NewItem("NONE")

\* What a feed has loaded and what it will write agree with the items, apart
\* from statuses the desk has set meanwhile.
Current(k) ==
  \A e \in Employees :
    /\ k.items[e].utr = item[k.b][e].utr
    /\ k.items[e].repay = item[k.b][e].repay
    /\ item[k.b][e].status = "PAID" => k.items[e].status = "PAID"
    /\ k.feed[e].status # "NONE" => HasItem(k.b, e) /\ RowAllowed(k.items[e], k.feed[e])

LoadedIsCurrent == \A c \in Calls : call[c].op = "feed" => Current(call[c])

SerialInv == NothingBefore /\ LoadedIsCurrent /\ RepayoutIsLinked /\ FailedIsRepaid

\* The desk changes the status of items, and makes none of them PAID.
ItemStays(b, e) ==
  /\ HasItem(b, e)' <=> HasItem(b, e)
  /\ item'[b][e].utr = item[b][e].utr
  /\ item'[b][e].repay = item[b][e].repay
  /\ item'[b][e].status = "PAID" => item[b][e].status = "PAID"
  /\ ~HasItem(b, e) => item'[b][e] = item[b][e]

LEMMA DeskKeepsItems ==
  ASSUME TypeInv, NEW b \in Batches,
         \/ \E u \in Users : SubmitBatch(b, u)
         \/ RejectBatch(b) \/ ReconcileBatch(b) \/ GenerateBankFile(b)
         \/ \E e \in Employees, s \in {"HELD", "RELEASED"} : MarkItem(b, e, s)
         \/ \E E \in SUBSET Employees : \E rows \in [E -> {"SUCCESS", "FAILED"}] :
              ApplyBankResponse(b, rows)
  PROVE  \A a \in Batches, e \in Employees : ItemStays(a, e)
<1>0. item \in [Batches -> [Employees -> Item]] /\ \A e \in Employees : item[b][e] \in Item
  BY DEF TypeInv, TypeOK
<1>1. ASSUME NEW a \in Batches, NEW e \in Employees, item'[a][e] = item[a][e]
      PROVE  ItemStays(a, e)
  BY <1>1 DEF ItemStays, HasItem
<1>2. ASSUME NEW e \in Employees, HasItem(b, e),
             NEW s \in {"SUCCESS", "FAILED", "HELD", "RELEASED"},
             item'[b][e] = [item[b][e] EXCEPT !.status = s]
      PROVE  ItemStays(b, e)
  <2>1. s \in ItemStatuses /\ item[b][e] \in Item
    BY <1>0 DEF ItemStatuses
  <2>2. item'[b][e].status = s /\ item'[b][e].utr = item[b][e].utr /\ item'[b][e].repay = item[b][e].repay
    BY <1>2, <2>1, SetItemStatus
  <2> QED
    BY <1>2, <2>2 DEF ItemStays, HasItem
<1>3. ASSUME NEW u \in Users, SubmitBatch(b, u)
      PROVE  \A a \in Batches, e \in Employees : ItemStays(a, e)
  <2>1. \A a \in Batches \ {b}, e \in Employees : item'[a][e] = item[a][e]
    BY <1>0, <1>3 DEF SubmitBatch
  <2>2. \A e \in Employees : item'[b][e] = IF item[b][e].status = "PENDING"
                                           THEN [item[b][e] EXCEPT !.status = "SUCCESS"]
                                           ELSE item[b][e]
    BY <1>0, <1>3 DEF SubmitBatch
  <2>3. ASSUME NEW e \in Employees PROVE ItemStays(b, e)
    BY <1>1, <1>2, <2>2 DEF HasItem
  <2> QED
    BY <1>1, <2>1, <2>3
<1>4. ASSUME UNCHANGED item PROVE \A a \in Batches, e \in Employees : ItemStays(a, e)
  BY <1>1, <1>4
<1>5. ASSUME NEW f \in Employees, NEW s \in {"HELD", "RELEASED"}, MarkItem(b, f, s)
      PROVE  \A a \in Batches, e \in Employees : ItemStays(a, e)
  <2>1. \A a \in Batches, e \in Employees : a # b \/ e # f => item'[a][e] = item[a][e]
    BY <1>0, <1>5 DEF MarkItem
  <2>2. item'[b][f] = [item[b][f] EXCEPT !.status = s] /\ HasItem(b, f)
    BY <1>0, <1>5 DEF MarkItem
  <2>3. ItemStays(b, f)
    BY <1>2, <2>2
  <2> QED
    BY <1>1, <2>1, <2>3
<1>6. ASSUME NEW E \in SUBSET Employees, NEW rows \in [E -> {"SUCCESS", "FAILED"}],
             ApplyBankResponse(b, rows)
      PROVE  \A a \in Batches, e \in Employees : ItemStays(a, e)
  <2>1. \A a \in Batches \ {b}, e \in Employees : item'[a][e] = item[a][e]
    BY <1>0, <1>6 DEF ApplyBankResponse
  <2>2. \A e \in Employees : item'[b][e] = IF e \in DOMAIN rows /\ HasItem(b, e)
                                           THEN [item[b][e] EXCEPT !.status = rows[e]]
                                           ELSE item[b][e]
    BY <1>0, <1>6 DEF ApplyBankResponse
  <2>3. ASSUME NEW e \in Employees PROVE ItemStays(b, e)
    BY <1>1, <1>2, <2>2
  <2> QED
    BY <1>1, <2>1, <2>3
<1> QED
  BY <1>3, <1>4, <1>5, <1>6 DEF RejectBatch, ReconcileBatch, GenerateBankFile

\* A step that leaves the items as above, makes no batch and starts no feed
\* but a current one.
LEMMA StayKeepsSerial ==
  ASSUME TypeInv, SerialInv, \A e \in Employees : slip'[e] = "FAILED" => slip[e] = "FAILED",
         \A a \in Batches : (Exists(a)' <=> Exists(a)) /\ batch'[a].retryOf = batch[a].retryOf,
         \A a \in Batches, e \in Employees : ItemStays(a, e),
         \A c \in Calls : call'[c].op = "feed" =>
           \/ call'[c] = call[c]
           \/ call'[c].b \in Batches /\ Current(call'[c])
  PROVE  SerialInv'
<1>1. NothingBefore'
  <2>1. \A a \in Batches, e \in Employees : ~Exists(a) => item[a][e] = NewItem("NONE") /\ ~HasItem(a, e)
    BY NewItemType DEF SerialInv, NothingBefore, HasItem, ItemStatuses
  <2> QED
    BY <2>1 DEF SerialInv, NothingBefore, ItemStays
<1>2. LoadedIsCurrent'
  <2> SUFFICES ASSUME NEW c \in Calls, call'[c].op = "feed" PROVE Current(call[c])'
    BY DEF LoadedIsCurrent
  <2>0. PICK k : k = call'[c]
    OBVIOUS
  <2>1. k.b \in Batches /\ Current(k)
    BY <2>0 DEF SerialInv, LoadedIsCurrent, TypeInv, CallsHaveBatch
  <2> QED
    BY <2>0, <2>1 DEF Current, ItemStays
<1>3. RepayoutIsLinked'
  BY DEF SerialInv, RepayoutIsLinked, ItemStays
<1>4. FailedIsRepaid'
  BY DEF SerialInv, FailedIsRepaid, ItemStays
<1> QED
  BY <1>1, <1>2, <1>3, <1>4 DEF SerialInv

\* What the row of a feed leaves of its item.
LEMMA FedFacts ==
  ASSUME TypeInv, SerialInv, NEW c \in Calls, call[c].op = "feed",
         NEW e \in Employees, NEW r \in Batches \cup {None}
  PROVE  /\ Fed(c, e, r).status = "NONE" <=> ~HasItem(call[c].b, e)
         /\ call[c].feed[e].status = "NONE" => Fed(c, e, r) = item[call[c].b][e]
         /\ call[c].feed[e].status = "PAID" => Fed(c, e, r).utr # None
         /\ Fed(c, e, r).repay = IF e \in Unpaid(c) THEN r ELSE item[call[c].b][e].repay
         /\ call[c].feed[e].status = "FAILED" => e \in Unpaid(c) \/ item[call[c].b][e].repay # None
         /\ item[call[c].b][e].status = "PAID" /\ item[call[c].b][e].utr # None
              => Fed(c, e, r) = item[call[c].b][e]
         /\ e \in Unpaid(c) => item[call[c].b][e].repay = None
<1>0. PICK b, row, loaded, now : /\ b = call[c].b /\ row = call[c].feed[e]
                                 /\ loaded = call[c].items[e] /\ now = item[b][e]
  OBVIOUS
<1>1. /\ b \in Batches /\ now \in Item /\ loaded \in Item /\ row \in FeedRows
  BY <1>0 DEF TypeInv, TypeOK, CallsHaveBatch, Call
<1>2. /\ loaded.utr = now.utr /\ loaded.repay = now.repay
      /\ now.status = "PAID" => loaded.status = "PAID"
      /\ row.status # "NONE" => now.status # "NONE" /\ RowAllowed(loaded, row)
  BY <1>0 DEF SerialInv, LoadedIsCurrent, Current, HasItem
<1>3. row.status \in {"NONE", "PAID", "FAILED"} /\ (row.status = "PAID" <=> row.utr # None)
  BY <1>1 DEF FeedRows
<1>4. e \in Unpaid(c) <=> row.status = "FAILED" /\ loaded.repay = None
  BY <1>0 DEF Unpaid
<1>5. Fed(c, e, r) = IF row.status = "NONE" THEN now
                     ELSE [status |-> Written(loaded.status, row.status, now.status),
                           utr    |-> Written(loaded.utr, row.utr, now.utr),
                           repay  |-> IF e \in Unpaid(c) THEN r ELSE now.repay]
  BY <1>0 DEF Fed
<1>6. CASE row.status = "NONE"
  BY <1>0, <1>1, <1>4, <1>5, <1>6 DEF HasItem
<1>7. CASE row.status # "NONE"
  <2>1. /\ Fed(c, e, r).status = Written(loaded.status, row.status, now.status)
        /\ Fed(c, e, r).utr = Written(loaded.utr, row.utr, now.utr)
        /\ Fed(c, e, r).repay = IF e \in Unpaid(c) THEN r ELSE now.repay
    BY <1>5, <1>7
  <2>2. Fed(c, e, r).status # "NONE" /\ now.status # "NONE"
    BY <1>2, <1>7, <2>1 DEF Written
  <2>3. row.status = "PAID" => Fed(c, e, r).utr # None
    BY <1>2, <1>3, <2>1 DEF Written
  <2>4. ASSUME now.status = "PAID", now.utr # None PROVE Fed(c, e, r) = now
    <3>1. loaded.status = "PAID" /\ row.status = "PAID" /\ row.utr = now.utr
      BY <1>2, <1>7, <2>4 DEF RowAllowed
    <3>2. e \notin Unpaid(c)
      BY <1>4, <3>1
    <3>3. Fed(c, e, r) = [status |-> now.status, utr |-> now.utr, repay |-> now.repay]
      BY <1>2, <1>5, <1>7, <2>4, <3>1, <3>2 DEF Written
    <3> QED
      BY <1>1, <3>3 DEF Item
  <2>5. /\ row.status = "FAILED" => e \in Unpaid(c) \/ now.repay # None
        /\ e \in Unpaid(c) => now.repay = None
    BY <1>2, <1>4
  <2> QED
    BY <1>0, <1>7, <2>1, <2>2, <2>3, <2>4, <2>5 DEF HasItem
<1> QED
  BY <1>6, <1>7

\* Nobody pays again through a batch that does not exist yet.
LEMMA FreshIsUnlinked ==
  ASSUME TypeInv, SerialInv, NEW r \in Batches, ~Exists(r)
  PROVE  /\ \A b \in Batches, e \in Employees : item[b][e].repay # r
         /\ \A e \in Employees : /\ ~HasItem(r, e) /\ item[r][e].utr = None
                                 /\ item[r][e].repay = None
<1>1. batch[r].retryOf = None /\ \A e \in Employees : item[r][e] = NewItem("NONE")
  BY DEF SerialInv, NothingBefore
<1>2. \A b \in Batches : b # None
  BY NamesAssumption
<1> QED
  BY <1>1, <1>2 DEF SerialInv, RepayoutIsLinked, HasItem, NewItem

LEMMA CreateKeepsSerial ==
  ASSUME TypeInv, SerialInv, NEW b \in Batches, NEW u \in Users, NEW held \in SUBSET Employees,
         CreateBatch(b, u, held)
  PROVE  SerialInv'
<1>0. /\ ~Exists(b) /\ UNCHANGED <<slip, call>>
      /\ batch \in [Batches -> Batch] /\ item \in [Batches -> [Employees -> Item]]
  BY DEF CreateBatch, TypeInv, TypeOK
<1>1. PICK new : new = [NoBatch EXCEPT !.status = "DRAFT", !.createdBy = u]
  OBVIOUS
<1>2. new.status = "DRAFT" /\ new.retryOf = None
  BY <1>1 DEF NoBatch
<1>3. /\ batch'[b] = new /\ \A a \in Batches \ {b} : batch'[a] = batch[a] /\ item'[a] = item[a]
      /\ \A e \in Employees : item'[b][e] = NewItem(IF e \in held THEN "HELD" ELSE "PENDING")
  BY <1>0, <1>1 DEF CreateBatch
<1>4. \A e \in Employees : item'[b][e].utr = None /\ item'[b][e].repay = None
  <2>1. \A s : NewItem(s).utr = None /\ NewItem(s).repay = None
    BY DEF NewItem
  <2> QED
    BY <1>3, <2>1
<1>5. /\ \A a \in Batches, e \in Employees : item[a][e].repay # b
      /\ \A e \in Employees : ~HasItem(b, e) /\ item[b][e].utr = None /\ item[b][e].repay = None
  BY <1>0, FreshIsUnlinked
<1>6. NothingBefore'
  BY <1>2, <1>3 DEF SerialInv, NothingBefore, Exists
<1>7. LoadedIsCurrent'
  <2> SUFFICES ASSUME NEW c \in Calls, call'[c].op = "feed" PROVE Current(call[c])'
    BY DEF LoadedIsCurrent
  <2>0. PICK k : k = call[c]
    OBVIOUS
  <2>1. k.b \in Batches /\ Exists(k.b) /\ Current(k)
    BY <1>0, <2>0 DEF SerialInv, LoadedIsCurrent, TypeInv, CallsHaveBatch
  <2>2. item'[k.b] = item[k.b] /\ call' = call
    BY <1>0, <1>3, <2>1
  <2> QED
    BY <2>0, <2>1, <2>2 DEF Current, HasItem
<1>8. RepayoutIsLinked'
  <2> SUFFICES ASSUME NEW r \in Batches, NEW a \in Batches, NEW e \in Employees
               PROVE  item'[a][e].repay = r <=> batch'[r].retryOf = a /\ HasItem(r, e)'
    BY DEF RepayoutIsLinked
  <2>1. a # None /\ r # None
    BY NamesAssumption
  <2>2. item'[a][e].repay = item[a][e].repay
    BY <1>3, <1>4, <1>5
  <2>3. CASE r = b
    BY <1>2, <1>3, <1>5, <2>1, <2>2, <2>3
  <2>4. CASE r # b
    BY <1>3, <2>2, <2>4 DEF SerialInv, RepayoutIsLinked, HasItem
  <2> QED
    BY <2>3, <2>4
<1>9. FailedIsRepaid'
  <2>1. \A a \in Batches, e \in Employees : item'[a][e].repay = item[a][e].repay
    BY <1>3, <1>4, <1>5
  <2> QED
    BY <1>0, <2>1, ZenonT(60) DEF SerialInv, FailedIsRepaid
<1> QED
  BY <1>6, <1>7, <1>8, <1>9 DEF SerialInv

\* The feed of a call that is alone ends with no feed in progress.
LEMMA FeedEnds ==
  ASSUME Alone, TypeInv, NEW c \in Calls, call' = [call EXCEPT ![c] = NoCall]
  PROVE  LoadedIsCurrent'
  BY NoCallFacts DEF Alone, TypeInv, TypeOK, LoadedIsCurrent

LEMMA FeedKeepsSerial ==
  ASSUME Alone, TypeInv, SerialInv, NEW c \in Calls, FeedCommits(c)
  PROVE  SerialInv'
<1>0. PICK b : b = call[c].b
  OBVIOUS
<1>1. /\ call[c].op = "feed" /\ Unpaid(c) = {} /\ b \in Batches /\ Exists(b)
      /\ item \in [Batches -> [Employees -> Item]] /\ batch \in [Batches -> Batch]
  BY <1>0 DEF FeedCommits, TypeInv, TypeOK, CallsHaveBatch
<1>2. /\ \A e \in Employees : item'[b][e] = Fed(c, e, None) /\ slip'[e] = FedSlip(c, e)
      /\ \A a \in Batches \ {b} : item'[a] = item[a]
  BY <1>0, <1>1 DEF FeedCommits
<1>3. \A e \in Employees :
        /\ HasItem(b, e)' <=> HasItem(b, e)
        /\ item'[b][e].repay = item[b][e].repay
        /\ call[c].feed[e].status = "NONE" => item'[b][e] = item[b][e]
        /\ call[c].feed[e].status = "PAID" => item'[b][e].utr # None
        /\ call[c].feed[e].status = "FAILED" => item'[b][e].repay # None
  BY <1>0, <1>1, <1>2, FedFacts DEF HasItem
<1>4. \A a \in Batches : BatchStays(a)
  BY FeedsKeepMakers
<1>5. \A a \in Batches : batch'[a].retryOf = batch[a].retryOf /\ (Exists(a)' <=> Exists(a))
  <2>1. \A a \in Batches \ {b} : batch'[a] = batch[a]
    BY <1>0, <1>1 DEF FeedCommits
  <2> QED
    BY <1>1, <1>4, <2>1 DEF BatchStays, Exists
<1>6. NothingBefore'
  BY <1>1, <1>2, <1>5 DEF SerialInv, NothingBefore
<1>7. LoadedIsCurrent'
  BY FeedEnds DEF FeedCommits
<1>8. RepayoutIsLinked'
  BY <1>2, <1>3, <1>5 DEF SerialInv, RepayoutIsLinked, HasItem
<1>9. FailedIsRepaid'
  <2> SUFFICES ASSUME NEW e \in Employees, slip'[e] = "FAILED"
               PROVE  \E a \in Batches : item'[a][e].repay # None
    BY DEF FailedIsRepaid
  <2>1. CASE call[c].feed[e].status = "NONE"
    <3>1. slip'[e] = slip[e] /\ \A a \in Batches : item'[a][e] = item[a][e]
      BY <1>2, <1>3, <2>1 DEF FedSlip
    <3> QED
      BY <3>1 DEF SerialInv, FailedIsRepaid
  <2>2. CASE call[c].feed[e].status # "NONE"
    <3>1. slip'[e] = call[c].feed[e].status
      BY <1>2, <2>2 DEF FedSlip
    <3> QED
      BY <1>1, <1>3, <3>1
  <2> QED
    BY <2>1, <2>2
<1> QED
  BY <1>6, <1>7, <1>8, <1>9 DEF SerialInv

\* A feed with failures: the new batch r pays exactly the items that had no
\* re-payout, and these are the items that come to name r.
LEMMA RepayKeepsSerial ==
  ASSUME Alone, TypeInv, SerialInv, NEW c \in Calls, NEW r \in Batches,
         FeedCommitsAndRepays(c, r)
  PROVE  SerialInv'
<1>0. PICK b : b = call[c].b
  OBVIOUS
<1>1. /\ call[c].op = "feed" /\ b \in Batches /\ Exists(b) /\ ~Exists(r) /\ b # r
      /\ item \in [Batches -> [Employees -> Item]] /\ batch \in [Batches -> Batch]
      /\ call[c].user \in Users
  BY <1>0 DEF FeedCommitsAndRepays, TypeInv, TypeOK, CallsHaveBatch
<1>2. /\ \A e \in Employees : item'[b][e] = Fed(c, e, r) /\ slip'[e] = FedSlip(c, e)
      /\ \A e \in Employees :
           item'[r][e] = NewItem(IF e \in Unpaid(c) THEN "PENDING" ELSE "NONE")
      /\ \A a \in Batches \ {b, r} : item'[a] = item[a]
  BY <1>0, <1>1 DEF FeedCommitsAndRepays
<1>3. \A e \in Employees :
        /\ HasItem(b, e)' <=> HasItem(b, e)
        /\ item'[b][e].repay = IF e \in Unpaid(c) THEN r ELSE item[b][e].repay
        /\ e \in Unpaid(c) => item[b][e].repay = None
        /\ call[c].feed[e].status = "NONE" => item'[b][e] = item[b][e]
        /\ call[c].feed[e].status = "PAID" => item'[b][e].utr # None
        /\ call[c].feed[e].status = "FAILED" => item'[b][e].repay # None
  <2>1. r # None
    BY NamesAssumption
  <2> QED
    BY <1>0, <1>1, <1>2, <2>1, FedFacts, SMTT(40) DEF HasItem
<1>4. \A e \in Employees :
        /\ HasItem(r, e)' <=> e \in Unpaid(c)
        /\ item'[r][e].repay = None /\ item'[r][e].utr = None
  <2>1. \A s : NewItem(s).status = s /\ NewItem(s).utr = None /\ NewItem(s).repay = None
    BY DEF NewItem
  <2> QED
    BY <1>2, <2>1 DEF HasItem
<1>5. /\ \A a \in Batches, e \in Employees : item[a][e].repay # r
      /\ \A e \in Employees : ~HasItem(r, e) /\ item[r][e].utr = None /\ item[r][e].repay = None
  BY <1>1, FreshIsUnlinked
<1>6. /\ \A a \in Batches \ {r} : batch'[a].retryOf = batch[a].retryOf /\ (Exists(a)' <=> Exists(a))
      /\ batch'[r].retryOf = b /\ Exists(r)'
  <2>0. PICK re : re = [NoBatch EXCEPT !.status = "DRAFT", !.createdBy = call[c].user, !.retryOf = b]
    OBVIOUS
  <2>1. re.status = "DRAFT" /\ re.retryOf = b
    BY <2>0 DEF NoBatch
  <2>2. batch'[r] = re /\ \A a \in Batches \ {b, r} : batch'[a] = batch[a]
    BY <1>0, <1>1, <2>0 DEF FeedCommitsAndRepays
  <2>3. BatchStays(b)
    BY <1>1, FeedsKeepMakers
  <2> QED
    BY <1>1, <2>1, <2>2, <2>3 DEF BatchStays, Exists
<1>7. NothingBefore'
  BY <1>1, <1>2, <1>6 DEF SerialInv, NothingBefore
<1>8. LoadedIsCurrent'
  BY FeedEnds DEF FeedCommitsAndRepays
<1>9. RepayoutIsLinked'
  <2> SUFFICES ASSUME NEW q \in Batches, NEW a \in Batches, NEW e \in Employees
               PROVE  item'[a][e].repay = q <=> batch'[q].retryOf = a /\ HasItem(q, e)'
    BY DEF RepayoutIsLinked
  <2>1. q # None /\ (item[a][e].repay = q <=> batch[q].retryOf = a /\ HasItem(q, e))
    BY NamesAssumption DEF SerialInv, RepayoutIsLinked
  <2>2. CASE q = r
    <3>1. item'[a][e].repay = r <=> a = b /\ e \in Unpaid(c)
      BY <1>1, <1>2, <1>3, <1>4, <1>5, <2>1, <2>2
    <3> QED
      BY <1>4, <1>6, <2>2, <3>1
  <2>3. CASE q # r
    <3>1. item'[a][e].repay = q <=> item[a][e].repay = q
      BY <1>1, <1>2, <1>3, <1>4, <1>5, <2>1, <2>3, SMTT(40)
    <3>2. HasItem(q, e)' <=> HasItem(q, e)
      BY <1>2, <1>3, <2>3 DEF HasItem
    <3> QED
      BY <1>6, <2>1, <2>3, <3>1, <3>2
  <2> QED
    BY <2>2, <2>3
<1>10. FailedIsRepaid'
  <2> SUFFICES ASSUME NEW e \in Employees, slip'[e] = "FAILED"
               PROVE  \E a \in Batches : item'[a][e].repay # None
    BY DEF FailedIsRepaid
  <2>1. CASE call[c].feed[e].status = "NONE"
    <3>1. /\ slip'[e] = slip[e]
          /\ \A a \in Batches : item'[a][e].repay = item[a][e].repay
      BY <1>2, <1>3, <1>4, <1>5, <2>1 DEF FedSlip
    <3> QED
      BY <3>1 DEF SerialInv, FailedIsRepaid
  <2>2. CASE call[c].feed[e].status # "NONE"
    <3>1. slip'[e] = call[c].feed[e].status
      BY <1>2, <2>2 DEF FedSlip
    <3> QED
      BY <1>1, <1>3, <3>1
  <2> QED
    BY <2>1, <2>2
<1> QED
  BY <1>7, <1>8, <1>9, <1>10 DEF SerialInv

\* With feeds one at a time the links of items and re-payout batches, and what a
\* feed has loaded of them, stay consistent.
THEOREM SerialInvHolds ==
  ASSUME Alone
  PROVE  Spec => []SerialInv
<1>1. Init => SerialInv
  <2> SUFFICES ASSUME Init PROVE SerialInv
    OBVIOUS
  <2>1. /\ \A b \in Batches : ~Exists(b) /\ batch[b].retryOf = None
        /\ \A b \in Batches, e \in Employees : item[b][e] = NewItem("NONE")
        /\ \A c \in Calls : call[c].op = "none"
        /\ \A e \in Employees : slip[e] = "PENDING"
    BY NoCallFacts DEF Init, Exists, NoBatch
  <2>2. NewItem("NONE").repay = None /\ NewItem("NONE").status = "NONE"
    BY DEF NewItem
  <2>3. RepayoutIsLinked
    BY <2>1, <2>2, NamesAssumption DEF RepayoutIsLinked, HasItem
  <2> QED
    BY <2>1, <2>3 DEF SerialInv, NothingBefore, LoadedIsCurrent, FailedIsRepaid
<1>2. TypeInv /\ SerialInv /\ [Next]_vars => SerialInv'
  <2> SUFFICES ASSUME TypeInv, SerialInv, [Next]_vars PROVE SerialInv'
    OBVIOUS
  <2>1. ASSUME NEW b \in Batches, NEW u \in Users, NEW held \in SUBSET Employees,
               CreateBatch(b, u, held)
        PROVE  SerialInv'
    BY <2>1, CreateKeepsSerial
  <2>2. ASSUME NEW b \in Batches,
               \/ \E u \in Users : SubmitBatch(b, u)
               \/ RejectBatch(b) \/ ReconcileBatch(b) \/ GenerateBankFile(b)
               \/ \E e \in Employees, s \in {"HELD", "RELEASED"} : MarkItem(b, e, s)
               \/ \E E \in SUBSET Employees : \E rows \in [E -> {"SUCCESS", "FAILED"}] :
                    ApplyBankResponse(b, rows)
        PROVE  SerialInv'
    <3>1. UNCHANGED <<slip, call>>
      BY <2>2 DEF SubmitBatch, RejectBatch, ReconcileBatch, GenerateBankFile, MarkItem,
                  ApplyBankResponse
    <3>2. \A a \in Batches, e \in Employees : ItemStays(a, e)
      BY <2>2, DeskKeepsItems
    <3>3. \A a \in Batches : BatchStays(a)
      BY <2>2, DeskKeepsMakers
    <3>4. batch \in [Batches -> Batch] /\ \A a \in Batches \ {b} : batch'[a] = batch[a]
      BY <2>2 DEF TypeInv, TypeOK, SubmitBatch, RejectBatch, ReconcileBatch, GenerateBankFile,
                  MarkItem, ApplyBankResponse
    <3>5. Exists(b) \/ UNCHANGED batch
      BY <2>2 DEF SubmitBatch, RejectBatch, ReconcileBatch, GenerateBankFile, MarkItem,
                  ApplyBankResponse
    <3>6. \A a \in Batches : (Exists(a)' <=> Exists(a)) /\ batch'[a].retryOf = batch[a].retryOf
      BY <3>3, <3>4, <3>5 DEF BatchStays, Exists
    <3> QED
      BY <3>1, <3>2, <3>6, StayKeepsSerial
  <2>3. ASSUME UNCHANGED item PROVE \A a \in Batches, e \in Employees : ItemStays(a, e)
    BY <2>3 DEF ItemStays, HasItem
  <2>4. ASSUME UNCHANGED batch
        PROVE  \A a \in Batches : (Exists(a)' <=> Exists(a)) /\ batch'[a].retryOf = batch[a].retryOf
    BY <2>4 DEF Exists
  <2>5. ASSUME NEW c \in Calls,
               CallFails(c) \/ \E b \in Batches, u \in Users : ApproveLoads(c, b, u)
        PROVE  SerialInv'
    <3>1. UNCHANGED <<batch, item, slip>>
      BY <2>5 DEF CallFails, ApproveLoads
    <3>2. call'[c].op # "feed" /\ \A d \in Calls \ {c} : call'[d] = call[d]
      <4>1. ASSUME NEW new, new.op # "feed", call' = [call EXCEPT ![c] = new]
            PROVE  call'[c].op # "feed" /\ \A d \in Calls \ {c} : call'[d] = call[d]
        BY <4>1 DEF TypeInv, TypeOK
      <4>2. CASE CallFails(c)
        BY <2>5, <4>1, <4>2, NoCallFacts DEF CallFails
      <4>3. ASSUME NEW b \in Batches, NEW u \in Users, ApproveLoads(c, b, u)
            PROVE  call'[c].op # "feed" /\ \A d \in Calls \ {c} : call'[d] = call[d]
        <5>0. PICK new : new = [NoCall EXCEPT !.op = "approve", !.b = b, !.user = u,
                                  !.status = batch[b].status, !.approver = batch[b].approvedBy]
          OBVIOUS
        <5>1. new.op # "feed"
          BY <5>0 DEF NoCall
        <5> QED
          BY <4>1, <4>3, <5>0, <5>1 DEF ApproveLoads
      <4> QED
        BY <2>5, <4>2, <4>3
    <3> QED
      BY <2>3, <2>4, <3>1, <3>2, StayKeepsSerial
  <2>6. ASSUME NEW c \in Calls, NEW b \in Batches, NEW u \in Users,
               NEW feed \in [Employees -> FeedRows], FeedLoads(c, b, u, feed)
        PROVE  SerialInv'
    <3>0. PICK k : k = [op |-> "feed", b |-> b, user |-> u, status |-> batch[b].status,
                        approver |-> None, items |-> item[b], feed |-> feed]
      OBVIOUS
    <3>1. UNCHANGED <<batch, item, slip>> /\ call' = [call EXCEPT ![c] = k]
      BY <2>6, <3>0 DEF FeedLoads
    <3>2. call'[c] = k /\ \A d \in Calls \ {c} : call'[d] = call[d]
      BY <3>1 DEF TypeInv, TypeOK
    <3>3. k.b = b /\ k.items = item[b] /\ k.feed = feed
      BY <3>0
    <3>4. Current(k)
      BY <2>6, <3>3 DEF FeedLoads, Current
    <3> QED
      BY <2>3, <2>4, <3>1, <3>2, <3>3, <3>4, StayKeepsSerial
  <2>7. ASSUME NEW c \in Calls, ApproveCommits(c) PROVE SerialInv'
    <3>1. PICK b \in Batches, new \in Batch :
            /\ b = call[c].b /\ Exists(b) /\ batch' = [batch EXCEPT ![b] = new]
            /\ new.status \in {"APPROVED", batch[b].status}
            /\ new.retryOf = batch[b].retryOf
      BY <2>7, ApprovalWrites
    <3>2. \A a \in Batches : (Exists(a)' <=> Exists(a)) /\ batch'[a].retryOf = batch[a].retryOf
      BY <3>1 DEF Exists, TypeInv, TypeOK
    <3>3. /\ UNCHANGED <<item, slip>> /\ call'[c].op # "feed"
          /\ \A d \in Calls \ {c} : call'[d] = call[d]
      BY <2>7, NoCallFacts DEF ApproveCommits, TypeInv, TypeOK
    <3> QED
      BY <2>3, <3>2, <3>3, StayKeepsSerial
  <2>8. ASSUME NEW c \in Calls, FeedCommits(c) \/ \E r \in Batches : FeedCommitsAndRepays(c, r)
        PROVE  SerialInv'
    BY <2>8, FeedKeepsSerial, RepayKeepsSerial
  <2>9. CASE UNCHANGED vars
    BY <2>3, <2>4, <2>9, StayKeepsSerial DEF vars
  <2>10. ASSUME NEW E \in SUBSET Employees, NEW s \in {"PAID", "PENDING"}, RunWritesSlips(E, s)
         PROVE  SerialInv'
    <3>1. UNCHANGED <<batch, item, call>> /\ \A e \in Employees : slip'[e] = "FAILED" => slip[e] = "FAILED"
      BY <2>10 DEF RunWritesSlips
    <3> QED
      BY <2>3, <2>4, <3>1, StayKeepsSerial
  <2> QED
    BY <2>1, <2>2, <2>5, <2>6, <2>7, <2>8, <2>9, <2>10 DEF Next
<1> QED
  BY <1>1, <1>2, TypeInvHolds, PTL DEF Spec

\* When feeds come one at a time, repayout_batch_id and the re-payout batches
\* agree, for any number of feeds, batches and desk calls between them.
THEOREM RepayoutsAreLinked ==
  ASSUME Alone
  PROVE  Spec => []RepayoutIsLinked
<1>1. SerialInv => RepayoutIsLinked
  BY DEF SerialInv
<1> QED
  BY <1>1, SerialInvHolds, PTL

\* It follows that no failed payout is paid again by two batches.
THEOREM RepaidOnce ==
  ASSUME Alone
  PROVE  Spec => []OneRepayout
<1>1. TypeInv /\ SerialInv => OneRepayout
  <2> SUFFICES ASSUME TypeInv, SerialInv,
                      NEW r \in Batches, NEW s \in Batches, NEW e \in Employees,
                      batch[r].retryOf # None, batch[r].retryOf = batch[s].retryOf,
                      HasItem(r, e), HasItem(s, e)
               PROVE  r = s
    BY DEF OneRepayout
  <2>1. batch[r].retryOf \in Batches
    BY DEF TypeInv, TypeOK, Batch
  <2> QED
    BY <2>1 DEF SerialInv, RepayoutIsLinked
<1> QED
  BY <1>1, TypeInvHolds, SerialInvHolds, PTL

\* A payslip shown as failed has an item that a re-payout pays again, although
\* the run writes the payslips and the desk the items between two feeds.
THEOREM FailuresArePaidAgain ==
  ASSUME Alone
  PROVE  Spec => []FailedIsRepaid
<1>1. SerialInv => FailedIsRepaid
  BY DEF SerialInv
<1> QED
  BY <1>1, SerialInvHolds, PTL

\* The commit of a feed leaves every paid item as it is, also when the desk
\* changed items between the validation and the commit.
THEOREM PaidStaysPaid ==
  ASSUME Alone
  PROVE  Spec => FeedKeepsPaid
<1>1. ASSUME TypeInv, SerialInv, Next
      PROVE  \A c \in Calls, b \in Batches, e \in Employees :
               /\ call[c].op = "feed" /\ item' # item
               /\ item[b][e].status = "PAID" /\ item[b][e].utr # None
               /\ call'[c].op = "none"
               => item'[b][e] = item[b][e]
  <2> SUFFICES ASSUME NEW c \in Calls, NEW b \in Batches, NEW e \in Employees,
                      call[c].op = "feed", item' # item,
                      item[b][e].status = "PAID", item[b][e].utr # None,
                      call'[c].op = "none"
               PROVE  item'[b][e] = item[b][e]
    OBVIOUS
  <2>1. FeedCommits(c) \/ \E r \in Batches : FeedCommitsAndRepays(c, r)
    BY <1>1 DEF Next, Alone, CreateBatch, SubmitBatch, RejectBatch, ReconcileBatch,
       GenerateBankFile, MarkItem, ApplyBankResponse, RunWritesSlips, ApproveLoads, ApproveCommits, FeedLoads,
       CallFails
  <2>2. item \in [Batches -> [Employees -> Item]] /\ call[c].b \in Batches
    BY <1>1 DEF TypeInv, TypeOK, CallsHaveBatch
  <2>3. CASE FeedCommits(c)
    <3>1. \/ item'[b] = item[b]
          \/ b = call[c].b /\ item'[b][e] = Fed(c, e, None)
      BY <2>2, <2>3 DEF FeedCommits
    <3> QED
      BY <1>1, <3>1, FedFacts
  <2>4. ASSUME NEW r \in Batches, FeedCommitsAndRepays(c, r) PROVE item'[b][e] = item[b][e]
    <3>1. b # r
      BY <1>1, <2>4, FreshIsUnlinked DEF FeedCommitsAndRepays
    <3>2. \/ item'[b] = item[b]
          \/ b = call[c].b /\ item'[b][e] = Fed(c, e, r)
      BY <2>2, <2>4, <3>1 DEF FeedCommitsAndRepays
    <3> QED
      BY <1>1, <3>2, FedFacts
  <2> QED
    BY <2>1, <2>3, <2>4
<1>2. TypeInv /\ SerialInv /\ [Next]_vars =>
        [\A c \in Calls, b \in Batches, e \in Employees :
           /\ call[c].op = "feed" /\ item' # item
           /\ item[b][e].status = "PAID" /\ item[b][e].utr # None
           /\ call'[c].op = "none"
           => item'[b][e] = item[b][e]]_vars
  BY <1>1
<1> QED
  BY <1>2, TypeInvHolds, SerialInvHolds, PTL DEF Spec, FeedKeepsPaid

=============================================================================
