------------------------------- MODULE Statement -------------------------------
(***************************************************************************)
(* The period statement of a cooperative (INVOICE-DRAFT): drafted, edited, *)
(* submitted, approved by two roles, rejected, locked by a third user and  *)
(* paid by the mine, with the approval tasks that remind the roles.        *)
(*                                                                         *)
(* No handler runs in a transaction: each write is an action of its own,   *)
(* and a handler may end between two of them.                              *)
(***************************************************************************)
EXTENDS Naturals, Handlers

CONSTANTS
  Users,    \* who may act, in any role
  Amounts,  \* what the lines may add up to
  NoUser

VARIABLES
  statement, \* the row of period_statements
  lines,     \* what its period_statement_lines add up to
  approval,  \* [StatementRoles -> row of period_statement_approvals]
  task,      \* roles with a PENDING row of approval_tasks
  \* Ghost.
  payments   \* Nat: mine payments registered

statementRows == <<statement, lines, approval, task, payments>>
statementVars == <<statementRows, handlerVars>>

StatementRoles == {"COOP_ADMIN", "OPERATION_ADMIN"}

StatementStatus == {"DRAFT", "PENDING_REVIEW", "APPROVED", "LOCKED"}
\* `total' is payable_rial and the sums beside it.
StatementRow == [status : StatementStatus, total : Amounts, paid : BOOLEAN,
                 lockedBy : Users \union {NoUser}]
\* `total' is a ghost: what the approver has seen.
Approval == [user : Users, total : Amounts]
NoApproval == [user |-> NoUser]

\* What a handler of the statement is about to do.
Read(op, reads) == [op |-> op, reads |-> reads, fresh |-> TRUE]
StatementReads == SUBSET {"statement", "lines", "approvals"}
StatementRequest ==
  {Free}
    \union [op : {"submit", "submitTasks", "approveStatus", "reject", "rejectTasks",
                 "rejectStatus", "lockTasks", "sum", "pay"},
            reads : StatementReads, fresh : BOOLEAN]
    \union [op : {"approve", "approval", "approved"}, reads : StatementReads, fresh : BOOLEAN,
            role : StatementRoles, user : Users, total : Amounts]
    \union [op : {"lock"}, reads : StatementReads, fresh : BOOLEAN, user : Users]
    \union [op : {"edit", "total"}, reads : StatementReads, fresh : BOOLEAN, total : Amounts]

\* Between two writes of its handler.
StatementHalfway(r) == request[r].op \in {"submitTasks", "approval", "approved", "approveStatus",
                                "rejectTasks", "rejectStatus", "lockTasks", "sum", "total"}

ApprovedRoles == {role \in StatementRoles : approval[role] # NoApproval}
AllApproved == ApprovedRoles = StatementRoles

StatementInit ==
  /\ \E a \in Amounts :
       /\ statement = [status |-> "DRAFT", total |-> a, paid |-> FALSE, lockedBy |-> NoUser]
       /\ lines = a
  /\ approval = [role \in StatementRoles |-> NoApproval]
  /\ task = {}
  /\ payments = 0
  /\ HandlersInit

ReadsStatement(r, k) == Begins(r, k) /\ UNCHANGED statementRows

-----------------------------------------------------------------------------
(* updatePeriodStatementLine: a line, then the sums of what is read anew.  *)

EditRead(r) ==
  /\ statement.status = "DRAFT"
  /\ \E a \in Amounts :
       ReadsStatement(r, [op |-> "edit", reads |-> {"statement"}, fresh |-> TRUE, total |-> a])

EditLine(r) ==
  /\ request[r].op = "edit"
  /\ lines' = request[r].total
  /\ Wrote(r, {"lines"}, [op |-> "sum", reads |-> {"statement"}, fresh |-> request[r].fresh])
  /\ UNCHANGED <<statement, approval, task, payments>>

EditSum(r) ==
  /\ request[r].op = "sum"
  /\ Goes(r, [op |-> "total", reads |-> {"statement", "lines"}, fresh |-> request[r].fresh,
              total |-> lines])
  /\ UNCHANGED statementRows

EditTotal(r) ==
  /\ request[r].op = "total"
  /\ statement' = [statement EXCEPT !.total = request[r].total]
  /\ Wrote(r, {"statement"}, Free)
  /\ UNCHANGED <<lines, approval, task, payments>>

-----------------------------------------------------------------------------
(* submitPeriodStatementForReview                                          *)

SubmitRead(r) ==
  /\ statement.status = "DRAFT"
  /\ ReadsStatement(r, Read("submit", {"statement"}))

SubmitStatus(r) ==
  /\ request[r].op = "submit"
  /\ statement' = [statement EXCEPT !.status = "PENDING_REVIEW"]
  /\ Wrote(r, {"statement"}, Read("submitTasks", {}))
  /\ UNCHANGED <<lines, approval, task, payments>>

\* createPendingApprovalTasks: those that are pending are replaced.
SubmitTasks(r) ==
  /\ request[r].op = "submitTasks"
  /\ task' = StatementRoles
  /\ Goes(r, Free)
  /\ UNCHANGED <<statement, lines, approval, payments>>

-----------------------------------------------------------------------------
(* approvePeriodStatement: the task, the approval, and after another look  *)
(* at the statement its status.                                            *)

ApprovalRead(r) ==
  /\ statement.status \in {"PENDING_REVIEW", "APPROVED"}
  /\ \E role \in StatementRoles, u \in Users :
       ReadsStatement(r, [op |-> "approve", reads |-> {"statement"}, fresh |-> TRUE,
                          role |-> role, user |-> u, total |-> statement.total])

\* (mutation: the tasks of both roles are completed)
ApprovalTaskBoth(r) ==
  /\ request[r].op = "approve"
  /\ task' = {}
  /\ Wrote(r, {}, [request[r] EXCEPT !.op = "approval"])
  /\ UNCHANGED <<statement, lines, approval, payments>>

ApprovalTask(r) ==
  /\ request[r].op = "approve"
  /\ task' = task \ {request[r].role}
  /\ Wrote(r, {}, [request[r] EXCEPT !.op = "approval"])
  /\ UNCHANGED <<statement, lines, approval, payments>>

\* The row of the role is created, or taken over from another user.
ApprovalStore(r) ==
  /\ request[r].op = "approval"
  /\ approval' = [approval EXCEPT ![request[r].role] =
                    [user |-> request[r].user, total |-> request[r].total]]
  /\ Wrote(r, {"approvals"}, [request[r] EXCEPT !.op = "approved"])
  /\ UNCHANGED <<statement, lines, task, payments>>

\* What it sees may be LOCKED by now: it is APPROVED again by the next write.
ApprovalCount(r) ==
  /\ request[r].op = "approved"
  /\ Goes(r, IF AllApproved /\ statement.status # "APPROVED"
             THEN [op |-> "approveStatus", reads |-> {"statement", "approvals"},
                   fresh |-> request[r].fresh]
             ELSE Free)
  /\ UNCHANGED statementRows

ApprovalApproves(r) ==
  /\ request[r].op = "approveStatus"
  /\ statement' = [statement EXCEPT !.status = "APPROVED"]
  /\ Wrote(r, {"statement"}, Free)
  /\ UNCHANGED <<lines, approval, task, payments>>

-----------------------------------------------------------------------------
(* rejectPeriodStatement                                                   *)

RejectionRead(r) ==
  /\ statement.status \in {"PENDING_REVIEW", "APPROVED"}
  /\ ReadsStatement(r, Read("reject", {"statement"}))

\* (mutation: the approvals of the round are kept)
RejectionApprovalsKept(r) ==
  /\ request[r].op = "reject"
  /\ Wrote(r, {"approvals"}, [request[r] EXCEPT !.op = "rejectTasks", !.reads = @ \union {"approvals"}])
  /\ UNCHANGED <<statement, lines, approval, task, payments>>

RejectionApprovals(r) ==
  /\ request[r].op = "reject"
  /\ approval' = [role \in StatementRoles |-> NoApproval]
  /\ Wrote(r, {"approvals"}, [request[r] EXCEPT !.op = "rejectTasks", !.reads = @ \union {"approvals"}])
  /\ UNCHANGED <<statement, lines, task, payments>>

RejectionTasks(r) ==
  /\ request[r].op = "rejectTasks"
  /\ task' = {}
  /\ Wrote(r, {}, [request[r] EXCEPT !.op = "rejectStatus"])
  /\ UNCHANGED <<statement, lines, approval, payments>>

RejectionStatus(r) ==
  /\ request[r].op = "rejectStatus"
  /\ statement' = [statement EXCEPT !.status = "DRAFT"]
  /\ Wrote(r, {"statement"}, Free)
  /\ UNCHANGED <<lines, approval, task, payments>>

-----------------------------------------------------------------------------
(* lockPeriodStatement, registerMinePayment                                *)

LockRead(r) ==
  /\ statement.status = "APPROVED"
  /\ AllApproved
  /\ \E u \in Users \ {approval[role].user : role \in StatementRoles} :
       ReadsStatement(r, [op |-> "lock", reads |-> {"statement", "approvals"}, fresh |-> TRUE,
                          user |-> u])

LockStatus(r) ==
  /\ request[r].op = "lock"
  /\ statement' = [statement EXCEPT !.status = "LOCKED", !.lockedBy = request[r].user]
  /\ Wrote(r, {"statement"}, Read("lockTasks", {}))
  /\ UNCHANGED <<lines, approval, task, payments>>

LockTasks(r) ==
  /\ request[r].op = "lockTasks"
  /\ task' = {}
  /\ Goes(r, Free)
  /\ UNCHANGED <<statement, lines, approval, payments>>

PayRead(r) ==
  /\ statement.status = "LOCKED"
  /\ ~statement.paid
  /\ ReadsStatement(r, Read("pay", {"statement"}))

PayWrite(r) ==
  /\ request[r].op = "pay"
  /\ statement' = [statement EXCEPT !.paid = TRUE]
  /\ payments' = payments + 1
  /\ Wrote(r, {"statement"}, Free)
  /\ UNCHANGED <<lines, approval, task>>

-----------------------------------------------------------------------------
StatementNext == \E r \in Requests :
  \/ EditRead(r) \/ EditLine(r) \/ EditSum(r) \/ EditTotal(r)
  \/ SubmitRead(r) \/ SubmitStatus(r) \/ SubmitTasks(r)
  \/ ApprovalRead(r) \/ ApprovalTask(r) \/ ApprovalStore(r) \/ ApprovalCount(r) \/ ApprovalApproves(r)
  \/ RejectionRead(r) \/ RejectionApprovals(r) \/ RejectionTasks(r) \/ RejectionStatus(r)
  \/ LockRead(r) \/ LockStatus(r) \/ LockTasks(r)
  \/ PayRead(r) \/ PayWrite(r)
  \/ Ends(r, StatementHalfway(r)) /\ UNCHANGED statementRows

StatementSpec == StatementInit /\ [][StatementNext]_statementVars

-----------------------------------------------------------------------------
(* Properties.                                                             *)

StatementTypeOK ==
  /\ statement \in StatementRow
  /\ lines \in Amounts
  /\ approval \in [StatementRoles -> Approval \union {NoApproval}]
  /\ task \subseteq StatementRoles
  /\ payments \in Nat
  /\ request \in [Requests -> StatementRequest]

\* However reviews, rejections, edits and payments interleave: undisturbed,
\* what an approval was given for is not changed under it, and what is locked
\* has the approval of both roles for what its lines add up to, was locked by
\* a third user and is paid once; and only what is locked is paid.
LockedAsApproved ==
  Undisturbed =>
    /\ \A role \in ApprovedRoles : approval[role].total = statement.total
    /\ statement.status = "LOCKED" =>
         /\ lines = statement.total
         /\ ApprovedRoles = StatementRoles
         /\ \A role \in StatementRoles : approval[role].user # statement.lockedBy
    /\ payments <= 1
    /\ payments = 1 => statement.status = "LOCKED"

\* While a statement is in review and no handler is halfway through it, a
\* role that has not approved has its task.
NobodyForgotten ==
  Undisturbed /\ (\A r \in Requests : ~StatementHalfway(r)) =>
    (statement.status = "PENDING_REVIEW" => StatementRoles \ ApprovedRoles \subseteq task)

=============================================================================
