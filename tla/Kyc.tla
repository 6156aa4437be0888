--------------------------------- MODULE Kyc ---------------------------------
(***************************************************************************)
(* The review of an applicant of a cooperative (KYC-NC-1): a household,    *)
(* which a quorum of reviewers approves (HH-KYC-COMMITTEE-1), or a driver, *)
(* a fleet owner or a vehicle, which one approves.  The first application, *)
(* registration or import has been made when the model begins.             *)
(*                                                                         *)
(* Every handler checks the copy that EntitiesStore keeps in memory,       *)
(* writes the row, and then puts what it believes the row to be into the   *)
(* copy.  A restart reads the copies anew.                                 *)
(***************************************************************************)
EXTENDS Naturals, FiniteSets, Handlers

CONSTANTS
  Approvers,  \* reviewers of the cooperative
  Quorum,     \* household_approval_quorum of its settings
  Ibans,      \* bank accounts the applicant may name
  NoIban

ASSUME KycAssumption ==
  /\ Quorum \in Nat \ {0}
  /\ IsFiniteSet(Approvers)
  /\ NoIban \notin Ibans

VARIABLES
  kind,       \* what the applicant is
  applicant,  \* the row
  copy,       \* the copy of the row in EntitiesStore
  signed,     \* approvers with a row of household_approvals
  wallet      \* the wallet of the household exists

kycRows == <<kind, applicant, copy, signed, wallet>>
kycVars == <<kycRows, handlerVars>>

ApprovalStatus == {"PENDING", "APPROVED", "REJECTED", "SUSPENDED", "NEEDS_CORRECTION"}
Kinds == {"household", "driver", "fleet_owner", "vehicle"}
Applicant == [status : ApprovalStatus, iban : Ibans \union {NoIban}]

\* A driver and a vehicle are not paid, and a request need not name an account.
Accounts == {NoIban} \union IF kind \in {"household", "fleet_owner"} THEN Ibans ELSE {}

\* About to write a status or an account, or to put `row' into the copy; an
\* approver of a household is about to sign, to count, or to open the wallet.
KycRequest ==
  {Free}
    \union [op : {"status", "resubmit", "apply", "account", "ownAccount", "copy", "wallet"}, reads : SUBSET {"applicant"},
            fresh : BOOLEAN, row : Applicant]
    \union [op : {"sign", "count"}, reads : SUBSET {"applicant"}, fresh : BOOLEAN, row : Applicant,
            by : Approvers]

KycHalfway(r) == request[r].op \in {"count", "wallet", "copy"}

\* POST .../request of the cooperative: no wallet yet.
Requested ==
  /\ \E i \in Accounts : applicant = [status |-> "PENDING", iban |-> i]
  /\ wallet = FALSE

\* A household registered itself; a restart may have kept the wallet from it.
Registered ==
  /\ kind = "household"
  /\ \E i \in Ibans : applicant = [status |-> "PENDING", iban |-> i]
  /\ wallet \in BOOLEAN

\* IMPORT_AUTO_APPROVE is a setting of the deployment.
defaultImportStatus == {"PENDING", "APPROVED"}

\* A household of a bulk import has its wallet and no account, and may be
\* APPROVED by the import, with no approval of anybody.
Imported ==
  /\ kind = "household"
  /\ \E s \in defaultImportStatus : applicant = [status |-> s, iban |-> NoIban]
  /\ wallet = TRUE

KycInit ==
  /\ kind \in Kinds
  /\ Requested \/ Registered \/ Imported
  /\ copy = applicant
  /\ signed = {}
  /\ HandlersInit

\* A handler that has looked at the copy, which may be behind the row.
Looks(op, row) ==
  [op |-> op, reads |-> {"applicant"}, fresh |-> copy = applicant, row |-> row]

KycReads(r, k) == Begins(r, k) /\ UNCHANGED kycRows

\* The row is written, and `row' will be put into the copy.
WritesApplicant(r, new, op, row) ==
  /\ applicant' = new
  /\ Wrote(r, {"applicant"}, [request[r] EXCEPT !.op = op, !.row = row])

-----------------------------------------------------------------------------
(* Approval.                                                               *)

canApproveFrom(s) == s \in {"PENDING", "NEEDS_CORRECTION"}

\* An approver of a household, up to the insert of his approval.
SignRead(r) ==
  /\ kind = "household"
  /\ canApproveFrom(copy.status)
  /\ \E u \in Approvers :
       KycReads(r, [op |-> "sign", reads |-> {"applicant"}, fresh |-> copy = applicant,
                    row |-> copy, by |-> u])

\* Unique for the household and the approver, whatever round of the review
\* it was given in: a second one is refused.
Sign(r) ==
  /\ request[r].op = "sign"
  /\ request[r].by \notin signed
  /\ signed' = signed \union {request[r].by}
  /\ Wrote(r, {}, [request[r] EXCEPT !.op = "count"])
  /\ UNCHANGED <<kind, applicant, copy, wallet>>

\* (mutation: one approval less is enough)
CountOneLess(r) ==
  /\ request[r].op = "count"
  /\ LET k == request[r] IN
     IF Cardinality(signed) < Quorum - 1
     THEN Goes(r, Free)
     ELSE Goes(r, [op |-> "status", reads |-> k.reads, fresh |-> k.fresh,
                   row |-> [k.row EXCEPT !.status = "APPROVED"]])
  /\ UNCHANGED kycRows

\* Below the quorum the household stays as it is.
Count(r) ==
  /\ request[r].op = "count"
  /\ LET k == request[r] IN
     IF Cardinality(signed) < Quorum
     THEN Goes(r, Free)
     ELSE Goes(r, [op |-> "status", reads |-> k.reads, fresh |-> k.fresh,
                   row |-> [k.row EXCEPT !.status = "APPROVED"]])
  /\ UNCHANGED kycRows

OpenWallet(r) ==
  /\ request[r].op = "wallet"
  /\ wallet' = TRUE
  /\ Wrote(r, {}, [request[r] EXCEPT !.op = "copy"])
  /\ UNCHANGED <<kind, applicant, copy, signed>>

-----------------------------------------------------------------------------
(* One reviewer's decisions.                                               *)

canRejectFrom(s) == s \in {"PENDING", "NEEDS_CORRECTION"}
canSuspendFrom(s) == s = "APPROVED"

Decides(r, t) == KycReads(r, Looks("status", [copy EXCEPT !.status = t]))

RejectsOrSuspends(r) ==
  \/ canRejectFrom(copy.status) /\ Decides(r, "REJECTED")
  \/ canSuspendFrom(copy.status) /\ Decides(r, "SUSPENDED")

Reviews(r) ==
  \/ RejectsOrSuspends(r)
  \/ canApproveFrom(copy.status) /\ Decides(r, "APPROVED")

householdAction(r) == kind = "household" /\ RejectsOrSuspends(r)
driverAction(r) == kind = "driver" /\ Reviews(r)
fleetOwnerAction(r) == kind = "fleet_owner" /\ Reviews(r)
vehicleAction(r) == kind = "vehicle" /\ Reviews(r)

\* (mutation: a suspended applicant may be asked for a correction)
CorrectionReadSuspended(r) ==
  /\ copy.status \in {"PENDING", "APPROVED", "SUSPENDED"}
  /\ KycReads(r, Looks("status", [copy EXCEPT !.status = "NEEDS_CORRECTION"]))

\* requestCorrectionRoute, canRequestCorrectionFrom
CorrectionRead(r) ==
  /\ copy.status \in {"PENDING", "APPROVED"}
  /\ KycReads(r, Looks("status", [copy EXCEPT !.status = "NEEDS_CORRECTION"]))

\* The status alone is written; the copy will be the one that was looked at
\* with the new status.
StatusWrite(r) ==
  /\ request[r].op = "status"
  /\ LET row == request[r].row IN
       WritesApplicant(r, [applicant EXCEPT !.status = row.status],
                       IF kind = "household" /\ row.status = "APPROVED" THEN "wallet" ELSE "copy", row)
  /\ UNCHANGED <<kind, copy, signed, wallet>>

-----------------------------------------------------------------------------
(* The applicant: resubmission, bank account, a new application.           *)

ResubmitRead(r) ==
  /\ copy.status = "NEEDS_CORRECTION"
  /\ KycReads(r, Looks("resubmit", copy))

ResubmitWrite(r) ==
  /\ request[r].op = "resubmit"
  /\ LET row == [applicant EXCEPT !.status = "PENDING"] IN WritesApplicant(r, row, "copy", row)
  /\ UNCHANGED <<kind, copy, signed, wallet>>

AccountRead(r) ==
  \E i \in Accounts \ {NoIban} : KycReads(r, Looks("account", [copy EXCEPT !.iban = i]))

AccountWrite(r) ==
  /\ request[r].op = "account"
  /\ LET row == [applicant EXCEPT !.iban = request[r].row.iban] IN WritesApplicant(r, row, "copy", row)
  /\ UNCHANGED <<kind, copy, signed, wallet>>

\* PATCH /households/me/iban: unlike the cooperative's, it puts the copy it
\* has looked at back, status and all, and not the row.
OwnAccountRead(r) ==
  /\ kind = "household"
  /\ \E i \in Ibans : KycReads(r, Looks("ownAccount", [copy EXCEPT !.iban = i]))

OwnAccountWrite(r) ==
  /\ request[r].op = "ownAccount"
  /\ WritesApplicant(r, [applicant EXCEPT !.iban = request[r].row.iban], "copy", request[r].row)
  /\ UNCHANGED <<kind, copy, signed, wallet>>

\* A new application, in whatever status the applicant is.  One that names no
\* account leaves the account of the row.
Applies(r) ==
  \E i \in Accounts :
    KycReads(r, [op |-> "apply", reads |-> {}, fresh |-> TRUE,
                 row |-> [status |-> "PENDING", iban |-> i]])

HouseholdApplies(r) == kind = "household" /\ Applies(r)
DriverApplies(r) == kind = "driver" /\ Applies(r)
FleetOwnerApplies(r) == kind = "fleet_owner" /\ Applies(r)
VehicleApplies(r) == kind = "vehicle" /\ Applies(r)

\* upsertHousehold and its like.
ApplyWrite(r) ==
  /\ request[r].op = "apply"
  /\ LET k == request[r]
         row == IF k.row.iban = NoIban THEN [k.row EXCEPT !.iban = applicant.iban] ELSE k.row IN
       /\ applicant' = row
       /\ Wrote(r, {"applicant"}, [k EXCEPT !.op = "copy", !.reads = {"applicant"}, !.row = row])
  /\ UNCHANGED <<kind, copy, signed, wallet>>

-----------------------------------------------------------------------------
\* (mutation: the copy is refreshed when the status is written, and not when
\* the account is)
CopyWriteStatus(r) ==
  /\ request[r].op = "copy"
  /\ copy' = [copy EXCEPT !.status = request[r].row.status]
  /\ Wrote(r, {"applicant"}, Free)
  /\ UNCHANGED <<kind, applicant, signed, wallet>>

\* updateHouseholdInCache and its like.
CopyWrite(r) ==
  /\ request[r].op = "copy"
  /\ copy' = request[r].row
  /\ Wrote(r, {"applicant"}, Free)
  /\ UNCHANGED <<kind, applicant, signed, wallet>>

\* The backend restarts: hydrate.
KycRestart ==
  /\ \E r \in Requests : request[r].op # "free"
  /\ request' = [r \in Requests |-> Free]
  /\ cut' = (cut \/ \E r \in Requests : KycHalfway(r))
  /\ copy' = applicant
  /\ UNCHANGED <<kind, applicant, signed, wallet, overtaken>>

-----------------------------------------------------------------------------
KycNext ==
  \/ \E r \in Requests :
       \/ SignRead(r) \/ Sign(r) \/ Count(r) \/ OpenWallet(r)
       \/ householdAction(r) \/ driverAction(r) \/ fleetOwnerAction(r) \/ vehicleAction(r)
       \/ CorrectionRead(r) \/ StatusWrite(r)
       \/ ResubmitRead(r) \/ ResubmitWrite(r)
       \/ AccountRead(r) \/ AccountWrite(r)
       \/ OwnAccountRead(r) \/ OwnAccountWrite(r)
       \/ HouseholdApplies(r) \/ DriverApplies(r) \/ FleetOwnerApplies(r) \/ VehicleApplies(r)
       \/ ApplyWrite(r)
       \/ CopyWrite(r)
       \/ Ends(r, KycHalfway(r)) /\ UNCHANGED kycRows
  \/ KycRestart

KycSpec == KycInit /\ [][KycNext]_kycVars

-----------------------------------------------------------------------------
(* Properties.                                                             *)

KycTypeOK ==
  /\ kind \in Kinds
  /\ applicant \in Applicant
  /\ copy \in Applicant
  /\ signed \subseteq Approvers
  /\ wallet \in BOOLEAN
  /\ request \in [Requests -> KycRequest]

\* Through any interleaving of reviewers, corrections, new applications and
\* restarts, a household becomes APPROVED only with the approvals of a quorum
\* of different reviewers.
QuorumReached ==
  [][kind = "household" /\ applicant.status # "APPROVED" /\ applicant'.status = "APPROVED" =>
       Cardinality(signed) >= Quorum]_kycVars

\* Undisturbed, and between handlers, what the guards look at is the row,
\* and an approved household has its wallet.
CopyIsRow ==
  Undisturbed /\ (\A r \in Requests : ~KycHalfway(r)) =>
    /\ copy = applicant
    /\ kind = "household" /\ applicant.status = "APPROVED" => wallet

\* A rejected or suspended applicant comes back by a new application only,
\* unless a decision is written over one that its handler has not seen.
ReturnsByApplication ==
  [][applicant.status \in {"REJECTED", "SUSPENDED"} =>
       \/ applicant'.status = applicant.status
       \/ overtaken'
       \/ \E r \in Requests : ApplyWrite(r)]_kycVars

=============================================================================
