---------------------------- MODULE Provisioning ----------------------------
(***************************************************************************)
(* User provisioning (PROV): cooperatives and mines ask for the account of *)
(* a person, an administrator approves or rejects what they ask, or        *)
(* creates, changes and deletes accounts himself.  The account, the        *)
(* membership of the workspace and the request are written one after the   *)
(* other, in no transaction.  One person, by mobile number, is enough: the *)
(* handlers for different numbers share nothing but unique indexes.        *)
(***************************************************************************)
EXTENDS Naturals, FiniteSets, Handlers

CONSTANTS
  Asks,    \* rows of user_provisioning_requests for the number
  Places,  \* workspaces: a mine, perhaps with a cooperative
  NoPlace

ASSUME ProvisioningAssumption == NoPlace \notin Places

VARIABLES
  ask,     \* [Asks -> row]
  account, \* the row of users with the number
  member   \* workspaces with an ACTIVE membership of the account

provisioningRows == <<ask, account, member>>
provisioningVars == <<provisioningRows, handlerVars>>

NoAsk == [status |-> "NONE", place |-> NoPlace]
Ask == [status : {"NONE", "PENDING", "APPROVED", "REJECTED"}, place : Places \union {NoPlace}]

\* "DELETED": softly, deleted_at is set.
NoAccount == [status |-> "NONE", place |-> NoPlace]
Account == [status : {"NONE", "ACTIVE", "DELETED"}, place : Places \union {NoPlace}]

\* Handlers of a person for a place; those that approve know the request.
ProvisioningRequest ==
  {Free}
    \union [op : {"ask"}, reads : SUBSET (Asks \union {"account"}), fresh : BOOLEAN, place : Places]
    \union [op : {"join"}, reads : SUBSET (Asks \union {"account"}), fresh : BOOLEAN,
            place : Places \union {NoPlace}, for : SUBSET Asks]
    \union [op : {"create", "restore", "done"}, reads : SUBSET (Asks \union {"account"}),
            fresh : BOOLEAN, place : Places, for : SUBSET Asks]
    \union [op : {"refuse"}, reads : SUBSET Asks, fresh : BOOLEAN, for : SUBSET Asks]
    \union [op : {"move"}, reads : {{"account"}}, fresh : BOOLEAN, place : Places]
    \union [op : {"delete"}, reads : {{"account"}}, fresh : BOOLEAN]

\* Between the account and its membership, or that and the request.
ProvisioningHalfway(r) == request[r].op \in {"join", "done"}

Pending == {a \in Asks : ask[a].status = "PENDING"}

ProvisioningInit ==
  /\ ask = [a \in Asks |-> NoAsk]
  /\ account = NoAccount
  /\ member = {}
  /\ HandlersInit

ReadsProvisioning(r, k) == Begins(r, k) /\ UNCHANGED provisioningRows

\* assertMobileAvailable: of a deleted account it looks at nothing else.
MobileFree(except) ==
  \/ account.status = "DELETED"
  \/ account.status = "NONE" /\ Pending \subseteq except

-----------------------------------------------------------------------------
\* createProvisioningRequest
AskRead(r) ==
  /\ MobileFree({})
  /\ \E p \in Places :
       ReadsProvisioning(r, [op |-> "ask", reads |-> Asks \union {"account"}, fresh |-> TRUE,
                             place |-> p])

AskWrite(r) ==
  /\ request[r].op = "ask"
  /\ \E a \in Asks :
       /\ ask[a] = NoAsk
       /\ ask' = [ask EXCEPT ![a] = [status |-> "PENDING", place |-> request[r].place]]
       /\ Wrote(r, {a}, Free)
  /\ UNCHANGED <<account, member>>

-----------------------------------------------------------------------------
(* createUserDirect, for a request (`for') or without one.                 *)

CreateUser(r, p, for) ==
  /\ MobileFree(for)
  /\ ReadsProvisioning(r, [op |-> IF account.status = "DELETED" THEN "restore" ELSE "create",
                           reads |-> {"account"} \union for, fresh |-> TRUE, place |-> p,
                           for |-> for])

CreateUserRead(r) == \E p \in Places : CreateUser(r, p, {})

\* approveProvisioningRequest
ApproveAskRead(r) == \E a \in Pending : CreateUser(r, ask[a].place, {a})

\* The number is unique: createUser fails on an account that is there by now,
\* restoreUser does not look.
AccountCreate(r) ==
  /\ \/ request[r].op = "create" /\ account = NoAccount
     \/ request[r].op = "restore"
  /\ account' = [status |-> "ACTIVE", place |-> request[r].place]
  /\ Wrote(r, {"account"}, [request[r] EXCEPT !.op = "join"])
  /\ UNCHANGED <<ask, member>>

\* (mutation: only an account that was created directly joins)
JoinWorkspaceDirect(r) ==
  /\ request[r].op = "join"
  /\ request[r].place # NoPlace
  /\ IF request[r].for = {}
     THEN member' = member \union {request[r].place} /\ Wrote(r, {}, Free)
     ELSE member' = member /\ Wrote(r, {}, [request[r] EXCEPT !.op = "done"])
  /\ UNCHANGED <<ask, account>>

\* syncWorkspaceMembershipForUser, upsertMembership: it throws without the
\* workspace.
JoinWorkspace(r) ==
  /\ request[r].op = "join"
  /\ request[r].place # NoPlace
  /\ member' = member \union {request[r].place}
  /\ Wrote(r, {}, IF request[r].for = {} THEN Free ELSE [request[r] EXCEPT !.op = "done"])
  /\ UNCHANGED <<ask, account>>

\* Whatever the request has become.
ApproveAskWrite(r) ==
  /\ request[r].op = "done"
  /\ ask' = [a \in Asks |-> IF a \in request[r].for THEN [ask[a] EXCEPT !.status = "APPROVED"] ELSE ask[a]]
  /\ Wrote(r, request[r].for, Free)
  /\ UNCHANGED <<account, member>>

-----------------------------------------------------------------------------
RejectAskRead(r) ==
  \E a \in Pending :
    ReadsProvisioning(r, [op |-> "refuse", reads |-> {a}, fresh |-> TRUE, for |-> {a}])

RejectAskWrite(r) ==
  /\ request[r].op = "refuse"
  /\ ask' = [a \in Asks |-> IF a \in request[r].for THEN [ask[a] EXCEPT !.status = "REJECTED"] ELSE ask[a]]
  /\ Wrote(r, request[r].for, Free)
  /\ UNCHANGED <<account, member>>

\* updateUserAdmin: another workspace; the membership of the old one stays.
MoveUserRead(r) ==
  /\ account.status = "ACTIVE"
  /\ \E p \in Places :
       ReadsProvisioning(r, [op |-> "move", reads |-> {"account"}, fresh |-> TRUE, place |-> p])

\* Of a household it clears the cooperative, and with it the workspace.
MoveUserWrite(r) ==
  /\ request[r].op = "move"
  /\ \E p \in {request[r].place, NoPlace} :
       /\ account' = [account EXCEPT !.place = p]
       /\ Wrote(r, {"account"}, [op |-> "join", reads |-> {}, fresh |-> TRUE, place |-> p, for |-> {}])
  /\ UNCHANGED <<ask, member>>

\* softDeleteUserAdmin
DeleteUserRead(r) ==
  /\ account.status = "ACTIVE"
  /\ ReadsProvisioning(r, [op |-> "delete", reads |-> {"account"}, fresh |-> TRUE])

DeleteUserWrite(r) ==
  /\ request[r].op = "delete"
  /\ account' = [account EXCEPT !.status = "DELETED"]
  /\ Wrote(r, {"account"}, Free)
  /\ UNCHANGED <<ask, member>>

-----------------------------------------------------------------------------
ProvisioningNext == \E r \in Requests :
  \/ AskRead(r) \/ AskWrite(r)
  \/ CreateUserRead(r) \/ ApproveAskRead(r)
  \/ AccountCreate(r) \/ JoinWorkspace(r) \/ ApproveAskWrite(r)
  \/ RejectAskRead(r) \/ RejectAskWrite(r)
  \/ MoveUserRead(r) \/ MoveUserWrite(r)
  \/ DeleteUserRead(r) \/ DeleteUserWrite(r)
  \/ Ends(r, ProvisioningHalfway(r)) /\ UNCHANGED provisioningRows

ProvisioningSpec == ProvisioningInit /\ [][ProvisioningNext]_provisioningVars

-----------------------------------------------------------------------------
(* Properties.                                                             *)

ProvisioningTypeOK ==
  /\ ask \in [Asks -> Ask]
  /\ account \in Account
  /\ member \subseteq Places
  /\ request \in [Requests -> ProvisioningRequest]

\* Whatever handlers end halfway, and even when two write over one another:
\* a request is approved only when its person has an account, deleted since
\* or not, and the membership that was asked for.  Undisturbed, an account
\* has the membership of its place, and as long as no account was deleted
\* one request is pending.
AccountsAreMembers ==
  /\ \A a \in Asks : ask[a].status = "APPROVED" => account # NoAccount /\ ask[a].place \in member
  /\ Undisturbed /\ (\A r \in Requests : ~ProvisioningHalfway(r)) =>
       /\ account # NoAccount => account.place \in member
       /\ account = NoAccount => Cardinality(Pending) <= 1

=============================================================================
