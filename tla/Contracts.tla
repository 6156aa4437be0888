------------------------------ MODULE Contracts ------------------------------
(***************************************************************************)
(* The service contracts of a mine and a cooperative for one operation:    *)
(* drafted, edited and signed by both, activated in the place of the one   *)
(* in force, amended and versioned.  A unique index allows one ACTIVE.     *)
(*                                                                         *)
(* Periods, versions and the linked rate card, which only refuse more, are *)
(* left out.                                                               *)
(***************************************************************************)
EXTENDS Naturals, Handlers

CONSTANTS
  ContractIds,  \* rows of service_contracts
  Terms         \* base_rate_rial and fixed_community_amount_rial_per_unit

VARIABLE contract  \* [ContractIds -> row]

contractsVars == <<contract, handlerVars>>

\* `mine' and `coop': signed_at_mine and signed_at_coop are there.
NoContract == [status |-> "NONE"]
Contract == [status : {"DRAFT", "ACTIVE", "SUPERSEDED"}, terms : Terms, mine : BOOLEAN, coop : BOOLEAN]

ContractsRequest ==
  {Free}
    \union [op : {"update"}, reads : SUBSET ContractIds, fresh : BOOLEAN, id : ContractIds,
            terms : Terms, mine : BOOLEAN, coop : BOOLEAN]
    \union [op : {"activate"}, reads : SUBSET ContractIds, fresh : BOOLEAN, id : ContractIds,
            prev : SUBSET ContractIds]
    \union [op : {"amend", "version"}, reads : SUBSET ContractIds, fresh : BOOLEAN, id : ContractIds,
            terms : Terms]

InState(s) == {c \in ContractIds : contract[c].status = s}
Draft(terms) == [status |-> "DRAFT", terms |-> terms, mine |-> FALSE, coop |-> FALSE]

ContractsInit ==
  /\ contract = [c \in ContractIds |-> NoContract]
  /\ HandlersInit

ReadsContract(r, k) == Begins(r, k) /\ UNCHANGED contract

-----------------------------------------------------------------------------
\* createDraftServiceContract
CreateDraft(r) ==
  /\ request[r].op = "free"
  /\ \E c \in InState("NONE"), t \in Terms :
       /\ contract' = [contract EXCEPT ![c] = Draft(t)]
       /\ Wrote(r, {c}, Free)

\* (mutation: a contract in force may be edited)
UpdateReadActive(r) ==
  \E c \in InState("DRAFT") \union InState("ACTIVE"), t \in Terms, m, p \in BOOLEAN :
    ReadsContract(r, [op |-> "update", reads |-> {c}, fresh |-> TRUE, id |-> c, terms |-> t,
                      mine |-> m, coop |-> p])

\* One side, or an ADMIN both, sign in the PUT that edits the draft.
UpdateRead(r) ==
  \E c \in InState("DRAFT"), t \in Terms, m, p \in BOOLEAN :
    ReadsContract(r, [op |-> "update", reads |-> {c}, fresh |-> TRUE, id |-> c, terms |-> t,
                      mine |-> m, coop |-> p])

\* updateDraftServiceContract: what the other side has signed stays signed.
UpdateWrite(r) ==
  /\ request[r].op = "update"
  /\ LET k == request[r] IN
     /\ contract' = [contract EXCEPT ![k.id].terms = k.terms,
                                     ![k.id].mine = @ \/ k.mine,
                                     ![k.id].coop = @ \/ k.coop]
     /\ Wrote(r, {k.id}, Free)

Signed(c) == contract[c].mine /\ contract[c].coop

\* activateServiceContract reads the draft and the one in force ...
ActivateRead(r) ==
  \E c \in InState("DRAFT") :
    /\ Signed(c)
    /\ ReadsContract(r, [op |-> "activate", reads |-> {c} \union InState("ACTIVE"), fresh |-> TRUE,
                         id |-> c, prev |-> InState("ACTIVE")])

\* ... and writes both, unless the index refuses a second one.
ActivateWrite(r) ==
  /\ request[r].op = "activate"
  /\ LET k == request[r] IN
     /\ InState("ACTIVE") \subseteq k.prev \union {k.id}
     /\ contract' = [c \in ContractIds |->
                       IF c = k.id THEN [contract[c] EXCEPT !.status = "ACTIVE"]
                       ELSE IF c \in k.prev THEN [contract[c] EXCEPT !.status = "SUPERSEDED"]
                       ELSE contract[c]]
     /\ Wrote(r, k.prev \union {k.id}, Free)

\* amendServiceContract
AmendRead(r) ==
  \E c \in InState("ACTIVE"), t \in Terms :
    ReadsContract(r, [op |-> "amend", reads |-> {c}, fresh |-> TRUE, id |-> c, terms |-> t])

AmendWrite(r) ==
  /\ request[r].op = "amend"
  /\ LET k == request[r] IN
     \E c \in InState("NONE") :
       /\ contract' = [contract EXCEPT ![k.id].status = "SUPERSEDED", ![c] = Draft(k.terms)]
       /\ Wrote(r, {k.id, c}, Free)

\* createNewServiceContractVersion: the one in force stays so.
VersionRead(r) ==
  /\ InState("DRAFT") = {}
  /\ \E c \in InState("ACTIVE"), t \in Terms :
       ReadsContract(r, [op |-> "version", reads |-> ContractIds, fresh |-> TRUE, id |-> c, terms |-> t])

VersionWrite(r) ==
  /\ request[r].op = "version"
  /\ \E c \in InState("NONE") :
       /\ contract' = [contract EXCEPT ![c] = Draft(request[r].terms)]
       /\ Wrote(r, {c}, Free)

-----------------------------------------------------------------------------
ContractsNext == \E r \in Requests :
  \/ CreateDraft(r)
  \/ UpdateRead(r) \/ UpdateWrite(r)
  \/ ActivateRead(r) \/ ActivateWrite(r)
  \/ AmendRead(r) \/ AmendWrite(r)
  \/ VersionRead(r) \/ VersionWrite(r)
  \/ Ends(r, FALSE) /\ UNCHANGED contract

ContractsSpec == ContractsInit /\ [][ContractsNext]_contractsVars

-----------------------------------------------------------------------------
(* Properties.                                                             *)

ContractsTypeOK ==
  /\ contract \in [ContractIds -> Contract \union {NoContract}]
  /\ request \in [Requests -> ContractsRequest]

\* Fares are computed from the contract in force: its terms do not change
\* while it is, it is never in force again once superseded, and it has the
\* signatures of both sides, unless an edit or an activation is written over
\* one that it has not seen.
TermsStand ==
  [][\A c \in ContractIds :
       /\ contract[c].status = "ACTIVE" /\ contract'[c].status = "ACTIVE" =>
            contract'[c].terms = contract[c].terms \/ overtaken'
       /\ contract[c].status = "SUPERSEDED" => contract'[c] = contract[c] \/ overtaken'
       /\ contract'[c].status = "ACTIVE" => contract'[c].mine /\ contract'[c].coop]_contractsVars

=============================================================================
