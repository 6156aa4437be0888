----------------------------- MODULE FinanceProofs -----------------------------
(***************************************************************************)
(* Proofs about the finance of a mine, each for any number of handlers in  *)
(* flight: contracts, rate cards, the period statement, hourly logs, the   *)
(* pool and the ledger.  An invariant says of every request in flight what *)
(* it carries, and of a fresh one what it has checked and is still so      *)
(* (Seen); what is added up is a sum over a finite set (CommonProofs).     *)
(***************************************************************************)
EXTENDS Contracts, Rates, Statement, Hourly, Pool, Ledger, CommonProofs

-----------------------------------------------------------------------------
(* Contracts.                                                              *)

\* What a request of the contracts carries, fresh or not: a contract that
\* exists; an activation, one that both sides have signed.
ContractNamed(k, rows) ==
  k.op # "free" =>
    /\ "id" \in DOMAIN k /\ k.id \in ContractIds /\ rows[k.id].status # "NONE"
    /\ k.op = "activate" => /\ rows[k.id].mine = TRUE /\ rows[k.id].coop = TRUE
                            /\ "prev" \in DOMAIN k
                            /\ \A c \in k.prev \intersect ContractIds : rows[c].status # "NONE"
    /\ k.op = "update" => {"terms", "mine", "coop"} \subseteq DOMAIN k /\ k.mine \in BOOLEAN /\ k.coop \in BOOLEAN
    /\ k.op \in {"update", "amend", "version"} => "terms" \in DOMAIN k /\ k.terms \in Terms

\* What a fresh one has seen is so.
ContractSeen(k, rows) ==
  k.fresh =>
    /\ k.op = "update" => k.id \in k.reads /\ rows[k.id].status = "DRAFT"
    /\ k.op = "activate" => /\ {k.id} \union k.prev \subseteq k.reads
                            /\ rows[k.id].status = "DRAFT"
                            /\ \A c \in k.prev \intersect ContractIds : rows[c].status = "ACTIVE"
    /\ k.op = "amend" => k.id \in k.reads /\ rows[k.id].status = "ACTIVE"

\* What is in force has both signatures.
ContractRows ==
  /\ contract = [c \in ContractIds |-> contract[c]]
  /\ \A c \in ContractIds : contract[c] \in Contract \union {NoContract}
  /\ \A c \in ContractIds : contract[c].status = "ACTIVE" => contract[c].mine = TRUE /\ contract[c].coop = TRUE

\* The invariant of the contracts.
ContractsInv ==
  /\ AllRequests
  /\ ContractRows
  /\ \A r \in Requests : ContractNamed(request[r], contract) /\ ContractSeen(request[r], contract)

\* A write signs no contract off and takes none away; it is of the rows W.
SignaturesStay ==
  \A c \in ContractIds : contract[c].status # "NONE" =>
    /\ contract'[c].status # "NONE"
    /\ contract[c].mine = TRUE => contract'[c].mine = TRUE
    /\ contract[c].coop = TRUE => contract'[c].coop = TRUE

\* A write of the rows W.
OnlyContracts(W) == \A c \in ContractIds : contract'[c] = contract[c] \/ c \in W

LEMMA ContractsWrote ==
  ASSUME ContractsInv, NEW r \in Requests, NEW W, Wrote(r, W, Free), ContractRows',
         SignaturesStay, OnlyContracts(W)
  PROVE  ContractsInv'
  <1>1. /\ AllRequests'
        /\ request'[r] = Free
        /\ \A q \in Requests \ {r} :
              /\ request'[q].op = request[q].op
              /\ DOMAIN request'[q] = DOMAIN request[q]
              /\ \A x \in DOMAIN request[q] \ {"fresh"} : request'[q][x] = request[q][x]
              /\ request'[q].fresh =>
                   request'[q] = request[q] /\ request[q].fresh /\ request[q].reads \intersect W = {}
    BY FreeIsRequest, WroteOver DEF ContractsInv
  <1>2. ContractNamed(Free, contract') /\ ContractSeen(Free, contract')
    BY DEF Free, ContractNamed, ContractSeen
  <1>3. ASSUME NEW q \in Requests \ {r}
        PROVE  ContractNamed(request'[q], contract')
    BY <1>1 DEF ContractsInv, ContractNamed, SignaturesStay
  <1>4. ASSUME NEW q \in Requests \ {r}
        PROVE  ContractSeen(request'[q], contract')
    BY <1>1 DEF ContractsInv, ContractSeen, ContractNamed, OnlyContracts
  <1> QED
    BY <1>1, <1>2, <1>3, <1>4 DEF ContractsInv

\* A handler that has looked, and one that ends.
LEMMA ContractsGoes ==
  ASSUME ContractsInv, NEW r \in Requests, NEW k, IsRequest(k), ContractNamed(k, contract),
         ContractSeen(k, contract), Goes(r, k), UNCHANGED contract
  PROVE  ContractsInv'
  BY GoesOn DEF ContractsInv, ContractRows

LEMMA ContractsEnds ==
  ASSUME ContractsInv, NEW r \in Requests, Ends(r, FALSE), UNCHANGED contract
  PROVE  ContractsInv'
  <1>1. ContractNamed(Free, contract) /\ ContractSeen(Free, contract)
    BY DEF Free, ContractNamed, ContractSeen
  <1> QED
    BY <1>1, EndsHere DEF ContractsInv, ContractRows

LEMMA ContractsInvInit == ContractsInit => ContractsInv
  <1> SUFFICES ASSUME ContractsInit PROVE ContractsInv
    OBVIOUS
  <1>1. AllRequests /\ \A r \in Requests : request[r] = Free
    BY FreeIsRequest DEF ContractsInit, HandlersInit, AllRequests
  <1>2. ContractNamed(Free, contract) /\ ContractSeen(Free, contract)
    BY DEF Free, ContractNamed, ContractSeen
  <1>3. ContractRows
    BY DEF ContractsInit, ContractRows, NoContract
  <1> QED
    BY <1>1, <1>2, <1>3 DEF ContractsInv

\* The looks.
LEMMA ContractsLooks ==
  ASSUME ContractsInv, NEW r \in Requests,
         UpdateRead(r) \/ ActivateRead(r) \/ AmendRead(r) \/ VersionRead(r)
  PROVE  ContractsInv'
  <1>1. CASE UpdateRead(r)
    <2>1. PICK c \in InState("DRAFT"), t \in Terms, m \in BOOLEAN, p \in BOOLEAN :
            ReadsContract(r, [op |-> "update", reads |-> {c}, fresh |-> TRUE, id |-> c, terms |-> t,
                              mine |-> m, coop |-> p])
      BY <1>1 DEF UpdateRead
    <2> DEFINE k == [op |-> "update", reads |-> {c}, fresh |-> TRUE, id |-> c, terms |-> t,
                     mine |-> m, coop |-> p]
    <2>2. IsRequest(k) /\ ContractNamed(k, contract) /\ ContractSeen(k, contract)
      BY DEF IsRequest, ContractNamed, ContractSeen, InState
    <2> QED
      BY <2>1, <2>2, ContractsGoes DEF ReadsContract, Begins
  <1>2. CASE ActivateRead(r)
    <2>1. PICK c \in InState("DRAFT") :
            /\ Signed(c)
            /\ ReadsContract(r, [op |-> "activate", reads |-> {c} \union InState("ACTIVE"), fresh |-> TRUE,
                                 id |-> c, prev |-> InState("ACTIVE")])
      BY <1>2 DEF ActivateRead
    <2> DEFINE k == [op |-> "activate", reads |-> {c} \union InState("ACTIVE"), fresh |-> TRUE,
                     id |-> c, prev |-> InState("ACTIVE")]
    <2>2. contract[c].mine = TRUE /\ contract[c].coop = TRUE
      BY <2>1 DEF Signed, InState, ContractsInv, ContractRows, Contract, NoContract
    <2>3. IsRequest(k) /\ ContractNamed(k, contract) /\ ContractSeen(k, contract)
      BY <2>2 DEF IsRequest, ContractNamed, ContractSeen, InState
    <2> QED
      BY <2>1, <2>3, ContractsGoes DEF ReadsContract, Begins
  <1>3. CASE AmendRead(r)
    <2>1. PICK c \in InState("ACTIVE"), t \in Terms :
            ReadsContract(r, [op |-> "amend", reads |-> {c}, fresh |-> TRUE, id |-> c, terms |-> t])
      BY <1>3 DEF AmendRead
    <2> DEFINE k == [op |-> "amend", reads |-> {c}, fresh |-> TRUE, id |-> c, terms |-> t]
    <2>2. IsRequest(k) /\ ContractNamed(k, contract) /\ ContractSeen(k, contract)
      BY DEF IsRequest, ContractNamed, ContractSeen, InState
    <2> QED
      BY <2>1, <2>2, ContractsGoes DEF ReadsContract, Begins
  <1>4. CASE VersionRead(r)
    <2>1. PICK c \in InState("ACTIVE"), t \in Terms :
            ReadsContract(r, [op |-> "version", reads |-> ContractIds, fresh |-> TRUE, id |-> c, terms |-> t])
      BY <1>4 DEF VersionRead
    <2> DEFINE k == [op |-> "version", reads |-> ContractIds, fresh |-> TRUE, id |-> c, terms |-> t]
    <2>2. IsRequest(k) /\ ContractNamed(k, contract) /\ ContractSeen(k, contract)
      BY DEF IsRequest, ContractNamed, ContractSeen, InState
    <2> QED
      BY <2>1, <2>2, ContractsGoes DEF ReadsContract, Begins
  <1> QED
    BY <1>1, <1>2, <1>3, <1>4

\* A new draft takes the place of no contract.
LEMMA Drafted ==
  ASSUME NEW t \in Terms
  PROVE  /\ Draft(t) \in Contract
         /\ Draft(t).status = "DRAFT"
  BY DEF Draft, Contract

LEMMA CreateDraftInv ==
  ASSUME ContractsInv, NEW r \in Requests, CreateDraft(r)
  PROVE  ContractsInv'
  <1>1. PICK c \in InState("NONE"), t \in Terms :
          contract' = [contract EXCEPT ![c] = Draft(t)] /\ Wrote(r, {c}, Free)
    BY DEF CreateDraft
  <1>2. ContractRows'
    BY <1>1, Drafted DEF ContractsInv, ContractRows, InState
  <1>3. \A x \in ContractIds : contract'[x] = contract[x] \/ (x = c /\ contract[x].status = "NONE")
    BY <1>1 DEF ContractsInv, ContractRows, InState
  <1>4. SignaturesStay /\ OnlyContracts({c})
    BY <1>3 DEF SignaturesStay, OnlyContracts
  <1> QED
    BY <1>1, <1>2, <1>4, ContractsWrote

LEMMA UpdateWriteInv ==
  ASSUME ContractsInv, NEW r \in Requests, UpdateWrite(r)
  PROVE  /\ ContractsInv'
         /\ request[r].fresh =>
              \A c \in ContractIds : contract'[c] = contract[c] \/ contract[c].status = "DRAFT"
         /\ \A c \in ContractIds : contract'[c].status = contract[c].status
  <1> DEFINE k == request[r]
             row == contract[k.id]
  <1>1. /\ contract' = [contract EXCEPT ![k.id] = [row EXCEPT !.terms = k.terms, !.mine = row.mine \/ k.mine,
                                                           !.coop = row.coop \/ k.coop]]
        /\ Wrote(r, {k.id}, Free) /\ k.op = "update"
    BY DEF UpdateWrite, ContractsInv, ContractRows
  <1>2. /\ k.id \in ContractIds /\ row.status # "NONE" /\ k.terms \in Terms
        /\ k.mine \in BOOLEAN /\ k.coop \in BOOLEAN
        /\ k.fresh => row.status = "DRAFT"
    BY <1>1 DEF ContractsInv, ContractNamed, ContractSeen
  <1>3. row \in Contract
    BY <1>2 DEF ContractsInv, ContractRows, NoContract
  <1> DEFINE new == [row EXCEPT !.terms = k.terms, !.mine = row.mine \/ k.mine, !.coop = row.coop \/ k.coop]
  <1>4. /\ new \in Contract /\ new.status = row.status
        /\ row.mine = TRUE => new.mine = TRUE
        /\ row.coop = TRUE => new.coop = TRUE
    BY <1>2, <1>3 DEF Contract
  <1>5. contract' = [contract EXCEPT ![k.id] = new]
    BY <1>1
  <1> HIDE DEF new
  <1>6. \A c \in ContractIds : contract'[c] = IF c = k.id THEN new ELSE contract[c]
    BY <1>2, <1>5 DEF ContractsInv, ContractRows
  <1>7. ContractRows'
    BY <1>2, <1>4, <1>5, <1>6 DEF ContractsInv, ContractRows, row
  <1>8. SignaturesStay /\ OnlyContracts({k.id})
    BY <1>2, <1>4, <1>6 DEF SignaturesStay, OnlyContracts, row
  <1>9. ContractsInv'
    BY <1>1, <1>7, <1>8, ContractsWrote
  <1> QED
    BY <1>2, <1>4, <1>6, <1>9 DEF row, k

LEMMA ActivateWriteInv ==
  ASSUME ContractsInv, NEW r \in Requests, ActivateWrite(r)
  PROVE  /\ ContractsInv'
         /\ request[r].fresh =>
              \A c \in ContractIds :
                /\ contract[c].status = "SUPERSEDED" => contract'[c] = contract[c]
                /\ contract[c].status = "ACTIVE" => contract'[c].terms = contract[c].terms
  <1> DEFINE k == request[r]
             W == k.prev \union {k.id}
  <1>1. /\ contract' = [c \in ContractIds |->
                          IF c = k.id THEN [contract[c] EXCEPT !.status = "ACTIVE"]
                          ELSE IF c \in k.prev THEN [contract[c] EXCEPT !.status = "SUPERSEDED"]
                          ELSE contract[c]]
        /\ Wrote(r, W, Free) /\ k.op = "activate"
    BY DEF ActivateWrite
  <1>2. /\ k.id \in ContractIds
        /\ contract[k.id].status # "NONE" /\ contract[k.id].mine = TRUE /\ contract[k.id].coop = TRUE
        /\ k.fresh => /\ contract[k.id].status = "DRAFT"
                      /\ \A c \in k.prev \intersect ContractIds : contract[c].status = "ACTIVE"
    BY <1>1 DEF ContractsInv, ContractNamed, ContractSeen
  <1>3. \A c \in k.prev \intersect ContractIds : contract[c].status # "NONE"
    BY <1>1 DEF ContractsInv, ContractNamed, ContractSeen
  <1> HIDE DEF k, W
  <1>4. ASSUME NEW c \in ContractIds, NEW s \in {"ACTIVE", "SUPERSEDED"}, contract[c].status # "NONE"
        PROVE  LET new == [contract[c] EXCEPT !.status = s] IN
               /\ new \in Contract /\ new.status = s /\ new.terms = contract[c].terms
               /\ new.mine = contract[c].mine /\ new.coop = contract[c].coop
    <2>1. contract[c] \in Contract
      BY <1>4 DEF ContractsInv, ContractRows, NoContract
    <2> QED
      BY <2>1 DEF Contract
  <1>5. ASSUME NEW c \in ContractIds
        PROVE  /\ contract'[c] \in Contract \union {NoContract}
               /\ contract'[c].status = "ACTIVE" => contract'[c].mine = TRUE /\ contract'[c].coop = TRUE
               /\ contract[c].status # "NONE" =>
                    /\ contract'[c].status # "NONE"
                    /\ contract'[c].mine = contract[c].mine
                    /\ contract'[c].coop = contract[c].coop
                    /\ contract'[c].terms = contract[c].terms
               /\ contract'[c] = contract[c] \/ c \in k.prev \/ c = k.id
    <2>1. CASE c = k.id
      <3>1. contract'[c] = [contract[c] EXCEPT !.status = "ACTIVE"]
        BY <1>1, <2>1
      <3>2. contract[c].status # "NONE" /\ contract[c].mine = TRUE /\ contract[c].coop = TRUE
        BY <1>2, <2>1
      <3>3. /\ contract'[c] \in Contract /\ contract'[c].status = "ACTIVE"
            /\ contract'[c].terms = contract[c].terms
            /\ contract'[c].mine = contract[c].mine /\ contract'[c].coop = contract[c].coop
        BY <1>4, <3>1, <3>2
      <3> QED
        BY <2>1, <3>2, <3>3
    <2>2. CASE c # k.id /\ c \in k.prev
      <3>1. contract'[c] = [contract[c] EXCEPT !.status = "SUPERSEDED"]
        BY <1>1, <2>2
      <3> QED
        BY <1>3, <1>4, <2>2, <3>1
    <2>3. CASE c # k.id /\ c \notin k.prev
      BY <1>1, <2>3 DEF ContractsInv, ContractRows
    <2> QED
      BY <2>1, <2>2, <2>3
  <1>6. ContractRows'
    BY <1>1, <1>5 DEF ContractRows
  <1>7. SignaturesStay /\ OnlyContracts(W)
    BY <1>5 DEF SignaturesStay, OnlyContracts, W
  <1>8. ContractsInv'
    BY <1>1, <1>6, <1>7, ContractsWrote
  <1>9. \A c \in ContractIds : contract[c].status = "ACTIVE" => contract'[c].terms = contract[c].terms
    BY <1>5
  <1>10. k.fresh => \A c \in ContractIds : contract[c].status = "SUPERSEDED" => contract'[c] = contract[c]
    BY <1>2, <1>5
  <1> QED
    BY <1>8, <1>9, <1>10 DEF k

LEMMA AmendWriteInv ==
  ASSUME ContractsInv, NEW r \in Requests, AmendWrite(r)
  PROVE  /\ ContractsInv'
         /\ request[r].fresh =>
              \A c \in ContractIds : contract[c].status = "SUPERSEDED" => contract'[c] = contract[c]
         /\ \A c \in ContractIds :
              /\ contract[c].status = "ACTIVE" => contract'[c].terms = contract[c].terms
              /\ contract'[c].status = "ACTIVE" => contract'[c] = contract[c]
  <1> DEFINE k == request[r]
  <1>1. PICK c \in InState("NONE") :
          /\ contract' = [contract EXCEPT ![k.id].status = "SUPERSEDED", ![c] = Draft(k.terms)]
          /\ Wrote(r, {k.id, c}, Free) /\ k.op = "amend"
    BY DEF AmendWrite
  <1>2. /\ k.id \in ContractIds /\ contract[k.id].status # "NONE" /\ k.terms \in Terms
        /\ k.fresh => contract[k.id].status = "ACTIVE"
    BY <1>1 DEF ContractsInv, ContractNamed, ContractSeen
  <1>3. contract[k.id] \in Contract /\ c \in ContractIds /\ c # k.id /\ contract[c].status = "NONE"
    BY <1>2 DEF ContractsInv, ContractRows, NoContract, InState
  <1> DEFINE old == [contract[k.id] EXCEPT !.status = "SUPERSEDED"]
  <1>4. /\ old \in Contract /\ old.status = "SUPERSEDED" /\ old.terms = contract[k.id].terms
        /\ old.mine = contract[k.id].mine /\ old.coop = contract[k.id].coop
    BY <1>3 DEF Contract
  <1>5. Draft(k.terms) \in Contract /\ Draft(k.terms).status = "DRAFT"
    BY <1>2, Drafted
  <1>6. contract' = [x \in ContractIds |-> IF x = c THEN Draft(k.terms)
                                           ELSE IF x = k.id THEN old ELSE contract[x]]
    BY <1>1, <1>2, <1>3 DEF ContractsInv, ContractRows
  <1> HIDE DEF k, old
  <1>7. ContractRows'
    BY <1>4, <1>5, <1>6 DEF ContractsInv, ContractRows
  <1>8. SignaturesStay /\ OnlyContracts({k.id, c})
    BY <1>3, <1>4, <1>6 DEF SignaturesStay, OnlyContracts
  <1>9. ContractsInv'
    BY <1>1, <1>7, <1>8, ContractsWrote
  <1> QED
    BY <1>2, <1>3, <1>4, <1>5, <1>6, <1>9 DEF k

LEMMA VersionWriteInv ==
  ASSUME ContractsInv, NEW r \in Requests, VersionWrite(r)
  PROVE  /\ ContractsInv'
         /\ \A c \in ContractIds : contract[c].status # "NONE" => contract'[c] = contract[c]
  <1>1. PICK c \in InState("NONE") :
          contract' = [contract EXCEPT ![c] = Draft(request[r].terms)] /\ Wrote(r, {c}, Free)
                       /\ request[r].op = "version"
    BY DEF VersionWrite
  <1>2. request[r].terms \in Terms
    BY <1>1 DEF ContractsInv, ContractNamed
  <1>3. ContractRows'
    BY <1>1, <1>2, Drafted DEF ContractsInv, ContractRows, InState
  <1>4. \A x \in ContractIds : contract'[x] = contract[x] \/ (x = c /\ contract[x].status = "NONE")
    BY <1>1 DEF ContractsInv, ContractRows, InState
  <1>5. \A x \in ContractIds : contract[x].status # "NONE" => contract'[x] = contract[x]
    BY <1>4
  <1>6. SignaturesStay /\ OnlyContracts({c})
    BY <1>4 DEF SignaturesStay, OnlyContracts
  <1> QED
    BY <1>1, <1>3, <1>5, <1>6, ContractsWrote

\* A step keeps the invariant, and what is in force and was.
LEMMA ContractsStep ==
  ASSUME ContractsInv, [ContractsNext]_contractsVars
  PROVE  /\ ContractsInv'
         /\ ~overtaken' => \A c \in ContractIds :
              /\ contract[c].status = "ACTIVE" /\ contract'[c].status = "ACTIVE" =>
                   contract'[c].terms = contract[c].terms
              /\ contract[c].status = "SUPERSEDED" => contract'[c] = contract[c]
  <1>1. CASE UNCHANGED contractsVars
    BY <1>1 DEF contractsVars, handlerVars, ContractsInv, AllRequests, ContractRows
  <1>2. ASSUME NEW r \in Requests, CreateDraft(r)
        PROVE  ContractsInv' /\ \A c \in ContractIds : contract[c].status # "NONE" => contract'[c] = contract[c]
    <2>1. ContractsInv'
      BY <1>2, CreateDraftInv
    <2> QED
      BY <1>2, <2>1 DEF CreateDraft, InState, ContractsInv, ContractRows
  <1>3. ASSUME NEW r \in Requests, UpdateRead(r) \/ ActivateRead(r) \/ AmendRead(r) \/ VersionRead(r)
        PROVE  ContractsInv' /\ contract' = contract
    BY <1>3, ContractsLooks DEF UpdateRead, ActivateRead, AmendRead, VersionRead, ReadsContract
  <1>4. ASSUME NEW r \in Requests, Ends(r, FALSE), UNCHANGED contract
        PROVE  ContractsInv' /\ contract' = contract
    BY <1>4, ContractsEnds
  <1>5. ASSUME NEW r \in Requests, NEW W, Wrote(r, W, Free), ~overtaken'
        PROVE  request[r].fresh
    BY <1>5 DEF Wrote
  <1>6. ASSUME NEW r \in Requests, UpdateWrite(r) \/ ActivateWrite(r) \/ AmendWrite(r) \/ VersionWrite(r), ~overtaken'
        PROVE  request[r].fresh
    BY <1>5, <1>6 DEF UpdateWrite, ActivateWrite, AmendWrite, VersionWrite
  <1> QED
    BY <1>1, <1>2, <1>3, <1>4, <1>6, UpdateWriteInv, ActivateWriteInv, AmendWriteInv, VersionWriteInv DEF ContractsNext

\* The contract in force keeps its terms and has both signatures, and a
\* superseded one is not touched again, however edits, signatures and
\* activations interleave, but for a write over one that was not seen.
THEOREM ContractsStand == ContractsSpec => TermsStand
  <1>1. ContractsInv /\ [ContractsNext]_contractsVars => ContractsInv'
    BY ContractsStep
  <1>2. ContractsInv /\ ContractsInv' /\ [ContractsNext]_contractsVars =>
          [\A c \in ContractIds :
             /\ contract[c].status = "ACTIVE" /\ contract'[c].status = "ACTIVE" =>
                  contract'[c].terms = contract[c].terms \/ overtaken'
             /\ contract[c].status = "SUPERSEDED" => contract'[c] = contract[c] \/ overtaken'
             /\ contract'[c].status = "ACTIVE" => contract'[c].mine /\ contract'[c].coop]_contractsVars
    BY ContractsStep DEF ContractsInv, ContractRows
  <1> QED
    BY <1>1, <1>2, ContractsInvInit, PTL DEF ContractsSpec, TermsStand

-----------------------------------------------------------------------------
(* Rate cards.                                                             *)

\* A card that was activated, whether or not it was replaced since.
Effective(s) == s \in {"ACTIVE", "ARCHIVED"}

\* A card that was never activated has no end.
CardRows == card \in [Cards -> RateCard] /\ \A c \in Cards : ~Effective(card[c].status) => card[c].to = Open

\* An activation in flight has read a card that was drafted, and then those
\* it replaces, which have been activated; a fresh one has read all of them.
ActivationNamed(k) ==
  k.op # "free" =>
    /\ k.op \in {"activateDraft", "activateCard"}
    /\ "draft" \in DOMAIN k /\ k.draft \in k.reads /\ k.reads \subseteq Cards
    /\ card[k.draft].status # "NONE"
    /\ k.op = "activateCard" =>
         /\ k.reads = Cards
         /\ "prev" \in DOMAIN k /\ k.prev \subseteq Cards
         /\ \A p \in k.prev : Effective(card[p].status)

\* A fresh activation has seen its draft, and what it replaces in force.
ActivationSeen(k) ==
  k.fresh /\ k.op # "free" =>
    /\ card[k.draft].status = "DRAFT"
    /\ k.op = "activateCard" => \A p \in k.prev : card[p].status = "ACTIVE"

\* The order in which the cards were last activated: a card that was
\* replaced ends when one of its successors begins.
Succeeded(rank) ==
  \A c \in Cards : card[c].status = "ARCHIVED" =>
    \E e \in Cards : Effective(card[e].status) /\ rank[c] < rank[e] /\ card[e].from = card[c].to

\* Some ranking of the cards is that of their succession.
InOrder == \E rank \in [Cards -> Nat], n \in Nat : (\A c \in Cards : rank[c] < n) /\ Succeeded(rank)

\* The invariant of the rate cards.
RatesInv ==
  /\ AllRequests
  /\ CardRows
  /\ \A r \in Requests : ActivationNamed(request[r]) /\ ActivationSeen(request[r])
  /\ InOrder
  /\ ~overtaken => \A c \in Cards : card[c].status = "ACTIVE" => card[c].to = Open

LEMMA RatesInvInit == RatesInit => RatesInv
  <1> SUFFICES ASSUME RatesInit PROVE RatesInv
    OBVIOUS
  <1>1. AllRequests /\ \A r \in Requests : request[r] = Free
    BY FreeIsRequest DEF RatesInit, HandlersInit, AllRequests
  <1>2. CardRows /\ \A c \in Cards : card[c].status = "NONE"
    BY RatesAssumption DEF RatesInit, CardRows, NoCard, RateCard, Days, Open, Effective
  <1>3. Succeeded([c \in Cards |-> 0])
    BY <1>2 DEF Succeeded
  <1>4. InOrder
    <2>1. [c \in Cards |-> 0] \in [Cards -> Nat] /\ \A c \in Cards : [d \in Cards |-> 0][c] < 1
      OBVIOUS
    <2> QED
      BY <1>3, <2>1 DEF InOrder
  <1> QED
    BY <1>1, <1>2, <1>4 DEF RatesInv, ActivationNamed, ActivationSeen, Free

\* The looks, and who ends.
LEMMA RatesGoes ==
  ASSUME RatesInv, NEW r \in Requests,
         ActivateDraftRead(r) \/ ActivateCardRead(r) \/ (Ends(r, FALSE) /\ UNCHANGED card)
  PROVE  RatesInv'
  <1>1. PICK k : /\ IsRequest(k) /\ ActivationNamed(k) /\ ActivationSeen(k)
                 /\ AllRequests' /\ request'[r] = k
                 /\ \A q \in Requests \ {r} : request'[q] = request[q]
                 /\ overtaken' = overtaken /\ card' = card
    <2>1. CASE ActivateDraftRead(r)
      <3>1. PICK c \in Cards :
              /\ card[c].status = "DRAFT"
              /\ Begins(r, [op |-> "activateDraft", reads |-> {c}, fresh |-> TRUE, draft |-> c])
              /\ UNCHANGED card
        BY <2>1 DEF ActivateDraftRead
      <3> DEFINE k == [op |-> "activateDraft", reads |-> {c}, fresh |-> TRUE, draft |-> c]
      <3>2. IsRequest(k) /\ ActivationNamed(k) /\ ActivationSeen(k)
        BY <3>1 DEF IsRequest, ActivationNamed, ActivationSeen
      <3>3. Goes(r, k) /\ UNCHANGED card
        BY <3>1 DEF Begins
      <3> HIDE DEF k
      <3> QED
        BY <3>2, <3>3, GoesOn DEF RatesInv
    <2>2. CASE ActivateCardRead(r)
      <3> DEFINE c == request[r].draft
                 f == request[r].fresh
                 prev == {p \in Cards \ {c} : card[p].status = "ACTIVE" /\ card[p].coop = card[c].coop}
                 k == [op |-> "activateCard", reads |-> Cards, fresh |-> f, draft |-> c, prev |-> prev]
      <3>1. /\ IsRequest(request[r]) /\ ActivationNamed(request[r]) /\ ActivationSeen(request[r])
            /\ request[r].op = "activateDraft"
        BY <2>2 DEF ActivateCardRead, RatesInv, AllRequests
      <3>2. /\ c \in Cards /\ f \in BOOLEAN /\ card[c].status # "NONE"
            /\ f => card[c].status = "DRAFT"
            /\ \A p \in prev : card[p].status = "ACTIVE" /\ p \in Cards
        BY <3>1 DEF IsRequest, ActivationNamed, ActivationSeen
      <3>3. Goes(r, k) /\ UNCHANGED card
        BY <2>2 DEF ActivateCardRead
      <3> HIDE DEF c, f, prev
      <3>4. IsRequest(k) /\ ActivationNamed(k) /\ ActivationSeen(k)
        BY <3>2 DEF IsRequest, ActivationNamed, ActivationSeen, Effective
      <3> HIDE DEF k
      <3> QED
        BY <3>3, <3>4, GoesOn DEF RatesInv
    <2>3. CASE Ends(r, FALSE) /\ UNCHANGED card
      BY <2>3, EndsHere, FreeIsRequest DEF RatesInv, ActivationNamed, ActivationSeen, Free
    <2> QED
      BY <2>1, <2>2, <2>3
  <1>2. CardRows' /\ \A q \in Requests : ActivationNamed(request[q])' /\ ActivationSeen(request[q])'
    BY <1>1 DEF RatesInv, CardRows, ActivationNamed, ActivationSeen
  <1>3. InOrder'
    BY <1>1 DEF RatesInv, InOrder, Succeeded
  <1> QED
    BY <1>1, <1>2, <1>3 DEF RatesInv

LEMMA CardsAre ==
  ASSUME RatesInv
  PROVE  /\ card = [c \in Cards |-> card[c]]
         /\ \A c \in Cards :
              /\ card[c] \in RateCard
              /\ card[c] = [x \in {"status", "from", "to", "coop"} |-> card[c][x]]
              /\ card[c].from \in Nat /\ card[c].to \in Nat
  BY RatesAssumption DEF RatesInv, CardRows, RateCard, Days, Open

LEMMA RatesDrafts ==
  ASSUME RatesInv, NEW r \in Requests, DraftCard(r)
  PROVE  RatesInv'
  <1>1. PICK c \in Cards, d \in Days, p \in Cooperatives \union {NoCoop} :
          /\ card[c] = NoCard
          /\ card' = [card EXCEPT ![c] = [NoCard EXCEPT !.status = "DRAFT", !.from = d, !.coop = p]]
          /\ Wrote(r, {c}, Free)
    BY DEF DraftCard
  <1>2. /\ card'[c] = [status |-> "DRAFT", from |-> d, to |-> Open, coop |-> p]
        /\ \A e \in Cards \ {c} : card'[e] = card[e]
        /\ card' = [e \in Cards |-> card'[e]]
        /\ card[c].status = "NONE"
    <2>1. [NoCard EXCEPT !.status = "DRAFT", !.from = d, !.coop = p]
            = [status |-> "DRAFT", from |-> d, to |-> Open, coop |-> p]
      <3>1. NoCard = [status |-> "NONE", from |-> 0, to |-> Open, coop |-> NoCoop]
        BY DEF NoCard
      <3> DEFINE F == {"status", "from", "to", "coop"}
                 k == [NoCard EXCEPT !.status = "DRAFT", !.from = d, !.coop = p]
      <3>2. NoCard = [x \in F |-> NoCard[x]] /\ NoCard.to = Open
        BY <3>1
      <3>3. k = [x \in F |-> IF x = "coop" THEN p ELSE IF x = "from" THEN d
                             ELSE IF x = "status" THEN "DRAFT" ELSE NoCard[x]]
        BY <3>2
      <3> HIDE DEF k
      <3> QED
        BY <3>2, <3>3 DEF k
    <2>2. card = [e \in Cards |-> card[e]] /\ card[c].status = "NONE"
      BY <1>1, CardsAre DEF NoCard
    <2> QED
      BY <1>1, <2>1, <2>2
  <1>3. CardRows'
    BY <1>2, RatesAssumption DEF RatesInv, CardRows, RateCard, Open, Days, Effective
  <1>4. /\ AllRequests' /\ request'[r] = Free
        /\ \A q \in Requests \ {r} :
              /\ request'[q].op = request[q].op
              /\ request'[q].reads = request[q].reads
              /\ DOMAIN request'[q] = DOMAIN request[q]
              /\ \A x \in DOMAIN request[q] \ {"fresh"} : request'[q][x] = request[q][x]
              /\ request'[q].fresh =>
                   request'[q] = request[q] /\ request[q].fresh /\ request[q].reads \intersect {c} = {}
        /\ ~overtaken' => ~overtaken
    BY <1>1, WroteOver, FreeIsRequest DEF RatesInv
  <1>5. ASSUME NEW q \in Requests PROVE ActivationNamed(request[q])' /\ ActivationSeen(request[q])'
    <2>1. CASE request'[q].op = "free"
      BY <2>1 DEF ActivationNamed, ActivationSeen
    <2>2. CASE request'[q].op # "free"
      <3>1. q # r
        BY <1>4, <2>2 DEF Free
      <3>2. /\ request'[q].op = request[q].op /\ request'[q].reads = request[q].reads
            /\ DOMAIN request'[q] = DOMAIN request[q]
            /\ \A x \in DOMAIN request[q] \ {"fresh"} : request'[q][x] = request[q][x]
            /\ request'[q].fresh => request[q].fresh
            /\ ActivationNamed(request[q]) /\ ActivationSeen(request[q])
        BY <1>4, <3>1 DEF RatesInv
      <3>3. /\ request'[q].draft = request[q].draft
            /\ request[q].op = "activateCard" => request'[q].prev = request[q].prev
        BY <2>2, <3>2 DEF ActivationNamed
      <3>4. /\ request[q].draft \in Cards \ {c}
            /\ request[q].op = "activateCard" => request[q].prev \subseteq Cards \ {c}
        BY <1>2, <2>2, <3>2 DEF ActivationNamed, Effective
      <3> QED
        BY <1>2, <2>2, <3>2, <3>3, <3>4 DEF ActivationNamed, ActivationSeen
    <2> QED
      BY <2>1, <2>2
  <1>6. InOrder'
    <2>1. PICK rank \in [Cards -> Nat], n \in Nat : (\A e \in Cards : rank[e] < n) /\ Succeeded(rank)
      BY DEF RatesInv, InOrder
    <2>2. Succeeded(rank)'
      BY <1>2, <2>1 DEF Succeeded, Effective
    <2> QED
      BY <2>1, <2>2 DEF InOrder
  <1>7. ~overtaken' => \A e \in Cards : card'[e].status = "ACTIVE" => card'[e].to = Open
    BY <1>2, <1>4 DEF RatesInv
  <1> QED
    BY <1>3, <1>4, <1>5, <1>6, <1>7 DEF RatesInv

\* What an activation does to the cards.
Activates(draft, prev) ==
  /\ draft \in Cards /\ prev \subseteq Cards
  /\ card' = [c \in Cards |-> card'[c]]
  /\ card'[draft] = [card[draft] EXCEPT !.status = "ACTIVE"]
  /\ \A c \in Cards \ {draft} : card'[c] = IF c \in prev THEN Archived(c, card[draft].from) ELSE card[c]

LEMMA ActivatesFields ==
  ASSUME RatesInv, NEW draft, NEW prev, Activates(draft, prev)
  PROVE  /\ CardRows'
         /\ card'[draft].status = "ACTIVE" /\ card'[draft].to = card[draft].to
         /\ \A c \in Cards : card'[c].from = card[c].from
         /\ \A c \in prev \ {draft} : card'[c].status = "ARCHIVED" /\ card'[c].to = card[draft].from
  <1>1. ASSUME NEW c \in Cards
        PROVE  /\ card'[c] \in RateCard
               /\ card'[c].from = card[c].from
               /\ c = draft => card'[c].status = "ACTIVE" /\ card'[c].to = card[c].to
               /\ c \in prev \ {draft} => card'[c].status = "ARCHIVED" /\ card'[c].to = card[draft].from
               /\ ~Effective(card'[c].status) => card'[c].to = Open
    <2>1. CASE c = draft
      BY <2>1, CardsAre DEF Activates, RateCard, Effective
    <2>2. CASE c \in prev \ {draft}
      <3>1. c # draft /\ card'[c] = [card[c] EXCEPT !.status = "ARCHIVED", !.to = card[draft].from]
        BY <2>2 DEF Activates, Archived
      <3>2. card'[c] = [x \in {"status", "from", "to", "coop"} |->
                          IF x = "to" THEN card[draft].from ELSE IF x = "status" THEN "ARCHIVED" ELSE card[c][x]]
        BY <3>1, CardsAre
      <3>3. card[c] \in RateCard /\ card[draft] \in RateCard
        BY CardsAre DEF Activates
      <3> QED
        BY <2>2, <3>2, <3>3 DEF RateCard, Effective
    <2>3. CASE c \notin prev /\ c # draft
      BY <2>3, CardsAre DEF Activates, RateCard, Effective, RatesInv, CardRows
    <2> QED
      BY <2>1, <2>2, <2>3
  <1> QED
    BY <1>1 DEF Activates, CardRows

\* The other activations carry what they have read, and are not fresh if
\* they have read what was written.
LEMMA ActivationWrites ==
  ASSUME RatesInv, NEW r \in Requests, ActivateCardWrite(r)
  PROVE  /\ request[r].op = "activateCard"
         /\ ActivationNamed(request[r]) /\ ActivationSeen(request[r])
         /\ Activates(request[r].draft, request[r].prev)
         /\ AllRequests' /\ request'[r] = Free
         /\ \A q \in Requests \ {r} : request'[q].op # "free" =>
              /\ ActivationNamed(request[q]) /\ ActivationSeen(request[q])
              /\ request'[q].op = request[q].op /\ request'[q].reads = request[q].reads
              /\ DOMAIN request'[q] = DOMAIN request[q]
              /\ request'[q].draft = request[q].draft
              /\ request[q].op = "activateCard" => request'[q].prev = request[q].prev
              /\ request'[q].fresh =>
                   /\ request[q].fresh
                   /\ request[q].reads \intersect (request[r].prev \union {request[r].draft}) = {}
         /\ ~overtaken' => ~overtaken /\ request[r].fresh
  <1> DEFINE k == request[r]
             W == k.prev \union {k.draft}
  <1>1. k.op = "activateCard" /\ ActivationNamed(k) /\ ActivationSeen(k)
    BY DEF ActivateCardWrite, RatesInv
  <1>2. Activates(k.draft, k.prev)
    BY <1>1 DEF ActivateCardWrite, Activates, ActivationNamed
  <1>3. Wrote(r, W, Free)
    BY DEF ActivateCardWrite
  <1> HIDE DEF W
  <1>4. /\ AllRequests' /\ request'[r] = Free
        /\ \A q \in Requests \ {r} :
              /\ request'[q].op = request[q].op
              /\ request'[q].reads = request[q].reads
              /\ DOMAIN request'[q] = DOMAIN request[q]
              /\ \A x \in DOMAIN request[q] \ {"fresh"} : request'[q][x] = request[q][x]
              /\ request'[q].fresh =>
                   request'[q] = request[q] /\ request[q].fresh /\ request[q].reads \intersect W = {}
        /\ ~overtaken' => ~overtaken /\ request[r].fresh
    BY <1>3, WroteOver, FreeIsRequest DEF RatesInv
  <1>5. ASSUME NEW q \in Requests \ {r}, request'[q].op # "free"
        PROVE  /\ ActivationNamed(request[q]) /\ ActivationSeen(request[q])
               /\ request'[q].draft = request[q].draft
               /\ request[q].op = "activateCard" => request'[q].prev = request[q].prev
    <2>1. request[q].op # "free" /\ ActivationNamed(request[q]) /\ ActivationSeen(request[q])
      BY <1>4, <1>5 DEF RatesInv
    <2> QED
      BY <1>4, <2>1 DEF ActivationNamed
  <1> QED
    BY <1>1, <1>2, <1>4, <1>5 DEF W

LEMMA RatesActivates ==
  ASSUME RatesInv, NEW r \in Requests, ActivateCardWrite(r)
  PROVE  RatesInv'
  <1> DEFINE D == request[r].draft
             P == request[r].prev
  <1>1. /\ request[r].op = "activateCard"
        /\ ActivationNamed(request[r]) /\ ActivationSeen(request[r])
        /\ Activates(D, P) /\ AllRequests' /\ request'[r] = Free
        /\ \A q \in Requests \ {r} : request'[q].op # "free" =>
              /\ ActivationNamed(request[q]) /\ ActivationSeen(request[q])
              /\ request'[q].op = request[q].op /\ request'[q].reads = request[q].reads
              /\ DOMAIN request'[q] = DOMAIN request[q]
              /\ request'[q].draft = request[q].draft
              /\ request[q].op = "activateCard" => request'[q].prev = request[q].prev
              /\ request'[q].fresh => request[q].fresh /\ request[q].reads \intersect (P \union {D}) = {}
        /\ ~overtaken' => ~overtaken /\ request[r].fresh
    BY ActivationWrites
  <1>2. /\ D \in Cards /\ P \subseteq Cards
        /\ \A p \in P : Effective(card[p].status)
        /\ card[D].status # "NONE"
        /\ request[r].fresh => card[D].status = "DRAFT"
    BY <1>1 DEF ActivationNamed, ActivationSeen
  <1> HIDE DEF D, P
  <1>3. /\ CardRows'
        /\ card'[D].status = "ACTIVE" /\ card'[D].to = card[D].to
        /\ \A c \in Cards : card'[c].from = card[c].from
        /\ \A c \in P \ {D} : card'[c].status = "ARCHIVED" /\ card'[c].to = card[D].from
        /\ \A c \in Cards : c \notin P /\ c # D => card'[c] = card[c]
    BY <1>1, ActivatesFields DEF Activates
  <1>4. ASSUME NEW q \in Requests PROVE ActivationNamed(request[q])' /\ ActivationSeen(request[q])'
    <2>1. CASE request'[q].op = "free"
      BY <2>1 DEF ActivationNamed, ActivationSeen
    <2>2. CASE request'[q].op # "free"
      <3>1. q # r
        BY <1>1, <2>2 DEF Free
      <3>2. /\ ActivationNamed(request[q]) /\ ActivationSeen(request[q])
            /\ request'[q].op = request[q].op /\ request'[q].reads = request[q].reads
            /\ DOMAIN request'[q] = DOMAIN request[q]
            /\ request'[q].draft = request[q].draft
            /\ request[q].op = "activateCard" => request'[q].prev = request[q].prev
            /\ request'[q].fresh => request[q].fresh /\ request[q].reads \intersect (P \union {D}) = {}
        BY <1>1, <2>2, <3>1
      <3>3. \A c \in Cards : /\ Effective(card[c].status) => Effective(card'[c].status)
                             /\ card[c].status # "NONE" => card'[c].status # "NONE"
        BY <1>2, <1>3 DEF Effective
      <3>4. ActivationNamed(request[q])'
        BY <2>2, <3>2, <3>3 DEF ActivationNamed
      \* What is about to look at the active cards may still be fresh.
      <3>5. ActivationSeen(request[q])'
        <4>1. request'[q].fresh => request[q].op = "activateDraft" /\ request[q].draft \notin P \union {D}
          BY <1>2, <2>2, <3>2 DEF ActivationNamed
        <4> QED
          BY <1>3, <2>2, <3>2, <4>1 DEF ActivationSeen, ActivationNamed
      <3> QED
        BY <3>4, <3>5
    <2> QED
      BY <2>1, <2>2
  <1>5. \A c \in Cards \ {D} : Effective(card'[c].status) <=> Effective(card[c].status)
    BY <1>2, <1>3 DEF Effective
  \* The card that was activated comes last, again or for the first time.
  <1>7. InOrder'
    <2>1. PICK rank \in [Cards -> Nat], n \in Nat : (\A e \in Cards : rank[e] < n) /\ Succeeded(rank)
      BY DEF RatesInv, InOrder
    <2>2. PICK later \in [Cards -> Nat] :
            /\ later[D] = n
            /\ \A c \in Cards : c # D => later[c] = rank[c]
            /\ \A c \in Cards : later[c] < n + 1
      <3> DEFINE f == [rank EXCEPT ![D] = n]
      <3>1. /\ f \in [Cards -> Nat] /\ f[D] = n
            /\ \A c \in Cards : c # D => f[c] = rank[c]
        BY <1>2, <2>1
      <3> HIDE DEF f
      <3>2. \A c \in Cards : f[c] < n + 1
        BY <2>1, <3>1
      <3> QED
        BY <3>1, <3>2
    <2>3. ASSUME NEW c \in Cards, card'[c].status = "ARCHIVED"
          PROVE  \E e \in Cards : Effective(card'[e].status) /\ later[c] < later[e] /\ card'[e].from = card'[c].to
      <3>1. c # D /\ later[c] = rank[c] /\ rank[c] < n
        BY <1>3, <2>1, <2>2, <2>3
      <3>2. CASE c \in P
        BY <1>2, <1>3, <2>2, <3>1, <3>2 DEF Effective
      <3>3. CASE c \notin P
        <4>1. PICK e \in Cards : Effective(card[e].status) /\ rank[c] < rank[e] /\ card[e].from = card[c].to
          BY <1>3, <2>1, <2>3, <3>1, <3>3 DEF Succeeded
        <4>2. Effective(card'[e].status) /\ card'[e].from = card'[c].to
          BY <1>3, <1>5, <3>1, <3>3, <4>1 DEF Effective
        <4> QED
          BY <2>2, <3>1, <4>1, <4>2
      <3> QED
        BY <3>2, <3>3
    <2>4. Succeeded(later)'
      BY <2>3 DEF Succeeded
    <2> QED
      BY <2>1, <2>2, <2>4 DEF InOrder
  <1>8. ~overtaken' => \A c \in Cards : card'[c].status = "ACTIVE" => card'[c].to = Open
    <2> SUFFICES ASSUME ~overtaken', NEW c \in Cards, card'[c].status = "ACTIVE"
                 PROVE  card'[c].to = Open
      OBVIOUS
    <2>1. card[D].status = "DRAFT" /\ ~overtaken
      BY <1>1, <1>2
    <2>2. CASE c = D
      BY <1>2, <1>3, <2>1, <2>2 DEF RatesInv, CardRows, Effective
    <2>3. CASE c # D
      BY <1>3, <2>1, <2>3 DEF RatesInv
    <2> QED
      BY <2>2, <2>3
  <1> QED
    BY <1>1, <1>3, <1>4, <1>7, <1>8 DEF RatesInv

LEMMA RatesInvStep == RatesInv /\ [RatesNext]_ratesVars => RatesInv'
  <1> SUFFICES ASSUME RatesInv, [RatesNext]_ratesVars PROVE RatesInv'
    OBVIOUS
  <1>1. CASE UNCHANGED ratesVars
    BY <1>1 DEF ratesVars, handlerVars, RatesInv, AllRequests, CardRows, ActivationNamed, ActivationSeen,
                InOrder, Succeeded
  <1>2. CASE RatesNext
    BY <1>2, RatesDrafts, RatesGoes, RatesActivates DEF RatesNext
  <1> QED
    BY <1>1, <1>2

LEMMA RatesInvariant == RatesSpec => []RatesInv
  BY RatesInvInit, RatesInvStep, PTL DEF RatesSpec

\* A day after an activated card has begun has a rate, or follows the end of
\* an active card.
LEMMA SomeRate ==
  ASSUME RatesInv, NEW c \in Cards, NEW d \in Days, Effective(card[c].status), card[c].from <= d,
         ~ \E e \in Cards : card[e].status = "ACTIVE" /\ card[e].from <= d /\ card[e].to <= d
  PROVE  RateAt(d) # {}
  <1>1. PICK rank \in [Cards -> Nat], n \in Nat : (\A e \in Cards : rank[e] < n) /\ Succeeded(rank)
    BY DEF RatesInv, InOrder
  <1> DEFINE begun == {e \in Cards : Effective(card[e].status) /\ card[e].from <= d}
             ranks == {rank[e] : e \in begun}
  <1>2. PICK last \in begun : \A e \in begun : rank[e] <= rank[last]
    <2>1. ranks \in SUBSET Nat /\ ranks # {} /\ \A m \in ranks : m <= n
      BY <1>1
    <2> HIDE DEF ranks
    <2>2. PICK m \in ranks : \A k \in ranks : k <= m
      BY <2>1, <1>1, Greatest
    <2> QED
      BY <2>2 DEF ranks
  <1>3. last \in ValidAt(d)
    <2>1. d \in Nat /\ card[last].to \in Nat /\ last \in Cards /\ card[last].from <= d
      BY <1>2, CardsAre, RatesAssumption DEF Days
    <2>2. CASE card[last].status = "ACTIVE"
      <3>1. ~(card[last].to <= d)
        BY <2>1, <2>2
      <3> QED
        BY <2>1, <2>2, <3>1 DEF ValidAt
    <2>3. CASE card[last].status = "ARCHIVED"
      <3>1. PICK e \in Cards : Effective(card[e].status) /\ rank[last] < rank[e] /\ card[e].from = card[last].to
        BY <1>1, <1>2, <2>3 DEF Succeeded
      <3>2. rank[last] \in Nat /\ rank[e] \in Nat
        BY <1>1, <1>2, <3>1
      <3>3. ~(card[e].from <= d)
        BY <1>2, <3>1, <3>2
      <3> QED
        BY <2>1, <2>3, <3>1, <3>3 DEF ValidAt
    <2> QED
      BY <1>2, <2>2, <2>3 DEF Effective
  <1> DEFINE froms == {card[x].from : x \in ValidAt(d)}
  <1>4. PICK x \in ValidAt(d) : \A y \in ValidAt(d) : card[y].from <= card[x].from
    <2>1. froms \in SUBSET Nat /\ froms # {} /\ \A m \in froms : m <= d
      <3>1. card[last].from \in froms
        BY <1>3
      <3>2. \A x \in ValidAt(d) : card[x].from \in Nat /\ card[x].from <= d
        BY CardsAre DEF ValidAt
      <3> QED
        BY <3>1, <3>2
    <2> HIDE DEF froms
    <2>2. d \in Nat
      BY RatesAssumption DEF Days
    <2>3. PICK m \in froms : \A k \in froms : k <= m
      BY <2>1, <2>2, Greatest
    <2> QED
      BY <2>3 DEF froms
  <1> QED
    BY <1>4 DEF RateAt

\* However activations overlap and in whatever order their days come, no day
\* from the first one on is left without a rate by a card that was replaced:
\* of those that have begun by then, the one that was activated last either
\* still stands or is one that is ACTIVE and yet was ended.
THEOREM DaysHaveRates == RatesSpec => []EveryDayHasRate
  <1>1. RatesInv => EveryDayHasRate
    BY SomeRate, Zenon DEF EveryDayHasRate, Effective
  <1> QED
    BY <1>1, RatesInvariant, PTL

LEMMA RatesStand ==
  ASSUME RatesInv, NEW r \in Requests, ActivateCardWrite(r), ~overtaken', NEW d \in Days,
         ~ \E c \in Cards : card[c].status = "DRAFT" /\ card'[c].status = "ACTIVE" /\ card[c].from <= d
  PROVE  RateAt(d)' = RateAt(d)
  <1> DEFINE D == request[r].draft
             P == request[r].prev
  <1>1. Activates(D, P) /\ card[D].status = "DRAFT" /\ ~overtaken /\ \A p \in P : card[p].status = "ACTIVE"
    BY ActivationWrites DEF ActivationSeen
  <1> HIDE DEF D, P
  <1>2. /\ card'[D].status = "ACTIVE"
        /\ \A c \in Cards : card'[c].from = card[c].from
        /\ \A c \in P \ {D} : card'[c].status = "ARCHIVED" /\ card'[c].to = card[D].from
        /\ \A c \in Cards : c \notin P /\ c # D => card'[c] = card[c]
        /\ D \in Cards /\ P \subseteq Cards
    BY <1>1, ActivatesFields DEF Activates
  <1>3. ~(card[D].from <= d) /\ d < card[D].from /\ d \in Nat /\ d < Open
    BY <1>1, <1>2, CardsAre, RatesAssumption DEF Days, Open
  <1>4. ASSUME NEW c \in Cards PROVE c \in ValidAt(d)' <=> c \in ValidAt(d)
    <2>1. CASE c = D
      BY <1>1, <1>2, <1>3, <2>1 DEF ValidAt
    <2>2. CASE c \in P \ {D}
      <3>1. card[c].status = "ACTIVE" /\ card[c].to = Open
        BY <1>1, <1>2, <2>2 DEF RatesInv
      <3> QED
        BY <1>2, <1>3, <2>2, <3>1 DEF ValidAt
    <2>3. CASE c \notin P /\ c # D
      BY <1>2, <2>3 DEF ValidAt
    <2> QED
      BY <2>1, <2>2, <2>3
  <1>5. ValidAt(d)' = ValidAt(d) /\ ValidAt(d) \subseteq Cards
    BY <1>4 DEF ValidAt
  <1> QED
    BY <1>2, <1>5 DEF RateAt

LEMMA RatesForward ==
  ASSUME RatesInv, [RatesNext]_ratesVars, NEW d \in Days, RateAt(d)' # RateAt(d), ~overtaken'
  PROVE  \E c \in Cards : card[c].status = "DRAFT" /\ card[c]'.status = "ACTIVE" /\ card[c].from <= d
  <1>1. card' # card
    BY DEF RateAt, ValidAt
  <1>2. PICK r \in Requests : DraftCard(r) \/ ActivateCardWrite(r)
    BY <1>1 DEF ratesVars, RatesNext, ActivateDraftRead, ActivateCardRead
  <1>3. CASE DraftCard(r)
    <2>1. PICK c \in Cards, e \in Days, p \in Cooperatives \union {NoCoop} :
            /\ card[c] = NoCard
            /\ card' = [card EXCEPT ![c] = [NoCard EXCEPT !.status = "DRAFT", !.from = e, !.coop = p]]
      BY <1>3 DEF DraftCard
    <2>2. /\ card[c].status = "NONE" /\ card'[c].status = "DRAFT"
          /\ \A x \in Cards \ {c} : card'[x] = card[x]
      BY <2>1, CardsAre DEF NoCard
    <2>3. ValidAt(d)' = ValidAt(d) /\ \A x \in ValidAt(d) : card'[x] = card[x]
      BY <2>2 DEF ValidAt
    <2>4. RateAt(d)' = RateAt(d)
      BY <2>3 DEF RateAt
    <2> QED
      BY <2>4
  <1>4. CASE ActivateCardWrite(r)
    BY <1>4, RatesStand
  <1> QED
    BY <1>2, <1>3, <1>4

\* Activating a card changes the rate of its days only, as long as no
\* activation writes over what it has not seen.
THEOREM EarlierRatesStand == RatesSpec => RatesChangeForward
  <1>1. RatesInv /\ [RatesNext]_ratesVars =>
          [\A d \in Days : RateAt(d)' # RateAt(d) =>
             \/ overtaken'
             \/ \E c \in Cards : card[c].status = "DRAFT" /\ card[c]'.status = "ACTIVE"
                                  /\ card[c].from <= d]_ratesVars
    BY RatesForward
  <1> QED
    BY <1>1, RatesInvariant, PTL DEF RatesSpec, RatesChangeForward

-----------------------------------------------------------------------------
(* Period statement.                                                       *)

\* What a handler carries and has read, fresh or not.
StatementNamed(k) ==
  /\ k.op \notin {"free", "submitTasks", "lockTasks"} => "statement" \in k.reads
  /\ k.op = "total" => "lines" \in k.reads
  /\ k.op \in {"rejectTasks", "rejectStatus", "lock"} => "approvals" \in k.reads
  /\ k.op \in {"edit", "total"} => "total" \in DOMAIN k /\ k.total \in Amounts
  /\ k.op \in {"approve", "approval", "approved"} =>
       /\ {"role", "user", "total"} \subseteq DOMAIN k
       /\ k.role \in StatementRoles /\ k.user \in Users /\ k.total \in Amounts
  /\ k.op = "lock" => "user" \in DOMAIN k /\ k.user \in Users

\* What a fresh one has seen: of the statement st, its lines ln and its
\* approvals ap.
StatementSeen(k, st, ln, ap) ==
  k.fresh =>
    /\ k.op \in {"edit", "sum", "total", "submit"} => st.status = "DRAFT"
    /\ k.op = "total" => k.total = ln
    /\ k.op \in {"approve", "approval", "approved"} =>
         st.status \in {"PENDING_REVIEW", "APPROVED"} /\ k.total = st.total
    /\ k.op = "approveStatus" => st.status = "PENDING_REVIEW"
    /\ k.op \in {"reject", "rejectTasks", "rejectStatus"} => st.status \in {"PENDING_REVIEW", "APPROVED"}
    /\ k.op \in {"rejectTasks", "rejectStatus"} => \A role \in StatementRoles : ap[role] = NoApproval
    /\ k.op = "lock" => /\ st.status = "APPROVED"
                        /\ \A role \in StatementRoles : ap[role] # NoApproval /\ ap[role].user # k.user
    /\ k.op = "pay" => st.status = "LOCKED" /\ ~st.paid

\* The rows have the values of their columns.
StatementShape ==
  /\ statement \in StatementRow
  /\ lines \in Amounts
  /\ approval \in [StatementRoles -> Approval \union {NoApproval}]

\* What holds of the rows in any state, between the writes of a handler too.
RowsAgree ==
  /\ \A role \in ApprovedRoles : approval[role].total = statement.total
  /\ statement.status = "DRAFT" => ApprovedRoles = {}
  /\ statement.status = "LOCKED" => /\ ApprovedRoles = StatementRoles
                                    /\ \A role \in StatementRoles : approval[role].user # statement.lockedBy
  /\ payments = IF statement.paid THEN 1 ELSE 0
  /\ statement.paid => statement.status = "LOCKED"

\* What a handler halfway still owes: the sums, the end of the tasks of a
\* locked statement, the task or the approval of a role.
OwesSum(k) == k.op \in {"sum", "total"}
OwesRole(k, role) ==
  \/ k.op \in {"submitTasks", "rejectTasks", "rejectStatus"}
  \/ k.op = "approval" /\ k.role = role

\* What is owed is owed by a handler that is on its way.
SumsAgree == lines = statement.total \/ \E r \in Requests : OwesSum(request[r])
LockedTasks == (\E r \in Requests : request[r].op = "lockTasks") => statement.status = "LOCKED"
RolesTold ==
  statement.status = "PENDING_REVIEW" =>
    \A role \in StatementRoles \ ApprovedRoles :
      role \in task \/ \E r \in Requests : OwesRole(request[r], role)

\* The invariant of the statement.
StatementInv ==
  /\ AllRequests
  /\ StatementShape
  /\ \A r \in Requests : /\ StatementNamed(request[r])
                         /\ StatementSeen(request[r], statement, lines, approval)
  /\ ~overtaken /\ ~cut => RowsAgree /\ SumsAgree /\ LockedTasks /\ RolesTold

\* A step writes the rows W only.
StatementStill(W) ==
  /\ statement' = statement \/ "statement" \in W
  /\ lines' = lines \/ "lines" \in W
  /\ approval' = approval \/ "approvals" \in W

\* A step of a handler from j to k leaves nothing owed that it does not owe
\* or settle itself.
Settles(j, k) ==
  /\ \/ lines' = statement'.total
     \/ OwesSum(k)
     \/ lines' = lines /\ statement'.total = statement.total /\ ~OwesSum(j)
  /\ k.op = "lockTasks" => statement'.status = "LOCKED"
  /\ statement.status = "LOCKED" => statement'.status = "LOCKED"
  /\ statement'.status = "PENDING_REVIEW" =>
       \A role \in StatementRoles \ ApprovedRoles' :
         \/ role \in task' \/ OwesRole(k, role)
         \/ statement.status = "PENDING_REVIEW" /\ role \notin ApprovedRoles
            /\ (role \in task => role \in task') /\ ~OwesRole(j, role)

LEMMA FreeStatement ==
  ASSUME NEW st, NEW ln, NEW ap PROVE StatementNamed(Free) /\ StatementSeen(Free, st, ln, ap)
  BY DEF Free, StatementNamed, StatementSeen

LEMMA StatementMoves ==
  ASSUME StatementInv, NEW r \in Requests, NEW W, NEW k, IsRequest(k),
         Wrote(r, W, k) \/ (Goes(r, k) /\ W = {}),
         StatementNamed(k), StatementSeen(k, statement', lines', approval'),
         StatementShape', StatementStill(W),
         ~overtaken' /\ ~cut' /\ RowsAgree => RowsAgree' /\ Settles(request[r], k)
  PROVE  StatementInv'
  <1>1. /\ AllRequests'
        /\ request'[r] = k
        /\ \A q \in Requests \ {r} :
              /\ request'[q].op = request[q].op
              /\ request'[q].reads = request[q].reads
              /\ DOMAIN request'[q] = DOMAIN request[q]
              /\ \A x \in DOMAIN request[q] \ {"fresh"} : request'[q][x] = request[q][x]
              /\ request'[q].fresh =>
                   request'[q] = request[q] /\ request[q].fresh /\ request[q].reads \intersect W = {}
        /\ ~overtaken' => ~overtaken
        /\ cut' = cut
    <2>1. CASE Wrote(r, W, k)
      <3>1. cut' = cut
        BY <2>1 DEF Wrote
      <3> QED
        BY <2>1, <3>1, WroteOver DEF StatementInv
    <2>2. CASE Goes(r, k) /\ W = {}
      <3>1. cut' = cut
        BY <2>2 DEF Goes
      <3> QED
        BY <2>2, <3>1, GoesOn DEF StatementInv
    <2> QED
      BY <2>1, <2>2
  <1>2. ASSUME NEW q \in Requests \ {r}
        PROVE  StatementNamed(request'[q])
    BY <1>1 DEF StatementInv, StatementNamed
  <1>3. ASSUME NEW q \in Requests \ {r}
        PROVE  StatementSeen(request'[q], statement', lines', approval')
    <2> SUFFICES ASSUME request'[q].fresh PROVE StatementSeen(request[q], statement', lines', approval')
      BY <1>1 DEF StatementSeen
    <2>1. StatementSeen(request[q], statement, lines, approval) /\ StatementNamed(request[q])
      BY DEF StatementInv
    <2>2. request[q].fresh /\ request[q].reads \intersect W = {}
      BY <1>1
    <2> QED
      BY <2>1, <2>2 DEF StatementSeen, StatementNamed, StatementStill
  <1>4. ASSUME ~overtaken', ~cut'
        PROVE  RowsAgree' /\ SumsAgree' /\ LockedTasks' /\ RolesTold'
    <2>1. RowsAgree /\ SumsAgree /\ LockedTasks /\ RolesTold
      BY <1>1, <1>4 DEF StatementInv
    <2>2. RowsAgree' /\ Settles(request[r], k)
      BY <1>4, <2>1
    <2>3. \A q \in Requests \ {r} : OwesSum(request[q]) => OwesSum(request'[q])
      BY <1>1 DEF OwesSum
    <2>4. \A q \in Requests \ {r}, role \in StatementRoles :
            OwesRole(request[q], role) => OwesRole(request'[q], role)
      BY <1>1 DEF OwesRole, StatementInv, StatementNamed
    <2>5. SumsAgree'
      BY <1>1, <2>1, <2>2, <2>3 DEF SumsAgree, Settles
    <2>6. LockedTasks'
      BY <1>1, <2>1, <2>2 DEF LockedTasks, Settles
    <2>7. RolesTold'
      <3> SUFFICES ASSUME statement'.status = "PENDING_REVIEW", NEW role \in StatementRoles \ ApprovedRoles',
                          role \notin task', ~OwesRole(k, role)
                   PROVE  \E q \in Requests : OwesRole(request'[q], role)
        BY <1>1 DEF RolesTold
      <3>1. /\ statement.status = "PENDING_REVIEW" /\ role \notin ApprovedRoles
            /\ role \notin task /\ ~OwesRole(request[r], role)
        BY <2>2 DEF Settles
      <3>2. PICK q \in Requests : OwesRole(request[q], role)
        BY <2>1, <3>1 DEF RolesTold
      <3> QED
        BY <2>4, <3>1, <3>2
    <2> QED
      BY <2>2, <2>5, <2>6, <2>7
  <1> QED
    BY <1>1, <1>2, <1>3, <1>4 DEF StatementInv

\* A handler that ends between two of its writes is not spoken of any more.
LEMMA StatementEnds ==
  ASSUME StatementInv, NEW r \in Requests, Ends(r, StatementHalfway(r)), UNCHANGED statementRows
  PROVE  StatementInv'
  <1>1. /\ AllRequests' /\ request'[r] = Free
        /\ \A q \in Requests \ {r} : request'[q] = request[q]
        /\ overtaken' = overtaken
    BY EndsHere DEF StatementInv
  <1>2. UNCHANGED <<statement, lines, approval, task, payments>>
    BY DEF statementRows
  <1>3. ~cut' => /\ ~cut /\ ~OwesSum(request[r])
                 /\ \A role \in StatementRoles : ~OwesRole(request[r], role)
    BY DEF Ends, StatementHalfway, OwesSum, OwesRole
  <1>4. ASSUME ~overtaken', ~cut'
        PROVE  RowsAgree' /\ SumsAgree' /\ LockedTasks' /\ RolesTold'
    <2>1. RowsAgree /\ SumsAgree /\ LockedTasks /\ RolesTold
      BY <1>1, <1>3, <1>4 DEF StatementInv
    <2>2. RowsAgree' /\ ApprovedRoles' = ApprovedRoles
      BY <1>2, <2>1 DEF RowsAgree, ApprovedRoles
    <2>3. SumsAgree'
      BY <1>1, <1>2, <1>3, <1>4, <2>1 DEF SumsAgree
    <2>4. LockedTasks'
      BY <1>1, <1>2, <2>1 DEF LockedTasks, Free
    <2>5. RolesTold'
      BY <1>1, <1>2, <1>3, <1>4, <2>1, <2>2 DEF RolesTold
    <2> QED
      BY <2>2, <2>3, <2>4, <2>5
  <1> QED
    BY <1>1, <1>2, <1>4, FreeStatement DEF StatementInv, StatementShape

LEMMA StatementInvInit == StatementInit => StatementInv
  <1> SUFFICES ASSUME StatementInit PROVE StatementInv
    OBVIOUS
  <1>1. AllRequests /\ \A r \in Requests : request[r] = Free
    BY FreeIsRequest DEF StatementInit, HandlersInit, AllRequests
  <1>2. PICK a \in Amounts :
          /\ statement = [status |-> "DRAFT", total |-> a, paid |-> FALSE, lockedBy |-> NoUser]
          /\ lines = a
    BY DEF StatementInit
  <1>3. approval = [role \in StatementRoles |-> NoApproval] /\ payments = 0
    BY DEF StatementInit
  <1>4. StatementShape
    BY <1>2, <1>3 DEF StatementShape, StatementRow, StatementStatus
  <1>5. RowsAgree /\ SumsAgree /\ LockedTasks /\ RolesTold
    BY <1>1, <1>2, <1>3 DEF RowsAgree, ApprovedRoles, SumsAgree, LockedTasks, RolesTold, Free
  <1> QED
    BY <1>1, <1>4, <1>5, FreeStatement DEF StatementInv

\* A handler that begins, as k, and has written nothing.
LEMMA StatementBegins ==
  ASSUME StatementInv, NEW r \in Requests, NEW k, IsRequest(k), ReadsStatement(r, k),
         StatementNamed(k), StatementSeen(k, statement, lines, approval), k.op # "lockTasks"
  PROVE  StatementInv'
  <1>1. /\ Goes(r, k) /\ request[r].op = "free"
        /\ UNCHANGED <<statement, lines, approval, task, payments>>
    BY DEF ReadsStatement, Begins, statementRows
  <1>2. Settles(request[r], k)
    BY <1>1 DEF Settles, OwesSum, OwesRole, ApprovedRoles
  <1>3. StatementShape' /\ StatementStill({}) /\ (RowsAgree => RowsAgree')
    BY <1>1 DEF StatementInv, StatementShape, StatementStill, RowsAgree, ApprovedRoles
  <1> QED
    BY <1>1, <1>2, <1>3, StatementMoves

LEMMA StatementLooks ==
  ASSUME StatementInv, NEW r \in Requests,
         EditRead(r) \/ SubmitRead(r) \/ ApprovalRead(r) \/ RejectionRead(r) \/ LockRead(r) \/ PayRead(r)
  PROVE  StatementInv'
  <1>1. CASE EditRead(r)
    <2>1. PICK a \in Amounts :
            ReadsStatement(r, [op |-> "edit", reads |-> {"statement"}, fresh |-> TRUE, total |-> a])
      BY <1>1 DEF EditRead
    <2> DEFINE k == [op |-> "edit", reads |-> {"statement"}, fresh |-> TRUE, total |-> a]
    <2>2. IsRequest(k) /\ StatementNamed(k) /\ StatementSeen(k, statement, lines, approval)
      BY <1>1 DEF EditRead, IsRequest, StatementNamed, StatementSeen
    <2> QED
      BY <2>1, <2>2, StatementBegins
  <1>2. CASE SubmitRead(r)
    <2> DEFINE k == Read("submit", {"statement"})
    <2>1. IsRequest(k) /\ StatementNamed(k) /\ StatementSeen(k, statement, lines, approval) /\ k.op = "submit"
      BY <1>2 DEF SubmitRead, Read, IsRequest, StatementNamed, StatementSeen
    <2> QED
      BY <1>2, <2>1, StatementBegins DEF SubmitRead
  <1>3. CASE ApprovalRead(r)
    <2>1. PICK role \in StatementRoles, u \in Users :
            ReadsStatement(r, [op |-> "approve", reads |-> {"statement"}, fresh |-> TRUE,
                               role |-> role, user |-> u, total |-> statement.total])
      BY <1>3 DEF ApprovalRead
    <2> DEFINE k == [op |-> "approve", reads |-> {"statement"}, fresh |-> TRUE,
                     role |-> role, user |-> u, total |-> statement.total]
    <2>2. statement.total \in Amounts
      BY DEF StatementInv, StatementShape, StatementRow
    <2>3. IsRequest(k) /\ StatementNamed(k) /\ StatementSeen(k, statement, lines, approval)
      BY <1>3, <2>2 DEF ApprovalRead, IsRequest, StatementNamed, StatementSeen
    <2> QED
      BY <2>1, <2>3, StatementBegins
  <1>4. CASE RejectionRead(r)
    <2> DEFINE k == Read("reject", {"statement"})
    <2>1. IsRequest(k) /\ StatementNamed(k) /\ StatementSeen(k, statement, lines, approval) /\ k.op = "reject"
      BY <1>4 DEF RejectionRead, Read, IsRequest, StatementNamed, StatementSeen
    <2> QED
      BY <1>4, <2>1, StatementBegins DEF RejectionRead
  <1>5. CASE LockRead(r)
    <2>1. PICK u \in Users \ {approval[role].user : role \in StatementRoles} :
            ReadsStatement(r, [op |-> "lock", reads |-> {"statement", "approvals"}, fresh |-> TRUE, user |-> u])
      BY <1>5 DEF LockRead
    <2> DEFINE k == [op |-> "lock", reads |-> {"statement", "approvals"}, fresh |-> TRUE, user |-> u]
    <2>2. \A role \in StatementRoles : approval[role] # NoApproval /\ approval[role].user # u
      BY <1>5 DEF LockRead, AllApproved, ApprovedRoles
    <2>3. IsRequest(k) /\ StatementNamed(k) /\ StatementSeen(k, statement, lines, approval)
      BY <1>5, <2>2 DEF LockRead, IsRequest, StatementNamed, StatementSeen
    <2> QED
      BY <2>1, <2>3, StatementBegins
  <1>6. CASE PayRead(r)
    <2> DEFINE k == Read("pay", {"statement"})
    <2>1. IsRequest(k) /\ StatementNamed(k) /\ StatementSeen(k, statement, lines, approval) /\ k.op = "pay"
      BY <1>6 DEF PayRead, Read, IsRequest, StatementNamed, StatementSeen
    <2> QED
      BY <1>6, <2>1, StatementBegins DEF PayRead
  <1> QED
    BY <1>1, <1>2, <1>3, <1>4, <1>5, <1>6

\* A line, then the sums.
LEMMA EditInv ==
  ASSUME StatementInv, NEW r \in Requests, EditLine(r) \/ EditSum(r) \/ EditTotal(r)
  PROVE  StatementInv'
  <1>1. /\ StatementNamed(request[r]) /\ StatementSeen(request[r], statement, lines, approval)
        /\ IsRequest(request[r]) /\ StatementShape
    BY DEF StatementInv, AllRequests
  <1>2. CASE EditLine(r)
    <2> DEFINE k == [op |-> "sum", reads |-> {"statement"}, fresh |-> request[r].fresh]
    <2>1. /\ request[r].op = "edit" /\ lines' \in Amounts
          /\ Wrote(r, {"lines"}, k) /\ UNCHANGED <<statement, approval, task, payments>>
      BY <1>1, <1>2 DEF EditLine, StatementNamed
    <2>2. IsRequest(k) /\ StatementNamed(k) /\ StatementSeen(k, statement', lines', approval')
      BY <1>1, <2>1 DEF IsRequest, StatementNamed, StatementSeen
    <2>3. Settles(request[r], k)
      BY <2>1 DEF Settles, OwesSum, OwesRole, ApprovedRoles
    <2> HIDE DEF k
    <2>4. StatementShape' /\ StatementStill({"lines"}) /\ (RowsAgree => RowsAgree')
      BY <1>1, <2>1 DEF StatementShape, StatementStill, RowsAgree, ApprovedRoles
    <2> QED
      BY <2>1, <2>2, <2>3, <2>4, StatementMoves
  <1>3. CASE EditSum(r)
    <2> DEFINE k == [op |-> "total", reads |-> {"statement", "lines"}, fresh |-> request[r].fresh, total |-> lines]
    <2>1. /\ request[r].op = "sum" /\ Goes(r, k)
          /\ UNCHANGED <<statement, lines, approval, task, payments>>
      BY <1>3 DEF EditSum, statementRows
    <2>2. IsRequest(k) /\ StatementNamed(k) /\ StatementSeen(k, statement', lines', approval')
      BY <1>1, <2>1 DEF IsRequest, StatementNamed, StatementSeen, StatementShape
    <2>3. Settles(request[r], k)
      BY <2>1 DEF Settles, OwesSum, OwesRole, ApprovedRoles
    <2> HIDE DEF k
    <2>4. StatementShape' /\ StatementStill({}) /\ (RowsAgree => RowsAgree')
      BY <1>1, <2>1 DEF StatementShape, StatementStill, RowsAgree, ApprovedRoles
    <2> QED
      BY <2>1, <2>2, <2>3, <2>4, StatementMoves
  <1>4. CASE EditTotal(r)
    <2>1. /\ request[r].op = "total" /\ request[r].total \in Amounts
          /\ statement' = [statement EXCEPT !.total = request[r].total]
          /\ Wrote(r, {"statement"}, Free) /\ UNCHANGED <<lines, approval, task, payments>>
      BY <1>1, <1>4 DEF EditTotal, StatementNamed
    <2>2. /\ statement' \in StatementRow /\ statement'.total = request[r].total
          /\ statement'.status = statement.status /\ statement'.paid = statement.paid
          /\ statement'.lockedBy = statement.lockedBy
      BY <1>1, <2>1 DEF StatementShape, StatementRow
    <2>3. StatementShape' /\ StatementStill({"statement"})
      BY <1>1, <2>1, <2>2 DEF StatementShape, StatementStill
    <2>4. ASSUME ~overtaken', RowsAgree PROVE RowsAgree' /\ Settles(request[r], Free)
      <3>1. request[r].fresh
        BY <2>1, <2>4 DEF Wrote
      <3>2. statement.status = "DRAFT" /\ lines' = statement'.total
        BY <1>1, <2>1, <2>2, <3>1 DEF StatementSeen
      <3>3. RowsAgree'
        BY <2>1, <2>2, <2>4, <3>2 DEF RowsAgree, ApprovedRoles
      <3> QED
        BY <2>2, <3>2, <3>3 DEF Settles, Free
    <2> QED
      BY <2>1, <2>3, <2>4, FreeStatement, FreeIsRequest, StatementMoves
  <1> QED
    BY <1>2, <1>3, <1>4

\* The statement gets another status, perhaps a user who locked it.
LEMMA StatusBecomes ==
  ASSUME StatementInv, NEW status \in StatementStatus, NEW user \in Users \union {NoUser},
         statement' = [statement EXCEPT !.status = status, !.lockedBy = user],
         UNCHANGED <<lines, approval>>
  PROVE  /\ StatementShape' /\ StatementStill({"statement"})
         /\ statement'.status = status /\ statement'.lockedBy = user
         /\ statement'.total = statement.total /\ statement'.paid = statement.paid
  BY DEF StatementInv, StatementShape, StatementRow, StatementStill

LEMMA SameLocker ==
  ASSUME StatementInv, NEW status
  PROVE  /\ [statement EXCEPT !.status = status] = [statement EXCEPT !.status = status, !.lockedBy = statement.lockedBy]
         /\ statement.lockedBy \in Users \union {NoUser}
  BY DEF StatementInv, StatementShape, StatementRow

LEMMA SubmitInv ==
  ASSUME StatementInv, NEW r \in Requests, SubmitStatus(r) \/ SubmitTasks(r)
  PROVE  StatementInv'
  <1>1. CASE SubmitStatus(r)
    <2> DEFINE k == Read("submitTasks", {})
    <2>1. /\ request[r].op = "submit" /\ Wrote(r, {"statement"}, k)
          /\ UNCHANGED <<lines, approval, task, payments>>
          /\ statement' = [statement EXCEPT !.status = "PENDING_REVIEW", !.lockedBy = statement.lockedBy]
          /\ statement.lockedBy \in Users \union {NoUser}
      BY <1>1, SameLocker DEF SubmitStatus
    <2>2. /\ StatementShape' /\ StatementStill({"statement"})
          /\ statement'.status = "PENDING_REVIEW" /\ statement'.total = statement.total
          /\ statement'.paid = statement.paid
      BY <2>1, StatusBecomes DEF StatementStatus
    <2>3. k.op = "submitTasks" /\ IsRequest(k) /\ StatementNamed(k) /\ StatementSeen(k, statement', lines', approval')
      BY DEF Read, IsRequest, StatementNamed, StatementSeen
    <2> HIDE DEF k
    <2>4. ASSUME ~overtaken', RowsAgree PROVE RowsAgree' /\ Settles(request[r], k)
      <3>1. statement.status = "DRAFT"
        BY <2>1, <2>4 DEF Wrote, StatementInv, StatementSeen
      <3>2. RowsAgree'
        BY <2>1, <2>2, <2>4, <3>1 DEF RowsAgree, ApprovedRoles
      <3>3. Settles(request[r], k)
        BY <2>1, <2>2, <2>3, <3>1 DEF Settles, OwesSum, OwesRole
      <3> QED
        BY <3>2, <3>3
    <2> QED
      BY <2>1, <2>2, <2>3, <2>4, StatementMoves
  <1>2. CASE SubmitTasks(r)
    <2>1. /\ request[r].op = "submitTasks" /\ Goes(r, Free) /\ task' = StatementRoles
          /\ UNCHANGED <<statement, lines, approval, payments>>
      BY <1>2 DEF SubmitTasks
    <2>2. Settles(request[r], Free)
      BY <2>1 DEF Settles, OwesSum, Free, ApprovedRoles
    <2>3. StatementShape' /\ StatementStill({}) /\ (RowsAgree => RowsAgree')
      BY <2>1 DEF StatementInv, StatementShape, StatementStill, RowsAgree, ApprovedRoles
    <2> QED
      BY <2>1, <2>2, <2>3, FreeStatement, FreeIsRequest, StatementMoves
  <1> QED
    BY <1>1, <1>2

\* An approval is none that is missing.
LEMMA ApprovalIsThere ==
  ASSUME NEW u, NEW a PROVE [user |-> u, total |-> a] # NoApproval
  <1> DEFINE x == [user |-> u, total |-> a]
  <1>1. "total" \in DOMAIN x
    OBVIOUS
  <1>2. "total" \notin DOMAIN NoApproval
    BY DEF NoApproval
  <1> HIDE DEF x
  <1>3. x # NoApproval
    BY <1>1, <1>2
  <1> QED
    BY <1>3 DEF x

LEMMA ApprovalTaskInv ==
  ASSUME StatementInv, NEW r \in Requests, ApprovalTask(r)
  PROVE  StatementInv'
  <1> DEFINE k == [request[r] EXCEPT !.op = "approval"]
  <1>1. /\ StatementNamed(request[r]) /\ StatementSeen(request[r], statement, lines, approval)
        /\ IsRequest(request[r]) /\ request[r].op = "approve"
    BY DEF StatementInv, AllRequests, ApprovalTask
  <1>2. /\ Wrote(r, {}, k) /\ task' = task \ {request[r].role}
        /\ UNCHANGED <<statement, lines, approval, payments>>
    BY DEF ApprovalTask
  <1>3. /\ IsRequest(k) /\ k.op = "approval" /\ k.fresh = request[r].fresh /\ DOMAIN k = DOMAIN request[r]
        /\ \A x \in DOMAIN request[r] \ {"op"} : k[x] = request[r][x]
    BY <1>1, OtherOp
  <1> HIDE DEF k
  <1>4. /\ k.role = request[r].role /\ k.user = request[r].user /\ k.total = request[r].total
        /\ k.reads = request[r].reads
    BY <1>1, <1>3 DEF StatementNamed, IsRequest
  <1>5. StatementNamed(k) /\ StatementSeen(k, statement', lines', approval')
    BY <1>1, <1>2, <1>3, <1>4 DEF StatementNamed, StatementSeen
  <1>6. Settles(request[r], k)
    BY <1>1, <1>2, <1>3, <1>4 DEF Settles, OwesSum, OwesRole, ApprovedRoles
  <1>7. StatementShape' /\ StatementStill({}) /\ (RowsAgree => RowsAgree')
    BY <1>2 DEF StatementInv, StatementShape, StatementStill, RowsAgree, ApprovedRoles
  <1> QED
    BY <1>2, <1>3, <1>5, <1>6, <1>7, StatementMoves

LEMMA ApprovalStoreInv ==
  ASSUME StatementInv, NEW r \in Requests, ApprovalStore(r)
  PROVE  StatementInv'
  <1> DEFINE k == [request[r] EXCEPT !.op = "approved"]
             row == [user |-> request[r].user, total |-> request[r].total]
  <1>1. /\ StatementNamed(request[r]) /\ StatementSeen(request[r], statement, lines, approval)
        /\ IsRequest(request[r]) /\ request[r].op = "approval" /\ StatementShape
    BY DEF StatementInv, AllRequests, ApprovalStore
  <1>2. /\ Wrote(r, {"approvals"}, k) /\ approval' = [approval EXCEPT ![request[r].role] = row]
        /\ UNCHANGED <<statement, lines, task, payments>>
        /\ request[r].role \in StatementRoles /\ row \in Approval
    BY <1>1 DEF ApprovalStore, StatementNamed, Approval
  <1>3. /\ IsRequest(k) /\ k.op = "approved" /\ k.fresh = request[r].fresh /\ DOMAIN k = DOMAIN request[r]
        /\ \A x \in DOMAIN request[r] \ {"op"} : k[x] = request[r][x]
    BY <1>1, OtherOp
  <1> HIDE DEF k
  <1>4. /\ k.role = request[r].role /\ k.user = request[r].user /\ k.total = request[r].total
        /\ k.reads = request[r].reads
    BY <1>1, <1>3 DEF StatementNamed, IsRequest
  <1>5. StatementNamed(k) /\ StatementSeen(k, statement', lines', approval')
    BY <1>1, <1>2, <1>3, <1>4 DEF StatementNamed, StatementSeen
  <1>6. /\ approval'[request[r].role] = row /\ row # NoApproval
        /\ \A x \in StatementRoles \ {request[r].role} : approval'[x] = approval[x]
    BY <1>1, <1>2, ApprovalIsThere DEF StatementShape
  <1>7. ApprovedRoles' = ApprovedRoles \union {request[r].role}
    BY <1>2, <1>6 DEF ApprovedRoles
  <1>8. StatementShape' /\ StatementStill({"approvals"})
    BY <1>1, <1>2 DEF StatementShape, StatementStill
  <1>9. ASSUME ~overtaken', RowsAgree PROVE RowsAgree' /\ Settles(request[r], k)
    <2>1. statement.status \in {"PENDING_REVIEW", "APPROVED"} /\ request[r].total = statement.total
      BY <1>1, <1>2, <1>9 DEF Wrote, StatementSeen
    <2>2. \A role \in ApprovedRoles' : approval'[role].total = statement.total
      BY <1>6, <1>7, <1>9, <2>1 DEF RowsAgree, ApprovedRoles
    <2>3. RowsAgree'
      BY <1>2, <1>9, <2>1, <2>2 DEF RowsAgree
    <2>4. Settles(request[r], k)
      BY <1>1, <1>2, <1>3, <1>7 DEF Settles, OwesSum, OwesRole
    <2> QED
      BY <2>3, <2>4
  <1> QED
    BY <1>2, <1>3, <1>5, <1>8, <1>9, StatementMoves

LEMMA ApprovalCountInv ==
  ASSUME StatementInv, NEW r \in Requests, ApprovalCount(r)
  PROVE  StatementInv'
  <1> DEFINE j == [op |-> "approveStatus", reads |-> {"statement", "approvals"}, fresh |-> request[r].fresh]
             again == AllApproved /\ statement.status # "APPROVED"
             k == IF again THEN j ELSE Free
  <1>1. /\ StatementSeen(request[r], statement, lines, approval)
        /\ IsRequest(request[r]) /\ request[r].op = "approved"
        /\ Goes(r, k) /\ UNCHANGED <<statement, lines, approval, task, payments>>
    BY DEF StatementInv, AllRequests, ApprovalCount, statementRows
  <1>2. again => StatementSeen(j, statement', lines', approval')
    BY <1>1 DEF StatementSeen
  <1>3. IsRequest(j) /\ StatementNamed(j)
    BY <1>1 DEF IsRequest, StatementNamed
  <1>4. Settles(request[r], j) /\ Settles(request[r], Free)
    BY <1>1 DEF Settles, OwesSum, OwesRole, Free, ApprovedRoles
  <1> HIDE DEF j, again
  <1>5. IsRequest(k) /\ StatementNamed(k) /\ StatementSeen(k, statement', lines', approval') /\ Settles(request[r], k)
    BY <1>2, <1>3, <1>4, FreeIsRequest, FreeStatement
  <1> HIDE DEF k
  <1>6. StatementShape' /\ StatementStill({}) /\ (RowsAgree => RowsAgree')
    BY <1>1 DEF StatementInv, StatementShape, StatementStill, RowsAgree, ApprovedRoles
  <1> QED
    BY <1>1, <1>5, <1>6, StatementMoves

LEMMA ApprovalApprovesInv ==
  ASSUME StatementInv, NEW r \in Requests, ApprovalApproves(r)
  PROVE  StatementInv'
  <1>1. /\ request[r].op = "approveStatus" /\ Wrote(r, {"statement"}, Free)
        /\ UNCHANGED <<lines, approval, task, payments>>
        /\ statement' = [statement EXCEPT !.status = "APPROVED", !.lockedBy = statement.lockedBy]
        /\ statement.lockedBy \in Users \union {NoUser}
    BY SameLocker DEF ApprovalApproves
  <1>2. /\ StatementShape' /\ StatementStill({"statement"})
        /\ statement'.status = "APPROVED" /\ statement'.total = statement.total
        /\ statement'.paid = statement.paid
    BY <1>1, StatusBecomes DEF StatementStatus
  <1>3. ASSUME ~overtaken', RowsAgree PROVE RowsAgree' /\ Settles(request[r], Free)
    <2>1. statement.status = "PENDING_REVIEW"
      BY <1>1, <1>3 DEF Wrote, StatementInv, StatementSeen
    <2>2. RowsAgree'
      BY <1>1, <1>2, <1>3, <2>1 DEF RowsAgree, ApprovedRoles
    <2> QED
      BY <1>1, <1>2, <2>1, <2>2 DEF Settles, OwesSum, Free
  <1> QED
    BY <1>1, <1>2, <1>3, FreeIsRequest, FreeStatement, StatementMoves

\* The approvals go first, then the tasks.
LEMMA RejectionApprovalsInv ==
  ASSUME StatementInv, NEW r \in Requests, RejectionApprovals(r)
  PROVE  StatementInv'
  <1> DEFINE reads == request[r].reads \union {"approvals"}
             k == [request[r] EXCEPT !.op = "rejectTasks", !.reads = reads]
  <1>1. /\ StatementNamed(request[r]) /\ StatementSeen(request[r], statement, lines, approval)
        /\ IsRequest(request[r]) /\ request[r].op = "reject" /\ StatementShape
    BY DEF StatementInv, AllRequests, RejectionApprovals
  <1>2. /\ Wrote(r, {"approvals"}, k) /\ approval' = [role \in StatementRoles |-> NoApproval]
        /\ UNCHANGED <<statement, lines, task, payments>>
    BY <1>1 DEF RejectionApprovals, IsRequest
  <1>3. k = [x \in DOMAIN request[r] |-> IF x = "reads" THEN reads ELSE IF x = "op" THEN "rejectTasks" ELSE request[r][x]]
    BY <1>1 DEF IsRequest
  <1>4. IsRequest(k) /\ k.op = "rejectTasks" /\ k.reads = reads /\ k.fresh = request[r].fresh
    BY <1>1, <1>3 DEF IsRequest
  <1> HIDE DEF k
  <1>5. StatementNamed(k) /\ StatementSeen(k, statement', lines', approval')
    BY <1>1, <1>2, <1>4 DEF StatementNamed, StatementSeen
  <1>6. ApprovedRoles' = {}
    BY <1>2 DEF ApprovedRoles
  <1>7. StatementShape' /\ StatementStill({"approvals"})
    BY <1>1, <1>2 DEF StatementShape, StatementStill
  <1>8. ASSUME ~overtaken', RowsAgree PROVE RowsAgree' /\ Settles(request[r], k)
    <2>1. statement.status \in {"PENDING_REVIEW", "APPROVED"}
      BY <1>1, <1>2, <1>8 DEF Wrote, StatementSeen
    <2>2. RowsAgree'
      BY <1>2, <1>6, <1>8, <2>1 DEF RowsAgree
    <2>3. Settles(request[r], k)
      BY <1>1, <1>2, <1>4 DEF Settles, OwesSum, OwesRole
    <2> QED
      BY <2>2, <2>3
  <1> QED
    BY <1>2, <1>4, <1>5, <1>7, <1>8, StatementMoves

LEMMA RejectionTasksInv ==
  ASSUME StatementInv, NEW r \in Requests, RejectionTasks(r)
  PROVE  StatementInv'
  <1> DEFINE k == [request[r] EXCEPT !.op = "rejectStatus"]
  <1>1. /\ StatementNamed(request[r]) /\ StatementSeen(request[r], statement, lines, approval)
        /\ IsRequest(request[r]) /\ request[r].op = "rejectTasks"
    BY DEF StatementInv, AllRequests, RejectionTasks
  <1>2. Wrote(r, {}, k) /\ task' = {} /\ UNCHANGED <<statement, lines, approval, payments>>
    BY DEF RejectionTasks
  <1>3. /\ IsRequest(k) /\ k.op = "rejectStatus" /\ k.fresh = request[r].fresh
        /\ k.reads = request[r].reads
    BY <1>1, OtherOp DEF IsRequest
  <1> HIDE DEF k
  <1>4. StatementNamed(k) /\ StatementSeen(k, statement', lines', approval')
    BY <1>1, <1>2, <1>3 DEF StatementNamed, StatementSeen
  <1>5. Settles(request[r], k)
    BY <1>1, <1>2, <1>3 DEF Settles, OwesSum, OwesRole
  <1>6. StatementShape' /\ StatementStill({}) /\ (RowsAgree => RowsAgree')
    BY <1>2 DEF StatementInv, StatementShape, StatementStill, RowsAgree, ApprovedRoles
  <1> QED
    BY <1>2, <1>3, <1>4, <1>5, <1>6, StatementMoves

LEMMA RejectionStatusInv ==
  ASSUME StatementInv, NEW r \in Requests, RejectionStatus(r)
  PROVE  StatementInv'
  <1>1. /\ request[r].op = "rejectStatus" /\ Wrote(r, {"statement"}, Free)
        /\ UNCHANGED <<lines, approval, task, payments>>
        /\ statement' = [statement EXCEPT !.status = "DRAFT", !.lockedBy = statement.lockedBy]
        /\ statement.lockedBy \in Users \union {NoUser}
    BY SameLocker DEF RejectionStatus
  <1>2. /\ StatementShape' /\ StatementStill({"statement"})
        /\ statement'.status = "DRAFT" /\ statement'.total = statement.total
        /\ statement'.paid = statement.paid
    BY <1>1, StatusBecomes DEF StatementStatus
  <1>3. ASSUME ~overtaken', RowsAgree PROVE RowsAgree' /\ Settles(request[r], Free)
    <2>1. /\ statement.status \in {"PENDING_REVIEW", "APPROVED"}
          /\ \A role \in StatementRoles : approval[role] = NoApproval
      BY <1>1, <1>3 DEF Wrote, StatementInv, StatementSeen
    <2>2. RowsAgree'
      BY <1>1, <1>2, <1>3, <2>1 DEF RowsAgree, ApprovedRoles
    <2> QED
      BY <1>1, <1>2, <2>1, <2>2 DEF Settles, OwesSum, Free
  <1> QED
    BY <1>1, <1>2, <1>3, FreeIsRequest, FreeStatement, StatementMoves

LEMMA LockInv ==
  ASSUME StatementInv, NEW r \in Requests, LockStatus(r) \/ LockTasks(r)
  PROVE  StatementInv'
  <1>1. CASE LockStatus(r)
    <2> DEFINE k == Read("lockTasks", {})
               u == request[r].user
    <2>1. /\ request[r].op = "lock" /\ Wrote(r, {"statement"}, k) /\ u \in Users
          /\ UNCHANGED <<lines, approval, task, payments>>
          /\ statement' = [statement EXCEPT !.status = "LOCKED", !.lockedBy = u]
      BY <1>1 DEF LockStatus, StatementInv, StatementNamed
    <2>2. /\ StatementShape' /\ StatementStill({"statement"})
          /\ statement'.status = "LOCKED" /\ statement'.lockedBy = u
          /\ statement'.total = statement.total /\ statement'.paid = statement.paid
      BY <2>1, StatusBecomes DEF StatementStatus
    <2>3. k.op = "lockTasks" /\ IsRequest(k) /\ StatementNamed(k) /\ StatementSeen(k, statement', lines', approval')
      BY DEF Read, IsRequest, StatementNamed, StatementSeen
    <2> HIDE DEF k
    <2>4. ASSUME ~overtaken', RowsAgree PROVE RowsAgree' /\ Settles(request[r], k)
      <3>1. \A role \in StatementRoles : approval[role] # NoApproval /\ approval[role].user # u
        BY <2>1, <2>4 DEF Wrote, StatementInv, StatementSeen
      <3>2. RowsAgree'
        BY <2>1, <2>2, <2>4, <3>1 DEF RowsAgree, ApprovedRoles
      <3>3. Settles(request[r], k)
        BY <2>1, <2>2, <2>3 DEF Settles, OwesSum
      <3> QED
        BY <3>2, <3>3
    <2> QED
      BY <2>1, <2>2, <2>3, <2>4, StatementMoves
  <1>2. CASE LockTasks(r)
    <2>1. /\ request[r].op = "lockTasks" /\ Goes(r, Free) /\ task' = {}
          /\ UNCHANGED <<statement, lines, approval, payments>>
      BY <1>2 DEF LockTasks
    <2>2. ~overtaken' /\ ~cut' => Settles(request[r], Free)
      <3> SUFFICES ASSUME ~overtaken', ~cut' PROVE Settles(request[r], Free)
        OBVIOUS
      <3>1. statement.status = "LOCKED"
        BY <2>1 DEF Goes, StatementInv, LockedTasks
      <3> QED
        BY <2>1, <3>1 DEF Settles, OwesSum, Free
    <2>3. StatementShape' /\ StatementStill({}) /\ (RowsAgree => RowsAgree')
      BY <2>1 DEF StatementInv, StatementShape, StatementStill, RowsAgree, ApprovedRoles
    <2> QED
      BY <2>1, <2>2, <2>3, FreeStatement, FreeIsRequest, StatementMoves
  <1> QED
    BY <1>1, <1>2

LEMMA PayWriteInv ==
  ASSUME StatementInv, NEW r \in Requests, PayWrite(r)
  PROVE  StatementInv'
  <1>1. /\ request[r].op = "pay" /\ Wrote(r, {"statement"}, Free)
        /\ statement' = [statement EXCEPT !.paid = TRUE] /\ payments' = payments + 1
        /\ UNCHANGED <<lines, approval, task>> /\ StatementShape
    BY DEF PayWrite, StatementInv
  <1>2. /\ statement' \in StatementRow /\ statement'.paid = TRUE
        /\ statement'.status = statement.status /\ statement'.total = statement.total
        /\ statement'.lockedBy = statement.lockedBy
    BY <1>1 DEF StatementShape, StatementRow
  <1>3. StatementShape' /\ StatementStill({"statement"})
    BY <1>1, <1>2 DEF StatementShape, StatementStill
  <1>4. ASSUME ~overtaken', RowsAgree PROVE RowsAgree' /\ Settles(request[r], Free)
    <2>1. statement.status = "LOCKED" /\ ~statement.paid
      BY <1>1, <1>4 DEF Wrote, StatementInv, StatementSeen
    <2>2. RowsAgree'
      BY <1>1, <1>2, <1>4, <2>1 DEF RowsAgree, ApprovedRoles
    <2> QED
      BY <1>1, <1>2, <2>1, <2>2 DEF Settles, OwesSum, Free
  <1> QED
    BY <1>1, <1>3, <1>4, FreeIsRequest, FreeStatement, StatementMoves

LEMMA StatementStep ==
  ASSUME StatementInv, [StatementNext]_statementVars
  PROVE  StatementInv'
  <1>1. CASE UNCHANGED statementVars
    <2>1. UNCHANGED <<statement, lines, approval, task, payments, request, overtaken, cut>>
      BY <1>1 DEF statementVars, statementRows, handlerVars
    <2> QED
      BY <2>1 DEF StatementInv, AllRequests, StatementShape, RowsAgree, ApprovedRoles, SumsAgree,
         LockedTasks, RolesTold
  <1>2. ASSUME NEW r \in Requests,
               \/ EditLine(r) \/ EditSum(r) \/ EditTotal(r) \/ SubmitStatus(r) \/ SubmitTasks(r)
               \/ ApprovalTask(r) \/ ApprovalStore(r) \/ ApprovalCount(r) \/ ApprovalApproves(r)
               \/ RejectionApprovals(r) \/ RejectionTasks(r) \/ RejectionStatus(r)
               \/ LockStatus(r) \/ LockTasks(r) \/ PayWrite(r)
        PROVE  StatementInv'
    BY <1>2, EditInv, SubmitInv, ApprovalTaskInv, ApprovalStoreInv, ApprovalCountInv, ApprovalApprovesInv,
       RejectionApprovalsInv, RejectionTasksInv, RejectionStatusInv, LockInv, PayWriteInv
  <1> QED
    BY <1>1, <1>2, StatementLooks, StatementEnds DEF StatementNext

LEMMA StatementInvariant == StatementSpec => []StatementInv
  <1>1. StatementInv /\ [StatementNext]_statementVars => StatementInv'
    BY StatementStep
  <1> QED
    BY <1>1, StatementInvInit, PTL DEF StatementSpec

\* What both roles approved is what is locked, by a third user, and paid
\* once, however reviews, rejections, edits and payments interleave.
THEOREM LockedIsApproved == StatementSpec => []LockedAsApproved
  <1>1. StatementInv => LockedAsApproved
    <2> SUFFICES ASSUME StatementInv, Undisturbed PROVE LockedAsApproved
      BY DEF LockedAsApproved
    <2>1. RowsAgree /\ SumsAgree
      BY DEF StatementInv, Undisturbed
    <2>2. lines = statement.total \/ statement.status = "DRAFT"
      BY <2>1 DEF SumsAgree, OwesSum, StatementInv, StatementSeen, Undisturbed
    <2> QED
      BY <2>1, <2>2 DEF RowsAgree, LockedAsApproved
  <1> QED
    BY <1>1, StatementInvariant, PTL

\* In review, a role that has not approved has its task once no handler is
\* halfway.
THEOREM ReviewersAreTold == StatementSpec => []NobodyForgotten
  <1>1. StatementInv => NobodyForgotten
    <2> SUFFICES ASSUME StatementInv, Undisturbed, \A r \in Requests : ~StatementHalfway(r),
                        statement.status = "PENDING_REVIEW", NEW role \in StatementRoles \ ApprovedRoles
                 PROVE  role \in task
      BY DEF NobodyForgotten
    <2>1. role \in task \/ \E r \in Requests : OwesRole(request[r], role)
      BY DEF StatementInv, Undisturbed, RolesTold
    <2> QED
      BY <2>1 DEF OwesRole, StatementHalfway
  <1> QED
    BY <1>1, StatementInvariant, PTL

-----------------------------------------------------------------------------
(* Hourly work logs.                                                       *)

\* What a request of the hourly logs carries, fresh or not.
HourlyNamed(k) ==
  /\ k.op = "start" => k.reads = Logs
  /\ k.op \in {"end", "rejectLog", "verify"} =>
       "log" \in DOMAIN k /\ k.log \in Logs /\ k.log \in k.reads
  /\ k.op = "verify" => /\ {"hours", "rate"} \subseteq DOMAIN k
                        /\ k.hours \in Hours /\ k.rate \in Rates /\ "rate" \in k.reads

\* What a fresh one has seen is so.
HourlySeen(k, rows, rate) ==
  k.fresh =>
    /\ k.op = "start" => \A l \in Logs : rows[l].status # "STARTED"
    /\ k.op = "end" => rows[k.log].status = "STARTED"
    /\ k.op \in {"rejectLog", "verify"} => rows[k.log].status = "ENDED"
    /\ k.op = "verify" => k.hours <= rows[k.log].raw /\ k.rate = rate

\* The rows have the values of their columns.
HourlyShape ==
  /\ hourlyLog \in [Logs -> HourlyLog]
  /\ hourlyRate \in Rates
  /\ hourlyPaid = [l \in Logs |-> hourlyPaid[l]]

\* Nothing is billed or paid before the approval.
PaidRow(log, paid) ==
  /\ paid = IF log.status = "APPROVED" THEN log.billable * log.rate ELSE 0
  /\ log.status # "APPROVED" => log.billable = 0
  /\ log.billable <= log.raw

\* So it is of every log; and of one mission at most one log runs.
PaidRows == \A l \in Logs : PaidRow(hourlyLog[l], hourlyPaid[l])
OneRuns == \A l1, l2 \in Logs :
             hourlyLog[l1].status = "STARTED" /\ hourlyLog[l2].status = "STARTED" => l1 = l2

\* The invariant of the hourly logs.
HourlyInv ==
  /\ AllRequests
  /\ HourlyShape
  /\ \A r \in Requests : HourlyNamed(request[r]) /\ HourlySeen(request[r], hourlyLog, hourlyRate)
  /\ ~overtaken => PaidRows /\ OneRuns

\* A write is of the rows W.
OnlyHourly(W) ==
  /\ \A l \in Logs : hourlyLog'[l] = hourlyLog[l] \/ l \in W
  /\ hourlyRate' = hourlyRate \/ "rate" \in W

LEMMA FreeHourly == ASSUME NEW rows, NEW rate PROVE HourlyNamed(Free) /\ HourlySeen(Free, rows, rate)
  BY DEF Free, HourlyNamed, HourlySeen

LEMMA HourlyWrote ==
  ASSUME HourlyInv, NEW r \in Requests, NEW W, Wrote(r, W, Free), HourlyShape', OnlyHourly(W),
         ~overtaken' => PaidRows' /\ OneRuns'
  PROVE  HourlyInv'
  <1>1. /\ AllRequests'
        /\ request'[r] = Free
        /\ \A q \in Requests \ {r} :
              /\ request'[q].op = request[q].op
              /\ request'[q].reads = request[q].reads
              /\ DOMAIN request'[q] = DOMAIN request[q]
              /\ \A x \in DOMAIN request[q] \ {"fresh"} : request'[q][x] = request[q][x]
              /\ request'[q].fresh =>
                   request'[q] = request[q] /\ request[q].fresh /\ request[q].reads \intersect W = {}
    BY FreeIsRequest, WroteOver DEF HourlyInv
  <1>2. ASSUME NEW q \in Requests \ {r}
        PROVE  HourlyNamed(request'[q])
    BY <1>1 DEF HourlyInv, HourlyNamed
  <1>3. ASSUME NEW q \in Requests \ {r}
        PROVE  HourlySeen(request'[q], hourlyLog', hourlyRate')
    BY <1>1 DEF HourlyInv, HourlySeen, HourlyNamed, OnlyHourly
  <1> QED
    BY <1>1, <1>2, <1>3, FreeHourly DEF HourlyInv

LEMMA HourlyGoes ==
  ASSUME HourlyInv, NEW r \in Requests, NEW k, IsRequest(k), HourlyNamed(k),
         HourlySeen(k, hourlyLog, hourlyRate), Goes(r, k), UNCHANGED hourlyRows
  PROVE  HourlyInv'
  BY GoesOn DEF HourlyInv, HourlyShape, hourlyRows, PaidRows, OneRuns

LEMMA HourlyEnds ==
  ASSUME HourlyInv, NEW r \in Requests, Ends(r, FALSE), UNCHANGED hourlyRows
  PROVE  HourlyInv'
  BY FreeHourly, EndsHere DEF HourlyInv, HourlyShape, hourlyRows, PaidRows, OneRuns

LEMMA HourlyInvInit == HourlyInit => HourlyInv
  <1> SUFFICES ASSUME HourlyInit PROVE HourlyInv
    OBVIOUS
  <1>1. AllRequests /\ \A r \in Requests : request[r] = Free
    BY FreeIsRequest DEF HourlyInit, HandlersInit, AllRequests
  <1>2. HourlyShape /\ PaidRows /\ OneRuns
    BY HourlyAssumption DEF HourlyInit, HourlyShape, HourlyLog, NoLog, Rates, PaidRows, PaidRow, OneRuns
  <1> QED
    BY <1>1, <1>2, FreeHourly DEF HourlyInv

LEMMA HourlyLooks ==
  ASSUME HourlyInv, NEW r \in Requests,
         StartRead(r) \/ EndRead(r) \/ VerifyLogRead(r) \/ RejectLogRead(r)
  PROVE  HourlyInv'
  <1>1. CASE StartRead(r)
    <2> DEFINE k == [op |-> "start", reads |-> Logs, fresh |-> TRUE]
    <2>1. IsRequest(k) /\ HourlyNamed(k) /\ HourlySeen(k, hourlyLog, hourlyRate)
      BY <1>1 DEF StartRead, IsRequest, HourlyNamed, HourlySeen
    <2> QED
      BY <1>1, <2>1, HourlyGoes DEF StartRead, ReadsHourly, Begins
  <1>2. CASE EndRead(r)
    <2>1. PICK l \in Logs :
            /\ hourlyLog[l].status = "STARTED"
            /\ ReadsHourly(r, [op |-> "end", reads |-> {l}, fresh |-> TRUE, log |-> l])
      BY <1>2 DEF EndRead
    <2> DEFINE k == [op |-> "end", reads |-> {l}, fresh |-> TRUE, log |-> l]
    <2>2. IsRequest(k) /\ HourlyNamed(k) /\ HourlySeen(k, hourlyLog, hourlyRate)
      BY <2>1 DEF IsRequest, HourlyNamed, HourlySeen
    <2> QED
      BY <2>1, <2>2, HourlyGoes DEF ReadsHourly, Begins
  <1>3. CASE VerifyLogRead(r)
    <2>1. PICK l \in Logs, h \in Hours :
            /\ hourlyLog[l].status = "ENDED"
            /\ h <= hourlyLog[l].raw
            /\ ReadsHourly(r, [op |-> "verify", reads |-> {l, "rate"}, fresh |-> TRUE, log |-> l,
                               hours |-> h, rate |-> hourlyRate])
      BY <1>3 DEF VerifyLogRead
    <2> DEFINE k == [op |-> "verify", reads |-> {l, "rate"}, fresh |-> TRUE, log |-> l,
                     hours |-> h, rate |-> hourlyRate]
    <2>2. hourlyRate \in Rates
      BY DEF HourlyInv, HourlyShape
    <2>3. IsRequest(k) /\ HourlyNamed(k) /\ HourlySeen(k, hourlyLog, hourlyRate)
      BY <2>1, <2>2 DEF IsRequest, HourlyNamed, HourlySeen
    <2> QED
      BY <2>1, <2>3, HourlyGoes DEF ReadsHourly, Begins
  <1>4. CASE RejectLogRead(r)
    <2>1. PICK l \in Logs :
            /\ hourlyLog[l].status = "ENDED"
            /\ ReadsHourly(r, [op |-> "rejectLog", reads |-> {l}, fresh |-> TRUE, log |-> l])
      BY <1>4 DEF RejectLogRead
    <2> DEFINE k == [op |-> "rejectLog", reads |-> {l}, fresh |-> TRUE, log |-> l]
    <2>2. IsRequest(k) /\ HourlyNamed(k) /\ HourlySeen(k, hourlyLog, hourlyRate)
      BY <2>1 DEF IsRequest, HourlyNamed, HourlySeen
    <2> QED
      BY <2>1, <2>2, HourlyGoes DEF ReadsHourly, Begins
  <1> QED
    BY <1>1, <1>2, <1>3, <1>4

\* One log is written, as `row'; what is paid for the others stays.
LEMMA LogWritten ==
  ASSUME HourlyInv, NEW r \in Requests, NEW l \in Logs, NEW row \in HourlyLog, WritesLog(r, l, row),
         UNCHANGED hourlyRate, hourlyPaid' = [x \in Logs |-> hourlyPaid'[x]],
         \A x \in Logs \ {l} : hourlyPaid'[x] = hourlyPaid[x],
         request[r].fresh /\ PaidRows /\ OneRuns =>
           /\ PaidRow(row, hourlyPaid'[l])
           /\ row.status = "STARTED" => \A x \in Logs : hourlyLog[x].status # "STARTED"
  PROVE  HourlyInv'
  <1>1. /\ hourlyLog' \in [Logs -> HourlyLog]
        /\ hourlyLog'[l] = row
        /\ \A x \in Logs \ {l} : hourlyLog'[x] = hourlyLog[x]
    BY DEF WritesLog, HourlyInv, HourlyShape
  <1>2. Wrote(r, {l}, Free)
    BY DEF WritesLog
  <1>3. HourlyShape' /\ OnlyHourly({l})
    BY <1>1 DEF HourlyInv, HourlyShape, OnlyHourly
  <1>4. ASSUME ~overtaken' PROVE PaidRows' /\ OneRuns'
    <2>1. request[r].fresh /\ PaidRows /\ OneRuns
      BY <1>2, <1>4 DEF Wrote, HourlyInv
    <2>2. PaidRows'
      BY <1>1, <2>1 DEF PaidRows
    <2>3. OneRuns'
      BY <1>1, <2>1 DEF OneRuns
    <2> QED
      BY <2>2, <2>3
  <1> QED
    BY <1>2, <1>3, <1>4, HourlyWrote

LEMMA StartWriteInv ==
  ASSUME HourlyInv, NEW r \in Requests, StartWrite(r)
  PROVE  HourlyInv'
  <1> DEFINE row == [NoLog EXCEPT !.status = "STARTED"]
  <1>1. PICK l \in Logs : hourlyLog[l] = NoLog /\ WritesLog(r, l, row)
    BY DEF StartWrite
  <1>2. row \in HourlyLog /\ row.status = "STARTED" /\ row.billable = 0 /\ row.raw = 0
    BY DEF NoLog, HourlyLog
  <1>3. PaidRows => PaidRow(row, hourlyPaid[l])
    BY <1>1, <1>2 DEF PaidRows, PaidRow, NoLog
  <1>4. request[r].fresh => \A x \in Logs : hourlyLog[x].status # "STARTED"
    BY DEF StartWrite, HourlyInv, HourlySeen
  <1> QED
    BY <1>1, <1>2, <1>3, <1>4, LogWritten DEF StartWrite, HourlyInv, HourlyShape

LEMMA EndWriteInv ==
  ASSUME HourlyInv, NEW r \in Requests, EndWrite(r)
  PROVE  HourlyInv'
  <1> DEFINE l == request[r].log
  <1>1. /\ l \in Logs /\ hourlyLog[l] \in HourlyLog
        /\ request[r].fresh => hourlyLog[l].status = "STARTED"
    BY DEF EndWrite, HourlyInv, HourlyNamed, HourlySeen, HourlyShape
  <1>2. PICK h \in Hours : WritesLog(r, l, [hourlyLog[l] EXCEPT !.status = "ENDED", !.raw = h])
    BY DEF EndWrite
  <1> DEFINE row == [hourlyLog[l] EXCEPT !.status = "ENDED", !.raw = h]
  <1>3. /\ row \in HourlyLog /\ row.status = "ENDED" /\ row.raw = h
        /\ row.billable = hourlyLog[l].billable
    BY <1>1 DEF HourlyLog
  <1>4. request[r].fresh /\ PaidRows => PaidRow(row, hourlyPaid[l])
    BY <1>1, <1>3, HourlyAssumption DEF PaidRows, PaidRow, Hours
  <1>5. UNCHANGED <<hourlyRate, hourlyPaid>>
    BY DEF EndWrite
  <1> QED
    BY <1>1, <1>2, <1>3, <1>4, <1>5, LogWritten DEF HourlyInv, HourlyShape

LEMMA RejectLogWriteInv ==
  ASSUME HourlyInv, NEW r \in Requests, RejectLogWrite(r)
  PROVE  HourlyInv'
  <1> DEFINE l == request[r].log
             row == [hourlyLog[l] EXCEPT !.status = "REJECTED"]
  <1>1. /\ l \in Logs /\ hourlyLog[l] \in HourlyLog
        /\ request[r].fresh => hourlyLog[l].status = "ENDED"
    BY DEF RejectLogWrite, HourlyInv, HourlyNamed, HourlySeen, HourlyShape
  <1>2. WritesLog(r, l, row) /\ UNCHANGED <<hourlyRate, hourlyPaid>>
    BY DEF RejectLogWrite
  <1>3. /\ row \in HourlyLog /\ row.status = "REJECTED" /\ row.raw = hourlyLog[l].raw
        /\ row.billable = hourlyLog[l].billable
    BY <1>1 DEF HourlyLog
  <1>4. request[r].fresh /\ PaidRows => PaidRow(row, hourlyPaid[l])
    BY <1>1, <1>3 DEF PaidRows, PaidRow
  <1> QED
    BY <1>1, <1>2, <1>3, <1>4, LogWritten DEF HourlyInv, HourlyShape

LEMMA VerifyLogWriteInv ==
  ASSUME HourlyInv, NEW r \in Requests, VerifyLogWrite(r)
  PROVE  HourlyInv'
  <1> DEFINE k == request[r]
             l == k.log
             row == [hourlyLog[l] EXCEPT !.status = "APPROVED", !.billable = k.hours, !.rate = k.rate]
             due == k.hours * hourlyRate
  <1>1. /\ l \in Logs /\ hourlyLog[l] \in HourlyLog /\ k.hours \in Hours /\ k.rate \in Rates
        /\ k.fresh => hourlyLog[l].status = "ENDED" /\ k.hours <= hourlyLog[l].raw /\ k.rate = hourlyRate
    BY DEF VerifyLogWrite, HourlyInv, HourlyNamed, HourlySeen, HourlyShape
  <1>2. /\ WritesLog(r, l, row)
        /\ hourlyPaid' = [hourlyPaid EXCEPT ![l] = @ + due]
        /\ UNCHANGED hourlyRate
    BY DEF VerifyLogWrite
  <1>3. /\ row \in HourlyLog /\ row.status = "APPROVED" /\ row.raw = hourlyLog[l].raw
        /\ row.billable = k.hours /\ row.rate = k.rate
    BY <1>1 DEF HourlyLog
  <1>4. /\ hourlyPaid' = [x \in Logs |-> hourlyPaid'[x]]
        /\ hourlyPaid'[l] = hourlyPaid[l] + due
        /\ \A x \in Logs \ {l} : hourlyPaid'[x] = hourlyPaid[x]
    BY <1>1, <1>2 DEF HourlyInv, HourlyShape
  <1>5. due \in Int
    BY <1>1, HourlyAssumption DEF HourlyInv, HourlyShape, Hours, Rates
  <1>6. k.fresh => due = row.billable * row.rate
    BY <1>1, <1>3
  <1>7. k.fresh /\ PaidRows => PaidRow(row, hourlyPaid'[l])
    <2> SUFFICES ASSUME k.fresh, PaidRows PROVE PaidRow(row, hourlyPaid'[l])
      OBVIOUS
    <2>1. hourlyPaid[l] = 0
      BY <1>1 DEF PaidRows, PaidRow
    <2>2. hourlyPaid'[l] = due
      BY <2>1, <1>4, <1>5
    <2> QED
      BY <2>2, <1>1, <1>3, <1>6 DEF PaidRow
  <1> QED
    BY <1>1, <1>2, <1>3, <1>4, <1>7, LogWritten

LEMMA NewHourlyRateInv ==
  ASSUME HourlyInv, NEW r \in Requests, NewHourlyRate(r)
  PROVE  HourlyInv'
  <1>1. Wrote(r, {"rate"}, Free) /\ hourlyRate' \in Rates /\ UNCHANGED <<hourlyLog, hourlyPaid>>
    BY DEF NewHourlyRate
  <1>2. HourlyShape' /\ OnlyHourly({"rate"})
    BY <1>1 DEF HourlyInv, HourlyShape, OnlyHourly
  <1>3. ~overtaken' => PaidRows' /\ OneRuns'
    BY <1>1 DEF HourlyInv, Wrote, PaidRows, OneRuns
  <1> QED
    BY <1>1, <1>2, <1>3, HourlyWrote

LEMMA HourlyStep ==
  ASSUME HourlyInv, [HourlyNext]_hourlyVars
  PROVE  HourlyInv'
  <1>1. CASE UNCHANGED hourlyVars
    BY <1>1 DEF hourlyVars, hourlyRows, handlerVars, HourlyInv, AllRequests, HourlyShape, PaidRows, OneRuns
  <1> QED
    BY <1>1, HourlyLooks, StartWriteInv, EndWriteInv, VerifyLogWriteInv, RejectLogWriteInv,
       NewHourlyRateInv, HourlyEnds DEF HourlyNext

\* The operator, the consultants and a new rate card in any order: a log is
\* paid once, if approved, for hours that were worked and at the rate it
\* shows, and one log at a time runs, unless a handler is overtaken.
THEOREM LogsPaidOnce == HourlySpec => []HoursPaidOnce
  <1>1. HourlyInv /\ [HourlyNext]_hourlyVars => HourlyInv'
    BY HourlyStep
  <1>2. HourlyInv => HoursPaidOnce
    <2> SUFFICES ASSUME HourlyInv, ~overtaken PROVE HoursPaidOnce
      BY DEF HoursPaidOnce, Undisturbed
    <2>1. \A l \in Logs :
            /\ hourlyPaid[l] = IF hourlyLog[l].status = "APPROVED"
                               THEN hourlyLog[l].billable * hourlyLog[l].rate ELSE 0
            /\ hourlyLog[l].billable <= hourlyLog[l].raw
      BY DEF HourlyInv, PaidRows, PaidRow
    <2> DEFINE S == {l \in Logs : hourlyLog[l].status = "STARTED"}
    <2>2. S = {} \/ \E l \in Logs : S = {l}
      BY DEF HourlyInv, OneRuns
    <2> HIDE DEF S
    <2>3. Cardinality(S) = 0 \/ Cardinality(S) = 1
      <3>1. CASE S = {}
        BY <3>1, FS_EmptySet
      <3>2. CASE \E l \in Logs : S = {l}
        BY <3>2, FS_Singleton
      <3> QED
        BY <2>2, <3>1, <3>2
    <2>4. Cardinality(S) <= 1
      BY <2>3
    <2> QED
      BY <2>1, <2>4 DEF S, HoursPaidOnce
  <1> QED
    BY <1>1, <1>2, HourlyInvInit, PTL DEF HourlySpec

-----------------------------------------------------------------------------
(* The community pool.                                                     *)

\* What each request carries.
PoolNamed(k) ==
  k.op # "free" =>
    \/ /\ k.op = "add" /\ k.reads = {"total"} /\ {"total", "share"} \subseteq DOMAIN k
       /\ k.total \in Int /\ k.share \in Int
    \/ /\ k.op = "lockSnapshot" /\ k.reads = {"status"} /\ "snapshot" \in DOMAIN k
       /\ k.snapshot \in (SUBSET Families) \ {{}}
    \/ /\ k.op = "distribute" /\ k.reads = {"status"}
       /\ {"total", "given", "snapshot", "resolves"} \subseteq DOMAIN k
       /\ k.total \in Int /\ k.given \in Int /\ k.snapshot \in (SUBSET Families) \ {{}}

\* A fresh one has read the columns of the row as they are.
PoolSeen(k) ==
  k.fresh =>
    /\ k.op = "add" => k.total = poolRow.total
    /\ k.op \in {"lockSnapshot", "distribute"} => poolRow.status # "DISTRIBUTED"
    /\ k.op = "distribute" /\ ~k.resolves => k.snapshot = poolRow.snapshot

\* A distribution is about to share what had been given when it began.
PoolShares(k) == k.op = "distribute" => k.total = k.given

\* The values of the rows.
PoolValues ==
  /\ poolRow \in [status : {"NONE", "OPEN", "SNAPSHOT_LOCKED", "DISTRIBUTED"}, total : Int,
                  snapshot : SUBSET Families]
  /\ poolPaid \in [Families -> Int]
  /\ {remainder, given, held} \subseteq Int

\* The share of each of n households.
Share(n) == Abs(held \div n)

\* What the pool, the households and the rest hold, to the rial.
PoolHolds ==
  /\ poolRow.total = given
  /\ IF poolRow.status = "DISTRIBUTED"
     THEN /\ poolRow.snapshot # {}
          /\ LET n == Cardinality(poolRow.snapshot) IN
             /\ poolPaid = [f \in Families |-> IF f \in poolRow.snapshot THEN Share(n) ELSE 0]
             /\ remainder = held - (held \div n) * n
     ELSE poolPaid = [f \in Families |-> 0] /\ remainder = 0

\* The invariant of the pool.
PoolInv ==
  /\ AllRequests
  /\ PoolValues
  /\ \A r \in Requests : PoolNamed(request[r]) /\ PoolSeen(request[r])
  /\ ~overtaken => PoolHolds /\ \A r \in Requests : PoolShares(request[r])

\* A snapshot is of some households.
LEMMA SomeHouseholds ==
  ASSUME IsFiniteSet(Families), NEW s \in (SUBSET Families) \ {{}}
  PROVE  Cardinality(s) \in Nat \ {0}
  <1>1. s \in SUBSET Families /\ s # {}
    OBVIOUS
  <1>2. IsFiniteSet(s)
    BY <1>1, FS_Subset
  <1> QED
    BY <1>1, <1>2, FS_CardinalityType, FS_EmptySet

LEMMA PoolInvInit == PoolInit => PoolInv
  <1> SUFFICES ASSUME PoolInit PROVE PoolInv
    OBVIOUS
  <1>1. AllRequests /\ \A r \in Requests : request[r] = Free
    BY FreeIsRequest DEF PoolInit, HandlersInit, AllRequests
  <1>2. PoolValues
    BY DEF PoolInit, PoolValues, NoPool
  <1>3. PoolHolds
    BY DEF PoolInit, PoolHolds, NoPool
  <1> QED
    BY <1>1, <1>2, <1>3 DEF PoolInv, PoolNamed, PoolSeen, PoolShares, Free

\* A handler that wrote nothing, or has ended.
LEMMA PoolGoes ==
  ASSUME PoolInv, NEW r \in Requests, NEW k, IsRequest(k), PoolNamed(k), PoolSeen(k),
         ~overtaken => PoolShares(k), UNCHANGED poolRows,
         AllRequests', request'[r] = k, \A q \in Requests \ {r} : request'[q] = request[q], overtaken' = overtaken
  PROVE  PoolInv'
  <1>1. UNCHANGED <<poolRow, poolPaid, remainder, given, held>>
    BY DEF poolRows
  <1>2. PoolValues' /\ (~overtaken' => PoolHolds')
    BY <1>1 DEF PoolInv, PoolValues, PoolHolds, Share
  <1>3. ASSUME NEW q \in Requests
        PROVE  PoolNamed(request[q])' /\ PoolSeen(request[q])' /\ (~overtaken' => PoolShares(request[q])')
    <2>1. CASE q = r
      BY <1>1, <2>1 DEF PoolNamed, PoolSeen, PoolShares
    <2>2. CASE q # r
      BY <1>1, <2>2 DEF PoolInv, PoolNamed, PoolSeen, PoolShares
    <2> QED
      BY <2>1, <2>2
  <1> QED
    BY <1>2, <1>3 DEF PoolInv

LEMMA PoolReads ==
  ASSUME PoolInv, NEW r \in Requests,
         \/ AddRead(r) \/ DistributeRead(r)
         \/ LockSnapshotRead(r) /\ poolRow # NoPool
         \/ Ends(r, FALSE) /\ UNCHANGED poolRows
  PROVE  PoolInv'
  <1>1. CASE AddRead(r)
    <2>1. PICK s \in Shares :
            Begins(r, [op |-> "add", reads |-> {"total"}, fresh |-> TRUE, total |-> poolRow.total,
                       share |-> s, creates |-> poolRow = NoPool])
      BY <1>1 DEF AddRead
    <2> DEFINE k == [op |-> "add", reads |-> {"total"}, fresh |-> TRUE, total |-> poolRow.total,
                     share |-> s, creates |-> poolRow = NoPool]
    <2>2. IsRequest(k) /\ PoolNamed(k) /\ PoolSeen(k) /\ PoolShares(k)
      BY PoolAssumption DEF IsRequest, PoolNamed, PoolSeen, PoolShares, PoolInv, PoolValues
    <2>3. Goes(r, k) /\ UNCHANGED poolRows
      BY <1>1, <2>1 DEF Begins, AddRead
    <2> HIDE DEF k
    <2>4. /\ AllRequests' /\ request'[r] = k
          /\ \A q \in Requests \ {r} : request'[q] = request[q]
          /\ overtaken' = overtaken
      BY <2>2, <2>3, GoesOn DEF PoolInv
    <2> QED
      BY <2>2, <2>3, <2>4, PoolGoes
  <1>2. CASE DistributeRead(r)
    <2>1. PICK h \in (SUBSET Families) \ {{}} :
            /\ poolRow.status = "OPEN" \/ (poolRow.status = "SNAPSHOT_LOCKED" /\ h = poolRow.snapshot)
            /\ Begins(r, [op |-> "distribute", reads |-> {"status"}, fresh |-> TRUE,
                          total |-> poolRow.total, given |-> given, snapshot |-> h,
                          resolves |-> poolRow.status = "OPEN"])
      BY <1>2 DEF DistributeRead
    <2> DEFINE k == [op |-> "distribute", reads |-> {"status"}, fresh |-> TRUE,
                     total |-> poolRow.total, given |-> given, snapshot |-> h,
                     resolves |-> poolRow.status = "OPEN"]
    <2>2. IsRequest(k) /\ PoolNamed(k)
      BY DEF IsRequest, PoolNamed, PoolInv, PoolValues
    <2>3. PoolSeen(k)
      BY <2>1 DEF PoolSeen
    <2>4. ~overtaken => PoolShares(k)
      BY DEF PoolShares, PoolInv, PoolHolds
    <2>5. Goes(r, k) /\ UNCHANGED poolRows
      BY <1>2, <2>1 DEF Begins, DistributeRead
    <2> HIDE DEF k
    <2>6. /\ AllRequests' /\ request'[r] = k
          /\ \A q \in Requests \ {r} : request'[q] = request[q]
          /\ overtaken' = overtaken
      BY <2>2, <2>5, GoesOn DEF PoolInv
    <2> QED
      BY <2>2, <2>3, <2>4, <2>5, <2>6, PoolGoes
  <1>3. CASE LockSnapshotRead(r) /\ poolRow # NoPool
    <2>1. PICK h \in (SUBSET Families) \ {{}} :
            Begins(r, LockRequest(h)) /\ UNCHANGED poolRow
      BY <1>3 DEF LockSnapshotRead
    <2> DEFINE k == LockRequest(h)
    <2>2. IsRequest(k) /\ PoolNamed(k) /\ PoolSeen(k) /\ PoolShares(k)
      BY <1>3 DEF IsRequest, PoolNamed, PoolSeen, PoolShares, LockSnapshotRead, LockRequest
    <2>3. Goes(r, k) /\ UNCHANGED poolRows
      BY <1>3, <2>1 DEF Begins, LockSnapshotRead, poolRows
    <2> HIDE DEF k
    <2>4. /\ AllRequests' /\ request'[r] = k
          /\ \A q \in Requests \ {r} : request'[q] = request[q]
          /\ overtaken' = overtaken
      BY <2>2, <2>3, GoesOn DEF PoolInv
    <2> QED
      BY <2>2, <2>3, <2>4, PoolGoes
  <1>4. CASE Ends(r, FALSE) /\ UNCHANGED poolRows
    <2>1. /\ AllRequests' /\ request'[r] = Free
          /\ \A q \in Requests \ {r} : request'[q] = request[q]
          /\ overtaken' = overtaken
      BY <1>4, EndsHere DEF PoolInv
    <2>2. PoolNamed(Free) /\ PoolSeen(Free) /\ PoolShares(Free)
      BY DEF PoolNamed, PoolSeen, PoolShares, Free
    <2> QED
      BY <1>4, <2>1, <2>2, FreeIsRequest, PoolGoes
  <1> QED
    BY <1>1, <1>2, <1>3, <1>4

\* After a write of the columns W, what the other handlers that are still
\* fresh have read is as it was.
LEMMA PoolWritten ==
  ASSUME PoolInv, NEW r \in Requests, NEW W, NEW k, IsRequest(k), PoolNamed(k), PoolSeen(k)',
         ~overtaken => PoolShares(k), Wrote(r, W, k),
         "total" \in W \/ poolRow'.total = poolRow.total,
         "status" \in W \/ (poolRow'.status = poolRow.status /\ poolRow'.snapshot = poolRow.snapshot)
  PROVE  /\ AllRequests'
         /\ \A q \in Requests : PoolNamed(request[q])' /\ PoolSeen(request[q])'
         /\ ~overtaken' =>
              /\ ~overtaken /\ request[r].fresh
              /\ \A q \in Requests : PoolShares(request[q])'
  <1>1. /\ AllRequests' /\ request'[r] = k
        /\ \A q \in Requests \ {r} :
              /\ request'[q].op = request[q].op
              /\ request'[q].reads = request[q].reads
              /\ DOMAIN request'[q] = DOMAIN request[q]
              /\ \A x \in DOMAIN request[q] \ {"fresh"} : request'[q][x] = request[q][x]
              /\ request'[q].fresh =>
                   request'[q] = request[q] /\ request[q].fresh /\ request[q].reads \intersect W = {}
        /\ ~overtaken' => ~overtaken /\ request[r].fresh
    BY WroteOver DEF PoolInv
  <1>2. ASSUME NEW q \in Requests \ {r}
        PROVE  /\ PoolNamed(request[q])' /\ PoolSeen(request[q])'
               /\ ~overtaken' => PoolShares(request[q])'
    <2>1. PoolNamed(request[q]) /\ PoolSeen(request[q]) /\ (~overtaken => PoolShares(request[q]))
      BY DEF PoolInv
    <2>2. PoolNamed(request[q])'
      BY <1>1, <2>1 DEF PoolNamed
    <2>3. PoolSeen(request[q])'
      <3> SUFFICES ASSUME request'[q].fresh PROVE PoolSeen(request[q])'
        BY DEF PoolSeen
      <3>1. request'[q] = request[q] /\ request[q].fresh /\ request[q].reads \intersect W = {}
        BY <1>1
      <3>2. CASE request[q].op = "add"
        <4>1. request[q].reads = {"total"}
          BY <2>1, <3>2 DEF PoolNamed
        <4> QED
          BY <2>1, <3>1, <3>2, <4>1 DEF PoolSeen
      <3>3. CASE request[q].op \in {"lockSnapshot", "distribute"}
        <4>1. request[q].reads = {"status"}
          BY <2>1, <3>3 DEF PoolNamed
        <4>2. poolRow'.status = poolRow.status /\ poolRow'.snapshot = poolRow.snapshot
          BY <3>1, <4>1
        <4> QED
          BY <2>1, <3>1, <3>3, <4>2 DEF PoolSeen
      <3>4. CASE request[q].op = "free"
        BY <3>1, <3>4 DEF PoolSeen
      <3> QED
        BY <2>1, <3>2, <3>3, <3>4 DEF PoolNamed
    <2>4. ~overtaken' => PoolShares(request[q])'
      <3> SUFFICES ASSUME ~overtaken', request'[q].op = "distribute" PROVE PoolShares(request[q])'
        BY DEF PoolShares
      <3>1. PoolShares(request[q]) /\ request[q].op = "distribute"
        BY <1>1, <2>1
      <3>2. {"total", "given"} \subseteq DOMAIN request[q] \ {"fresh"}
        BY <2>1, <3>1 DEF PoolNamed
      <3>3. request'[q]["total"] = request[q]["total"] /\ request'[q]["given"] = request[q]["given"]
        BY <1>1, <3>2
      <3> QED
        BY <3>1, <3>3 DEF PoolShares
    <2> QED
      BY <2>2, <2>3, <2>4
  <1>3. PoolNamed(request[r])' /\ PoolSeen(request[r])' /\ (~overtaken' => PoolShares(request[r])')
    BY <1>1 DEF PoolNamed, PoolSeen, PoolShares
  <1> QED
    BY <1>1, <1>2, <1>3

\* A handler that ends with its write.
LEMMA PoolWrittenLast ==
  ASSUME PoolInv, NEW r \in Requests, NEW W, Wrote(r, W, Free),
         "total" \in W \/ poolRow'.total = poolRow.total,
         "status" \in W \/ (poolRow'.status = poolRow.status /\ poolRow'.snapshot = poolRow.snapshot)
  PROVE  /\ AllRequests'
         /\ \A q \in Requests : PoolNamed(request[q])' /\ PoolSeen(request[q])'
         /\ ~overtaken' =>
              /\ ~overtaken /\ request[r].fresh
              /\ \A q \in Requests : PoolShares(request[q])'
  <1>1. PoolNamed(Free) /\ PoolSeen(Free)' /\ PoolShares(Free)
    BY DEF PoolNamed, PoolSeen, PoolShares, Free
  <1> QED
    BY <1>1, FreeIsRequest, PoolWritten

LEMMA PoolAdds ==
  ASSUME PoolInv, NEW r \in Requests, AddWrite(r)
  PROVE  PoolInv'
  <1> DEFINE k == request[r]
             W == IF k.creates THEN Columns ELSE {"total"}
  <1>1. k.op = "add" /\ k.total \in Int /\ k.share \in Int /\ (k.fresh => k.total = poolRow.total)
    BY DEF AddWrite, PoolInv, PoolNamed, PoolSeen
  <1>2. /\ k.creates => poolRow = NoPool
        /\ poolRow' = [poolRow EXCEPT !.status = IF k.creates THEN "OPEN" ELSE @,
                                      !.total = k.total + k.share]
        /\ given' = given + k.share
        /\ Wrote(r, W, Free)
        /\ poolPaid' = poolPaid /\ remainder' = remainder /\ held' = held
    BY DEF AddWrite
  <1>3. /\ poolRow'.total = k.total + k.share
        /\ poolRow'.snapshot = poolRow.snapshot
        /\ poolRow'.status = IF k.creates THEN "OPEN" ELSE poolRow.status
    BY <1>2 DEF PoolInv, PoolValues
  <1>4. PoolValues'
    <2>1. poolRow' \in [status : {"NONE", "OPEN", "SNAPSHOT_LOCKED", "DISTRIBUTED"}, total : Int,
                        snapshot : SUBSET Families]
      <3>1. PICK s : s = IF k.creates THEN "OPEN" ELSE poolRow.status
        OBVIOUS
      <3>2. s \in {"NONE", "OPEN", "SNAPSHOT_LOCKED", "DISTRIBUTED"}
        BY <3>1 DEF PoolInv, PoolValues
      <3>3. PICK t \in Int : t = k.total + k.share
        BY <1>1
      <3>4. poolRow' = [poolRow EXCEPT !.status = s, !.total = t]
        BY <1>2, <3>1, <3>3
      <3> QED
        BY <3>2, <3>4 DEF PoolInv, PoolValues
    <2> QED
      BY <1>1, <1>2, <2>1 DEF PoolInv, PoolValues
  <1>5. /\ AllRequests'
        /\ \A q \in Requests : PoolNamed(request[q])' /\ PoolSeen(request[q])'
        /\ ~overtaken' => /\ ~overtaken /\ k.fresh
                          /\ \A q \in Requests : PoolShares(request[q])'
    <2>1. "total" \in W /\ ("status" \in W \/ poolRow'.status = poolRow.status)
      BY <1>3 DEF Columns
    <2> HIDE DEF W
    <2> QED
      BY <1>2, <1>3, <2>1, PoolWrittenLast
  <1>6. ~overtaken' => PoolHolds'
    <2> SUFFICES ASSUME ~overtaken' PROVE PoolHolds'
      OBVIOUS
    <2>1. PoolHolds /\ k.total = poolRow.total
      BY <1>1, <1>5 DEF PoolInv
    <2>2. poolRow'.total = given'
      BY <1>2, <1>3, <2>1 DEF PoolHolds
    <2>3. poolRow'.status = "DISTRIBUTED" <=> poolRow.status = "DISTRIBUTED"
      BY <1>2, <1>3 DEF NoPool
    <2> QED
      BY <1>2, <1>3, <2>1, <2>2, <2>3 DEF PoolHolds, Share
  <1> QED
    BY <1>4, <1>5, <1>6 DEF PoolInv

\* The lock of a pool that is missing creates it.
LEMMA PoolCreates ==
  ASSUME PoolInv, NEW r \in Requests, LockSnapshotRead(r), poolRow = NoPool
  PROVE  PoolInv'
  <1>1. PICK h \in (SUBSET Families) \ {{}} :
          /\ poolRow' = [NoPool EXCEPT !.status = "OPEN"]
          /\ Wrote(r, Columns, LockRequest(h))
    BY DEF LockSnapshotRead
  <1> DEFINE k == LockRequest(h)
  <1>2. poolPaid' = poolPaid /\ remainder' = remainder /\ given' = given /\ held' = held
    BY DEF LockSnapshotRead
  <1>3. poolRow' = [status |-> "OPEN", total |-> 0, snapshot |-> {}]
    BY <1>1 DEF NoPool
  <1>4. PoolValues'
    BY <1>2, <1>3 DEF PoolInv, PoolValues
  <1>5. IsRequest(k) /\ PoolNamed(k) /\ PoolSeen(k)' /\ PoolShares(k)
    BY <1>3 DEF IsRequest, PoolNamed, PoolSeen, PoolShares, LockRequest
  <1>6. /\ AllRequests'
        /\ \A q \in Requests : PoolNamed(request[q])' /\ PoolSeen(request[q])'
        /\ ~overtaken' => /\ ~overtaken
                          /\ \A q \in Requests : PoolShares(request[q])'
    <2>1. "total" \in Columns /\ "status" \in Columns
      BY DEF Columns
    <2>2. Wrote(r, Columns, k)
      BY <1>1
    <2> HIDE DEF k
    <2> QED
      BY <1>5, <2>1, <2>2, PoolWritten
  <1>7. ~overtaken' => PoolHolds'
    BY <1>2, <1>3, <1>6 DEF PoolInv, PoolHolds, NoPool
  <1> QED
    BY <1>4, <1>6, <1>7 DEF PoolInv

LEMMA PoolLocks ==
  ASSUME PoolInv, NEW r \in Requests, LockSnapshotWrite(r)
  PROVE  PoolInv'
  <1> DEFINE k == request[r]
  <1>1. /\ k.op = "lockSnapshot" /\ k.snapshot \in (SUBSET Families) \ {{}}
        /\ k.fresh => poolRow.status # "DISTRIBUTED"
    BY DEF LockSnapshotWrite, PoolInv, PoolNamed, PoolSeen
  <1>2. /\ poolRow' = [poolRow EXCEPT !.status = "SNAPSHOT_LOCKED", !.snapshot = k.snapshot]
        /\ Wrote(r, {"status"}, Free)
        /\ poolPaid' = poolPaid /\ remainder' = remainder /\ given' = given /\ held' = held
    BY DEF LockSnapshotWrite
  <1>3. poolRow'.total = poolRow.total /\ poolRow'.status = "SNAPSHOT_LOCKED"
    BY <1>2 DEF PoolInv, PoolValues
  <1>4. PoolValues'
    BY <1>1, <1>2 DEF PoolInv, PoolValues
  <1>5. /\ AllRequests'
        /\ \A q \in Requests : PoolNamed(request[q])' /\ PoolSeen(request[q])'
        /\ ~overtaken' => /\ ~overtaken /\ k.fresh
                          /\ \A q \in Requests : PoolShares(request[q])'
    BY <1>2, <1>3, PoolWrittenLast
  <1>6. ~overtaken' => PoolHolds'
    BY <1>1, <1>2, <1>3, <1>5 DEF PoolInv, PoolHolds
  <1> QED
    BY <1>4, <1>5, <1>6 DEF PoolInv

LEMMA PoolDistributes ==
  ASSUME PoolInv, NEW r \in Requests, DistributeWrite(r)
  PROVE  PoolInv'
  <1> DEFINE k == request[r]
             n == Cardinality(k.snapshot)
             per == k.total \div n
  <1>1. /\ k.op = "distribute" /\ k.total \in Int /\ k.given \in Int
        /\ k.snapshot \in (SUBSET Families) \ {{}}
        /\ k.fresh => /\ poolRow.status # "DISTRIBUTED"
                      /\ ~k.resolves => k.snapshot = poolRow.snapshot
    BY DEF DistributeWrite, PoolInv, PoolNamed, PoolSeen
  <1>2. /\ poolPaid' = [f \in Families |-> poolPaid[f] + IF f \in k.snapshot THEN Abs(per) ELSE 0]
        /\ remainder' = remainder + (k.total - per * n)
        /\ poolRow' = [poolRow EXCEPT !.status = "DISTRIBUTED",
                                      !.snapshot = IF k.resolves THEN k.snapshot ELSE @]
        /\ held' = k.given
        /\ Wrote(r, {"status"}, Free)
        /\ given' = given
    BY DEF DistributeWrite
  <1>3. n \in Nat \ {0}
    BY <1>1, PoolAssumption, SomeHouseholds
  <1>4. per \in Int /\ Abs(per) \in Int /\ per * n \in Int
    <2> HIDE DEF n
    <2>1. per \in Int
      BY <1>1, <1>3
    <2> HIDE DEF per
    <2> QED
      BY <1>3, <2>1 DEF Abs
  <1>5. /\ poolRow'.total = poolRow.total /\ poolRow'.status = "DISTRIBUTED"
        /\ poolRow'.snapshot = IF k.resolves THEN k.snapshot ELSE poolRow.snapshot
    BY <1>2 DEF PoolInv, PoolValues
  <1>6. PoolValues'
    <2> HIDE DEF n, per
    <2>1. poolPaid' \in [Families -> Int]
      BY <1>2, <1>4 DEF PoolInv, PoolValues
    <2>2. remainder' \in Int
      BY <1>1, <1>2, <1>4 DEF PoolInv, PoolValues
    <2> QED
      BY <1>1, <1>2, <2>1, <2>2 DEF PoolInv, PoolValues
  <1>7. /\ AllRequests'
        /\ \A q \in Requests : PoolNamed(request[q])' /\ PoolSeen(request[q])'
        /\ ~overtaken' => /\ ~overtaken /\ k.fresh
                          /\ \A q \in Requests : PoolShares(request[q])'
    BY <1>2, <1>5, PoolWrittenLast
  <1>8. ~overtaken' => PoolHolds'
    <2> SUFFICES ASSUME ~overtaken' PROVE PoolHolds'
      OBVIOUS
    <2>1. PoolHolds /\ poolRow.status # "DISTRIBUTED" /\ k.total = k.given
      BY <1>1, <1>7 DEF PoolInv, PoolShares
    <2>2. poolRow'.snapshot = k.snapshot /\ k.snapshot # {}
      BY <1>1, <1>5, <1>7
    <2>3. per = held' \div n
      BY <1>2, <2>1
    <2>4. poolPaid' = [f \in Families |-> IF f \in k.snapshot THEN Abs(per) ELSE 0]
      <3> HIDE DEF per
      <3>1. poolPaid = [f \in Families |-> 0]
        BY <2>1 DEF PoolHolds
      <3> QED
        BY <1>2, <1>4, <3>1
    <2>5. remainder' = held' - per * n
      <3> HIDE DEF per, n
      <3>1. remainder = 0
        BY <2>1 DEF PoolHolds
      <3> QED
        BY <1>1, <1>2, <1>4, <2>1, <3>1
    <2>6. poolRow'.total = given'
      BY <1>2, <1>5, <2>1 DEF PoolHolds
    <2> QED
      BY <1>5, <2>2, <2>3, <2>4, <2>5, <2>6 DEF PoolHolds, Share
  <1> QED
    BY <1>6, <1>7, <1>8 DEF PoolInv

LEMMA PoolInvStep == PoolInv /\ [PoolNext]_poolVars => PoolInv'
  <1> SUFFICES ASSUME PoolInv, [PoolNext]_poolVars PROVE PoolInv'
    OBVIOUS
  <1>1. CASE UNCHANGED poolVars
    BY <1>1 DEF poolVars, poolRows, handlerVars, PoolInv, AllRequests, PoolValues, PoolNamed, PoolSeen,
                PoolShares, PoolHolds, Share
  <1>2. CASE PoolNext
    BY <1>2, PoolReads, PoolAdds, PoolCreates, PoolLocks, PoolDistributes DEF PoolNext
  <1> QED
    BY <1>1, <1>2

\* The pool holds what was given to it; the households of its snapshot, and
\* no others, get equal shares, which with the rest are, to the rial, what
\* had been given when the distribution read the pool, if not below zero.
THEOREM PoolIsDistributed == PoolSpec => []PoolAddsUp
  <1>1. PoolInv => PoolAddsUp
    <2> SUFFICES ASSUME PoolInv, ~overtaken PROVE PoolAddsUp
      BY DEF PoolAddsUp
    <2>1. PoolHolds /\ PoolValues
      BY DEF PoolInv
    <2>2. FoldFunction(+, 0, poolPaid) = Sum(poolPaid, Families)
      <3>1. DOMAIN poolPaid = Families
        BY <2>1 DEF PoolValues
      <3> QED
        BY <3>1 DEF FoldFunction, Sum
    <2>3. CASE poolRow.status # "DISTRIBUTED"
      BY <2>1, <2>3 DEF PoolAddsUp, PoolHolds
    <2>4. CASE poolRow.status = "DISTRIBUTED"
      <3> DEFINE s == poolRow.snapshot
                 n == Cardinality(s)
                 per == held \div n
      <3>1. /\ s \in (SUBSET Families) \ {{}} /\ held \in Int /\ poolRow.total = given
            /\ poolPaid = [f \in Families |-> IF f \in s THEN Abs(per) ELSE 0]
            /\ remainder = held - per * n
        BY <2>1, <2>4 DEF PoolHolds, PoolValues, Share
      <3> HIDE DEF s
      <3>2. n \in Nat \ {0}
        BY <3>1, PoolAssumption, SomeHouseholds
      <3>3. Sum(poolPaid, Families) = Abs(per) * n
        <4>1. Abs(per) \in Int
          <5> HIDE DEF n
          <5>1. per \in Int
            BY <3>1, <3>2
          <5> HIDE DEF per
          <5> QED
            BY <5>1 DEF Abs
        <4>2. s \in SUBSET Families /\ \A f \in Families : poolPaid[f] = IF f \in s THEN Abs(per) ELSE 0
          BY <3>1
        <4> HIDE DEF per
        <4> QED
          BY <4>1, <4>2, SumOfEqual, PoolAssumption
      <3>4. remainder \in 0..(n - 1) /\ (held >= 0 => Abs(per) * n + remainder = held)
        <4> HIDE DEF n
        <4>1. per \in Int /\ n * per <= held /\ held < n * per + n /\ (held >= 0 => per >= 0)
          BY <3>1, <3>2
        <4>2. PICK m \in Int : m = n * per
          BY <3>2, <4>1
        <4>3. per * n = m /\ (held >= 0 => Abs(per) * n = m)
          BY <3>2, <4>1, <4>2 DEF Abs
        <4> QED
          BY <3>1, <3>2, <4>1, <4>2, <4>3
      <3>5. /\ \A f \in Families \ s : poolPaid[f] = 0
            /\ \A f, g \in s : poolPaid[f] = poolPaid[g]
        BY <3>1
      <3>6. s # {} /\ poolRow.total = given
        BY <3>1
      <3>7. held >= 0 => Sum(poolPaid, Families) + remainder = held
        BY <3>3, <3>4
      <3> HIDE DEF per
      <3> QED
        BY <2>2, <2>4, <3>4, <3>5, <3>6, <3>7 DEF PoolAddsUp, s
    <2> QED
      BY <2>3, <2>4
  <1> QED
    BY <1>1, PoolInvInit, PoolInvStep, PTL DEF PoolSpec

-----------------------------------------------------------------------------
(* The ledger: the arithmetic.                                             *)

\* A quotient rounds to the nearest number.
LEMMA RoundedIsNear ==
  ASSUME NEW n \in Int, NEW d \in Nat \ {0}
  PROVE  /\ Rounded(n, d) \in Int
         /\ -d <= 2 * (Rounded(n, d) * d - n) /\ 2 * (Rounded(n, d) * d - n) <= d
  <1> DEFINE m == 2 * n + d
             e == 2 * d
             q == m \div e
  <1>1. m \in Int /\ e \in Int /\ e > 0
    OBVIOUS
  <1>2. q \in Int /\ e * q <= m /\ m < e * q + e
    <2> HIDE DEF m, e
    <2> QED
      BY <1>1
  <1>3. q = Rounded(n, d)
    BY DEF Rounded
  <1> HIDE DEF q
  <1>4. e * q = 2 * (q * d)
    BY <1>2
  <1> QED
    BY <1>2, <1>3, <1>4

\* A part that was rounded is added to the parts, and to the whole.
CloseTo(sum, exact, unit, n) == LET d == 2 * (sum * unit - exact) IN -unit * n <= d /\ d <= unit * n

LEMMA CloseAdds ==
  ASSUME NEW sum \in Int, NEW exact \in Int, NEW unit \in Nat \ {0}, NEW n \in Nat,
         CloseTo(sum, exact, unit, n), NEW q \in Int, NEW x \in Int,
         -unit <= 2 * (q * unit - x) /\ 2 * (q * unit - x) <= unit
  PROVE  CloseTo(sum + q, exact + x, unit, n + 1)
  <1>1. PICK a \in Int : a = sum * unit
    OBVIOUS
  <1>2. PICK b \in Int : b = q * unit
    OBVIOUS
  <1>3. PICK c \in Int : c = unit * n
    OBVIOUS
  <1>4. (sum + q) * unit = a + b /\ unit * (n + 1) = c + unit /\ -unit * (n + 1) = -c - unit /\ -unit * n = -c
    BY <1>1, <1>2, <1>3
  <1>5. -c <= 2 * (a - exact) /\ 2 * (a - exact) <= c
    BY <1>1, <1>3, <1>4 DEF CloseTo
  <1>6. -unit <= 2 * (b - x) /\ 2 * (b - x) <= unit
    BY <1>2
  <1>7. -c - unit <= 2 * ((a + b) - (exact + x)) /\ 2 * ((a + b) - (exact + x)) <= c + unit
    BY <1>5, <1>6
  <1> QED
    BY <1>4, <1>7 DEF CloseTo

LEMMA CloseLonger ==
  ASSUME NEW sum \in Int, NEW exact \in Int, NEW unit \in Nat \ {0}, NEW n \in Nat,
         CloseTo(sum, exact, unit, n)
  PROVE  CloseTo(sum, exact, unit, n + 1)
  <1>3. PICK c \in Int : c = unit * n
    OBVIOUS
  <1>4. unit * (n + 1) = c + unit /\ -unit * (n + 1) = -c - unit /\ -unit * n = -c
    BY <1>3
  <1>5. PICK a \in Int : a = 2 * (sum * unit - exact)
    OBVIOUS
  <1>6. -c <= a /\ a <= c
    BY <1>3, <1>4, <1>5 DEF CloseTo
  <1> QED
    BY <1>4, <1>5, <1>6 DEF CloseTo

-----------------------------------------------------------------------------
\* No party has two wallets.
OneEach(ws) == \A i, j \in 1..Len(ws) : ws[i].of = ws[j].of => i = j

\* The party has no wallet and no money, or a wallet with so much.
Holds(ws, p, b) ==
  \/ b = 0 /\ \A i \in 1..Len(ws) : ws[i].of # p
  \/ \E i \in 1..Len(ws) : ws[i].of = p /\ ws[i].balance = b

LEMMA BalanceIs ==
  ASSUME wallets \in Seq(Wallet), OneEach(wallets), NEW p \in Parties, NEW b, Holds(wallets, p, b)
  PROVE  Balance(p) = b /\ Cardinality(Find(p)) <= 1
  <1> DEFINE n == Len(wallets)
             f == [i \in 1..n |-> IF wallets[i].of = p THEN wallets[i].balance ELSE 0]
  <1>1. Balance(p) = Sum(f, 1..n)
    BY DEF Balance, FoldFunction, Sum
  <1>2. n \in Nat /\ IsFiniteSet(1..n)
    BY FS_Interval
  <1>3. CASE b = 0 /\ \A i \in 1..n : wallets[i].of # p
    <2>1. \A i \in 1..n : f[i] = IF i \in {} THEN 0 ELSE 0
      BY <1>3
    <2> HIDE DEF f
    <2>2. Sum(f, 1..n) = 0 * Cardinality({}) /\ Cardinality({}) = 0
      BY <1>2, <2>1, SumOfEqual, FS_EmptySet
    <2>3. Find(p) = {}
      BY <1>3 DEF Find
    <2> QED
      BY <1>1, <1>3, <2>2, <2>3
  <1>4. ASSUME NEW i \in 1..n, wallets[i].of = p, wallets[i].balance = b
        PROVE  Balance(p) = b /\ Cardinality(Find(p)) <= 1
    <2>1. \A j \in 1..n : wallets[j].of = p <=> j = i
      BY <1>4 DEF OneEach
    <2>2. b \in Int
      <3>1. wallets[i] \in Wallet
        OBVIOUS
      <3> QED
        BY <1>4, <3>1 DEF Wallet
    <2>3. {i} \in SUBSET (1..n) /\ \A j \in 1..n : f[j] = IF j \in {i} THEN b ELSE 0
      BY <1>4, <2>1
    <2> HIDE DEF f
    <2>4. Sum(f, 1..n) = b * Cardinality({i}) /\ Cardinality({i}) = 1
      BY <1>2, <2>2, <2>3, SumOfEqual, FS_Singleton
    <2>5. Find(p) = {i}
      BY <2>1 DEF Find
    <2> QED
      BY <1>1, <2>2, <2>4, <2>5
  <1> QED
    BY <1>3, <1>4 DEF Holds

\* What was there stays; what comes is of a party that had none.
Longer(ws, new, p, found) ==
  /\ new \in Seq(Wallet) /\ Len(ws) <= Len(new)
  /\ \A i \in 1..Len(ws) : new[i].of = ws[i].of
  /\ \A i \in 1..Len(new) : i \notin 1..Len(ws) => new[i].of = p /\ found[p] = 0

\* A credit goes to the wallet that was found, or to a new one at the end.
LEMMA CreditedGrows ==
  ASSUME NEW ws \in Seq(Wallet), NEW found \in [Parties -> Nat], NEW p \in Parties, NEW amount \in Int
  PROVE  Longer(ws, Credited(ws, found, p, amount), p, found)
  <1> USE DEF Longer
  <1>1. CASE found[p] = 0
    <2> DEFINE w == [of |-> p, balance |-> amount]
    <2>1. w \in Wallet /\ w.of = p /\ Credited(ws, found, p, amount) = Append(ws, w)
      BY <1>1 DEF Wallet, Credited
    <2> HIDE DEF w
    <2> QED
      BY <1>1, <2>1
  <1>2. CASE found[p] # 0
    <2> DEFINE new == [ws EXCEPT ![found[p]].balance = @ + amount]
    <2>1. ASSUME NEW i \in 1..Len(ws)
          PROVE  new[i] \in Wallet /\ new[i].of = ws[i].of
      <3>1. ws[i] \in Wallet
        OBVIOUS
      <3>2. CASE i = found[p]
        <4>1. new[i] = [ws[i] EXCEPT !.balance = @ + amount]
          BY <3>2
        <4>2. ASSUME NEW w \in Wallet
              PROVE  LET v == [w EXCEPT !.balance = @ + amount] IN v \in Wallet /\ v.of = w.of
          <5> DEFINE b == w.balance + amount
          <5>1. b \in Int
            BY DEF Wallet
          <5> HIDE DEF b
          <5>2. LET v == [w EXCEPT !.balance = b] IN v \in Wallet /\ v.of = w.of
            BY <5>1 DEF Wallet
          <5> QED
            BY <5>2 DEF b
        <4> QED
          BY <3>1, <4>1, <4>2
      <3>3. CASE i # found[p]
        BY <3>1, <3>3
      <3> QED
        BY <3>2, <3>3
    <2>2. DOMAIN new = 1..Len(ws) /\ new = [i \in 1..Len(ws) |-> new[i]]
      OBVIOUS
    <2>3. Credited(ws, found, p, amount) = new
      BY <1>2 DEF Credited
    <2> HIDE DEF new
    <2>4. new \in Seq(Wallet) /\ Len(new) = Len(ws)
      BY <2>1, <2>2
    <2> QED
      BY <2>1, <2>3, <2>4
  <1> QED
    BY <1>1, <1>2

\* The wallet that was found is the party's, or it has none.
FoundIn(ws, n, p) ==
  IF n = 0 THEN \A i \in 1..Len(ws) : ws[i].of # p ELSE n \in 1..Len(ws) /\ ws[n].of = p

LEMMA CreditedHolds ==
  ASSUME NEW ws \in Seq(Wallet), NEW found \in [Parties -> Nat], NEW p \in Parties, NEW amount \in Int,
         OneEach(ws), FoundIn(ws, found[p], p)
  PROVE  LET new == Credited(ws, found, p, amount) IN
         /\ OneEach(new)
         /\ \A b \in Int : Holds(ws, p, b) => Holds(new, p, b + amount)
         /\ \A q \in Parties \ {p}, b \in Int : Holds(ws, q, b) => Holds(new, q, b)
         /\ \A q \in Parties \ {p} : FoundIn(ws, found[q], q) => FoundIn(new, found[q], q)
  <1>1. CASE found[p] = 0
    <2> DEFINE w == [of |-> p, balance |-> amount]
    <2>1. w \in Wallet /\ w.of = p /\ w.balance = amount /\ Credited(ws, found, p, amount) = Append(ws, w)
      BY <1>1 DEF Wallet, Credited
    <2>2. \A i \in 1..Len(ws) : ws[i].of # p
      BY <1>1 DEF FoundIn
    <2> HIDE DEF w
    <2> DEFINE new == Append(ws, w)
    <2>3. /\ Len(new) = Len(ws) + 1 /\ new[Len(ws) + 1] = w
          /\ \A i \in 1..Len(ws) : new[i] = ws[i]
          /\ Len(ws) \in Nat
      BY <2>1
    <2> HIDE DEF new
    <2>4. \A i \in 1..Len(new) : i \in 1..Len(ws) \/ i = Len(ws) + 1
      BY <2>3
    <2>5. OneEach(new)
      BY <2>1, <2>2, <2>3, <2>4 DEF OneEach
    <2>6. ASSUME NEW b \in Int, Holds(ws, p, b) PROVE Holds(new, p, b + amount)
      <3>1. b = 0 /\ b + amount = amount
        BY <2>2, <2>6 DEF Holds
      <3>2. Len(ws) + 1 \in 1..Len(new) /\ new[Len(ws) + 1].of = p /\ new[Len(ws) + 1].balance = amount
        BY <2>1, <2>3
      <3> QED
        BY <3>1, <3>2 DEF Holds
    <2>7. ASSUME NEW q \in Parties \ {p}, NEW b \in Int, Holds(ws, q, b) PROVE Holds(new, q, b)
      BY <2>1, <2>3, <2>4, <2>7 DEF Holds
    <2>8. ASSUME NEW q \in Parties \ {p}, FoundIn(ws, found[q], q) PROVE FoundIn(new, found[q], q)
      BY <2>1, <2>3, <2>4, <2>8 DEF FoundIn
    <2> QED
      BY <2>1, <2>5, <2>6, <2>7, <2>8 DEF new
  <1>2. CASE found[p] # 0
    <2> DEFINE new == [ws EXCEPT ![found[p]].balance = @ + amount]
    <2>0. found[p] \in 1..Len(ws) /\ ws[found[p]].of = p
      BY <1>2 DEF FoundIn
    <2>1. ASSUME NEW i \in 1..Len(ws)
          PROVE  /\ new[i].of = ws[i].of
                 /\ i # found[p] => new[i].balance = ws[i].balance
                 /\ i = found[p] => new[i].balance = ws[i].balance + amount
      <3>1. ws[i] \in Wallet
        OBVIOUS
      <3>2. CASE i = found[p]
        <4>1. new[i] = [ws[i] EXCEPT !.balance = @ + amount]
          BY <3>2
        <4> QED
          BY <3>1, <3>2, <4>1 DEF Wallet
      <3>3. CASE i # found[p]
        BY <3>1, <3>3
      <3> QED
        BY <3>2, <3>3
    <2>2. Len(new) = Len(ws)
      OBVIOUS
    <2>3. Credited(ws, found, p, amount) = new
      BY <1>2 DEF Credited
    <2> HIDE DEF new
    <2>4. OneEach(new)
      BY <2>1, <2>2 DEF OneEach
    <2>5. ASSUME NEW b \in Int, Holds(ws, p, b) PROVE Holds(new, p, b + amount)
      <3>1. ws[found[p]].balance = b
        BY <2>0, <2>5 DEF Holds, OneEach
      <3> QED
        BY <2>0, <2>1, <2>2, <3>1 DEF Holds
    <2>6. ASSUME NEW q \in Parties \ {p}, NEW b \in Int, Holds(ws, q, b) PROVE Holds(new, q, b)
      BY <2>0, <2>1, <2>2, <2>6 DEF Holds
    <2>7. ASSUME NEW q \in Parties \ {p}, FoundIn(ws, found[q], q) PROVE FoundIn(new, found[q], q)
      BY <2>1, <2>2, <2>7 DEF FoundIn
    <2> QED
      BY <2>3, <2>4, <2>5, <2>6, <2>7
  <1> QED
    BY <1>1, <1>2

-----------------------------------------------------------------------------
\* What the work that was paid amounts to, for other rows than these too.
PaidAmount(wk, ws) == Sum([w \in Works |-> wk[w].amount], {w \in ws : wk[w].paid})

LEMMA WorksAreFinite == IsFiniteSet(Works) /\ Hauls \subseteq Works
  BY LedgerAssumption, FS_Union DEF Works

LEMMA WorkNumbers ==
  ASSUME NEW wk \in [Works -> Work], NEW ws \in SUBSET Works
  PROVE  /\ IsFiniteSet({w \in ws : wk[w].paid})
         /\ \A w \in Works : wk[w].amount \in Nat /\ wk[w].paid \in BOOLEAN
         /\ PaidAmount(wk, ws) \in Int
  <1>1. \A w \in Works : wk[w].amount \in Nat /\ wk[w].paid \in BOOLEAN
    BY LedgerAssumption DEF Work
  <1> DEFINE P == {w \in ws : wk[w].paid}
             f == [w \in Works |-> wk[w].amount]
  <1>2. P \in SUBSET Works /\ IsFiniteSet(P)
    BY WorksAreFinite, FS_Subset
  <1>3. \A w \in P : f[w] \in Int
    BY <1>1, <1>2
  <1> HIDE DEF f, P
  <1>4. Sum(f, P) \in Int
    BY <1>2, <1>3, SumInt
  <1> QED
    BY <1>1, <1>2, <1>4 DEF f, P, PaidAmount

LEMMA NothingPaid ==
  ASSUME NEW wk \in [Works -> Work], NEW ws \in SUBSET Works, \A w \in Works : ~wk[w].paid
  PROVE  PaidAmount(wk, ws) = 0
  <1>1. {w \in ws : wk[w].paid} = {}
    OBVIOUS
  <1> QED
    BY <1>1, SumOfNone DEF PaidAmount

\* One row changes: what was paid for it before goes, what is paid now comes.
LEMMA PaidMoves ==
  ASSUME NEW wk \in [Works -> Work], NEW new \in [Works -> Work], NEW w \in Works,
         \A x \in Works \ {w} : new[x] = wk[x], NEW ws \in SUBSET Works
  PROVE  PaidAmount(new, ws) =
           IF w \in ws
           THEN PaidAmount(wk, ws) - (IF wk[w].paid THEN wk[w].amount ELSE 0)
                                   + (IF new[w].paid THEN new[w].amount ELSE 0)
           ELSE PaidAmount(wk, ws)
  <1> DEFINE P == {x \in ws : wk[x].paid}
             Q == {x \in ws : new[x].paid}
             f == [x \in Works |-> wk[x].amount]
             g == [x \in Works |-> new[x].amount]
             R == {x \in ws \ {w} : wk[x].paid}
  <1>1. IsFiniteSet(P) /\ IsFiniteSet(Q) /\ P \subseteq Works /\ Q \subseteq Works /\ R \subseteq P
    BY WorkNumbers
  <1>2. \A x \in Works : f[x] \in Int /\ g[x] \in Int
    <2>1. \A x \in Works : wk[x].amount \in Nat
      BY WorkNumbers
    <2>2. \A x \in Works : new[x].amount \in Nat
      BY WorkNumbers
    <2> QED
      BY <2>1, <2>2
  <1>3. R = P \ {w} /\ R = Q \ {w}
    OBVIOUS
  <1>4. \A x \in R : g[x] = f[x]
    OBVIOUS
  <1>5. f[w] = wk[w].amount /\ g[w] = new[w].amount
    OBVIOUS
  <1>6. (w \in P <=> w \in ws /\ wk[w].paid) /\ (w \in Q <=> w \in ws /\ new[w].paid)
    OBVIOUS
  <1>7. PaidAmount(wk, ws) = Sum(f, P) /\ PaidAmount(new, ws) = Sum(g, Q)
    BY DEF PaidAmount
  <1> HIDE DEF P, Q, R, f, g
  <1>8. IsFiniteSet(R) /\ \A x \in R : f[x] \in Int
    BY <1>1, <1>2, FS_Subset
  <1>9. Sum(g, R) = Sum(f, R) /\ Sum(f, R) \in Int
    BY <1>4, <1>8, SumSame, SumInt
  <1>10. Sum(f, P) = Sum(f, R) + IF w \in P THEN f[w] ELSE 0
    <2>1. CASE w \in P
      <3>1. \A x \in P : f[x] \in Int
        BY <1>1, <1>2
      <3>2. Sum(f, P) = f[w] + Sum(f, P \ {w})
        BY <1>1, <2>1, <3>1, SumSplits
      <3> QED
        BY <1>2, <1>3, <1>9, <2>1, <3>2
    <2>2. CASE w \notin P
      <3>1. R = P
        BY <1>3, <2>2
      <3> QED
        BY <1>9, <2>2, <3>1
    <2> QED
      BY <2>1, <2>2
  <1>11. Sum(g, Q) = Sum(g, R) + IF w \in Q THEN g[w] ELSE 0
    <2>1. CASE w \in Q
      <3>1. \A x \in Q : g[x] \in Int
        BY <1>1, <1>2
      <3>2. Sum(g, Q) = g[w] + Sum(g, Q \ {w})
        BY <1>1, <2>1, <3>1, SumSplits
      <3>3. Sum(g, Q) = g[w] + Sum(g, R) /\ Sum(g, R) \in Int /\ g[w] \in Int
        BY <1>2, <1>3, <1>9, <3>2
      <3> QED
        BY <2>1, <3>3
    <2>2. CASE w \notin Q
      <3>1. R = Q
        BY <1>3, <2>2
      <3> QED
        BY <1>9, <2>2, <3>1
    <2> QED
      BY <2>1, <2>2
  <1>12. f[w] \in Int /\ g[w] \in Int
    BY <1>2
  <1> QED
    BY <1>5, <1>6, <1>7, <1>9, <1>10, <1>11, <1>12

\* The percentage of a rule is one, if there is a rule.
LEMMA LegacyPercentIs ==
  ASSUME NEW s \in Settings
  PROVE  LegacyPercent(s) \in Nat
  <1>1. \A i \in 1..3 : s.rules[i] \in Percents \union {NoRule}
    BY DEF Settings
  <1>2. Percents \subseteq Nat
    BY LedgerAssumption
  <1>3. ASSUME NEW i \in 1..3, s.rules[i] # NoRule
        PROVE  \E j \in 1..3 : s.rules[j] # NoRule /\ \A m \in 1..(j - 1) : s.rules[m] = NoRule
    <2>1. CASE s.rules[1] # NoRule
      <3>1. 1 \in 1..3 /\ \A m \in 1..(1 - 1) : FALSE
        OBVIOUS
      <3> QED
        BY <2>1, <3>1
    <2>2. CASE s.rules[1] = NoRule /\ s.rules[2] # NoRule
      <3>1. 2 \in 1..3 /\ \A m \in 1..(2 - 1) : m = 1
        OBVIOUS
      <3> QED
        BY <2>2, <3>1
    <2>3. CASE s.rules[1] = NoRule /\ s.rules[2] = NoRule
      <3>1. i = 3 /\ 3 \in 1..3 /\ \A m \in 1..(3 - 1) : m = 1 \/ m = 2
        BY <1>3, <2>3
      <3> QED
        BY <1>3, <2>3, <3>1
    <2> QED
      BY <2>1, <2>2, <2>3
  <1>4. RuleOf(s) = NoRule \/ RuleOf(s) \in Percents
    BY <1>1, <1>3 DEF RuleOf
  <1> QED
    BY <1>2, <1>4 DEF LegacyPercent

-----------------------------------------------------------------------------
\* What a split in flight carries, fresh or not, and that it has read the
\* rows it is computed from.
LedgerNamed(k) ==
  k.op # "free" =>
    /\ {"of", "s", "found"} \subseteq DOMAIN k
    /\ k.of \in Works /\ k.s \in Settings /\ k.found \in [Parties -> Nat]
    /\ {k.of, "settings"} \subseteq k.reads
    /\ \A p \in Parties : k.found[p] = 0 => p \in k.reads
    /\ \/ k.op = "credit" /\ "amount" \in DOMAIN k /\ k.amount \in Nets
       \/ /\ k.op = "adjust" /\ {"before", "after", "paid"} \subseteq DOMAIN k
          /\ k.of \in Hauls /\ k.before \in Nets /\ k.after \in Nets /\ k.paid \in BOOLEAN

\* What a request that is fresh has read is so.
LedgerSeen(k) ==
  k.fresh /\ k.op # "free" =>
    /\ k.s = settings
    /\ \A p \in Parties : FoundIn(wallets, k.found[p], p)
    /\ k.op = "credit" => work[k.of].status = "open" /\ k.amount = work[k.of].amount
    /\ k.op = "adjust" => k.before = work[k.of].amount /\ k.paid = work[k.of].paid

\* The values of the rows; nothing was split, if there is no entry.
LedgerValues ==
  /\ settings \in Settings /\ work \in [Works -> Work] /\ wallets \in Seq(Wallet)
  /\ pot \in Int /\ entries \in Nat /\ repriced \in BOOLEAN /\ premature \in BOOLEAN
  /\ \A w \in Works : work[w].status = "open" => ~work[w].paid
  /\ entries = 0 => wallets = <<>> /\ pot = 0 /\ \A w \in Works : ~work[w].paid

\* The shares, for settings that have stood.
SharesHold(s, wk, ws, total, n, early) ==
  \E o, c \in Int :
    LET fare == PaidAmount(wk, Works) * s.tariff
        hauled == PaidAmount(wk, Hauls) IN
    /\ Holds(ws, "owner", o) /\ Holds(ws, "platform", c)
    /\ o = IF s.ownerActive THEN fare - c ELSE 0
    /\ CloseTo(c, fare * s.fee, Whole, n)
    /\ ~early /\ s.householdActive =>
         IF LegacyPercent(s) > 0
         THEN CloseTo(total, hauled * s.tariff * LegacyPercent(s), Whole, n)
         ELSE CloseTo(total, hauled * s.perTon, Ton, n)

\* The invariant of the ledger.
LedgerInv ==
  /\ AllRequests
  /\ LedgerValues
  /\ \A r \in Requests : LedgerNamed(request[r]) /\ LedgerSeen(request[r])
  /\ ~overtaken => OneEach(wallets) /\ (~repriced => SharesHold(settings, work, wallets, pot, entries, premature))

LEMMA SettingsAre ==
  ASSUME NEW s \in Settings
  PROVE  /\ s.fee \in Nat /\ s.tariff \in Nat /\ s.perTon \in Nat
         /\ s.ownerActive \in BOOLEAN /\ s.householdActive \in BOOLEAN
         /\ Whole \in Nat \ {0} /\ Ton \in Nat \ {0}
  <1>1. Whole \in Nat \ {0} /\ Ton \in Nat \ {0}
    BY LedgerAssumption
  <1>2. Fees \subseteq Nat /\ Tariffs \subseteq Nat /\ PerTons \subseteq Nat
    BY LedgerAssumption
  <1>3. /\ s.fee \in Fees /\ s.tariff \in Tariffs /\ s.perTon \in PerTons
        /\ s.ownerActive \in BOOLEAN /\ s.householdActive \in BOOLEAN
    BY DEF Settings
  <1> QED
    BY <1>1, <1>2, <1>3

LEMMA CloseAtFirst ==
  ASSUME NEW unit \in Nat \ {0}
  PROVE  CloseTo(0, 0, unit, 0)
  BY DEF CloseTo

\* Nothing was split yet, at whatever settings.
LEMMA SharesOfNothing ==
  ASSUME NEW s \in Settings, NEW wk \in [Works -> Work], \A w \in Works : ~wk[w].paid, NEW early
  PROVE  SharesHold(s, wk, <<>>, 0, 0, early) /\ OneEach(<<>>)
  <1>1. PaidAmount(wk, Works) = 0 /\ PaidAmount(wk, Hauls) = 0
    BY NothingPaid, WorksAreFinite
  <1>2. Holds(<<>>, "owner", 0) /\ Holds(<<>>, "platform", 0) /\ OneEach(<<>>)
    BY DEF Holds, OneEach
  <1>3. /\ s.fee \in Nat /\ s.tariff \in Nat /\ s.perTon \in Nat
        /\ Whole \in Nat \ {0} /\ Ton \in Nat \ {0} /\ LegacyPercent(s) \in Nat
    BY SettingsAre, LegacyPercentIs
  <1>4. CloseTo(0, 0, Whole, 0) /\ CloseTo(0, 0, Ton, 0)
    BY <1>3, CloseAtFirst
  <1>5. 0 * s.tariff = 0 /\ 0 * s.fee = 0 /\ 0 * s.perTon = 0 /\ 0 * LegacyPercent(s) = 0 /\ 0 - 0 = 0
    BY <1>3
  <1>6. IF LegacyPercent(s) > 0
        THEN CloseTo(0, 0 * s.tariff * LegacyPercent(s), Whole, 0)
        ELSE CloseTo(0, 0 * s.perTon, Ton, 0)
    BY <1>4, <1>5
  <1>7. CloseTo(0, 0 * s.tariff * s.fee, Whole, 0)
    BY <1>4, <1>5
  <1>8. 0 = IF s.ownerActive THEN 0 * s.tariff - 0 ELSE 0
    BY <1>5
  <1> QED
    BY <1>1, <1>2, <1>6, <1>7, <1>8 DEF SharesHold

LEMMA LedgerInvInit == LedgerInit => LedgerInv
  <1> SUFFICES ASSUME LedgerInit PROVE LedgerInv
    OBVIOUS
  <1>1. AllRequests /\ \A r \in Requests : request[r] = Free
    BY FreeIsRequest DEF LedgerInit, HandlersInit, AllRequests
  <1>2. settings \in Settings
    BY DEF LedgerInit, Settings
  <1>3. work \in [Works -> Work] /\ \A w \in Works : ~work[w].paid /\ work[w] \in Work
    BY DEF LedgerInit, Work
  <1>4. LedgerValues
    <2>1. wallets = <<>> /\ pot = 0 /\ entries = 0 /\ repriced = FALSE /\ premature = FALSE
      BY DEF LedgerInit
    <2>2. wallets \in Seq(Wallet) /\ pot \in Int /\ entries \in Nat
      BY <2>1
    <2>3. repriced \in BOOLEAN /\ premature \in BOOLEAN
      BY <2>1
    <2> QED
      BY <1>2, <1>3, <2>1, <2>2, <2>3 DEF LedgerValues
  <1>5. SharesHold(settings, work, <<>>, 0, 0, premature) /\ OneEach(<<>>)
    BY <1>2, <1>3, SharesOfNothing
  <1>6. wallets = <<>> /\ pot = 0 /\ entries = 0
    BY DEF LedgerInit
  <1> QED
    BY <1>1, <1>4, <1>5, <1>6 DEF LedgerInv, LedgerNamed, LedgerSeen, Free

LEMMA LedgerGoes ==
  ASSUME LedgerInv, NEW r \in Requests, NEW k, IsRequest(k), LedgerNamed(k), LedgerSeen(k),
         UNCHANGED ledgerRows,
         AllRequests', request'[r] = k, \A q \in Requests \ {r} : request'[q] = request[q],
         overtaken' = overtaken
  PROVE  LedgerInv'
  <1>1. UNCHANGED <<settings, work, wallets, pot, entries, repriced, premature>>
    BY DEF ledgerRows
  <1>2. LedgerValues'
    BY <1>1 DEF LedgerInv, LedgerValues
  <1>3. ~overtaken' => OneEach(wallets)' /\ (~repriced' => SharesHold(settings, work, wallets, pot, entries, premature)')
    BY <1>1 DEF LedgerInv
  <1>4. \A q \in Requests : LedgerNamed(request[q])' /\ LedgerSeen(request[q])'
    BY <1>1 DEF LedgerInv, LedgerNamed, LedgerSeen
  <1> QED
    BY <1>2, <1>3, <1>4 DEF LedgerInv

\* What is found is what a party has.
LEMMA FoundIsIn ==
  ASSUME wallets \in Seq(Wallet), NEW f \in Found
  PROVE  f \in [Parties -> Nat] /\ \A p \in Parties : FoundIn(wallets, f[p], p)
  <1>1. f \in [Parties -> Nat]
    BY DEF Found
  <1>2. ASSUME NEW p \in Parties PROVE FoundIn(wallets, f[p], p)
    <2>1. IF Find(p) = {} THEN f[p] = 0 ELSE f[p] \in Find(p)
      BY DEF Found
    <2>2. f[p] \in Nat
      BY <1>1
    <2> QED
      BY <2>1, <2>2 DEF Find, FoundIn
  <1> QED
    BY <1>1, <1>2

LEMMA LedgerReadsInv ==
  ASSUME LedgerInv, NEW r \in Requests,
         CreditRead(r) \/ AdjustRead(r) \/ (Ends(r, FALSE) /\ UNCHANGED ledgerRows)
  PROVE  LedgerInv'
  <1>v. settings \in Settings /\ work \in [Works -> Work] /\ wallets \in Seq(Wallet)
    BY DEF LedgerInv, LedgerValues
  <1>f. ASSUME NEW f \in Found, NEW p \in Parties, f[p] = 0, NEW w PROVE p \in LedgerReads(w)
    <2>1. IF Find(p) = {} THEN f[p] = 0 ELSE f[p] \in Find(p)
      BY DEF Found
    <2> QED
      BY <1>f, <2>1 DEF LedgerReads, Find
  <1>1. CASE CreditRead(r)
    <2>1. PICK w \in Works, f \in Found :
            /\ work[w].status = "open"
            /\ Begins(r, [op |-> "credit", reads |-> LedgerReads(w), fresh |-> TRUE, of |-> w,
                          s |-> settings, found |-> f, amount |-> work[w].amount])
      BY <1>1 DEF CreditRead
    <2> DEFINE k == [op |-> "credit", reads |-> LedgerReads(w), fresh |-> TRUE, of |-> w,
                     s |-> settings, found |-> f, amount |-> work[w].amount]
    <2>2. work[w].amount \in Nets /\ {w, "settings"} \subseteq LedgerReads(w)
      BY <1>v DEF Work, LedgerReads
    <2>3. f \in [Parties -> Nat] /\ \A p \in Parties : FoundIn(wallets, f[p], p)
      BY <1>v, FoundIsIn
    <2>4. IsRequest(k)
      BY DEF IsRequest
    <2>5. LedgerNamed(k)
      BY <1>v, <1>f, <2>2, <2>3 DEF LedgerNamed
    <2>6. LedgerSeen(k)
      BY <2>1, <2>3 DEF LedgerSeen
    <2>7. Goes(r, k) /\ UNCHANGED ledgerRows
      BY <1>1, <2>1 DEF Begins, CreditRead
    <2> HIDE DEF k
    <2>8. /\ AllRequests' /\ request'[r] = k
          /\ \A q \in Requests \ {r} : request'[q] = request[q]
          /\ overtaken' = overtaken
      BY <2>4, <2>7, GoesOn DEF LedgerInv
    <2> QED
      BY <2>4, <2>5, <2>6, <2>7, <2>8, LedgerGoes
  <1>2. CASE AdjustRead(r)
    <2>1. PICK h \in Hauls, n \in Nets, f \in Found :
            Begins(r, [op |-> "adjust", reads |-> LedgerReads(h), fresh |-> TRUE, of |-> h,
                       s |-> settings, found |-> f, before |-> work[h].amount, after |-> n,
                       paid |-> work[h].paid])
      BY <1>2 DEF AdjustRead
    <2> DEFINE k == [op |-> "adjust", reads |-> LedgerReads(h), fresh |-> TRUE, of |-> h,
                     s |-> settings, found |-> f, before |-> work[h].amount, after |-> n,
                     paid |-> work[h].paid]
    <2>w. h \in Works
      BY WorksAreFinite
    <2>2. work[h].amount \in Nets /\ work[h].paid \in BOOLEAN /\ {h, "settings"} \subseteq LedgerReads(h)
      BY <1>v, <2>w DEF Work, LedgerReads
    <2>3. f \in [Parties -> Nat] /\ \A p \in Parties : FoundIn(wallets, f[p], p)
      BY <1>v, FoundIsIn
    <2>4. IsRequest(k)
      BY DEF IsRequest
    <2>5. LedgerNamed(k)
      BY <1>v, <1>f, <2>w, <2>2, <2>3 DEF LedgerNamed
    <2>6. LedgerSeen(k)
      BY <2>3 DEF LedgerSeen
    <2>7. Goes(r, k) /\ UNCHANGED ledgerRows
      BY <1>2, <2>1 DEF Begins, AdjustRead
    <2> HIDE DEF k
    <2>8. /\ AllRequests' /\ request'[r] = k
          /\ \A q \in Requests \ {r} : request'[q] = request[q]
          /\ overtaken' = overtaken
      BY <2>4, <2>7, GoesOn DEF LedgerInv
    <2> QED
      BY <2>4, <2>5, <2>6, <2>7, <2>8, LedgerGoes
  <1>3. CASE Ends(r, FALSE) /\ UNCHANGED ledgerRows
    <2>1. /\ AllRequests' /\ request'[r] = Free
          /\ \A q \in Requests \ {r} : request'[q] = request[q]
          /\ overtaken' = overtaken
      BY <1>3, EndsHere DEF LedgerInv
    <2>2. LedgerNamed(Free) /\ LedgerSeen(Free)
      BY DEF LedgerNamed, LedgerSeen, Free
    <2> QED
      BY <1>3, <2>1, <2>2, FreeIsRequest, LedgerGoes
  <1> QED
    BY <1>1, <1>2, <1>3

\* A wallet that comes is of a party that is among what was written.
WalletsGrow(W) ==
  /\ wallets' \in Seq(Wallet) /\ Len(wallets) <= Len(wallets')
  /\ \A i \in 1..Len(wallets) : wallets'[i].of = wallets[i].of
  /\ \A i \in 1..Len(wallets') : i \notin 1..Len(wallets) => wallets'[i].of \in W

\* After a write of W, what is still fresh has seen nothing of it.
LEMMA LedgerWritten ==
  ASSUME LedgerInv, NEW r \in Requests, NEW W, Wrote(r, W, Free), WalletsGrow(W),
         "settings" \notin W => settings' = settings,
         \A w \in Works : w \notin W => work'[w] = work[w]
  PROVE  /\ AllRequests'
         /\ \A q \in Requests : LedgerNamed(request[q])' /\ LedgerSeen(request[q])'
         /\ ~overtaken' => ~overtaken /\ request[r].fresh
  <1>1. /\ AllRequests' /\ request'[r] = Free
        /\ \A q \in Requests \ {r} :
              /\ request'[q].op = request[q].op
              /\ request'[q].reads = request[q].reads
              /\ DOMAIN request'[q] = DOMAIN request[q]
              /\ \A x \in DOMAIN request[q] \ {"fresh"} : request'[q][x] = request[q][x]
              /\ request'[q].fresh =>
                   request'[q] = request[q] /\ request[q].fresh /\ request[q].reads \intersect W = {}
        /\ ~overtaken' => ~overtaken /\ request[r].fresh
    BY WroteOver, FreeIsRequest DEF LedgerInv
  <1>2. ASSUME NEW q \in Requests PROVE LedgerNamed(request[q])'
    <2>1. CASE q = r
      BY <1>1, <2>1 DEF LedgerNamed, Free
    <2>2. CASE q # r
      <3>1. LedgerNamed(request[q])
        BY DEF LedgerInv
      <3> QED
        BY <1>1, <2>2, <3>1 DEF LedgerNamed
    <2> QED
      BY <2>1, <2>2
  <1>3. ASSUME NEW q \in Requests PROVE LedgerSeen(request[q])'
    <2>1. CASE q = r
      BY <1>1, <2>1 DEF LedgerSeen, Free
    <2>2. CASE q # r
      <3> SUFFICES ASSUME request'[q].fresh, request'[q].op # "free" PROVE LedgerSeen(request[q])'
        BY DEF LedgerSeen
      <3> DEFINE k == request[q]
      <3>1. /\ request'[q] = k /\ k.reads \intersect W = {} /\ LedgerNamed(k) /\ LedgerSeen(k)
            /\ k.fresh /\ k.op # "free"
        BY <1>1, <2>2 DEF LedgerInv
      <3> HIDE DEF k
      <3>2. k.of \in Works /\ k.of \notin W /\ "settings" \notin W /\ k.found \in [Parties -> Nat]
        BY <3>1 DEF LedgerNamed
      <3>3. settings' = settings /\ work'[k.of] = work[k.of]
        BY <3>2
      <3>4. ASSUME NEW p \in Parties PROVE FoundIn(wallets', k.found[p], p)
        <4>1. FoundIn(wallets, k.found[p], p)
          BY <3>1 DEF LedgerSeen
        <4>2. CASE k.found[p] = 0
          <5>1. p \notin W
            BY <3>1, <4>2 DEF LedgerNamed
          <5> QED
            BY <4>1, <4>2, <5>1 DEF FoundIn, WalletsGrow
        <4>3. CASE k.found[p] # 0
          <5>1. Len(wallets) \in Nat /\ Len(wallets') \in Nat
            BY DEF WalletsGrow, LedgerInv, LedgerValues
          <5> QED
            BY <4>1, <4>3, <5>1 DEF FoundIn, WalletsGrow
        <4> QED
          BY <4>2, <4>3
      <3> QED
        BY <3>1, <3>3, <3>4 DEF LedgerSeen
    <2> QED
      BY <2>1, <2>2
  <1> QED
    BY <1>1, <1>2, <1>3

\* What owner and platform hold grows by so much.
Pays(ws, ws2, toOwner, toPlatform) ==
  \A o, c \in Int :
    Holds(ws, "owner", o) /\ Holds(ws, "platform", c) =>
      Holds(ws2, "owner", o + toOwner) /\ Holds(ws2, "platform", c + toPlatform)

\* The pool grows by the part of y, unless there is none for this split.
Gives(s, p, p2, y, early, later) ==
  ~later /\ s.householdActive =>
    ~early /\ ((y = 0 /\ p2 = p) \/ p2 = p + CommunityContribution(y, y * s.tariff, s))

\* The split of a fare: what is rounded off the fee is the owner's.
LEMMA SplitsKeep ==
  ASSUME LedgerInv, NEW r \in Requests, request[r].op # "free", NEW fare \in Int, Splits(r, fare)
  PROVE  LET k == request[r]
             fee == Rounded(fare * k.s.fee, Whole) IN
         /\ \E W : Wrote(r, W, Free) /\ WalletsGrow(W) /\ k.of \in W
         /\ wallets' \in Seq(Wallet)
         /\ k.fresh /\ OneEach(wallets) =>
              /\ OneEach(wallets')
              /\ Pays(wallets, wallets', IF k.s.ownerActive THEN fare - fee ELSE 0, fee)
  <1> DEFINE k == request[r]
             fee == Rounded(fare * k.s.fee, Whole)
             toOwner == k.s.ownerActive /\ fare - fee # 0
             found == k.found
             ws == Credited(wallets, found, "platform", fee)
             W == {k.of} \union {p \in Parties : found[p] = 0 /\ (p = "owner" => toOwner)}
             last == Credited(ws, found, "owner", fare - fee)
  <1>1. LedgerNamed(k) /\ LedgerSeen(k) /\ wallets \in Seq(Wallet)
    BY DEF LedgerInv, LedgerValues
  <1>w. wallets \in Seq(Wallet)
    BY <1>1
  <1>2. found \in [Parties -> Nat] /\ k.s \in Settings
    BY <1>1 DEF LedgerNamed
  <1>3. fee \in Int /\ fare - fee \in Int
    <2>1. k.s.fee \in Nat /\ Whole \in Nat \ {0}
      BY <1>2, SettingsAre
    <2>2. fare * k.s.fee \in Int
      BY <2>1
    <2>3. fee \in Int
      BY <2>1, <2>2, RoundedIsNear
    <2> HIDE DEF fee
    <2> QED
      BY <2>3
  <1>4. wallets' = (IF toOwner THEN last ELSE ws) /\ Wrote(r, W, Free)
    BY DEF Splits, SplitOperational
  <1>p. "platform" \in Parties /\ "owner" \in Parties /\ Parties = {"platform", "owner"}
    BY DEF Parties
  <1>o. toOwner => fare - fee # 0 /\ k.s.ownerActive
    OBVIOUS
  <1>a. k.s.ownerActive /\ ~toOwner => fare - fee = 0
    OBVIOUS
  <1> HIDE DEF fee, toOwner
  <1>5. /\ ws \in Seq(Wallet) /\ Len(wallets) <= Len(ws)
        /\ \A i \in 1..Len(wallets) : ws[i].of = wallets[i].of
        /\ \A i \in 1..Len(ws) : i \notin 1..Len(wallets) => ws[i].of = "platform" /\ found["platform"] = 0
    <2>1. Longer(wallets, ws, "platform", found)
      <3>1. fee \in Int
        BY <1>3
      <3> HIDE DEF found, fee
      <3> QED
        BY <1>w, <1>2, <1>p, <3>1, CreditedGrows
    <2> HIDE DEF ws
    <2> QED
      BY <2>1 DEF Longer
  <1> HIDE DEF ws
  <1>6. /\ last \in Seq(Wallet) /\ Len(ws) <= Len(last)
        /\ \A i \in 1..Len(ws) : last[i].of = ws[i].of
        /\ \A i \in 1..Len(last) : i \notin 1..Len(ws) => last[i].of = "owner" /\ found["owner"] = 0
    BY <1>2, <1>3, <1>5, <1>p, CreditedGrows DEF Longer
  <1> HIDE DEF last
  <1>7. WalletsGrow(W)
    <2>0. Len(wallets) \in Nat /\ Len(ws) \in Nat /\ Len(last) \in Nat
      BY <1>1, <1>5, <1>6
    <2>1. found["platform"] = 0 => "platform" \in W
      BY <1>p
    <2>2. found["owner"] = 0 /\ toOwner => "owner" \in W
      BY <1>p
    <2> HIDE DEF W
    <2>3. CASE toOwner
      <3>1. wallets' = last
        BY <1>4, <2>3
      <3>2. \A i \in 1..Len(wallets) : i \in 1..Len(ws)
        BY <1>5, <2>0
      <3>3. \A i \in 1..Len(last) : i \notin 1..Len(wallets) =>
              i \notin 1..Len(ws) \/ (i \in 1..Len(ws) /\ i \notin 1..Len(wallets))
        OBVIOUS
      <3> QED
        BY <1>5, <1>6, <2>0, <2>1, <2>2, <2>3, <3>1, <3>2, <3>3 DEF WalletsGrow
    <2>4. CASE ~toOwner
      BY <1>4, <1>5, <2>1, <2>4 DEF WalletsGrow
    <2> QED
      BY <2>3, <2>4
  <1>8. wallets' \in Seq(Wallet)
    BY <1>7 DEF WalletsGrow
  <1>9. ASSUME k.fresh, OneEach(wallets)
        PROVE  /\ OneEach(wallets')
               /\ \A o, c \in Int :
                    Holds(wallets, "owner", o) /\ Holds(wallets, "platform", c) =>
                      /\ Holds(wallets', "platform", c + fee)
                      /\ Holds(wallets', "owner", o + IF k.s.ownerActive THEN fare - fee ELSE 0)
    <2>1. FoundIn(wallets, found["platform"], "platform") /\ FoundIn(wallets, found["owner"], "owner")
      BY <1>1, <1>9, <1>p DEF LedgerSeen
    <2>2. /\ OneEach(ws)
          /\ \A b \in Int : Holds(wallets, "platform", b) => Holds(ws, "platform", b + fee)
          /\ \A b \in Int : Holds(wallets, "owner", b) => Holds(ws, "owner", b)
          /\ FoundIn(ws, found["owner"], "owner")
      BY <1>1, <1>2, <1>3, <1>p, <1>9, <2>1, CreditedHolds DEF ws
    <2>3. CASE toOwner
      <3>1. /\ OneEach(last)
            /\ \A b \in Int : Holds(ws, "owner", b) => Holds(last, "owner", b + (fare - fee))
            /\ \A b \in Int : Holds(ws, "platform", b) => Holds(last, "platform", b)
        BY <1>2, <1>3, <1>5, <1>p, <2>2, CreditedHolds DEF last
      <3>2. \A c \in Int : c + fee \in Int
        BY <1>3
      <3> QED
        BY <1>4, <1>o, <2>2, <2>3, <3>1, <3>2
    <2>4. CASE ~toOwner
      <3>1. \A o \in Int : (o + IF k.s.ownerActive THEN fare - fee ELSE 0) = o
        BY <1>a, <2>4
      <3> QED
        BY <1>4, <2>2, <2>4, <3>1
    <2> QED
      BY <2>3, <2>4
  <1>10. k.of \in W
    OBVIOUS
  <1> HIDE DEF W
  <1> QED
    BY <1>4, <1>7, <1>8, <1>9, <1>10 DEF fee, Pays

LEMMA RoundedNone ==
  ASSUME NEW d \in Nat \ {0}
  PROVE  Rounded(0, d) = 0
  <1> DEFINE q == Rounded(0, d)
  <1>1. q \in Int /\ -d <= 2 * (q * d - 0) /\ 2 * (q * d - 0) <= d
    <2>1. 0 \in Int
      OBVIOUS
    <2> QED
      BY <2>1, RoundedIsNear
  <1> HIDE DEF q
  <1>2. CASE q >= 1
    <2>1. PICK m \in Nat : q = m + 1
      <3>1. q - 1 \in Nat /\ q = (q - 1) + 1
        BY <1>1, <1>2
      <3> QED
        BY <3>1
    <2>2. PICK x \in Nat : x = m * d
      OBVIOUS
    <2>3. q * d = x + d
      BY <2>1, <2>2
    <2> QED
      BY <1>1, <2>2, <2>3
  <1>3. CASE q <= -1
    <2>1. PICK m \in Nat : q = -m - 1
      <3>1. -q - 1 \in Nat /\ q = -(-q - 1) - 1
        BY <1>1, <1>3
      <3> QED
        BY <3>1
    <2>2. PICK x \in Nat : x = m * d
      OBVIOUS
    <2>3. q * d = -x - d
      BY <2>1, <2>2
    <2> QED
      BY <1>1, <2>2, <2>3
  <1> QED
    BY <1>1, <1>2, <1>3 DEF q

\* The pool's part of a weight, or of its fare, is rounded to the nearest.
LEMMA ContributionIsNear ==
  ASSUME NEW s \in Settings, NEW net \in Int, NEW fare \in Int
  PROVE  LET q == CommunityContribution(net, fare, s)
             l == LegacyPercent(s) IN
         /\ q \in Int
         /\ l > 0 => -Whole <= 2 * (q * Whole - fare * l) /\ 2 * (q * Whole - fare * l) <= Whole
         /\ ~(l > 0) => -Ton <= 2 * (q * Ton - net * s.perTon) /\ 2 * (q * Ton - net * s.perTon) <= Ton
  <1>1. s.perTon \in Nat /\ Whole \in Nat \ {0} /\ Ton \in Nat \ {0} /\ LegacyPercent(s) \in Nat
    BY SettingsAre, LegacyPercentIs
  <1>2. fare * LegacyPercent(s) \in Int /\ net * s.perTon \in Int
    BY <1>1
  <1>3. /\ Rounded(fare * LegacyPercent(s), Whole) \in Int
        /\ -Whole <= 2 * (Rounded(fare * LegacyPercent(s), Whole) * Whole - fare * LegacyPercent(s))
        /\ 2 * (Rounded(fare * LegacyPercent(s), Whole) * Whole - fare * LegacyPercent(s)) <= Whole
    BY <1>1, <1>2, RoundedIsNear
  <1>4. /\ Rounded(net * s.perTon, Ton) \in Int
        /\ -Ton <= 2 * (Rounded(net * s.perTon, Ton) * Ton - net * s.perTon)
        /\ 2 * (Rounded(net * s.perTon, Ton) * Ton - net * s.perTon) <= Ton
    BY <1>1, <1>2, RoundedIsNear
  <1>5. CASE LegacyPercent(s) > 0
    BY <1>3, <1>5 DEF CommunityContribution
  <1>6. CASE ~(LegacyPercent(s) > 0)
    BY <1>4, <1>6 DEF CommunityContribution
  <1> QED
    BY <1>5, <1>6

\* One more split keeps the shares: x comes to the work that was paid, y of
\* it to the hauls.
LEMMA SharesMove ==
  ASSUME NEW s \in Settings, NEW wk \in [Works -> Work], NEW wk2 \in [Works -> Work], NEW ws, NEW ws2,
         NEW p \in Int, NEW p2 \in Int, NEW n \in Nat, NEW early, NEW later,
         SharesHold(s, wk, ws, p, n, early),
         NEW x \in Int, NEW y \in Int,
         PaidAmount(wk2, Works) = PaidAmount(wk, Works) + x,
         PaidAmount(wk2, Hauls) = PaidAmount(wk, Hauls) + y,
         NEW fee \in Int, fee = Rounded(x * s.tariff * s.fee, Whole),
         Pays(ws, ws2, IF s.ownerActive THEN x * s.tariff - fee ELSE 0, fee),
         Gives(s, p, p2, y, early, later)
  PROVE  SharesHold(s, wk2, ws2, p2, n + 1, later)
  <1> DEFINE A == PaidAmount(wk, Works)
             H == PaidAmount(wk, Hauls)
             L == LegacyPercent(s)
             t == s.tariff
  <1>1. A \in Int /\ H \in Int
    BY WorkNumbers, WorksAreFinite
  <1>2. /\ s.fee \in Nat /\ t \in Nat /\ s.perTon \in Nat
        /\ Whole \in Nat \ {0} /\ Ton \in Nat \ {0} /\ L \in Nat
    BY SettingsAre, LegacyPercentIs
  <1>3. PICK o \in Int, c \in Int :
          /\ Holds(ws, "owner", o) /\ Holds(ws, "platform", c)
          /\ o = IF s.ownerActive THEN A * t - c ELSE 0
          /\ CloseTo(c, A * t * s.fee, Whole, n)
          /\ ~early /\ s.householdActive =>
               IF L > 0 THEN CloseTo(p, H * t * L, Whole, n) ELSE CloseTo(p, H * s.perTon, Ton, n)
    BY DEF SharesHold
  <1>4. /\ Holds(ws2, "platform", c + fee)
        /\ Holds(ws2, "owner", o + IF s.ownerActive THEN x * s.tariff - fee ELSE 0)
    BY <1>3 DEF Pays
  <1> HIDE DEF A, H, L, t
  <1>5. /\ A * t \in Int /\ x * t \in Int /\ (A + x) * t = A * t + x * t
        /\ H * t \in Int /\ y * t \in Int /\ (H + y) * t = H * t + y * t
        /\ (H + y) * s.perTon = H * s.perTon + y * s.perTon
        /\ H * s.perTon \in Int /\ y * s.perTon \in Int
    BY <1>1, <1>2
  <1>6. /\ (A * t + x * t) * s.fee = A * t * s.fee + x * t * s.fee
        /\ A * t * s.fee \in Int /\ x * t * s.fee \in Int
        /\ (H * t + y * t) * L = H * t * L + y * t * L
        /\ H * t * L \in Int /\ y * t * L \in Int
    <2>1. PICK a \in Int, b \in Int, h \in Int, g \in Int : a = A * t /\ b = x * t /\ h = H * t /\ g = y * t
      BY <1>5
    <2>2. (a + b) * s.fee = a * s.fee + b * s.fee /\ a * s.fee \in Int /\ b * s.fee \in Int
      BY <1>2
    <2>3. (h + g) * L = h * L + g * L /\ h * L \in Int /\ g * L \in Int
      BY <1>2
    <2> QED
      BY <2>1, <2>2, <2>3
  <1>7. CloseTo(c + fee, (A + x) * t * s.fee, Whole, n + 1)
    <2>1. fee = Rounded(x * t * s.fee, Whole)
      BY DEF t
    <2>2. -Whole <= 2 * (fee * Whole - x * t * s.fee) /\ 2 * (fee * Whole - x * t * s.fee) <= Whole
      BY <1>2, <1>6, <2>1, RoundedIsNear
    <2>3. CloseTo(c + fee, A * t * s.fee + x * t * s.fee, Whole, n + 1)
      BY <1>2, <1>3, <1>6, <2>2, CloseAdds
    <2> QED
      BY <1>5, <1>6, <2>3
  <1> DEFINE o2 == o + IF s.ownerActive THEN x * t - fee ELSE 0
  <1>8. o2 \in Int /\ o2 = IF s.ownerActive THEN (A + x) * t - (c + fee) ELSE 0
    <2>1. CASE s.ownerActive
      BY <1>3, <1>5, <2>1
    <2>2. CASE ~s.ownerActive
      BY <1>3, <2>2
    <2> QED
      BY <2>1, <2>2
  <1>9. ASSUME ~later /\ s.householdActive
        PROVE  IF L > 0 THEN CloseTo(p2, (H + y) * t * L, Whole, n + 1)
                        ELSE CloseTo(p2, (H + y) * s.perTon, Ton, n + 1)
    <2>0. ~early /\ ((y = 0 /\ p2 = p) \/ p2 = p + CommunityContribution(y, y * t, s))
      BY <1>9 DEF t, Gives
    <2>1. CASE y = 0 /\ p2 = p
      <3>1. (H + y) * t = H * t /\ H + y = H
        BY <1>1, <1>2, <2>1
      <3>2. CASE L > 0
        <4>1. CloseTo(p, H * t * L, Whole, n)
          BY <1>3, <1>9, <2>0, <3>2
        <4>2. CloseTo(p, H * t * L, Whole, n + 1)
          BY <1>2, <1>6, <4>1, CloseLonger
        <4> QED
          BY <2>1, <3>1, <3>2, <4>2
      <3>3. CASE ~(L > 0)
        <4>1. CloseTo(p, H * s.perTon, Ton, n)
          BY <1>3, <1>9, <2>0, <3>3
        <4>2. CloseTo(p, H * s.perTon, Ton, n + 1)
          BY <1>2, <1>5, <4>1, CloseLonger
        <4> QED
          BY <2>1, <3>1, <3>3, <4>2
      <3> QED
        BY <3>2, <3>3
    <2>2. CASE p2 = p + CommunityContribution(y, y * t, s)
      <3> DEFINE q == CommunityContribution(y, y * t, s)
      <3>1. /\ q \in Int
            /\ L > 0 => -Whole <= 2 * (q * Whole - y * t * L) /\ 2 * (q * Whole - y * t * L) <= Whole
            /\ ~(L > 0) =>
                 -Ton <= 2 * (q * Ton - y * s.perTon) /\ 2 * (q * Ton - y * s.perTon) <= Ton
        BY <1>5, ContributionIsNear DEF L
      <3> HIDE DEF q
      <3>2. CASE L > 0
        <4>1. CloseTo(p, H * t * L, Whole, n)
          BY <1>3, <1>9, <2>0, <3>2
        <4>2. -Whole <= 2 * (q * Whole - y * t * L) /\ 2 * (q * Whole - y * t * L) <= Whole
          BY <3>1, <3>2
        <4>3. CloseTo(p + q, H * t * L + y * t * L, Whole, n + 1)
          BY <1>2, <1>6, <3>1, <4>1, <4>2, CloseAdds
        <4> QED
          BY <1>5, <1>6, <2>2, <3>2, <4>3 DEF q
      <3>3. CASE ~(L > 0)
        <4>1. CloseTo(p, H * s.perTon, Ton, n)
          BY <1>3, <1>9, <2>0, <3>3
        <4>2. -Ton <= 2 * (q * Ton - y * s.perTon) /\ 2 * (q * Ton - y * s.perTon) <= Ton
          BY <3>1, <3>3
        <4>3. CloseTo(p + q, H * s.perTon + y * s.perTon, Ton, n + 1)
          BY <1>2, <1>5, <3>1, <4>1, <4>2, CloseAdds
        <4> QED
          BY <1>5, <2>2, <3>3, <4>3 DEF q
      <3> QED
        BY <3>2, <3>3
    <2> QED
      BY <2>0, <2>1, <2>2
  <1>10. Holds(ws2, "owner", o2) /\ c + fee \in Int
    BY <1>4 DEF t
  <1> HIDE DEF o2
  <1> QED
    BY <1>4, <1>7, <1>8, <1>9, <1>10 DEF SharesHold, A, H, L, t

\* The settings change: before the first split it matters to nobody.
LEMMA ChangeInv ==
  ASSUME LedgerInv, NEW r \in Requests, NEW s \in Settings, Change(r, s)
  PROVE  LedgerInv'
  <1>1. /\ Wrote(r, {"settings"}, Free) /\ settings' = s
        /\ UNCHANGED <<work, wallets, pot, entries, premature>>
        /\ repriced' = (repriced \/ entries > 0)
    BY DEF Change
  <1>v. LedgerValues
    BY DEF LedgerInv
  <1>2. WalletsGrow({"settings"})
    <2>1. Len(wallets) \in Nat
      BY <1>v DEF LedgerValues
    <2> QED
      BY <1>1, <1>v, <2>1 DEF WalletsGrow, LedgerValues
  <1>3. /\ AllRequests'
        /\ \A q \in Requests : LedgerNamed(request[q])' /\ LedgerSeen(request[q])'
        /\ ~overtaken' => ~overtaken /\ request[r].fresh
    <2>1. \A w \in Works : w \notin {"settings"} => work'[w] = work[w]
      BY <1>1
    <2> QED
      BY <1>1, <1>2, <2>1, LedgerWritten
  <1>4. LedgerValues'
    <2>1. repriced' \in BOOLEAN
      BY <1>1, <1>v DEF LedgerValues
    <2> QED
      BY <1>1, <1>v, <2>1 DEF LedgerValues
  <1>5. ASSUME ~overtaken' PROVE OneEach(wallets')
    BY <1>1, <1>3, <1>5 DEF LedgerInv
  <1>6. ASSUME ~repriced' PROVE SharesHold(settings', work', wallets', pot', entries', premature')
    <2>0. ~(entries > 0)
      BY <1>1, <1>6, Zenon
    <2>1. entries = 0
      BY <2>0, <1>v DEF LedgerValues
    <2>2. wallets = <<>> /\ pot = 0 /\ work \in [Works -> Work] /\ \A w \in Works : ~work[w].paid
      BY <1>v, <2>1 DEF LedgerValues
    <2>3. SharesHold(s, work, <<>>, 0, 0, premature)
      BY <2>2, SharesOfNothing
    <2> QED
      BY <1>1, <2>1, <2>2, <2>3
  <1> QED
    BY <1>3, <1>4, <1>5, <1>6 DEF LedgerInv

LEMMA SettingsInv ==
  ASSUME LedgerInv, NEW r \in Requests,
         \/ PatchMineSettings(r) \/ UpdateCommunity(r) \/ ActivateTariff(r)
         \/ SetActiveRule(r) \/ DecideParty(r)
  PROVE  LedgerInv'
  <1>1. settings \in Settings
    BY DEF LedgerInv, LedgerValues
  <1>2. ASSUME NEW s \in Settings, NEW f \in Fees, NEW p \in PerTons, NEW t \in Tariffs,
               NEW b \in BOOLEAN, NEW rules \in [1..3 -> Percents \union {NoRule}]
        PROVE  /\ [s EXCEPT !.fee = f] \in Settings /\ [s EXCEPT !.perTon = p] \in Settings
               /\ [s EXCEPT !.tariff = t] \in Settings /\ [s EXCEPT !.rules = rules] \in Settings
               /\ [s EXCEPT !.ownerActive = b] \in Settings
               /\ [s EXCEPT !.householdActive = b] \in Settings
    BY DEF Settings
  <1> DEFINE rules == settings.rules
  <1>3. /\ rules \in [1..3 -> Percents \union {NoRule}]
        /\ settings.ownerActive \in BOOLEAN /\ settings.householdActive \in BOOLEAN
        /\ settings.fee \in Fees /\ settings.tariff \in Tariffs /\ settings.perTon \in PerTons
    BY <1>1 DEF Settings
  <1>4. CASE PatchMineSettings(r)
    BY <1>1, <1>2, <1>3, <1>4, ChangeInv DEF PatchMineSettings
  <1>5. CASE UpdateCommunity(r)
    BY <1>1, <1>2, <1>3, <1>5, ChangeInv DEF UpdateCommunity
  <1>6. CASE ActivateTariff(r)
    BY <1>1, <1>2, <1>3, <1>6, ChangeInv DEF ActivateTariff
  <1>7. CASE SetActiveRule(r)
    <2>1. PICK i \in 1..3, p \in Percents : Change(r, [settings EXCEPT !.rules[i] = p])
      BY <1>7 DEF SetActiveRule, Scopes
    <2>2. [rules EXCEPT ![i] = p] \in [1..3 -> Percents \union {NoRule}]
      BY <1>3
    <2>3. [settings EXCEPT !.rules[i] = p] = [settings EXCEPT !.rules = [rules EXCEPT ![i] = p]]
      BY <1>1 DEF Settings
    <2>4. [settings EXCEPT !.rules[i] = p] \in Settings
      BY <1>1, <1>2, <1>3, <2>2, <2>3
    <2> QED
      BY <2>1, <2>4, ChangeInv
  <1>8. CASE DecideParty(r)
    <2>1. [settings EXCEPT !.ownerActive = ~@] \in Settings /\ [settings EXCEPT !.householdActive = ~@] \in Settings
      BY <1>1 DEF Settings
    <2> QED
      BY <1>8, <2>1, ChangeInv DEF DecideParty
  <1> QED
    BY <1>4, <1>5, <1>6, <1>7, <1>8

\* The fare of a haul or of a shift is split: what it amounts to is paid now.
LEMMA CreditInv ==
  ASSUME LedgerInv, NEW r \in Requests, CreditWrite(r)
  PROVE  LedgerInv'
  <1> DEFINE k == request[r]
             w == k.of
             s == k.s
             x == k.amount
             fee == Rounded(x * s.tariff * s.fee, Whole)
  <1>v. LedgerValues /\ LedgerNamed(k) /\ LedgerSeen(k) /\ k.op = "credit"
    BY DEF LedgerInv, CreditWrite
  <1>1. w \in Works /\ s \in Settings /\ x \in Nets /\ x \in Nat
    BY <1>v, LedgerAssumption DEF LedgerNamed
  <1>2. s.tariff \in Nat /\ s.fee \in Nat /\ Whole \in Nat \ {0} /\ Ton \in Nat \ {0}
    BY <1>1, SettingsAre
  <1>3. x * s.tariff \in Int /\ x * s.tariff * s.fee \in Int
    BY <1>1, <1>2
  <1>4. /\ Splits(r, x * s.tariff) /\ entries' = entries + 1
        /\ work' = [work EXCEPT ![w].status = "approved", ![w].paid = TRUE]
        /\ pot' = IF w \in Hauls /\ s.householdActive
                  THEN pot + CommunityContribution(x, x * s.tariff, s) ELSE pot
        /\ UNCHANGED <<settings, repriced, premature>>
    BY DEF CreditWrite
  <1>5. /\ \E W : Wrote(r, W, Free) /\ WalletsGrow(W) /\ w \in W
        /\ wallets' \in Seq(Wallet)
        /\ k.fresh /\ OneEach(wallets) =>
             /\ OneEach(wallets')
             /\ Pays(wallets, wallets', IF s.ownerActive THEN x * s.tariff - fee ELSE 0, fee)
    <2>1. request[r].op # "free"
      BY <1>v
    <2> QED
      BY <1>3, <1>4, <2>1, SplitsKeep
  <1>6. work \in [Works -> Work] /\ \A v \in Works : work[v] \in Work
    BY <1>v DEF LedgerValues
  <1>7. /\ work' \in [Works -> Work] /\ \A v \in Works \ {w} : work'[v] = work[v]
        /\ work'[w].status = "approved" /\ work'[w].paid /\ work'[w].amount = work[w].amount
    <2>1. ASSUME NEW v \in Work
          PROVE  LET u == [v EXCEPT !.status = "approved", !.paid = TRUE] IN
                 u \in Work /\ u.status = "approved" /\ u.paid = TRUE /\ u.amount = v.amount
      BY DEF Work
    <2>2. work'[w] = [work[w] EXCEPT !.status = "approved", !.paid = TRUE]
      BY <1>1, <1>4, <1>6
    <2>3. work' = [v \in Works |-> work'[v]] /\ \A v \in Works \ {w} : work'[v] = work[v]
      BY <1>1, <1>4, <1>6
    <2>4. /\ work'[w] \in Work /\ work'[w].status = "approved" /\ work'[w].paid
          /\ work'[w].amount = work[w].amount
      <3>1. work[w] \in Work
        BY <1>1, <1>6
      <3> HIDE DEF w
      <3> QED
        BY ONLY <3>1, <2>1, <2>2, Zenon
    <2>5. \A v \in Works : work'[v] \in Work
      BY <1>6, <2>3, <2>4
    <2> HIDE DEF w
    <2>6. work' \in [Works -> Work]
      BY ONLY <2>3, <2>5
    <2> QED
      BY <2>3, <2>4, <2>6
  <1>8. PICK W : Wrote(r, W, Free) /\ WalletsGrow(W) /\ w \in W
    BY <1>5
  <1>9. /\ AllRequests'
        /\ \A q \in Requests : LedgerNamed(request[q])' /\ LedgerSeen(request[q])'
        /\ ~overtaken' => ~overtaken /\ request[r].fresh
    <2>1. \A v \in Works : v \notin W => work'[v] = work[v]
      BY <1>7, <1>8
    <2>2. settings' = settings
      BY <1>4
    <2> QED
      BY <1>8, <2>1, <2>2, LedgerWritten
  <1>10. CommunityContribution(x, x * s.tariff, s) \in Int
    BY <1>1, <1>3, ContributionIsNear
  <1>11. LedgerValues'
    <2>1. pot' \in Int /\ entries' \in Nat /\ entries' # 0
      BY <1>v, <1>4, <1>10 DEF LedgerValues
    <2>2. \A v \in Works : work'[v].status = "open" => ~work'[v].paid
      <3>1. \A v \in Works : work[v].status = "open" => ~work[v].paid
        BY <1>v DEF LedgerValues
      <3> QED
        BY <1>7, <3>1
    <2> QED
      BY <1>v, <1>4, <1>5, <1>7, <2>1, <2>2 DEF LedgerValues
  <1>12. ASSUME ~overtaken' PROVE OneEach(wallets')
    BY <1>5, <1>9, <1>12 DEF LedgerInv
  <1>13. ASSUME ~overtaken', ~repriced'
         PROVE  SharesHold(settings', work', wallets', pot', entries', premature')
    <2>1. k.fresh /\ SharesHold(settings, work, wallets, pot, entries, premature) /\ OneEach(wallets)
      BY <1>4, <1>9, <1>13 DEF LedgerInv
    <2>2. s = settings /\ work[w].status = "open" /\ x = work[w].amount
      BY <1>v, <2>1 DEF LedgerSeen
    <2>3. ~work[w].paid
      BY <1>v, <1>1, <2>2 DEF LedgerValues
    <2>4. PaidAmount(work', Works) = PaidAmount(work, Works) + x
      <3>1. PaidAmount(work', Works) = PaidAmount(work, Works) - 0 + x
        BY <1>1, <1>6, <1>7, <2>2, <2>3, PaidMoves
      <3>2. PaidAmount(work, Works) \in Int
        BY <1>6, WorkNumbers
      <3> HIDE DEF x
      <3> QED
        BY <1>1, <3>1, <3>2
    <2> DEFINE y == IF w \in Hauls THEN x ELSE 0
    <2>5. PaidAmount(work', Hauls) = PaidAmount(work, Hauls) + y
      <3>1. PaidAmount(work', Hauls) =
              IF w \in Hauls THEN PaidAmount(work, Hauls) - 0 + x ELSE PaidAmount(work, Hauls)
        BY <1>1, <1>6, <1>7, <2>2, <2>3, PaidMoves, WorksAreFinite
      <3>2. PaidAmount(work, Hauls) \in Int
        BY <1>6, WorkNumbers, WorksAreFinite
      <3> HIDE DEF x, w
      <3> QED
        BY <1>1, <3>1, <3>2
    <2>6. Gives(s, pot, pot', y, premature, premature)
      BY <1>4 DEF Gives
    <2>7. y \in Int /\ x \in Int
      BY <1>1
    <2>8. fee \in Int
      BY <1>2, <1>3, RoundedIsNear
    <2>9. Pays(wallets, wallets', IF s.ownerActive THEN x * s.tariff - fee ELSE 0, fee)
      BY <1>5, <2>1
    <2>10. fee = Rounded(x * s.tariff * s.fee, Whole)
      OBVIOUS
    <2>11. pot \in Int /\ pot' \in Int /\ entries \in Nat
      BY <1>v, <1>11 DEF LedgerValues
    <2>12. SharesHold(s, work, wallets, pot, entries, premature)
      BY <2>1, <2>2
    <2> HIDE DEF y, fee, x, s, w, k
    <2>13. SharesHold(s, work', wallets', pot', entries + 1, premature)
      BY ONLY <1>1, <1>6, <1>7, <2>4, <2>5, <2>6, <2>7, <2>8, <2>9, <2>10, <2>11, <2>12, SharesMove, ZenonT(60)
    <2> QED
      BY <1>4, <2>2, <2>13
  <1> QED
    BY <1>9, <1>11, <1>12, <1>13 DEF LedgerInv

\* The difference of an adjusted weight is split, if there was a first fare.
LEMMA AdjustInv ==
  ASSUME LedgerInv, NEW r \in Requests, AdjustWrite(r)
  PROVE  LedgerInv'
  <1> DEFINE k == request[r]
             w == k.of
             s == k.s
             net == k.after - k.before
             x == IF k.paid THEN net ELSE 0
             fare == x * s.tariff
             fee == Rounded(x * s.tariff * s.fee, Whole)
             contribution == CommunityContribution(net, fare, s)
  <1>v. LedgerValues /\ LedgerNamed(k) /\ LedgerSeen(k) /\ k.op = "adjust"
    BY DEF LedgerInv, AdjustWrite
  <1>1. w \in Works /\ w \in Hauls /\ s \in Settings /\ k.after \in Nets /\ k.paid \in BOOLEAN
        /\ k.after \in Nat /\ k.before \in Nat
    BY <1>v, LedgerAssumption DEF LedgerNamed
  <1>2. s.tariff \in Nat /\ s.fee \in Nat /\ Whole \in Nat \ {0} /\ Ton \in Nat \ {0}
    BY <1>1, SettingsAre
  <1>3. net \in Int /\ x \in Int /\ fare \in Int /\ fare * s.fee \in Int
    <2>1. net \in Int
      BY <1>1
    <2> HIDE DEF net
    <2>2. x \in Int
      BY <2>1
    <2> HIDE DEF x
    <2>3. fare \in Int
      BY <2>2, <1>2
    <2> HIDE DEF fare
    <2>4. fare * s.fee \in Int
      BY <2>3, <1>2
    <2> QED
      BY <2>1, <2>2, <2>3, <2>4
  <1>x. fare = IF k.paid THEN net * s.tariff ELSE 0
    <2>1. 0 * s.tariff = 0
      BY <1>2
    <2> QED
      BY <2>1
  <1>4. /\ work' = [work EXCEPT ![w].amount = k.after, ![w].status = "adjusted"]
        /\ \/ fare = 0 /\ Wrote(r, {w}, Free) /\ UNCHANGED wallets
           \/ Splits(r, fare)
        /\ pot' = IF s.householdActive THEN pot + contribution ELSE pot
        /\ premature' = (premature \/ ~k.paid)
        /\ entries' = entries + 1
        /\ UNCHANGED <<settings, repriced>>
    <2> DEFINE old == IF k.paid THEN net * s.tariff ELSE 0
    <2>1. /\ work' = [work EXCEPT ![w].amount = k.after, ![w].status = "adjusted"]
          /\ \/ old = 0 /\ Wrote(r, {w}, Free) /\ UNCHANGED wallets
             \/ Splits(r, old)
          /\ pot' = IF s.householdActive THEN pot + CommunityContribution(net, old, s) ELSE pot
          /\ premature' = (premature \/ ~k.paid)
          /\ entries' = entries + 1
          /\ UNCHANGED <<settings, repriced>>
      BY DEF AdjustWrite
    <2>2. old = fare
      BY <1>x
    <2> HIDE DEF old, fare
    <2> QED
      BY <2>1, <2>2
  <1>5. /\ \E W : Wrote(r, W, Free) /\ WalletsGrow(W) /\ w \in W
        /\ wallets' \in Seq(Wallet)
        /\ k.fresh /\ OneEach(wallets) =>
             /\ OneEach(wallets')
             /\ Pays(wallets, wallets', IF s.ownerActive THEN fare - fee ELSE 0, fee)
    <2>1. CASE Splits(r, fare)
      <3>1. request[r].op # "free"
        BY <1>v
      <3> QED
        BY <1>3, <2>1, <3>1, SplitsKeep
    <2>2. CASE fare = 0 /\ Wrote(r, {w}, Free) /\ UNCHANGED wallets
      <3>1. wallets \in Seq(Wallet) /\ Len(wallets) \in Nat
        BY <1>v DEF LedgerValues
      <3>2. WalletsGrow({w})
        BY <2>2, <3>1 DEF WalletsGrow
      <3>3. fee = 0
        <4>1. fare * s.fee = 0
          BY <1>2, <2>2
        <4>2. Rounded(0, Whole) = 0
          BY <1>2, RoundedNone
        <4> QED
          BY <4>1, <4>2
      <3>4. (IF s.ownerActive THEN fare - fee ELSE 0) = 0
        BY <2>2, <3>3
      <3>5. Pays(wallets, wallets', 0, 0)
        BY <2>2 DEF Pays
      <3> QED
        BY <2>2, <3>1, <3>2, <3>3, <3>4, <3>5
    <2> QED
      BY <1>4, <2>1, <2>2
  <1>6. work \in [Works -> Work] /\ \A v \in Works : work[v] \in Work
    BY <1>v DEF LedgerValues
  <1>7. /\ work' \in [Works -> Work] /\ \A v \in Works \ {w} : work'[v] = work[v]
        /\ work'[w].status = "adjusted" /\ work'[w].paid = work[w].paid /\ work'[w].amount = k.after
    <2>1. ASSUME NEW v \in Work, NEW n \in Nets
          PROVE  LET u == [v EXCEPT !.amount = n, !.status = "adjusted"] IN
                 u \in Work /\ u.status = "adjusted" /\ u.paid = v.paid /\ u.amount = n
      BY DEF Work
    <2>2. work'[w] = [work[w] EXCEPT !.amount = k.after, !.status = "adjusted"]
      BY <1>1, <1>4, <1>6
    <2>3. work' = [v \in Works |-> work'[v]] /\ \A v \in Works \ {w} : work'[v] = work[v]
      BY <1>1, <1>4, <1>6
    <2>4. /\ work'[w] \in Work /\ work'[w].status = "adjusted" /\ work'[w].paid = work[w].paid
          /\ work'[w].amount = k.after
      <3>1. work[w] \in Work /\ k.after \in Nets
        BY <1>1, <1>6
      <3>2. PICK v \in Work, n \in Nets : v = work[w] /\ n = k.after
        BY <3>1
      <3>3. work'[w] = [v EXCEPT !.amount = n, !.status = "adjusted"]
        BY <2>2, <3>2
      <3>4. /\ [v EXCEPT !.amount = n, !.status = "adjusted"] \in Work
            /\ [v EXCEPT !.amount = n, !.status = "adjusted"].status = "adjusted"
            /\ [v EXCEPT !.amount = n, !.status = "adjusted"].paid = v.paid
            /\ [v EXCEPT !.amount = n, !.status = "adjusted"].amount = n
        BY <2>1
      <3> QED
        BY ONLY <3>2, <3>3, <3>4, Zenon
    <2>5. \A v \in Works : work'[v] \in Work
      BY <1>6, <2>3, <2>4
    <2> HIDE DEF w
    <2>6. work' \in [Works -> Work]
      BY ONLY <2>3, <2>5
    <2> QED
      BY <2>3, <2>4, <2>6
  <1>8. PICK W : Wrote(r, W, Free) /\ WalletsGrow(W) /\ w \in W
    BY <1>5
  <1>9. /\ AllRequests'
        /\ \A q \in Requests : LedgerNamed(request[q])' /\ LedgerSeen(request[q])'
        /\ ~overtaken' => ~overtaken /\ request[r].fresh
    <2>1. \A v \in Works : v \notin W => work'[v] = work[v]
      BY <1>7, <1>8
    <2>2. settings' = settings
      BY <1>4
    <2> QED
      BY <1>8, <2>1, <2>2, LedgerWritten
  <1>10. contribution \in Int
    BY <1>1, <1>3, ContributionIsNear
  <1>11. LedgerValues'
    <2>1. pot' \in Int /\ entries' \in Nat /\ entries' # 0
      <3> HIDE DEF contribution
      <3> QED
        BY <1>v, <1>4, <1>10 DEF LedgerValues
    <2>2. \A v \in Works : work'[v].status = "open" => ~work'[v].paid
      <3>1. \A v \in Works : work[v].status = "open" => ~work[v].paid
        BY <1>v DEF LedgerValues
      <3> QED
        BY <1>7, <3>1
    <2>3. premature' \in BOOLEAN
      BY <1>4, <1>1
    <2> QED
      BY <1>v, <1>4, <1>5, <1>7, <2>1, <2>2, <2>3 DEF LedgerValues
  <1>12. ASSUME ~overtaken' PROVE OneEach(wallets')
    BY <1>5, <1>9, <1>12 DEF LedgerInv
  <1>13. ASSUME ~overtaken', ~repriced'
         PROVE  SharesHold(settings', work', wallets', pot', entries', premature')
    <2>1. k.fresh /\ SharesHold(settings, work, wallets, pot, entries, premature) /\ OneEach(wallets)
      BY <1>4, <1>9, <1>13 DEF LedgerInv
    <2>2. s = settings /\ k.before = work[w].amount /\ k.paid = work[w].paid
      BY <1>v, <2>1 DEF LedgerSeen
    <2>m. ASSUME NEW ws \in SUBSET Works, w \in ws
          PROVE  PaidAmount(work', ws) = PaidAmount(work, ws) + x
      <3>1. PaidAmount(work', ws) =
              PaidAmount(work, ws) - (IF work[w].paid THEN work[w].amount ELSE 0)
                                   + (IF work'[w].paid THEN work'[w].amount ELSE 0)
        BY <1>1, <1>6, <1>7, <2>m, PaidMoves
      <3>2. PaidAmount(work, ws) \in Int
        BY <1>6, WorkNumbers
      <3>3. PaidAmount(work', ws) =
              PaidAmount(work, ws) - (IF k.paid THEN k.before ELSE 0) + (IF k.paid THEN k.after ELSE 0)
        BY <1>7, <2>2, <3>1
      <3> HIDE DEF k, w
      <3> QED
        BY ONLY <1>1, <3>2, <3>3
    <2>4. PaidAmount(work', Works) = PaidAmount(work, Works) + x
      BY <1>1, <2>m
    <2>5. PaidAmount(work', Hauls) = PaidAmount(work, Hauls) + x
      BY <1>1, <2>m, WorksAreFinite
    <2>6. Gives(s, pot, pot', x, premature, premature')
      <3> SUFFICES ASSUME ~premature', s.householdActive
                   PROVE  ~premature /\ pot' = pot + CommunityContribution(x, x * s.tariff, s)
        BY DEF Gives
      <3>1. ~premature /\ k.paid
        BY <1>4, Zenon
      <3>2. x = net
        BY <3>1
      <3> QED
        BY <1>4, <3>1, <3>2
    <2>8. fee \in Int /\ fee = Rounded(x * s.tariff * s.fee, Whole)
      BY <1>2, <1>3, RoundedIsNear
    <2>9. Pays(wallets, wallets', IF s.ownerActive THEN x * s.tariff - fee ELSE 0, fee)
      BY <1>5, <2>1
    <2>11. pot \in Int /\ pot' \in Int /\ entries \in Nat
      BY <1>v, <1>11 DEF LedgerValues
    <2>12. SharesHold(s, work, wallets, pot, entries, premature)
      BY <2>1, <2>2
    <2> HIDE DEF fee, fare, x, s, w, k
    <2>13. SharesHold(s, work', wallets', pot', entries + 1, premature')
      BY ONLY <1>1, <1>3, <1>6, <1>7, <2>4, <2>5, <2>6, <2>8, <2>9, <2>11, <2>12, SharesMove
    <2> QED
      BY <1>4, <2>2, <2>13
  <1> QED
    BY <1>9, <1>11, <1>12, <1>13 DEF LedgerInv

LEMMA LedgerStep == LedgerInv /\ [LedgerNext]_ledgerVars => LedgerInv'
  <1> SUFFICES ASSUME LedgerInv, [LedgerNext]_ledgerVars PROVE LedgerInv'
    OBVIOUS
  <1>1. CASE UNCHANGED ledgerVars
    <2>1. UNCHANGED <<settings, work, wallets, pot, entries, repriced, premature, request, overtaken>>
      BY <1>1 DEF ledgerVars, ledgerRows, handlerVars
    <2> QED
      BY <2>1 DEF LedgerInv, LedgerValues, LedgerNamed, LedgerSeen, AllRequests
  <1>2. CASE LedgerNext
    BY <1>2, SettingsInv, LedgerReadsInv, CreditInv, AdjustInv DEF LedgerNext
  <1> QED
    BY <1>1, <1>2

\* The amounts and the balances are the sums above.
LEMMA LedgerInvShares == LedgerInv => SharesOfFare
  <1> SUFFICES ASSUME LedgerInv, ~overtaken
               PROVE  /\ \A p \in Parties : Cardinality(Find(p)) <= 1
                      /\ ~repriced =>
                           LET fare == Amount(Works) * settings.tariff
                               hauled == Amount(Hauls) IN
                           /\ Balance("owner") = IF settings.ownerActive THEN fare - Balance("platform") ELSE 0
                           /\ Near(Balance("platform"), fare * settings.fee, Whole)
                           /\ ~premature /\ settings.householdActive =>
                                IF LegacyPercent(settings) > 0
                                THEN Near(pot, hauled * settings.tariff * LegacyPercent(settings), Whole)
                                ELSE Near(pot, hauled * settings.perTon, Ton)
    BY DEF SharesOfFare
  <1>1. wallets \in Seq(Wallet) /\ OneEach(wallets)
    BY DEF LedgerInv, LedgerValues
  <1>2. ASSUME NEW p \in Parties PROVE Cardinality(Find(p)) <= 1
    <2>1. Holds(wallets, p, 0) \/ \E i \in 1..Len(wallets) : wallets[i].of = p
      BY DEF Holds
    <2>2. \E b : Holds(wallets, p, b)
      BY <2>1 DEF Holds
    <2> QED
      BY <1>1, <2>2, BalanceIs
  <1>3. ASSUME ~repriced
        PROVE  LET fare == Amount(Works) * settings.tariff
                   hauled == Amount(Hauls) IN
               /\ Balance("owner") = IF settings.ownerActive THEN fare - Balance("platform") ELSE 0
               /\ Near(Balance("platform"), fare * settings.fee, Whole)
               /\ ~premature /\ settings.householdActive =>
                    IF LegacyPercent(settings) > 0
                    THEN Near(pot, hauled * settings.tariff * LegacyPercent(settings), Whole)
                    ELSE Near(pot, hauled * settings.perTon, Ton)
    <2>1. Amount(Works) = PaidAmount(work, Works) /\ Amount(Hauls) = PaidAmount(work, Hauls)
      BY DEF Amount, PaidAmount, Sum
    <2>2. \A sum, exact, unit : CloseTo(sum, exact, unit, entries) => Near(sum, exact, unit)
      BY DEF CloseTo, Near
    <2>3. PICK o \in Int, c \in Int :
            LET fare == Amount(Works) * settings.tariff
                hauled == Amount(Hauls) IN
            /\ Holds(wallets, "owner", o) /\ Holds(wallets, "platform", c)
            /\ o = IF settings.ownerActive THEN fare - c ELSE 0
            /\ CloseTo(c, fare * settings.fee, Whole, entries)
            /\ ~premature /\ settings.householdActive =>
                 IF LegacyPercent(settings) > 0
                 THEN CloseTo(pot, hauled * settings.tariff * LegacyPercent(settings), Whole, entries)
                 ELSE CloseTo(pot, hauled * settings.perTon, Ton, entries)
      BY <1>3, <2>1 DEF LedgerInv, SharesHold
    <2>4. Balance("owner") = o /\ Balance("platform") = c
      BY <1>1, <2>3, BalanceIs DEF Parties
    <2> QED
      BY <2>2, <2>3, <2>4
  <1> QED
    BY <1>2, <1>3

\* Owner and platform hold the fare to the rial, platform and pool their
\* parts of it but for the rounding, for any number of hauls and shifts.
THEOREM SharesAreOfTheFare == LedgerSpec => []SharesOfFare
  <1>1. LedgerSpec => []LedgerInv
    BY LedgerInvInit, LedgerStep, PTL DEF LedgerSpec
  <1> QED
    BY <1>1, LedgerInvShares, PTL

================================================================================
