------------------------------ MODULE MCDesks ------------------------------
(***************************************************************************)
(* One instance for TLC of the components whose handlers share no row with *)
(* one another: the desks of the back office.  A behaviour is one of one   *)
(* desk; the others stay as they began.                                    *)
(***************************************************************************)
EXTENDS Dispatch, Statement, Kyc, Hourly, Rates, Contracts, Pool, Provisioning, Agent, Notices,
        Ledger, TLC

\* What an adjustment takes away may leave less than was given.
MCShares == {3, 4, -2}

\* A load of so many kilograms, at so many rials each.
MCNet == 3

VARIABLE desk

Desks == {"dispatch", "statement", "kyc", "hourly", "rates", "contracts", "pool", "provisioning",
          "agent", "notices", "ledger"}

Init ==
  /\ desk \in Desks
  /\ DispatchInit /\ StatementInit /\ KycInit /\ HourlyInit
  /\ RatesInit /\ ContractsInit /\ PoolInit /\ ProvisioningInit /\ AgentInit
  /\ NoticesInit /\ LedgerInit
  \* One initial state of a desk that is not looked at.
  /\ desk # "statement" => lines = CHOOSE a \in Amounts : TRUE
  /\ desk # "kyc" => kind = "driver"
  /\ desk # "notices" => recipient = "sms_off"
  /\ desk # "ledger" =>
       settings.ownerActive /\ settings.allowLegacy /\ \A w \in Works : work[w].amount = MCNet
  \* The ledger's settings begin as these, and are changed to others.
  /\ settings.fee = 1 /\ settings.tariff = MCNet /\ settings.perTon = MCNet

Next ==
  \/ /\ desk = "dispatch" /\ ~overtaken /\ DispatchNext
     /\ UNCHANGED <<desk, statementRows, kycRows, hourlyRows, card, contract, poolRows,
                   provisioningRows, agentRows, noticesRows, ledgerRows>>
  \/ /\ desk = "statement" /\ Undisturbed /\ StatementNext
     /\ UNCHANGED <<desk, dispatchRows, kycRows, hourlyRows, card, contract, poolRows,
                   provisioningRows, agentRows, noticesRows, ledgerRows>>
  \/ /\ desk = "kyc" /\ ~overtaken /\ KycNext
     /\ UNCHANGED <<desk, dispatchRows, statementRows, hourlyRows, card, contract, poolRows,
                   provisioningRows, agentRows, noticesRows, ledgerRows>>
  \/ /\ desk = "hourly" /\ Undisturbed /\ HourlyNext
     /\ UNCHANGED <<desk, dispatchRows, statementRows, kycRows, card, contract, poolRows,
                   provisioningRows, agentRows, noticesRows, ledgerRows>>
  \/ /\ desk = "rates" /\ RatesNext
     /\ UNCHANGED <<desk, dispatchRows, statementRows, kycRows, hourlyRows, contract, poolRows,
                   provisioningRows, agentRows, noticesRows, ledgerRows>>
  \/ /\ desk = "contracts" /\ Undisturbed /\ ContractsNext
     /\ UNCHANGED <<desk, dispatchRows, statementRows, kycRows, hourlyRows, card, poolRows,
                   provisioningRows, agentRows, noticesRows, ledgerRows>>
  \/ /\ desk = "pool" /\ ~overtaken /\ PoolNext
     /\ UNCHANGED <<desk, dispatchRows, statementRows, kycRows, hourlyRows, card, contract,
                   provisioningRows, agentRows, noticesRows, ledgerRows>>
  \/ /\ desk = "provisioning" /\ ProvisioningNext
     /\ UNCHANGED <<desk, dispatchRows, statementRows, kycRows, hourlyRows, card, contract,
                   poolRows, agentRows, noticesRows, ledgerRows>>
  \/ /\ desk = "agent" /\ AgentNext
     /\ UNCHANGED <<desk, dispatchRows, statementRows, kycRows, hourlyRows, card, contract,
                   poolRows, provisioningRows, noticesRows, ledgerRows>>
  \/ /\ desk = "notices" /\ NoticesNext
     /\ UNCHANGED <<desk, dispatchRows, statementRows, kycRows, hourlyRows, card, contract,
                   poolRows, provisioningRows, agentRows, ledgerRows>>
  \/ /\ desk = "ledger" /\ ~overtaken /\ LedgerNext
     /\ UNCHANGED <<desk, dispatchRows, statementRows, kycRows, hourlyRows, card, contract,
                   poolRows, provisioningRows, agentRows, noticesRows>>

vars == <<desk, dispatchRows, statementRows, kycRows, hourlyRows, card, contract, poolRows,
          provisioningRows, agentRows, noticesRows, ledgerRows, handlerVars>>

Spec == Init /\ [][Next]_vars

\* Nothing tells two requests, missions or provisioning requests apart.
Symmetry == Permutations(Requests) \union Permutations(Missions) \union Permutations(Asks)

=============================================================================
