--------------------------- MODULE MissionPayment ---------------------------
(***************************************************************************)
(* What settlement promises about missions: a mission is settled by the    *)
(* very transaction that records a completed payout line for it, a         *)
(* transaction may do so for several lines at once, and neither the line   *)
(* nor the settlement is ever taken back.                                  *)
(***************************************************************************)
CONSTANTS Batches, Missions

VARIABLES
  paid,     \* the mission lines with a completed payout
  settled   \* the missions that left the pool of payable work

MissionLines == Batches \X Missions

Init == paid = {} /\ settled = {}

\* Batches may list the same mission, so a line of a settled mission may
\* still be paid.
Pay(S) ==
  /\ paid' = paid \union S
  /\ settled' = settled \union {l[2] : l \in S}

Next == \E S \in (SUBSET MissionLines) \ {{}} : Pay(S)

Spec == Init /\ [][Next]_<<paid, settled>>

\* A mission is settled exactly when some line of it is paid.
SettledIffPaid == settled = {l[2] : l \in paid}

=============================================================================
