------------------------------- MODULE Weighing -------------------------------
(***************************************************************************)
(* The weighbridge ticket of one mission: readings of the bridge agent     *)
(* (WB-AGENT), weights entered at the panel, approval, rejection, and the  *)
(* adjustment requests that correct a net weight afterwards.  Approval     *)
(* verifies the mission and credits its splits.                            *)
(*                                                                         *)
(* The fare is a rate times the net weight: money is counted in kilograms. *)
(***************************************************************************)
EXTENDS Integers, Handlers

CONSTANTS
  Adjs,       \* ids of the weighbridge_adjustment_requests that may be created
  Empties,    \* weights of the empty truck
  Loadeds,    \* weights of the loaded truck
  Nets,       \* net weights an adjustment may ask for
  MaxCredits  \* bound: approvals begun after this many credits are left out

ASSUME WeighingAssumption ==
  /\ Empties \union Loadeds \subseteq Nat \ {0}
  /\ Nets \subseteq Nat
  /\ MaxCredits \in Nat

VARIABLES
  mission,   \* missions.status
  payment,   \* missions.payment_state
  verified,  \* missions.verified_net_tons_kg
  ticket,    \* the row of weighbridge_tickets, unique for the mission
  adj,       \* [Adjs -> row of weighbridge_adjustment_requests]
  ledger,    \* what the wallets were credited for the mission, in kilograms
  \* Ghosts.
  applied,   \* [Readings -> Nat]: how often a reading was written to the ticket
  credited,  \* how often the splits of the mission were credited
  supervised,\* the last approval was an OPERATION_ADMIN's
  outdated   \* an adjustment was approved that had been proposed for another
             \* net weight than the ticket had

rows == <<mission, payment, verified, ticket, adj, ledger>>
ghosts == <<applied, credited, supervised, outdated>>
vars == <<rows, ghosts, handlerVars>>

\* A reading is identified by when it was captured; the agent may send any
\* reading any number of times.
Readings == ({"empty"} \X Empties) \union ({"loaded"} \X Loadeds)

Chain == <<"ACCEPTED", "ARRIVED", "LOADED", "IN_TRANSIT", "DELIVERED">>
Follows(s, t) == \E n \in 1..4 : Chain[n] = s /\ Chain[n + 1] = t
MissionStatus == {Chain[n] : n \in 1..5} \union {"VERIFIED"}
ArrivedOrLater == MissionStatus \ {"ACCEPTED"}

\* WEIGHED is LOADED_REGISTERED, or PENDING_HOLD for a manual entry or an
\* anomaly: no handler tells the two apart.
TicketStatus == {"NONE", "PENDING_EMPTY", "EMPTY_REGISTERED", "WEIGHED",
                 "APPROVED", "REJECTED", "ADJUSTED"}
Scale == Empties \union Loadeds \union {0}
\* `manual': entry_source is MANUAL; `supervisor': requires_supervisor_approve.
Ticket == [status : TicketStatus, empty : Scale, loaded : Scale, net : Nat,
           manual : BOOLEAN, supervisor : BOOLEAN]
NoTicket == [status |-> "NONE", empty |-> 0, loaded |-> 0, net |-> 0,
             manual |-> FALSE, supervisor |-> FALSE]
NewTicket == [NoTicket EXCEPT !.status = "PENDING_EMPTY"]

Adj == [status : {"NONE", "PENDING", "APPROVED", "REJECTED"}, before : Nat, after : Nat]
NoAdj == [status |-> "NONE", before |-> 0, after |-> 0]

Steps == ArrivedOrLater \ {"VERIFIED"}
Entries == {"manual", "panel"}

\* Requests in flight: a driver's step, "arrive" while it has the ticket to
\* open; a reading, "open" likewise; weights entered; an approval by an
\* OPERATION_ADMIN (`lead') or another; a rejection; an adjustment proposed
\* or decided.  `row' is the ticket as it was read.
InFlight(ops, reads) == [op : ops, reads : {reads}, fresh : BOOLEAN]
StepRequest == InFlight(Steps \union {"arrive"}, {"mission"})
Request ==
  {Free} \union StepRequest
    \union [op : {"open", "empty", "loaded"}, reads : {{"ticket"}}, fresh : BOOLEAN,
            kg : Scale, row : Ticket]
    \union [op : Entries, reads : {{"ticket"}}, fresh : BOOLEAN, kg : Empties \X Loadeds]
    \union [op : {"approve"}, reads : {{"ticket", "mission"}}, fresh : BOOLEAN,
            row : Ticket, lead : BOOLEAN]
    \union InFlight({"reject"}, {"ticket"})
    \union [op : {"propose"}, reads : {{"ticket"}}, fresh : BOOLEAN, row : Ticket,
            after : Nets]
    \union [op : {"accept", "decline"}, reads : {{"adj", "ticket", "mission"}},
            fresh : BOOLEAN, adj : Adjs, row : Ticket, paid : BOOLEAN]

Init ==
  /\ mission = "ACCEPTED"
  /\ payment = "PENDING"
  /\ verified = 0
  /\ ticket = NoTicket
  /\ adj = [a \in Adjs |-> NoAdj]
  /\ ledger = 0
  /\ applied = [e \in Readings |-> 0]
  /\ credited = 0
  /\ supervised = FALSE
  /\ outdated = FALSE
  /\ HandlersInit

\* A handler reads, and remembers what k says.
Reads(r, k) == Begins(r, k) /\ UNCHANGED <<rows, ghosts>>

Abandon(r) == Ends(r, FALSE) /\ UNCHANGED <<rows, ghosts>>

-----------------------------------------------------------------------------
(* The driver's steps (driverUpdateStep), and the ticket they open.        *)

StepRead(r) ==
  \E step \in Steps :
    /\ Follows(mission, step)
    /\ step = "LOADED" => ticket.status \in {"EMPTY_REGISTERED", "WEIGHED"}
    /\ Reads(r, [op |-> IF step = "ARRIVED" /\ ticket.status = "NONE" THEN "arrive" ELSE step,
                 reads |-> {"mission"}, fresh |-> TRUE])

\* createTicket, by a driver's ARRIVED or by the first reading: a second
\* insert for the mission violates its unique index and fails the request.
OpenTicket(r) ==
  /\ request[r].op \in {"arrive", "open"}
  /\ ticket.status = "NONE"
  /\ ticket' = NewTicket
  /\ Goes(r, IF request[r].op = "arrive" THEN [request[r] EXCEPT !.op = "ARRIVED"]
             ELSE [request[r] EXCEPT !.op = "empty", !.row = NewTicket])
  /\ UNCHANGED <<mission, payment, verified, adj, ledger, ghosts>>

StepWrite(r) ==
  /\ request[r].op \in Steps
  /\ mission' = request[r].op
  /\ Wrote(r, {"mission"}, Free)
  /\ UNCHANGED <<payment, verified, ticket, adj, ledger, ghosts>>

-----------------------------------------------------------------------------
(* Weights.                                                                *)

\* missionAllowsReading, the manual lock and the order of the weights.
AllowsReading(row, e) ==
  /\ ~row.manual
  /\ \/ /\ e[1] = "empty"
        /\ mission \in ArrivedOrLater
        /\ row.status = "PENDING_EMPTY"
     \/ /\ e[1] = "loaded"
        /\ row.status = "EMPTY_REGISTERED"
        /\ 0 < row.empty
        /\ row.empty < e[2]

\* ingest, up to its transaction; a reading already stored is answered
\* without a write, and a missing ticket is opened by an empty reading.
IngestRead(r) ==
  \E e \in Readings :
    /\ applied[e] = 0
    /\ \/ /\ ticket.status = "NONE"
          /\ e[1] = "empty"
          /\ mission \in ArrivedOrLater
       \/ ticket.status # "NONE" /\ AllowsReading(ticket, e)
    /\ Reads(r, [op |-> IF ticket.status = "NONE" THEN "open" ELSE e[1],
                 reads |-> {"ticket"}, fresh |-> TRUE, kg |-> e[2], row |-> ticket])

\* The ticket that a reading makes of the row it was checked against: all
\* of its weights are written, those of the earlier reading too.
Weighed(row, e) ==
  IF e[1] = "empty"
  THEN [row EXCEPT !.status = "EMPTY_REGISTERED", !.empty = e[2], !.manual = FALSE]
  ELSE [row EXCEPT !.status = "WEIGHED", !.loaded = e[2], !.net = e[2] - row.empty,
                   !.manual = FALSE]

ReadingOf(r) == <<request[r].op, request[r].kg>>

\* (mutation: the reading's own weight and the net are written, and not the
\* empty weight the net was computed from)
IngestWriteLoaded(r) ==
  /\ request[r].op \in {"empty", "loaded"}
  /\ applied[ReadingOf(r)] = 0
  /\ applied' = [applied EXCEPT ![ReadingOf(r)] = @ + 1]
  /\ ticket' = [Weighed(request[r].row, ReadingOf(r))
                   EXCEPT !.supervisor = ticket.supervisor,
                          !.empty = IF request[r].op = "empty" THEN @ ELSE ticket.empty]
  /\ Wrote(r, {"ticket"}, Free)
  /\ UNCHANGED <<mission, payment, verified, adj, ledger, credited, supervised, outdated>>

\* (mutation: the transaction does not look for the reading again)
IngestWriteTwice(r) ==
  /\ request[r].op \in {"empty", "loaded"}
  /\ applied' = [applied EXCEPT ![ReadingOf(r)] = @ + 1]
  /\ ticket' = [Weighed(request[r].row, ReadingOf(r)) EXCEPT !.supervisor = ticket.supervisor]
  /\ Wrote(r, {"ticket"}, Free)
  /\ UNCHANGED <<mission, payment, verified, adj, ledger, credited, supervised, outdated>>

\* The transaction: the reading is looked for again and stored under its
\* unique key, and the ticket is written from the row read before.
IngestWrite(r) ==
  /\ request[r].op \in {"empty", "loaded"}
  /\ applied[ReadingOf(r)] = 0
  /\ applied' = [applied EXCEPT ![ReadingOf(r)] = @ + 1]
  /\ ticket' = [Weighed(request[r].row, ReadingOf(r)) EXCEPT !.supervisor = ticket.supervisor]
  /\ Wrote(r, {"ticket"}, Free)
  /\ UNCHANGED <<mission, payment, verified, adj, ledger, credited, supervised, outdated>>

\* submitTicketWeights: both weights at once, as a manual entry or not.
WeightsRead(r) ==
  /\ ticket.status \in {"PENDING_EMPTY", "EMPTY_REGISTERED"}
  /\ \E w \in Empties \X Loadeds, op \in Entries :
       /\ w[1] < w[2]
       /\ Reads(r, [op |-> op, reads |-> {"ticket"}, fresh |-> TRUE, kg |-> w])

\* The ticket an entry makes: a manual one is held for a supervisor, an
\* anomaly for anybody.
Entered(r, supervisor) ==
  [status |-> "WEIGHED", empty |-> request[r].kg[1], loaded |-> request[r].kg[2],
   net |-> request[r].kg[2] - request[r].kg[1],
   manual |-> request[r].op = "manual", supervisor |-> supervisor]

\* (mutation: a manual entry does not ask for a supervisor)
WeightsWriteUnmarked(r) ==
  /\ request[r].op \in Entries
  /\ ticket' = Entered(r, FALSE)
  /\ Wrote(r, {"ticket"}, Free)
  /\ UNCHANGED <<mission, payment, verified, adj, ledger, ghosts>>

WeightsWrite(r) ==
  /\ request[r].op \in Entries
  /\ ticket' = Entered(r, request[r].op = "manual")
  /\ Wrote(r, {"ticket"}, Free)
  /\ UNCHANGED <<mission, payment, verified, adj, ledger, ghosts>>

-----------------------------------------------------------------------------
(* Approval and rejection.                                                 *)

\* weighbridgeApprove, up to its transaction: the approver is an
\* OPERATION_ADMIN (`lead') or another role that may approve.
ApproveRead(r) ==
  /\ credited < MaxCredits
  /\ ticket.status = "WEIGHED"
  /\ ticket.net > 0
  /\ mission = "DELIVERED"
  /\ \E lead \in BOOLEAN :
       /\ ticket.supervisor => lead
       /\ Reads(r, [op |-> "approve", reads |-> {"ticket", "mission"}, fresh |-> TRUE,
                    row |-> ticket, lead |-> lead])

\* (mutation: the mission is left DELIVERED)
ApproveWriteTicket(r) ==
  /\ request[r].op = "approve"
  /\ ticket' = [ticket EXCEPT !.status = "APPROVED", !.supervisor = FALSE]
  /\ payment' = "DISTRIBUTED"
  /\ verified' = request[r].row.net
  /\ ledger' = ledger + request[r].row.net
  /\ credited' = credited + 1
  /\ supervised' = request[r].lead
  /\ Wrote(r, {"ticket", "mission"}, Free)
  /\ UNCHANGED <<mission, adj, applied, outdated>>

\* The transaction: both rows are written whatever they hold by now, and
\* the splits are those of the net weight that was read.
ApproveWrite(r) ==
  /\ request[r].op = "approve"
  /\ ticket' = [ticket EXCEPT !.status = "APPROVED", !.supervisor = FALSE]
  /\ mission' = "VERIFIED"
  /\ payment' = "DISTRIBUTED"
  /\ verified' = request[r].row.net
  /\ ledger' = ledger + request[r].row.net
  /\ credited' = credited + 1
  /\ supervised' = request[r].lead
  /\ Wrote(r, {"ticket", "mission"}, Free)
  /\ UNCHANGED <<adj, applied, outdated>>

RejectRead(r) ==
  /\ ticket.status \notin {"NONE", "APPROVED", "ADJUSTED", "REJECTED"}
  /\ Reads(r, [op |-> "reject", reads |-> {"ticket"}, fresh |-> TRUE])

RejectWrite(r) ==
  /\ request[r].op = "reject"
  /\ ticket' = [ticket EXCEPT !.status = "REJECTED"]
  /\ Wrote(r, {"ticket"}, Free)
  /\ UNCHANGED <<mission, payment, verified, adj, ledger, ghosts>>

-----------------------------------------------------------------------------
(* Adjustments: proposed for a ticket in any status.                       *)

ProposeRead(r) ==
  /\ ticket.status # "NONE"
  /\ \E n \in Nets :
       Reads(r, [op |-> "propose", reads |-> {"ticket"}, fresh |-> TRUE,
                 row |-> ticket, after |-> n])

ProposeWrite(r) ==
  /\ request[r].op = "propose"
  /\ \E a \in Adjs :
       /\ adj[a] = NoAdj
       /\ adj' = [adj EXCEPT ![a] = [status |-> "PENDING", before |-> request[r].row.net,
                                     after |-> request[r].after]]
  /\ Wrote(r, {}, Free)
  /\ UNCHANGED <<mission, payment, verified, ticket, ledger, ghosts>>

DecideRead(r) ==
  \E a \in Adjs, op \in {"accept", "decline"} :
    /\ adj[a].status = "PENDING"
    /\ Reads(r, [op |-> op, reads |-> {"adj", "ticket", "mission"}, fresh |-> TRUE,
                 adj |-> a, row |-> ticket, paid |-> payment = "DISTRIBUTED"])

\* (mutation: the whole new fare is posted and not the difference)
AcceptWriteWhole(r) ==
  /\ request[r].op = "accept"
  /\ LET a == adj[request[r].adj] IN
       /\ adj' = [adj EXCEPT ![request[r].adj].status = "APPROVED"]
       /\ ticket' = [ticket EXCEPT !.net = a.after, !.status = "ADJUSTED"]
       /\ ledger' = IF request[r].paid THEN ledger + a.after ELSE ledger
       /\ verified' = IF a.after # a.before THEN a.after ELSE verified
       /\ outdated' = (outdated \/ a.before # request[r].row.net)
  /\ Wrote(r, {"adj", "ticket", "mission"}, Free)
  /\ UNCHANGED <<mission, payment, applied, credited, supervised>>

\* approveAdjustment: the difference to the net weight of the day it was
\* proposed is posted if the mission read was DISTRIBUTED; the ticket
\* becomes ADJUSTED in any case.
AcceptWrite(r) ==
  /\ request[r].op = "accept"
  /\ LET a == adj[request[r].adj] IN
       /\ adj' = [adj EXCEPT ![request[r].adj].status = "APPROVED"]
       /\ ticket' = [ticket EXCEPT !.net = a.after, !.status = "ADJUSTED"]
       /\ ledger' = IF request[r].paid THEN ledger + a.after - a.before ELSE ledger
       /\ verified' = IF a.after # a.before THEN a.after ELSE verified
       /\ outdated' = (outdated \/ a.before # request[r].row.net)
  /\ Wrote(r, {"adj", "ticket", "mission"}, Free)
  /\ UNCHANGED <<mission, payment, applied, credited, supervised>>

DeclineWrite(r) ==
  /\ request[r].op = "decline"
  /\ adj' = [adj EXCEPT ![request[r].adj].status = "REJECTED"]
  /\ Wrote(r, {"adj"}, Free)
  /\ UNCHANGED <<mission, payment, verified, ticket, ledger, ghosts>>

-----------------------------------------------------------------------------
Driver(r) == StepRead(r) \/ OpenTicket(r) \/ StepWrite(r)
Bridge(r) == IngestRead(r) \/ IngestWrite(r)
Office(r) == \/ WeightsRead(r) \/ WeightsWrite(r)
             \/ ApproveRead(r) \/ ApproveWrite(r)
             \/ RejectRead(r) \/ RejectWrite(r)
             \/ ProposeRead(r) \/ ProposeWrite(r)
             \/ DecideRead(r) \/ AcceptWrite(r) \/ DeclineWrite(r)

Next == \E r \in Requests : Driver(r) \/ Bridge(r) \/ Office(r) \/ Abandon(r)

Spec == Init /\ [][Next]_vars

-----------------------------------------------------------------------------
(* Properties.                                                             *)

\* Type invariant.  The net weight is a number of kilograms that is never
\* negative, whichever way the two weights reached the ticket.
TypeOK ==
  /\ mission \in MissionStatus
  /\ payment \in {"PENDING", "DISTRIBUTED"}
  /\ verified \in Nat
  /\ ticket \in Ticket
  /\ adj \in [Adjs -> Adj]
  /\ ledger \in Int
  /\ request \in [Requests -> Request]
  /\ applied \in [Readings -> Nat]
  /\ credited \in Nat
  /\ supervised \in BOOLEAN
  /\ outdated \in BOOLEAN

\* The agent sends a reading again until it has an answer, and two copies
\* may be in the server at once: a reading reaches the ticket at most once.
ReadingAppliedOnce == \A e \in Readings : applied[e] <= 1

\* However readings, entries and adjustments interleave, the net weight on
\* the ticket belongs to the two weights beside it, or to an adjustment:
\* never to one weight of one weighing and one of another.
NetIsOneWeighing ==
  \/ ticket.net = ticket.loaded - ticket.empty
  \/ ticket.net = 0 /\ ticket.loaded = 0
  \/ \E a \in Adjs : adj[a].status # "NONE" /\ adj[a].after = ticket.net

\* While no handler has written over a row that changed since it read it,
\* a mission is credited once and exactly when it is VERIFIED.
CreditedOnce ==
  ~overtaken => /\ credited <= 1
                /\ credited = 1 <=> mission = "VERIFIED"

\* Under the same condition, and while every adjustment approved had been
\* proposed for the net weight it replaced, the wallets hold the fare of the
\* net weight that the ticket and the mission show.
LedgerFollowsNet ==
  ~overtaken /\ ~outdated /\ payment = "DISTRIBUTED" => ledger = ticket.net /\ verified = ticket.net

\* Under the same condition, a manual entry was credited on the approval of
\* an OPERATION_ADMIN.
ManualIsSupervised ==
  ~overtaken /\ credited > 0 /\ ticket.manual => supervised

=============================================================================
