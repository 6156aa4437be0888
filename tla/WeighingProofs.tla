---------------------------- MODULE WeighingProofs ----------------------------
(***************************************************************************)
(* Proofs about Weighing, for any weights and any number of handlers and   *)
(* adjustment requests.                                                    *)
(***************************************************************************)
EXTENDS Weighing, TLAPS

-----------------------------------------------------------------------------
(* The inductive invariant.                                                *)

\* What a handler carries over its await still is what it has checked.
Carried(k) ==
  /\ k.op \in {"open", "empty"} => k.kg \in Empties
  /\ k.op = "empty" => k.row.loaded = 0 /\ k.row.net = 0
  /\ k.op = "loaded" => k.kg \in Loadeds /\ k.row.empty < k.kg
  /\ k.op \in Entries => k.kg[1] < k.kg[2]

\* What it has checked still holds of mission, payment and ticket if none of them was written.
Seen(k, m, p, t) ==
  k.fresh =>
    /\ k.op \in Steps \union {"arrive"} => m # "VERIFIED"
    /\ k.op \in {"empty", "loaded"} \union Entries =>
         t.status \in {"PENDING_EMPTY", "EMPTY_REGISTERED"}
    /\ k.op = "approve" => /\ m = "DELIVERED"
                           /\ t = k.row
                           /\ t.status = "WEIGHED"
                           /\ t.supervisor => k.lead
    /\ k.op = "reject" => t.status \notin {"NONE", "APPROVED", "ADJUSTED"}
    /\ k.op = "accept" => k.row = t /\ k.paid = (p = "DISTRIBUTED")

InFlightInv == \A r \in Requests : Carried(request[r]) /\ Seen(request[r], mission, payment, ticket)

\* A ticket without an empty weight has no other; a manual entry waits for
\* the supervisor.
TicketInv ==
  /\ ticket.status = "PENDING_EMPTY" => ticket.loaded = 0 /\ ticket.net = 0
  /\ ticket.status = "WEIGHED" /\ ticket.manual => ticket.supervisor

\* Nothing is adjusted before there is a ticket.
AdjustingInv ==
  ticket.status = "NONE" =>
    /\ \A a \in Adjs : adj[a].status = "NONE"
    /\ \A r \in Requests : request[r].op \notin {"propose", "accept", "decline"}

\* Before the credit and after it.
CreditInv ==
  ~overtaken =>
    \/ /\ credited = 0
       /\ payment = "PENDING"
       /\ mission # "VERIFIED"
       /\ ledger = 0
    \/ /\ credited = 1
       /\ payment = "DISTRIBUTED"
       /\ mission = "VERIFIED"
       /\ ticket.status \in {"APPROVED", "ADJUSTED"}
       /\ ticket.manual => supervised
       /\ ~outdated => ledger = ticket.net /\ verified = ticket.net

IInv ==
  /\ TypeOK
  /\ ReadingAppliedOnce
  /\ NetIsOneWeighing
  /\ InFlightInv
  /\ TicketInv
  /\ AdjustingInv
  /\ CreditInv

-----------------------------------------------------------------------------
(* Handlers.                                                               *)

\* The kinds of request, by what they carry.
ReadingRequest == [op : {"open", "empty", "loaded"}, reads : {{"ticket"}}, fresh : BOOLEAN,
                   kg : Scale, row : Ticket]
EntryRequest == [op : Entries, reads : {{"ticket"}}, fresh : BOOLEAN, kg : Empties \X Loadeds]
ApproveRequest == [op : {"approve"}, reads : {{"ticket", "mission"}}, fresh : BOOLEAN,
                   row : Ticket, lead : BOOLEAN]
RejectRequest == InFlight({"reject"}, {"ticket"})
ProposeRequest == [op : {"propose"}, reads : {{"ticket"}}, fresh : BOOLEAN, row : Ticket,
                   after : Nets]
DecideRequest == [op : {"accept", "decline"}, reads : {{"adj", "ticket", "mission"}},
                  fresh : BOOLEAN, adj : Adjs, row : Ticket, paid : BOOLEAN]

LEMMA RequestCases ==
  Request = {Free} \union StepRequest \union ReadingRequest \union EntryRequest
              \union ApproveRequest \union RejectRequest \union ProposeRequest
              \union DecideRequest
  BY DEF Request, ReadingRequest, EntryRequest, ApproveRequest, RejectRequest, ProposeRequest,
         DecideRequest

\* The kind follows from what the request is about to do.
LEMMA KindOf ==
  ASSUME NEW k \in Request
  PROVE  /\ k.op = "free" => k = Free
         /\ k.op \in Steps \union {"arrive"} => k \in StepRequest
         /\ k.op \in {"open", "empty", "loaded"} => k \in ReadingRequest
         /\ k.op \in Entries => k \in EntryRequest
         /\ k.op = "approve" => k \in ApproveRequest
         /\ k.op = "reject" => k \in RejectRequest
         /\ k.op = "propose" => k \in ProposeRequest
         /\ k.op \in {"accept", "decline"} => k \in DecideRequest
  BY RequestCases DEF Free, StepRequest, InFlight, Steps, ArrivedOrLater, MissionStatus, Chain,
     ReadingRequest, Entries, EntryRequest, ApproveRequest, RejectRequest, ProposeRequest, DecideRequest

\* Losing freshness does not change what a request carries.
LEMMA StaleRequest ==
  ASSUME NEW k \in Request, k # Free, Carried(k)
  PROVE  /\ [k EXCEPT !.fresh = FALSE] \in Request
         /\ [k EXCEPT !.fresh = FALSE].fresh = FALSE
         /\ Carried([k EXCEPT !.fresh = FALSE])
  <1>1. CASE k \in StepRequest
    <2> DEFINE j == [k EXCEPT !.fresh = FALSE]
    <2>1. j \in StepRequest /\ j.fresh = FALSE /\ j.op = k.op
      BY <1>1 DEF StepRequest, InFlight
    <2>2. k.op \notin {"open", "empty", "loaded"} \union Entries
      BY <1>1 DEF StepRequest, InFlight, Steps, ArrivedOrLater, MissionStatus, Chain, Entries
    <2> HIDE DEF j
    <2>3. j \in Request /\ Carried(j)
      BY <2>1, <2>2, RequestCases DEF Carried
    <2> QED
      BY <2>1, <2>3 DEF j
  <1>2. CASE k \in ReadingRequest
    <2> DEFINE j == [k EXCEPT !.fresh = FALSE]
    <2>1. j \in ReadingRequest /\ j.fresh = FALSE /\ j.op = k.op /\ j.kg = k.kg /\ j.row = k.row
      BY <1>2 DEF ReadingRequest
    <2>2. k.op \notin Entries
      BY <1>2 DEF ReadingRequest, Entries
    <2> HIDE DEF j
    <2>3. j \in Request /\ Carried(j)
      BY <2>1, <2>2, RequestCases DEF Carried
    <2> QED
      BY <2>1, <2>3 DEF j
  <1>3. CASE k \in EntryRequest
    BY <1>3, RequestCases DEF EntryRequest, Carried, Entries
  <1>4. CASE k \in ApproveRequest
    BY <1>4, RequestCases DEF ApproveRequest, Carried, Entries
  <1>5. CASE k \in RejectRequest
    BY <1>5, RequestCases DEF RejectRequest, InFlight, Carried, Entries
  <1>6. CASE k \in ProposeRequest
    BY <1>6, RequestCases DEF ProposeRequest, Carried, Entries
  <1>7. CASE k \in DecideRequest
    BY <1>7, RequestCases DEF DecideRequest, Carried, Entries
  <1> QED
    BY <1>1, <1>2, <1>3, <1>4, <1>5, <1>6, <1>7, RequestCases

\* And a request is its fields.
LEMMA SameFresh ==
  ASSUME NEW k \in Request
  PROVE  /\ [k EXCEPT !.fresh = k.fresh] = k
         /\ k.fresh \in BOOLEAN
         /\ k = Free => k.fresh /\ k.reads = {}
  <1>1. k = Free => k.fresh = TRUE /\ k.reads = {} /\ [k EXCEPT !.fresh = TRUE] = k
    <2>1. Free.fresh = TRUE /\ Free.reads = {}
      BY DEF Free
    <2>2. [Free EXCEPT !.fresh = TRUE] = Free
      <3>1. ASSUME NEW j \in [op : {"free"}, reads : {{}}, fresh : {TRUE}]
            PROVE  j = Free
        BY DEF Free
      <3>2. [Free EXCEPT !.fresh = TRUE] \in [op : {"free"}, reads : {{}}, fresh : {TRUE}]
        BY DEF Free
      <3> QED
        BY <3>1, <3>2
    <2> QED
      BY <2>1, <2>2
  <1>2. k \in StepRequest \union RejectRequest => k.fresh \in BOOLEAN /\ [k EXCEPT !.fresh = k.fresh] = k
    BY DEF StepRequest, RejectRequest, InFlight
  <1>3. k \in ReadingRequest => k.fresh \in BOOLEAN /\ [k EXCEPT !.fresh = k.fresh] = k
    BY DEF ReadingRequest
  <1>4. k \in EntryRequest => k.fresh \in BOOLEAN /\ [k EXCEPT !.fresh = k.fresh] = k
    BY DEF EntryRequest
  <1>5. k \in ApproveRequest => k.fresh \in BOOLEAN /\ [k EXCEPT !.fresh = k.fresh] = k
    BY DEF ApproveRequest
  <1>6. k \in ProposeRequest => k.fresh \in BOOLEAN /\ [k EXCEPT !.fresh = k.fresh] = k
    BY DEF ProposeRequest
  <1>7. k \in DecideRequest => k.fresh \in BOOLEAN /\ [k EXCEPT !.fresh = k.fresh] = k
    BY DEF DecideRequest
  <1> QED
    BY <1>1, <1>2, <1>3, <1>4, <1>5, <1>6, <1>7, RequestCases

\* The other handlers after a write of W: fresh only if they have read
\* nothing that was written, and then the same as before.
LEMMA WroteOthers ==
  ASSUME TypeOK, InFlightInv, NEW r \in Requests, NEW W, Wrote(r, W, Free)
  PROVE  /\ request' \in [Requests -> Request]
         /\ request'[r] = Free
         /\ \A q \in Requests \ {r} :
              /\ Carried(request'[q])
              /\ request'[q].fresh =>
                   request'[q] = request[q] /\ request[q].fresh /\ request[q].reads \intersect W = {}
         /\ ~overtaken' => ~overtaken /\ request[r].fresh
  <1>1. request' = [q \in Requests |-> request'[q]] /\ request'[r] = Free
    BY DEF Wrote
  <1>2. Free \in Request
    BY RequestCases
  <1>3. ASSUME NEW q \in Requests \ {r}
        PROVE  /\ request'[q] \in Request
               /\ Carried(request'[q])
               /\ request'[q].fresh =>
                    request'[q] = request[q] /\ request[q].fresh /\ request[q].reads \intersect W = {}
    <2> DEFINE k == request[q]
               f == k.fresh /\ k.reads \intersect W = {}
    <2>1. k \in Request /\ Carried(k)
      BY DEF TypeOK, InFlightInv
    <2>2. request'[q] = [k EXCEPT !.fresh = f]
      BY DEF Wrote
    <2>3. k.fresh \in BOOLEAN /\ (k = Free => f)
      BY <2>1, SameFresh
    <2>4. CASE f
      <3>1. f = k.fresh
        BY <2>3, <2>4
      <3>2. request'[q] = k
        BY <2>1, <2>2, <3>1, SameFresh
      <3> QED
        BY <2>1, <2>4, <3>2
    <2>5. CASE ~f
      <3>1. f = FALSE
        BY <2>3, <2>5
      <3>2. request'[q] = [k EXCEPT !.fresh = FALSE]
        BY <2>2, <3>1
      <3>3. k # Free
        BY <2>3, <2>5
      <3> HIDE DEF k, f
      <3> QED
        BY <2>1, <3>2, <3>3, StaleRequest
    <2> QED
      BY <2>4, <2>5
  <1>4. ~overtaken' => ~overtaken /\ request[r].fresh
    BY DEF Wrote
  <1> QED
    BY <1>1, <1>2, <1>3, <1>4

\* No handler goes on to do something else because of it.
LEMMA WroteOps ==
  ASSUME TypeOK, NEW r \in Requests, NEW W, Wrote(r, W, Free)
  PROVE  /\ request'[r].op = "free"
         /\ \A q \in Requests \ {r} : request'[q].op = request[q].op
  <1>1. request'[r].op = "free"
    BY DEF Wrote, Free
  <1>2. ASSUME NEW q \in Requests \ {r}
        PROVE  request'[q].op = request[q].op
    <2>1. request'[q] = [request[q] EXCEPT !.fresh = @ /\ request[q].reads \intersect W = {}]
      BY DEF Wrote
    <2>2. request[q] \in Request
      BY DEF TypeOK
    <2> QED
      BY <2>1, <2>2, RequestCases DEF Free, StepRequest, InFlight, ReadingRequest, EntryRequest,
         ApproveRequest, RejectRequest, ProposeRequest, DecideRequest
  <1> QED
    BY <1>1, <1>2

\* A write tells every handler that has read what it changes.
LEMMA WroteInFlight ==
  ASSUME TypeOK, InFlightInv, NEW r \in Requests, NEW W, Wrote(r, W, Free),
         ticket' = ticket \/ "ticket" \in W,
         (mission' = mission /\ payment' = payment) \/ "mission" \in W
  PROVE  InFlightInv'
  <1>1. Carried(Free) /\ Seen(Free, mission', payment', ticket')
    BY DEF Carried, Seen, Free, Entries, Steps, ArrivedOrLater, MissionStatus, Chain
  <1>2. ASSUME NEW q \in Requests \ {r}
        PROVE  Carried(request'[q]) /\ Seen(request'[q], mission', payment', ticket')
    <2>1. Carried(request'[q])
      BY <1>2, WroteOthers
    <2>2. CASE ~request'[q].fresh
      BY <2>1, <2>2 DEF Seen
    <2>3. CASE request'[q].fresh
      <3>1. request'[q] = request[q] /\ request[q].fresh /\ request[q].reads \intersect W = {}
        BY <1>2, <2>3, WroteOthers
      <3> DEFINE k == request[q]
      <3>2. k \in Request /\ Seen(k, mission, payment, ticket) /\ k.fresh
        BY <3>1 DEF TypeOK, InFlightInv
      <3>3. /\ k.op \in Steps \union {"arrive"} => "mission" \in k.reads
            /\ k.op \in {"empty", "loaded", "reject"} \union Entries => "ticket" \in k.reads
            /\ k.op \in {"approve", "accept"} => {"ticket", "mission"} \subseteq k.reads
        BY <3>2, KindOf DEF StepRequest, InFlight, ReadingRequest, EntryRequest, ApproveRequest,
           RejectRequest, DecideRequest
      <3>4. k.reads \intersect W = {}
        BY <3>1
      <3> HIDE DEF k
      <3>5. Seen(k, mission', payment', ticket')
        BY <3>2, <3>3, <3>4 DEF Seen
      <3> QED
        BY <2>1, <3>1, <3>5 DEF k
    <2> QED
      BY <2>2, <2>3
  <1>3. request'[r] = Free
    BY WroteOthers
  <1> QED
    BY <1>1, <1>2, <1>3 DEF InFlightInv

\* A handler that has checked what it carries.
LEMMA ReadsInv ==
  ASSUME IInv, NEW r \in Requests, NEW k \in Request, Carried(k), Seen(k, mission, payment, ticket), Reads(r, k),
         ticket.status = "NONE" => k.op \notin {"propose", "accept", "decline"}
  PROVE  IInv'
  <1>1. /\ UNCHANGED <<rows, ghosts>> /\ overtaken' = overtaken
        /\ request' = [request EXCEPT ![r] = k]
    BY DEF Reads, Begins, Goes
  <1>2. TypeOK' /\ InFlightInv' /\ AdjustingInv'
    BY <1>1 DEF IInv, TypeOK, InFlightInv, AdjustingInv, Seen, rows, ghosts
  <1> QED
    BY <1>1, <1>2 DEF IInv, ReadingAppliedOnce, NetIsOneWeighing, TicketInv, CreditInv, rows, ghosts

-----------------------------------------------------------------------------
(* The actions.                                                            *)

\* What the handlers of the driver and of the bridge have checked.
LEMMA BridgeReadInv ==
  ASSUME IInv, NEW r \in Requests, StepRead(r) \/ IngestRead(r) \/ WeightsRead(r)
  PROVE  IInv'
  <1>1. CASE StepRead(r)
    <2>1. PICK step \in Steps :
            /\ Follows(mission, step)
            /\ Reads(r, [op |-> IF step = "ARRIVED" /\ ticket.status = "NONE" THEN "arrive" ELSE step,
                         reads |-> {"mission"}, fresh |-> TRUE])
      BY <1>1 DEF StepRead
    <2> DEFINE op == IF step = "ARRIVED" /\ ticket.status = "NONE" THEN "arrive" ELSE step
               k == [op |-> op, reads |-> {"mission"}, fresh |-> TRUE]
    <2>2. op \in Steps \union {"arrive"}
      OBVIOUS
    <2>3. mission # "VERIFIED"
      BY <2>1 DEF Follows, Chain
    <2> HIDE DEF op
    <2>4. k \in StepRequest
      BY <2>2 DEF StepRequest, InFlight
    <2>5. op \notin {"open", "empty", "loaded", "approve", "reject", "propose", "accept", "decline"} \union Entries
      BY <2>2 DEF Steps, ArrivedOrLater, MissionStatus, Chain, Entries
    <2>6. Carried(k) /\ Seen(k, mission, payment, ticket)
      BY <2>3, <2>5 DEF Carried, Seen
    <2> QED
      BY <2>1, <2>4, <2>5, <2>6, RequestCases, ReadsInv DEF op
  <1>2. CASE IngestRead(r)
    <2>1. PICK e \in Readings :
            /\ \/ /\ ticket.status = "NONE"
                  /\ e[1] = "empty"
               \/ ticket.status # "NONE" /\ AllowsReading(ticket, e)
            /\ Reads(r, [op |-> IF ticket.status = "NONE" THEN "open" ELSE e[1],
                         reads |-> {"ticket"}, fresh |-> TRUE, kg |-> e[2], row |-> ticket])
      BY <1>2 DEF IngestRead
    <2> DEFINE op == IF ticket.status = "NONE" THEN "open" ELSE e[1]
               k == [op |-> op, reads |-> {"ticket"}, fresh |-> TRUE, kg |-> e[2], row |-> ticket]
    <2>2. ticket \in Ticket /\ TicketInv
      BY DEF IInv, TypeOK
    <2>3. /\ e[1] \in {"empty", "loaded"}
          /\ e[1] = "empty" => e[2] \in Empties
          /\ e[1] = "loaded" => e[2] \in Loadeds
      BY DEF Readings
    <2>4. /\ op \in {"open", "empty", "loaded"}
          /\ op \in {"open", "empty"} => e[2] \in Empties
          /\ op = "empty" => ticket.status = "PENDING_EMPTY"
          /\ op = "loaded" => /\ ticket.status = "EMPTY_REGISTERED"
                              /\ ticket.empty < e[2]
                              /\ e[2] \in Loadeds
      BY <2>1, <2>3 DEF AllowsReading
    <2> HIDE DEF op
    <2>5. k \in ReadingRequest
      BY <2>2, <2>3, <2>4 DEF ReadingRequest, Scale
    <2>6. op \notin Steps \union {"arrive", "approve", "reject", "propose", "accept", "decline"} \union Entries
      BY <2>4 DEF Steps, ArrivedOrLater, MissionStatus, Chain, Entries
    <2>7. Carried(k) /\ Seen(k, mission, payment, ticket)
      BY <2>2, <2>4, <2>6 DEF Carried, Seen, TicketInv
    <2> QED
      BY <2>1, <2>5, <2>6, <2>7, RequestCases, ReadsInv DEF op
  <1>3. CASE WeightsRead(r)
    <2>1. PICK w \in Empties \X Loadeds, op \in Entries :
            /\ w[1] < w[2]
            /\ Reads(r, [op |-> op, reads |-> {"ticket"}, fresh |-> TRUE, kg |-> w])
      BY <1>3 DEF WeightsRead
    <2> DEFINE k == [op |-> op, reads |-> {"ticket"}, fresh |-> TRUE, kg |-> w]
    <2>2. k \in EntryRequest
      BY DEF EntryRequest
    <2>3. Carried(k) /\ Seen(k, mission, payment, ticket)
      BY <1>3, <2>1 DEF Carried, Seen, WeightsRead, Entries, Steps, ArrivedOrLater, MissionStatus, Chain
    <2> QED
      BY <2>1, <2>2, <2>3, RequestCases, ReadsInv DEF Entries
  <1> QED
    BY <1>1, <1>2, <1>3

\* And those of the office.
LEMMA OfficeReadInv ==
  ASSUME IInv, NEW r \in Requests,
         ApproveRead(r) \/ RejectRead(r) \/ ProposeRead(r) \/ DecideRead(r)
  PROVE  IInv'
  <1> USE DEF Carried, Seen, Entries, Steps, ArrivedOrLater, MissionStatus, Chain
  <1>1. ticket \in Ticket
    BY DEF IInv, TypeOK
  <1>2. CASE ApproveRead(r)
    <2>1. PICK lead \in BOOLEAN :
            /\ ticket.supervisor => lead
            /\ Reads(r, [op |-> "approve", reads |-> {"ticket", "mission"}, fresh |-> TRUE,
                         row |-> ticket, lead |-> lead])
      BY <1>2 DEF ApproveRead
    <2> DEFINE k == [op |-> "approve", reads |-> {"ticket", "mission"}, fresh |-> TRUE,
                     row |-> ticket, lead |-> lead]
    <2>2. k \in ApproveRequest
      BY <1>1 DEF ApproveRequest
    <2>3. Carried(k) /\ Seen(k, mission, payment, ticket)
      BY <1>2, <2>1 DEF ApproveRead
    <2> QED
      BY <2>1, <2>2, <2>3, RequestCases, ReadsInv
  <1>3. CASE RejectRead(r)
    <2> DEFINE k == [op |-> "reject", reads |-> {"ticket"}, fresh |-> TRUE]
    <2>1. k \in RejectRequest
      BY DEF RejectRequest, InFlight
    <2>2. Carried(k) /\ Seen(k, mission, payment, ticket)
      BY <1>3 DEF RejectRead
    <2> QED
      BY <1>3, <2>1, <2>2, RequestCases, ReadsInv DEF RejectRead
  <1>4. CASE ProposeRead(r)
    <2>1. PICK n \in Nets : Reads(r, [op |-> "propose", reads |-> {"ticket"}, fresh |-> TRUE,
                                      row |-> ticket, after |-> n])
      BY <1>4 DEF ProposeRead
    <2> DEFINE k == [op |-> "propose", reads |-> {"ticket"}, fresh |-> TRUE,
                     row |-> ticket, after |-> n]
    <2>2. k \in ProposeRequest
      BY <1>1 DEF ProposeRequest
    <2>3. Carried(k) /\ Seen(k, mission, payment, ticket)
      OBVIOUS
    <2> QED
      BY <2>1, <2>2, <2>3, RequestCases, ReadsInv, <1>4 DEF ProposeRead
  <1>5. CASE DecideRead(r)
    <2>1. PICK a \in Adjs, op \in {"accept", "decline"} :
            Reads(r, [op |-> op, reads |-> {"adj", "ticket", "mission"}, fresh |-> TRUE,
                      adj |-> a, row |-> ticket, paid |-> payment = "DISTRIBUTED"])
      BY <1>5 DEF DecideRead
    <2>2. ticket.status # "NONE"
      BY <1>5 DEF DecideRead, IInv, AdjustingInv
    <2> DEFINE k == [op |-> op, reads |-> {"adj", "ticket", "mission"}, fresh |-> TRUE,
                     adj |-> a, row |-> ticket, paid |-> payment = "DISTRIBUTED"]
    <2>3. k \in DecideRequest
      BY <1>1 DEF DecideRequest
    <2>4. k.paid = (payment = "DISTRIBUTED") /\ k.row = ticket /\ k.op \in {"accept", "decline"}
      OBVIOUS
    <2> HIDE DEF k
    <2>5. Carried(k) /\ Seen(k, mission, payment, ticket)
      BY <2>4
    <2> QED
      BY <2>1, <2>3, <2>5, <2>2, RequestCases, ReadsInv DEF k
  <1> QED
    BY <1>2, <1>3, <1>4, <1>5

\* A new ticket has no weights, and whoever opens it has seen it.
LEMMA OpenTicketInv ==
  ASSUME IInv, NEW r \in Requests, OpenTicket(r)
  PROVE  IInv'
  <1> DEFINE k == IF request[r].op = "arrive" THEN [request[r] EXCEPT !.op = "ARRIVED"]
                  ELSE [request[r] EXCEPT !.op = "empty", !.row = NewTicket]
  <1>1. /\ ticket' = NewTicket /\ ticket.status = "NONE" /\ request[r].op \in {"arrive", "open"}
        /\ Goes(r, k) /\ UNCHANGED <<mission, payment, verified, adj, ledger, ghosts>>
    BY DEF OpenTicket
  <1>2. NewTicket \in Ticket /\ NewTicket.status = "PENDING_EMPTY" /\ NewTicket.loaded = 0
        /\ NewTicket.net = 0 /\ NewTicket.empty = 0
    BY DEF NewTicket, NoTicket, Ticket, TicketStatus, Scale
  <1>3. request[r] \in Request /\ Carried(request[r]) /\ Seen(request[r], mission, payment, ticket)
    BY DEF IInv, TypeOK, InFlightInv
  <1>4. k \in Request /\ Carried(k) /\ Seen(k, mission, payment, NewTicket)
    <2>1. CASE request[r].op = "arrive"
      <3>1. request[r] \in StepRequest
        BY <1>3, <2>1, KindOf
      <3>2. k \in StepRequest /\ k.op = "ARRIVED" /\ k.fresh = request[r].fresh
        BY <2>1, <3>1 DEF StepRequest, InFlight, Steps, ArrivedOrLater, MissionStatus, Chain
      <3>3. k.fresh => mission # "VERIFIED"
        BY <1>3, <2>1, <3>2 DEF Seen
      <3> HIDE DEF k
      <3> QED
        BY <3>2, <3>3, RequestCases DEF Carried, Seen, Entries
    <2>2. CASE request[r].op = "open"
      <3>1. request[r] \in ReadingRequest
        BY <1>3, <2>2, KindOf
      <3>2. k \in ReadingRequest /\ k.op = "empty" /\ k.row = NewTicket /\ k.kg = request[r].kg
        BY <1>2, <2>2, <3>1 DEF ReadingRequest
      <3>3. k.kg \in Empties
        BY <1>3, <2>2, <3>2 DEF Carried
      <3> HIDE DEF k
      <3> QED
        BY <1>2, <3>2, <3>3, RequestCases
        DEF Carried, Seen, Entries, Steps, ArrivedOrLater, MissionStatus, Chain
    <2> QED
      BY <1>1, <2>1, <2>2
  <1> HIDE DEF k
  <1>5. request' = [request EXCEPT ![r] = k] /\ overtaken' = overtaken
    BY <1>1 DEF Goes
  <1>6. TypeOK'
    BY <1>1, <1>2, <1>4, <1>5 DEF IInv, TypeOK, ghosts
  <1>7. InFlightInv'
    <2> SUFFICES ASSUME NEW q \in Requests \ {r}
                 PROVE  Seen(request[q], mission, payment, NewTicket)
      BY <1>1, <1>4, <1>5 DEF IInv, TypeOK, InFlightInv
    <2>1. Seen(request[q], mission, payment, ticket) /\ request[q].op # "accept"
      BY <1>1 DEF IInv, InFlightInv, AdjustingInv
    <2> QED
      BY <1>1, <1>2, <2>1 DEF Seen
  <1>8. TicketInv' /\ AdjustingInv' /\ NetIsOneWeighing' /\ ReadingAppliedOnce' /\ CreditInv'
    BY <1>1, <1>2, <1>5
    DEF IInv, TicketInv, AdjustingInv, NetIsOneWeighing, ReadingAppliedOnce, CreditInv, ghosts
  <1> QED
    BY <1>6, <1>7, <1>8 DEF IInv

LEMMA StepWriteInv ==
  ASSUME IInv, NEW r \in Requests, StepWrite(r)
  PROVE  IInv'
  <1>1. /\ Wrote(r, {"mission"}, Free) /\ mission' = request[r].op /\ mission' \in Steps
        /\ UNCHANGED <<payment, verified, ticket, adj, ledger, ghosts>>
    BY DEF StepWrite
  <1>2. TypeOK' /\ InFlightInv'
    BY <1>1, WroteOthers, WroteInFlight DEF IInv, TypeOK, ghosts, Steps, ArrivedOrLater
  <1>3. CreditInv'
    <2>1. ~overtaken' => ~overtaken /\ request[r].fresh
      BY <1>1, WroteOthers DEF IInv
    <2>2. request[r].fresh => mission # "VERIFIED"
      BY <1>1 DEF IInv, InFlightInv, Seen
    <2>3. mission' # "VERIFIED"
      BY <1>1 DEF Steps
    <2> QED
      BY <1>1, <2>1, <2>2, <2>3 DEF IInv, CreditInv, ghosts
  <1>4. AdjustingInv'
    BY <1>1, WroteOps DEF IInv, AdjustingInv
  <1> QED
    BY <1>1, <1>2, <1>3, <1>4 DEF IInv, TicketInv, NetIsOneWeighing, ReadingAppliedOnce, ghosts

\* A reading or an entry that is not overtaken changes the weights of a
\* ticket that has not been credited.
LEMMA WeightsNotCredited ==
  ASSUME IInv, NEW r \in Requests, request[r].op \in {"empty", "loaded"} \union Entries,
         Wrote(r, {"ticket"}, Free), UNCHANGED <<mission, payment, ledger, credited>>
  PROVE  CreditInv'
  <1>1. ~overtaken' => ~overtaken /\ request[r].fresh
    BY WroteOthers DEF IInv
  <1>2. request[r].fresh => ticket.status \in {"PENDING_EMPTY", "EMPTY_REGISTERED"}
    BY DEF IInv, InFlightInv, Seen
  <1> QED
    BY <1>1, <1>2 DEF IInv, CreditInv

\* A reading writes the weights of the row it was checked against.
LEMMA IngestWriteInv ==
  ASSUME IInv, NEW r \in Requests, IngestWrite(r)
  PROVE  IInv'
  <1> DEFINE k == request[r]
             e == <<k.op, k.kg>>
             new == [Weighed(k.row, e) EXCEPT !.supervisor = ticket.supervisor]
  <1>1. /\ k.op \in {"empty", "loaded"} /\ applied[e] = 0 /\ applied' = [applied EXCEPT ![e] = @ + 1]
        /\ ticket' = new /\ Wrote(r, {"ticket"}, Free)
        /\ UNCHANGED <<mission, payment, verified, adj, ledger, credited, supervised, outdated>>
    BY DEF IngestWrite, ReadingOf
  <1>2. k \in ReadingRequest /\ Carried(k) /\ ticket \in Ticket
    BY <1>1, KindOf DEF IInv, TypeOK, InFlightInv
  <1>3. e \in Readings
    BY <1>1, <1>2 DEF Carried, Readings
  <1>4. /\ new \in Ticket
        /\ new.manual = FALSE
        /\ new.status \in {"EMPTY_REGISTERED", "WEIGHED"}
        /\ new.net = new.loaded - new.empty \/ (new.net = 0 /\ new.loaded = 0)
    <2>1. k.row \in Ticket /\ k.kg \in Scale
      BY <1>2 DEF ReadingRequest
    <2>2. CASE k.op = "empty"
      <3>1. Weighed(k.row, e) = [k.row EXCEPT !.status = "EMPTY_REGISTERED", !.empty = k.kg, !.manual = FALSE]
        BY <2>2 DEF Weighed
      <3>2. k.row.loaded = 0 /\ k.row.net = 0
        BY <1>2, <2>2 DEF Carried
      <3> QED
        BY <1>2, <2>1, <3>1, <3>2 DEF Ticket, TicketStatus
    <2>3. CASE k.op = "loaded"
      <3>1. Weighed(k.row, e) = [k.row EXCEPT !.status = "WEIGHED", !.loaded = k.kg,
                                              !.net = k.kg - k.row.empty, !.manual = FALSE]
        BY <2>3 DEF Weighed
      <3>2. k.row.empty < k.kg
        BY <1>2, <2>3 DEF Carried
      <3>3. k.kg \in Nat /\ k.row.empty \in Nat /\ k.kg - k.row.empty \in Nat
        BY <2>1, <3>2, WeighingAssumption DEF Ticket, Scale
      <3> DEFINE net == k.kg - k.row.empty
                 w == [k.row EXCEPT !.status = "WEIGHED", !.loaded = k.kg, !.net = net, !.manual = FALSE]
      <3>4. net \in Nat /\ new = [w EXCEPT !.supervisor = ticket.supervisor]
        BY <3>1, <3>3
      <3> HIDE DEF net, new
      <3>5. /\ w \in Ticket /\ w.manual = FALSE /\ w.status = "WEIGHED" /\ w.net = net
            /\ w.loaded = k.kg /\ w.empty = k.row.empty
        BY <2>1, <3>4 DEF Ticket, TicketStatus
      <3> HIDE DEF w
      <3>6. /\ new \in Ticket /\ new.manual = FALSE /\ new.status = "WEIGHED" /\ new.net = net
            /\ new.loaded = k.kg /\ new.empty = k.row.empty
        BY <1>2, <3>4, <3>5 DEF Ticket
      <3> QED
        BY <3>6 DEF net
    <2> QED
      BY <1>1, <2>2, <2>3
  <1>5. InFlightInv' /\ request' \in [Requests -> Request]
    BY <1>1, WroteOthers, WroteInFlight DEF IInv
  <1>6. applied' \in [Readings -> Nat] /\ ReadingAppliedOnce'
    BY <1>1, <1>3 DEF IInv, TypeOK, ReadingAppliedOnce
  <1>7. CreditInv'
    BY <1>1, WeightsNotCredited
  <1> HIDE DEF new
  <1>8. TypeOK'
    BY <1>1, <1>4, <1>5, <1>6 DEF IInv, TypeOK
  <1>9. TicketInv' /\ AdjustingInv' /\ NetIsOneWeighing'
    BY <1>1, <1>4 DEF TicketInv, AdjustingInv, NetIsOneWeighing
  <1> QED
    BY <1>5, <1>6, <1>7, <1>8, <1>9 DEF IInv

\* An entry writes both weights.
LEMMA WeightsWriteInv ==
  ASSUME IInv, NEW r \in Requests, WeightsWrite(r)
  PROVE  IInv'
  <1> DEFINE k == request[r]
             new == Entered(r, k.op = "manual")
  <1>1. /\ k.op \in Entries /\ ticket' = new /\ Wrote(r, {"ticket"}, Free)
        /\ UNCHANGED <<mission, payment, verified, adj, ledger, ghosts>>
    BY DEF WeightsWrite
  <1>2. k \in EntryRequest /\ Carried(k)
    BY <1>1, KindOf DEF IInv, TypeOK, InFlightInv
  <1>3. k.kg \in Empties \X Loadeds /\ k.kg[1] < k.kg[2]
    BY <1>1, <1>2 DEF EntryRequest, Carried
  <1>4. k.kg[1] \in Empties /\ k.kg[2] \in Loadeds /\ k.kg[2] - k.kg[1] \in Nat
    BY <1>3, WeighingAssumption
  <1>5. /\ new \in Ticket
        /\ new.manual = new.supervisor
        /\ new.status = "WEIGHED"
        /\ new.net = new.loaded - new.empty
    BY <1>4 DEF Entered, Ticket, TicketStatus, Scale
  <1> HIDE DEF new
  <1>6. InFlightInv' /\ request' \in [Requests -> Request]
    BY <1>1, WroteOthers, WroteInFlight DEF IInv
  <1>7. CreditInv'
    BY <1>1, WeightsNotCredited DEF ghosts
  <1>8. TypeOK' /\ TicketInv' /\ AdjustingInv' /\ NetIsOneWeighing' /\ ReadingAppliedOnce'
    BY <1>1, <1>5, <1>6 DEF IInv, TypeOK, TicketInv, AdjustingInv, NetIsOneWeighing, ReadingAppliedOnce, ghosts
  <1> QED
    BY <1>6, <1>7, <1>8 DEF IInv

\* Approval: if neither the ticket nor the mission was written since they
\* were read, the ticket is still WEIGHED and the mission not yet credited.
LEMMA ApproveWriteInv ==
  ASSUME IInv, NEW r \in Requests, ApproveWrite(r)
  PROVE  IInv'
  <1> DEFINE k == request[r]
             new == [ticket EXCEPT !.status = "APPROVED", !.supervisor = FALSE]
  <1>1. /\ k.op = "approve" /\ ticket' = new /\ mission' = "VERIFIED" /\ payment' = "DISTRIBUTED"
        /\ verified' = k.row.net /\ ledger' = ledger + k.row.net /\ credited' = credited + 1
        /\ supervised' = k.lead /\ Wrote(r, {"ticket", "mission"}, Free)
        /\ UNCHANGED <<adj, applied, outdated>>
    BY DEF ApproveWrite
  <1>2. k \in ApproveRequest /\ ticket \in Ticket /\ Seen(k, mission, payment, ticket)
    BY <1>1, KindOf DEF IInv, TypeOK, InFlightInv
  <1>3. k.row.net \in Nat /\ k.lead \in BOOLEAN
    BY <1>2 DEF ApproveRequest, Ticket
  <1>4. /\ new \in Ticket /\ new.status = "APPROVED" /\ new.net = ticket.net
        /\ new.loaded = ticket.loaded /\ new.empty = ticket.empty /\ new.manual = ticket.manual
    BY <1>2 DEF Ticket, TicketStatus
  <1> HIDE DEF new
  <1>5. InFlightInv' /\ request' \in [Requests -> Request]
    BY <1>1, WroteOthers, WroteInFlight DEF IInv
  <1>6. TypeOK'
    BY <1>1, <1>3, <1>4, <1>5 DEF IInv, TypeOK, MissionStatus
  <1>7. TicketInv' /\ AdjustingInv' /\ NetIsOneWeighing' /\ ReadingAppliedOnce'
    BY <1>1, <1>4 DEF IInv, TicketInv, AdjustingInv, NetIsOneWeighing, ReadingAppliedOnce
  <1>8. CreditInv'
    <2> SUFFICES ASSUME ~overtaken'
                 PROVE  /\ credited' = 1
                        /\ ticket'.manual => supervised'
                        /\ ~outdated' => ledger' = ticket'.net /\ verified' = ticket'.net
      BY <1>1, <1>4 DEF CreditInv
    <2>1. ~overtaken /\ k.fresh
      BY <1>1, WroteOthers DEF IInv
    <2>2. /\ mission = "DELIVERED" /\ ticket = k.row /\ ticket.status = "WEIGHED"
          /\ ticket.supervisor => k.lead
      BY <1>1, <1>2, <2>1 DEF Seen
    <2>3. credited = 0 /\ ledger = 0
      BY <2>1, <2>2 DEF IInv, CreditInv
    <2>4. ticket.manual => k.lead
      BY <2>2 DEF IInv, TicketInv
    <2> HIDE DEF k
    <2> QED
      BY <1>1, <1>3, <1>4, <2>2, <2>3, <2>4
  <1> QED
    BY <1>5, <1>6, <1>7, <1>8 DEF IInv

LEMMA RejectWriteInv ==
  ASSUME IInv, NEW r \in Requests, RejectWrite(r)
  PROVE  IInv'
  <1> DEFINE new == [ticket EXCEPT !.status = "REJECTED"]
  <1>1. /\ request[r].op = "reject" /\ ticket' = new /\ Wrote(r, {"ticket"}, Free)
        /\ UNCHANGED <<mission, payment, verified, adj, ledger, ghosts>>
    BY DEF RejectWrite
  <1>2. ticket \in Ticket
    BY DEF IInv, TypeOK
  <1>3. /\ new \in Ticket /\ new.status = "REJECTED" /\ new.net = ticket.net
        /\ new.loaded = ticket.loaded /\ new.empty = ticket.empty
    BY <1>2 DEF Ticket, TicketStatus
  <1> HIDE DEF new
  <1>4. InFlightInv' /\ request' \in [Requests -> Request]
    BY <1>1, WroteOthers, WroteInFlight DEF IInv
  <1>5. TypeOK' /\ TicketInv' /\ AdjustingInv' /\ NetIsOneWeighing' /\ ReadingAppliedOnce'
    BY <1>1, <1>3, <1>4
    DEF IInv, TypeOK, TicketInv, AdjustingInv, NetIsOneWeighing, ReadingAppliedOnce, ghosts
  <1>6. CreditInv'
    <2>1. ~overtaken' => ~overtaken /\ request[r].fresh
      BY <1>1, WroteOthers DEF IInv
    <2>2. request[r].fresh => ticket.status \notin {"APPROVED", "ADJUSTED"}
      BY <1>1 DEF IInv, InFlightInv, Seen
    <2> QED
      BY <1>1, <2>1, <2>2 DEF IInv, CreditInv, ghosts
  <1> QED
    BY <1>4, <1>5, <1>6 DEF IInv

\* Proposals and refusals change adjustment requests only, and keep the net
\* weight that one of them has given the ticket.
LEMMA AdjustingRowInv ==
  ASSUME IInv, NEW r \in Requests, ProposeWrite(r) \/ DeclineWrite(r)
  PROVE  IInv'
  <1> DEFINE k == request[r]
  <1>1. /\ k.op \in {"propose", "decline"} /\ k \in Request
        /\ UNCHANGED <<mission, payment, verified, ticket, ledger, ghosts>>
    BY DEF ProposeWrite, DeclineWrite, IInv, TypeOK
  <1>2. PICK W : Wrote(r, W, Free)
    BY DEF ProposeWrite, DeclineWrite
  <1>3. InFlightInv' /\ request' \in [Requests -> Request]
    BY <1>1, <1>2, WroteOthers, WroteInFlight DEF IInv
  <1>4. /\ adj' \in [Adjs -> Adj]
        /\ \A a \in Adjs : adj[a].status # "NONE" => adj'[a].status # "NONE" /\ adj'[a].after = adj[a].after
    <2>1. CASE ProposeWrite(r)
      <3>1. PICK a \in Adjs :
              /\ adj[a] = NoAdj
              /\ adj' = [adj EXCEPT ![a] = [status |-> "PENDING", before |-> k.row.net, after |-> k.after]]
        BY <2>1 DEF ProposeWrite
      <3>2. k \in ProposeRequest
        BY <1>1, <2>1, KindOf DEF ProposeWrite
      <3>3. k.row.net \in Nat /\ k.after \in Nat
        BY <3>2, WeighingAssumption DEF ProposeRequest, Ticket
      <3>4. [status |-> "PENDING", before |-> k.row.net, after |-> k.after] \in Adj
        BY <3>3 DEF Adj
      <3> QED
        BY <3>1, <3>4 DEF IInv, TypeOK, NoAdj
    <2>2. CASE DeclineWrite(r)
      <3>1. k \in DecideRequest
        BY <1>1, <2>2, KindOf DEF DeclineWrite
      <3>2. k.adj \in Adjs /\ adj' = [adj EXCEPT ![k.adj].status = "REJECTED"]
        BY <2>2, <3>1 DEF DeclineWrite, DecideRequest
      <3>3. [adj[k.adj] EXCEPT !.status = "REJECTED"] \in Adj
            /\ [adj[k.adj] EXCEPT !.status = "REJECTED"].status # "NONE"
            /\ [adj[k.adj] EXCEPT !.status = "REJECTED"].after = adj[k.adj].after
        BY <3>2 DEF IInv, TypeOK, Adj
      <3> QED
        BY <3>2, <3>3 DEF IInv, TypeOK
    <2> QED
      BY <2>1, <2>2
  <1>5. ticket.status # "NONE"
    BY <1>1 DEF IInv, AdjustingInv
  <1>6. TypeOK' /\ TicketInv' /\ AdjustingInv' /\ ReadingAppliedOnce'
    BY <1>1, <1>3, <1>4, <1>5 DEF IInv, TypeOK, TicketInv, AdjustingInv, ReadingAppliedOnce, ghosts
  <1>7. NetIsOneWeighing'
    BY <1>1, <1>4 DEF IInv, NetIsOneWeighing
  <1>8. CreditInv'
    BY <1>1, <1>2, WroteOthers DEF IInv, CreditInv, ghosts
  <1> QED
    BY <1>3, <1>6, <1>7, <1>8 DEF IInv

\* An adjustment of a credited ticket, proposed for the net weight the ticket
\* still has, posts the difference.
LEMMA AcceptWriteInv ==
  ASSUME IInv, NEW r \in Requests, AcceptWrite(r)
  PROVE  IInv'
  <1> DEFINE k == request[r]
             a == adj[k.adj]
             new == [ticket EXCEPT !.net = a.after, !.status = "ADJUSTED"]
  <1>1. /\ k.op = "accept" /\ ticket' = new
        /\ adj' = [adj EXCEPT ![k.adj].status = "APPROVED"]
        /\ ledger' = IF k.paid THEN ledger + a.after - a.before ELSE ledger
        /\ verified' = IF a.after # a.before THEN a.after ELSE verified
        /\ outdated' = (outdated \/ a.before # k.row.net)
        /\ Wrote(r, {"adj", "ticket", "mission"}, Free)
        /\ UNCHANGED <<mission, payment, applied, credited, supervised>>
    BY DEF AcceptWrite
  <1>2. /\ k \in DecideRequest /\ ticket \in Ticket /\ Seen(k, mission, payment, ticket)
    BY <1>1, KindOf DEF IInv, TypeOK, InFlightInv
  <1>3. k.adj \in Adjs /\ k.paid \in BOOLEAN /\ a \in Adj
    BY <1>2 DEF DecideRequest, IInv, TypeOK
  <1>4. a.after \in Nat /\ a.before \in Nat
    BY <1>3 DEF Adj
  <1>5. /\ new \in Ticket /\ new.status = "ADJUSTED" /\ new.net = a.after
        /\ new.loaded = ticket.loaded /\ new.empty = ticket.empty /\ new.manual = ticket.manual
    BY <1>2, <1>4 DEF Ticket, TicketStatus
  <1>6. /\ adj' \in [Adjs -> Adj] /\ adj'[k.adj].status = "APPROVED" /\ adj'[k.adj].after = a.after
    BY <1>1, <1>3 DEF IInv, TypeOK, Adj
  <1> HIDE DEF new
  <1>7. InFlightInv' /\ request' \in [Requests -> Request]
    BY <1>1, WroteOthers, WroteInFlight DEF IInv
  <1>8. TypeOK'
    <2>1. ledger' \in Int /\ verified' \in Nat /\ outdated' \in BOOLEAN
      BY <1>1, <1>4 DEF IInv, TypeOK
    <2> QED
      BY <1>1, <1>5, <1>6, <1>7, <2>1 DEF IInv, TypeOK
  <1>9. TicketInv' /\ AdjustingInv' /\ NetIsOneWeighing' /\ ReadingAppliedOnce'
    BY <1>1, <1>3, <1>5, <1>6 DEF IInv, TicketInv, AdjustingInv, NetIsOneWeighing, ReadingAppliedOnce
  <1>10. CreditInv'
    <2> SUFFICES ASSUME ~overtaken'
                 PROVE  CreditInv'
      BY DEF CreditInv
    <2>1. ~overtaken /\ k.fresh
      BY <1>1, WroteOthers DEF IInv
    <2>2. k.row = ticket /\ k.paid = (payment = "DISTRIBUTED")
      BY <1>1, <1>2, <2>1 DEF Seen
    <2>3. CASE credited = 0
      <3>1. payment = "PENDING" /\ mission # "VERIFIED" /\ ledger = 0
        BY <2>1, <2>3 DEF IInv, CreditInv
      <3> QED
        BY <1>1, <2>2, <2>3, <3>1 DEF CreditInv
    <2>4. CASE credited # 0
      <3>1. /\ credited = 1 /\ payment = "DISTRIBUTED" /\ mission = "VERIFIED"
            /\ ticket.manual => supervised
            /\ ~outdated => ledger = ticket.net /\ verified = ticket.net
        BY <2>1, <2>4 DEF IInv, CreditInv
      <3>2. ledger' = ledger + a.after - a.before
        BY <1>1, <2>2, <3>1
      <3>3. ASSUME ~outdated'
            PROVE  ledger' = a.after /\ verified' = a.after
        <4>1. ~outdated /\ a.before = ticket.net
          BY <1>1, <2>2, <3>3
        <4>2. ledger = a.before /\ verified = a.before
          BY <3>1, <4>1
        <4> HIDE DEF a
        <4> QED
          BY <1>1, <1>4, <3>2, <4>2
      <3> QED
        BY <1>1, <1>5, <3>1, <3>3 DEF CreditInv
    <2> QED
      BY <2>3, <2>4
  <1> QED
    BY <1>7, <1>8, <1>9, <1>10 DEF IInv

-----------------------------------------------------------------------------
LEMMA IInvInit == Init => IInv
  <1> SUFFICES ASSUME Init
               PROVE  IInv
    OBVIOUS
  <1>1. /\ mission = "ACCEPTED" /\ payment = "PENDING" /\ verified = 0 /\ ticket = NoTicket
        /\ adj = [a \in Adjs |-> NoAdj] /\ ledger = 0 /\ applied = [e \in Readings |-> 0]
        /\ credited = 0 /\ supervised = FALSE /\ outdated = FALSE
        /\ request = [r \in Requests |-> Free] /\ overtaken = FALSE
    BY DEF Init, HandlersInit
  <1>2. NoTicket \in Ticket /\ NoAdj \in Adj /\ Free \in Request /\ "ACCEPTED" \in MissionStatus
    BY RequestCases DEF NoTicket, Ticket, TicketStatus, Scale, NoAdj, Adj, MissionStatus, Chain
  <1>3. TypeOK
    <2>1. adj \in [Adjs -> Adj] /\ request \in [Requests -> Request]
      BY <1>1, <1>2
    <2>2. applied \in [Readings -> Nat]
      BY <1>1
    <2>3. /\ mission \in MissionStatus /\ payment \in {"PENDING", "DISTRIBUTED"} /\ verified \in Nat
          /\ ticket \in Ticket /\ ledger \in Int /\ credited \in Nat
      BY <1>1, <1>2
    <2>4. supervised \in BOOLEAN /\ outdated \in BOOLEAN
      BY <1>1
    <2> QED
      BY <2>1, <2>2, <2>3, <2>4 DEF TypeOK
  <1>4. InFlightInv
    BY <1>1 DEF InFlightInv, Carried, Seen, Free, Entries, Steps, ArrivedOrLater, MissionStatus, Chain
  <1>5. ReadingAppliedOnce /\ NetIsOneWeighing /\ TicketInv /\ AdjustingInv /\ CreditInv
    BY <1>1 DEF ReadingAppliedOnce, NetIsOneWeighing, TicketInv, AdjustingInv, CreditInv, NoTicket, NoAdj, Free
  <1> QED
    BY <1>3, <1>4, <1>5 DEF IInv

LEMMA IInvStep == IInv /\ [Next]_vars => IInv'
  <1> SUFFICES ASSUME IInv, [Next]_vars
               PROVE  IInv'
    OBVIOUS
  <1>1. CASE UNCHANGED vars
    BY <1>1 DEF vars, rows, ghosts, handlerVars, IInv, TypeOK, ReadingAppliedOnce, NetIsOneWeighing,
       InFlightInv, TicketInv, AdjustingInv, CreditInv
  <1>2. ASSUME NEW r \in Requests, Abandon(r)
        PROVE  IInv'
    <2>1. /\ request' = [request EXCEPT ![r] = Free] /\ overtaken' = overtaken
          /\ UNCHANGED <<rows, ghosts>>
      BY <1>2 DEF Abandon, Ends
    <2>2. Free \in Request /\ Carried(Free) /\ Seen(Free, mission, payment, ticket) /\ Free.op = "free"
      BY RequestCases DEF Carried, Seen, Free, Entries, Steps, ArrivedOrLater, MissionStatus, Chain
    <2>3. TypeOK' /\ InFlightInv' /\ AdjustingInv'
      BY <2>1, <2>2 DEF IInv, TypeOK, InFlightInv, AdjustingInv, rows, ghosts
    <2> QED
      BY <2>1, <2>3 DEF IInv, ReadingAppliedOnce, NetIsOneWeighing, TicketInv, CreditInv, rows, ghosts
  <1>3. CASE Next
    BY <1>2, <1>3, BridgeReadInv, OfficeReadInv, OpenTicketInv, StepWriteInv, IngestWriteInv,
       WeightsWriteInv, ApproveWriteInv, RejectWriteInv, AdjustingRowInv, AcceptWriteInv
    DEF Next, Driver, Bridge, Office
  <1> QED
    BY <1>1, <1>3

-----------------------------------------------------------------------------
\* The invariant from which the others follow.
THEOREM WeighingInvariant == Spec => []IInv
  BY IInvInit, IInvStep, PTL DEF Spec

\* The agent may send a reading any number of times, in any number of
\* requests at once (ingest): it is applied at most once.
THEOREM ReadingsOnce == Spec => []ReadingAppliedOnce
  <1>1. IInv => ReadingAppliedOnce
    BY DEF IInv
  <1> QED
    BY WeighingInvariant, <1>1, PTL

\* Whatever stale row ingest or submitTicketWeights writes, the net weight is
\* that of the two weights written with it.
THEOREM NetOfOneWeighing == Spec => []NetIsOneWeighing
  <1>1. IInv => NetIsOneWeighing
    BY DEF IInv
  <1> QED
    BY WeighingInvariant, <1>1, PTL

\* Only an overtaken handler can credit a mission twice, or leave a credited
\* mission in another status than VERIFIED.
THEOREM CreditedAtMostOnce == Spec => []CreditedOnce
  <1>1. IInv => CreditedOnce
    BY DEF IInv, CreditInv, CreditedOnce
  <1> QED
    BY WeighingInvariant, <1>1, PTL

\* approveAdjustment keeps the wallets at the fare of the net weight shown,
\* for any sequence of adjustments each proposed for the one before.
THEOREM WalletsFollowNet == Spec => []LedgerFollowsNet
  <1>1. IInv => LedgerFollowsNet
    BY DEF IInv, CreditInv, LedgerFollowsNet
  <1> QED
    BY WeighingInvariant, <1>1, PTL

\* Only an overtaken approval credits a manual entry without an
\* OPERATION_ADMIN.
THEOREM ManualNeedsSupervisor == Spec => []ManualIsSupervised
  <1>1. IInv => ManualIsSupervised
    <2> SUFFICES ASSUME IInv, ~overtaken, credited > 0, ticket.manual
                 PROVE  supervised
      BY DEF ManualIsSupervised
    <2> QED
      BY DEF IInv, CreditInv
  <1> QED
    BY WeighingInvariant, <1>1, PTL

=============================================================================
