------------------------------- MODULE Hourly -------------------------------
(***************************************************************************)
(* The hourly work logs of a mission: started and ended by the operator,   *)
(* verified by a consultant, who credits the shares of the owner and of    *)
(* the platform, or rejected.  Every handler looks at the log before it    *)
(* writes; the verification alone runs in a transaction, and its look is   *)
(* outside it.                                                             *)
(***************************************************************************)
EXTENDS Naturals, FiniteSets, Handlers

CONSTANTS
  Logs,      \* rows of hourly_work_logs of the mission
  MaxHours,  \* bound: of a log
  MaxRate    \* bound: of the hourly rate card

ASSUME HourlyAssumption == MaxHours \in Nat \ {0} /\ MaxRate \in Nat \ {0}

VARIABLES
  hourlyLog,  \* [Logs -> row]
  hourlyRate, \* the rate of the active HOURLY card
  hourlyPaid  \* ghost, [Logs -> Nat]: what CREDIT transactions of the log add up to

hourlyRows == <<hourlyLog, hourlyRate, hourlyPaid>>
hourlyVars == <<hourlyRows, handlerVars>>

Hours == 1..MaxHours
Rates == 1..MaxRate

NoLog == [status |-> "NONE", raw |-> 0, billable |-> 0, rate |-> 0]
HourlyLog == [status : {"NONE", "STARTED", "ENDED", "APPROVED", "REJECTED"},
              raw : Hours \union {0}, billable : Hours \union {0}, rate : Rates \union {0}]

\* A handler that has seen that no log is active, or `log' and perhaps the
\* rate.
HourlyRequest ==
  {Free}
    \union [op : {"start"}, reads : {Logs}, fresh : BOOLEAN]
    \union [op : {"end", "rejectLog"}, reads : SUBSET Logs, fresh : BOOLEAN, log : Logs]
    \union [op : {"verify"}, reads : SUBSET (Logs \union {"rate"}), fresh : BOOLEAN, log : Logs,
            hours : Hours, rate : Rates]

HourlyInit ==
  /\ hourlyLog = [l \in Logs |-> NoLog]
  /\ hourlyRate = 1
  /\ hourlyPaid = [l \in Logs |-> 0]
  /\ HandlersInit

ReadsHourly(r, k) == Begins(r, k) /\ UNCHANGED hourlyRows

\* The log l becomes `row'.
WritesLog(r, l, row) ==
  /\ hourlyLog' = [hourlyLog EXCEPT ![l] = row]
  /\ Wrote(r, {l}, Free)

-----------------------------------------------------------------------------
\* findActiveLogForMission
StartRead(r) ==
  /\ \A l \in Logs : hourlyLog[l].status # "STARTED"
  /\ ReadsHourly(r, [op |-> "start", reads |-> Logs, fresh |-> TRUE])

\* createStartedLog
StartWrite(r) ==
  /\ request[r].op = "start"
  /\ \E l \in Logs :
       /\ hourlyLog[l] = NoLog
       /\ WritesLog(r, l, [NoLog EXCEPT !.status = "STARTED"])
  /\ UNCHANGED <<hourlyRate, hourlyPaid>>

\* endLog
EndRead(r) ==
  \E l \in Logs :
    /\ hourlyLog[l].status = "STARTED"
    /\ ReadsHourly(r, [op |-> "end", reads |-> {l}, fresh |-> TRUE, log |-> l])

EndWrite(r) ==
  /\ request[r].op = "end"
  /\ LET l == request[r].log IN
     \E h \in Hours : WritesLog(r, l, [hourlyLog[l] EXCEPT !.status = "ENDED", !.raw = h])
  /\ UNCHANGED <<hourlyRate, hourlyPaid>>

\* (mutation: a log may be verified again)
VerifyLogReadAny(r) ==
  \E l \in Logs, h \in Hours :
    /\ hourlyLog[l].status \in {"ENDED", "APPROVED"}
    /\ h <= hourlyLog[l].raw
    /\ ReadsHourly(r, [op |-> "verify", reads |-> {l, "rate"}, fresh |-> TRUE, log |-> l,
                       hours |-> h, rate |-> hourlyRate])

VerifyLogRead(r) ==
  \E l \in Logs, h \in Hours :
    /\ hourlyLog[l].status = "ENDED"
    /\ h <= hourlyLog[l].raw
    /\ ReadsHourly(r, [op |-> "verify", reads |-> {l, "rate"}, fresh |-> TRUE, log |-> l,
                       hours |-> h, rate |-> hourlyRate])

\* verifyLog keeps the rate that was looked up first; creditHourlyShares
\* looks it up again.
VerifyLogWrite(r) ==
  /\ request[r].op = "verify"
  /\ LET k == request[r] IN
     /\ WritesLog(r, k.log, [hourlyLog[k.log] EXCEPT !.status = "APPROVED", !.billable = k.hours,
                                                     !.rate = k.rate])
     /\ hourlyPaid' = [hourlyPaid EXCEPT ![k.log] = @ + k.hours * hourlyRate]
  /\ UNCHANGED hourlyRate

RejectLogRead(r) ==
  \E l \in Logs :
    /\ hourlyLog[l].status = "ENDED"
    /\ ReadsHourly(r, [op |-> "rejectLog", reads |-> {l}, fresh |-> TRUE, log |-> l])

RejectLogWrite(r) ==
  /\ request[r].op = "rejectLog"
  /\ LET l == request[r].log IN WritesLog(r, l, [hourlyLog[l] EXCEPT !.status = "REJECTED"])
  /\ UNCHANGED <<hourlyRate, hourlyPaid>>

\* An HOURLY card is activated (activateRateCard).
NewHourlyRate(r) ==
  /\ request[r].op = "free"
  /\ hourlyRate' \in Rates \ {hourlyRate}
  /\ Wrote(r, {"rate"}, Free)
  /\ UNCHANGED <<hourlyLog, hourlyPaid>>

-----------------------------------------------------------------------------
HourlyNext == \E r \in Requests :
  \/ StartRead(r) \/ StartWrite(r)
  \/ EndRead(r) \/ EndWrite(r)
  \/ VerifyLogRead(r) \/ VerifyLogWrite(r)
  \/ RejectLogRead(r) \/ RejectLogWrite(r)
  \/ NewHourlyRate(r)
  \/ Ends(r, FALSE) /\ UNCHANGED hourlyRows

HourlySpec == HourlyInit /\ [][HourlyNext]_hourlyVars

-----------------------------------------------------------------------------
(* Properties.                                                             *)

HourlyTypeOK ==
  /\ hourlyLog \in [Logs -> HourlyLog]
  /\ hourlyRate \in Rates
  /\ hourlyPaid \in [Logs -> Nat]
  /\ request \in [Requests -> HourlyRequest]

\* The operator, two consultants and a new rate card in any order: unless a
\* handler writes over what changed since it looked, a log is paid once, if
\* it is approved, for hours that were worked at the rate it shows, and one
\* log at a time runs for the mission.
HoursPaidOnce ==
  Undisturbed =>
    /\ \A l \in Logs :
         LET log == hourlyLog[l] IN
         /\ hourlyPaid[l] = IF log.status = "APPROVED" THEN log.billable * log.rate ELSE 0
         /\ log.billable <= log.raw
    /\ Cardinality({l \in Logs : hourlyLog[l].status = "STARTED"}) <= 1

=============================================================================
