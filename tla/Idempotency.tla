---------------------------- MODULE Idempotency ----------------------------
(***************************************************************************)
(* The Idempotency-Key middleware that stands before the sensitive POST    *)
(* routes, and its table idempotency_keys.  A request with a key finds the *)
(* key's row, replays the stored answer or inserts a row of its own, runs  *)
(* the handler, answers, and only after the answer was sent stores it or   *)
(* removes the row.  Every await of the middleware is a control point of   *)
(* the call; nothing is locked between two of them.                        *)
(*                                                                         *)
(* The module has no next-state relation: what the handler does, and who   *)
(* posts, is said by the modules that extend it.  One route is modelled,   *)
(* over less than the 24 hours a row lives.                                *)
(***************************************************************************)
EXTENDS Naturals, FiniteSets

CONSTANTS
  Keys,     \* values of the Idempotency-Key header
  Seen,     \* what the hash sees of a body: its top-level fields
  Dropped,  \* what it does not: the fields of objects nested in the body
  CallIds,  \* bound: requests the server works on at a time
  MaxAged,  \* bound: rows that stay unanswered for IN_PROGRESS_STALE_MS
  None      \* no key, no body

ASSUME IdempotencyAssumption ==
  /\ None \notin Keys /\ None \notin Seen
  /\ IsFiniteSet(CallIds)
  /\ MaxAged \in Nat

VARIABLES
  row,   \* [Keys -> Row]: idempotency_keys
  call,  \* [CallIds -> Call]: requests in the middleware or its handler
  aged   \* rows that became stale so far

idemVars == <<row, call, aged>>

Bodies == [seen : Seen, dropped : Dropped]

\* hashRequest: JSON.stringify is given the names of the top-level fields,
\* and leaves a nested field of another name out of what is hashed.
Hash(body) == body.seen

\* "stale": unanswered for five minutes.  "done": a 2xx answer is stored.
RowStates == {"none", "running", "stale", "done"}
Row == [state : RowStates, hash : Seen \union {None}]
NoRow == [state |-> "none", hash |-> None]

\* "handler" and "write" are control points of the route's handler.
Points == {"idle", "find", "replace", "acquire", "refind", "drop",
           "handler", "write", "answer", "persist"}
\* What the handler answers: a 2xx, a refusal (4xx), a failure (5xx).
HandlerCodes == {"ok", "refused", "failed"}
\* What the middleware answers itself: the stored answer, a 409, a 422.
OwnCodes == {"replay", "in_progress", "mismatch"}
Codes == {"none"} \union HandlerCodes \union OwnCodes
NoCall == [at |-> "idle", key |-> None, body |-> None, code |-> "none"]
Call == [at : Points \ {"idle"}, key : Keys, body : Bodies, code : Codes]

Executing(i) == call[i].at \in {"handler", "write"}
\* The call inserted a row, and will store its answer in it or remove it.
Owner(i) == \/ Executing(i)
            \/ call[i].at \in {"answer", "persist"} /\ call[i].code \in HandlerCodes

IdemInit ==
  /\ row = [k \in Keys |-> NoRow]
  /\ call = [i \in CallIds |-> NoCall]
  /\ aged = 0

-----------------------------------------------------------------------------
(* The middleware.                                                         *)

Moves(i, p, c) ==
  call' = [call EXCEPT ![i] =
             [at |-> p, key |-> call[i].key, body |-> call[i].body, code |-> c]]

Leaves(i) == call' = [call EXCEPT ![i] = NoCall]

\* A request arrives; the header and the body are read before any await.
Arrives(i, k, b) ==
  /\ call[i].at = "idle"
  /\ call' = [call EXCEPT ![i] =
                [at |-> "find", key |-> k, body |-> b, code |-> "none"]]
  /\ UNCHANGED <<row, aged>>

\* (mutation: the hash of the request is not compared)
VerdictAnyHash(i, r) ==
  CASE r.state = "running" -> "in_progress"
    [] r.state = "done" -> "replay"
    [] r.state = "stale" -> "none"

\* respondFromExisting on row r: the answer, or none if the row is removed.
Verdict(i, r) ==
  CASE r.hash # Hash(call[i].body) -> "mismatch"
    [] r.hash = Hash(call[i].body) /\ r.state = "running" -> "in_progress"
    [] r.hash = Hash(call[i].body) /\ r.state = "done" -> "replay"
    [] r.hash = Hash(call[i].body) /\ r.state = "stale" -> "none"

Find(i) ==
  /\ call[i].at = "find"
  /\ LET r == row[call[i].key] IN
     IF r.state = "none" THEN Moves(i, "acquire", "none")
     ELSE IF Verdict(i, r) = "none" THEN Moves(i, "replace", "none")
     ELSE Moves(i, "answer", Verdict(i, r))
  /\ UNCHANGED <<row, aged>>

\* The row read as stale is deleted by its key, whatever it is by now.
Replace(i) ==
  /\ call[i].at = "replace"
  /\ row' = [row EXCEPT ![call[i].key] = NoRow]
  /\ Moves(i, "acquire", "none")
  /\ UNCHANGED aged

\* (mutation: an upsert in place of the insert)
AcquireUpsert(i) ==
  /\ call[i].at = "acquire"
  /\ row' = [row EXCEPT ![call[i].key] =
               [state |-> "running", hash |-> Hash(call[i].body)]]
  /\ Moves(i, "handler", "none")
  /\ UNCHANGED aged

\* The insert decides: a unique violation sends the call back to the row.
Acquire(i) ==
  /\ call[i].at = "acquire"
  /\ IF row[call[i].key].state = "none"
     THEN /\ row' = [row EXCEPT ![call[i].key] =
                       [state |-> "running", hash |-> Hash(call[i].body)]]
          /\ Moves(i, "handler", "none")
     ELSE /\ Moves(i, "refind", "none")
          /\ UNCHANGED row
  /\ UNCHANGED aged

\* Unlike the first look, a stale row is removed and still answered 409.
Refind(i) ==
  /\ call[i].at = "refind"
  /\ LET r == row[call[i].key] IN
     IF r.state = "none" THEN Moves(i, "answer", "in_progress")
     ELSE IF Verdict(i, r) = "none" THEN Moves(i, "drop", "none")
     ELSE Moves(i, "answer", Verdict(i, r))
  /\ UNCHANGED <<row, aged>>

DropStale(i) ==
  /\ call[i].at = "drop"
  /\ row' = [row EXCEPT ![call[i].key] = NoRow]
  /\ Moves(i, "answer", "in_progress")
  /\ UNCHANGED aged

\* The response is written out; `finish' then starts persist of an owner.
Answer(i) ==
  /\ call[i].at = "answer"
  /\ IF Owner(i) THEN Moves(i, "persist", call[i].code)
                 ELSE Leaves(i)
  /\ UNCHANGED <<row, aged>>

\* The client closed the connection before the answer: no `finish'.
Abandon(i) ==
  /\ call[i].at = "answer"
  /\ Leaves(i)
  /\ UNCHANGED <<row, aged>>

\* (mutation: the row is removed whatever was answered)
PersistDeletes(i) ==
  /\ call[i].at = "persist"
  /\ row' = [row EXCEPT ![call[i].key] = NoRow]
  /\ Leaves(i)
  /\ UNCHANGED aged

\* (mutation: a refusal is stored like a success)
PersistAnyAnswer(i) ==
  /\ call[i].at = "persist"
  /\ LET k == call[i].key IN
     row' = IF row[k].state = "none" THEN row
            ELSE [row EXCEPT ![k] = [state |-> "done", hash |-> row[k].hash]]
  /\ Leaves(i)
  /\ UNCHANGED aged

\* A 2xx updates the row of the key, if there is one; else the row goes.
Persist(i) ==
  /\ call[i].at = "persist"
  /\ LET k == call[i].key IN
     row' = IF call[i].code # "ok" THEN [row EXCEPT ![k] = NoRow]
            ELSE IF row[k].state = "none" THEN row
            ELSE [row EXCEPT ![k] = [state |-> "done", hash |-> row[k].hash]]
  /\ Leaves(i)
  /\ UNCHANGED aged

\* The failure of persist is logged and swallowed.
PersistFails(i) ==
  /\ call[i].at = "persist"
  /\ Leaves(i)
  /\ UNCHANGED <<row, aged>>

\* Five minutes pass and the row is still unanswered.
Age(k) ==
  /\ aged < MaxAged
  /\ row[k].state = "running"
  /\ row' = [row EXCEPT ![k] = [state |-> "stale", hash |-> row[k].hash]]
  /\ aged' = aged + 1
  /\ UNCHANGED call

\* The backend restarts: every call is gone, every row stays.
Restart ==
  /\ \E i \in CallIds : call[i].at # "idle"
  /\ call' = [i \in CallIds |-> NoCall]
  /\ UNCHANGED <<row, aged>>

\* The awaits of the middleware that take nothing from another call.
MiddlewareStep(i) ==
  \/ Find(i)
  \/ Acquire(i)
  \/ Refind(i)
  \/ Persist(i)
  \/ PersistFails(i)

IdemTypeOK ==
  /\ row \in [Keys -> Row]
  /\ call \in [CallIds -> Call \union {NoCall}]
  /\ aged \in 0..MaxAged

=============================================================================
