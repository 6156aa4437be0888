-------------------------- MODULE IdempotentPost ---------------------------
(***************************************************************************)
(* What the middleware of Idempotency promises a route whose handler has   *)
(* one side effect (a transfer, a ticket, a mission step): any number of   *)
(* clients post a key again and again, concurrently, with the same or with *)
(* another body.                                                           *)
(***************************************************************************)
EXTENDS Idempotency

CONSTANTS
  MaxUnclean  \* bound: handlers that fail after their side effect

VARIABLES
  effects,    \* [Keys -> Nat]: side effects made under the key
  served,     \* keys and bodies a side effect was made for
  takeovers,  \* [Keys -> Nat]: deletions of a row that was read as stale
  unclean     \* [Keys -> Nat]: handlers that failed after their side effect

ghosts == <<effects, served, takeovers, unclean>>
vars == <<idemVars, ghosts>>

ASSUME PostAssumption == MaxUnclean \in Nat

Init ==
  /\ IdemInit
  /\ effects = [k \in Keys |-> 0]
  /\ served = {}
  /\ takeovers = [k \in Keys |-> 0]
  /\ unclean = [k \in Keys |-> 0]

-----------------------------------------------------------------------------

Post(i, k, b) == Arrives(i, k, b) /\ UNCHANGED ghosts

Effect(i) ==
  /\ effects' = [effects EXCEPT ![call[i].key] = @ + 1]
  /\ served' = served \union {<<call[i].key, call[i].body>>}

\* The handler commits its side effect and answers 2xx.
Succeed(i) ==
  /\ call[i].at = "handler"
  /\ Effect(i)
  /\ Moves(i, "answer", "ok")
  /\ UNCHANGED <<row, aged, takeovers, unclean>>

\* The handler refuses, or fails, before its side effect.
Refuse(i) ==
  /\ call[i].at = "handler"
  /\ \E c \in {"refused", "failed"} : Moves(i, "answer", c)
  /\ UNCHANGED <<row, aged, ghosts>>

\* The side effect is committed, and a later call of the handler throws.
FailAfterEffect(i) ==
  /\ call[i].at = "handler"
  /\ unclean[call[i].key] < MaxUnclean
  /\ Effect(i)
  /\ unclean' = [unclean EXCEPT ![call[i].key] = @ + 1]
  /\ Moves(i, "answer", "failed")
  /\ UNCHANGED <<row, aged, takeovers>>

TakeOver(i) ==
  /\ Replace(i) \/ DropStale(i)
  /\ takeovers' = [takeovers EXCEPT ![call[i].key] = @ + 1]
  /\ UNCHANGED <<effects, served, unclean>>

Next ==
  \/ \E i \in CallIds, k \in Keys, b \in Bodies : Post(i, k, b)
  \/ \E i \in CallIds :
       \/ MiddlewareStep(i) /\ UNCHANGED ghosts
       \/ Answer(i) /\ UNCHANGED ghosts
       \/ Abandon(i) /\ UNCHANGED ghosts
       \/ Succeed(i)
       \/ Refuse(i)
       \/ FailAfterEffect(i)
       \/ TakeOver(i)
  \/ \E k \in Keys : Age(k) /\ UNCHANGED ghosts
  \/ Restart /\ UNCHANGED ghosts

Spec == Init /\ [][Next]_vars

-----------------------------------------------------------------------------

TypeOK ==
  /\ IdemTypeOK
  /\ effects \in [Keys -> Nat]
  /\ served \in SUBSET (Keys \X Bodies)
  /\ takeovers \in [Keys -> Nat]
  /\ unclean \in [Keys -> Nat]

\* However often a key is posted, each further side effect is paid for by a
\* takeover of a stale row or by a handler that failed after its effect: no
\* interleaving of duplicates, refusals, restarts and lost answers makes
\* another (idempotency.ts 99-178).
EffectsBounded ==
  \A k \in Keys : effects[k] <= 1 + takeovers[k] + unclean[k]

\* Until a row of the key is taken over, a replayed answer is that of a
\* request with the key whose side effect was made and whose body had the
\* same hash - which is less than the same body.  It is the answer of the
\* only one, unless a handler failed after its effect (idempotency.ts 15-69).
ReplayIsStoredAnswer ==
  \A i \in CallIds :
    LET k == call[i].key
        made == {entry \in served : entry[1] = k}
    IN
    call[i].code = "replay" /\ takeovers[k] = 0 =>
      \E entry \in made :
        /\ Hash(entry[2]) = Hash(call[i].body)
        /\ unclean[k] = 0 => effects[k] = 1 /\ made = {entry}

\* Until a row of the key is taken over, one call at a time executes the
\* handler under it, and its row says so (idempotency.ts 111-132).
SingleFlight ==
  \A i, j \in CallIds :
    /\ Executing(i)
    /\ takeovers[call[i].key] = 0
    => /\ row[call[i].key].state \in {"running", "stale"}
       /\ Executing(j) /\ call[j].key = call[i].key => i = j

\* Until a row of the key is taken over, a stored answer is never changed
\* or lost (within the 24 hours modelled; idempotency.ts 137-151).
StoredAnswerStays ==
  [][\A k \in Keys :
       row[k].state = "done" /\ takeovers'[k] = 0 => row'[k] = row[k]]_vars

=============================================================================
