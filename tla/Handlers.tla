------------------------------ MODULE Handlers ------------------------------
(***************************************************************************)
(* HTTP handlers in flight.  A handler of the backend reads the rows it    *)
(* checks and, some awaits later, writes in one statement or transaction   *)
(* without checking again; in between, others do the same.  A request is   *)
(* what is left of a handler at its await: what it is about to do (`op'),  *)
(* the rows it has read (`reads'), and whether none of them was written    *)
(* since (`fresh').  Components add the values they read.                  *)
(***************************************************************************)
CONSTANT Requests    \* bound: handlers between their read and their write

VARIABLES
  request,   \* [Requests -> request]
  overtaken, \* ghost: a handler wrote after a row it had read was written
  cut        \* ghost: a handler ended between two of its writes

handlerVars == <<request, overtaken, cut>>

Free == [op |-> "free", reads |-> {}, fresh |-> TRUE]

HandlersInit ==
  /\ request = [r \in Requests |-> Free]
  /\ overtaken = FALSE
  /\ cut = FALSE

\* A handler that writes nothing goes on as k.
Goes(r, k) ==
  /\ request' = [request EXCEPT ![r] = k]
  /\ UNCHANGED <<overtaken, cut>>

Begins(r, k) == request[r].op = "free" /\ Goes(r, k)

\* It ends without its next write, halfway or not: a check refuses, the
\* database is away, the backend restarts.
Ends(r, halfway) ==
  /\ request[r].op # "free"
  /\ request' = [request EXCEPT ![r] = Free]
  /\ cut' = (cut \/ halfway)
  /\ UNCHANGED overtaken

\* It has written the rows W, and goes on as k.
Wrote(r, W, k) ==
  /\ request' = [q \in Requests |->
                   IF q = r THEN k
                   ELSE [request[q] EXCEPT !.fresh = @ /\ request[q].reads \intersect W = {}]]
  /\ overtaken' = (overtaken \/ ~request[r].fresh)
  /\ UNCHANGED cut

\* No handler wrote, or is about to write, over a row that changed since it
\* read it, and none ended halfway.
Undisturbed == ~overtaken /\ ~cut /\ \A r \in Requests : request[r].fresh

=============================================================================
