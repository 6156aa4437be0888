-------------------------------- MODULE Agent --------------------------------
(***************************************************************************)
(* The agent beside the scale (WB-LOCAL-AGENT-1).  A reading is posted to  *)
(* the backend when it is captured; one that does not get through is put   *)
(* into a file, which a timer flushes whether or not the last flush is     *)
(* over.  A handler here is a post or a flush of the one process.          *)
(***************************************************************************)
EXTENDS Sequences, SequencesExt, Handlers

CONSTANT Events  \* captured readings, each with an idempotency_key of its own

VARIABLES
  file,      \* Seq(Events): the queue at queuePath
  \* Ghosts.
  captured,  \* events the scale has produced
  received   \* events the backend has stored

agentRows == <<file, captured, received>>
agentVars == <<agentRows, handlerVars>>

AgentRequest ==
  {Free}
    \union [op : {"send"}, reads : {{}}, fresh : BOOLEAN, event : Events]
    \union [op : {"flush"}, reads : {{"file"}}, fresh : BOOLEAN, queue : Seq(Events), kept : Seq(Events)]

AgentInit ==
  /\ file = <<>>
  /\ captured = {}
  /\ received = {}
  /\ HandlersInit

\* postIngest: the backend stores the event and answers, stores it and its
\* answer is lost, or neither.
Posts(e, answered) ==
  \/ received' = received \union {e}
  \/ ~answered /\ UNCHANGED received

-----------------------------------------------------------------------------
\* enqueueOrSend, up to its post ...
Capture(r) ==
  \E e \in Events \ captured :
    /\ captured' = captured \union {e}
    /\ Begins(r, [op |-> "send", reads |-> {}, fresh |-> TRUE, event |-> e])
    /\ UNCHANGED <<file, received>>

Sent(r) ==
  /\ request[r].op = "send"
  /\ Posts(request[r].event, TRUE)
  /\ Goes(r, Free)
  /\ UNCHANGED <<file, captured>>

\* ... and the catch: loadQueue, push and saveQueue, without an await.
SendFails(r) ==
  /\ request[r].op = "send"
  /\ Posts(request[r].event, FALSE)
  /\ file' = Append(file, request[r].event)
  /\ Wrote(r, {"file"}, Free)
  /\ UNCHANGED captured

-----------------------------------------------------------------------------
\* flushQueue: what it loads, it posts item by item, keeping what fails, and
\* saves what it kept over whatever the file holds by then.
FlushRead(r) ==
  /\ file # <<>>
  /\ Begins(r, [op |-> "flush", reads |-> {"file"}, fresh |-> TRUE, queue |-> file, kept |-> <<>>])
  /\ UNCHANGED agentRows

\* (mutation: what fails is not kept)
FlushPostDrops(r) ==
  /\ request[r].op = "flush"
  /\ request[r].queue # <<>>
  /\ \E answered \in BOOLEAN :
       /\ Posts(Head(request[r].queue), answered)
       /\ Goes(r, [request[r] EXCEPT !.queue = Tail(@)])
  /\ UNCHANGED <<file, captured>>

FlushPost(r) ==
  /\ request[r].op = "flush"
  /\ request[r].queue # <<>>
  /\ LET e == Head(request[r].queue) IN
     \E answered \in BOOLEAN :
       /\ Posts(e, answered)
       /\ Goes(r, [request[r] EXCEPT !.queue = Tail(@), !.kept = IF answered THEN @ ELSE Append(@, e)])
  /\ UNCHANGED <<file, captured>>

FlushSave(r) ==
  /\ request[r].op = "flush"
  /\ request[r].queue = <<>>
  /\ file' = request[r].kept
  /\ Wrote(r, {"file"}, Free)
  /\ UNCHANGED <<captured, received>>

\* The process ends and starts again; a first post under way is halfway.
AgentRestart ==
  /\ \E r \in Requests : request[r].op # "free"
  /\ request' = [r \in Requests |-> Free]
  /\ cut' = (cut \/ \E r \in Requests : request[r].op = "send")
  /\ UNCHANGED <<agentRows, overtaken>>

-----------------------------------------------------------------------------
AgentNext ==
  \/ \E r \in Requests :
       \/ Capture(r) \/ Sent(r) \/ SendFails(r)
       \/ FlushRead(r) \/ FlushPost(r) \/ FlushSave(r)
  \/ AgentRestart

AgentSpec == AgentInit /\ [][AgentNext]_agentVars

-----------------------------------------------------------------------------
(* Properties.                                                             *)

AgentTypeOK ==
  /\ file \in Seq(Events)
  /\ captured \subseteq Events
  /\ received \subseteq captured
  /\ request \in [Requests -> AgentRequest]

Posting == {e \in Events : \E r \in Requests : request[r].op = "send" /\ request[r].event = e}

\* Through lost posts, lost answers and restarts, a captured reading is
\* stored, in the file or about to be posted for the first time: unless a
\* flush saves over a file that was written since it was loaded, or the
\* process ends during a first post.
ReadingsKept ==
  ~overtaken /\ ~cut => captured \subseteq received \union ToSet(file) \union Posting

=============================================================================
