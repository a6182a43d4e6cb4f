--------------------------- MODULE TurnQueuePromise ---------------------------
(***************************************************************************)
(* The turn queue implements MessageDispatch: the line of a thread is the  *)
(* list of the queue its id maps to, the messages handed over are those a  *)
(* drain is sending, and the running ones those whose turn/start the       *)
(* official client has accepted but not answered.                          *)
(***************************************************************************)
EXTENDS TurnQueue

Lines == [t \in Threads |-> q[slot[t]].items]
HandedOver == {m \in Msgs : InFlight(m) /\ call[m].drain}
Running == {m \in Msgs : call[m].pc = "accepted"}

Promise == INSTANCE MessageDispatch WITH
  MaxWaiting <- MaxQueued,
  AnswersGetLost <- "ackLoss" \in Faults,
  line <- Lines,
  state <- stage,
  handed <- HandedOver,
  running <- Running

\* Every step of the server, the official client and the network is one the
\* promise allows or is invisible to it: messages wait in the order their
\* authors gave them, the first one goes when none of its line is out, none is
\* lost, doubled or run unasked, and a draft's line moves whole to its thread.
KeepsThePromise == Promise!Spec

=============================================================================
