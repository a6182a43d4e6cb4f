---------------------------- MODULE MessageDispatch ----------------------------
(***************************************************************************)
(* What the turn queue promises to the people who write messages, without  *)
(* the flags, polls, notifications and awaits it is made of: every thread  *)
(* has a line of messages; a line hands over its first message, one at a   *)
(* time; a message leaves its line when its turn is confirmed or its       *)
(* author takes it back, and for no other reason; and the line of a draft  *)
(* follows the thread to the id the official client gives it.              *)
(***************************************************************************)
EXTENDS Naturals, Sequences, SequencesExt

CONSTANTS
  Threads,         \* thread ids
  Msgs,            \* messages
  MaxWaiting,      \* the length of a line
  AnswersGetLost   \* may a turn that did start be reported as failed?

VARIABLES
  line,      \* the messages that wait for each thread, in their order
  state,     \* what became of each message
  handed,    \* the waiting messages handed over to the official client
  running    \* the messages in its hands that it has begun to run

promiseVars == <<line, state, handed, running>>

Waits(t, m) == \E i \in DOMAIN line[t] : line[t][i] = m
\* A line once m has left it.  (No message is in a line twice.)
Without(s, m) ==
  IF \E i \in DOMAIN s : s[i] = m THEN RemoveAt(s, CHOOSE i \in DOMAIN s : s[i] = m) ELSE s
States == {"new", "direct", "queued", "sent", "removed", "refused"}

Init ==
  /\ line = [t \in Threads |-> <<>>]
  /\ state = [m \in Msgs |-> "new"]
  /\ handed = {}
  /\ running = {}

\* Whatever happens to the lines, each line none of whose messages is in the
\* client's hands afterwards may hand over its first one.
HandsOver(kept) ==
  /\ kept \subseteq handed'
  /\ \A m \in handed' \ kept :
       \E t \in Threads : /\ line'[t] # <<>> /\ m = Head(line'[t])
                          /\ \A i \in DOMAIN line'[t] :
                               line'[t][i] \in handed' => line'[t][i] = m

Becomes(m, s) == state' = [state EXCEPT ![m] = s]

Direct(m) ==
  /\ state[m] = "new" /\ Becomes(m, "direct")
  /\ UNCHANGED <<line, handed, running>>

Queue(t, m) ==
  /\ state[m] = "new" /\ Becomes(m, "queued")
  /\ Len(line[t]) < MaxWaiting
  /\ line' = [line EXCEPT ![t] = Append(@, m)]
  /\ HandsOver(handed) /\ UNCHANGED running

\* Only a message nobody has begun to run is refused, unless answers get lost.
Refuse(m) ==
  /\ \/ state[m] = "new"
     \/ state[m] = "direct" /\ (m \notin running \/ AnswersGetLost)
  /\ Becomes(m, "refused")
  /\ running' = running \ {m}
  /\ HandsOver(handed) /\ UNCHANGED line

\* The author changes the line, but no message that has been handed over.
TakeBack(t, m) ==
  /\ Waits(t, m) /\ m \notin handed /\ Becomes(m, "removed")
  /\ line' = [line EXCEPT ![t] = Without(@, m)]
  /\ HandsOver(handed) /\ UNCHANGED running

Move(t, m) ==
  /\ Waits(t, m) /\ m \notin handed
  /\ LET others == Without(line[t], m)
     IN \E i \in DOMAIN line[t] : line' = [line EXCEPT ![t] = InsertAt(others, i, m)]
  /\ HandsOver(handed) /\ UNCHANGED <<state, running>>

HandOver == UNCHANGED <<line, state, running>> /\ HandsOver(handed)

Run(m) ==
  /\ m \in handed \/ state[m] = "direct"
  /\ m \notin running
  /\ running' = running \cup {m}
  /\ UNCHANGED <<line, state, handed>>

\* A turn is confirmed only if it runs.  The thread t it was sent to may turn
\* out to be c: the whole line goes there, and c had none that this would lose.
Confirm(m, t, c) ==
  /\ m \in running /\ Becomes(m, "sent")
  /\ LET rest == [u \in Threads |-> Without(line[u], m)]
     IN /\ t # c => rest[c] = <<>>
        /\ line' = IF t = c THEN rest ELSE [rest EXCEPT ![c] = rest[t], ![t] = <<>>]
  /\ running' = running \ {m}
  /\ handed' = handed \ {m}

\* A message that could not be sent is the first of its line again.
GiveBack(m) ==
  /\ m \in handed
  /\ m \notin running \/ AnswersGetLost
  /\ \E t \in Threads :
       /\ Waits(t, m)
       /\ line' = [line EXCEPT ![t] = <<m>> \o Without(@, m)]
  /\ handed' = handed \ {m}
  /\ running' = running \ {m}
  /\ UNCHANGED state

Next ==
  \/ HandOver
  \/ \E m \in Msgs : \/ Direct(m) \/ Refuse(m) \/ Run(m) \/ GiveBack(m)
                     \/ \E t \in Threads : \/ Queue(t, m) \/ TakeBack(t, m) \/ Move(t, m)
                                           \/ \E c \in Threads : Confirm(m, t, c)

Spec == Init /\ [][Next]_promiseVars

=============================================================================
