--------------------------- MODULE AgentMailboxes ---------------------------
(***************************************************************************)
(* What the trigger queue promises to each agent, with ticks, batches,     *)
(* microtasks and timers left out: a mailbox served one trigger at a time  *)
(* and in order of arrival, from which triggers may be discarded, and to   *)
(* whose head a trigger that was not handled goes back.                    *)
(* (src/lib/sandbox/triggerQueue/index.ts, the invariants of its header.)  *)
(*                                                                         *)
(* A mailbox is a set of triggers and the order in which they wait.        *)
(***************************************************************************)
CONSTANTS Trigger, Agent,
          Recipient,  \* a function in [Trigger -> Agent]
          Nobody      \* not a trigger

VARIABLES
  submitted,   \* triggers that were handed in
  waiting,     \* triggers in some mailbox
  ahead,       \* pairs <<t, u>>: t waits in the same mailbox as u, before u
  serving      \* serving[a]: what a is working on, or Nobody

vars == <<submitted, waiting, ahead, serving>>

Mailbox(a) == {t \in waiting : Recipient[t] = a}

Init ==
  /\ submitted = {}
  /\ waiting = {}
  /\ ahead = {}
  /\ serving = [a \in Agent |-> Nobody]

\* t goes to the end of the mailbox of its recipient.
Submit(t) ==
  /\ t \notin submitted
  /\ submitted' = submitted \cup {t}
  /\ waiting' = waiting \cup {t}
  /\ ahead' = ahead \cup (Mailbox(Recipient[t]) \X {t})
  /\ UNCHANGED serving

\* The first trigger in the mailbox of a that is not one of D.
First(a, D) ==
  CHOOSE t \in Mailbox(a) \ D : \A u \in Mailbox(a) \ D : <<u, t>> \notin ahead

\* Discard the triggers D, wherever they wait, and let the free agents A start
\* on the first trigger that is left for each of them.
Evaluate(D, A) ==
  /\ \A a \in A : serving[a] = Nobody /\ Mailbox(a) \ D # {}
  /\ serving' = [a \in Agent |-> IF a \in A THEN First(a, D) ELSE serving[a]]
  /\ waiting' = waiting \ (D \cup {First(a, D) : a \in A})
  /\ ahead' = ahead \cap (waiting' \X waiting')
  /\ UNCHANGED submitted

Finish(a) ==
  /\ serving[a] # Nobody
  /\ serving' = [serving EXCEPT ![a] = Nobody]
  /\ UNCHANGED <<submitted, waiting, ahead>>

\* What a is working on goes back to the head of its mailbox.
PutBack(a) ==
  /\ serving[a] # Nobody
  /\ waiting' = waiting \cup {serving[a]}
  /\ ahead' = ahead \cup ({serving[a]} \X Mailbox(a))
  /\ serving' = [serving EXCEPT ![a] = Nobody]
  /\ UNCHANGED submitted

Next ==
  \/ \E t \in Trigger : Submit(t)
  \/ \E D \in SUBSET submitted, A \in SUBSET Agent : Evaluate(D, A)
  \/ \E a \in Agent : Finish(a) \/ PutBack(a)

Spec == Init /\ [][Next]_vars
=============================================================================
