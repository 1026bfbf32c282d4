--------------------------- MODULE TurnExecution ---------------------------
(***************************************************************************)
(* The turns of agents                                                     *)
(* (src/lib/sandbox/runtime/turnExecutionEngine/index.ts) and what the     *)
(* lifecycle manager and the history manager do to an agent while one of   *)
(* its turns is under way (runtime/agentLifecycle/index.ts,                *)
(* runtime/historyManager/index.ts).                                       *)
(*                                                                         *)
(* executeAgentTurn is not queued anywhere: the agent record carries the   *)
(* promise of its turn, and a call that finds one waits for it and tries   *)
(* again.  The record also carries one abort controller and one state, and *)
(* every turn of the agent writes them.  A turn runs from await to await;  *)
(* in between anything may happen to its agent: cancel, kill, restore,     *)
(* purge, undo, and unstickAgent, which takes the promise away from a turn *)
(* that has not ended.                                                     *)
(*                                                                         *)
(* An AbortController is named by the turn that created it.  What is asked *)
(* and answered, history, mail and telemetry are left out: which tools the *)
(* model calls, and whether precalls are pending, is left open.            *)
(*                                                                         *)
(* A definition whose name ends in _Fault is a seeded fault, as in         *)
(* TriggerQueue.                                                           *)
(***************************************************************************)
EXTENDS Naturals

CONSTANTS
  Agent,     \* agent records
  Turn,      \* calls of executeAgentTurn
  NoTurn,    \* absence of a turn: a null promise, a null controller
  AgentOf,   \* AgentOf[t]: the agent that is to run t
  Wakes,     \* autoTrigger calls for mail, skipped when nothing is unread
  Signals,   \* calls whose caller passes an AbortSignal
  maxTurns,  \* agent.config.maxTurns (in the code absent means no limit)
  MaxCalls,  \* bound: tool calls in one answer, precalls in one turn (10)
  MaxRescues \* bound: how often agents are unstuck or restored

ASSUME TurnAssumption ==
  /\ NoTurn \notin Turn
  /\ AgentOf \in [Turn -> Agent]
  /\ Wakes \subseteq Turn
  /\ Signals \subseteq Turn
  /\ maxTurns \in Nat \ {0}
  /\ MaxCalls \in Nat
  /\ MaxRescues \in Nat

VARIABLES
  state,              \* agent.state
  place,              \* "active" in #agents, "bin" in #recycleBin, or "gone"
  currentTurnPromise, \* agent.currentTurnPromise: the turn it belongs to
  abortController,    \* agent.abortController: the turn that created it
  stage,              \* where a call stands
  waitsOn,            \* the promise a deferred call awaits
  calls,              \* precalls or tool calls still to be made
  loopCount,          \* loopCount of the turn
  turnAborted,        \* turns whose turnAborted is true
  signalled,          \* calls whose external AbortSignal is aborted
  outcome,            \* what a call has settled with
  asked,              \* history: turns that were asked to stop while they
                      \* held the promise, or whose provider gave up
  rescues             \* history: how often unstick and restore were used

agents == <<state, place, currentTurnPromise, abortController>>
turns  == <<stage, waitsOn, calls, loopCount, outcome>>
vars   == <<agents, turns, turnAborted, signalled, asked, rescues>>

AgentState == {"idle", "running", "waiting_for_message", "canceling", "errored", "recycled"}
Underway   == {"precall", "model", "tool", "yield"}
Outcome    == {"completed", "cancelled", "failed", "refused", "skipped"}
NoOutcome  == "none"
Cancellable == {"running", "waiting_for_message"}

\* The rows and columns of the table for the states that turns use.
VALID_TRANSITIONS ==
  [idle                |-> {"running", "idle", "recycled"},
   running             |-> AgentState,
   waiting_for_message |-> AgentState,
   canceling           |-> {"idle", "errored", "recycled"},
   errored             |-> {"idle", "running", "recycled"},
   recycled            |-> {"idle", "recycled"}]

Valid(a, new) == new \in VALID_TRANSITIONS[state[a]]

InFlight(t) == stage[t] \in Underway
Alive(a)    == place[a] = "active" /\ state[a] # "recycled"

TypeOK ==
  /\ state \in [Agent -> AgentState]
  /\ place \in [Agent -> {"active", "bin", "gone"}]
  /\ currentTurnPromise \in [Agent -> Turn \cup {NoTurn}]
  /\ abortController \in [Agent -> Turn \cup {NoTurn}]
  /\ stage \in [Turn -> Underway \cup {"new", "deferred", "done"}]
  /\ waitsOn \in [Turn -> Turn \cup {NoTurn}]
  /\ calls \in [Turn -> 0..MaxCalls]
  /\ loopCount \in [Turn -> 0..maxTurns]
  /\ turnAborted \subseteq Turn
  /\ signalled \subseteq Turn
  /\ outcome \in [Turn -> Outcome \cup {NoOutcome}]
  /\ asked \subseteq Turn

Init ==
  /\ state = [a \in Agent |-> "idle"]
  /\ place = [a \in Agent |-> "active"]
  /\ currentTurnPromise = [a \in Agent |-> NoTurn]
  /\ abortController = [a \in Agent |-> NoTurn]
  /\ stage = [t \in Turn |-> "new"]
  /\ waitsOn = [t \in Turn |-> NoTurn]
  /\ calls = [t \in Turn |-> 0]
  /\ loopCount = [t \in Turn |-> 0]
  /\ turnAborted = {}
  /\ signalled = {}
  /\ outcome = [t \in Turn |-> NoOutcome]
  /\ asked = {}
  /\ rescues = 0

-----------------------------------------------------------------------------
(* Calls of executeAgentTurn                                               *)

\* The call settles without having run a turn.
Answer(t, o) ==
  /\ stage' = [stage EXCEPT ![t] = "done"]
  /\ outcome' = [outcome EXCEPT ![t] = o]
  /\ waitsOn' = [waitsOn EXCEPT ![t] = NoTurn]
  /\ UNCHANGED <<agents, calls, loopCount, turnAborted, signalled, asked>>

\* The agent is busy: chain onto the promise of its turn.
Defer(t) ==
  /\ stage' = [stage EXCEPT ![t] = "deferred"]
  /\ waitsOn' = [waitsOn EXCEPT ![t] = currentTurnPromise[AgentOf[t]]]
  /\ UNCHANGED <<agents, calls, loopCount, outcome, turnAborted, signalled, asked>>

\* #runTurnCore up to its first await: a precall, or the first call of the
\* model.
Begin(t) ==
  LET a == AgentOf[t]
  IN  /\ Valid(a, "running")
      /\ state' = [state EXCEPT ![a] = "running"]
      /\ currentTurnPromise' = [currentTurnPromise EXCEPT ![a] = t]
      /\ abortController' = [abortController EXCEPT ![a] = t]
      /\ waitsOn' = [waitsOn EXCEPT ![t] = NoTurn]
      /\ \/ /\ stage' = [stage EXCEPT ![t] = "model"]
            /\ loopCount' = [loopCount EXCEPT ![t] = 1]
            /\ UNCHANGED calls
         \/ \E n \in 1..MaxCalls :
              /\ stage' = [stage EXCEPT ![t] = "precall"]
              /\ calls' = [calls EXCEPT ![t] = n - 1]
              /\ UNCHANGED loopCount
      /\ UNCHANGED <<place, outcome, turnAborted, signalled, asked>>

\* What executeAgentTurn does, at once or when the awaited turn has ended.
Serve_Fault(t) ==
  LET a == AgentOf[t]
  IN  \/ ~Alive(a) /\ Answer(t, "refused")
      \/ Alive(a) /\ t \in signalled /\ Answer(t, "cancelled")
      \/ Alive(a) /\ t \notin signalled /\ stage[t] = "new"
           /\ currentTurnPromise[a] # NoTurn /\ Defer(t)
      \/ Alive(a) /\ t \notin signalled /\ t \in Wakes /\ Answer(t, "skipped")
      \/ Alive(a) /\ t \notin signalled
           /\ (stage[t] = "new" => currentTurnPromise[a] = NoTurn) /\ Begin(t)
      \/ Alive(a) /\ t \notin signalled /\ ~Valid(a, "running") /\ Answer(t, "failed")

Serve(t) ==
  LET a     == AgentOf[t]
      alive == Alive(a) /\ t \notin signalled
      free  == alive /\ currentTurnPromise[a] = NoTurn
  IN  \/ ~Alive(a) /\ Answer(t, "refused")
      \/ Alive(a) /\ t \in signalled /\ Answer(t, "cancelled")
      \/ alive /\ ~free /\ Defer(t)
      \/ free /\ t \in Wakes /\ Answer(t, "skipped")
      \/ free /\ Begin(t)
      \/ free /\ ~Valid(a, "running") /\ Answer(t, "failed")

ExecuteAgentTurn(t) == stage[t] = "new" /\ Serve(t)

Resume(t) == stage[t] = "deferred" /\ stage[waitsOn[t]] = "done" /\ Serve(t)

-----------------------------------------------------------------------------
(* The turn, from await to await                                           *)

\* The test after every await of the loop: turnAborted, or the controller the
\* agent carries NOW is aborted.
Stopped(t) == t \in turnAborted \/ abortController[AgentOf[t]] \in turnAborted

\* The state an agent is left in: by the exit of the turn, then by its finally.
\* A failure is not recorded where the table has no way to errored.
StateAfter_Fault(s, o) ==
  IF s = "recycled" THEN "recycled"
  ELSE IF o = "failed" /\ s \notin {"idle", "waiting_for_message"} THEN "errored"
  ELSE "idle"

StateAfter(s, o) ==
  IF s = "recycled" THEN "recycled"
  ELSE IF o = "failed" /\ s # "idle" THEN "errored"
  ELSE "idle"

\* The turn ends with o: its finally drops whatever controller the agent
\* carries, the finally of executeAgentTurn only the turn's own promise.
Settle_Fault(t, o) ==
  LET a == AgentOf[t]
  IN  /\ stage' = [stage EXCEPT ![t] = "done"]
      /\ outcome' = [outcome EXCEPT ![t] = o]
      /\ state' = [state EXCEPT ![a] = StateAfter(@, o)]
      /\ abortController' = [abortController EXCEPT ![a] = NoTurn]
      /\ currentTurnPromise' = [currentTurnPromise EXCEPT
           ![a] = IF @ = t /\ o = "completed" THEN NoTurn ELSE @]
      /\ UNCHANGED <<place, waitsOn, calls, loopCount, turnAborted, signalled>>

Settle(t, o) ==
  LET a == AgentOf[t]
  IN  /\ stage' = [stage EXCEPT ![t] = "done"]
      /\ outcome' = [outcome EXCEPT ![t] = o]
      /\ state' = [state EXCEPT ![a] = StateAfter(@, o)]
      /\ abortController' = [abortController EXCEPT ![a] = NoTurn]
      /\ currentTurnPromise' = [currentTurnPromise EXCEPT ![a] = IF @ = t THEN NoTurn ELSE @]
      /\ UNCHANGED <<place, waitsOn, calls, loopCount, turnAborted, signalled>>

\* Out of the loop, or into the catch: cancelled if anything says so, else o.
Exit(t, o) ==
  /\ Settle(t, IF Stopped(t) \/ state[AgentOf[t]] = "canceling" THEN "cancelled" ELSE o)
  /\ UNCHANGED asked

Proceed(t, next, left, loops) ==
  /\ stage' = [stage EXCEPT ![t] = next]
  /\ calls' = [calls EXCEPT ![t] = left]
  /\ loopCount' = [loopCount EXCEPT ![t] = loops]
  /\ UNCHANGED <<place, currentTurnPromise, abortController, waitsOn, outcome,
                 turnAborted, signalled, asked>>

\* setAgentState, which throws into the catch when the table forbids the step.
Enter(t, new, next, left) ==
  LET a == AgentOf[t]
  IN  \/ /\ Valid(a, new)
         /\ state' = [state EXCEPT ![a] = new]
         /\ Proceed(t, next, left, loopCount[t])
      \/ ~Valid(a, new) /\ Exit(t, "failed")

\* The next of the tool calls of an answer, left more to come.
StartTool(t, left) == \E new \in Cancellable : Enter(t, new, "tool", left)

\* The head of the loop.
CallModel(t) ==
  \/ Stopped(t) /\ Exit(t, "cancelled")
  \/ ~Stopped(t) /\ UNCHANGED state /\ Proceed(t, "model", 0, loopCount[t] + 1)

\* A precall has been made.  No abort is looked at between precalls.
PrecallReturns(t) ==
  /\ stage[t] = "precall"
  /\ \/ calls[t] > 0 /\ UNCHANGED state /\ Proceed(t, "precall", calls[t] - 1, loopCount[t])
     \/ calls[t] = 0 /\ CallModel(t)

\* The model has answered, in prose or with tool calls.
ModelReturns(t) ==
  /\ stage[t] = "model"
  /\ \/ Stopped(t) /\ Exit(t, "cancelled")
     \/ ~Stopped(t) /\ Exit(t, "completed")
     \/ ~Stopped(t) /\ \E n \in 1..MaxCalls : StartTool(t, n - 1)

\* The model call throws, or a step around it does.
ModelFails(t) == stage[t] = "model" /\ Exit(t, "failed")

\* The provider throws an AbortError on its own account, a timeout for instance.
ModelGivesUp(t) ==
  /\ stage[t] = "model"
  /\ Settle(t, "cancelled")
  /\ asked' = asked \cup {t}

\* A tool call has been made: the next one, or the end of the turn by
\* batch_precall or for lack of progress, or another round.
ToolReturns_Fault(t) ==
  /\ stage[t] = "tool"
  /\ \/ calls[t] > 0 /\ StartTool(t, calls[t] - 1)
     \/ calls[t] = 0 /\ Exit(t, "completed")
     \/ calls[t] = 0 /\ Exit(t, "failed")
     \/ calls[t] = 0 /\ Enter(t, "running", "yield", 0)

ToolReturns(t) ==
  /\ stage[t] = "tool"
  /\ \/ Stopped(t) /\ Exit(t, "cancelled")
     \/ ~Stopped(t) /\ calls[t] > 0 /\ StartTool(t, calls[t] - 1)
     \/ ~Stopped(t) /\ calls[t] = 0 /\ Exit(t, "completed")
     \/ ~Stopped(t) /\ calls[t] = 0 /\ Exit(t, "failed")
     \/ ~Stopped(t) /\ calls[t] = 0 /\ Enter(t, "running", "yield", 0)

\* The macrotask between two rounds has passed.
YieldReturns(t) ==
  /\ stage[t] = "yield"
  /\ \/ loopCount[t] < maxTurns /\ CallModel(t)
     \/ loopCount[t] >= maxTurns /\ Exit(t, "failed")

\* Everything a turn does on its own.
Step(t) ==
  \/ PrecallReturns(t)
  \/ ModelReturns(t) \/ ModelFails(t) \/ ModelGivesUp(t)
  \/ ToolReturns(t)
  \/ YieldReturns(t)

-----------------------------------------------------------------------------
(* What happens to an agent                                                *)

Holder(a) == {currentTurnPromise[a]} \ {NoTurn}

\* abort() of the controller the agent carries; its turn listens to it.
Abort(a) == turnAborted' = turnAborted \cup ({abortController[a]} \ {NoTurn})

Ask(a) == asked' = asked \cup Holder(a)

ExternalAbort(t) ==
  /\ t \in Signals \ signalled
  /\ signalled' = signalled \cup {t}
  /\ turnAborted' =
       IF InFlight(t)
       THEN turnAborted \cup {t} \cup ({abortController[AgentOf[t]]} \ {NoTurn})
       ELSE turnAborted
  /\ UNCHANGED <<agents, turns, asked>>

\* LifecycleManager.cancelAgent, where it returns true.
CancelAgent(a) ==
  /\ place[a] = "active" /\ state[a] \in Cancellable
  /\ state' = [state EXCEPT ![a] = "canceling"]
  /\ Abort(a) /\ Ask(a)
  /\ UNCHANGED <<place, currentTurnPromise, abortController, turns, signalled>>

\* TurnExecutionEngine.cancelAgentTurn, where it returns true.
CancelAgentTurn(a) ==
  /\ place[a] = "active"
  /\ {currentTurnPromise[a], abortController[a]} # {NoTurn}
  /\ state' = [state EXCEPT ![a] = IF @ \in Cancellable THEN "canceling" ELSE @]
  /\ Abort(a) /\ Ask(a)
  /\ UNCHANGED <<place, currentTurnPromise, abortController, turns, signalled>>

\* undoAgentTurn on a busy agent.
UndoAgentTurn(a) ==
  /\ place[a] = "active" /\ state[a] \in Cancellable \cup {"canceling"}
  /\ state' = [state EXCEPT ![a] = "idle"]
  /\ Abort(a) /\ Ask(a)
  /\ UNCHANGED <<place, currentTurnPromise, abortController, turns, signalled>>

\* killAgent: abort, release, recycle.
KillAgent(a) ==
  /\ place[a] = "active"
  /\ state' = [state EXCEPT ![a] = "recycled"]
  /\ place' = [place EXCEPT ![a] = "bin"]
  /\ currentTurnPromise' = [currentTurnPromise EXCEPT ![a] = NoTurn]
  /\ abortController' = [abortController EXCEPT ![a] = NoTurn]
  /\ Abort(a) /\ Ask(a)
  /\ UNCHANGED <<turns, signalled>>

RestoreAgent(a) ==
  /\ place[a] = "bin"
  /\ state' = [state EXCEPT ![a] = "idle"]
  /\ place' = [place EXCEPT ![a] = "active"]
  /\ UNCHANGED <<currentTurnPromise, abortController, turns, turnAborted, signalled, asked>>

PurgeAgent(a) ==
  /\ place[a] # "gone"
  /\ place' = [place EXCEPT ![a] = "gone"]
  /\ Abort(a) /\ Ask(a)
  /\ UNCHANGED <<state, currentTurnPromise, abortController, turns, signalled>>

\* unstickAgent: abort, and declare the agent free at once.
UnstickAgent(a) ==
  /\ place[a] # "gone"
  /\ state' = [state EXCEPT ![a] = IF @ = "recycled" THEN @ ELSE "idle"]
  /\ currentTurnPromise' = [currentTurnPromise EXCEPT ![a] = NoTurn]
  /\ abortController' = [abortController EXCEPT ![a] = NoTurn]
  /\ Abort(a) /\ Ask(a)
  /\ UNCHANGED <<place, turns, signalled>>

Mishap(a) ==
  CancelAgent(a) \/ CancelAgentTurn(a) \/ UndoAgentTurn(a) \/ KillAgent(a) \/ PurgeAgent(a)

\* What lets a second turn of an agent begin while the first still unwinds.
Rescue(a) ==
  /\ rescues < MaxRescues
  /\ rescues' = rescues + 1
  /\ RestoreAgent(a) \/ UnstickAgent(a)

Next ==
  \/ /\ \/ \E t \in Turn : ExecuteAgentTurn(t) \/ Resume(t) \/ Step(t) \/ ExternalAbort(t)
        \/ \E a \in Agent : Mishap(a)
     /\ UNCHANGED rescues
  \/ \E a \in Agent : Rescue(a)

Spec == Init /\ [][Next]_vars

\* Awaits return: a provider or a tool answers, fails, or gives up when its
\* signal is aborted; promise callbacks and timers of the event loop run.
FairSpec ==
  /\ Spec
  /\ \A t \in Turn : /\ WF_vars(Resume(t) /\ UNCHANGED rescues)
                     /\ WF_vars(Step(t) /\ UNCHANGED rescues)

-----------------------------------------------------------------------------
(* Invariants                                                              *)

Busy == Cancellable \cup {"canceling"}

\* Who a record names is a turn of its agent that is under way, and so is
\* somebody whenever its state is busy.
HonestRecord ==
  \A a \in Agent :
    /\ \A t \in Holder(a) \cup ({abortController[a]} \ {NoTurn}) :
         InFlight(t) /\ AgentOf[t] = a
    /\ state[a] \in Busy => \E t \in Turn : InFlight(t) /\ AgentOf[t] = a
    /\ place[a] = "active" => state[a] # "recycled"
    /\ place[a] = "bin" => state[a] = "recycled"

Staged ==
  \A t \in Turn :
    /\ outcome[t] = NoOutcome <=> stage[t] # "done"
    /\ stage[t] = "deferred" => waitsOn[t] \in Turn
    /\ stage[t] \in {"new", "deferred", "precall"} => loopCount[t] = 0

\* What holds whatever is done to an agent.
RecordInv == TypeOK /\ Staged /\ HonestRecord

\* The rest holds until somebody unsticks or restores an agent; the run
\* te_lost_stop shows what becomes of it then.

\* At most one turn of an agent is under way, dead or alive (executeAgentTurn,
\* which says "At most one turn executes per agent").
OneTurnPerAgent ==
  \A t, u \in Turn : InFlight(t) /\ InFlight(u) /\ AgentOf[t] = AgentOf[u] => t = u

\* A turn nobody stopped owns its agent: the promise, the controller, the state.
LiveTurnOwnsAgent ==
  \A t \in Turn : InFlight(t) =>
    LET a == AgentOf[t]
    IN  /\ place[a] = "active" => currentTurnPromise[a] = t
        /\ t \notin turnAborted =>
             place[a] = "active" /\ abortController[a] = t /\ state[a] \in Cancellable

\* Who was asked to stop is stopped or has ended, and nobody else is stopped.
StopsArrive ==
  /\ \A t \in asked : t \in turnAborted \/ stage[t] = "done"
  /\ \A t \in Turn : InFlight(t) /\ t \in turnAborted => t \in asked \cup signalled

-----------------------------------------------------------------------------
(* Properties                                                              *)

\* When no turn of an agent is under way nothing is left of any: no promise to
\* wait for, no controller, no state that reads busy, whatever happened and
\* however turns overlapped (the finally blocks, unstickAgent, "stranded states").
NothingStranded ==
  \A a \in Agent :
    (\A t \in Turn : AgentOf[t] = a => ~InFlight(t)) =>
      /\ currentTurnPromise[a] = NoTurn /\ abortController[a] = NoTurn
      /\ state[a] \in {"idle", "errored", "recycled"}

\* A turn that was asked to stop, by cancel, undo, kill or purge, never
\* completes (cancelAgentTurn, "settles cancelled"; killAgent).
StopIsObeyed == \A t \in asked : outcome[t] # "completed"

\* It makes no further model or tool call, as long as nobody is rescued;
\* precalls are not counted (the tests after each await of #runTurnCore).
NoWorkAfterStop ==
  [][rescues = 0 =>
       \A t \in asked :
         stage'[t] \in {"model", "tool"} =>
           UNCHANGED <<stage[t], calls[t], loopCount[t]>>]_vars

\* A turn is cancelled for a reason of its own: somebody asked it to stop, its
\* own signal did, or its provider gave up.  The stop of one call never hits the
\* next (onExternalAbort and its removal in finally).
CancelledForAReason ==
  \A t \in Turn : outcome[t] = "cancelled" => t \in asked \cup signalled

\* A turn that fails leaves its living agent errored, which is how the failure
\* is seen afterwards, as long as nobody is rescued (the catch of #runTurnCore).
FailureIsVisible ==
  [][rescues = 0 =>
       \A t \in Turn :
         outcome'[t] = "failed" /\ outcome[t] # "failed" =>
           state'[AgentOf[t]] \in {"errored", "recycled"}]_vars

\* As long as nobody is rescued a turn has its agent to itself, and stops arrive,
\* are obeyed and hit nobody else.
Serial ==
  /\ RecordInv
  /\ OneTurnPerAgent
  /\ LiveTurnOwnsAgent
  /\ StopsArrive
  /\ StopIsObeyed
  /\ CancelledForAReason

\* What the engine keeps true of agents and their turns.
TInv ==
  /\ RecordInv
  /\ NothingStranded
  /\ rescues \in 0..MaxRescues
  /\ rescues = 0 => Serial

\* Every call of executeAgentTurn settles, the deferred ones too, in whatever
\* order the promises wake them and whatever happens to the agent: again and again
\* no call is under way, and what has settled stays so (#runTurnCore,
\* executeAgentTurn).
CallsSettle == []<>(\A t \in Turn : stage[t] \in {"new", "done"})
=============================================================================
