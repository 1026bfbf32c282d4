------------------------ MODULE TurnExecution_proofs ------------------------
(***************************************************************************)
(* Proofs about the turns of agents, for any number of agents and calls.   *)
(* RecordInv is inductive whatever is done to an agent; Serial, which says *)
(* that a turn has its agent to itself, until somebody unsticks or         *)
(* restores.                                                               *)
(* Every step of a turn either ends it or moves it on: StepShapes.         *)
(***************************************************************************)
EXTENDS TurnExecution, TLAPS

\* The states and stages are different from each other, and as TurnAssumption
\* says of the constants.
USE TurnAssumption

-----------------------------------------------------------------------------
(* What a step of a turn can be                                            *)

\* The turn ends with o: of itself, or because its provider gives up.
Ends(t, o) ==
  /\ Settle(t, o)
  /\ \/ asked' = asked \cup {t} /\ o = "cancelled"
     \/ /\ UNCHANGED asked
        /\ (o = "cancelled") <=> (Stopped(t) \/ state[AgentOf[t]] = "canceling")

\* The turn goes on: by a precall, or because it has not been stopped.
Moves(t) ==
  \E next \in Underway, left \in 0..MaxCalls, loops \in 0..maxTurns :
    /\ Proceed(t, next, left, loops)
    /\ ~Stopped(t) \/ next = "precall"
    /\ next = "precall" => loops = loopCount[t] /\ stage[t] = "precall"
    /\ \/ UNCHANGED state
       \/ \E new \in Cancellable :
            /\ Valid(AgentOf[t], new)
            /\ state' = [state EXCEPT ![AgentOf[t]] = new]

\* An exit is an end.
LEMMA ExitEnds ==
  ASSUME NEW t \in Turn, NEW o \in {"completed", "cancelled", "failed"}, Exit(t, o),
         o = "cancelled" => Stopped(t)
  PROVE  \E p \in {"completed", "cancelled", "failed"} : Ends(t, p)
<1> DEFINE p == IF Stopped(t) \/ state[AgentOf[t]] = "canceling" THEN "cancelled" ELSE o
<1>1. Settle(t, p) /\ UNCHANGED asked
  BY DEF Exit
<1>2. p \in {"completed", "cancelled", "failed"}
  OBVIOUS
<1>3. (p = "cancelled") <=> (Stopped(t) \/ state[AgentOf[t]] = "canceling")
  OBVIOUS
<1> HIDE DEF p
<1> QED BY <1>1, <1>2, <1>3 DEF Ends

\* Entering a state moves the turn or ends it.
LEMMA EnterShape ==
  ASSUME TypeOK, NEW t \in Turn, NEW new \in Cancellable, NEW next \in {"tool", "yield"},
         NEW left \in 0..MaxCalls, Enter(t, new, next, left), ~Stopped(t)
  PROVE  Moves(t) \/ \E p \in {"completed", "cancelled", "failed"} : Ends(t, p)
<1>1. loopCount[t] \in 0..maxTurns /\ next \in Underway /\ next # "precall"
  BY DEF TypeOK, Underway
<1>2. CASE ~Valid(AgentOf[t], new) /\ Exit(t, "failed")
  BY <1>2, ExitEnds
<1>3. CASE Valid(AgentOf[t], new) /\ state' = [state EXCEPT ![AgentOf[t]] = new]
             /\ Proceed(t, next, left, loopCount[t])
  BY <1>1, <1>3 DEF Moves
<1> QED BY <1>2, <1>3 DEF Enter

\* Calling the model moves the turn or ends it.
LEMMA CallModelShape ==
  ASSUME TypeOK, NEW t \in Turn, CallModel(t), loopCount[t] < maxTurns
  PROVE  Moves(t) \/ \E p \in {"completed", "cancelled", "failed"} : Ends(t, p)
<1>1. CASE Stopped(t) /\ Exit(t, "cancelled")
  BY <1>1, ExitEnds
<1>2. CASE ~Stopped(t) /\ UNCHANGED state /\ Proceed(t, "model", 0, loopCount[t] + 1)
  <2>1. loopCount[t] + 1 \in 0..maxTurns /\ 0 \in 0..MaxCalls /\ "model" \in Underway
    BY DEF TypeOK, Underway
  <2> QED BY <1>2, <2>1 DEF Moves
<1> QED BY <1>1, <1>2 DEF CallModel

\* A turn that takes a step is under way, and moves on or ends.
LEMMA StepShapes ==
  ASSUME TypeOK, Staged, NEW t \in Turn, Step(t)
  PROVE  /\ InFlight(t)
         /\ Moves(t) \/ \E p \in {"completed", "cancelled", "failed"} : Ends(t, p)
<1>1. InFlight(t)
  BY DEF Step, PrecallReturns, ModelReturns, ModelFails, ModelGivesUp, ToolReturns, YieldReturns,
     InFlight, Underway
<1>2. calls[t] \in 0..MaxCalls /\ loopCount[t] \in 0..maxTurns
  BY DEF TypeOK
<1>3. CASE PrecallReturns(t)
  <2>1. CASE calls[t] > 0 /\ UNCHANGED state /\ Proceed(t, "precall", calls[t] - 1, loopCount[t])
    <3>1. calls[t] - 1 \in 0..MaxCalls /\ "precall" \in Underway /\ stage[t] = "precall"
      BY <1>2, <1>3, <2>1 DEF Underway, PrecallReturns
    <3> QED BY <1>1, <1>2, <2>1, <3>1 DEF Moves
  <2>2. CASE CallModel(t)
    <3>1. loopCount[t] < maxTurns
      BY <1>3 DEF PrecallReturns, Staged
    <3> QED BY <1>1, <2>2, <3>1, CallModelShape
  <2> QED BY <1>3, <2>1, <2>2 DEF PrecallReturns
<1>4. CASE ModelReturns(t)
  <2>1. CASE Stopped(t) /\ Exit(t, "cancelled")
    BY <1>1, <2>1, ExitEnds
  <2>2. CASE Exit(t, "completed")
    BY <1>1, <2>2, ExitEnds
  <2>3. CASE ~Stopped(t) /\ \E n \in 1..MaxCalls : StartTool(t, n - 1)
    <3>1. PICK n \in 1..MaxCalls : StartTool(t, n - 1)
      BY <2>3
    <3>2. n - 1 \in 0..MaxCalls
      OBVIOUS
    <3> QED BY <1>1, <2>3, <3>1, <3>2, EnterShape DEF StartTool
  <2> QED BY <1>4, <2>1, <2>2, <2>3 DEF ModelReturns
<1>5. CASE ModelFails(t)
  BY <1>1, <1>5, ExitEnds DEF ModelFails
<1>6. CASE ModelGivesUp(t)
  BY <1>1, <1>6 DEF ModelGivesUp, Ends
<1>7. CASE ToolReturns(t)
  <2>1. CASE Stopped(t) /\ Exit(t, "cancelled")
    BY <1>1, <2>1, ExitEnds
  <2>2. CASE Exit(t, "completed") \/ Exit(t, "failed")
    BY <1>1, <2>2, ExitEnds
  <2>3. CASE ~Stopped(t) /\ calls[t] > 0 /\ StartTool(t, calls[t] - 1)
    <3>1. calls[t] - 1 \in 0..MaxCalls
      BY <1>2, <2>3
    <3> QED BY <1>1, <2>3, <3>1, EnterShape DEF StartTool
  <2>4. CASE ~Stopped(t) /\ Enter(t, "running", "yield", 0)
    <3>1. 0 \in 0..MaxCalls /\ "running" \in Cancellable
      BY DEF Cancellable
    <3> QED BY <1>1, <2>4, <3>1, EnterShape
  <2> QED BY <1>7, <2>1, <2>2, <2>3, <2>4 DEF ToolReturns
<1>8. CASE YieldReturns(t)
  <2>1. CASE loopCount[t] < maxTurns /\ CallModel(t)
    BY <1>1, <2>1, CallModelShape
  <2>2. CASE Exit(t, "failed")
    BY <1>1, <2>2, ExitEnds
  <2> QED BY <1>8, <2>1, <2>2 DEF YieldReturns
<1> QED BY <1>3, <1>4, <1>5, <1>6, <1>7, <1>8 DEF Step

\* A call that is served has not begun, and is answered, deferred or begun.
LEMMA ServeShapes ==
  ASSUME NEW t \in Turn, ExecuteAgentTurn(t) \/ Resume(t)
  PROVE  /\ stage[t] \in {"new", "deferred"}
         /\ LET a == AgentOf[t]
            IN  \/ Answer(t, "refused")
                \/ t \in signalled /\ Answer(t, "cancelled")
                \/ currentTurnPromise[a] # NoTurn /\ Defer(t)
                \/ Answer(t, "skipped")
                \/ Alive(a) /\ currentTurnPromise[a] = NoTurn /\ Begin(t)
                \/ /\ Alive(a) /\ currentTurnPromise[a] = NoTurn
                   /\ ~Valid(a, "running") /\ Answer(t, "failed")
BY Zenon DEF ExecuteAgentTurn, Resume, Serve

\* The record of a becomes <<s, pl, pr, co>>: promise and controller are taken
\* away or left, nobody becomes busy who was not, the bin is for the recycled.
Rewrites(a, s, pl, pr, co) ==
  /\ state' = [state EXCEPT ![a] = s]
  /\ place' = [place EXCEPT ![a] = pl]
  /\ currentTurnPromise' = [currentTurnPromise EXCEPT ![a] = pr]
  /\ abortController' = [abortController EXCEPT ![a] = co]
  /\ pr \in {NoTurn, currentTurnPromise[a]}
  /\ co \in {NoTurn, abortController[a]}
  /\ s \in Busy => state[a] \in Busy
  /\ pl = "active" => s # "recycled" \/ (place[a] = "active" /\ s = state[a])
  /\ pl = "bin" => s = "recycled" \/ (place[a] = "bin" /\ state[a] # "recycled")

\* A mishap stops the turns of its agent and tells the history so.
Strikes(a) == Abort(a) /\ Ask(a)

\* The record keeps its promise and controller until it dies.
Keeps(a, pl, pr, co) ==
  \/ /\ pr = currentTurnPromise[a] /\ co = abortController[a]
     /\ pl = place[a] \/ pl = "gone"
  \/ pl = "bin"

\* A mishap leaves the calls alone and rewrites the record.
LEMMA MishapShape ==
  ASSUME TypeOK, NEW a \in Agent, Mishap(a)
  PROVE  /\ UNCHANGED <<turns, signalled>> /\ Strikes(a)
         /\ \E s \in AgentState, pl \in {"active", "bin", "gone"},
               pr \in Turn \cup {NoTurn}, co \in Turn \cup {NoTurn} :
              Rewrites(a, s, pl, pr, co) /\ Keeps(a, pl, pr, co)
<1> DEFINE st == state[a]
           pt == place[a]
           pp == currentTurnPromise[a]
           cp == abortController[a]
           Fits(s, pl, pr, co) == Rewrites(a, s, pl, pr, co) /\ Keeps(a, pl, pr, co)
           Rest == UNCHANGED <<turns, signalled>> /\ Strikes(a)
<1>t. /\ state = [state EXCEPT ![a] = st] /\ st \in AgentState
      /\ place = [place EXCEPT ![a] = pt] /\ pt \in {"active", "bin", "gone"}
      /\ currentTurnPromise = [currentTurnPromise EXCEPT ![a] = pp]
      /\ pp \in Turn \cup {NoTurn}
      /\ abortController = [abortController EXCEPT ![a] = cp]
      /\ cp \in Turn \cup {NoTurn}
  BY DEF TypeOK
<1>n. {"idle", "canceling", "recycled"} \subseteq AgentState /\ NoTurn \in Turn \cup {NoTurn}
  BY DEF AgentState
<1>1. ASSUME CancelAgent(a)
      PROVE  Rest /\ Fits("canceling", pt, pp, cp)
  BY <1>1, <1>t, SMT DEF CancelAgent, Strikes, Rewrites, Keeps, Busy, Cancellable
<1>2. ASSUME CancelAgentTurn(a)
      PROVE  Rest /\ Fits(IF st \in Cancellable THEN "canceling" ELSE st, pt, pp, cp)
  BY <1>2, <1>t, SMT DEF CancelAgentTurn, Strikes, Rewrites, Keeps, Busy, Cancellable
<1>3. ASSUME UndoAgentTurn(a)
      PROVE  Rest /\ Fits("idle", pt, pp, cp)
  BY <1>3, <1>t, SMT DEF UndoAgentTurn, Strikes, Rewrites, Keeps, Busy, Cancellable
<1>4. ASSUME KillAgent(a)
      PROVE  Rest /\ Fits("recycled", "bin", NoTurn, NoTurn)
  BY <1>4, <1>t, SMT DEF KillAgent, Strikes, Rewrites, Keeps, Busy, Cancellable
<1>6. ASSUME PurgeAgent(a)
      PROVE  Rest /\ Fits(st, "gone", pp, cp)
  BY <1>6, <1>t, SMT DEF PurgeAgent, Strikes, Rewrites, Keeps, Busy, Cancellable
<1>8. Rest /\ \E s \in AgentState, pl \in {"active", "bin", "gone"},
               pr \in Turn \cup {NoTurn}, co \in Turn \cup {NoTurn} : Fits(s, pl, pr, co)
  <2> HIDE DEF Rest, Fits, st, pt, pp, cp
  <2>1. CASE CancelAgent(a)
    BY <1>1, <1>n, <1>t, <2>1
  <2>2. CASE CancelAgentTurn(a)
    <3>1. (IF st \in Cancellable THEN "canceling" ELSE st) \in AgentState
      BY <1>n, <1>t
    <3> QED BY <1>2, <1>t, <2>2, <3>1
  <2>3. CASE UndoAgentTurn(a)
    BY <1>3, <1>n, <1>t, <2>3
  <2>4. CASE KillAgent(a)
    BY <1>4, <1>n, <2>4
  <2>6. CASE PurgeAgent(a)
    BY <1>6, <1>t, <2>6
  <2> QED BY <2>1, <2>2, <2>3, <2>4, <2>6 DEF Mishap
<1> QED BY <1>8

\* So does a rescue, which may take the record from a turn that still unwinds.
LEMMA RescueShape ==
  ASSUME TypeOK, NEW a \in Agent, Rescue(a)
  PROVE  /\ UNCHANGED <<turns, signalled>>
         /\ Strikes(a) \/ UNCHANGED <<turnAborted, asked>>
         /\ \E s \in AgentState, pl \in {"active", "bin", "gone"},
               pr \in Turn \cup {NoTurn}, co \in Turn \cup {NoTurn} : Rewrites(a, s, pl, pr, co)
<1> DEFINE st == state[a]
           pt == place[a]
           pp == currentTurnPromise[a]
           cp == abortController[a]
           Rest == UNCHANGED <<turns, signalled>> /\ (Strikes(a) \/ UNCHANGED <<turnAborted, asked>>)
<1>t. /\ state = [state EXCEPT ![a] = st] /\ st \in AgentState
      /\ place = [place EXCEPT ![a] = pt] /\ pt \in {"active", "bin", "gone"}
      /\ currentTurnPromise = [currentTurnPromise EXCEPT ![a] = pp]
      /\ pp \in Turn \cup {NoTurn}
      /\ abortController = [abortController EXCEPT ![a] = cp]
      /\ cp \in Turn \cup {NoTurn}
  BY DEF TypeOK
<1>n. {"idle", "recycled"} \subseteq AgentState /\ NoTurn \in Turn \cup {NoTurn}
  BY DEF AgentState
<1>1. ASSUME RestoreAgent(a)
      PROVE  Rest /\ Rewrites(a, "idle", "active", pp, cp)
  BY <1>1, <1>t, SMT DEF RestoreAgent, Rewrites, Busy, Cancellable
<1>2. ASSUME UnstickAgent(a)
      PROVE  Rest /\ Rewrites(a, IF st = "recycled" THEN st ELSE "idle", pt, NoTurn, NoTurn)
  BY <1>2, <1>t, SMT DEF UnstickAgent, Strikes, Rewrites, Busy, Cancellable
<1>3. Rest /\ \E s \in AgentState, pl \in {"active", "bin", "gone"},
               pr \in Turn \cup {NoTurn}, co \in Turn \cup {NoTurn} : Rewrites(a, s, pl, pr, co)
  <2> HIDE DEF Rest, st, pt, pp, cp
  <2>1. CASE RestoreAgent(a)
    BY <1>1, <1>n, <1>t, <2>1
  <2>2. CASE UnstickAgent(a)
    <3>1. (IF st = "recycled" THEN st ELSE "idle") \in AgentState
      BY <1>n, <1>t
    <3> QED BY <1>2, <1>n, <1>t, <2>2, <3>1
  <2> QED BY <2>1, <2>2 DEF Rescue
<1> QED BY <1>3

-----------------------------------------------------------------------------
(* The records, whatever is done to agents                                 *)

\* Init (constructor).
LEMMA InitRecord == Init => RecordInv
BY SMT DEF Init, RecordInv, TypeOK, Staged, HonestRecord, AgentState, Underway, Outcome, NoOutcome,
   Holder, Busy, Cancellable

LEMMA AnswerRecord ==
  ASSUME RecordInv, NEW t \in Turn, NEW o \in Outcome, Answer(t, o),
         stage[t] \in {"new", "deferred"}
  PROVE  RecordInv'
<1>1. TypeOK'
  BY SMT DEF RecordInv, TypeOK, Answer, agents
<1>2. Staged'
  BY SMT DEF RecordInv, TypeOK, Staged, Answer, Outcome, NoOutcome
<1>3. HonestRecord'
  BY SMT DEF RecordInv, TypeOK, HonestRecord, Answer, agents, InFlight, Underway, Holder
<1> QED BY <1>1, <1>2, <1>3 DEF RecordInv

LEMMA DeferRecord ==
  ASSUME RecordInv, NEW t \in Turn, Defer(t), currentTurnPromise[AgentOf[t]] # NoTurn,
         stage[t] \in {"new", "deferred"}
  PROVE  RecordInv'
<1>1. TypeOK'
  BY SMT DEF RecordInv, TypeOK, Defer, agents
<1>2. Staged'
  BY SMT DEF RecordInv, TypeOK, Staged, Defer
<1>3. HonestRecord'
  BY SMT DEF RecordInv, TypeOK, HonestRecord, Defer, agents, InFlight, Underway, Holder
<1> QED BY <1>1, <1>2, <1>3 DEF RecordInv

LEMMA BeginRecord ==
  ASSUME RecordInv, NEW t \in Turn, Begin(t), Alive(AgentOf[t]), stage[t] \in {"new", "deferred"}
  PROVE  RecordInv'
<1> DEFINE a == AgentOf[t]
<1>1. /\ a \in Agent
      /\ state' = [state EXCEPT ![a] = "running"]
      /\ currentTurnPromise' = [currentTurnPromise EXCEPT ![a] = t]
      /\ abortController' = [abortController EXCEPT ![a] = t]
      /\ waitsOn' = [waitsOn EXCEPT ![t] = NoTurn]
      /\ UNCHANGED <<place, outcome, turnAborted, signalled, asked>>
      /\ place[a] = "active"
  BY DEF Begin, Alive
<1>2. \E next \in {"model", "precall"}, n \in 0..MaxCalls, loops \in 0..maxTurns :
        /\ stage' = [stage EXCEPT ![t] = next]
        /\ calls' = [calls EXCEPT ![t] = n]
        /\ loopCount' = [loopCount EXCEPT ![t] = loops]
        /\ next = "precall" => loops = 0
  <2>1. CASE /\ stage' = [stage EXCEPT ![t] = "model"]
             /\ loopCount' = [loopCount EXCEPT ![t] = 1]
             /\ UNCHANGED calls
    <3>1. calls' = [calls EXCEPT ![t] = calls[t]] /\ calls[t] \in 0..MaxCalls /\ 1 \in 0..maxTurns
      BY <2>1 DEF RecordInv, TypeOK
    <3> QED BY <2>1, <3>1
  <2>2. CASE \E n \in 1..MaxCalls :
               /\ stage' = [stage EXCEPT ![t] = "precall"]
               /\ calls' = [calls EXCEPT ![t] = n - 1]
               /\ UNCHANGED loopCount
    <3>1. PICK n \in 1..MaxCalls : /\ stage' = [stage EXCEPT ![t] = "precall"]
                                   /\ calls' = [calls EXCEPT ![t] = n - 1]
                                   /\ UNCHANGED loopCount
      BY <2>2
    <3>2. loopCount[t] = 0 /\ 0 \in 0..maxTurns /\ loopCount' = [loopCount EXCEPT ![t] = 0]
      BY <3>1 DEF RecordInv, Staged, TypeOK
    <3>3. n - 1 \in 0..MaxCalls
      OBVIOUS
    <3> QED BY <3>1, <3>2, <3>3
  <2> QED BY <2>1, <2>2 DEF Begin
<1>3. PICK next \in {"model", "precall"}, n \in 0..MaxCalls, loops \in 0..maxTurns :
        /\ stage' = [stage EXCEPT ![t] = next]
        /\ calls' = [calls EXCEPT ![t] = n]
        /\ loopCount' = [loopCount EXCEPT ![t] = loops]
        /\ next = "precall" => loops = 0
  BY <1>2
<1> HIDE DEF a
<1>4. TypeOK'
  BY <1>1, <1>3, SMT DEF RecordInv, TypeOK, AgentState, Underway
<1>5. Staged'
  BY <1>1, <1>3, SMT DEF RecordInv, TypeOK, Staged
<1>6. HonestRecord'
  <2>1. \A u \in Turn : InFlight(u) => InFlight(u)'
    BY <1>3, SMT DEF RecordInv, TypeOK, InFlight, Underway
  <2>2. InFlight(t)' /\ AgentOf[t] = a
    BY <1>3, SMT DEF RecordInv, TypeOK, InFlight, Underway, a
  <2> QED BY <1>1, <2>1, <2>2, SMT DEF RecordInv, TypeOK, HonestRecord, Holder
<1> QED BY <1>4, <1>5, <1>6 DEF RecordInv

LEMMA EndsRecord ==
  ASSUME RecordInv, NEW t \in Turn, InFlight(t),
         NEW o \in {"completed", "cancelled", "failed"}, Ends(t, o)
  PROVE  RecordInv'
<1> DEFINE a == AgentOf[t]
<1>1. /\ a \in Agent
      /\ stage' = [stage EXCEPT ![t] = "done"]
      /\ outcome' = [outcome EXCEPT ![t] = o]
      /\ state' = [state EXCEPT ![a] = StateAfter(state[a], o)]
      /\ abortController' = [abortController EXCEPT ![a] = NoTurn]
      /\ currentTurnPromise' = [currentTurnPromise EXCEPT
                                  ![a] = IF currentTurnPromise[a] = t THEN NoTurn ELSE currentTurnPromise[a]]
      /\ UNCHANGED <<place, waitsOn, calls, loopCount, turnAborted, signalled>>
      /\ asked' \subseteq asked \cup {t}
  BY DEF Ends, Settle
<1>2. /\ StateAfter(state[a], o) \in {"idle", "errored", "recycled"}
      /\ StateAfter(state[a], o) = "recycled" <=> state[a] = "recycled"
  BY DEF StateAfter
<1> DEFINE s == StateAfter(state[a], o)
           p == IF currentTurnPromise[a] = t THEN NoTurn ELSE currentTurnPromise[a]
<1>p. p \in Turn \cup {NoTurn} /\ p # t /\ p \in {NoTurn, currentTurnPromise[a]}
  BY <1>1 DEF RecordInv, TypeOK
<1> HIDE DEF a, s, p
<1>3. TypeOK'
  BY <1>1, <1>2, <1>p, SMT DEF RecordInv, TypeOK, AgentState, Outcome, s, p
<1>4. Staged'
  BY <1>1, SMT DEF RecordInv, TypeOK, Staged, NoOutcome
<1>5. HonestRecord'
  <2>1. \A u \in Turn : u # t /\ InFlight(u) => InFlight(u)'
    BY <1>1, SMT DEF RecordInv, TypeOK, InFlight
  <2>2. AgentOf[t] = a
    BY DEF a
  <2>3. ASSUME NEW b \in Agent
        PROVE  HonestRecord!(b)'
    <3>1. CASE b = a
      BY <1>1, <1>2, <1>p, <2>1, <3>1, SMT
      DEF RecordInv, TypeOK, HonestRecord, Holder, Busy, Cancellable, s, p
    <3>2. CASE b # a
      <4>1. /\ state'[b] = state[b] /\ place'[b] = place[b]
            /\ currentTurnPromise'[b] = currentTurnPromise[b]
            /\ abortController'[b] = abortController[b]
        BY <1>1, <3>2, SMT DEF RecordInv, TypeOK
      <4>2. \A u \in Turn : AgentOf[u] = b => u # t
        BY <2>2, <3>2
      <4> QED BY <2>1, <4>1, <4>2, SMT DEF RecordInv, TypeOK, HonestRecord, Holder, Busy
    <3> QED BY <3>1, <3>2
  <2> QED BY <2>3 DEF HonestRecord
<1> QED BY <1>3, <1>4, <1>5 DEF RecordInv

LEMMA MovesRecord ==
  ASSUME RecordInv, NEW t \in Turn, InFlight(t), Moves(t)
  PROVE  RecordInv'
<1> DEFINE a == AgentOf[t]
<1>1. PICK next \in Underway, left \in 0..MaxCalls, loops \in 0..maxTurns :
        /\ Proceed(t, next, left, loops)
        /\ next = "precall" => loops = loopCount[t] /\ stage[t] = "precall"
        /\ \/ UNCHANGED state
           \/ \E new \in Cancellable :
                Valid(a, new) /\ state' = [state EXCEPT ![a] = new]
  BY DEF Moves
<1>2. PICK s \in AgentState :
        /\ state' = [state EXCEPT ![a] = s]
        /\ s = state[a] \/ (s \in Cancellable /\ state[a] # "recycled")
  <2>1. CASE UNCHANGED state
    BY <2>1 DEF RecordInv, TypeOK
  <2>2. CASE \E new \in Cancellable : Valid(a, new) /\ state' = [state EXCEPT ![a] = new]
    <3>1. PICK new \in Cancellable : Valid(a, new) /\ state' = [state EXCEPT ![a] = new]
      BY <2>2
    <3>2. new \in AgentState
      BY DEF Cancellable, AgentState
    <3>3. state[a] # "recycled"
      BY <3>1 DEF Valid, VALID_TRANSITIONS, Cancellable
    <3> QED BY <3>1, <3>2, <3>3
  <2> QED BY <1>1, <2>1, <2>2
<1>3. /\ stage' = [stage EXCEPT ![t] = next]
      /\ calls' = [calls EXCEPT ![t] = left]
      /\ loopCount' = [loopCount EXCEPT ![t] = loops]
      /\ UNCHANGED <<place, currentTurnPromise, abortController, waitsOn, outcome,
                     turnAborted, signalled, asked>>
  BY <1>1 DEF Proceed
<1>a. a \in Agent /\ AgentOf[t] = a
  OBVIOUS
<1> HIDE DEF a
<1>4. TypeOK'
  <2>1. stage' \in [Turn -> Underway \cup {"new", "deferred", "done"}]
    BY <1>3 DEF RecordInv, TypeOK
  <2>2. calls' \in [Turn -> 0..MaxCalls] /\ loopCount' \in [Turn -> 0..maxTurns]
    BY <1>3 DEF RecordInv, TypeOK
  <2>3. state' \in [Agent -> AgentState]
    BY <1>2 DEF RecordInv, TypeOK
  <2> QED BY <1>3, <2>1, <2>2, <2>3 DEF RecordInv, TypeOK
<1>5. Staged'
  <2>1. next \notin {"new", "deferred", "done"} /\ stage[t] # "done"
    BY DEF InFlight, Underway
  <2>2. next = "precall" => loops = 0
    BY <1>1 DEF RecordInv, Staged
  <2> QED BY <1>3, <2>1, <2>2, SMT DEF RecordInv, TypeOK, Staged
<1>6. HonestRecord'
  <2>1. \A u \in Turn : InFlight(u)' <=> InFlight(u)
    BY <1>3, SMT DEF RecordInv, TypeOK, InFlight
  <2> QED BY <1>2, <1>3, <1>a, <2>1, SMT
      DEF RecordInv, TypeOK, HonestRecord, Holder, Busy, Cancellable
<1> QED BY <1>4, <1>5, <1>6 DEF RecordInv

LEMMA SignalRecord ==
  ASSUME RecordInv, NEW t \in Turn, ExternalAbort(t)
  PROVE  RecordInv'
BY SMT DEF ExternalAbort, RecordInv, TypeOK, Staged, HonestRecord, agents, turns, InFlight, Holder

LEMMA MishapRecord ==
  ASSUME RecordInv, NEW a \in Agent, Mishap(a) \/ Rescue(a)
  PROVE  RecordInv'
<1>1. UNCHANGED <<turns, signalled>> /\ (Strikes(a) \/ UNCHANGED <<turnAborted, asked>>)
  BY MishapShape, RescueShape DEF RecordInv
<1>2. PICK s \in AgentState, pl \in {"active", "bin", "gone"},
           pr \in Turn \cup {NoTurn}, co \in Turn \cup {NoTurn} : Rewrites(a, s, pl, pr, co)
  BY MishapShape, RescueShape DEF RecordInv
<1>3. UNCHANGED <<stage, waitsOn, calls, loopCount, outcome, signalled>>
  BY <1>1 DEF turns
<1>4. turnAborted' \subseteq Turn /\ asked' \subseteq Turn
  BY <1>1, SMT DEF Strikes, Abort, Ask, Holder, RecordInv, TypeOK
<1>5. TypeOK'
  BY <1>2, <1>3, <1>4, SMT DEF RecordInv, TypeOK, Rewrites
<1>6. Staged'
  BY <1>3, SMT DEF RecordInv, Staged
<1>7. HonestRecord'
  <2>1. \A u \in Turn : InFlight(u)' <=> InFlight(u)
    BY <1>3 DEF InFlight
  <2> QED BY <1>2, <1>3, <2>1, SMT DEF RecordInv, TypeOK, HonestRecord, Holder, Rewrites
<1> QED BY <1>5, <1>6, <1>7 DEF RecordInv

LEMMA RecordStep == RecordInv /\ [Next]_vars => RecordInv'
<1> SUFFICES ASSUME RecordInv, [Next]_vars PROVE RecordInv'
  OBVIOUS
<1>1. CASE UNCHANGED vars
  BY <1>1, SMT DEF vars, agents, turns, RecordInv, TypeOK, Staged, HonestRecord, InFlight, Holder
<1>2. ASSUME NEW t \in Turn, ExecuteAgentTurn(t) \/ Resume(t)
      PROVE  RecordInv'
  <2>1. {"refused", "cancelled", "skipped", "failed"} \subseteq Outcome
    BY DEF Outcome
  <2> QED BY <1>2, <2>1, ServeShapes, AnswerRecord, DeferRecord, BeginRecord
<1>3. ASSUME NEW t \in Turn, Step(t)
      PROVE  RecordInv'
  <2>1. TypeOK /\ Staged
    BY DEF RecordInv
  <2> QED BY <1>3, <2>1, StepShapes, EndsRecord, MovesRecord
<1>4. ASSUME NEW t \in Turn, ExternalAbort(t)
      PROVE  RecordInv'
  BY <1>4, SignalRecord
<1>5. ASSUME NEW a \in Agent, Mishap(a) \/ Rescue(a)
      PROVE  RecordInv'
  BY <1>5, MishapRecord
<1> QED BY <1>1, <1>2, <1>3, <1>4, <1>5 DEF Next

\* The records of agents are honest in every state, whatever is done to them,
\* unstick and restore included.
THEOREM RecordInvariance == Spec => []RecordInv
<1> QED BY InitRecord, RecordStep, PTL DEF Spec

\* When no turn of an agent is under way nothing of one is left on its record:
\* unstickAgent is never needed to free an agent whose turns have ended.
THEOREM NobodyIsStranded == Spec => []NothingStranded
<1>1. RecordInv => NothingStranded
  BY SMT DEF RecordInv, TypeOK, HonestRecord, NothingStranded, Holder, Busy, Cancellable, AgentState
<1> QED BY <1>1, RecordInvariance, PTL

-----------------------------------------------------------------------------
(* The turns, until somebody unsticks or restores an agent                 *)

\* Serial, and what it needs to be inductive: who is stopped has begun.
CalmInv == Serial /\ \A t \in turnAborted : stage[t] \notin {"new", "deferred"}

LEMMA InitCalm == Init => CalmInv
<1>1. Init => OneTurnPerAgent /\ LiveTurnOwnsAgent /\ StopsArrive /\ StopIsObeyed
              /\ CancelledForAReason
  BY SMT DEF Init, OneTurnPerAgent, LiveTurnOwnsAgent, StopsArrive, StopIsObeyed,
     CancelledForAReason, InFlight, Underway, NoOutcome
<1>2. Init => \A t \in turnAborted : stage[t] \notin {"new", "deferred"}
  BY DEF Init
<1> QED BY <1>1, <1>2, InitRecord DEF CalmInv, Serial

\* What the record says of a turn under way: the controller is its own or
\* nobody's, so that it is stopped just when it was aborted itself, and until
\* then its agent reads running or waiting.
LEMMA OwnTurn ==
  ASSUME CalmInv, NEW t \in Turn, InFlight(t)
  PROVE  /\ Stopped(t) <=> t \in turnAborted
         /\ abortController[AgentOf[t]] \in {t, NoTurn}
         /\ state[AgentOf[t]] = "canceling" => t \in turnAborted
         /\ t \notin turnAborted => state[AgentOf[t]] \in Cancellable
         /\ t \in asked => t \in turnAborted
<1>1. AgentOf[t] \in Agent
  OBVIOUS
<1>2. abortController[AgentOf[t]] \in {t, NoTurn}
  BY <1>1, SMT DEF CalmInv, Serial, RecordInv, TypeOK, HonestRecord, OneTurnPerAgent, InFlight
<1>3. turnAborted \subseteq Turn
  BY DEF CalmInv, Serial, RecordInv, TypeOK
<1>4. t \notin turnAborted => state[AgentOf[t]] \in Cancellable
  BY DEF CalmInv, Serial, LiveTurnOwnsAgent
<1>5. t \in asked => t \in turnAborted
  BY DEF CalmInv, Serial, StopsArrive, InFlight, Underway
<1> QED BY <1>2, <1>3, <1>4, <1>5 DEF Stopped, Cancellable

\* An agent that is free has no turn under way, and could start one.
LEMMA FreeAgent ==
  ASSUME CalmInv, NEW a \in Agent, Alive(a), currentTurnPromise[a] = NoTurn
  PROVE  /\ \A t \in Turn : AgentOf[t] = a => ~InFlight(t)
         /\ Valid(a, "running")
<1>1. \A t \in Turn : AgentOf[t] = a => ~InFlight(t)
  BY SMT DEF CalmInv, Serial, LiveTurnOwnsAgent, Alive
<1>2. state[a] \in {"idle", "errored"}
  BY <1>1, SMT DEF CalmInv, Serial, RecordInv, TypeOK, HonestRecord, AgentState, Busy, Cancellable,
     Alive
<1>3. Valid(a, "running")
  BY <1>2 DEF Valid, VALID_TRANSITIONS, AgentState
<1> QED BY <1>1, <1>3

LEMMA AnswerCalm ==
  ASSUME CalmInv, NEW t \in Turn, NEW o \in Outcome, Answer(t, o), o # "completed",
         o = "cancelled" => t \in signalled, stage[t] \in {"new", "deferred"}
  PROVE  CalmInv'
<1>1. RecordInv'
  BY AnswerRecord DEF CalmInv, Serial
<1>2. /\ \A u \in Turn : InFlight(u)' <=> InFlight(u)
      /\ \A u \in Turn : u # t => stage'[u] = stage[u] /\ outcome'[u] = outcome[u]
      /\ stage'[t] = "done" /\ outcome'[t] = o
      /\ UNCHANGED <<state, place, currentTurnPromise, abortController, turnAborted, signalled,
                     asked>>
  BY SMT DEF CalmInv, Serial, RecordInv, TypeOK, Answer, agents, InFlight, Underway
<1>3. OneTurnPerAgent' /\ LiveTurnOwnsAgent' /\ StopsArrive'
  BY <1>2, SMT
  DEF CalmInv, Serial, RecordInv, TypeOK, OneTurnPerAgent, LiveTurnOwnsAgent, StopsArrive
<1>4. StopIsObeyed' /\ CancelledForAReason'
  BY <1>2, SMT DEF CalmInv, Serial, RecordInv, TypeOK, StopIsObeyed, CancelledForAReason
<1>5. \A u \in turnAborted' : stage'[u] \notin {"new", "deferred"}
  BY <1>2, SMT DEF CalmInv, Serial, RecordInv, TypeOK
<1> QED BY <1>1, <1>3, <1>4, <1>5 DEF CalmInv, Serial

LEMMA DeferCalm ==
  ASSUME CalmInv, NEW t \in Turn, Defer(t), currentTurnPromise[AgentOf[t]] # NoTurn,
         stage[t] \in {"new", "deferred"}
  PROVE  CalmInv'
<1>1. RecordInv'
  BY DeferRecord DEF CalmInv, Serial
<1>2. /\ \A u \in Turn : InFlight(u)' <=> InFlight(u)
      /\ \A u \in Turn : stage'[u] = "done" <=> stage[u] = "done"
      /\ \A u \in Turn : u # t => stage'[u] = stage[u]
      /\ UNCHANGED <<state, place, currentTurnPromise, abortController, turnAborted, signalled,
                     asked, outcome>>
  BY SMT DEF CalmInv, Serial, RecordInv, TypeOK, Defer, agents, InFlight, Underway
<1>3. OneTurnPerAgent' /\ LiveTurnOwnsAgent' /\ StopsArrive'
  BY <1>2, SMT
  DEF CalmInv, Serial, RecordInv, TypeOK, OneTurnPerAgent, LiveTurnOwnsAgent, StopsArrive
<1>4. StopIsObeyed' /\ CancelledForAReason'
  BY <1>2, SMT DEF CalmInv, Serial, StopIsObeyed, CancelledForAReason
<1>5. \A u \in turnAborted' : stage'[u] \notin {"new", "deferred"}
  BY <1>2, SMT DEF CalmInv, Serial, RecordInv, TypeOK
<1> QED BY <1>1, <1>3, <1>4, <1>5 DEF CalmInv, Serial

LEMMA BeginCalm ==
  ASSUME CalmInv, NEW t \in Turn, Begin(t), Alive(AgentOf[t]),
         currentTurnPromise[AgentOf[t]] = NoTurn, stage[t] \in {"new", "deferred"}
  PROVE  CalmInv'
<1> DEFINE a == AgentOf[t]
<1>1. RecordInv'
  BY BeginRecord DEF CalmInv, Serial
<1>2. /\ state' = [state EXCEPT ![a] = "running"]
      /\ currentTurnPromise' = [currentTurnPromise EXCEPT ![a] = t]
      /\ abortController' = [abortController EXCEPT ![a] = t]
      /\ UNCHANGED <<place, outcome, turnAborted, signalled, asked>>
      /\ place[a] = "active" /\ a \in Agent
  BY DEF Begin, Alive
<1>3. /\ stage'[t] \in {"model", "precall"}
      /\ \A u \in Turn : u # t => stage'[u] = stage[u]
  BY SMT DEF Begin, CalmInv, Serial, RecordInv, TypeOK
<1>4. /\ \A u \in Turn : u # t => (InFlight(u)' <=> InFlight(u))
      /\ \A u \in Turn : stage'[u] = "done" <=> stage[u] = "done"
  BY <1>3, SMT DEF InFlight, Underway
<1>5. \A u \in Turn : AgentOf[u] = a => ~InFlight(u)
  BY <1>2, FreeAgent
<1>6. t \notin turnAborted
  BY DEF CalmInv
<1>a. AgentOf[t] = a
  OBVIOUS
<1> HIDE DEF a
<1>7. OneTurnPerAgent'
  BY <1>4, <1>5, <1>a, SMT DEF CalmInv, Serial, OneTurnPerAgent
<1>8. LiveTurnOwnsAgent'
  BY <1>2, <1>4, <1>5, <1>a, SMT
  DEF CalmInv, Serial, RecordInv, TypeOK, LiveTurnOwnsAgent, Cancellable
<1>9. StopsArrive' /\ StopIsObeyed' /\ CancelledForAReason'
  BY <1>2, <1>4, <1>6, SMT
  DEF CalmInv, Serial, RecordInv, TypeOK, StopsArrive, StopIsObeyed, CancelledForAReason
<1>10. \A u \in turnAborted' : stage'[u] \notin {"new", "deferred"}
  BY <1>2, <1>3, SMT DEF CalmInv, Serial, RecordInv, TypeOK
<1> QED BY <1>1, <1>7, <1>8, <1>9, <1>10 DEF CalmInv, Serial

LEMMA EndsCalm ==
  ASSUME CalmInv, NEW t \in Turn, InFlight(t),
         NEW o \in {"completed", "cancelled", "failed"}, Ends(t, o)
  PROVE  CalmInv'
<1> DEFINE a == AgentOf[t]
<1>1. RecordInv'
  BY EndsRecord DEF CalmInv, Serial
<1>2. /\ stage'[t] = "done" /\ outcome'[t] = o
      /\ \A u \in Turn : u # t => stage'[u] = stage[u] /\ outcome'[u] = outcome[u]
      /\ \A b \in Agent : b # a =>
           /\ state'[b] = state[b] /\ abortController'[b] = abortController[b]
           /\ currentTurnPromise'[b] = currentTurnPromise[b]
      /\ UNCHANGED <<place, turnAborted, signalled>>
      /\ asked \subseteq asked' /\ asked' \subseteq asked \cup {t}
  BY SMT DEF Ends, Settle, CalmInv, Serial, RecordInv, TypeOK
<1>3. ~InFlight(t)' /\ \A u \in Turn : u # t => (InFlight(u)' <=> InFlight(u))
  BY <1>2, SMT DEF InFlight, Underway
<1>4. \A u \in Turn : InFlight(u) /\ u # t => AgentOf[u] # a
  BY SMT DEF CalmInv, Serial, OneTurnPerAgent
<1>5. o = "completed" => t \notin asked'
  BY OwnTurn DEF Ends
<1>6. o = "cancelled" => t \in asked' \cup signalled
  BY OwnTurn DEF Ends, CalmInv, Serial, StopsArrive
<1> HIDE DEF a
<1>7. OneTurnPerAgent'
  BY <1>3, SMT DEF CalmInv, Serial, OneTurnPerAgent
<1>8. LiveTurnOwnsAgent'
  BY <1>2, <1>3, <1>4, SMT DEF CalmInv, Serial, LiveTurnOwnsAgent
<1>9. StopsArrive'
  BY <1>2, <1>3, SMT DEF CalmInv, Serial, StopsArrive, RecordInv, TypeOK
<1>10. StopIsObeyed' /\ CancelledForAReason'
  BY <1>2, <1>5, <1>6, SMT DEF CalmInv, Serial, StopIsObeyed, CancelledForAReason, RecordInv, TypeOK
<1>11. \A u \in turnAborted' : stage'[u] \notin {"new", "deferred"}
  BY <1>2, SMT DEF CalmInv, Serial, RecordInv, TypeOK
<1> QED BY <1>1, <1>7, <1>8, <1>9, <1>10, <1>11 DEF CalmInv, Serial

LEMMA MovesCalm ==
  ASSUME CalmInv, NEW t \in Turn, InFlight(t), Moves(t)
  PROVE  CalmInv'
<1> DEFINE a == AgentOf[t]
<1>1. RecordInv'
  BY MovesRecord DEF CalmInv, Serial
<1>2. /\ \A u \in Turn : InFlight(u)' <=> InFlight(u)
      /\ \A u \in Turn : u # t => stage'[u] = stage[u]
      /\ stage'[t] \in Underway
      /\ UNCHANGED <<place, currentTurnPromise, abortController, outcome, turnAborted, signalled,
                     asked>>
  BY SMT DEF Moves, Proceed, CalmInv, Serial, RecordInv, TypeOK, InFlight
<1>3. \A b \in Agent : state'[b] = state[b] \/ state'[b] \in Cancellable
  BY SMT DEF Moves, CalmInv, Serial, RecordInv, TypeOK
<1>4. OneTurnPerAgent'
  BY <1>2, SMT DEF CalmInv, Serial, OneTurnPerAgent
<1>5. LiveTurnOwnsAgent'
  BY <1>2, <1>3, SMT DEF CalmInv, Serial, LiveTurnOwnsAgent
<1>6. \A u \in Turn : stage'[u] = "done" <=> stage[u] = "done"
  BY <1>2 DEF InFlight, Underway
<1>7. StopsArrive' /\ StopIsObeyed' /\ CancelledForAReason'
  BY <1>2, <1>6, SMT
  DEF CalmInv, Serial, RecordInv, TypeOK, StopsArrive, StopIsObeyed, CancelledForAReason
<1>8. \A u \in turnAborted' : stage'[u] \notin {"new", "deferred"}
  BY <1>2, SMT DEF CalmInv, Serial, RecordInv, TypeOK, Underway
<1> QED BY <1>1, <1>4, <1>5, <1>7, <1>8 DEF CalmInv, Serial

LEMMA SignalCalm ==
  ASSUME CalmInv, NEW t \in Turn, ExternalAbort(t)
  PROVE  CalmInv'
<1>1. RecordInv'
  BY SignalRecord DEF CalmInv, Serial
<1>2. /\ UNCHANGED <<state, place, currentTurnPromise, abortController, stage, outcome, asked>>
      /\ signalled' = signalled \cup {t}
  BY DEF ExternalAbort, agents, turns
<1>3. turnAborted' = turnAborted \/ (InFlight(t) /\ turnAborted' = turnAborted \cup {t})
  BY OwnTurn, SMT DEF ExternalAbort
<1>4. OneTurnPerAgent' /\ LiveTurnOwnsAgent'
  BY <1>2, <1>3, SMT DEF CalmInv, Serial, OneTurnPerAgent, LiveTurnOwnsAgent, InFlight
<1>5. StopsArrive' /\ StopIsObeyed' /\ CancelledForAReason'
  BY <1>2, <1>3, SMT
  DEF CalmInv, Serial, StopsArrive, StopIsObeyed, CancelledForAReason, InFlight
<1>6. \A u \in turnAborted' : stage'[u] \notin {"new", "deferred"}
  BY <1>2, <1>3, SMT DEF CalmInv, InFlight, Underway
<1> QED BY <1>1, <1>4, <1>5, <1>6 DEF CalmInv, Serial

LEMMA MishapCalm ==
  ASSUME CalmInv, NEW a \in Agent, Mishap(a)
  PROVE  CalmInv'
<1>t. TypeOK /\ HonestRecord
  BY DEF CalmInv, Serial, RecordInv
<1>1. RecordInv'
  BY MishapRecord DEF CalmInv, Serial
<1>2. /\ UNCHANGED <<stage, outcome, signalled>>
      /\ Abort(a) /\ Ask(a)
  BY <1>t, MishapShape DEF Strikes, turns
<1>3. PICK s \in AgentState, pl \in {"active", "bin", "gone"},
           pr \in Turn \cup {NoTurn}, co \in Turn \cup {NoTurn} :
        Rewrites(a, s, pl, pr, co) /\ Keeps(a, pl, pr, co)
  BY <1>t, MishapShape
<1>4. /\ \A b \in Agent : b # a =>
           /\ state'[b] = state[b] /\ place'[b] = place[b]
           /\ abortController'[b] = abortController[b]
           /\ currentTurnPromise'[b] = currentTurnPromise[b]
      /\ place'[a] = "active" =>
           place[a] = "active" /\ currentTurnPromise'[a] = currentTurnPromise[a]
  BY <1>3, <1>t, SMT DEF Rewrites, Keeps, TypeOK
<1>5. \A u \in Turn : InFlight(u)' <=> InFlight(u)
  BY <1>2 DEF InFlight
\* Whom the mishap hits is a turn of the agent, and afterwards it is stopped.
<1>6. ASSUME NEW u \in Turn, InFlight(u), AgentOf[u] = a
      PROVE  u \in turnAborted'
  BY <1>2, <1>6, SMT DEF CalmInv, Serial, LiveTurnOwnsAgent, Abort
<1>7. ASSUME NEW u \in Turn, u \in turnAborted', u \notin turnAborted
      PROVE  InFlight(u) /\ AgentOf[u] = a /\ u \in asked'
  <2>1. u = abortController[a] /\ InFlight(u) /\ AgentOf[u] = a
    BY <1>2, <1>7, <1>t, SMT DEF Abort, HonestRecord
  <2>2. place[a] = "active"
    BY <1>7, <2>1 DEF CalmInv, Serial, LiveTurnOwnsAgent
  <2>3. currentTurnPromise[a] = u
    BY <2>1, <2>2 DEF CalmInv, Serial, LiveTurnOwnsAgent
  <2> QED BY <1>2, <2>1, <2>3 DEF Ask, Holder
<1>8. ASSUME NEW u \in Turn, u \in asked', u \notin asked
      PROVE  InFlight(u) /\ AgentOf[u] = a
  BY <1>2, <1>8, <1>t, SMT DEF Ask, Holder, HonestRecord
<1>9. turnAborted \subseteq turnAborted' /\ turnAborted' \subseteq Turn
      /\ asked \subseteq asked' /\ asked' \subseteq Turn
  BY <1>1, <1>2 DEF Abort, Ask, RecordInv, TypeOK
<1>10. OneTurnPerAgent'
  BY <1>5, SMT DEF CalmInv, Serial, OneTurnPerAgent
<1>11. LiveTurnOwnsAgent'
  <2> SUFFICES ASSUME NEW u \in Turn, InFlight(u)' PROVE LiveTurnOwnsAgent!(u)!2'
    BY DEF LiveTurnOwnsAgent
  <2>1. InFlight(u) /\ AgentOf[u] \in Agent
    BY <1>5
  <2>2. CASE AgentOf[u] = a
    BY <1>4, <1>6, <2>1, <2>2 DEF CalmInv, Serial, LiveTurnOwnsAgent
  <2>3. CASE AgentOf[u] # a
    BY <1>4, <1>9, <2>1, <2>3, SMT DEF CalmInv, Serial, LiveTurnOwnsAgent
  <2> QED BY <2>2, <2>3
<1>12. StopsArrive'
  <2>1. \A u \in asked' : u \in turnAborted' \/ stage'[u] = "done"
    BY <1>2, <1>6, <1>8, <1>9 DEF CalmInv, Serial, StopsArrive
  <2>2. \A u \in Turn : InFlight(u)' /\ u \in turnAborted' => u \in asked' \cup signalled'
    BY <1>2, <1>5, <1>7, <1>9 DEF CalmInv, Serial, StopsArrive
  <2> QED BY <2>1, <2>2 DEF StopsArrive
<1>13. StopIsObeyed'
  <2>1. \A u \in Turn : InFlight(u) => outcome[u] # "completed"
    BY DEF CalmInv, Serial, RecordInv, Staged, InFlight, Underway, NoOutcome
  <2> QED BY <1>2, <1>8, <1>9, <2>1 DEF CalmInv, Serial, StopIsObeyed
<1>14. CancelledForAReason'
  BY <1>2, <1>9 DEF CalmInv, Serial, CancelledForAReason
<1>15. \A u \in turnAborted' : stage'[u] \notin {"new", "deferred"}
  BY <1>2, <1>7, <1>9 DEF CalmInv, InFlight, Underway
<1> QED BY <1>1, <1>10, <1>11, <1>12, <1>13, <1>14, <1>15 DEF CalmInv, Serial

LEMMA CalmStep ==
  ASSUME CalmInv, [Next]_vars, \A a \in Agent : ~Rescue(a)
  PROVE  CalmInv'
<1>1. CASE UNCHANGED vars
  <2>1. RecordInv'
    BY RecordStep DEF CalmInv, Serial
  <2> QED BY <1>1, <2>1, SMT DEF vars, agents, turns, CalmInv, Serial, OneTurnPerAgent,
          LiveTurnOwnsAgent, StopsArrive, StopIsObeyed, CancelledForAReason, InFlight
<1>2. ASSUME NEW t \in Turn, ExecuteAgentTurn(t) \/ Resume(t)
      PROVE  CalmInv'
  <2>1. {"refused", "cancelled", "skipped", "failed"} \subseteq Outcome
    BY DEF Outcome
  <2> QED BY <1>2, <2>1, ServeShapes, AnswerCalm, DeferCalm, BeginCalm
<1>3. ASSUME NEW t \in Turn, Step(t)
      PROVE  CalmInv'
  <2>1. TypeOK /\ Staged
    BY DEF CalmInv, Serial, RecordInv
  <2> QED BY <1>3, <2>1, StepShapes, EndsCalm, MovesCalm
<1>4. ASSUME NEW t \in Turn, ExternalAbort(t)
      PROVE  CalmInv'
  BY <1>4, SignalCalm
<1>5. ASSUME NEW a \in Agent, Mishap(a)
      PROVE  CalmInv'
  BY <1>5, MishapCalm
<1> QED BY <1>1, <1>2, <1>3, <1>4, <1>5 DEF Next

\* A rescue is counted and the count never falls, so that what is calm now was
\* calm all along.
RescueInv ==
  /\ RecordInv
  /\ rescues \in 0..MaxRescues
  /\ rescues = 0 => CalmInv

\* Until somebody unsticks or restores an agent the engine keeps what it promises:
\* one turn per agent, which owns the record until it is stopped, and stops that
\* arrive, are obeyed and hit nobody else.
THEOREM TurnInvariance == Spec => []RescueInv
<1>1. Init => RescueInv
  BY InitRecord, InitCalm, SMT DEF Init, RescueInv
<1>2. RescueInv /\ [Next]_vars => RescueInv'
  <2> SUFFICES ASSUME RescueInv, [Next]_vars PROVE RescueInv'
    OBVIOUS
  <2>1. RecordInv'
    BY RecordStep DEF RescueInv
  <2>2. CASE \E a \in Agent : Rescue(a)
    <3>1. rescues' = rescues + 1 /\ rescues < MaxRescues
      BY <2>2 DEF Rescue
    <3>2. rescues' \in 0..MaxRescues /\ rescues' # 0
      BY <3>1, SMT DEF RescueInv
    <3> QED BY <2>1, <3>2 DEF RescueInv
  <2>3. CASE ~\E a \in Agent : Rescue(a)
    <3>1. UNCHANGED rescues
      BY <2>3 DEF Next, vars
    <3> QED BY <2>1, <2>3, <3>1, CalmStep DEF RescueInv
  <2> QED BY <2>2, <2>3
<1> QED BY <1>1, <1>2, PTL DEF Spec

\* What the run checks of it.
THEOREM TurnsAreSerial == Spec => []TInv
<1>1. RescueInv /\ NothingStranded => TInv
  BY DEF RescueInv, CalmInv, TInv
<1> QED BY <1>1, TurnInvariance, NobodyIsStranded, PTL

\* At most one turn of an agent is under way.
THEOREM OneTurnAtATime == Spec => [](rescues = 0 => OneTurnPerAgent)
<1>1. RescueInv => (rescues = 0 => OneTurnPerAgent)
  BY DEF RescueInv, CalmInv, Serial
<1> QED BY <1>1, TurnInvariance, PTL

\* A turn that was asked to stop does not complete.
THEOREM StopsAreObeyed == Spec => [](rescues = 0 => StopIsObeyed)
<1>1. RescueInv => (rescues = 0 => StopIsObeyed)
  BY DEF RescueInv, CalmInv, Serial
<1> QED BY <1>1, TurnInvariance, PTL

\* A turn that is cancelled was stopped on its own account.
THEOREM CancelsHaveReasons == Spec => [](rescues = 0 => CancelledForAReason)
<1>1. RescueInv => (rescues = 0 => CancelledForAReason)
  BY DEF RescueInv, CalmInv, Serial
<1> QED BY <1>1, TurnInvariance, PTL

\* Only a turn that moves on enters a stage, and it was not asked to stop.
LEMMA NoWorkStep ==
  ASSUME RescueInv, rescues = 0, [Next]_vars, NEW u \in Turn, u \in asked,
         stage'[u] \in {"model", "tool"}
  PROVE  UNCHANGED <<stage[u], calls[u], loopCount[u]>>
<1>c. CalmInv
  BY DEF RescueInv
<1>t. TypeOK /\ Staged /\ stage[u] \notin {"new", "deferred"}
  BY <1>c DEF CalmInv, Serial, RecordInv, StopsArrive
<1>1. CASE UNCHANGED vars
  BY <1>1 DEF vars, turns
<1>2. ASSUME NEW t \in Turn, ExecuteAgentTurn(t) \/ Resume(t)
      PROVE  UNCHANGED <<stage[u], calls[u], loopCount[u]>>
  <2>1. t # u
    BY <1>2, <1>t, ServeShapes
  <2>2. \/ \E o \in Outcome : Answer(t, o)
        \/ Defer(t)
        \/ Begin(t)
    <3>1. {"refused", "cancelled", "skipped", "failed"} \subseteq Outcome
      BY DEF Outcome
    <3> QED BY <1>2, <3>1, ServeShapes
  <2> QED BY <1>t, <2>1, <2>2, SMT DEF Answer, Defer, Begin, TypeOK
<1>3. ASSUME NEW t \in Turn, Step(t)
      PROVE  UNCHANGED <<stage[u], calls[u], loopCount[u]>>
  <2>1. InFlight(t)
    BY <1>3, <1>t, StepShapes
  <2>2. CASE Moves(t)
    <3>1. PICK next \in Underway, left \in 0..MaxCalls, loops \in 0..maxTurns :
            Proceed(t, next, left, loops) /\ (~Stopped(t) \/ next = "precall")
      BY <2>2 DEF Moves
    <3>2. stage'[t] = next
      BY <1>t, <3>1 DEF Proceed, TypeOK
    <3>3. t # u
      BY <1>c, <2>1, <3>1, <3>2, OwnTurn
    <3> QED BY <1>t, <3>1, <3>3, SMT DEF Proceed, TypeOK
  <2>3. CASE \E o \in {"completed", "cancelled", "failed"} : Ends(t, o)
    BY <1>t, <2>3, SMT DEF Ends, Settle, TypeOK
  <2> QED BY <1>3, <1>t, <2>2, <2>3, StepShapes
<1>4. ASSUME NEW t \in Turn, ExternalAbort(t)
      PROVE  UNCHANGED <<stage[u], calls[u], loopCount[u]>>
  BY <1>4 DEF ExternalAbort, turns
<1>5. ASSUME NEW a \in Agent, Mishap(a) \/ Rescue(a)
      PROVE  UNCHANGED <<stage[u], calls[u], loopCount[u]>>
  BY <1>5, <1>t, MishapShape, RescueShape DEF turns
<1> QED BY <1>1, <1>2, <1>3, <1>4, <1>5 DEF Next

\* A turn that was asked to stop makes no further model or tool call.
THEOREM StopEndsTheWork == Spec => NoWorkAfterStop
<1> DEFINE Rests == rescues = 0 => \A t \in asked : stage'[t] \in {"model", "tool"} =>
                      UNCHANGED <<stage[t], calls[t], loopCount[t]>>
<1>1. RescueInv /\ [Next]_vars => [Rests]_vars
  <2>1. RescueInv => asked \subseteq Turn
    BY DEF RescueInv, RecordInv, TypeOK
  <2> QED BY <2>1, NoWorkStep
<1> QED BY <1>1, TurnInvariance, PTL DEF Spec, NoWorkAfterStop

\* A failed turn was not stopped, so its agent was running or waiting, from
\* which the table leads to errored; and no call fails to start.
LEMMA FailureStep ==
  ASSUME RescueInv, rescues = 0, [Next]_vars, NEW u \in Turn,
         outcome'[u] = "failed", outcome[u] # "failed"
  PROVE  state'[AgentOf[u]] \in {"errored", "recycled"}
<1>c. CalmInv
  BY DEF RescueInv
<1>t. TypeOK /\ Staged
  BY DEF RescueInv, RecordInv
<1>1. CASE UNCHANGED vars
  BY <1>1 DEF vars, turns
<1>2. ASSUME NEW t \in Turn, ExecuteAgentTurn(t) \/ Resume(t)
      PROVE  FALSE
  <2>1. ~(/\ Alive(AgentOf[t]) /\ currentTurnPromise[AgentOf[t]] = NoTurn
          /\ ~Valid(AgentOf[t], "running"))
    BY <1>c, FreeAgent
  <2>2. \/ \E o \in Outcome \ {"failed"} : Answer(t, o)
        \/ Defer(t)
        \/ Begin(t)
    <3>1. {"refused", "cancelled", "skipped"} \subseteq Outcome \ {"failed"}
      BY DEF Outcome
    <3> QED BY <1>2, <2>1, <3>1, ServeShapes
  <2> QED BY <1>t, <2>2, SMT DEF Answer, Defer, Begin, TypeOK
<1>3. ASSUME NEW t \in Turn, Step(t)
      PROVE  state'[AgentOf[u]] \in {"errored", "recycled"}
  <2>1. CASE Moves(t)
    BY <2>1 DEF Moves, Proceed
  <2>2. CASE \E o \in {"completed", "cancelled", "failed"} : Ends(t, o)
    <3>1. PICK o \in {"completed", "cancelled", "failed"} : Ends(t, o)
      BY <2>2
    <3>2. u = t /\ o = "failed"
      BY <1>t, <3>1, SMT DEF Ends, Settle, TypeOK
    <3>3. state[AgentOf[t]] \in Cancellable
      BY <1>3, <1>c, <1>t, <3>1, <3>2, StepShapes, OwnTurn DEF Ends
    <3>4. state'[AgentOf[t]] = StateAfter(state[AgentOf[t]], "failed")
      BY <1>t, <3>1, <3>2 DEF Ends, Settle, TypeOK
    <3> QED BY <3>2, <3>3, <3>4 DEF StateAfter, Cancellable
  <2> QED BY <1>3, <1>t, <2>1, <2>2, StepShapes
<1>4. ASSUME NEW t \in Turn, ExternalAbort(t)
      PROVE  FALSE
  BY <1>4 DEF ExternalAbort, turns
<1>5. ASSUME NEW a \in Agent, Mishap(a) \/ Rescue(a)
      PROVE  FALSE
  BY <1>5, <1>t, MishapShape, RescueShape DEF turns
<1> QED BY <1>1, <1>2, <1>3, <1>4, <1>5 DEF Next

\* A turn that fails leaves its agent errored.
THEOREM FailuresShow == Spec => FailureIsVisible
<1> DEFINE Shows == rescues = 0 =>
                      \A t \in Turn : outcome'[t] = "failed" /\ outcome[t] # "failed" =>
                        state'[AgentOf[t]] \in {"errored", "recycled"}
<1>1. RescueInv /\ [Next]_vars => [Shows]_vars
  BY FailureStep
<1> QED BY <1>1, TurnInvariance, PTL DEF Spec, FailureIsVisible
=============================================================================
