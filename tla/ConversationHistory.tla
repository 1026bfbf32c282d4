------------------------- MODULE ConversationHistory -------------------------
(***************************************************************************)
(* The conversation of one agent, and what rewrites it                     *)
(* (runtime/historyManager/index.ts, the messages that a turn adds in      *)
(* runtime/turnExecutionEngine/index.ts, and the payload that              *)
(* runtime/messageHygiene/formatMessages.ts makes of them).                *)
(*                                                                         *)
(* A turn adds the prompt, then what its precalls returned, and then, in   *)
(* each loop, an answer of the model and one response for each tool call   *)
(* the answer declares.  It waits for the precalls, the model and the      *)
(* tools; meanwhile the user undoes, redoes, deletes and retries, and the  *)
(* turn goes on with whatever it finds when it resumes.                    *)
(*                                                                         *)
(* A message is its role, its identity, the calls it declares, the call it *)
(* answers, the number of its prompt, and whether it has prose.  Mail that *)
(* a turn reads enters as precalls do; the closing summary of a batch of   *)
(* precalls, edits of a message, metadata and reasoning are left out.      *)
(* Turns come one at a time, as in TurnExecution without unstick.          *)
(*                                                                         *)
(* A definition whose name ends in _Fault is a seeded fault, as in         *)
(* TriggerQueue.                                                           *)
(***************************************************************************)
EXTENDS Integers, Sequences, FiniteSets, SequencesExt

CONSTANTS
  HasRoot,     \* does the agent have a system prompt?
  MaxPrompts,  \* bound: prompts the user submits
  Precalls,    \* prompts whose turn finds pending precalls
  MaxLoops,    \* config.maxTurns: calls of the model in one turn
  MaxCalls,    \* bound: tool calls in one answer
  MaxMinted,   \* bound: messages made before the model stops calling tools
  MaxOps       \* bound: cancels, undos, redos, deletions and retries

ASSUME HistoryAssumption ==
  /\ HasRoot \in BOOLEAN
  /\ MaxPrompts \in Nat /\ Precalls \subseteq 1..MaxPrompts
  /\ MaxLoops \in Nat \ {0} /\ MaxCalls \in Nat
  /\ MaxMinted \in Nat /\ MaxOps \in Nat

Prompt == 1..MaxPrompts
NoInput == 0          \* a turn without a prompt resumes what is there
AtTail == -1          \* a bundle without an insertionIndex

VARIABLES
  history,     \* agent.history
  redoStack,   \* agent.redoStack
  turnCount,   \* agent.turnCount
  interrupted, \* the input of agent.lastInterruptedTurn, or NoInput
  state,       \* agent.state
  queue,       \* inputs of the user turns that wait in the trigger queue
  turn,        \* the turn under way
  retries,     \* retryAgentTurn calls within their 50 ms
  asked,       \* prompts submitted so far
  minted,      \* messages made so far
  gone,        \* history: messages deleted, resent, or dropped with the redo stack
  disturbed,   \* history: what a turn counts on was deleted, or a redo found another
               \* conversation than its undo left
  ops          \* history: operations so far

record == <<history, redoStack, turnCount, interrupted>>
traces == <<gone, disturbed>>
vars == <<record, state, queue, turn, retries, asked, minted, traces, ops>>

-----------------------------------------------------------------------------
(* Messages                                                                *)

NoCall == <<0, 0>>
Message(id, role) ==
  [id |-> id, role |-> role, calls |-> <<>>, call |-> NoCall, prompt |-> NoInput, prose |-> FALSE]

User(id, p)       == [Message(id, "user") EXCEPT !.prompt = p]
Answer(id)        == [Message(id, "assistant") EXCEPT !.prose = TRUE]
Calling(id, n)    == [Message(id, "assistant") EXCEPT !.calls = [k \in 1..n |-> <<id, k>>]]
Response(id, c)   == [Message(id, "tool") EXCEPT !.call = c]

Is(m, role)  == m.role = role
Declares(m)  == m.calls # <<>>
Places(h, role) == {i \in DOMAIN h : Is(h[i], role)}
Ids(h)       == {h[i].id : i \in DOMAIN h}
Bundled      == UNION {Ids(redoStack[i].popped) : i \in DOMAIN redoStack}
IdsOf(h)     == [i \in DOMAIN h |-> h[i].id]
Seen         == <<IdsOf(history), turnCount>>
Upto(h, n)   == SubSeq(h, 1, n)
From(h, n)   == SubSeq(h, n, Len(h))

\* The sequence h without what is at the places in S: the n-th of the places that
\* are left is the one with n of them up to it.
Rank(K, k)    == Cardinality({j \in K : j =< k})
Place(K, n)   == CHOOSE k \in K : Rank(K, k) = n
Without(h, S) == LET K == DOMAIN h \ S IN [n \in 1..Cardinality(K) |-> h[Place(K, n)]]

NoTurn == [phase |-> "none", input |-> NoInput, msg |-> 0, calls |-> <<>>, at |-> 0,
           call |-> NoCall, loops |-> 0, aborted |-> FALSE]

Init ==
  /\ history = IF HasRoot THEN <<Message(1, "system")>> ELSE <<>>
  /\ minted = Len(history)
  /\ redoStack = <<>> /\ queue = <<>> /\ retries = <<>>
  /\ turnCount = 0 /\ asked = 0 /\ ops = 0
  /\ interrupted = NoInput
  /\ state = "idle"
  /\ turn = NoTurn
  /\ gone = {}
  /\ disturbed = FALSE

-----------------------------------------------------------------------------
(* The payload of a call of the model                                      *)

Answered(h) == {h[i].call : i \in Places(h, "tool")}

\* An answer with one answered call keeps them all.
KeepsCalls_Fault(h, i) ==
  Declares(h[i]) /\ (Len(h) = 1 \/ Range(h[i].calls) \cap Answered(h) # {})

\* An answer keeps its calls when each of them is answered somewhere, or when
\* it is all there is.
KeepsCalls(h, i) ==
  Declares(h[i]) /\ (Len(h) = 1 \/ Range(h[i].calls) \subseteq Answered(h))

\* A response is kept when the answer before it, with nothing but responses in
\* between, has kept the call and it is the first to answer it; or when there
\* is no answer at all.
KeepsResponse(h, i) ==
  \/ \A j \in DOMAIN h : ~Is(h[j], "assistant")
  \/ \E j \in 1..(i - 1) :
       /\ Is(h[j], "assistant") /\ KeepsCalls(h, j) /\ h[i].call \in Range(h[j].calls)
       /\ \A k \in (j + 1)..(i - 1) : Is(h[k], "tool") /\ h[k].call # h[i].call

Formatted(h) ==
  LET shown == [i \in DOMAIN h |->
                  IF KeepsCalls(h, i) THEN h[i] ELSE [h[i] EXCEPT !.calls = <<>>]]
  IN  Without(shown, {i \in Places(h, "tool") : ~KeepsResponse(h, i)})

-----------------------------------------------------------------------------
(* A turn                                                                  *)

\* A retry under way is not alone with its turn any more.
Spoiled == [i \in DOMAIN retries |-> [retries[i] EXCEPT !.own = FALSE]]

Say(ms) == history' = history \o ms /\ minted' = minted + Len(ms)

Submit ==
  /\ asked < MaxPrompts
  /\ asked' = asked + 1
  /\ queue' = Append(queue, asked + 1)
  /\ UNCHANGED <<record, state, turn, retries, minted, traces, ops>>

\* The loop calls the model with what the history holds now.
Send(t) == turn' = [t EXCEPT !.phase = "model", !.loops = @ + 1]

\* The redo stack is dropped and the prompt is added, before any precalls.
StartTurn ==
  /\ turn.phase = "none" /\ queue # <<>>
  /\ LET new == [NoTurn EXCEPT !.input = Head(queue)]
     IN  /\ Say(IF new.input = NoInput THEN <<>> ELSE <<User(minted + 1, new.input)>>)
         /\ IF new.input \in Precalls THEN turn' = [new EXCEPT !.phase = "precalls"] ELSE Send(new)
  /\ queue' = Tail(queue)
  /\ redoStack' = <<>>
  /\ gone' = gone \cup Bundled
  /\ state' = "running"
  /\ retries' = Spoiled
  /\ UNCHANGED <<turnCount, interrupted, asked, disturbed, ops>>

Cancelled ==
  /\ state' = "idle"
  /\ interrupted' = turn.input
  /\ turn' = NoTurn
  /\ UNCHANGED turnCount

Completed ==
  /\ state' = "idle"
  /\ interrupted' = NoInput
  /\ turn' = NoTurn
  /\ turnCount' = turnCount + 1

Errored ==
  /\ state' = "errored"
  /\ turn' = NoTurn
  /\ UNCHANGED <<interrupted, turnCount>>

\* What the precalls returned is added whether or not the turn was stopped
\* meanwhile.
PrecallsReturn ==
  /\ turn.phase = "precalls"
  /\ LET ast == Calling(minted + 1, 1)
     IN  Say(<<ast, Response(minted + 2, ast.calls[1])>>)
  /\ \/ turn.aborted /\ Cancelled
     \/ ~turn.aborted /\ Send(turn) /\ UNCHANGED <<state, interrupted, turnCount>>
  /\ UNCHANGED <<redoStack, queue, retries, asked, traces, ops>>

ModelAnswers ==
  /\ turn.phase = "model" /\ ~turn.aborted
  /\ \/ Say(<<Answer(minted + 1)>>) /\ Completed
     \/ \E n \in {c \in 1..MaxCalls : minted + c < MaxMinted} :
          LET ast == Calling(minted + 1, n)
          IN  /\ Say(<<ast>>)
              /\ turn' = [turn EXCEPT !.phase = "tool", !.msg = ast.id, !.calls = ast.calls,
                                      !.at = 1, !.call = ast.calls[1]]
              /\ UNCHANGED <<state, interrupted, turnCount>>
  /\ UNCHANGED <<redoStack, queue, retries, asked, traces, ops>>

ModelFails ==
  /\ turn.phase = "model" /\ ~turn.aborted
  /\ Errored
  /\ UNCHANGED <<history, redoStack, queue, retries, asked, minted, traces, ops>>

\* The iteration is over the array of calls that the message in the history
\* shares, wherever deletions have moved its elements.
ToolReturns ==
  /\ turn.phase = "tool" /\ ~turn.aborted
  /\ Say(<<Response(minted + 1, turn.call)>>)
  /\ turn' = IF turn.at < Len(turn.calls)
             THEN [turn EXCEPT !.at = @ + 1, !.call = turn.calls[turn.at + 1]]
             ELSE [turn EXCEPT !.phase = "again"]
  /\ UNCHANGED <<redoStack, turnCount, interrupted, state, queue, retries, asked, traces, ops>>

\* After the yield the loop goes on, up to the limit.
Again ==
  /\ turn.phase = "again" /\ ~turn.aborted
  /\ IF turn.loops < MaxLoops
     THEN Send(turn) /\ UNCHANGED <<state, interrupted, turnCount>>
     ELSE Errored
  /\ UNCHANGED <<history, redoStack, queue, retries, asked, minted, traces, ops>>

\* What the stopped turn waited for returns or throws; nothing is added.
Unwind ==
  /\ turn.phase \in {"model", "tool", "again"} /\ turn.aborted
  /\ Cancelled
  /\ UNCHANGED <<history, redoStack, queue, retries, asked, minted, traces, ops>>

-----------------------------------------------------------------------------
(* Undo and redo                                                           *)

Op == ops < MaxOps /\ ops' = ops + 1

Cancel ==
  /\ Op
  /\ state = "running"
  /\ state' = "canceling"
  /\ turn' = [turn EXCEPT !.aborted = TRUE]
  /\ UNCHANGED <<record, queue, retries, asked, minted, traces>>

\* An undo stops the turn under way, and calls the agent idle at once.
StopTurn ==
  IF state \in {"running", "canceling"}
  THEN state' = "idle" /\ turn' = [turn EXCEPT !.aborted = TRUE]
  ELSE UNCHANGED <<state, turn>>

\* The length of what is left of the first n messages when those at the end that
\* are at places in S are popped.
Trim(n, S) == CHOOSE k \in 0..n : (k + 1)..n \subseteq S /\ (k = 0 \/ k \notin S)

\* Where the default undo stops: it pops system messages, but not the first of
\* all, then responses, then an answer with the calls and responses before it,
\* then the prompt.
Left(h) ==
  LET sys   == Trim(Len(h), Places(h, "system") \ {1})
      tools == Trim(sys, Places(h, "tool"))
      calls == IF tools > 0 /\ Is(h[tools], "assistant")
               THEN Trim(tools - 1,
                         Places(h, "tool") \cup {i \in Places(h, "assistant") : Declares(h[i])})
               ELSE tools
  IN  IF calls > 0 /\ Is(h[calls], "user") THEN calls - 1 ELSE calls

\* The first prompt, and the prose of the last answer, of what was popped.
PromptOf(ms) == IF Places(ms, "user") = {} THEN NoInput ELSE ms[Min(Places(ms, "user"))].prompt
HasProse(ms) == Places(ms, "assistant") # {} /\ ms[Max(Places(ms, "assistant"))].prose

\* Take history[a..b] out of the history and make a bundle of it.  before and after
\* are there for RedoRestores only.
TakeOut(a, b, at) ==
  LET popped == SubSeq(history, a, b)
      delta  == IF HasProse(popped) /\ turnCount > 0 THEN 1 ELSE 0
  IN  /\ history' = Upto(history, a - 1) \o From(history, b + 1)
      /\ turnCount' = turnCount - delta
      /\ redoStack' = Append(redoStack,
           [popped |-> popped, delta |-> delta, at |-> at,
            before |-> Seen, after |-> Seen'])
      /\ interrupted' = NoInput

\* What undoAgentTurn gives back: the prompt popped, or the interrupted one.
Recovered ==
  LET p == PromptOf(From(history, Left(history) + 1))
  IN  IF p # NoInput THEN p ELSE interrupted

\* undoAgentTurn without a target, or with one in the most recent turn.
UndoTail ==
  /\ StopTurn
  /\ IF Left(history) = Len(history) /\ Recovered = NoInput
     THEN interrupted' = NoInput /\ UNCHANGED <<history, redoStack, turnCount>>
     ELSE TakeOut(Left(history) + 1, Len(history), AtTail)

Undo ==
  /\ Op
  /\ UndoTail
  /\ retries' = Spoiled
  /\ UNCHANGED <<queue, asked, minted, traces>>

\* The segment of the turn that message i belongs to: from its prompt up to the
\* next one.
SegmentStart(i) ==
  CHOOSE s \in 1..i : Is(history[s], "user") /\ \A k \in (s + 1)..i : ~Is(history[k], "user")
SegmentEnd(i) ==
  CHOOSE e \in i..Len(history) :
    /\ \A k \in (i + 1)..e : ~Is(history[k], "user")
    /\ e = Len(history) \/ Is(history[e + 1], "user")

\* The bundle forgets where it was.
UndoEarlier_Fault(i) ==
  /\ Op
  /\ i =< Left(history)
  /\ \E s \in 1..i : Is(history[s], "user")
  /\ StopTurn
  /\ TakeOut(SegmentStart(i), SegmentEnd(i), AtTail)
  /\ retries' = Spoiled
  /\ UNCHANGED <<queue, asked, minted, traces>>

\* undoAgentTurn with a target before the most recent turn; with one before the
\* first prompt it fails.
UndoEarlier(i) ==
  /\ Op
  /\ i =< Left(history)
  /\ \E s \in 1..i : Is(history[s], "user")
  /\ StopTurn
  /\ TakeOut(SegmentStart(i), SegmentEnd(i), SegmentStart(i) - 1)
  /\ retries' = Spoiled
  /\ UNCHANGED <<queue, asked, minted, traces>>

\* Put bundle b back where it was, or at the end.  There is a conversation for
\* which the place was meant.
PutBack(b) ==
  LET at == IF b.at = AtTail \/ b.at > Len(history) THEN Len(history) ELSE b.at
  IN  /\ history' = Upto(history, at) \o b.popped \o From(history, at + 1)
      /\ turnCount' = turnCount + b.delta
      /\ disturbed' = (disturbed \/ (b.at # AtTail /\ b.after[1] # Seen[1]))

\* The bundle stays on the stack.
Redo_Fault ==
  /\ Op
  /\ redoStack # <<>>
  /\ PutBack(Last(redoStack))
  /\ retries' = Spoiled
  /\ UNCHANGED <<redoStack, interrupted, state, queue, turn, asked, minted, gone>>

Redo ==
  /\ Op
  /\ redoStack # <<>>
  /\ PutBack(Last(redoStack))
  /\ redoStack' = Front(redoStack)
  /\ retries' = Spoiled
  /\ UNCHANGED <<interrupted, state, queue, turn, asked, minted, gone>>

-----------------------------------------------------------------------------
(* Deletion                                                                *)

\* The message that declares the call of response i: the nearest before it.
Declarer(i) ==
  {j \in 1..(i - 1) : /\ history[i].call \in Range(history[j].calls)
                      /\ \A k \in (j + 1)..(i - 1) : history[i].call \notin Range(history[k].calls)}

Prune(m, c) == [m EXCEPT !.calls = Without(@, {n \in DOMAIN @ : @[n] = c})]

\* What goes with message i: the responses to the calls it declares.
Cascade(i) ==
  {i} \cup {k \in (i + 1)..Len(history) : /\ Is(history[i], "assistant")
                                         /\ Is(history[k], "tool")
                                         /\ history[k].call \in Range(history[i].calls)}

\* Does the turn count on the place or the presence of message i?
CountedOn(i) ==
  turn.phase = "tool" /\ (history[i].id = turn.msg \/ history[i].call \in Range(turn.calls))

Delete(i) ==
  /\ Op
  /\ LET pruned == [j \in DOMAIN history |->
                      IF Is(history[i], "tool") /\ j \in Declarer(i)
                      THEN Prune(history[j], history[i].call) ELSE history[j]]
     IN  /\ history' = Without(pruned, Cascade(i))
         /\ turn' = IF \E j \in Declarer(i) : Is(history[i], "tool") /\ history[j].id = turn.msg
                    THEN [turn EXCEPT !.calls = Prune(turn, history[i].call).calls]
                    ELSE turn
  /\ gone' = gone \cup {history[j].id : j \in Cascade(i)}
  /\ disturbed' = (disturbed \/ CountedOn(i))
  /\ retries' = Spoiled
  /\ UNCHANGED <<redoStack, turnCount, interrupted, state, queue, asked, minted>>

-----------------------------------------------------------------------------
(* Retry                                                                   *)

Resend(p) == queue' = Append(queue, p)
LastMessage == IF history = <<>> THEN Message(0, "none") ELSE Last(history)

\* The prompt is sent again, and stays.
ResendPrompt_Fault ==
  /\ Is(LastMessage, "user")
  /\ interrupted' = NoInput
  /\ Resend(LastMessage.prompt)
  /\ UNCHANGED <<history, redoStack, turnCount, state, turn, gone>>

\* A trailing prompt is taken back and sent again.
ResendPrompt ==
  /\ Is(LastMessage, "user")
  /\ history' = Front(history)
  /\ gone' = gone \cup {LastMessage.id}
  /\ interrupted' = NoInput
  /\ Resend(LastMessage.prompt)
  /\ UNCHANGED <<redoStack, turnCount, state, turn>>

\* A turn that stopped among its tool calls is resumed as it is.
Resume ==
  /\ Is(LastMessage, "tool") \/ Declares(LastMessage)
  /\ interrupted' = NoInput
  /\ Resend(NoInput)
  /\ UNCHANGED <<history, redoStack, turnCount, state, turn, gone>>

\* A turn that came to an answer is undone and its prompt sent again.
ResendUndone ==
  /\ Is(LastMessage, "assistant") /\ ~Declares(LastMessage)
  /\ UndoTail
  /\ Resend(Recovered)
  /\ UNCHANGED gone

\* Otherwise the interrupted input is sent again, if there is one.
ResendInterrupted ==
  /\ LastMessage.role \in {"none", "system"}
  /\ interrupted' = NoInput
  /\ Resend(interrupted)
  /\ UNCHANGED <<history, redoStack, turnCount, state, turn, gone>>

RetryNow == ResendPrompt \/ Resume \/ ResendUndone \/ ResendInterrupted

\* How often prompt p stands in the conversation h or waits in q.
Copies(p, h, q) ==
  Cardinality({i \in DOMAIN h : h[i].prompt = p}) + Cardinality({i \in DOMAIN q : q[i] = p})

\* An undo of the last turn would give back p, which is nowhere else.
InPlace(p) == PromptOf(From(history, Left(history) + 1)) = p /\ Copies(p, history, queue) = 1

\* retryAgentTurn of a turn under way stops it and waits for 50 ms.
RetryRunning ==
  /\ Op
  /\ state = "running"
  /\ state' = "canceling"
  /\ turn' = [turn EXCEPT !.aborted = TRUE]
  /\ retries' = Append(Spoiled, [input |-> turn.input, own |-> InPlace(turn.input)])
  /\ UNCHANGED <<record, queue, asked, minted, traces>>

RetryIdle ==
  /\ Op
  /\ state # "running"
  /\ RetryNow
  /\ retries' = Spoiled
  /\ UNCHANGED <<asked, minted, disturbed>>

\* Whatever has happened in the 50 ms, the tail is read now.
RetryResumes ==
  /\ retries # <<>>
  /\ RetryNow
  /\ retries' = Tail(Spoiled)
  /\ UNCHANGED <<asked, minted, disturbed, ops>>

-----------------------------------------------------------------------------
Next ==
  \/ Submit \/ StartTurn \/ PrecallsReturn \/ ModelAnswers \/ ModelFails
  \/ ToolReturns \/ Again \/ Unwind
  \/ Cancel \/ Undo \/ Redo \/ RetryRunning \/ RetryIdle \/ RetryResumes
  \/ \E i \in DOMAIN history : UndoEarlier(i) \/ Delete(i)

Spec == Init /\ [][Next]_vars

-----------------------------------------------------------------------------
(* Properties                                                              *)

Role  == {"system", "user", "assistant", "tool"}
Input == 0..MaxPrompts
Call  == Nat \X Nat
Msg ==
  [id : Nat, role : Role, calls : Seq(Call), call : Call, prompt : Input, prose : BOOLEAN]
Bundle ==
  [popped : Seq(Msg), delta : {0, 1}, at : Nat \cup {AtTail},
   before : Seq(Nat) \X Nat, after : Seq(Nat) \X Nat]
Turn ==
  [phase : {"none", "precalls", "model", "tool", "again"}, input : Input, msg : Nat,
   calls : Seq(Call), at : Nat, call : Call, loops : Nat, aborted : BOOLEAN]
Retry == [input : Input, own : BOOLEAN]

TypeOK ==
  /\ history \in Seq(Msg) /\ redoStack \in Seq(Bundle)
  /\ turnCount \in Nat /\ interrupted \in Input
  /\ state \in {"idle", "running", "canceling", "errored"}
  /\ queue \in Seq(Input)
  /\ turn \in Turn /\ retries \in Seq(Retry)
  /\ asked \in Input /\ minted \in Nat /\ ops \in Nat
  /\ gone \subseteq Nat /\ disturbed \in BOOLEAN

\* No message is lost and none is there twice: each one ever made is at one
\* place of the history or of one bundle, or is gone for a reason.
Distinct(h) == \A i, j \in DOMAIN h : h[i].id = h[j].id => i = j

OncePerMessage ==
  /\ Distinct(history)
  /\ \A i \in DOMAIN redoStack :
       /\ Distinct(redoStack[i].popped)
       /\ Ids(redoStack[i].popped) \cap Ids(history) = {}
       /\ \A j \in DOMAIN redoStack \ {i} :
            Ids(redoStack[i].popped) \cap Ids(redoStack[j].popped) = {}
  /\ (Ids(history) \cup Bundled) \cap gone = {}
  /\ Ids(history) \cup Bundled \cup gone = 1..minted

\* Every response in the history, and in a bundle, stands behind the message that
\* declares its call, with nothing but responses between them.
Standing(h) ==
  \A i \in Places(h, "tool") :
    \E j \in 1..(i - 1) : /\ h[i].call \in Range(h[j].calls)
                          /\ \A k \in (j + 1)..(i - 1) : Is(h[k], "tool")

Paired ==
  ~disturbed => /\ Standing(history)
                /\ \A i \in DOMAIN redoStack : Standing(redoStack[i].popped)

\* A turn that executes a tool finds its answer at the end of the history, with
\* one response for each call before the current one.
AnswersInPlace ==
  turn.phase = "tool" /\ ~turn.aborted /\ ~disturbed =>
    \E i \in DOMAIN history :
      /\ history[i].id = turn.msg /\ history[i].calls = turn.calls
      /\ turn.at \in DOMAIN turn.calls /\ turn.call = turn.calls[turn.at]
      /\ Len(history) = i + turn.at - 1
      /\ \A k \in 1..(turn.at - 1) :
           Is(history[i + k], "tool") /\ history[i + k].call = turn.calls[k]

\* The messages that are in the history or may come back to it.
InPlay == Range(history) \cup UNION {Range(redoStack[i].popped) : i \in DOMAIN redoStack}

\* Only answers declare calls, each its own and each once.
WellMade ==
  \A m \in InPlay :
    /\ Declares(m) => Is(m, "assistant")
    /\ \A n \in DOMAIN m.calls : m.calls[n][1] = m.id
    /\ \A n, k \in DOMAIN m.calls : m.calls[n] = m.calls[k] => n = k

\* No call is answered twice.
AnsweredOnce ==
  ~disturbed => \A m, n \in InPlay :
    Is(m, "tool") /\ Is(n, "tool") /\ m.call = n.call => m.id = n.id

\* A turn that nobody stopped runs, and there is nothing to redo.
TurnAlone ==
  turn.phase # "none" /\ ~turn.aborted => state = "running" /\ redoStack = <<>>

\* A bundle with a place belongs in front of a prompt, or at the end.
PlacedAtPrompts ==
  \A i \in DOMAIN redoStack :
    LET b == redoStack[i]
    IN  b.at # AtTail =>
          /\ b.at =< Len(b.after[1])
          /\ \A n \in DOMAIN b.after[1] : b.after[1][n] =< minted
          /\ b.at < Len(b.after[1]) =>
               \A m \in InPlay : m.id = b.after[1][b.at + 1] => Is(m, "user")

\* A bundle and what was there after its undo make up what was there before.
Reversible ==
  \A i \in DOMAIN redoStack :
    LET b  == redoStack[i]
        at == IF b.at = AtTail \/ b.at > Len(b.after[1]) THEN Len(b.after[1]) ELSE b.at
    IN  b.before = <<Upto(b.after[1], at) \o IdsOf(b.popped) \o From(b.after[1], at + 1),
                     b.after[2] + b.delta>>

\* The conversation stays in order, whatever is undone, redone, deleted and
\* retried while a turn waits.  The last six parts make the others inductive.
OrderInv ==
  /\ OncePerMessage /\ Paired /\ AnswersInPlace
  /\ TypeOK /\ WellMade /\ AnsweredOnce /\ TurnAlone /\ PlacedAtPrompts /\ Reversible

\* Only the messages of the user carry prompts, and whatever carries or remembers
\* one has it from the user.
PromptsAsked ==
  /\ \A m \in InPlay : m.prompt =< asked /\ (m.prompt # NoInput => Is(m, "user"))
  /\ \A i \in DOMAIN queue : queue[i] =< asked
  /\ \A i \in DOMAIN retries : retries[i].input =< asked
  /\ turn.input =< asked /\ interrupted =< asked

\* The system prompt comes first, and no undo takes it or has a place before it.
SystemFirst ==
  /\ Places(history, "system") \subseteq {1}
  /\ \A i \in DOMAIN redoStack :
       /\ Places(redoStack[i].popped, "system") = {}
       /\ redoStack[i].at = 0 => Places(history, "system") = {}

\* While nothing interferes with a retry, no turn works on the conversation, its
\* prompt is there or in the queue, once, and the tail of the conversation is the
\* turn it is for.
OwnRetries ==
  \A i \in DOMAIN retries :
    LET p == retries[i].input
    IN  retries[i].own /\ p # NoInput =>
          /\ turn.phase = "none" \/ turn.aborted
          /\ Copies(p, history, queue) = 1
          /\ \/ PromptOf(From(history, Left(history) + 1)) = p
             \/ Is(LastMessage, "tool") \/ Declares(LastMessage)

\* What retryAgentTurn may count on after its 50 ms.
RetryInv == PromptsAsked /\ SystemFirst /\ OwnRetries

\* What holds of a conversation and of the retries under way at every moment.
HInv == OrderInv /\ RetryInv

\* In p each call is answered right behind the message that declares it, and
\* each response answers such a call.
WellFormed(p) ==
  /\ \A i \in DOMAIN p : \A n \in DOMAIN p[i].calls :
       \E k \in (i + 1)..(i + Len(p[i].calls)) :
         k =< Len(p) /\ p[k].call = p[i].calls[n]
  /\ \A i \in DOMAIN p : Is(p[i], "tool") =>
       \E j \in 1..(i - 1) :
         /\ p[i].call \in Range(p[j].calls)
         /\ \A k \in (j + 1)..(i - 1) : Is(p[k], "tool")

\* What the model is called with pairs calls and responses.
PayloadWellFormed ==
  [][turn'.phase = "model" /\ turn'.loops # turn.loops /\ ~disturbed /\ Len(history') > 1 =>
       WellFormed(Formatted(history'))]_vars

\* A redo that finds the conversation as the undo left it brings back exactly
\* what was there before, the count of turns included.
RedoRestores ==
  [][\A b \in {redoStack[i] : i \in {j \in {Len(redoStack)} : j > 0}} :
       Len(redoStack') < Len(redoStack) /\ turn' = turn /\ Seen = b.after => Seen' = b.before]_vars

\* A retry that nothing interferes with in its 50 ms resends its own prompt, or
\* resumes its own turn: the prompt is once in the conversation or in the
\* queue, and no other prompt is touched.
RetryResends ==
  [][Len(retries') < Len(retries) /\ Head(retries).own /\ Head(retries).input # NoInput =>
       LET p == Head(retries).input
       IN  /\ Last(queue') \in {p, NoInput}
           /\ Copies(p, history', queue') = 1
           /\ \A q \in Prompt \ {p} :
                Copies(q, history', queue') = Copies(q, history, queue)]_vars
=============================================================================
