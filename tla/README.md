# Verification of the sandbox engine

This directory specifies the engine under `src/src/lib/sandbox/` in TLA+: the part of the program
that runs agents, queues what wakes them, lets them call and write to each other, and keeps what
they leave behind. Each module models one component, TLC checks it on a small instance, and TLAPS
proves its main properties for every value of the constants. File names below are relative to
`src/src/lib/sandbox/`; `PROJECT.json` maps every definition to the lines it models.

The engine is single-threaded TypeScript. Nothing runs in parallel, but every `await`, microtask,
timer and callback is a point where other code may run. An action of a module is what runs between
two such points; an interleaving is what the event loop may choose.

## Inventory

| Component | State | Operations | Hard behaviour | What makes it correct |
|---|---|---|---|---|
| TriggerQueue (`triggerQueue`) | pending list, triggers in flight, source keys, tick flags, timer | enqueue, processTick, settle, #reinsertAtHead, clear, dispose | ticks coalesce while a batch is awaited; callbacks enqueue during the loop | order per target, one dispatch per target, nothing lost, no wake-up lost, Realm confinement |
| InvocationEngine (`invocationEngine`) | active records, history, dispatch controls, timers, callbacks of awaits | invokeAgent, waitForInvocation, cancelPendingInvocationsForAgent, reset | result, timer, death and reset race for one record held by three closures | a call settles once; an await misses nothing and ends; a death cancels the calls that name the dead agent by its key |
| TurnExecutionEngine (`runtime/turnExecutionEngine`) | promise, controller and state on the agent record | executeAgentTurn, #runTurnCore, cancelAgentTurn | calls defer on a promise and look again; the turn writes a record that others write too | one turn per agent, stops are obeyed, no stranded state, every call settles |
| AgentLifecycleManager (`runtime/agentLifecycle`) | registry, recycle bin, deferred edits, descriptors, grants | launch, kill, restore, purge, unstick, cancel, grant, edit | acts on agents whose turn is under way; judges now what takes effect at the end of a turn | the state table; no death or rescue harms another turn; authority flows down and stays in its Realm |
| MessagingBus (`messagingBus`) | queues, archives, registrations, subscriptions | sendMessage, readMessage, drainInbox, waitForMail, kill/purge, snapshots | waits subscribe; delivery, timer, abort, death race | every copy in one place; nobody sleeps on mail; mail stays in its Realm |
| AgentRuntime, TriggerDispatcher (`runtime`, `runtime/triggerDispatcher`) | user-turn waiters, completion watchers, subscriptions | enqueueUserTurn, waitForAgent, dispatchTrigger, reset, destroy, importSnapshot, importRealmSlice | promises handed out by one component and settled by another | every waiter settles; nothing survives reset that acts on the new engine |
| RuntimeScheduler (`runtime/runtimeScheduler`) | task rows, host timers, clock partitions it mirrors into | schedule, cancel, wake on message, teardown, export, import | early wake against the timer; teardown under a key or a bare id; imports replace task objects that timers hold | an alarm goes off once, or is cancelled; other Realms do not end it |
| SandboxStore, SandboxPersistence (`sandboxStore`, `sandboxPersistence`) | Realm registry, template catalog, pending save, one storage entry | launches, Realm creation, deletion and import, launch from a template, save, restore, factory reset | debounce, failing writes, death of the page between two writes, a launch that awaits first turns | the last change reaches the storage; an accepted template is stored; a Realm goes as a whole |
| HistoryManager, message hygiene (`runtime/historyManager`, `runtime/messageHygiene`) | messages, undo and redo stacks, the payload | undo, redo, retry, deletion, edits | rewriting the array a turn pushes to | nothing lost or doubled; calls answered in place; redo restores; a retry resends its prompt |
| WorldClock (`worldClock`) | time, ticker and scheduled events per Realm | advance, schedule, fire, export, import | a best-effort mirror in two files of the virtual files | a Realm's events fire in order of their time |
| VirtualFs (`virtualFs`) | files per Realm, with access rules | read, write, move, patchJson (RFC 6902) | none: synchronous, a patch is all or nothing | a path denotes a file of its own Realm only |
| Realm and preset catalogs, credentials, extensions, MCP, inference, tools, telemetry, director, UI | maps and pure functions | | little concurrency | see PROJECT.json for the reason of each |

How they interact: mail delivered by the bus makes the dispatcher queue a trigger; an alarm of the
scheduler queues one too; a tick of the queue dispatches it, which runs a turn; a turn adds to the
history and calls tools, which send and await mail, set alarms, call other agents (a call is a
trigger again), launch and kill; a kill aborts the turn, tells the bus and the scheduler, and cancels
the calls. The user edits histories and installs and removes whole Realms through the store, which
saves whatever changes. All of them resolve references through one identity port: a canonical key,
or a bare id that may denote agents in several Realms. The port is modelled in each module as far as
the component uses it.

## Modules

**TriggerQueue** models `triggerQueue/index.ts`. `#pendingQueue` is the set `pending` with a place
for each element, since only the order within a target shows. `ProcessTick` is the synchronous part
of `processTick`; `FinishBatch` is what follows `Promise.allSettled`; `Settle` is the end of one
dispatched turn and `Refuse` a dispatch that resolves `false` and goes back to the head; the two
microtasks and the interval timer are actions. `TurnStarts` and `TurnEnds` are turns that other
parts of the engine run, `Register` and `Unregister` the identity port changing.
**AgentMailboxes** is its abstract specification: one FIFO mailbox per target, as the set of the
triggers that wait and the order in which they do.

**InvocationEngine** models `invocationEngine/index.ts`. An id is the number of the call. The record
shared by the closures is `status`, the two ledgers `active` and `ledger`. `Dispatch` is the
microtask, `TurnSettles` the promise of `executeTurn`, `CallTimeout` and `WaitTimeout` the timers,
`Kill` and `Restore` what the lifecycle manager does to agents and calls. **InvocationLedger** is the
abstract specification: each call is unused, in flight, settled with one outcome, or forgotten.

**TurnExecution** models `runtime/turnExecutionEngine/index.ts` from await to await, with the
operations of the lifecycle manager and the history manager that interfere with it. `waitsOn` is the
promise a deferred call awaits, `abortController` names the turn that created the controller.
`unstickAgent` and `restoreAgent` let two turns of one agent overlap; the history variable `rescues`
counts them, so that a property may speak of the time before the first.

**MessagingBus** models `messagingBus/index.ts` and the part of `importRealmSlice`
(`runtime/index.ts`) that rebuilds the bus. A wait is taken to its suspension in `WaitForMail`; the
subscriber it leaves runs inside the delivery, so that `Deliver` and `Resolve` are part of
`SendMessage` and `Broadcast`. `Denoted`, `Verdict` and `Recipients` are the resolution of the
recipient. `hearing` are the waits whose subscription still exists. **MailService** is the abstract
specification: each message is posted once to lawful members, and each copy is unread or read.

**TurnCoordination** composes the facade (`runtime/index.ts`) with the dispatcher, the queue, turns
and the lifecycle manager. Queue and turns are those of the modules above with their inner steps
left out; what is kept is the batch that awaits its turns, the waiter that enqueueUserTurn leaves
behind, the watchers of waitForAgent in both modes, edits deferred to the end of a turn, and the
launch of a child, awaited or not. `Tick`, `Complete` and `Release` (the promise of a turn goes
null) are the engine; `Kill`, `Purge`, `EmptyRecycleBin`, `Restore`, `Cancel`, `Unstick`, `Reset`
and `Import` are the host, at any moment.

**RuntimeScheduler** models `runtime/runtimeScheduler/index.ts` with the calls by which the facade
tears it down, replaces it and merges a Realm into it. `timeouts` are the timers of the host, which
hold the task object they were made for (`gen`); `ExecuteTimerTrigger` is their callback; `Tick`
is the passing of time.

**SandboxStore** models the session in `sandboxStore/index.svelte.ts` and what is stored of it by
`sandboxPersistence`. `pending` is the debounced save with its timer, `entry` the storage, `room` how
much the storage still takes. A launch from a template is cut at each await of a first turn
(`step`); every other call is one action. `missed`, `receipts` and `ops` are history variables.

**ConversationHistory** models `runtime/historyManager/index.ts`, the pushes of a turn in
`turnExecutionEngine`, and the pairing of calls and responses that
`messageHygiene/formatMessages.ts` makes of the messages for the model. A turn is cut at each
await: precalls, the model, each tool. The places it splices at are numbers, as in the code.

**AgentAuthority** models what `runtime/agentLifecycle/index.ts` decides about authority, with the
part of `runtime/agent/index.ts` and of the store's `hydrateFromStorage` that carries it over a
reload. `config` is what the record says (tools, privilege, parent, whether it came from a
snapshot), `authority` the descriptor that the checks read, `edits` the deferred edits, `turn` as much
of a turn as decides whether an edit is deferred. `Denoted` is `#resolveMutationTarget`, `MayMutate`
the gate of kill and restore, `EditBound` that of an edit; `TurnCompletes` flushes the deferred edits
and judges them again. `Restart` is a reload of the page: snapshots are stripped, then healed.

The proofs about a component are in `<module>_proofs.tla`. Those about the bus and about the
scheduler, which listens to the bus, are both in **MailAndAlarms_proofs**, which extends both
modules. What the two share is who an agent is: **AgentIdentity** declares the keys, bare ids and
Realms that the identity port of the facade knows, with what is assumed of them.

`MC*.tla` hold the small instances. A definition whose name ends in `_Fault` is the form of a
definition that a plausible slip would give it; no specification uses it. Put in place of the
definition it is named for, it makes TLC find the property that PROJECT.json ("mutants") pairs it
with violated.

### What the modules assume of their callers

- An agent's operations on the bus come from its turn, which makes one tool call at a time and tests
  its signal before each (`runtime/turnExecutionEngine/index.ts:2846`); hence an agent that waits
  for mail does nothing else, and one that is dead sends nothing. The host sends with the internal
  principal. Waits by the host and direct reads without a context are left out.
- A trigger is enqueued once, an invocation id is fresh, a message is sent once: ids are UUIDs.
- Whatever an `await` of foreign code does (a model, a tool, a dispatch), it returns, throws or, in
  InvocationEngine, hangs.
- In AgentAuthority an agent acts while its turn runs, by the four calls of the lifecycle port that
  change something, and names others by bare id: the tools refuse internal ids
  (`tools/descriptors/lifecycleTools.ts`). Everything else is called by the store with the internal
  principal. Which tools an agent needs for a call is left out, so that it may try all four.
- In TurnCoordination all turns come from the queue; in ConversationHistory turns of an agent come
  one at a time (until the first unstick or restore they do: `Serial` in `te_turns`, `TurnsAreSerial`).

## Runs

| Run | Instance | What it shows |
|---|---|---|
| `tq_queue` | two triggers of one target, a foreign one; lawful, system and ambiguous sources; one refusal; a registration that comes and goes; direct turns; the timer off | IInv (order, exclusion, conservation, source keys), no head-of-line blocking, Realm confinement, no starvation, no lost wake-up; the queue implements AgentMailboxes |
| `ie_engine` | 2 calls, by key, by bare id (as agents write them) and out of each other's turns; 1 await over any ids in both modes; depth limit 1, one death, one reset | the record of a call and its timer, control and ledger agree (`RecordsInv`); an await is filed where it listens and nowhere else, misses no completion and ends honestly (`AwaitsInv`); nothing more comes of a settled or forgotten call; a death cancels the calls that name the dead agent by its key, and no others; bounded recursion and own results only (`AsAdmitted`); calls with a timer settle, awaits end; implements InvocationLedger |
| `te_turns` | 3 calls of one agent (one for mail, one with a signal), 2 loops, 2 tool calls, one unstick or restore | until a rescue one turn at a time, stops arrive, are obeyed and hit nobody else, no work after a stop, failures show; always the record is left clean (`NothingStranded` in TInv) and every call settles |
| `te_lost_stop` | 3 calls, one loop, one tool call, one rescue | finding: after unstick or restore a stop can be lost |
| `mb_mail` | 3 agents, two of one bare id in two Realms; 4 messages (broadcast, by key, across Realms, by ambiguous id); 3 waits (for all of two senders, for anything, a poll); one change, one install | copies in one place, waits honest, no sleep on mail while subscribed; implements MailService |
| `tc_turns` | two agents of one bare id in two Realms, one of them recycled; 2 triggers, 1 watch, 1 mishap of any kind | every waiter has its trigger, nobody watches or waits on what is gone, no turn answers for a namesake, a quiet agent has no watch left but by the code's own exceptions, user turns end |
| `tc_blocking_spawn` | a parent that launches a child and awaits its first turn | finding: the two and the whole queue stop for ever |
| `rs_alarms` | 4 agents, two of one bare id in two Realms, one with realmBypass; one alarm, of any of them or of a bare reference; durations 1 and 2 with a host that can wait 1; two mishaps | one host timer per pending alarm, on time; none rings twice, and none outlives its agent but by a purge of the bin that skips the scheduler; Realms apart, the bypass being one-way; every alarm goes off or is cancelled |
| `ss_sessions` | the Generic Realm and one more, a template of two members, 5 operations, any deaths of the page, a storage that may be full | memory and storage differ only for a reason, accepted templates are stored, Realms go as a whole, changes are saved |
| `ss_wrong_realm` | one agent of one id in each Realm | finding: deleteRealm purges another Realm's agent |
| `ch_edits` | 2 prompts, precalls, 2 loops of up to 2 calls, 3 operations of the user | no message lost or doubled, calls answered in place, redo restores, a retry resends its own prompt |
| `aa_agents` | three agents, two of one bare id in two Realms, one privileged, one with a grant, one a child that holds a tool its parent lacks; two scopes of a grant; four calls, any turns | descriptors follow the records; nobody's reach grows beyond that of whoever caused it; an edit leaves its target a descriptor within the editor's, but for the two kinds the bound misjudges; records of another Realm are touched by leave of the operator only |

Why the bounds are enough to be interesting. Order needs a trigger in flight, or one refused, and
one that arrives meanwhile for the same target: two, and a third to see isolation. A race for a
record needs its four contenders once each; chains need one call more than the depth limit; a call
that outlives its target needs one made by bare id. Overlap
of turns needs one that unwinds, its successor, and one that defers on the wrong promise: three. Mail
needs two senders for a wait that wants both, a namesake for the comparison of bare ids, and a
broadcast that two waits hear. A promise between agents needs one that waits and one waited for; the
confusion of namesakes needs the two to share an id, and the wake-up of the watcher is a third
trigger. An alarm that is saved, read back and torn down needs two mishaps, and so does one that
outlives its agent: a kill and a purge of the bin. An alarm that is early needs a duration beyond what the
host can wait; time passes once, which makes alarms due, late and never due. A launch that is
undone half-way needs two members, and the undoing of it by something else needs the calls to begin
it, to interfere and to go on. A history needs an undo, something that shifts it, and a redo. An edit that
is deferred and judged again needs the edit, a change of either side, and the grant before it; a
descriptor that outlives its agent needs a purge, a launch and a use, and a restored snapshot needs a reload, a kill and a restore before the edit: four
calls do. Every
run bounds only what the module names a bound (`MaxRetries`, `MaxCalls`, `MaxRescues`, `MaxDeaths`, `MaxResets`,
`MaxChanges`, `MaxInstalls`, `MaxTriggers`, `MaxWatches`, `MaxMishaps`, `MaxTime`, `Undying`, `MaxOps`,
`MaxPrompts`, `MaxMinted`, `Volatile`, `OutsideTurns`); no counter is cut off inside a behaviour of
the code. `MAX_INVOCATION_DEPTH` is 5 in the code; the run uses 1 with two calls. Deadlock is not
checked where messages, triggers, calls or prompts are finite in an instance, since an engine with
nothing to do stops; `ss_sessions` checks it, since the user can always reload the page.

### Fairness

The event loop runs every queued microtask, fires every timer that is due and is not cancelled, and
resumes what awaits a settled promise: weak fairness of those actions. TriggerQueue also assumes
that a dispatched turn settles, as processTick itself does when it awaits the whole batch; nothing
is assumed of turns outside the queue, of enqueuers or of the registry. InvocationEngine assumes
nothing of turns: `executeTurn` may hang, and only timers end such a call. TurnExecution assumes
that the awaited model or tool call returns or throws (`Step`), and weak fairness of `Resume` for
each waiting call. TurnCoordination assumes the interval timer (`Tick`), that a turn which waits for
nothing of the model ends (`Complete` or `Release` of each trigger) and the timers of watchers; a
turn that awaits its child is not assumed to end, and `UserTurnsEnd` excepts it. RuntimeScheduler
assumes that time passes and that each due timer of the host fires. SandboxStore assumes that the
debounce timer fires (`flush`): the changes of a behaviour are finitely many, so that it cannot be
put off for ever. No liveness is claimed for MessagingBus, where a wait ends by its timer, nor for
ConversationHistory and AgentAuthority, whose calls are the callers' to make.

## Findings

- **A stop is lost after unstick or restore** (`te_lost_stop`, `turnExecutionEngine/index.ts:3298`).
  The turn that unwinds clears the controller and the state of its successor; a later cancel returns
  true and does nothing.
- **A blocking launch inside a turn stops the queue** (`tc_blocking_spawn`,
  `agentLifecycle/index.ts:4547`). The child's first turn can only be dispatched by the next batch,
  and the batch that runs the parent awaits the parent. Unstick does not help: the tool's await does
  not look at the signal.
- **Deleting a Realm purges an agent of another** (`ss_wrong_realm`,
  `sandboxStore/index.svelte.ts:7752`). Members are purged by bare id, which denotes the active
  agent of that id in any Realm before the recycled member.

### Behaviour the models keep and the properties except

Each of these was met while translating the code. A property that would hold without it names the
exception, so that what it says is still the most that holds.

- Queue. `clear()` (`triggerQueue:967`) forgets the source keys of triggers in flight; one that is
  then refused comes back without its key (`RealmConfinement` excepts it). A refused dispatch asks
  for no tick, so that only the timer or other traffic brings it up again (`NoLostWakeup` excepts
  it); the code's own dispatcher never resolves `false`.
- Calls. `invokeAgent` stores the references as they were given (`invocationEngine:1641`), and what an
  agent writes is a bare id, which the facade (`runtime:3666`) and the lifecycle port (`runtime:4719`)
  pass on unchanged. Deaths are announced by key, and the sweep compares references (1831-1837): a
  call to a bare id goes on when its target dies, although the head of the file states that
  `cancelPendingInvocationsForAgent` "settles every in-flight invocation where the agent is caller
  or target" (22) and its comment that it "cancels all pending/active invocations involving an
  agent" (1792). The run makes such calls. `DeathSettlesCalls` says both halves: what a death
  cancels is a call of the dead agent, and what it leaves in flight does not name that agent by its
  key; only a call made by or to its bare id goes on, until its turn or its timer ends it.
- Mail. Installing a Realm rebuilds the bus by `importSnapshot` (`runtime:5457`), which clears all
  subscriptions: a `waitForMail` that is pending sleeps until its timer although its mail lies in
  the queue (`HeardMail` speaks of waits in `hearing`). The head of `messagingBus/index.ts` states
  that importSnapshot does so. The subscriber of a wait compares bare ids: it overhears mail for a
  namesake and archives a copy that was never in its queue (`Conserved` counts by what was
  delivered), and a broadcast of an agent that shares its bare id is not heard (`NotSleepingOn`).
- Alarms. The same rebuilding loses the scheduler's listener (`runtime:2305`), so that mail ends no
  alarm until the next reset or snapshot. Mail of a sender that is no agent, to a bare id, ends
  alarms of namesakes in other Realms; mail of an agent that has a namesake ends none
  (`RealmsApart` speaks of senders that denote one agent). The bypass works one way: an agent with
  realmBypass ends alarms of every Realm, its own alarms only such agents end, and one that is
  in no Realm also those of owners that are gone (`runtimeScheduler:1645-1656`). An alarm that went
  off and whose trigger is still queued is saved as triggered and lost by a restart.
  `emptyRecycleBin` routes a record through the facade only if no other record has its bare id; the others it
  purges without telling the scheduler (`agentLifecycle:5411-5419`), although its comment says that
  the teardown "runs for every purged agent (INV-PURGE)" (5385-5388), and that of the facade that
  "each purged record routes through `purgeAgent`" (`runtime:3433-3438`). An alarm set, or
  read back, for such a record while it lay in the bin is pending for an agent that is gone, or for the next one launched
  under its key: `NoGhostAlarm` counts what any death leaves pending, and `EmptyRecycleBin` leaves
  out of the count just what this purge does for namesakes.
- Turns. Purging one agent rejects the waiters of all queued user turns (`runtime:3420`), whose
  triggers stay and run. Triggers enqueued before a reset run on an agent launched again under the
  key. The death of an agent settles the watchers of its namesake (`runtime:4153`). A turn that
  fails or is cancelled emits no completion, and one whose watch comes between the completion and
  the promise going null is missed: `notify` watches then stay until the next completed turn
  (`NothingForgotten` names these cases). An edit deferred under a key survives a purge.
- Storage. A save that fails is forgotten until the next change (`sandboxPersistence:4484`). After a
  restore that failed, or a session that started blind, the entry is still readable and the next
  save overwrites it. A factory reset with a full storage keeps the old entry. Mail is not autosaved
  after a factory reset or an imported archive, since the subscription goes with the bus
  (`sandboxStore:12479`). A crash in the middle of a launch leaves half a Realm in the entry. A
  template whose write fails takes the pending autosave with it, and the rollback of a refused
  archive may leave template and Realm record in storage. Two active agents of one id make a
  deletion or a rollback fail half-way. `SInv` allows memory and entry to differ
  while a save is pending or `missed` says why; `RealmsEndWhole` speaks of Realms whose ids no
  other Realm has.
- History. `deleteHistoryMessage` looks at no state: deleting an answer while its tool runs leaves a
  response without a call, against INV-TOOL-HYGIENE (`historyManager:10`), which the payload drops;
  deleting a response in a turn splices the array the tool loop walks (`turnExecutionEngine:2836`),
  and a call is skipped. An undo to a target, a deletion before it and a redo insert the messages
  one place too far, possibly between a call and its response. A history that is one answer with
  calls keeps them unanswered. An undo while precalls are awaited lets the turn push their results
  after it (`turnExecutionEngine:2610`). An undo of an *earlier* turn while
  precalls are awaited, retries that take back the prompts behind it, and the results pushed after
  all can leave the recorded place of the bundle inside an answer with its responses, where the redo
  splices it (`historyManager:1064`), although the place is recorded "so redo cannot reorder
  history" (`runtime/agent/index.ts:816-820`). It takes three prompts and four
  operations, more than the run has; the proof of `HInv` met it, and `disturbed` records a redo
  that finds another conversation than its undo left. An undo of a cancelled turn lowers a turn count that was
  not raised. Two retries within 50 ms, an undo within them, or a queued turn that starts within
  them make the late retry resend or remove another turn's prompt. A retry followed by a redo
  before the queued turn starts doubles the prompt. `PayloadWellFormed` and `Paired` except a history
  that was edited mid-turn or redone out of place (`disturbed`), `RetryResends` a retry with
  interference.
- Authority. `#evaluateMetaAgentEditBound` (`agentLifecycle:3310`) judges the patch, or the
  descriptor if the patch names no tools, while `#applyConfigUpdate` registers again from the whole
  config (6193-6199). Its comment says that "the resulting baked set must be a subset of the editor's"
  (3293-3299). Two kinds of edit, both in the run, pass the check and end beyond it: one of the tools
  of a privileged agent, whose descriptor stays or becomes `*` whatever the tools; and one that
  takes the privilege from an agent that came from a snapshot and was killed and restored since,
  which is judged by its empty descriptor and gets all its config says. `FlowsDown` compares the
  descriptor that an edit leaves with the editor's at that moment and excepts just these
  (`Misjudged`), after which the descriptor is at least within what the config of the target said
  before: no edit adds to what the target could reach and the editor does not hold. A descriptor of a privileged template comes back
  at a reload by key, whoever bears the key then (`FlowsDown` excepts `Planned`); parents, and
  everything the bin held, do not. Parents are bare ids: with the bypass an agent
  counts as parent of its namesakes' children, to kill and to restore. An agent with lifecycle authority becomes nobody's parent
  (4246), so that it cannot edit what it spawned without a grant. A launch over a recycled record
  destroys it, and a relaunched agent may get an edit meant for its predecessor (`emptyRecycleBin`
  and kill drop edits by bare id, those of namesakes too; a purge by key drops none), after it is
  judged again. The edit of an agent whose turn fails waits for its next completed turn.

## Proofs

All theorems hold for any sets of agents, Realms, triggers, calls, turns, messages, waits, alarms
and templates, from the named assumptions of the modules only: keys and bare ids are disjoint, the
absence values are none of them, the functions have their types.

**TriggerQueue.** `IntraAgentFIFO` alone is not inductive: putting a refused trigger at the head
keeps the order only because it is older than everything its target has pending. `Numbering`
relates the place in the list to the number of arrival and says what was settled before what is in
flight; with `Conservation`, `BatchWithinTick`, `SideCarIsLive` and exclusion it makes `IInv`.
Theorems: `Invariance`, `TypeCorrect`, `Exclusive`, `Ordered`, `Conserved`, and `Confinement`, which
needs no assumption on refusals: it names the one trigger that may escape. `WorkConserving` says
that whatever a tick leaves in the list waits for a busy target; it needs that the list has a least
place for each target (`FirstExists`). `QueueKeepsMailboxes` maps the places in the list to the
order of a mailbox and takes each step of the queue to one of AgentMailboxes or to none; what makes
it true of a refused trigger is `Numbering` again.

**InvocationEngine.** The invariant `IInv` has two halves. `RecordsInv` says of each record where it
is: its microtask, its timer, its control and its ledger entry go together. `AwaitsInv` says that an
await listens exactly while its callbacks are filed, under each id it asked for (`NoLeakedWaiter` is
an equality), that it has heard of every awaited result on record (`NoLostCompletion`), and that how
it ended is what it heard (`HonestOutcome`); it needs the first half. All ways to settle share the
lemma `SettleStep`. Theorems: `CallsStand` and `AwaitsStand` for the halves; `CallsSettleOnce` and
`ResetIsFinal` (action properties, together `SettledForGood`); `EngineKeepsLedger`: the engine
implements InvocationLedger, step by step or by a stutter; and `DeathsSettleCalls`, for calls by key
and by bare id alike, from `PartiesOfKeys` (a party to a call is named by its key or its bare id).
`AdmissionHolds` (`AsAdmitted`) is about checks that are made once: `invokeAgent` looks
one step up its chain, so that `BoundedRecursion` follows from `Lineage`, by which a call is one
deeper than its parent and younger than it; `waitForInvocation` looks at the parties of a call when
it begins to wait, so that `ResultsOfOwnCalls` needs `PartiesOfKeys` (a record keeps who made and
who got the call) and `AwaitedCallsAreOwn` (nobody waits for a call that is yet to be made).

**TurnExecution.** `RecordInv` is inductive whatever is done to an agent: a record names turns of
its own agent that are under way and reads busy only while one is; `NothingStranded` follows from
it. Everything about stops (`Serial`) holds until somebody unsticks or restores, and the theorems say
`rescues = 0 => ...`. `RescueInv` is inductive: `RecordInv`, and before the first rescue `CalmInv`,
which adds that a turn that has not begun has not been aborted. `te_lost_stop` shows why.

**MessagingBus.** `IInv` is `BInv` with `HeardMail`. `HeardMail` needs that nobody reads the mailbox
of an agent that waits (`WaitsHonest`: one wait per agent, of an active one), and `Conserved` needs
that a message which is sent for the first time is nowhere yet (`Sent`). Direct mail and broadcasts
share the lemma `Delivery`; reads share `Moving`; timers, aborts and kills share `Finishing`;
launches, restores and installs share `Enrolling`. `BusKeepsService` maps the queue to unread, and
the part of the archive that was delivered to read; `DeliveryPosts`, `Taking` and `Membership` show
that each operation is one step of the service or none.

**TurnCoordination.** `CInv` is not inductive. `Books` adds what the code takes for granted of its
queue: a queued trigger is there once and has not run (`QueueBooks`), a trigger that has not come
yet is nowhere (`TriggerBooks`), and the wake-up of a watcher is a fresh trigger (`WatchBooks`).
Thirteen steps leave the queue alone and share the lemma `QuietStep`; those that put a trigger into
it share `Enqueueing`. `NobodyIsForgotten` needs `QInv`, which says of every watch, not only of one
on a quiet agent, what will end it: the turn that has yet to emit its completion, or one of the
exceptions the code makes. Theorems: `PromisesAreKept`, `CoordinationTypes`, `CompletionsAreOwn`,
`NobodyIsForgotten`.

**RuntimeScheduler.** `AInv` is inductive as it stands: its parts say that pending alarms and host
timers correspond one to one, object and time included, and that nothing is pending for the dead: a
death haunts whatever alarm is pending for its agent, by key or bare id, and `NobodyHaunts` shows
that the teardown leaves none. Cancellations and teardowns share the lemma `Cancelling`, restarts and merged Realms the lemma
`Importing`. `MailStaysInRealm` is an action property from it.

**SandboxStore.** `SInv` relates the session to the entry through the pending save and the history of
what was missed. `SessionInvariance` and `AcceptedTemplatesAreStored` follow action by action;
`RealmsEnd` (an action property) splits deletions and rollbacks by whether another Realm has agents
of the same ids.

**AgentAuthority.** `LInv` is inductive: whatever changes a config derives the descriptor from it in
the same step, and whatever takes an agent away takes its descriptor (`ConfigUpdatesEffect`,
`EraseInv`). It makes a descriptor lie within the reach of its agent (`DescriptorWithinReach`), so
that a bound by the editor's descriptor bounds by its reach (`EditWithinReach`), at once or deferred
(`FlushEffect`). The other way, from the config an edit leaves to the descriptor derived from it,
`EditWithinBound` goes through what the bound looked at: it is that descriptor, or the edit is
`Misjudged`. Together: `AuthorityFlowsDown`, with `ChildBound` for launches. `RealmsAreSealed` follows from
the gates of each call.

**ConversationHistory.** `HInv` is `OrderInv` and `RetryInv`. `OrderInv` is three promises,
`OncePerMessage`, `Paired` and `AnswersInPlace`, and what makes them inductive: `WellMade` and
`AnsweredOnce` (a call is declared and answered once, by construction of its number), `TurnAlone`
(while an unstopped turn runs there is nothing to redo), `PlacedAtPrompts` (a bundle with a recorded
place belongs in front of a prompt, so that putting it there parts no answer from its responses) and
`Reversible` (the bundle and what its undo left make up what was there). Most of the proof is about
sequences: what stands where when a stretch is taken out, put in, or places are left out
(`CutFacts`, `PasteFacts`, `WithoutFacts`, by the rank of a place among those that stay), and what
each does to identities and to `Standing`. The state then enters as one relation, `Conversation`, of
the history, the stack and what is gone, with one lemma for each kind of step: saying something
(`ConversationSay`), answering a call, cutting (`ConversationCut`, for undo and retry), pasting
(redo) and deleting. `RetryInv` is what a retry may count on after its 50 ms if nothing interferes
(`OwnRetries`): no turn works on the conversation, its prompt is there or in the queue, once, and
the tail is the turn it is for. It needs that prompts come from the user only, each submitted before
(`PromptsAsked`), or a prompt yet to come could be the one it holds; and that the system prompt
comes first and no bundle holds it or has a place before it (`SystemFirst`), or a retry could find a
system message at the end and send the interrupted input instead. `LeftTail` says that the tail the
default undo pops has a prompt only at its beginning, and `Resending` that taking such a tail away
and queueing its prompt moves that prompt and no other. Theorems: `ConversationInOrder` (`HInv`);
`RetryResendsItsPrompt`, step by step from `RetryInv`; `RedoBringsItBack`, from `Reversible`;
`PayloadPairs`, which follows a sound conversation into the payload: what the filter drops
(responses without a call, calls without a response) leaves pairs only.

Only model-checked: all liveness (`NoStarvation`, `NoLostWakeup`, `TimedCallsSettle`, `AwaitsEnd`,
`CallsSettle`, `UserTurnsEnd`, `AlarmsGoOff`, `ChangesAreSaved`), which TLAPS cannot prove under
fairness. Every other property of a passing run is stated by a theorem.

## Not modelled

Contents (messages, prompts, tool results), logging, telemetry, schema validation and pagination;
the order inside a mail queue; inlining a file into a message, policies and the audit log of the
bus; policies of who may be spawned, extensions, workspaces, inspection and the cap on deferred
edits in AgentAuthority, whose one grant stands for agent-edit. Time as a quantity is kept in RuntimeScheduler
only. In SandboxStore all that turns and mail change is one number; validation and migration of an
entry are its being readable or not. In ConversationHistory a prompt is one message, an answer with
calls has no prose, and mail, the closing summary of precalls, edits of a message, metadata and
reasoning are left out. In TurnCoordination the cap on deferred edits (`META_PENDING_EDITS_CAP`) and
their contents are left out. The components with status `not_modelled` have their reason in
PROJECT.json: synchronous maps, pure functions on documents, transport, and the interface.

## Plan

Done: the queue, calls, turns, mail, their composition, alarms, sessions, histories and authority. Open, in
order of worth:

1. The mail a turn drains, between the bus and the history (`turnExecutionEngine:2134`): a snapshot
   saved meanwhile has it in neither. It takes turns, bus and storage in one module.
2. WorldClock: its partitions, the ticker, and the mirror of the clock in files, which may fail.
3. Extensions and workspaces as part of a descriptor, and the gates of the store's own operations.
