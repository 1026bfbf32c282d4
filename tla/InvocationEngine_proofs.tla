----------------------- MODULE InvocationEngine_proofs -----------------------
(***************************************************************************)
(* Proofs about the invocation engine, for any number of agents, calls and *)
(* awaits.  The invariant IInv is inductive.  All ways to settle a call    *)
(* share one lemma, SettleStep; the other actions are taken one by one.    *)
(***************************************************************************)
EXTENDS InvocationEngine, WellFoundedInduction, TLAPS

\* The constants are as InvocationEngine assumes them; Id is a set of numbers
\* that does not contain 0.
LEMMA IdType == /\ Id \subseteq Nat \ {0}
                /\ Id \subseteq 0..MaxCalls
                /\ MaxCalls \in Nat /\ MaxDepth \in Nat \ {0}
BY CallAssumption, SMT DEF Id

\* The invariant holds when the engine is built (constructor).
LEMMA InitInv == Init => IInv
<1> SUFFICES ASSUME Init PROVE IInv
  OBVIOUS
<1>1. TypeOK
  BY IdType, SMT DEF Init, TypeOK, Await, NoCall, NoWait, Open, Terminal, NoStatus
<1>2. IssuedInOrder /\ OneLedger /\ Stages /\ SettledIsTerminal /\ OneCompletion
  BY IdType, SMT DEF Init, IssuedInOrder, OneLedger, Stages, SettledIsTerminal, OneCompletion,
     Open, Terminal, NoStatus
<1>3. NoLostCompletion /\ NoLeakedWaiter /\ HonestOutcome
  BY SMT DEF Init, NoLostCompletion, NoLeakedWaiter, HonestOutcome, NoWait
<1> QED BY <1>1, <1>2, <1>3 DEF IInv, RecordsInv, AwaitsInv

-----------------------------------------------------------------------------
(* Settling                                                                *)

\* A set of numbers has a least element.
LEMMA Least ==
  ASSUME NEW S \in SUBSET Nat, S # {}
  PROVE  \E i \in S : \A j \in S : i <= j
<1> DEFINE R == OpToRel(<, Nat)
<1>1. \E i \in S : \A j \in S : ~(<<j, i>> \in R)
  <2> HIDE DEF R
  <2>1. IsWellFoundedOn(R, Nat)
    BY NatLessThanWellFounded DEF R
  <2> QED BY <2>1, WFMin
<1>2. \A i \in Nat, j \in Nat : j < i => <<j, i>> \in R
  BY DEF OpToRel
<1>3. \E i \in S : \A j \in S : ~(j < i)
  <2> HIDE DEF R
  <2> QED BY <1>1, <1>2, Zenon
<1> HIDE DEF R
<1> QED BY <1>3, SMT

\* The oldest of some calls is one of them.
LEMMA OldestFacts ==
  ASSUME NEW S \in SUBSET Id
  PROVE  /\ Oldest(S) \subseteq S
         /\ S # {} => Oldest(S) # {}
<1>1. CASE S = {}
  BY <1>1 DEF Oldest
<1>2. CASE S # {}
  <2>1. S \in SUBSET Nat
    BY IdType
  <2>2. \E i \in S : \A j \in S : i <= j
    BY <1>2, <2>1, Least
  <2> QED BY <1>2, <2>2 DEF Oldest
<1> QED BY <1>1, <1>2

\* An await hears of calls it asked for only, of all of them if it waits for
\* all, and of one at least in any case.
LEMMA HearFacts ==
  ASSUME TypeOK, NEW w \in Wait, NEW S \in SUBSET Id
  PROVE  /\ Hear(w, S) = [wait[w] EXCEPT !.got = Hear(w, S).got]
         /\ wait[w].got \subseteq Hear(w, S).got
         /\ Hear(w, S).got \subseteq wait[w].got \cup (S \cap wait[w].ids)
         /\ w \notin listeners => Hear(w, S).got = wait[w].got
         /\ w \in listeners /\ wait[w].all =>
              Hear(w, S).got = wait[w].got \cup (S \cap wait[w].ids)
         /\ w \in listeners /\ S \cap wait[w].ids # {} => Hear(w, S).got # {}
<1> DEFINE a == wait[w]
           H == S \cap a.ids
<1>1. a = [outcome |-> a.outcome, ids |-> a.ids, all |-> a.all, got |-> a.got, by |-> a.by]
      /\ a.all \in BOOLEAN
  BY DEF TypeOK, Await
<1>2. Oldest(H) \subseteq H /\ (H # {} => Oldest(H) # {})
  BY OldestFacts
<1>3. CASE w \notin listeners
  <2>1. Hear(w, S) = a
    BY <1>3 DEF Hear
  <2> QED BY <1>1, <1>3, <2>1
<1>4. CASE w \in listeners
  <2>1. Hear(w, S) = [a EXCEPT !.got = @ \cup (IF a.all THEN H ELSE Oldest(H))]
    BY <1>4 DEF Hear
  <2>2. Hear(w, S).got = a.got \cup (IF a.all THEN H ELSE Oldest(H))
    BY <1>1, <2>1
  <2>3. Hear(w, S) = [a EXCEPT !.got = Hear(w, S).got]
    BY <2>1, <2>2
  <2> HIDE DEF a, H
  <2>4. H # {} => Hear(w, S).got # {}
    BY <1>2, <2>2
  <2>5. a.got \subseteq Hear(w, S).got /\ Hear(w, S).got \subseteq a.got \cup H
        /\ (a.all => Hear(w, S).got = a.got \cup H)
    BY <1>2, <2>2
  <2> QED BY <1>4, <2>3, <2>4, <2>5 DEF a, H
<1> QED BY <1>3, <1>4

\* When calls settle, the awaits keep their part of the invariant.
LEMMA AwaitsHear ==
  ASSUME IInv, NEW S \in SUBSET active, NEW s \in Terminal, Archive(S, s)
  PROVE  /\ wait' \in [Wait -> Await]
         /\ listeners' \subseteq Wait
         /\ pendingWaiters' \in [0..MaxCalls -> SUBSET Wait]
         /\ NoLostCompletion'
         /\ NoLeakedWaiter'
         /\ HonestOutcome'
<1> DEFINE done == {w \in listeners : Hear(w, S).got # wait[w].got /\ Satisfied(Hear(w, S))}
<1>1. TypeOK /\ S \subseteq Id /\ Id \subseteq 0..MaxCalls
  BY IdType DEF IInv, RecordsInv, AwaitsInv, TypeOK
<1>2. /\ wait' = [w \in Wait |-> IF w \in done THEN [Hear(w, S) EXCEPT !.outcome = "ready"]
                                 ELSE Hear(w, S)]
      /\ listeners' = listeners \ done
      /\ pendingWaiters' = [i \in 0..MaxCalls |-> pendingWaiters[i] \ done]
      /\ ledger' = [i \in Id |-> IF i \in S THEN s ELSE ledger[i]]
  BY DEF Archive, EmitComplete, CleanUp
<1>3. \A w \in Wait :
        /\ wait'[w].outcome = IF w \in done THEN "ready" ELSE wait[w].outcome
        /\ wait'[w].ids = wait[w].ids
        /\ wait'[w].all = wait[w].all
        /\ wait'[w].by = wait[w].by
        /\ wait'[w].got = Hear(w, S).got
        /\ wait'[w] = [outcome |-> wait'[w].outcome, ids |-> wait[w].ids, all |-> wait[w].all,
                       got |-> wait'[w].got, by |-> wait[w].by]
  <2> SUFFICES ASSUME NEW w \in Wait
               PROVE  /\ wait'[w].outcome = IF w \in done THEN "ready" ELSE wait[w].outcome
                      /\ wait'[w].ids = wait[w].ids
                      /\ wait'[w].all = wait[w].all
                      /\ wait'[w].by = wait[w].by
                      /\ wait'[w].got = Hear(w, S).got
                      /\ wait'[w] = [outcome |-> wait'[w].outcome, ids |-> wait[w].ids,
                                     all |-> wait[w].all, got |-> wait'[w].got, by |-> wait[w].by]
    OBVIOUS
  <2> DEFINE g == Hear(w, S).got
  <2>1. Hear(w, S) = [wait[w] EXCEPT !.got = g]
    BY <1>1, HearFacts
  <2>2. wait'[w] = IF w \in done THEN [Hear(w, S) EXCEPT !.outcome = "ready"] ELSE Hear(w, S)
    BY <1>2
  <2>3. wait[w] = [outcome |-> wait[w].outcome, ids |-> wait[w].ids, all |-> wait[w].all,
                   got |-> wait[w].got, by |-> wait[w].by]
    BY <1>1 DEF TypeOK, Await
  <2> HIDE DEF done, g
  <2>4. Hear(w, S) = [outcome |-> wait[w].outcome, ids |-> wait[w].ids, all |-> wait[w].all,
                      got |-> g, by |-> wait[w].by]
    BY <2>1, <2>3
  <2> QED BY <2>2, <2>4 DEF g
<1>4. \A w \in Wait : wait'[w].got \subseteq 0..MaxCalls
  <2> SUFFICES ASSUME NEW w \in Wait PROVE wait'[w].got \subseteq 0..MaxCalls
    OBVIOUS
  <2>1. wait[w].got \subseteq 0..MaxCalls
    BY <1>1 DEF TypeOK, Await
  <2>2. Hear(w, S).got \subseteq wait[w].got \cup S
    BY <1>1, HearFacts
  <2> QED BY <1>1, <1>3, <2>1, <2>2
<1>5. \A w \in Wait : Satisfied(wait'[w]) <=> Satisfied(Hear(w, S))
  <2> SUFFICES ASSUME NEW w \in Wait PROVE Satisfied(wait'[w]) <=> Satisfied(Hear(w, S))
    OBVIOUS
  <2>1. Hear(w, S).ids = wait[w].ids /\ Hear(w, S).all = wait[w].all
    <3>1. Hear(w, S) = [wait[w] EXCEPT !.got = Hear(w, S).got]
      BY <1>1, HearFacts
    <3>2. wait[w] = [outcome |-> wait[w].outcome, ids |-> wait[w].ids, all |-> wait[w].all,
                     got |-> wait[w].got, by |-> wait[w].by]
      BY <1>1 DEF TypeOK, Await
    <3> QED BY <3>1, <3>2
  <2> HIDE DEF done
  <2> QED BY <1>3, <2>1 DEF Satisfied
<1> HIDE DEF done
<1>6. wait' \in [Wait -> Await]
  <2>1. \A w \in Wait : wait'[w] \in Await
    <3> SUFFICES ASSUME NEW w \in Wait PROVE wait'[w] \in Await
      OBVIOUS
    <3>1. wait[w] \in Await
      BY <1>1 DEF TypeOK
    <3>2. wait'[w].outcome \in {"idle", "pending", "ready", "timed_out", "aborted", "denied",
                                "invalid"}
      BY <1>3, <3>1 DEF Await
    <3>3. wait'[w].got \in SUBSET (0..MaxCalls)
      BY <1>4
    <3>4. wait'[w] = [outcome |-> wait'[w].outcome, ids |-> wait[w].ids, all |-> wait[w].all,
                      got |-> wait'[w].got, by |-> wait[w].by]
      BY <1>3
    <3> QED BY <3>1, <3>2, <3>3, <3>4 DEF Await
  <2>2. wait' = [w \in Wait |-> wait'[w]]
    BY <1>2
  <2> QED BY <2>1, <2>2
<1>7. listeners' \subseteq Wait /\ pendingWaiters' \in [0..MaxCalls -> SUBSET Wait]
  BY <1>1, <1>2 DEF TypeOK
<1>8. NoLostCompletion'
  <2> SUFFICES ASSUME NEW w \in listeners'
               PROVE  /\ wait'[w].outcome = "pending"
                      /\ wait'[w].got = {i \in wait'[w].ids \cap Id : ledger'[i] # NoStatus}
                      /\ ~Satisfied(wait'[w])
    BY DEF NoLostCompletion
  <2>1. w \in Wait /\ w \in listeners /\ w \notin done
    BY <1>1, <1>2 DEF TypeOK
  <2>2. /\ wait[w].outcome = "pending" /\ ~Satisfied(wait[w])
        /\ wait[w].got = {i \in wait[w].ids \cap Id : ledger[i] # NoStatus}
    BY <2>1 DEF IInv, RecordsInv, AwaitsInv, NoLostCompletion
  <2>3. wait'[w].outcome = "pending" /\ wait'[w].ids = wait[w].ids
        /\ wait'[w].got = Hear(w, S).got
    BY <1>3, <2>1, <2>2
  <2>4. Hear(w, S).got = wait[w].got \/ ~Satisfied(Hear(w, S))
    BY <2>1 DEF done
  <2>5. wait[w].all = wait'[w].all /\ wait[w].all \in BOOLEAN
    BY <1>1, <1>3, <2>1 DEF TypeOK, Await
  <2>6. ~Satisfied(wait'[w])
    <3>1. Hear(w, S).got = wait[w].got => (Satisfied(wait'[w]) <=> Satisfied(wait[w]))
      BY <2>3, <2>5 DEF Satisfied
    <3> QED BY <1>5, <2>1, <2>2, <2>4, <3>1
  <2>7. Hear(w, S).got = wait[w].got \cup (S \cap wait[w].ids)
    <3>1. CASE wait[w].all
      BY <1>1, <2>1, <3>1, HearFacts
    <3>2. CASE ~wait[w].all
      <4>1. Hear(w, S).got = {} /\ wait[w].got = {}
        BY <2>2, <2>3, <2>5, <2>6, <3>2 DEF Satisfied
      <4>2. S \cap wait[w].ids = {}
        BY <1>1, <2>1, <4>1, HearFacts
      <4> QED BY <4>1, <4>2
    <3> QED BY <3>1, <3>2
  <2>8. \A i \in Id : ledger'[i] # NoStatus <=> (ledger[i] # NoStatus \/ i \in S)
    BY <1>1, <1>2 DEF Terminal, NoStatus
  <2>9. wait'[w].got = {i \in wait'[w].ids \cap Id : ledger'[i] # NoStatus}
    BY <1>1, <2>2, <2>3, <2>7, <2>8
  <2> QED BY <2>3, <2>6, <2>9
<1>9. NoLeakedWaiter'
  <2> SUFFICES ASSUME NEW i \in 0..MaxCalls
               PROVE  pendingWaiters'[i] = {w \in listeners' : i \in wait'[w].ids}
    BY DEF NoLeakedWaiter
  <2>1. pendingWaiters[i] = {w \in listeners : i \in wait[w].ids}
    BY DEF IInv, RecordsInv, AwaitsInv, NoLeakedWaiter
  <2>2. \A w \in listeners : w \in Wait /\ wait'[w].ids = wait[w].ids
    BY <1>1, <1>3 DEF TypeOK
  <2>3. pendingWaiters'[i] = pendingWaiters[i] \ done /\ listeners' = listeners \ done
    BY <1>2
  <2> QED BY <2>1, <2>2, <2>3
<1>10. HonestOutcome'
  <2> SUFFICES ASSUME NEW w \in Wait
               PROVE  /\ wait'[w].outcome = "ready" => Satisfied(wait'[w])
                      /\ wait'[w].outcome \in {"pending", "timed_out", "aborted"} =>
                           ~Satisfied(wait'[w])
    BY DEF HonestOutcome
  <2>1. CASE w \in done
    BY <1>3, <1>5, <2>1 DEF done
  <2>2. CASE w \in listeners /\ w \notin done
    BY <1>2, <1>8, <2>2 DEF NoLostCompletion
  <2>3. CASE w \notin listeners
    <3>1. w \notin done /\ Hear(w, S).got = wait[w].got
      BY <1>1, <2>3, HearFacts DEF done
    <3>2. Satisfied(wait'[w]) <=> Satisfied(wait[w])
      BY <1>3, <3>1 DEF Satisfied
    <3> QED BY <1>3, <3>1, <3>2 DEF IInv, RecordsInv, AwaitsInv, HonestOutcome
  <2> QED BY <2>1, <2>2, <2>3
<1> QED BY <1>6, <1>7, <1>8, <1>9, <1>10

\* However calls settle, by a result, a timeout or a cancellation, the
\* invariant is kept.
LEMMA SettleStep ==
  ASSUME IInv, NEW S \in SUBSET active, NEW s \in Terminal,
         SettleDispatch(S \cap controls), Archive(S, s),
         microtasks' = microtasks, turns' \subseteq turns,
         \A i \in turns \ turns' : i \in S \/ i \notin active,
         S \cap microtasks # {} => s = "cancelled",
         aborted' = aborted, registry' \subseteq Key, deaths' \in Nat, resets' = resets
  PROVE  IInv'
<1> USE IdType
<1>1. TypeOK /\ S \subseteq Id
  BY DEF IInv, RecordsInv, AwaitsInv, TypeOK
<1>2. /\ active' = active \ S /\ issued' = issued /\ call' = call
      /\ status' = [i \in Id |-> IF i \in S THEN s ELSE status[i]]
      /\ ledger' = [i \in Id |-> IF i \in S THEN s ELSE ledger[i]]
      /\ lastEvent' = [i \in Id |-> IF i \in S THEN "complete" ELSE lastEvent[i]]
      /\ completions' = [i \in Id |-> completions[i] + IF i \in S THEN 1 ELSE 0]
  BY DEF Archive, EmitComplete
<1>3. /\ settled' = settled \cup (S \cap controls)
      /\ timers' = timers \ (S \cap controls)
      /\ controls' = controls \ (S \cap controls)
  BY DEF SettleDispatch
<1>4. \A i \in S : /\ i \in Id /\ status[i] \in Open /\ ledger[i] = NoStatus
                   /\ i \in microtasks \/ i \in controls
                   /\ i \in timers => i \in controls
  BY <1>1 DEF IInv, RecordsInv, AwaitsInv, TypeOK, OneLedger, Stages, Open
<1>5. TypeOK'
  <2>1. /\ issued' \in 0..MaxCalls /\ call' = call
        /\ status' \in [Id -> Open \cup Terminal \cup {NoStatus}]
        /\ active' \subseteq Id
        /\ ledger' \in [Id -> Terminal \cup {NoStatus}]
    BY <1>1, <1>2 DEF TypeOK
  <2>2. microtasks' \subseteq Id /\ turns' \subseteq Id /\ timers' \subseteq Id
        /\ settled' \subseteq Id /\ controls' \subseteq Id
    BY <1>1, <1>3 DEF TypeOK
  <2>3. lastEvent' \in [Id -> {"none", "start", "chunk", "complete"}]
    BY <1>1, <1>2 DEF TypeOK
  <2>4. completions' \in [Id -> Nat]
    BY <1>1, <1>2, SMT DEF TypeOK
  <2>5. wait' \in [Wait -> Await] /\ listeners' \subseteq Wait
        /\ pendingWaiters' \in [0..MaxCalls -> SUBSET Wait]
    BY AwaitsHear
  <2> QED BY <1>1, <2>1, <2>2, <2>3, <2>4, <2>5 DEF TypeOK
<1>6. IssuedInOrder'
  BY <1>1, <1>2, <1>4, SMT DEF IInv, RecordsInv, AwaitsInv, IssuedInOrder, TypeOK, Open,
     Terminal, NoStatus
<1>7. OneLedger'
  BY <1>1, <1>2, <1>4, SMT DEF IInv, RecordsInv, AwaitsInv, OneLedger, TypeOK, Open, Terminal,
     NoStatus
<1>8. Stages'
  <2> SUFFICES ASSUME NEW i \in Id
               PROVE  /\ i \in microtasks' => /\ status'[i] \in {"pending", "cancelled"}
                                              /\ i \notin turns' /\ i \notin timers'
                                              /\ i \notin controls' /\ i \notin settled'
                      /\ i \in active' /\ status'[i] = "pending" => i \in microtasks'
                      /\ i \in active' /\ status'[i] = "running" =>
                           /\ i \in turns' /\ i \in controls' /\ i \notin settled'
                           /\ call'[i].timed => i \in timers'
                      /\ status'[i] = NoStatus => /\ i \notin microtasks' /\ i \notin turns'
                                                  /\ i \notin timers' /\ i \notin controls'
                                                  /\ i \notin settled'
    BY DEF Stages
  <2>1. CASE i \in S
    BY <1>1, <1>2, <1>3, <1>4, <2>1 DEF IInv, RecordsInv, AwaitsInv, Stages, Terminal, NoStatus
  <2>2. CASE i \notin S
    BY <1>1, <1>2, <1>3, <2>2 DEF IInv, RecordsInv, AwaitsInv, Stages
  <2> QED BY <2>1, <2>2
<1>9. SettledIsTerminal'
  BY <1>1, <1>2, <1>3, <1>4 DEF IInv, RecordsInv, AwaitsInv, SettledIsTerminal
<1>10. OneCompletion'
  BY <1>1, <1>2, <1>4, SMT DEF IInv, RecordsInv, AwaitsInv, OneCompletion, TypeOK, Open,
     Terminal, NoStatus
<1>11. NoLostCompletion' /\ NoLeakedWaiter' /\ HonestOutcome'
  BY AwaitsHear
<1> QED BY <1>5, <1>6, <1>7, <1>8, <1>9, <1>10, <1>11 DEF IInv, RecordsInv, AwaitsInv

-----------------------------------------------------------------------------
(* The actions                                                             *)

\* Awaits that are not touched keep their part, as long as the history is the
\* same.
LEMMA AwaitsKept ==
  ASSUME IInv, UNCHANGED <<awaits, ledger>>
  PROVE  NoLostCompletion' /\ NoLeakedWaiter' /\ HonestOutcome'
BY DEF IInv, RecordsInv, AwaitsInv, awaits, NoLostCompletion, NoLeakedWaiter, HonestOutcome,
   Satisfied

LEMMA InvokeAgentInv ==
  ASSUME IInv, NEW c \in Call, NEW j \in {0} \cup turns, InvokeAgent(c, j)
  PROVE  IInv'
<1> USE IdType
<1> DEFINE i == issued + 1
           r == [from |-> c.from, to |-> c.to, timed |-> c.timed,
                 shown |-> {Display(c.from), Display(c.to)},
                 parties |-> {Party(c.from), Party(c.to)},
                 depth |-> Depth(j), parent |-> j]
<1>1. TypeOK /\ i \in Id /\ i \in Nat
  <2>1. issued \in 0..MaxCalls /\ issued < MaxCalls
    BY DEF IInv, RecordsInv, AwaitsInv, TypeOK, InvokeAgent
  <2> QED BY <2>1, SMT DEF IInv, RecordsInv, AwaitsInv, Id
<1>2. /\ issued' = i
      /\ call' = [call EXCEPT ![i] = r]
      /\ status' = [status EXCEPT ![i] = "pending"]
      /\ active' = active \cup {i}
      /\ lastEvent' = [lastEvent EXCEPT ![i] = "start"]
      /\ microtasks' = microtasks \cup {i}
      /\ UNCHANGED <<ledger, turns, timers, settled, controls, completions, awaits, aborted,
                     agents, resets>>
  BY DEF InvokeAgent
<1>3. /\ status[i] = NoStatus /\ ledger[i] = NoStatus /\ i \notin active
      /\ i \notin turns /\ i \notin timers /\ i \notin controls /\ i \notin settled
      /\ completions[i] = 0
  BY <1>1, SMT DEF IInv, RecordsInv, AwaitsInv, TypeOK, IssuedInOrder, OneLedger, Stages,
     OneCompletion, Terminal, Open,
     NoStatus
<1>4. r \in [from : Ident \cup {NoKey}, to : Ident \cup {NoKey}, timed : BOOLEAN,
             shown : SUBSET Ident, parties : SUBSET (Key \cup {NoKey}),
             depth : 0..MaxDepth, parent : 0..MaxCalls]
  <2>1. c.from \in Ident /\ c.to \in Ident /\ c.timed \in BOOLEAN
    BY CallAssumption
  <2>2. registry \subseteq Key
    BY <1>1 DEF TypeOK
  <2>3. \A x \in Ident : Resolve(x) \in Key \cup {NoKey}
    BY <2>2 DEF Resolve, Named
  <2>4. \A x \in Ident : Display(x) \in Ident /\ Party(x) \in Key \cup {NoKey}
    BY <2>3, AgentAssumption DEF Display, Party, Ident
  <2>5. Depth(j) \in 0..MaxDepth
    <3>1. Depth(j) <= MaxDepth
      BY DEF InvokeAgent
    <3>2. j # 0 => call[j].depth \in Nat
      BY <1>1, SMT DEF TypeOK
    <3> QED BY <3>1, <3>2, SMT DEF Depth
  <2>6. j \in 0..MaxCalls
    BY <1>1, SMT DEF TypeOK
  <2> QED BY <2>1, <2>4, <2>5, <2>6
<1> HIDE DEF r, i
<1>5. TypeOK'
  <2>1. call' \in [Id -> [from : Ident \cup {NoKey}, to : Ident \cup {NoKey}, timed : BOOLEAN,
             shown : SUBSET Ident, parties : SUBSET (Key \cup {NoKey}),
             depth : 0..MaxDepth, parent : 0..MaxCalls]]
    BY <1>1, <1>2, <1>4 DEF TypeOK
  <2>2. issued' \in 0..MaxCalls
    BY <1>1, <1>2, SMT
  <2>3. /\ status' \in [Id -> Open \cup Terminal \cup {NoStatus}]
        /\ lastEvent' \in [Id -> {"none", "start", "chunk", "complete"}]
        /\ active' \subseteq Id /\ microtasks' \subseteq Id
    BY <1>1, <1>2 DEF TypeOK, Open
  <2> QED BY <1>1, <1>2, <2>1, <2>2, <2>3 DEF TypeOK, awaits, agents
<1>6. IssuedInOrder'
  <2>1. i = issued + 1 /\ issued \in Nat
    BY <1>1, SMT DEF TypeOK, i
  <2>2. \A k \in Id : (status[k] = NoStatus) = (k > issued)
    BY DEF IInv, RecordsInv, AwaitsInv, IssuedInOrder
  <2>3. \A k \in Id : status'[k] = IF k = i THEN "pending" ELSE status[k]
    BY <1>1, <1>2 DEF TypeOK
  <2>4. \A k \in Id : (k > i) = (k > issued /\ k # i)
    BY <2>1, SMT
  <2> QED BY <1>1, <1>2, <2>2, <2>3, <2>4 DEF IssuedInOrder, NoStatus
<1>7. OneLedger' /\ SettledIsTerminal' /\ OneCompletion'
  BY <1>1, <1>2, <1>3 DEF IInv, RecordsInv, AwaitsInv, OneLedger, SettledIsTerminal,
     OneCompletion, TypeOK, Open,
     Terminal, NoStatus
<1>8. Stages'
  <2> SUFFICES ASSUME NEW k \in Id
               PROVE  /\ k \in microtasks' => /\ status'[k] \in {"pending", "cancelled"}
                                              /\ k \notin turns' /\ k \notin timers'
                                              /\ k \notin controls' /\ k \notin settled'
                      /\ k \in active' /\ status'[k] = "pending" => k \in microtasks'
                      /\ k \in active' /\ status'[k] = "running" =>
                           /\ k \in turns' /\ k \in controls' /\ k \notin settled'
                           /\ call'[k].timed => k \in timers'
                      /\ status'[k] = NoStatus => /\ k \notin microtasks' /\ k \notin turns'
                                                  /\ k \notin timers' /\ k \notin controls'
                                                  /\ k \notin settled'
    BY DEF Stages
  <2>1. CASE k = i
    BY <1>1, <1>2, <1>3, <2>1 DEF TypeOK, NoStatus
  <2>2. CASE k # i
    BY <1>1, <1>2, <2>2 DEF IInv, RecordsInv, AwaitsInv, Stages, TypeOK
  <2> QED BY <2>1, <2>2
<1>9. NoLostCompletion' /\ NoLeakedWaiter' /\ HonestOutcome'
  BY <1>2, AwaitsKept
<1> QED BY <1>5, <1>6, <1>7, <1>8, <1>9 DEF IInv, RecordsInv, AwaitsInv

LEMMA DispatchInv ==
  ASSUME IInv, NEW i \in Id, Dispatch(i)
  PROVE  IInv'
<1> USE IdType
<1>1. TypeOK /\ i \in microtasks /\ microtasks' = microtasks \ {i}
      /\ UNCHANGED <<issued, call, active, ledger, settled, events, awaits, aborted, agents, resets>>
  BY DEF IInv, RecordsInv, AwaitsInv, Dispatch
<1>2. NoLostCompletion' /\ NoLeakedWaiter' /\ HonestOutcome'
  BY <1>1, AwaitsKept
<1>3. CASE i \in active /\ status[i] # "cancelled"
  <2>1. /\ turns' = turns \cup {i} /\ controls' = controls \cup {i}
        /\ status' = [status EXCEPT ![i] = "running"]
        /\ timers' = IF call[i].timed THEN timers \cup {i} ELSE timers
    BY <1>3 DEF Dispatch
  <2>2. status[i] = "pending" /\ i \notin settled
    BY <1>1, <1>3 DEF IInv, RecordsInv, AwaitsInv, Stages
  <2>3. TypeOK'
    BY <1>1, <2>1 DEF TypeOK, Open, events, awaits, agents
  <2>4. IssuedInOrder' /\ OneLedger' /\ SettledIsTerminal'
    BY <1>1, <2>1, <2>2 DEF IInv, RecordsInv, AwaitsInv, IssuedInOrder, OneLedger,
       SettledIsTerminal, TypeOK, Open,
       Terminal, NoStatus
  <2>5. OneCompletion'
    BY <1>1, <2>1, <2>2 DEF IInv, RecordsInv, AwaitsInv, OneCompletion, TypeOK, Open, Terminal,
       NoStatus, events
  <2>6. Stages'
    BY <1>1, <1>3, <2>1, <2>2 DEF IInv, RecordsInv, AwaitsInv, Stages, TypeOK, NoStatus
  <2> QED BY <1>2, <2>3, <2>4, <2>5, <2>6 DEF IInv, RecordsInv, AwaitsInv
<1>4. CASE ~(i \in active /\ status[i] # "cancelled")
  <2>1. UNCHANGED <<turns, controls, status, timers>>
    BY <1>4 DEF Dispatch
  <2>2. TypeOK'
    BY <1>1, <2>1 DEF TypeOK, events, awaits, agents
  <2>3. IssuedInOrder' /\ OneLedger' /\ SettledIsTerminal' /\ OneCompletion'
    BY <1>1, <2>1 DEF IInv, RecordsInv, AwaitsInv, IssuedInOrder, OneLedger, SettledIsTerminal,
       OneCompletion, events
  <2>4. Stages'
    BY <1>1, <1>4, <2>1 DEF IInv, RecordsInv, AwaitsInv, Stages, OneLedger, Open
  <2> QED BY <1>2, <2>2, <2>3, <2>4 DEF IInv, RecordsInv, AwaitsInv
<1> QED BY <1>3, <1>4

LEMMA TurnSettlesInv ==
  ASSUME IInv, NEW i \in Id, NEW s \in {"completed", "error"}, TurnSettles(i, s)
  PROVE  IInv'
<1>1. TypeOK /\ i \in turns /\ turns' = turns \ {i}
      /\ UNCHANGED <<microtasks, aborted, agents, resets>>
  BY DEF IInv, RecordsInv, AwaitsInv, TurnSettles
<1>2. CASE Live(i)
  <2>1. {i} \in SUBSET active /\ i \notin microtasks /\ i \in controls
    BY <1>1, <1>2 DEF Live, IInv, RecordsInv, AwaitsInv, Stages, OneLedger, Open
  <2>2. {i} \cap controls = {i} /\ s \in Terminal
    BY <2>1 DEF Terminal
  <2>3. SettleDispatch({i} \cap controls) /\ Archive({i}, s)
    BY <1>2, <2>2 DEF TurnSettles
  <2>4. registry' \subseteq Key /\ deaths' \in Nat
    BY <1>1 DEF TypeOK, agents
  <2> QED BY <1>1, <2>1, <2>2, <2>3, <2>4, SettleStep
<1>3. CASE ~Live(i)
  <2>1. UNCHANGED <<records, timers, settled, controls, events, awaits>>
    BY <1>3 DEF TurnSettles
  <2>2. i \notin active
    BY <1>3 DEF Live, IInv, RecordsInv, AwaitsInv, OneLedger, SettledIsTerminal, Open, Terminal
  <2>3. TypeOK'
    BY <1>1, <2>1 DEF TypeOK, records, events, awaits, agents
  <2>4. IssuedInOrder' /\ OneLedger' /\ SettledIsTerminal' /\ OneCompletion'
    BY <1>1, <2>1 DEF IInv, RecordsInv, AwaitsInv, IssuedInOrder, OneLedger, SettledIsTerminal,
       OneCompletion, events,
       records
  <2>5. Stages'
    BY <1>1, <2>1, <2>2 DEF IInv, RecordsInv, AwaitsInv, Stages, records
  <2>6. NoLostCompletion' /\ NoLeakedWaiter' /\ HonestOutcome'
    BY <2>1, AwaitsKept DEF records
  <2> QED BY <2>3, <2>4, <2>5, <2>6 DEF IInv, RecordsInv, AwaitsInv
<1> QED BY <1>2, <1>3

LEMMA ChunkInv ==
  ASSUME IInv, NEW i \in Id, Chunk(i)
  PROVE  IInv'
<1>1. TypeOK /\ i \in active /\ lastEvent' = [lastEvent EXCEPT ![i] = "chunk"]
      /\ UNCHANGED <<records, dispatch, completions, awaits, aborted, agents, resets>>
  BY DEF IInv, RecordsInv, AwaitsInv, Chunk, Live
<1>2. TypeOK'
  BY <1>1 DEF TypeOK, records, dispatch, awaits, agents
<1>3. IssuedInOrder' /\ OneLedger' /\ SettledIsTerminal' /\ Stages'
  BY <1>1 DEF IInv, RecordsInv, AwaitsInv, IssuedInOrder, OneLedger, SettledIsTerminal, Stages,
     records, dispatch
<1>4. OneCompletion'
  <2>1. status[i] \in Open
    BY <1>1 DEF IInv, RecordsInv, AwaitsInv, OneLedger
  <2> QED BY <1>1, <2>1 DEF IInv, RecordsInv, AwaitsInv, OneCompletion, TypeOK, records, Open,
     Terminal, NoStatus
<1>5. NoLostCompletion' /\ NoLeakedWaiter' /\ HonestOutcome'
  BY <1>1, AwaitsKept DEF records
<1> QED BY <1>2, <1>3, <1>4, <1>5 DEF IInv, RecordsInv, AwaitsInv

LEMMA CallTimeoutInv ==
  ASSUME IInv, NEW i \in Id, CallTimeout(i)
  PROVE  IInv'
<1>1. TypeOK /\ i \in timers /\ UNCHANGED <<microtasks, turns, aborted, agents, resets>>
  BY DEF IInv, RecordsInv, AwaitsInv, CallTimeout
<1>2. CASE Live(i)
  <2>1. {i} \in SUBSET active /\ i \notin microtasks /\ i \in controls
    BY <1>1, <1>2 DEF Live, IInv, RecordsInv, AwaitsInv, Stages, OneLedger, Open
  <2>2. {i} \cap controls = {i} /\ "timed_out" \in Terminal
    BY <2>1 DEF Terminal
  <2>3. SettleDispatch({i} \cap controls) /\ Archive({i}, "timed_out")
    BY <1>2, <2>2 DEF CallTimeout
  <2>4. registry' \subseteq Key /\ deaths' \in Nat
    BY <1>1 DEF TypeOK, agents
  <2> QED BY <1>1, <2>1, <2>2, <2>3, <2>4, SettleStep
<1>3. CASE ~Live(i)
  <2>1. timers' = timers \ {i} /\ UNCHANGED <<records, settled, controls, events, awaits>>
    BY <1>3 DEF CallTimeout
  <2>2. i \notin active
    BY <1>3 DEF Live, IInv, RecordsInv, AwaitsInv, OneLedger, SettledIsTerminal, Open, Terminal
  <2>3. TypeOK'
    BY <1>1, <2>1 DEF TypeOK, records, events, awaits, agents
  <2>4. IssuedInOrder' /\ OneLedger' /\ SettledIsTerminal' /\ OneCompletion'
    BY <1>1, <2>1 DEF IInv, RecordsInv, AwaitsInv, IssuedInOrder, OneLedger, SettledIsTerminal,
       OneCompletion, events,
       records
  <2>5. Stages'
    BY <1>1, <2>1, <2>2 DEF IInv, RecordsInv, AwaitsInv, Stages, records
  <2>6. NoLostCompletion' /\ NoLeakedWaiter' /\ HonestOutcome'
    BY <2>1, AwaitsKept DEF records
  <2> QED BY <2>3, <2>4, <2>5, <2>6 DEF IInv, RecordsInv, AwaitsInv
<1> QED BY <1>2, <1>3

LEMMA KillInv ==
  ASSUME IInv, NEW k \in Key, Kill(k)
  PROVE  IInv'
<1> DEFINE S == {i \in active : Involves(i, k)}
<1>1. S \in SUBSET active /\ "cancelled" \in Terminal
  BY DEF Terminal
<1>2. SettleDispatch(S \cap controls) /\ Archive(S, "cancelled")
  BY DEF Kill, CancelPending
<1> HIDE DEF S
<1>3. registry' \subseteq Key /\ deaths' \in Nat
  BY SMT DEF Kill, IInv, RecordsInv, AwaitsInv, TypeOK
<1>4. UNCHANGED <<microtasks, turns, aborted, resets>>
  BY DEF Kill
<1> QED BY <1>1, <1>2, <1>3, <1>4, SettleStep

LEMMA RestoreInv ==
  ASSUME IInv, NEW k \in Key, Restore(k)
  PROVE  IInv'
<1>1. UNCHANGED <<records, dispatch, events, awaits, aborted, deaths, resets>>
      /\ registry' = registry \cup {k}
  BY DEF Restore
<1>2. TypeOK'
  BY <1>1 DEF IInv, RecordsInv, AwaitsInv, TypeOK, records, dispatch, events, awaits
<1>3. IssuedInOrder' /\ OneLedger' /\ SettledIsTerminal' /\ Stages' /\ OneCompletion'
  BY <1>1 DEF IInv, RecordsInv, AwaitsInv, IssuedInOrder, OneLedger, SettledIsTerminal, Stages,
     OneCompletion, records,
     dispatch, events
<1>4. NoLostCompletion' /\ NoLeakedWaiter' /\ HonestOutcome'
  BY <1>1, AwaitsKept DEF records
<1> QED BY <1>2, <1>3, <1>4 DEF IInv, RecordsInv, AwaitsInv

\* The calls are untouched: everything but the awaits keeps its part.
LEMMA CallsKept ==
  ASSUME IInv, UNCHANGED <<records, dispatch, events>>
  PROVE  IssuedInOrder' /\ OneLedger' /\ SettledIsTerminal' /\ Stages' /\ OneCompletion'
BY DEF IInv, RecordsInv, AwaitsInv, IssuedInOrder, OneLedger, SettledIsTerminal, Stages,
   OneCompletion, records,
   dispatch, events

LEMMA WaitForInvocationInv ==
  ASSUME IInv, NEW w \in Wait, NEW c \in AwaitCaller, NEW ids \in SUBSET (0..issued),
         NEW all \in BOOLEAN, WaitForInvocation(w, c, ids, all)
  PROVE  IInv'
<1> USE IdType
<1> DEFINE G == {i \in ids \cap Id : ledger[i] # NoStatus}
           a == [outcome |-> "pending", ids |-> ids, all |-> all, got |-> G, by |-> c]
           o == OutcomeAtStart(w, c, a)
<1>1. /\ TypeOK /\ wait[w].outcome = "idle"
      /\ wait' = [wait EXCEPT ![w] = IF o = "denied" THEN [a EXCEPT !.outcome = o, !.got = {}]
                                     ELSE [a EXCEPT !.outcome = o]]
      /\ IF o = "pending"
         THEN /\ listeners' = listeners \cup {w}
              /\ pendingWaiters' = [i \in 0..MaxCalls |->
                                      pendingWaiters[i] \cup IF i \in ids THEN {w} ELSE {}]
         ELSE UNCHANGED <<listeners, pendingWaiters>>
      /\ UNCHANGED <<records, dispatch, events, aborted, agents, resets>>
  BY DEF IInv, RecordsInv, AwaitsInv, WaitForInvocation
<1>2. /\ o \in {"denied", "invalid", "ready", "aborted", "pending"}
      /\ o = "ready" => Satisfied(a)
      /\ o \in {"pending", "aborted"} => ~Satisfied(a)
  <2> HIDE DEF a
  <2>1. o \in {"denied", "invalid", "ready", "aborted", "pending"}
    BY DEF OutcomeAtStart
  <2>2. o = "ready" => Satisfied(a)
    BY DEF OutcomeAtStart
  <2>3. o \in {"pending", "aborted"} => ~Satisfied(a)
    BY DEF OutcomeAtStart
  <2> QED BY <2>1, <2>2, <2>3
<1>3. /\ ids \subseteq 0..MaxCalls /\ G \subseteq 0..MaxCalls /\ c \in Ident \cup {Host}
  BY <1>1, CallAssumption, SMT DEF TypeOK
<1> DEFINE b == wait'[w]
<1>4. /\ b = [outcome |-> o, ids |-> ids, all |-> all,
              got |-> IF o = "denied" THEN {} ELSE G, by |-> c]
      /\ \A v \in Wait \ {w} : wait'[v] = wait[v]
  <2> HIDE DEF o, G
  <2> QED BY <1>1 DEF TypeOK
<1>5. o # "denied" => (Satisfied(b) <=> Satisfied(a))
  BY <1>4 DEF Satisfied
<1>6. w \notin listeners
  BY <1>1 DEF IInv, RecordsInv, AwaitsInv, NoLostCompletion
<1> HIDE DEF o, b, a
<1>7. TypeOK'
  <2>1. b \in Await
    BY <1>2, <1>3, <1>4 DEF Await
  <2>2. wait' \in [Wait -> Await]
    <3>1. wait' = [wait EXCEPT ![w] = b]
      BY <1>1, <1>4 DEF TypeOK, b
    <3> QED BY <1>1, <2>1, <3>1 DEF TypeOK
  <2>3. listeners' \subseteq Wait /\ pendingWaiters' \in [0..MaxCalls -> SUBSET Wait]
    BY <1>1 DEF TypeOK
  <2> QED BY <1>1, <2>2, <2>3 DEF TypeOK, records, dispatch, events, agents
<1>8. NoLostCompletion'
  <2> SUFFICES ASSUME NEW v \in listeners'
               PROVE  /\ wait'[v].outcome = "pending"
                      /\ wait'[v].got = {i \in wait'[v].ids \cap Id : ledger'[i] # NoStatus}
                      /\ ~Satisfied(wait'[v])
    BY DEF NoLostCompletion
  <2>1. CASE v = w
    <3>1. o = "pending"
      BY <1>1, <1>6, <2>1
    <3>2. b.outcome = "pending" /\ b.ids = ids /\ b.got = G /\ ledger' = ledger
      BY <1>1, <1>4, <3>1 DEF records
    <3> QED BY <1>2, <1>5, <2>1, <3>1, <3>2 DEF b
  <2>2. CASE v # w
    <3>1. v \in listeners /\ v \in Wait
      BY <1>1, <2>2 DEF TypeOK
    <3>2. wait'[v] = wait[v] /\ ledger' = ledger
      BY <1>1, <1>4, <2>2, <3>1 DEF records
    <3> QED BY <3>1, <3>2 DEF IInv, RecordsInv, AwaitsInv, NoLostCompletion
  <2> QED BY <2>1, <2>2
<1>9. NoLeakedWaiter'
  <2> SUFFICES ASSUME NEW i \in 0..MaxCalls
               PROVE  pendingWaiters'[i] = {v \in listeners' : i \in wait'[v].ids}
    BY DEF NoLeakedWaiter
  <2>1. pendingWaiters[i] = {v \in listeners : i \in wait[v].ids}
    BY DEF IInv, RecordsInv, AwaitsInv, NoLeakedWaiter
  <2>2. \A v \in listeners : v # w /\ wait'[v] = wait[v]
    BY <1>1, <1>4, <1>6 DEF TypeOK
  <2>3. CASE o = "pending"
    <3>1. listeners' = listeners \cup {w}
          /\ pendingWaiters'[i] = pendingWaiters[i] \cup IF i \in ids THEN {w} ELSE {}
      BY <1>1, <2>3
    <3>2. wait'[w].ids = ids
      BY <1>4 DEF b
    <3> QED BY <2>1, <2>2, <3>1, <3>2
  <2>4. CASE o # "pending"
    BY <1>1, <2>1, <2>2, <2>4
  <2> QED BY <2>3, <2>4
<1>10. HonestOutcome'
  <2> SUFFICES ASSUME NEW v \in Wait
               PROVE  /\ wait'[v].outcome = "ready" => Satisfied(wait'[v])
                      /\ wait'[v].outcome \in {"pending", "timed_out", "aborted"} =>
                           ~Satisfied(wait'[v])
    BY DEF HonestOutcome
  <2>1. CASE v = w
    <3>1. b.outcome = o
      BY <1>4
    <3> QED BY <1>2, <1>5, <2>1, <3>1 DEF b
  <2>2. CASE v # w
    BY <1>4, <2>2 DEF IInv, RecordsInv, AwaitsInv, HonestOutcome
  <2> QED BY <2>1, <2>2
<1> QED BY <1>1, <1>7, <1>8, <1>9, <1>10, CallsKept DEF IInv, RecordsInv, AwaitsInv

\* An await that ends by its timer or its signal.
LEMMA FinishInv ==
  ASSUME IInv, NEW w \in Wait, NEW o \in {"timed_out", "aborted"},
         wait[w].outcome = "pending", Finish(w, o),
         UNCHANGED <<records, dispatch, events, agents, resets>>, aborted' \subseteq Wait
  PROVE  IInv'
<1>1. /\ TypeOK /\ wait' = [wait EXCEPT ![w].outcome = o]
      /\ listeners' = listeners \ {w}
      /\ pendingWaiters' = [i \in 0..MaxCalls |-> pendingWaiters[i] \ {w}]
  BY DEF IInv, RecordsInv, AwaitsInv, Finish, CleanUp
<1>2. /\ wait'[w] = [wait[w] EXCEPT !.outcome = o]
      /\ \A v \in Wait \ {w} : wait'[v] = wait[v]
  BY <1>1 DEF TypeOK
<1>3. /\ wait[w] \in Await /\ wait'[w] \in Await /\ wait'[w].outcome = o
      /\ wait'[w].got = wait[w].got /\ wait'[w].all = wait[w].all /\ wait'[w].ids = wait[w].ids
  BY <1>1, <1>2 DEF TypeOK, Await
<1>4. TypeOK'
  BY <1>1, <1>2, <1>3 DEF TypeOK, records, dispatch, events, agents
<1>5. NoLostCompletion' /\ NoLeakedWaiter'
  BY <1>1, <1>2 DEF IInv, RecordsInv, AwaitsInv, NoLostCompletion, NoLeakedWaiter, Satisfied,
     records, TypeOK
<1>6. HonestOutcome'
  <2>1. ~Satisfied(wait'[w])
    BY <1>3 DEF IInv, RecordsInv, AwaitsInv, HonestOutcome, Satisfied
  <2> QED BY <1>2, <1>3, <2>1 DEF IInv, RecordsInv, AwaitsInv, HonestOutcome
<1> QED BY <1>4, <1>5, <1>6, CallsKept DEF IInv, RecordsInv, AwaitsInv

LEMMA WaitTimeoutInv ==
  ASSUME IInv, NEW w \in Wait, WaitTimeout(w)
  PROVE  IInv'
<1>1. /\ wait[w].outcome = "pending" /\ Finish(w, "timed_out")
      /\ UNCHANGED <<records, dispatch, events, agents, resets>> /\ aborted' \subseteq Wait
  BY DEF WaitTimeout, IInv, RecordsInv, AwaitsInv, TypeOK
<1> QED BY <1>1, FinishInv

LEMMA AbortInv ==
  ASSUME IInv, NEW w \in Wait, Abort(w)
  PROVE  IInv'
<1>1. UNCHANGED <<records, dispatch, events, agents, resets>> /\ aborted' \subseteq Wait
  BY DEF Abort, IInv, RecordsInv, AwaitsInv, TypeOK
<1>2. CASE wait[w].outcome = "pending"
  <2>1. Finish(w, "aborted")
    BY <1>2 DEF Abort
  <2> QED BY <1>1, <1>2, <2>1, FinishInv
<1>3. CASE wait[w].outcome # "pending"
  <2>1. UNCHANGED awaits
    BY <1>3 DEF Abort
  <2>2. TypeOK'
    BY <1>1, <2>1 DEF IInv, RecordsInv, AwaitsInv, TypeOK, records, dispatch, events, agents, awaits
  <2>3. NoLostCompletion' /\ NoLeakedWaiter' /\ HonestOutcome'
    BY <1>1, <2>1, AwaitsKept DEF records
  <2> QED BY <1>1, <2>2, <2>3, CallsKept DEF IInv, RecordsInv, AwaitsInv
<1> QED BY <1>2, <1>3

LEMMA ResetInv ==
  ASSUME IInv, Reset
  PROVE  IInv'
<1>1. /\ TypeOK /\ resets' = resets + 1 /\ active' = {}
      /\ ledger' = [i \in Id |-> NoStatus]
      /\ listeners' = {}
      /\ pendingWaiters' = [i \in 0..MaxCalls |-> {}]
      /\ UNCHANGED <<issued, call, status, dispatch, events, wait, aborted, agents>>
  BY DEF IInv, RecordsInv, AwaitsInv, Reset
<1>2. TypeOK'
  BY <1>1, SMT DEF TypeOK, dispatch, events, agents
<1>3. IssuedInOrder' /\ OneLedger' /\ SettledIsTerminal' /\ Stages' /\ OneCompletion'
  BY <1>1 DEF IInv, RecordsInv, AwaitsInv, IssuedInOrder, OneLedger, SettledIsTerminal, Stages,
     OneCompletion, dispatch,
     events
<1>4. NoLostCompletion' /\ NoLeakedWaiter' /\ HonestOutcome'
  BY <1>1 DEF IInv, RecordsInv, AwaitsInv, NoLostCompletion, NoLeakedWaiter, HonestOutcome,
     Satisfied
<1> QED BY <1>2, <1>3, <1>4 DEF IInv, RecordsInv, AwaitsInv

-----------------------------------------------------------------------------
(* Theorems                                                                *)

LEMMA NextInv == IInv /\ [Next]_vars => IInv'
<1> SUFFICES ASSUME IInv, [Next]_vars PROVE IInv'
  OBVIOUS
<1>1. ASSUME NEW c \in Call, NEW j \in {0} \cup turns, InvokeAgent(c, j) PROVE IInv'
  BY <1>1, InvokeAgentInv
<1>2. ASSUME NEW i \in Id, Dispatch(i) PROVE IInv'
  BY <1>2, DispatchInv
<1>3. ASSUME NEW i \in Id, NEW s \in {"completed", "error"}, TurnSettles(i, s) PROVE IInv'
  BY <1>3, TurnSettlesInv
<1>4. ASSUME NEW i \in Id, Chunk(i) PROVE IInv'
  BY <1>4, ChunkInv
<1>5. ASSUME NEW i \in Id, CallTimeout(i) PROVE IInv'
  BY <1>5, CallTimeoutInv
<1>6. ASSUME NEW k \in Key, Kill(k) PROVE IInv'
  BY <1>6, KillInv
<1>7. ASSUME NEW k \in Key, Restore(k) PROVE IInv'
  BY <1>7, RestoreInv
<1>8. ASSUME NEW w \in Wait, NEW c \in AwaitCaller, NEW ids \in SUBSET (0..issued),
             NEW all \in BOOLEAN, WaitForInvocation(w, c, ids, all)
      PROVE  IInv'
  BY <1>8, WaitForInvocationInv
<1>9. ASSUME NEW w \in Wait, WaitTimeout(w) PROVE IInv'
  BY <1>9, WaitTimeoutInv
<1>10. ASSUME NEW w \in Wait, Abort(w) PROVE IInv'
  BY <1>10, AbortInv
<1>11. CASE Reset
  BY <1>11, ResetInv
<1>12. CASE UNCHANGED vars
  <2>1. UNCHANGED <<records, dispatch, events, awaits, aborted, agents, resets>>
    BY <1>12 DEF vars
  <2>2. TypeOK'
    BY <2>1 DEF IInv, RecordsInv, AwaitsInv, TypeOK, records, dispatch, events, agents, awaits
  <2>3. NoLostCompletion' /\ NoLeakedWaiter' /\ HonestOutcome'
    BY <2>1, AwaitsKept DEF records
  <2> QED BY <2>1, <2>2, <2>3, CallsKept DEF IInv, RecordsInv, AwaitsInv
<1> QED BY <1>1, <1>2, <1>3, <1>4, <1>5, <1>6, <1>7, <1>8, <1>9, <1>10, <1>11, <1>12 DEF Next

\* The invariant of the engine holds always: whatever races, a record is in one
\* ledger, a settled call has one completion event and no timer, and an await
\* knows exactly what has settled (invocationEngine/index.ts).
THEOREM EngineInvariance == Spec => []IInv
BY InitInv, NextInv, PTL DEF Spec

\* Every variable keeps its type.
THEOREM EngineTypes == Spec => []TypeOK
<1>1. IInv => TypeOK
  BY DEF IInv, RecordsInv, AwaitsInv
<1> QED BY <1>1, EngineInvariance, PTL

\* Wherever a call is, its record, microtask, turn, timer, control and events say
\* the same of it (the closures of invokeAgent, settleDispatch,
\* cancelPendingInvocationsForAgent, reset).
THEOREM CallsStand == Spec => []RecordsInv
<1>1. IInv => RecordsInv
  BY DEF IInv
<1> QED BY <1>1, EngineInvariance, PTL

\* An await misses no completion while it listens, reports its end truthfully, and
\* has its callbacks filed under each of its ids just as long as it listens
\* (waitForInvocation, cleanup, reset).
THEOREM AwaitsStand == Spec => []AwaitsInv
<1>1. IInv => AwaitsInv
  BY DEF IInv
<1> QED BY <1>1, EngineInvariance, PTL

-----------------------------------------------------------------------------
(* What a step may do to a call                                            *)

\* The parts of the invariant that tell how a call stands.
LEMMA Standing ==
  ASSUME IInv, NEW i \in Id
  PROVE  /\ issued \in 0..MaxCalls
         /\ i \in active => /\ status[i] \in Open /\ ledger[i] = NoStatus /\ i <= issued
         /\ ledger[i] # NoStatus => /\ i <= issued /\ ledger[i] \in Terminal
                                    /\ ledger[i] = status[i]
         /\ i <= issued <=> status[i] # NoStatus
         /\ status[i] \in Terminal => completions[i] = 1 /\ lastEvent[i] = "complete"
<1>1. i \in Nat /\ issued \in 0..MaxCalls /\ MaxCalls \in Nat
  BY IdType DEF IInv, RecordsInv, AwaitsInv, TypeOK
<1>2. status[i] = NoStatus <=> i > issued
  BY DEF IInv, RecordsInv, AwaitsInv, IssuedInOrder
<1>3. i \in active => status[i] \in Open /\ ledger[i] = NoStatus
  BY DEF IInv, RecordsInv, AwaitsInv, OneLedger
<1>4. ledger[i] # NoStatus => ledger[i] \in Terminal /\ ledger[i] = status[i]
  BY DEF IInv, RecordsInv, AwaitsInv, OneLedger, TypeOK
<1>5. NoStatus \notin Open /\ NoStatus \notin Terminal
  BY DEF NoStatus, Open, Terminal
<1>6. status[i] \in Terminal => completions[i] = 1 /\ lastEvent[i] = "complete"
  BY DEF IInv, RecordsInv, AwaitsInv, OneCompletion
<1> QED BY <1>1, <1>2, <1>3, <1>4, <1>5, <1>6, SMT

\* The shapes a step of the engine may have: calls settle, one call is filed,
\* the ledgers are emptied, or calls in flight move on.
Settles == \E S \in SUBSET active, s \in Terminal : Archive(S, s)
Files   == /\ issued + 1 \in Id /\ issued' = issued + 1
           /\ active' = active \cup {issued + 1}
           /\ ledger' = ledger
           /\ status' = [status EXCEPT ![issued + 1] = "pending"]
           /\ lastEvent' = [lastEvent EXCEPT ![issued + 1] = "start"]
           /\ completions' = completions
Empties == /\ active' = {} /\ ledger' = [i \in Id |-> NoStatus]
           /\ UNCHANGED <<issued, status, events>>
Moves   == /\ UNCHANGED <<issued, active, ledger, completions>>
           /\ \A i \in Id \ active : status'[i] = status[i] /\ lastEvent'[i] = lastEvent[i]

\* Every step has one of these shapes.
LEMMA Shapes == IInv /\ [Next]_vars => Settles \/ Files \/ Empties \/ Moves
<1> SUFFICES ASSUME IInv, [Next]_vars PROVE Settles \/ Files \/ Empties \/ Moves
  OBVIOUS
<1>0. TypeOK /\ active \subseteq Id
  BY DEF IInv, RecordsInv, AwaitsInv, TypeOK
<1>1. ASSUME NEW c \in Call, NEW j \in {0} \cup turns, InvokeAgent(c, j) PROVE Files
  <2>1. issued \in 0..MaxCalls /\ issued < MaxCalls /\ MaxCalls \in Nat
    BY <1>0, <1>1, IdType DEF TypeOK, InvokeAgent
  <2>2. issued + 1 \in Id
    BY <2>1, SMT DEF Id
  <2> QED BY <1>1, <2>2 DEF InvokeAgent, Files
<1>2. ASSUME NEW i \in Id, Dispatch(i) PROVE Moves
  <2>1. status' = status \/ (i \in active /\ status' = [status EXCEPT ![i] = "running"])
    BY <1>2 DEF Dispatch
  <2>2. \A k \in Id \ active : status'[k] = status[k]
    BY <2>1, <1>0 DEF TypeOK
  <2> QED BY <1>2, <2>2 DEF Dispatch, Moves, events
<1>3. ASSUME NEW i \in Id, NEW s \in {"completed", "error"}, TurnSettles(i, s)
      PROVE  Settles \/ Moves
  <2>1. CASE Live(i)
    <3>1. {i} \in SUBSET active /\ s \in Terminal
      BY <2>1 DEF Live, Terminal
    <3>2. Archive({i}, s)
      BY <1>3, <2>1 DEF TurnSettles
    <3> QED BY <3>1, <3>2 DEF Settles
  <2>2. CASE ~Live(i)
    BY <1>3, <2>2 DEF TurnSettles, Moves, records, events
  <2> QED BY <2>1, <2>2
<1>4. ASSUME NEW i \in Id, Chunk(i) PROVE Moves
  <2>1. \A k \in Id \ active : lastEvent'[k] = lastEvent[k]
    BY <1>4, <1>0 DEF Chunk, Live, TypeOK
  <2> QED BY <1>4, <2>1 DEF Chunk, Moves, records
<1>5. ASSUME NEW i \in Id, CallTimeout(i) PROVE Settles \/ Moves
  <2>1. CASE Live(i)
    <3>1. {i} \in SUBSET active /\ "timed_out" \in Terminal
      BY <2>1 DEF Live, Terminal
    <3>2. Archive({i}, "timed_out")
      BY <1>5, <2>1 DEF CallTimeout
    <3> QED BY <3>1, <3>2 DEF Settles
  <2>2. CASE ~Live(i)
    BY <1>5, <2>2 DEF CallTimeout, Moves, records, events
  <2> QED BY <2>1, <2>2
<1>6. ASSUME NEW k \in Key, Kill(k) PROVE Settles
  <2> DEFINE S == {i \in active : Involves(i, k)}
  <2>1. Archive(S, "cancelled")
    BY <1>6 DEF Kill, CancelPending
  <2>2. S \in SUBSET active /\ "cancelled" \in Terminal
    BY DEF Terminal
  <2> QED BY <2>1, <2>2 DEF Settles
<1>7. ASSUME NEW k \in Key, Restore(k) PROVE Moves
  BY <1>7 DEF Restore, Moves, records, events
<1>8. ASSUME NEW w \in Wait, NEW c \in AwaitCaller, NEW ids \in SUBSET (0..issued),
             NEW all \in BOOLEAN, WaitForInvocation(w, c, ids, all)
      PROVE  Moves
  BY <1>8 DEF WaitForInvocation, Moves, records, events
<1>9. ASSUME NEW w \in Wait, WaitTimeout(w) PROVE Moves
  BY <1>9 DEF WaitTimeout, Moves, records, events
<1>10. ASSUME NEW w \in Wait, Abort(w) PROVE Moves
  BY <1>10 DEF Abort, Moves, records, events
<1>11. CASE Reset
  BY <1>11 DEF Reset, Empties
<1>12. CASE UNCHANGED vars
  BY <1>12 DEF vars, records, events, Moves
<1> QED BY <1>1, <1>2, <1>3, <1>4, <1>5, <1>6, <1>7, <1>8, <1>9, <1>10, <1>11, <1>12 DEF Next

\* What the settling of calls does to a call.
LEMMA SettlesFacts ==
  ASSUME IInv, NEW S \in SUBSET active, NEW s \in Terminal, Archive(S, s), NEW i \in Id
  PROVE  /\ issued' = issued /\ active' = active \ S
         /\ i \in S => status'[i] = s /\ ledger'[i] = s
         /\ i \notin S => /\ status'[i] = status[i] /\ ledger'[i] = ledger[i]
                          /\ lastEvent'[i] = lastEvent[i] /\ completions'[i] = completions[i]
<1>1. completions[i] \in Nat
  BY DEF IInv, RecordsInv, AwaitsInv, TypeOK
<1>2. i \notin S => completions'[i] = completions[i] + 0
  BY DEF Archive, EmitComplete
<1>3. i \notin S => completions'[i] = completions[i]
  BY <1>1, <1>2
<1> QED BY <1>3 DEF Archive, EmitComplete

\* A settled call stays settled: none of the closures of invokeAgent, and no
\* cancellation, touches it again, and no event of it follows its completion.
THEOREM CallsSettleOnce == Spec => SettledIsFinal
<1> DEFINE Final == \A i \in Id : status[i] \in Terminal =>
              /\ status'[i] = status[i]
              /\ lastEvent'[i] = "complete" /\ completions'[i] = completions[i]
<1>1. ASSUME IInv, [Next]_vars PROVE Final
  <2> SUFFICES ASSUME NEW i \in Id, status[i] \in Terminal
               PROVE  /\ status'[i] = status[i]
                      /\ lastEvent'[i] = "complete" /\ completions'[i] = completions[i]
    OBVIOUS
  <2>1. /\ i \notin active /\ i # issued + 1
        /\ lastEvent[i] = "complete"
        /\ i \in Nat /\ issued \in Nat
    <3>1. i \in Nat /\ issued \in Nat /\ i <= issued
      BY <1>1, Standing, IdType, SMT DEF Open, Terminal, NoStatus
    <3>2. i \notin active /\ lastEvent[i] = "complete"
      BY <1>1, Standing DEF Open, Terminal
    <3> QED BY <3>1, <3>2
  <2>2. TypeOK
    BY <1>1 DEF IInv, RecordsInv, AwaitsInv
  <2>3. CASE Settles
    <3>1. PICK S \in SUBSET active, s \in Terminal : Archive(S, s)
      BY <2>3 DEF Settles
    <3> QED BY <1>1, <2>1, <3>1, SettlesFacts
  <2>4. CASE Files
    BY <2>1, <2>2, <2>4 DEF Files, TypeOK
  <2>5. CASE Empties
    BY <2>1, <2>5 DEF Empties, events
  <2>6. CASE Moves
    BY <2>1, <2>6 DEF Moves
  <2> QED BY <1>1, <2>3, <2>4, <2>5, <2>6, Shapes
<1>2. IInv /\ [Next]_vars => [Final]_vars
  BY <1>1
<1> QED BY <1>2, EngineInvariance, PTL DEF Spec, SettledIsFinal

\* A call that neither ledger holds any more comes back into none.
LEMMA ForgottenStep ==
  ASSUME IInv, [Next]_vars, NEW i \in Id, i <= issued, ~Recorded(i)
  PROVE  i \notin active' /\ ledger'[i] = NoStatus
<1>1. i \notin active /\ ledger[i] = NoStatus /\ i # issued + 1
  <2>1. i \in Nat /\ issued \in 0..MaxCalls
    BY Standing, IdType
  <2>2. i # issued + 1
    BY <2>1, SMT
  <2> QED BY <2>2 DEF Recorded
<1>2. CASE Settles
  <2>1. PICK S \in SUBSET active, s \in Terminal : Archive(S, s)
    BY <1>2 DEF Settles
  <2> QED BY <1>1, <2>1, SettlesFacts
<1>3. CASE Files
  BY <1>1, <1>3 DEF Files
<1>4. CASE Empties
  BY <1>4 DEF Empties
<1>5. CASE Moves
  BY <1>1, <1>5 DEF Moves
<1> QED BY <1>2, <1>3, <1>4, <1>5, Shapes

\* What reset forgot stays forgotten: a turn or a timer that outlives reset
\* brings no call back.
THEOREM ResetIsFinal == Spec => ForgottenForGood
<1> DEFINE Gone == \A i \in Id : i <= issued /\ ~Recorded(i) => i \notin active' /\ ledger'[i] = NoStatus
<1>1. IInv /\ [Next]_vars => [Gone]_vars
  BY ForgottenStep
<1> QED BY <1>1, EngineInvariance, PTL DEF Spec, ForgottenForGood

\* Nothing more comes of a settled call, forgotten or not.
THEOREM SettledCallsStay == Spec => SettledForGood
BY CallsSettleOnce, ResetIsFinal DEF SettledForGood

-----------------------------------------------------------------------------
(* Refinement                                                              *)

\* The phases before and after a step.
Phases == [i \in Id |-> Phase(i)]

\* A step of the engine is a step of the ledger, or leaves all phases alone.
LEMMA LedgerStep ==
  ASSUME IInv, IInv', [Next]_vars
  PROVE  Ledger!Next \/ Phases' = Phases
<1>1. CASE Settles
  <2>1. PICK S \in SUBSET active, s \in Terminal : Archive(S, s)
    BY <1>1 DEF Settles
  <2>2. S \in SUBSET Id /\ \A i \in S : Phase(i) = "in_flight"
    <3>1. active \subseteq Id
      BY DEF IInv, RecordsInv, AwaitsInv, TypeOK
    <3>2. ASSUME NEW i \in active PROVE ~(i > issued)
      <4>1. i \in Id /\ i \in Nat /\ issued \in 0..MaxCalls
        BY <3>1, Standing, IdType
      <4>2. i <= issued
        BY <4>1, Standing
      <4> QED BY <4>1, <4>2, SMT
    <3> QED BY <3>1, <3>2 DEF Phase
  <2>3. ASSUME NEW i \in Id PROVE Phase(i)' = IF i \in S THEN s ELSE Phase(i)
    <3>1. /\ issued' = issued /\ active' = active \ S
          /\ i \in S => ledger'[i] = s /\ i <= issued
          /\ i \notin S => ledger'[i] = ledger[i]
      BY <2>1, SettlesFacts, Standing
    <3>2. s # NoStatus /\ i \in Nat /\ issued \in 0..MaxCalls
      BY Standing, IdType DEF Terminal, NoStatus
    <3>3. i \in S => ~(i > issued)
      BY <3>1, <3>2, SMT
    <3> QED BY <3>1, <3>2, <3>3 DEF Phase
  <2>4. Phases' = [i \in Id |-> IF i \in S THEN s ELSE Phases[i]]
    BY <2>3 DEF Phases
  <2> QED BY <2>1, <2>2, <2>4 DEF Ledger!Next, Ledger!Settle, Phases
<1>2. CASE Files
  <2> DEFINE n == issued + 1
  <2>1. n \in Id /\ issued \in Nat
    BY <1>2, Standing, SMT DEF Files
  <2>2. Phase(n) = "unused"
    BY <2>1, SMT DEF Phase
  <2>3. ASSUME NEW i \in Id PROVE Phase(i)' = IF i = n THEN "in_flight" ELSE Phase(i)
    <3>1. i \in Nat /\ i \in active => i <= issued
      BY Standing, IdType
    <3>2. issued' = n /\ active' = active \cup {n} /\ ledger' = ledger
      BY <1>2 DEF Files
    <3>3. i # n => (i > issued' <=> i > issued)
      BY <2>1, <3>2, IdType, SMT
    <3>4. ~(n > issued')
      BY <2>1, <3>2, SMT
    <3> QED BY <3>1, <3>2, <3>3, <3>4 DEF Phase
  <2>4. Phases' = [Phases EXCEPT ![n] = "in_flight"]
    BY <2>1, <2>3 DEF Phases
  <2>5. Phases[n] = "unused"
    BY <2>1, <2>2 DEF Phases
  <2> QED BY <2>1, <2>4, <2>5 DEF Ledger!Next, Ledger!Invoke, Phases
<1>3. CASE Empties
  <2>1. ASSUME NEW i \in Id
        PROVE  Phase(i)' = IF Phase(i) = "unused" THEN "unused" ELSE "forgotten"
    <3>1. issued' = issued /\ active' = {} /\ ledger'[i] = NoStatus
      BY <1>3 DEF Empties
    <3>2. i \in active \/ ledger[i] # NoStatus => ~(i > issued)
      BY Standing, IdType, SMT
    <3>3. ledger[i] # "unused"
      BY DEF IInv, RecordsInv, AwaitsInv, TypeOK, Terminal, NoStatus
    <3> QED BY <3>1, <3>2, <3>3 DEF Phase
  <2>2. Phases' = [i \in Id |-> IF Phases[i] = "unused" THEN "unused" ELSE "forgotten"]
    BY <2>1 DEF Phases
  <2> QED BY <2>2 DEF Ledger!Next, Ledger!Forget, Phases
<1>4. CASE Moves
  BY <1>4 DEF Moves, Phases, Phase
<1> QED BY <1>1, <1>2, <1>3, <1>4, Shapes

\* The engine implements InvocationLedger: each call settles once, with one
\* outcome, until reset forgets it.
THEOREM EngineKeepsLedger == Spec => ImplementsLedger
<1>1. Init => Ledger!Init
  <2> SUFFICES ASSUME Init PROVE Phases = [i \in Id |-> "unused"]
    BY DEF Ledger!Init, Phases
  <2>1. \A i \in Id : i > issued
    BY IdType, SMT DEF Init
  <2> QED BY <2>1 DEF Phases, Phase
<1>2. IInv /\ IInv' /\ [Next]_vars => [Ledger!Next]_Phases
  BY LedgerStep
<1>3. Phases = [i \in Id |-> Phase(i)]
  BY DEF Phases
<1>4. IInv /\ IInv' /\ [Next]_vars => [Ledger!Next]_[i \in Id |-> Phase(i)]
  BY <1>2, LedgerStep DEF Phases
<1> QED BY <1>1, <1>4, EngineInvariance, PTL DEF Spec, ImplementsLedger, Ledger!Spec

-----------------------------------------------------------------------------
(* Admission                                                               *)

\* A set of numbers has a least element, so a statement about the numbers of
\* 0..n that holds wherever it holds for all smaller ones has no exception.
LEMMA NoLeastException ==
  ASSUME NEW n \in Nat, NEW S \in SUBSET (0..n),
         \A i \in S : \E j \in S : j < i
  PROVE  S = {}
<1>1. S \in SUBSET Nat
  OBVIOUS
<1>2. ASSUME NEW i \in S, \A j \in S : i <= j PROVE FALSE
  <2>1. PICK j \in S : j < i
    OBVIOUS
  <2> QED BY <1>1, <1>2, <2>1, SMT
<1> QED BY <1>1, <1>2, Least

\* What invokeAgent counts is what it is meant to count: the depth that a call
\* is given is the number of calls in the chain that leads to it.
LEMMA DepthIsChain ==
  ASSUME TypeOK, Lineage
  PROVE  \A i \in 1..issued : ChainTo[i] = call[i].depth
<1> DEFINE Unfold(f) == [i \in 0..MaxCalls |-> IF i = 0 THEN 0 ELSE 1 + f[call[i].parent]]
           Count == [i \in 0..MaxCalls |->
                       IF i = 0 THEN 0 ELSE IF i > issued THEN 1 ELSE call[i].depth]
<1>1. /\ issued \in 0..MaxCalls /\ MaxCalls \in Nat
      /\ \A i \in 0..MaxCalls : i # 0 => i \in Id
  BY IdType, SMT DEF TypeOK, Id
<1>2. \A i \in 0..MaxCalls : i # 0 =>
        /\ call[i].parent \in 0..(i - 1) /\ call[i].parent \in 0..MaxCalls
        /\ call[i].depth \in Nat
        /\ i <= issued => call[i].depth = Depth(call[i].parent)
        /\ i > issued => call[i].parent = 0
  <2> SUFFICES ASSUME NEW i \in 0..MaxCalls, i # 0
               PROVE  /\ call[i].parent \in 0..(i - 1) /\ call[i].parent \in 0..MaxCalls
                      /\ call[i].depth \in Nat
                      /\ i <= issued => call[i].depth = Depth(call[i].parent)
                      /\ i > issued => call[i].parent = 0
    OBVIOUS
  <2>1. i \in Id
    BY <1>1
  <2>2. call[i].depth \in 0..MaxDepth /\ call[i].parent \in 0..MaxCalls
    BY <2>1 DEF TypeOK
  <2>3. call[i].depth \in Nat
    BY <2>2, IdType, SMT
  <2> QED BY <2>1, <2>2, <2>3 DEF Lineage
<1>3. Count = Unfold(Count)
  <2>1. \A i \in 0..MaxCalls : Count[i] = IF i = 0 THEN 0 ELSE 1 + Count[call[i].parent]
    <3> SUFFICES ASSUME NEW i \in 0..MaxCalls, i # 0
                 PROVE  Count[i] = 1 + Count[call[i].parent]
      OBVIOUS
    <3> DEFINE p == call[i].parent
    <3>1. p \in 0..MaxCalls /\ p \in 0..(i - 1)
      BY <1>2
    <3>2. CASE i > issued
      BY <1>1, <1>2, <3>1, <3>2
    <3>3. CASE i <= issued
      <4>1. call[i].depth = IF p = 0 THEN 1 ELSE call[p].depth + 1
        BY <1>2, <3>3 DEF Depth
      <4>2. p <= issued
        BY <1>1, <3>1, <3>3
      <4>3. p # 0 => call[p].depth \in Nat
        BY <1>2, <3>1
      <4> QED BY <1>1, <3>1, <3>3, <4>1, <4>2, <4>3
    <3> QED BY <1>1, <3>2, <3>3
  <2> HIDE DEF Count
  <2>2. Count = [i \in 0..MaxCalls |-> Count[i]]
    BY DEF Count
  <2> QED BY <2>1, <2>2
<1>4. ChainTo = Unfold(ChainTo)
  <2> HIDE DEF Count
  <2> QED BY <1>3 DEF ChainTo
<1>5. \A i \in 0..MaxCalls : ChainTo[i] = IF i = 0 THEN 0 ELSE 1 + ChainTo[call[i].parent]
  <2> DEFINE c == ChainTo
  <2>1. c = Unfold(c)
    BY <1>4
  <2> HIDE DEF c
  <2>2. \A i \in 0..MaxCalls : c[i] = IF i = 0 THEN 0 ELSE 1 + c[call[i].parent]
    BY <2>1
  <2> QED BY <2>2 DEF c
<1>6. \A i \in 0..MaxCalls : Count[i] = IF i = 0 THEN 0 ELSE 1 + Count[call[i].parent]
  <2> DEFINE c == Count
  <2>1. c = Unfold(c)
    BY <1>3
  <2> HIDE DEF c
  <2>2. \A i \in 0..MaxCalls : c[i] = IF i = 0 THEN 0 ELSE 1 + c[call[i].parent]
    BY <2>1
  <2> QED BY <2>2 DEF c
<1> DEFINE Exceptions == {i \in 0..MaxCalls : ChainTo[i] # Count[i]}
<1>7. Exceptions = {}
  <2>1. ASSUME NEW i \in Exceptions PROVE \E j \in Exceptions : j < i
    <3> HIDE DEF Count
    <3>1. i \in 0..MaxCalls /\ i # 0 /\ ChainTo[i] # Count[i]
      BY <1>5, <1>6
    <3>2. ChainTo[call[i].parent] # Count[call[i].parent]
      BY <1>5, <1>6, <3>1, Zenon
    <3>3. call[i].parent \in 0..MaxCalls /\ call[i].parent < i
      BY <1>2, <3>1
    <3> QED BY <3>2, <3>3
  <2>2. Exceptions \in SUBSET (0..MaxCalls)
    OBVIOUS
  <2> HIDE DEF Exceptions
  <2> QED BY <1>1, <2>1, <2>2, NoLeastException
<1>8. \A i \in 0..MaxCalls : ChainTo[i] = Count[i]
  <2> HIDE DEF Count
  <2> QED BY <1>7
<1>9. \A i \in 1..issued : i \in 0..MaxCalls /\ Count[i] = call[i].depth
  BY <1>1
<1> QED
  <2> HIDE DEF Count
  <2> QED BY <1>8, <1>9

\* Only invokeAgent changes what is on record of a call, and only of the new one.
LEMMA CallStep ==
  ASSUME IInv, [Next]_vars
  PROVE  \/ UNCHANGED <<issued, call>>
         \/ \E c \in Call, j \in {0} \cup turns : InvokeAgent(c, j)
<1>1. ASSUME NEW i \in Id, Dispatch(i) \/ Chunk(i) PROVE UNCHANGED <<issued, call>>
  BY <1>1 DEF Dispatch, Chunk, records
<1>2. ASSUME NEW i \in Id, NEW s \in {"completed", "error"}, TurnSettles(i, s)
      PROVE  UNCHANGED <<issued, call>>
  BY <1>2 DEF TurnSettles, Archive, records
<1>3. ASSUME NEW i \in Id, CallTimeout(i) PROVE UNCHANGED <<issued, call>>
  BY <1>3 DEF CallTimeout, Archive, records
<1>4. ASSUME NEW k \in Key, Kill(k) \/ Restore(k) PROVE UNCHANGED <<issued, call>>
  BY <1>4 DEF Kill, CancelPending, Archive, Restore, records
<1>5. ASSUME NEW w \in Wait, NEW c \in AwaitCaller, NEW ids \in SUBSET (0..issued),
             NEW all \in BOOLEAN, WaitForInvocation(w, c, ids, all)
      PROVE  UNCHANGED <<issued, call>>
  BY <1>5 DEF WaitForInvocation, records
<1>6. ASSUME NEW w \in Wait, WaitTimeout(w) \/ Abort(w) PROVE UNCHANGED <<issued, call>>
  BY <1>6 DEF WaitTimeout, Abort, records
<1>7. Reset \/ UNCHANGED vars => UNCHANGED <<issued, call>>
  BY DEF Reset, vars, records
<1> QED BY <1>1, <1>2, <1>3, <1>4, <1>5, <1>6, <1>7 DEF Next

\* What invokeAgent files.
LEMMA FiledCall ==
  ASSUME IInv, NEW c \in Call, NEW j \in {0} \cup turns, InvokeAgent(c, j)
  PROVE  /\ issued + 1 \in Id /\ issued' = issued + 1
         /\ j \in 0..issued
         /\ call'[issued + 1].depth = Depth(j) /\ call'[issued + 1].parent = j
         /\ Depth(j) <= MaxDepth
         /\ \A i \in Id : i # issued + 1 => call'[i] = call[i]
<1>1. TypeOK /\ issued \in 0..MaxCalls /\ issued < MaxCalls /\ MaxCalls \in Nat
  BY IdType DEF IInv, RecordsInv, AwaitsInv, TypeOK, InvokeAgent
<1>2. issued + 1 \in Id
  BY <1>1, SMT DEF Id
<1>3. j \in 0..issued
  <2>1. CASE j \in turns
    <3>1. j \in Id /\ status[j] # NoStatus
      BY <1>1, <2>1 DEF IInv, RecordsInv, AwaitsInv, TypeOK, Stages
    <3>2. j \in Nat
      BY <3>1, IdType
    <3> QED BY <1>1, <3>1, <3>2, SMT DEF IInv, RecordsInv, AwaitsInv, IssuedInOrder
  <2> QED BY <1>1, <2>1
<1> DEFINE new == [from |-> c.from, to |-> c.to, timed |-> c.timed,
                   shown |-> {Display(c.from), Display(c.to)},
                   parties |-> {Party(c.from), Party(c.to)},
                   depth |-> Depth(j), parent |-> j]
<1>4. call' = [call EXCEPT ![issued + 1] = new] /\ issued' = issued + 1 /\ Depth(j) <= MaxDepth
  BY DEF InvokeAgent
<1>5. new.depth = Depth(j) /\ new.parent = j
  OBVIOUS
<1> HIDE DEF new
<1>6. DOMAIN call = Id
  BY <1>1 DEF TypeOK
<1> QED BY <1>2, <1>3, <1>4, <1>5, <1>6

\* The lineage of the calls is kept.
LEMMA LineageStep ==
  ASSUME IInv, Lineage, [Next]_vars
  PROVE  Lineage'
<1>1. CASE UNCHANGED <<issued, call>>
  BY <1>1 DEF Lineage, Depth
<1>2. ASSUME NEW c \in Call, NEW j \in {0} \cup turns, InvokeAgent(c, j) PROVE Lineage'
  <2>1. /\ issued + 1 \in Id /\ issued' = issued + 1 /\ j \in 0..issued
        /\ call'[issued + 1].depth = Depth(j) /\ call'[issued + 1].parent = j
        /\ \A i \in Id : i # issued + 1 => call'[i] = call[i]
    BY <1>2, FiledCall
  <2>2. Id \subseteq Nat /\ issued \in Nat /\ \A i \in Nat : i # 0 /\ i <= issued + 1 => i \in Id
    <3>1. issued \in 0..MaxCalls /\ MaxCalls \in Nat
      BY IdType DEF IInv, RecordsInv, AwaitsInv, TypeOK
    <3> QED BY <2>1, <3>1, SMT DEF Id
  <2>3. \A p \in 0..issued : p # 0 => call'[p] = call[p]
    BY <2>1, <2>2
  <2> SUFFICES ASSUME NEW i \in Id
               PROVE  /\ call'[i].parent \in 0..(i - 1)
                      /\ i <= issued' => call'[i].depth = Depth(call[i].parent)'
                      /\ i > issued' => call'[i].parent = 0
    BY DEF Lineage
  <2>4. CASE i = issued + 1
    <3>1. Depth(call[i].parent)' = Depth(j)
      BY <2>1, <2>3, <2>4 DEF Depth
    <3> QED BY <2>1, <2>2, <2>4, <3>1
  <2>5. CASE i # issued + 1
    <3>1. call'[i] = call[i] /\ call[i].parent \in 0..(i - 1) /\ i \in Nat
          /\ (i <= issued => call[i].depth = Depth(call[i].parent))
          /\ (i > issued => call[i].parent = 0)
      BY <2>1, <2>2, <2>5 DEF Lineage
    <3>2. CASE i <= issued
      <4>1. call[i].parent \in 0..issued
        BY <2>2, <3>1, <3>2
      <4>2. Depth(call[i].parent)' = Depth(call[i].parent)
        BY <2>3, <3>1, <4>1 DEF Depth
      <4> QED BY <2>1, <2>2, <3>1, <3>2, <4>2
    <3>3. CASE i > issued
      BY <2>1, <2>2, <2>5, <3>1, <3>3
    <3> QED BY <2>2, <3>1, <3>2, <3>3
  <2> QED BY <2>4, <2>5
<1> QED BY <1>1, <1>2, CallStep

\* No chain of calls is longer than the depth that its last call was given.
LEMMA ChainsBounded ==
  ASSUME TypeOK, Lineage
  PROVE  BoundedRecursion
<1>1. issued \in 0..MaxCalls /\ MaxCalls \in Nat
  BY IdType DEF TypeOK
<1>2. \A i \in 1..issued : call[i].depth \in 0..MaxDepth
  BY <1>1, SMT DEF TypeOK, Id
<1>3. \A i \in 1..issued : call[i].depth <= MaxDepth
  BY <1>2, IdType, SMT
<1> QED BY <1>3, DepthIsChain DEF BoundedRecursion

\* A step may take awaits off the list of listeners and give a listening await
\* the results of calls it asked for that are on record; it changes neither what
\* an await asked for nor who asked.
Narrows ==
  /\ listeners' \subseteq listeners
  /\ \A w \in Wait :
       /\ wait'[w].ids = wait[w].ids /\ wait'[w].by = wait[w].by
       /\ wait'[w].got \subseteq
            wait[w].got \cup (IF w \in listeners THEN wait[w].ids \cap active ELSE {})

\* Every step but the start of an await is of that kind.
LEMMA AwaitStep ==
  ASSUME IInv, [Next]_vars
  PROVE  \/ Narrows
         \/ \E w \in Wait, c \in AwaitCaller, ids \in SUBSET (0..issued), all \in BOOLEAN :
              WaitForInvocation(w, c, ids, all)
<1>1. TypeOK
  BY DEF IInv, RecordsInv, AwaitsInv
<1>2. UNCHANGED <<wait, listeners>> => Narrows
  BY DEF Narrows
<1>3. ASSUME NEW S \in SUBSET active, NEW s \in Terminal, Archive(S, s) PROVE Narrows
  <2> DEFINE done == {w \in listeners : Hear(w, S).got # wait[w].got /\ Satisfied(Hear(w, S))}
  <2>1. /\ wait' = [w \in Wait |-> IF w \in done THEN [Hear(w, S) EXCEPT !.outcome = "ready"]
                                   ELSE Hear(w, S)]
        /\ listeners' = listeners \ done
    BY <1>3 DEF Archive, EmitComplete, CleanUp
  <2>2. S \in SUBSET Id
    BY <1>1 DEF TypeOK
  <2> SUFFICES ASSUME NEW w \in Wait
               PROVE  /\ wait'[w].ids = wait[w].ids /\ wait'[w].by = wait[w].by
                      /\ wait'[w].got \subseteq
                           wait[w].got \cup (IF w \in listeners THEN wait[w].ids \cap active ELSE {})
    BY <2>1 DEF Narrows
  <2> DEFINE h == Hear(w, S)
  <2>3. /\ h = [wait[w] EXCEPT !.got = h.got]
        /\ h.got \subseteq wait[w].got \cup (S \cap wait[w].ids)
        /\ w \notin listeners => h.got = wait[w].got
    BY <1>1, <2>2, HearFacts
  <2>4. wait'[w] = IF w \in done THEN [h EXCEPT !.outcome = "ready"] ELSE h
    BY <2>1
  <2>5. wait[w] = [outcome |-> wait[w].outcome, ids |-> wait[w].ids, all |-> wait[w].all,
                   got |-> wait[w].got, by |-> wait[w].by]
    BY <1>1 DEF TypeOK, Await
  <2> HIDE DEF done, h
  <2>6. h = [outcome |-> wait[w].outcome, ids |-> wait[w].ids, all |-> wait[w].all,
             got |-> h.got, by |-> wait[w].by]
    BY <2>3, <2>5
  <2>7. wait'[w].ids = wait[w].ids /\ wait'[w].by = wait[w].by /\ wait'[w].got = h.got
    BY <2>4, <2>6
  <2> QED BY <2>3, <2>7
<1>4. ASSUME NEW w \in Wait, NEW o, Finish(w, o) PROVE Narrows
  <2>1. listeners' = listeners \ {w} /\ wait' = [wait EXCEPT ![w].outcome = o]
    BY <1>4 DEF Finish, CleanUp
  <2>2. \A v \in Wait : /\ wait'[v].ids = wait[v].ids /\ wait'[v].by = wait[v].by
                        /\ wait'[v].got = wait[v].got
    BY <1>1, <2>1 DEF TypeOK, Await
  <2> QED BY <2>1, <2>2 DEF Narrows
<1>5. ASSUME NEW c \in Call, NEW j \in {0} \cup turns, InvokeAgent(c, j) PROVE Narrows
  BY <1>2, <1>5 DEF InvokeAgent, awaits
<1>6. ASSUME NEW i \in Id, Dispatch(i) \/ Chunk(i) PROVE Narrows
  BY <1>2, <1>6 DEF Dispatch, Chunk, awaits
<1>7. ASSUME NEW i \in Id, NEW s \in {"completed", "error"}, TurnSettles(i, s) PROVE Narrows
  <2>1. CASE Live(i)
    <3>1. {i} \in SUBSET active /\ s \in Terminal
      BY <2>1 DEF Live, Terminal
    <3> QED BY <1>3, <1>7, <2>1, <3>1 DEF TurnSettles
  <2> QED BY <1>2, <1>7, <2>1 DEF TurnSettles, awaits
<1>8. ASSUME NEW i \in Id, CallTimeout(i) PROVE Narrows
  <2>1. CASE Live(i)
    <3>1. {i} \in SUBSET active /\ "timed_out" \in Terminal
      BY <2>1 DEF Live, Terminal
    <3> QED BY <1>3, <1>8, <2>1, <3>1 DEF CallTimeout
  <2> QED BY <1>2, <1>8, <2>1 DEF CallTimeout, awaits
<1>9. ASSUME NEW k \in Key, Kill(k) PROVE Narrows
  <2> DEFINE S == {i \in active : Involves(i, k)}
  <2>1. S \in SUBSET active /\ "cancelled" \in Terminal
    BY DEF Terminal
  <2> QED BY <1>3, <1>9, <2>1 DEF Kill, CancelPending
<1>10. ASSUME NEW k \in Key, Restore(k) PROVE Narrows
  BY <1>2, <1>10 DEF Restore, awaits
<1>11. ASSUME NEW w \in Wait, WaitTimeout(w) \/ Abort(w) PROVE Narrows
  BY <1>2, <1>4, <1>11 DEF WaitTimeout, Abort, awaits
<1>12. Reset => Narrows
  BY DEF Reset, Narrows
<1>13. UNCHANGED vars => Narrows
  BY <1>2 DEF vars, awaits
<1> QED BY <1>5, <1>6, <1>7, <1>8, <1>9, <1>10, <1>11, <1>12, <1>13 DEF Next

\* A reference by key denotes that agent or nothing.
LEMMA ResolveKey ==
  ASSUME NEW k \in Key, Resolve(k) # NoKey
  PROVE  Resolve(k) = k /\ k \in registry
<1>1. CASE k \in registry
  BY <1>1 DEF Resolve
<1>2. CASE k \notin registry
  <2>1. \A a \in Key : BareOf[a] # k
    BY AgentAssumption
  <2>2. Named(k) \cap registry = {}
    BY <1>2, <2>1 DEF Named
  <2> QED BY <1>2, <2>2 DEF Resolve
<1> QED BY <1>1, <1>2

\* An agent that may await calls, and does not bypass Realms, is a party to those
\* that are on record.
LEMMA AdmittedIsParty ==
  ASSUME IInv, PartiesOfKeys, NEW c \in Key, RealmOf[c] # Bypass,
         NEW ids \in SUBSET (0..issued), Admitted(c, ids),
         NEW i \in ids, Recorded(i)
  PROVE  i \in 1..issued /\ c \in call[i].parties
<1>1. Resolve(c) = c /\ c \in registry /\ Names(c, i)
  <2>1. c # Host /\ Resolve(c) # NoKey
    BY AgentAssumption DEF Admitted, Ident
  <2>2. Resolve(c) = c /\ c \in registry
    BY <2>1, ResolveKey
  <2> QED BY <2>1, <2>2 DEF Admitted
<1>2. c \in {call[i].from, call[i].to}
  BY <1>1 DEF Names
<1>3. i \in Id /\ i <= issued
  BY Standing DEF Recorded, IInv, RecordsInv, AwaitsInv, TypeOK
<1>4. i \in 1..issued
  <2>1. i \in Nat \ {0} /\ issued \in Nat
    BY <1>3, IdType, SMT DEF IInv, RecordsInv, AwaitsInv, TypeOK
  <2> QED BY <1>3, <2>1
<1> QED BY <1>2, <1>4 DEF PartiesOfKeys

\* The agent a reference is about is named by it.
LEMMA PartyIsNamed ==
  ASSUME NEW r \in Ident, Party(r) \in Key
  PROVE  r \in {Party(r), BareOf[Party(r)]}
<1>1. CASE r \in Key
  BY <1>1 DEF Party
<1>2. CASE r \notin Key
  <2>1. Party(r) = Resolve(r) /\ Resolve(r) # NoKey
    BY <1>2, AgentAssumption DEF Party, Ident
  <2>2. CASE r \in registry
    BY <2>1, <2>2 DEF Resolve
  <2>3. CASE r \notin registry
    <3>1. PICK k \in Named(r) \cap registry : Named(r) \cap registry = {k}
      BY <2>1, <2>3 DEF Resolve
    <3>2. Resolve(r) = CHOOSE a \in Named(r) \cap registry : TRUE
      BY <2>3, <3>1 DEF Resolve
    <3>3. Resolve(r) = k
      BY <3>1, <3>2
    <3>4. k = r \/ BareOf[k] = r
      BY <3>1 DEF Named
    <3> QED BY <2>1, <3>3, <3>4
  <2> QED BY <2>2, <2>3
<1> QED BY <1>1, <1>2

\* Calls are filed with the agents they name.
LEMMA PartiesStep ==
  ASSUME IInv, PartiesOfKeys, [Next]_vars
  PROVE  PartiesOfKeys'
<1>1. CASE UNCHANGED <<issued, call>>
  BY <1>1 DEF PartiesOfKeys
<1>2. ASSUME NEW c \in Call, NEW j \in {0} \cup turns, InvokeAgent(c, j) PROVE PartiesOfKeys'
  <2>1. /\ issued + 1 \in Id /\ issued' = issued + 1 /\ issued \in Nat
        /\ \A i \in Id : i # issued + 1 => call'[i] = call[i]
    <3>1. issued \in 0..MaxCalls
      BY DEF IInv, RecordsInv, AwaitsInv, TypeOK
    <3>2. issued \in Nat
      BY <3>1, IdType, SMT
    <3> HIDE DEF PartiesOfKeys
    <3>3. issued + 1 \in Id /\ issued' = issued + 1 /\ \A i \in Id : i # issued + 1 => call'[i] = call[i]
      BY <1>2, FiledCall
    <3> QED BY <3>2, <3>3
  <2> DEFINE new == [from |-> c.from, to |-> c.to, timed |-> c.timed,
                     shown |-> {Display(c.from), Display(c.to)},
                     parties |-> {Party(c.from), Party(c.to)},
                     depth |-> Depth(j), parent |-> j]
  <2>2. call'[issued + 1] = new
    <3>1. call' = [call EXCEPT ![issued + 1] = new]
      BY <1>2 DEF InvokeAgent
    <3> HIDE DEF new
    <3> QED BY <2>1, <3>1 DEF IInv, RecordsInv, AwaitsInv, TypeOK
  <2>3. {new.from, new.to} \cap Key \subseteq new.parties
    BY DEF Party
  <2>4. ASSUME NEW k \in new.parties \cap Key PROVE {k, BareOf[k]} \cap {new.from, new.to} # {}
    <3>1. c.from \in Ident /\ c.to \in Ident
      BY CallAssumption
    <3>2. k = Party(c.from) \/ k = Party(c.to)
      OBVIOUS
    <3> QED BY <3>1, <3>2, PartyIsNamed
  <2> HIDE DEF new
  <2>5. ASSUME NEW i \in 1..issued'
        PROVE  /\ {call'[i].from, call'[i].to} \cap Key \subseteq call'[i].parties
               /\ \A k \in call'[i].parties \cap Key :
                    {k, BareOf[k]} \cap {call'[i].from, call'[i].to} # {}
    <3>1. CASE i = issued + 1
      BY <2>2, <2>3, <2>4, <3>1
    <3>2. CASE i # issued + 1
      <4>1. i \in 1..issued /\ i \in Id
        <5>1. issued + 1 \in 1..MaxCalls /\ MaxCalls \in Nat
          BY <2>1, IdType DEF Id
        <5> QED BY <2>1, <3>2, <5>1, SMT DEF Id
      <4> QED BY <2>1, <3>2, <4>1 DEF PartiesOfKeys
    <3> QED BY <3>1, <3>2
  <2> QED BY <2>5 DEF PartiesOfKeys
<1> QED BY <1>1, <1>2, CallStep

\* Issued calls keep their record, and no issued call comes back on record.
LEMMA IssuedStep ==
  ASSUME IInv, [Next]_vars
  PROVE  /\ issued \in Nat /\ issued' \in Nat /\ issued <= issued'
         /\ \A i \in 1..issued : call'[i] = call[i] /\ (Recorded(i)' => Recorded(i))
<1>1. issued \in 0..MaxCalls /\ MaxCalls \in Nat
  BY IdType DEF IInv, RecordsInv, AwaitsInv, TypeOK
<1>2. \A i \in 1..issued : i \in Id /\ i <= issued
  BY <1>1, SMT DEF Id
<1>3. \A i \in 1..issued : Recorded(i)' => Recorded(i)
  <2> SUFFICES ASSUME NEW i \in 1..issued, ~Recorded(i) PROVE ~Recorded(i)'
    OBVIOUS
  <2>1. i \notin active' /\ ledger'[i] = NoStatus
    BY <1>2, ForgottenStep
  <2> QED BY <2>1 DEF Recorded
<1>4. CASE UNCHANGED <<issued, call>>
  BY <1>1, <1>3, <1>4
<1>5. ASSUME NEW c \in Call, NEW j \in {0} \cup turns, InvokeAgent(c, j)
      PROVE  /\ issued' \in Nat /\ issued <= issued'
             /\ \A i \in 1..issued : call'[i] = call[i]
  <2>1. issued' = issued + 1 /\ \A i \in Id : i # issued + 1 => call'[i] = call[i]
    BY <1>5, FiledCall
  <2> QED BY <1>1, <1>2, <2>1
<1> QED BY <1>1, <1>3, <1>4, <1>5, CallStep

\* Whatever an await has learnt, and whatever it may still learn, is about calls
\* it was admitted to.
LEMMA OwnStep ==
  ASSUME IInv, IInv', PartiesOfKeys, ResultsOfOwnCalls, AwaitedCallsAreOwn, [Next]_vars
  PROVE  ResultsOfOwnCalls' /\ AwaitedCallsAreOwn'
<1>1. /\ issued \in Nat /\ issued' \in Nat /\ issued <= issued'
      /\ \A i \in 1..issued : call'[i] = call[i] /\ (Recorded(i)' => Recorded(i))
  BY IssuedStep
<1>2. /\ active \subseteq 1..issued /\ active' \subseteq Id /\ listeners \subseteq Wait
      /\ 0 \notin Id
  <2>1. active \subseteq Id /\ active' \subseteq Id /\ listeners \subseteq Wait
    BY DEF IInv, RecordsInv, AwaitsInv, TypeOK
  <2>2. \A i \in active : i <= issued
    BY <2>1, Standing
  <2> QED BY <1>1, <2>1, <2>2, IdType
<1>3. \A i \in 0..issued : Recorded(i)' => i \in 1..issued
  <2> SUFFICES ASSUME ~Recorded(0)' PROVE \A i \in 0..issued : Recorded(i)' => i \in 1..issued
    BY <1>2 DEF Recorded
  <2> QED BY <1>1
<1>4. CASE Narrows
  <2>1. ASSUME NEW w \in Wait
        PROVE  /\ wait'[w].got \subseteq 1..issued'
               /\ wait'[w].by \in Key /\ RealmOf[wait'[w].by] # Bypass =>
                    \A i \in wait'[w].got : wait'[w].by \in call'[i].parties
    <3>1. /\ wait'[w].by = wait[w].by
          /\ wait'[w].got \subseteq
               wait[w].got \cup (IF w \in listeners THEN wait[w].ids \cap active ELSE {})
      BY <1>4 DEF Narrows
    <3>2. wait[w].got \subseteq 1..issued
      BY DEF AwaitedCallsAreOwn
    <3>3. wait'[w].got \subseteq 1..issued
      BY <1>2, <3>1, <3>2
    <3>4. ASSUME NEW i \in wait'[w].got, wait[w].by \in Key, RealmOf[wait[w].by] # Bypass
          PROVE  wait[w].by \in call[i].parties
      <4>1. CASE i \in wait[w].got
        BY <3>4, <4>1 DEF ResultsOfOwnCalls
      <4>2. CASE w \in listeners /\ i \in wait[w].ids /\ i \in active
        BY <3>4, <4>2 DEF AwaitedCallsAreOwn, Recorded
      <4> QED BY <3>1, <4>1, <4>2
    <3> QED BY <1>1, <3>1, <3>3, <3>4
  <2>2. ASSUME NEW w \in listeners'
        PROVE  /\ wait'[w].ids \subseteq 0..issued'
               /\ wait'[w].by \in Key /\ RealmOf[wait'[w].by] # Bypass =>
                    \A i \in wait'[w].ids : Recorded(i)' => wait'[w].by \in call'[i].parties
    <3>1. w \in listeners /\ w \in Wait /\ wait'[w].ids = wait[w].ids /\ wait'[w].by = wait[w].by
      BY <1>2, <1>4 DEF Narrows
    <3>2. wait[w].ids \subseteq 0..issued
      BY <3>1 DEF AwaitedCallsAreOwn
    <3>3. ASSUME NEW i \in wait[w].ids, Recorded(i)', wait[w].by \in Key, RealmOf[wait[w].by] # Bypass
          PROVE  wait[w].by \in call'[i].parties
      <4>1. i \in 1..issued
        BY <1>3, <3>2, <3>3
      <4>2. Recorded(i) /\ call'[i] = call[i]
        BY <1>1, <3>3, <4>1
      <4> QED BY <3>1, <3>3, <4>2 DEF AwaitedCallsAreOwn
    <3> QED BY <1>1, <3>1, <3>2, <3>3
  <2> QED BY <2>1, <2>2 DEF ResultsOfOwnCalls, AwaitedCallsAreOwn
<1>5. ASSUME NEW w \in Wait, NEW c \in AwaitCaller, NEW ids \in SUBSET (0..issued),
             NEW all \in BOOLEAN, WaitForInvocation(w, c, ids, all)
      PROVE  ResultsOfOwnCalls' /\ AwaitedCallsAreOwn'
  <2> DEFINE G == {i \in ids \cap Id : ledger[i] # NoStatus}
             a == [outcome |-> "pending", ids |-> ids, all |-> all, got |-> G, by |-> c]
             o == OutcomeAtStart(w, c, a)
             b == IF o = "denied" THEN [a EXCEPT !.outcome = o, !.got = {}]
                  ELSE [a EXCEPT !.outcome = o]
  <2>1. /\ wait' = [wait EXCEPT ![w] = b]
        /\ listeners' = IF o = "pending" THEN listeners \cup {w} ELSE listeners
        /\ UNCHANGED <<issued, call, active, ledger>>
    BY <1>5 DEF WaitForInvocation, records
  <2>2. ~Admitted(c, ids) => o = "denied"
    BY DEF OutcomeAtStart
  <2>3. b.ids = ids /\ b.by = c /\ b.got = IF o = "denied" THEN {} ELSE G
    <3> HIDE DEF o, G
    <3> QED OBVIOUS
  <2>4. ASSUME Admitted(c, ids), c \in Key, RealmOf[c] # Bypass
        PROVE  \A i \in ids : Recorded(i) => c \in call[i].parties
    BY <2>4, AdmittedIsParty
  <2>5. G \subseteq 1..issued /\ G \subseteq ids /\ \A i \in G : Recorded(i)
    <3>1. \A i \in G : i \in Id /\ i \in ids /\ ledger[i] # NoStatus
      OBVIOUS
    <3>2. \A i \in G : i <= issued
      BY <3>1, Standing
    <3> HIDE DEF G
    <3>3. \A i \in G : i \in Nat \ {0}
      BY <3>1, IdType
    <3>4. G \subseteq 1..issued
      BY <1>1, <3>2, <3>3
    <3> QED BY <3>1, <3>4 DEF Recorded
  <2> HIDE DEF G, a, o, b
  <2>6. wait'[w] = b /\ \A v \in Wait : v # w => wait'[v] = wait[v]
    BY <2>1 DEF IInv, RecordsInv, AwaitsInv, TypeOK
  <2>7. \A i : Recorded(i)' <=> Recorded(i)
    BY <2>1 DEF Recorded
  <2>8. ResultsOfOwnCalls'
    <3> SUFFICES ASSUME NEW v \in Wait, wait'[v].by \in Key, RealmOf[wait'[v].by] # Bypass,
                        NEW i \in wait'[v].got
                 PROVE  wait'[v].by \in call'[i].parties
      BY DEF ResultsOfOwnCalls
    <3>1. CASE v = w
      BY <2>1, <2>2, <2>3, <2>4, <2>5, <2>6, <3>1
    <3>2. CASE v # w
      BY <2>1, <2>6, <3>2 DEF ResultsOfOwnCalls
    <3> QED BY <3>1, <3>2
  <2>9. \A v \in Wait : wait'[v].got \subseteq 1..issued'
    <3> SUFFICES ASSUME NEW v \in Wait PROVE wait'[v].got \subseteq 1..issued
      BY <2>1
    <3>1. wait[v].got \subseteq 1..issued
      BY DEF AwaitedCallsAreOwn
    <3>2. b.got \subseteq 1..issued
      BY <2>3, <2>5
    <3> QED BY <2>6, <3>1, <3>2
  <2>10. ASSUME NEW v \in listeners'
         PROVE  /\ wait'[v].ids \subseteq 0..issued'
                /\ wait'[v].by \in Key =>
                     \/ RealmOf[wait'[v].by] = Bypass
                     \/ \A i \in wait'[v].ids : Recorded(i)' => wait'[v].by \in call'[i].parties
    <3>1. CASE v = w /\ o = "pending"
      BY <2>1, <2>2, <2>3, <2>4, <2>6, <2>7, <3>1
    <3>2. CASE v \in listeners /\ v # w
      <4>1. wait'[v] = wait[v] /\ call' = call /\ issued' = issued
        BY <1>2, <2>1, <2>6, <3>2
      <4> QED BY <2>7, <3>2, <4>1 DEF AwaitedCallsAreOwn
    <3>3. w \notin listeners
      BY <1>5 DEF WaitForInvocation, IInv, RecordsInv, AwaitsInv, NoLostCompletion
    <3> QED BY <2>1, <3>1, <3>2, <3>3
  <2> QED BY <2>8, <2>9, <2>10 DEF AwaitedCallsAreOwn
<1> QED BY <1>4, <1>5, AwaitStep

\* What a call or an await was refused for does not come about later: no chain
\* of calls is longer than MAX_INVOCATION_DEPTH, and no agent without
\* realmBypass learns the result of a call between two others, although
\* invokeAgent counts only one step and waitForInvocation checks only once.
THEOREM AdmissionHolds == Spec => []AsAdmitted
<1> DEFINE A == Lineage /\ PartiesOfKeys /\ ResultsOfOwnCalls /\ AwaitedCallsAreOwn
<1>1. Init => A
  <2> SUFFICES ASSUME Init PROVE A
    OBVIOUS
  <2>1. Lineage
    <3>1. \A i \in Id : call[i].parent = 0 /\ i > 0 /\ 0 \in 0..(i - 1)
      BY IdType, SMT DEF Init, NoCall
    <3> QED BY <3>1, IdType, SMT DEF Init, Lineage
  <2>2. \A w \in Wait : wait[w].got = {}
    BY DEF Init, NoWait
  <2>3. issued = 0 /\ listeners = {} /\ 1..0 = {}
    BY SMT DEF Init
  <2> QED BY <2>1, <2>2, <2>3 DEF PartiesOfKeys, ResultsOfOwnCalls, AwaitedCallsAreOwn
<1>2. IInv /\ IInv' /\ A /\ [Next]_vars => A'
  BY LineageStep, PartiesStep, OwnStep
<1>3. IInv /\ A => AsAdmitted
  BY ChainsBounded DEF AsAdmitted, IInv, RecordsInv, AwaitsInv
<1> QED
  <2> HIDE DEF A
  <2> QED BY <1>1, <1>2, <1>3, EngineInvariance, PTL DEF Spec
-----------------------------------------------------------------------------
(* Deaths                                                                  *)

\* Agents die by killAgent alone, and the call it makes settles what it finds.
LEMMA DeathStep ==
  ASSUME IInv, PartiesOfKeys, [Next]_vars, NEW k \in registry \ registry', NEW i \in active
  PROVE  IF i \in active'
         THEN k \in call[i].parties =>
                k \notin {call[i].from, call[i].to} /\ BareOf[k] \in {call[i].from, call[i].to}
         ELSE k \in call[i].parties /\ ledger'[i] = "cancelled"
<1>1. Kill(k)
  <2>1. ASSUME NEW a \in Key, Kill(a) PROVE k = a
    BY <2>1 DEF Kill
  <2>2. CASE registry \subseteq registry'
    BY <2>2
  <2>3. ASSUME NEW a \in Key, Restore(a) PROVE registry \subseteq registry'
    BY <2>3 DEF Restore
  <2>4. ASSUME NEW c \in Call, NEW j \in {0} \cup turns, InvokeAgent(c, j)
        PROVE  registry \subseteq registry'
    BY <2>4 DEF InvokeAgent, agents
  <2>5. ASSUME NEW h \in Id, Dispatch(h) \/ Chunk(h) \/ CallTimeout(h)
        PROVE  registry \subseteq registry'
    BY <2>5 DEF Dispatch, Chunk, CallTimeout, agents
  <2>6. ASSUME NEW h \in Id, NEW s \in {"completed", "error"}, TurnSettles(h, s)
        PROVE  registry \subseteq registry'
    BY <2>6 DEF TurnSettles, agents
  <2>7. ASSUME NEW w \in Wait, NEW c \in AwaitCaller, NEW ids \in SUBSET (0..issued),
               NEW all \in BOOLEAN, WaitForInvocation(w, c, ids, all)
        PROVE  registry \subseteq registry'
    BY <2>7 DEF WaitForInvocation, agents
  <2>8. ASSUME NEW w \in Wait, WaitTimeout(w) \/ Abort(w) PROVE registry \subseteq registry'
    BY <2>8 DEF WaitTimeout, Abort, agents
  <2>9. Reset \/ UNCHANGED vars => registry \subseteq registry'
    BY DEF Reset, vars, agents
  <2> QED BY <2>1, <2>2, <2>3, <2>4, <2>5, <2>6, <2>7, <2>8, <2>9 DEF Next
<1> DEFINE S == {n \in active : Involves(n, k)}
<1>2. k \in Key /\ Resolve(k) = k /\ k # NoKey
  BY <1>1, AgentAssumption DEF Kill, Resolve, Ident
<1>3. i \in 1..issued /\ i \in Id
  <2>1. i \in Id /\ i <= issued
    BY Standing DEF IInv, RecordsInv, TypeOK
  <2> QED BY <2>1, IdType, SMT DEF IInv, RecordsInv, TypeOK
<1>4. i \in S <=> k \in {call[i].from, call[i].to}
  BY <1>2 DEF Involves
<1>5. active' = active \ S /\ (i \in S => ledger'[i] = "cancelled")
  BY <1>1, <1>3 DEF Kill, CancelPending, Archive
<1> HIDE DEF S
<1>6. CASE i \in S
  BY <1>2, <1>3, <1>4, <1>5, <1>6 DEF PartiesOfKeys
<1>7. CASE i \notin S
  BY <1>2, <1>3, <1>4, <1>5, <1>7 DEF PartiesOfKeys
<1> QED BY <1>6, <1>7

\* A death cancels calls of the dead agent only, all those that name it by its
\* key, and leaves of the others none but those that name it by its bare id,
\* however calls are made, and whatever has become of the agents since
\* (killAgent, cancelPendingInvocationsForAgent).
THEOREM DeathsSettleCalls == Spec => DeathSettlesCalls
<1>1. IInv /\ AsAdmitted /\ [Next]_vars =>
        [\A k \in registry \ registry' : \A i \in active :
           IF i \in active'
           THEN k \in call[i].parties =>
                  k \notin {call[i].from, call[i].to} /\ BareOf[k] \in {call[i].from, call[i].to}
           ELSE k \in call[i].parties /\ ledger'[i] = "cancelled"]_vars
  BY DeathStep DEF AsAdmitted
<1> QED BY <1>1, EngineInvariance, AdmissionHolds, PTL DEF Spec, DeathSettlesCalls
=============================================================================
