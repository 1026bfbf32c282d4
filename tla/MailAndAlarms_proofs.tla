------------------------ MODULE MailAndAlarms_proofs ------------------------
(***************************************************************************)
(* Proofs about the messaging bus, for any number of agents, messages and  *)
(* waits, and about the scheduler, which listens to the bus, for any       *)
(* agents, timers and durations, any longest delay of the host and any     *)
(* number of mishaps.                                                      *)
(*                                                                         *)
(* The bus's invariant IInv is inductive: HeardMail needs WaitsHonest      *)
(* (nobody reads a mailbox whose owner waits), Conserved needs Sent (a new *)
(* message is nowhere yet).  All deliveries share one lemma, Delivery.     *)
(*                                                                         *)
(* The scheduler's AInv is inductive as it stands.  Two lemmas carry the   *)
(* proof: Cancelling, for everything that cancels alarms, and Importing,   *)
(* for everything that reads rows.                                         *)
(***************************************************************************)
EXTENDS MessagingBus, RuntimeScheduler, TLAPS

\* A bus just built satisfies the invariant (constructor, registerAgent).
LEMMA InitInv == Init => IInv
<1> SUFFICES ASSUME Init PROVE IInv
  OBVIOUS
<1>1. TypeOK
  BY IdentityAssumption, BusAssumption DEF Init, TypeOK, Pending
<1>2. Conserved /\ Sent /\ WaitsHonest /\ HeardMail
  BY DEF Init, Conserved, Sent, WaitsHonest, HeardMail, Pending, WaitsOf
<1> QED BY <1>1, <1>2 DEF IInv, BInv

-----------------------------------------------------------------------------
(* Delivery                                                                *)

\* A message is put into mailboxes of active agents within the sender's reach.
LEMMA RecipientsAreLawful ==
  ASSUME NEW m \in Message, TypeOK
  PROVE  Recipients(m) \subseteq registered /\ Recipients(m) \subseteq Lawful(m)
<1>1. ASSUME NEW k \in Key, Reaches(Scope(From[m]), k) PROVE k \in Lawful(m)
  BY <1>1, IdentityAssumption, BusAssumption, MailAssumption DEF Reaches, Scope, Lawful
<1>2. CASE To[m] = All
  BY <1>1, <1>2 DEF Recipients, TypeOK
<1>3. CASE To[m] # All
  <2> DEFINE D == Denoted(To[m], Scope(From[m]))
  <2>1. D \subseteq registered
    BY DEF Denoted
  <2>2. CASE Verdict(m) = "sent"
    <3>1. PICK k \in D : D = {k} /\ Reaches(Scope(From[m]), k)
      BY <2>2 DEF Verdict
    <3>2. Recipients(m) = {k} /\ k \in Key
      BY <1>3, <2>1, <2>2, <3>1 DEF Recipients, TypeOK
    <3> QED BY <1>1, <2>1, <3>1, <3>2
  <2>3. CASE Verdict(m) # "sent"
    BY <1>3, <2>3 DEF Recipients
  <2> QED BY <2>2, <2>3
<1> QED BY <1>2, <1>3

\* A wait takes the message if it is delivered to its owner, except a broadcast
\* from the bare id of the owner.
LEMMA OwnersAreTold ==
  ASSUME NEW m \in Message, NEW w \in hearing, TypeOK, Owner(w) \in Recipients(m),
         Wants(w, m), ~(To[m] = All /\ SenderId(m) = BareOf[Owner(w)])
  PROVE  w \in Takers(m, Recipients(m))
BY DEF Takers, IsForRecipient

\* Delivery of a message sent for the first time preserves the invariant.
LEMMA Delivery ==
  ASSUME NEW m \in Message, IInv, MaySend(m),
         receipt' = [receipt EXCEPT ![m] = "sent"],
         Deliver(m, Recipients(m)), Resolve(Takers(m, Recipients(m))),
         UNCHANGED <<registered, terminated>>
  PROVE  IInv'
<1> DEFINE R == Recipients(m)
           W == Takers(m, R)
           A == {Owner(w) : w \in {v \in W : WaitOf[v].mark}}
           done == {w \in W : Satisfied(w, collected'[w])}
<1>0. TypeOK /\ Conserved /\ Sent /\ WaitsHonest /\ HeardMail
  BY DEF IInv, BInv
<1>1. R \subseteq registered /\ R \subseteq Lawful(m) /\ R \subseteq Key
  BY <1>0, RecipientsAreLawful DEF TypeOK
<1>2. W \subseteq hearing /\ W \subseteq Pending /\ W \subseteq Wait /\ A \subseteq Key
  BY <1>0, MailAssumption DEF TypeOK, Takers, Pending, Owner
<1>3. receipt[m] = "none" /\ receipt'[m] = "sent"
      /\ \A n \in Message : n # m => receipt'[n] = receipt[n]
  BY <1>0 DEF MaySend, TypeOK
<1>4. \A k \in Key : m \notin delivered[k] /\ m \notin archive[k] /\ m \notin queue[k]
  BY <1>0, <1>3 DEF Sent, Conserved
<1>5. \A k \in Key :
        /\ queue'[k] = IF k \in R \ A THEN queue[k] \cup {m} ELSE queue[k]
        /\ archive'[k] = IF k \in A THEN archive[k] \cup {m} ELSE archive[k]
        /\ delivered'[k] = IF k \in R THEN delivered[k] \cup {m} ELSE delivered[k]
  BY DEF Deliver
<1>6. \A w \in Wait : collected'[w] = IF w \in W THEN collected[w] \cup {m} ELSE collected[w]
  BY DEF Deliver
<1>7. /\ \A w \in Wait : wait'[w] = IF w \in done THEN "ready" ELSE wait[w]
      /\ hearing' = hearing \ done
  BY DEF Resolve
<1>8. Pending' \subseteq Pending /\ hearing' \subseteq Pending'
  BY <1>0, <1>2, <1>7 DEF Pending, TypeOK
<1>a. done \subseteq W /\ \A w \in W : Wants(w, m)
  BY DEF Takers
<1> HIDE DEF R, W, A, done
<1>9. TypeOK'
  <2>1. queue' \in [Key -> SUBSET Message] /\ archive' \in [Key -> SUBSET Message]
        /\ delivered' \in [Key -> SUBSET Message] /\ collected' \in [Wait -> SUBSET Message]
    BY <1>0 DEF Deliver, TypeOK
  <2>2. wait' \in [Wait -> {"new", "pending", "ready", "timedOut", "aborted"}]
    BY <1>0 DEF Resolve, TypeOK
  <2>3. receipt' \in [Message -> {"none", "sent", "terminated", "denied", "unknown"}]
    BY <1>0 DEF TypeOK
  <2> QED BY <1>0, <1>8, <2>1, <2>2, <2>3 DEF TypeOK
<1>10. Conserved'
  <2>1. \A k \in A : m \in TakenFor(k)'
    BY <1>2, <1>6 DEF A, TakenFor
  <2>2. \A k \in Key : TakenFor(k) \subseteq TakenFor(k)'
    BY <1>6 DEF TakenFor
  <2>3. ASSUME NEW k \in Key
        PROVE  /\ queue'[k] \cap archive'[k] = {} /\ queue'[k] \subseteq delivered'[k]
               /\ delivered'[k] \subseteq queue'[k] \cup archive'[k]
    <3>1. /\ queue[k] \cap archive[k] = {} /\ queue[k] \subseteq delivered[k]
          /\ delivered[k] \subseteq queue[k] \cup archive[k]
      BY <1>0 DEF Conserved
    <3>2. CASE k \in A
      BY <1>4, <1>5, <3>1, <3>2
    <3>3. CASE k \notin A
      BY <1>4, <1>5, <3>1, <3>3
    <3> QED BY <3>2, <3>3
  <2>4. ASSUME NEW k \in Key PROVE archive'[k] \subseteq delivered'[k] \cup TakenFor(k)'
    <3>1. archive[k] \subseteq delivered[k] \cup TakenFor(k)
      BY <1>0 DEF Conserved
    <3>2. delivered[k] \subseteq delivered'[k]
      BY <1>5
    <3> QED BY <1>5, <2>1, <2>2, <3>1, <3>2
  <2> QED BY <2>3, <2>4 DEF Conserved
<1>11. Sent'
  <2>1. \A k \in Key : \A n \in delivered'[k] : k \in Lawful(n)
    <3>1. \A k \in Key : \A n \in delivered[k] : k \in Lawful(n)
      BY <1>0 DEF Sent
    <3> SUFFICES ASSUME NEW k \in Key, NEW n \in delivered'[k] PROVE k \in Lawful(n)
      OBVIOUS
    <3>2. n \in delivered[k] \/ (k \in R /\ n = m)
      BY <1>5
    <3> QED BY <1>1, <3>1, <3>2
  <2>2. \A k \in Key : \A n \in delivered'[k] \cup archive'[k] : receipt'[n] = "sent"
    <3>1. \A k \in Key : \A n \in delivered[k] \cup archive[k] :
            n \in Message /\ receipt[n] = "sent"
      BY <1>0 DEF Sent, TypeOK
    <3> SUFFICES ASSUME NEW k \in Key, NEW n \in delivered'[k] \cup archive'[k]
                 PROVE  receipt'[n] = "sent"
      OBVIOUS
    <3>2. n \in delivered[k] \cup archive[k] \/ n = m
      BY <1>5
    <3> QED BY <1>3, <3>1, <3>2
  <2>3. \A w \in Wait : \A n \in collected'[w] : receipt'[n] = "sent" /\ Wants(w, n)
    <3>1. \A w \in Wait : \A n \in collected[w] :
            n \in Message /\ receipt[n] = "sent" /\ Wants(w, n)
      BY <1>0 DEF Sent, TypeOK
    <3> SUFFICES ASSUME NEW w \in Wait, NEW n \in collected'[w]
                 PROVE  receipt'[n] = "sent" /\ Wants(w, n)
      OBVIOUS
    <3>2. n \in collected[w] \/ (w \in W /\ n = m)
      BY <1>6
    <3> QED BY <1>3, <1>a, <3>1, <3>2
  <2> QED BY <2>1, <2>2, <2>3 DEF Sent, Lawful, Wants, SenderId
<1>12. WaitsHonest'
  <2>1. \A w \in Pending' : Owner(w) \in registered' /\ WaitsOf(Owner(w))' = {w}
    BY <1>0, <1>8 DEF WaitsHonest, WaitsOf, Owner
  <2>2. ASSUME NEW w \in Wait, wait'[w] = "new" PROVE collected'[w] = {}
    BY <1>0, <1>2, <1>6, <1>7, <2>2 DEF WaitsHonest, Pending
  <2>3. ASSUME NEW w \in Wait, wait'[w] # "new"
        PROVE  Satisfied(w, collected'[w]) <=> wait'[w] = "ready"
    <3>1. CASE w \in W
      <4>1. wait[w] = "pending"
        BY <1>0, <1>2, <3>1 DEF Pending
      <4> QED BY <1>7, <3>1, <4>1 DEF done
    <3>2. CASE w \notin W
      BY <1>0, <1>6, <1>7, <1>a, <2>3, <3>2 DEF WaitsHonest
    <3> QED BY <3>1, <3>2
  <2>4. registered' \cap terminated' = {}
    BY <1>0 DEF WaitsHonest
  <2> QED BY <2>1, <2>2, <2>3, <2>4 DEF WaitsHonest, Owner, Satisfied, SenderId
<1>13. HeardMail'
  <2> SUFFICES ASSUME NEW w \in hearing', NEW n \in queue'[Owner(w)], Wants(w, n),
                      ~(To[n] = All /\ SenderId(n) = BareOf[Owner(w)])
               PROVE  ~WaitOf[w].mark /\ n \in collected'[w]
    BY DEF HeardMail, NotSleepingOn, Wants, SenderId, Owner
  <2>1. w \in hearing /\ w \in Wait /\ Owner(w) \in Key
    BY <1>0, <1>7, MailAssumption DEF TypeOK, Pending, Owner
  <2>2. CASE n = m
    <3>1. Owner(w) \in R \ A
      BY <1>0, <1>4, <1>5, <2>1, <2>2
    <3>2. w \in W
      BY <1>0, <2>1, <2>2, <3>1, OwnersAreTold DEF R, W
    <3>3. ~WaitOf[w].mark
      BY <3>1, <3>2 DEF A
    <3> QED BY <1>6, <2>1, <2>2, <3>2, <3>3
  <2>3. CASE n # m
    <3>1. n \in queue[Owner(w)]
      BY <1>5, <2>1, <2>3
    <3> QED BY <1>0, <1>6, <2>1, <3>1 DEF HeardMail, NotSleepingOn
  <2> QED BY <2>2, <2>3
<1> QED BY <1>9, <1>10, <1>11, <1>12, <1>13 DEF IInv, BInv

-----------------------------------------------------------------------------
(* The other operations                                                    *)

\* Moving S from the queue of an active agent k to its archive keeps every copy
\* in one place and disturbs no wait.
LEMMA Moving ==
  ASSUME IInv, NEW k \in Key, NEW S \in SUBSET queue[k], Active(k),
         queue' = [queue EXCEPT ![k] = @ \ S],
         archive' = [archive EXCEPT ![k] = @ \cup S],
         UNCHANGED <<registered, terminated, delivered, receipt, waits, counters>>
  PROVE  IInv'
<1>0. TypeOK /\ Conserved /\ Sent /\ WaitsHonest /\ HeardMail
  BY DEF IInv, BInv
<1>1. UNCHANGED <<wait, collected, hearing, delivered, receipt, registered, terminated>>
  BY DEF waits
<1>2. /\ queue'[k] = queue[k] \ S /\ archive'[k] = archive[k] \cup S
      /\ \A j \in Key \ {k} : queue'[j] = queue[j] /\ archive'[j] = archive[j]
  BY <1>0 DEF TypeOK
<1>3. TypeOK'
  BY <1>0, <1>1 DEF TypeOK, Pending
<1>4. Conserved'
  <2> SUFFICES ASSUME NEW j \in Key
               PROVE  /\ queue'[j] \cap archive'[j] = {} /\ queue'[j] \subseteq delivered[j]
                      /\ delivered[j] \subseteq queue'[j] \cup archive'[j]
                      /\ archive'[j] \subseteq delivered[j] \cup TakenFor(j)
    BY <1>1 DEF Conserved, TakenFor
  <2>1. /\ queue[j] \cap archive[j] = {} /\ queue[j] \subseteq delivered[j]
        /\ delivered[j] \subseteq queue[j] \cup archive[j]
        /\ archive[j] \subseteq delivered[j] \cup TakenFor(j)
    BY <1>0 DEF Conserved
  <2> QED BY <1>2, <2>1
<1>5. Sent'
  <2>1. \A j \in Key : \A n \in delivered[j] \cup archive'[j] : receipt[n] = "sent"
    <3>1. \A j \in Key : \A n \in delivered[j] \cup archive[j] : receipt[n] = "sent"
      BY <1>0 DEF Sent
    <3>2. S \subseteq delivered[k]
      BY <1>0 DEF Conserved
    <3> QED BY <1>2, <3>1, <3>2
  <2> QED BY <1>0, <1>1, <2>1 DEF Sent, Lawful, Wants, SenderId
<1>6. WaitsHonest'
  BY <1>0, <1>1 DEF WaitsHonest, WaitsOf, Pending, Owner, Satisfied, SenderId
<1>7. HeardMail'
  <2>1. \A w \in hearing : Owner(w) \in Key /\ Owner(w) # k
    BY <1>0, MailAssumption DEF Active, WaitsOf, TypeOK, Pending, Owner
  <2>2. \A w \in hearing : queue'[Owner(w)] = queue[Owner(w)]
    BY <1>2, <2>1
  <2> QED BY <1>0, <1>1, <2>2 DEF HeardMail, NotSleepingOn, Wants, SenderId, Owner
<1> QED BY <1>3, <1>4, <1>5, <1>6, <1>7 DEF IInv, BInv

\* Pending waits W may end without being satisfied at any time; others lose
\* their agent or their subscription only.
LEMMA Finishing ==
  ASSUME IInv, NEW W \in SUBSET Pending, NEW how \in {"timedOut", "aborted"},
         Finish(W, how), registered' \subseteq Key, terminated' \subseteq Key,
         registered' \cap terminated' = {},
         \A w \in Pending \ W : Owner(w) \in registered',
         UNCHANGED <<mail, receipt>>
  PROVE  IInv'
<1>0. TypeOK /\ Conserved /\ Sent /\ WaitsHonest /\ HeardMail
  BY DEF IInv, BInv
<1>1. UNCHANGED <<queue, archive, delivered, receipt, collected>>
  BY DEF mail, Finish
<1>2. /\ \A w \in Wait : wait'[w] = IF w \in W THEN how ELSE wait[w]
      /\ hearing' = hearing \ W
  BY DEF Finish
<1>3. Pending' = Pending \ W /\ hearing' \subseteq Pending'
  BY <1>0, <1>2 DEF Pending, TypeOK
<1>4. TypeOK'
  <2>1. wait' \in [Wait -> {"new", "pending", "ready", "timedOut", "aborted"}]
    BY <1>0 DEF Finish, TypeOK
  <2> QED BY <1>0, <1>1, <1>3, <2>1 DEF TypeOK
<1>5. Conserved' /\ Sent'
  BY <1>0, <1>1 DEF Conserved, Sent, TakenFor, Lawful, Wants, SenderId, Owner
<1>6. WaitsHonest'
  <2>1. \A w \in Pending' : Owner(w) \in registered' /\ WaitsOf(Owner(w))' = {w}
    BY <1>0, <1>3 DEF WaitsHonest, WaitsOf, Owner
  <2>2. ASSUME NEW w \in Wait, wait'[w] = "new" PROVE collected'[w] = {}
    BY <1>0, <1>1, <1>2, <2>2 DEF WaitsHonest
  <2>3. ASSUME NEW w \in Wait, wait'[w] # "new"
        PROVE  Satisfied(w, collected[w]) <=> wait'[w] = "ready"
    <3>1. CASE w \in W
      BY <1>0, <1>2, <3>1 DEF WaitsHonest, Pending
    <3>2. CASE w \notin W
      BY <1>0, <1>2, <2>3, <3>2 DEF WaitsHonest
    <3> QED BY <3>1, <3>2
  <2> QED BY <1>1, <2>1, <2>2, <2>3 DEF WaitsHonest, Owner, Satisfied, SenderId
<1>7. HeardMail'
  BY <1>0, <1>1, <1>2 DEF HeardMail, NotSleepingOn, Wants, SenderId, Owner
<1> QED BY <1>4, <1>5, <1>6, <1>7 DEF IInv, BInv

\* Beginning to wait preserves the invariant (waitForMail): the owner has no
\* other wait, and what its queue holds is taken before the subscription.
LEMMA Waiting ==
  ASSUME IInv, NEW w \in Wait, WaitForMail(w)
  PROVE  IInv'
<1> DEFINE k == Owner(w)
           found == AtHand(w)
<1>0. TypeOK /\ Conserved /\ Sent /\ WaitsHonest /\ HeardMail
  BY DEF IInv, BInv
<1>1. k \in Key /\ k \in registered /\ WaitsOf(k) = {} /\ wait[w] = "new" /\ collected[w] = {}
  BY <1>0, MailAssumption DEF WaitForMail, Active, Owner, WaitsHonest
<1>2. UNCHANGED <<registered, terminated, delivered, receipt>>
  BY DEF WaitForMail
<1>3. PICK s \in {"ready", "timedOut", "aborted", "pending"} :
        /\ s = "ready" <=> Satisfied(w, found)
        /\ wait' = [wait EXCEPT ![w] = s]
        /\ hearing' = IF s = "pending" THEN hearing \cup {w} ELSE hearing
  BY DEF WaitForMail
<1>4. collected'[w] = found /\ \A v \in Wait \ {w} : collected'[v] = collected[v]
  BY <1>0 DEF WaitForMail, TypeOK
<1>5. wait'[w] = s /\ \A v \in Wait \ {w} : wait'[v] = wait[v]
  BY <1>0, <1>3 DEF TypeOK
<1>6. /\ found \subseteq queue[k] \cup archive[k] /\ found \subseteq Message
      /\ \A n \in queue[k] : Wants(w, n) => n \in found
      /\ \A n \in found : Wants(w, n)
  BY <1>0, <1>1 DEF AtHand, TypeOK
<1>7. \A j \in Key \ {k} : queue'[j] = queue[j] /\ archive'[j] = archive[j]
  BY <1>0 DEF WaitForMail, TypeOK
<1>8. IF WaitOf[w].mark
      THEN queue'[k] = queue[k] \ found /\ archive'[k] = archive[k] \cup found
      ELSE queue'[k] = queue[k] /\ archive'[k] = archive[k]
  BY <1>0, <1>1 DEF WaitForMail, TypeOK
<1>9. Pending' = IF s = "pending" THEN Pending \cup {w} ELSE Pending
  BY <1>1, <1>5 DEF Pending
<1>10. w \notin Pending /\ hearing \subseteq Pending
  BY <1>0, <1>1 DEF Pending, TypeOK
<1>11. queue' \in [Key -> SUBSET Message] /\ archive' \in [Key -> SUBSET Message]
  <2>1. CASE WaitOf[w].mark
    BY <1>0, <1>6, <2>1 DEF WaitForMail, TypeOK
  <2>2. CASE ~WaitOf[w].mark
    BY <1>0, <2>2 DEF WaitForMail, TypeOK
  <2> QED BY <2>1, <2>2
<1>12. collected' \in [Wait -> SUBSET Message]
  BY <1>0, <1>6 DEF WaitForMail, TypeOK
<1> HIDE DEF k, found
<1>13. TypeOK'
  BY <1>0, <1>2, <1>3, <1>9, <1>10, <1>11, <1>12 DEF TypeOK
<1>14. Conserved'
  <2> SUFFICES ASSUME NEW j \in Key
               PROVE  /\ queue'[j] \cap archive'[j] = {} /\ queue'[j] \subseteq delivered[j]
                      /\ delivered[j] \subseteq queue'[j] \cup archive'[j]
                      /\ archive'[j] \subseteq delivered[j] \cup TakenFor(j)'
    BY <1>2 DEF Conserved
  <2>1. /\ queue[j] \cap archive[j] = {} /\ queue[j] \subseteq delivered[j]
        /\ delivered[j] \subseteq queue[j] \cup archive[j]
        /\ archive[j] \subseteq delivered[j] \cup TakenFor(j)
    BY <1>0 DEF Conserved
  <2>2. TakenFor(j) \subseteq TakenFor(j)'
    BY <1>1, <1>4 DEF TakenFor, Owner
  <2>3. CASE j # k
    BY <1>7, <2>1, <2>2, <2>3
  <2>4. CASE j = k /\ WaitOf[w].mark
    <3>1. queue'[j] = queue[j] \ found /\ archive'[j] = archive[j] \cup found
      BY <1>8, <2>4
    <3> QED BY <1>6, <2>1, <2>2, <2>4, <3>1
  <2>5. CASE j = k /\ ~WaitOf[w].mark
    BY <1>8, <2>1, <2>2, <2>5
  <2> QED BY <2>3, <2>4, <2>5
<1>15. Sent'
  <2>1. \A j \in Key : \A n \in delivered[j] \cup archive[j] : receipt[n] = "sent"
    BY <1>0 DEF Sent
  <2>2. \A n \in queue[k] \cup archive[k] : receipt[n] = "sent"
    BY <1>0, <1>1, <2>1 DEF Conserved
  <2>3. \A j \in Key : \A n \in delivered[j] \cup archive'[j] : receipt[n] = "sent"
    <3> SUFFICES ASSUME NEW j \in Key, NEW n \in delivered[j] \cup archive'[j]
                 PROVE  receipt[n] = "sent"
      OBVIOUS
    <3>1. archive'[j] = archive[j] \/ (j = k /\ archive'[j] = archive[j] \cup found)
      BY <1>7, <1>8
    <3> QED BY <1>6, <2>1, <2>2, <3>1
  <2>4. \A v \in Wait : \A n \in collected'[v] : receipt[n] = "sent" /\ Wants(v, n)
    <3> SUFFICES ASSUME NEW v \in Wait, NEW x \in collected'[v]
                 PROVE  receipt[x] = "sent" /\ Wants(v, x)
      OBVIOUS
    <3>1. CASE v = w
      <4>1. x \in found
        BY <1>4, <3>1
      <4>2. x \in queue[k] \cup archive[k]
        BY <1>6, <4>1
      <4>3. Wants(w, x)
        BY <1>6, <4>1
      <4> QED BY <2>2, <3>1, <4>2, <4>3
    <3>2. CASE v # w
      <4>1. x \in collected[v]
        BY <1>4, <3>2
      <4> QED BY <1>0, <4>1 DEF Sent
    <3> QED BY <3>1, <3>2
  <2> QED BY <1>0, <1>2, <2>3, <2>4 DEF Sent, Lawful, Wants, SenderId
<1>16. WaitsHonest'
  <2>1. \A v \in Pending : v # w /\ Owner(v) # k /\ Owner(v) \in registered
                           /\ WaitsOf(Owner(v)) = {v}
    BY <1>0, <1>1, <1>10 DEF WaitsHonest, WaitsOf
  <2>2. ASSUME NEW v \in Pending'
        PROVE  Owner(v) \in registered /\ {u \in Pending' : Owner(u) = Owner(v)} = {v}
    <3>1. CASE v = w
      BY <1>1, <1>9, <1>10, <2>1, <2>2, <3>1 DEF k
    <3>2. CASE v # w
      <4>1. v \in Pending
        BY <1>9, <2>2, <3>2
      <4> QED BY <1>9, <2>1, <3>2, <4>1 DEF k, WaitsOf
    <3> QED BY <3>1, <3>2
  <2>3. \A v \in Wait : wait'[v] = "new" => collected'[v] = {}
    BY <1>0, <1>4, <1>5 DEF WaitsHonest
  <2>4. \A v \in Wait : wait'[v] # "new"
                         => (Satisfied(v, collected'[v]) <=> wait'[v] = "ready")
    BY <1>0, <1>3, <1>4, <1>5 DEF WaitsHonest
  <2> QED BY <1>0, <1>2, <2>2, <2>3, <2>4
          DEF WaitsHonest, WaitsOf, Owner, Satisfied, SenderId
<1>17. HeardMail'
  <2> SUFFICES ASSUME NEW v \in hearing', NEW n \in queue'[Owner(v)], Wants(v, n),
                      ~(To[n] = All /\ SenderId(n) = BareOf[Owner(v)])
               PROVE  ~WaitOf[v].mark /\ n \in collected'[v]
    BY DEF HeardMail, NotSleepingOn, Wants, SenderId, Owner
  <2>1. CASE v = w
    BY <1>4, <1>6, <1>8, <2>1 DEF k
  <2>2. CASE v # w
    <3>1. v \in hearing /\ v \in Wait /\ Owner(v) \in Key /\ Owner(v) # k
      BY <1>0, <1>1, <1>3, <1>10, <2>2, MailAssumption DEF WaitsOf, Pending, Owner, k
    <3>2. queue'[Owner(v)] = queue[Owner(v)] /\ collected'[v] = collected[v]
      BY <1>4, <1>7, <2>2, <3>1
    <3> QED BY <1>0, <3>1, <3>2 DEF HeardMail, NotSleepingOn
  <2> QED BY <2>1, <2>2
<1> QED BY <1>13, <1>14, <1>15, <1>16, <1>17 DEF IInv, BInv

\* A refused message leaves its receipt and nothing else (sendMessage).
LEMMA Refusal ==
  ASSUME IInv, NEW m \in Message, MaySend(m), Verdict(m) # "sent",
         receipt' = [receipt EXCEPT ![m] = Verdict(m)],
         UNCHANGED <<registered, terminated, mail, waits>>
  PROVE  IInv'
<1>0. TypeOK /\ Conserved /\ Sent /\ WaitsHonest /\ HeardMail
  BY DEF IInv, BInv
<1>1. UNCHANGED <<registered, terminated, queue, archive, delivered, wait, collected, hearing>>
  BY DEF mail, waits
<1>2. Verdict(m) \in {"terminated", "denied", "unknown"}
  BY DEF Verdict
<1>3. receipt[m] = "none" /\ \A n \in Message : n # m => receipt'[n] = receipt[n]
  BY <1>0 DEF MaySend, TypeOK
<1>4. TypeOK'
  BY <1>0, <1>1, <1>2 DEF TypeOK, Pending
<1>5. Sent'
  <2>1. \A n \in Message : receipt[n] = "sent" => receipt'[n] = "sent"
    BY <1>3
  <2> QED BY <1>0, <1>1, <2>1 DEF Sent, TypeOK, Lawful, Wants, SenderId
<1>6. Conserved' /\ WaitsHonest' /\ HeardMail'
  BY <1>0, <1>1 DEF Conserved, TakenFor, WaitsHonest, WaitsOf, Pending, Owner, Satisfied,
     HeardMail, NotSleepingOn, Wants, SenderId
<1> QED BY <1>4, <1>5, <1>6 DEF IInv, BInv

\* Purging an agent empties its mailbox and aborts its waits (purgeAgent).
LEMMA Purging ==
  ASSUME IInv, NEW k \in Key, PurgeAgent(k)
  PROVE  IInv'
<1>0. TypeOK /\ Conserved /\ Sent /\ WaitsHonest /\ HeardMail
  BY DEF IInv, BInv
<1>1. /\ UNCHANGED <<receipt, collected>>
      /\ registered' = registered \ {k} /\ terminated' = terminated \ {k}
  BY DEF PurgeAgent, Finish
<1>2. /\ queue'[k] = {} /\ archive'[k] = {} /\ delivered'[k] = {}
      /\ \A j \in Key \ {k} : /\ queue'[j] = queue[j] /\ archive'[j] = archive[j]
                              /\ delivered'[j] = delivered[j]
  BY <1>0 DEF PurgeAgent, TypeOK
<1>3. /\ \A w \in Wait : wait'[w] = IF w \in WaitsOf(k) THEN "aborted" ELSE wait[w]
      /\ hearing' = hearing \ WaitsOf(k)
  BY DEF PurgeAgent, Finish
<1>4. Pending' = Pending \ WaitsOf(k) /\ hearing' \subseteq Pending'
  BY <1>0, <1>3 DEF Pending, TypeOK
<1>5. TypeOK'
  <2>1. wait' \in [Wait -> {"new", "pending", "ready", "timedOut", "aborted"}]
    BY <1>0 DEF PurgeAgent, Finish, TypeOK
  <2>2. queue' \in [Key -> SUBSET Message] /\ archive' \in [Key -> SUBSET Message]
        /\ delivered' \in [Key -> SUBSET Message]
    BY <1>0 DEF PurgeAgent, TypeOK
  <2> QED BY <1>0, <1>1, <1>4, <2>1, <2>2 DEF TypeOK
<1>6. Conserved' /\ Sent'
  <2>1. \A j \in Key : TakenFor(j)' = TakenFor(j)
    BY <1>1 DEF TakenFor, Owner
  <2>2. Conserved'
    BY <1>0, <1>2, <2>1 DEF Conserved
  <2>3. Sent'
    BY <1>0, <1>1, <1>2 DEF Sent, Lawful, Wants, SenderId
  <2> QED BY <2>2, <2>3
<1>7. WaitsHonest'
  <2>1. \A w \in Pending' : Owner(w) \in registered' /\ WaitsOf(Owner(w))' = {w}
    BY <1>0, <1>1, <1>4 DEF WaitsHonest, WaitsOf, Owner
  <2>2. \A w \in Wait : wait'[w] = "new" => collected'[w] = {}
    BY <1>0, <1>1, <1>3 DEF WaitsHonest
  <2>3. ASSUME NEW w \in Wait, wait'[w] # "new"
        PROVE  Satisfied(w, collected[w]) <=> wait'[w] = "ready"
    <3>1. CASE w \in WaitsOf(k)
      BY <1>0, <1>3, <3>1 DEF WaitsHonest, WaitsOf, Pending
    <3>2. CASE w \notin WaitsOf(k)
      BY <1>0, <1>3, <2>3, <3>2 DEF WaitsHonest
    <3> QED BY <3>1, <3>2
  <2>4. registered' \cap terminated' = {}
    BY <1>0, <1>1 DEF WaitsHonest
  <2> QED BY <1>1, <2>1, <2>2, <2>3, <2>4 DEF WaitsHonest, Owner, Satisfied, SenderId
<1>8. HeardMail'
  <2>1. \A w \in hearing' : w \in hearing /\ Owner(w) \in Key \ {k}
    BY <1>0, <1>3, MailAssumption DEF WaitsOf, Pending, Owner, TypeOK
  <2> QED BY <1>0, <1>1, <1>2, <2>1 DEF HeardMail, NotSleepingOn, Wants, SenderId, Owner
<1> QED BY <1>5, <1>6, <1>7, <1>8 DEF IInv, BInv

\* Agents may appear or lose their mark, and subscriptions be reset, without
\* harm to the invariant (registerAgent, importSnapshot).
LEMMA Enrolling ==
  ASSUME IInv, registered \subseteq registered', registered' \subseteq Key,
         terminated' \subseteq Key, registered' \cap terminated' = {},
         hearing' \subseteq hearing, UNCHANGED <<mail, receipt, wait, collected>>
  PROVE  IInv'
<1>0. TypeOK /\ Conserved /\ Sent /\ WaitsHonest /\ HeardMail
  BY DEF IInv, BInv
<1>1. UNCHANGED <<queue, archive, delivered>>
  BY DEF mail
<1>2. TypeOK'
  BY <1>0, <1>1 DEF TypeOK, Pending
<1>3. Conserved' /\ Sent' /\ HeardMail'
  BY <1>0, <1>1 DEF Conserved, Sent, HeardMail, NotSleepingOn, TakenFor, Lawful, Wants,
     SenderId, Owner
<1>4. WaitsHonest'
  BY <1>0 DEF WaitsHonest, WaitsOf, Pending, Owner, Satisfied, SenderId
<1> QED BY <1>2, <1>3, <1>4 DEF IInv, BInv

-----------------------------------------------------------------------------
(* Every step                                                              *)

\* Every step preserves the invariant, operation by operation.
LEMMA StepInv == IInv /\ [Next]_vars => IInv'
<1> SUFFICES ASSUME IInv, [Next]_vars PROVE IInv'
  OBVIOUS
<1>0. TypeOK /\ WaitsHonest
  BY DEF IInv, BInv
<1>1. ASSUME NEW m \in Message, SendMessage(m) PROVE IInv'
  <2>1. CASE Verdict(m) = "sent"
    BY <1>1, <2>1, Delivery DEF SendMessage
  <2>2. CASE Verdict(m) # "sent"
    BY <1>1, <2>2, Refusal DEF SendMessage
  <2> QED BY <2>1, <2>2
<1>2. ASSUME NEW m \in Message, Broadcast(m) PROVE IInv'
  BY <1>2, Delivery DEF Broadcast
<1>3. ASSUME NEW k \in Key, NEW m \in Message, ReadMessage(k, m) PROVE IInv'
  <2>1. {m} \in SUBSET queue[k]
    BY <1>3 DEF ReadMessage
  <2> QED BY <1>3, <2>1, Moving DEF ReadMessage
<1>4. ASSUME NEW k \in Key, DrainInbox(k) PROVE IInv'
  <2>1. queue' = [queue EXCEPT ![k] = @ \ queue[k]]
    BY <1>0, <1>4 DEF DrainInbox, TypeOK
  <2> QED BY <1>4, <2>1, Moving DEF DrainInbox
<1>5. ASSUME NEW k \in Key, Abort(k) PROVE IInv'
  <2>1. WaitsOf(k) \in SUBSET Pending
    BY DEF WaitsOf
  <2> QED BY <1>0, <1>5, <2>1, Finishing DEF Abort, TypeOK, WaitsHonest
<1>6. ASSUME NEW w \in Wait, WaitForMail(w) PROVE IInv'
  BY <1>6, Waiting
<1>7. ASSUME NEW w \in Wait, WaitTimeout(w) PROVE IInv'
  <2>1. {w} \in SUBSET Pending
    BY <1>7 DEF WaitTimeout
  <2> QED BY <1>0, <1>7, <2>1, Finishing DEF WaitTimeout, TypeOK, WaitsHonest
<1>8. ASSUME NEW k \in Key, RegisterAgent(k) PROVE IInv'
  <2>1. registered' \cap terminated' = {}
    BY <1>0, <1>8 DEF RegisterAgent, WaitsHonest
  <2> QED BY <1>0, <1>8, <2>1, Enrolling DEF RegisterAgent, TypeOK, waits
<1>9. ASSUME NEW k \in Key, MarkAgentTerminated(k) PROVE IInv'
  <2>1. WaitsOf(k) \in SUBSET Pending
    BY DEF WaitsOf
  <2>2. registered' \cap terminated' = {}
    BY <1>0, <1>9 DEF MarkAgentTerminated, WaitsHonest
  <2>3. \A w \in Pending \ WaitsOf(k) : Owner(w) \in registered'
    BY <1>0, <1>9 DEF MarkAgentTerminated, WaitsHonest, WaitsOf
  <2> QED BY <1>0, <1>9, <2>1, <2>2, <2>3, Finishing DEF MarkAgentTerminated, TypeOK
<1>10. ASSUME NEW k \in Key, PurgeAgent(k) PROVE IInv'
  BY <1>10, Purging
<1>11. ASSUME NEW S \in SUBSET Key, NEW D \in SUBSET Key, ImportRealmSlice(S, D)
       PROVE  IInv'
  <2>1. registered' \cap terminated' = {}
    BY <1>0, <1>11 DEF ImportRealmSlice, WaitsHonest
  <2> QED BY <1>0, <1>11, <2>1, Enrolling DEF ImportRealmSlice, TypeOK
<1>12. CASE UNCHANGED vars
  BY <1>0, <1>12, Enrolling DEF vars, waits, TypeOK, WaitsHonest
<1>13. CASE Next
  <2>1. ASSUME NEW r \in Realm, NEW S \in SUBSET {k \in Key : RealmOf[k] = r},
               NEW D \in SUBSET {k \in Key : RealmOf[k] = r}, ImportRealmSlice(S, D)
        PROVE  IInv'
    BY <1>11, <2>1
  <2> QED BY <1>1, <1>2, <1>3, <1>4, <1>5, <1>6, <1>7, <1>8, <1>9, <1>10, <1>13, <2>1
          DEF Next
<1> QED BY <1>12, <1>13

\* The invariant holds in every reachable state, whatever the agents, Realms,
\* messages and waits (sendMessage, waitForMail, importSnapshot and the rest).
THEOREM BusInvariance == Spec => []IInv
BY InitInv, StepInv, PTL DEF Spec

\* Every copy is in one place, only lawful ones are in queues, and every wait is
\* pending exactly as long as it must be (sendMessage, readMessage, waitForMail).
THEOREM MailInOnePlace == Spec => []BInv
<1>1. IInv => BInv
  BY DEF IInv
<1> QED BY <1>1, BusInvariance, PTL

\* As long as its subscription stands, no waiting agent sleeps on mail it waits
\* for (waitForMail).
THEOREM NobodySleepsOnMail == Spec => []HeardMail
<1>1. IInv => HeardMail
  BY DEF IInv
<1> QED BY <1>1, BusInvariance, PTL

-----------------------------------------------------------------------------
(* The bus implements MailService                                          *)

\* The abstract state: messages handed in, and the copies an agent has read.
Posted == {m \in Message : receipt[m] # "none"}
Record == [k \in Key |-> archive[k] \cap delivered[k]]

\* A delivery posts the message; the owners whose waits mark take their copy.
LEMMA DeliveryPosts ==
  ASSUME NEW m \in Message, IInv, MaySend(m),
         receipt' = [receipt EXCEPT ![m] = "sent"],
         Deliver(m, Recipients(m)), UNCHANGED registered
  PROVE  Service!Next
<1> DEFINE R == Recipients(m)
           A == {Owner(w) : w \in {v \in Takers(m, R) : WaitOf[v].mark}}
           T == R \cap A
<1>0. TypeOK /\ Conserved /\ Sent
  BY DEF IInv, BInv
<1>1. m \in Message \ Posted
  BY DEF MaySend, Posted
<1>2. R \subseteq registered /\ R \subseteq Lawful(m) /\ R \subseteq Key
  BY <1>0, RecipientsAreLawful DEF TypeOK
<1>3. \A k \in Key : m \notin archive[k] /\ m \notin delivered[k]
  BY <1>0 DEF Sent, MaySend
<1>4. Posted' = Posted \cup {m}
  BY <1>0 DEF Posted, MaySend, TypeOK
<1>5. queue' = [k \in Key |-> IF k \in R \ T THEN queue[k] \cup {m} ELSE queue[k]]
  BY DEF Deliver
<1>6. Record' = [k \in Key |-> IF k \in T THEN Record[k] \cup {m} ELSE Record[k]]
  <2>1. ASSUME NEW k \in Key
        PROVE  /\ archive'[k] = IF k \in A THEN archive[k] \cup {m} ELSE archive[k]
               /\ delivered'[k] = IF k \in R THEN delivered[k] \cup {m} ELSE delivered[k]
    BY DEF Deliver
  <2> HIDE DEF R, A
  <2>2. ASSUME NEW k \in Key
        PROVE  archive'[k] \cap delivered'[k]
                 = IF k \in T THEN (archive[k] \cap delivered[k]) \cup {m}
                              ELSE archive[k] \cap delivered[k]
    BY <1>3, <2>1
  <2> QED BY <2>2 DEF Record
<1>7. T \subseteq R
  OBVIOUS
<1>8. R \in SUBSET (registered \cap [n \in Message |-> Lawful(n)][m])
  BY <1>2
<1>9. Service!Post(m, R, T)
  BY <1>1, <1>2, <1>4, <1>5, <1>6, <1>7 DEF Service!Post, Posted, Record
<1>10. PICK X, Y : X = R /\ Y = T
  OBVIOUS
<1> HIDE DEF R, T
<1>11. Service!Post(m, X, Y)
  BY <1>9, <1>10 DEF Service!Post
<1>12. X \in SUBSET (registered \cap [n \in Message |-> Lawful(n)][m]) /\ Y \in SUBSET X
  BY <1>7, <1>8, <1>10
<1> QED BY <1>1, <1>11, <1>12, Zenon DEF Service!Next, Posted

\* Agents come and go, waits begin, resolve and end: to the service that is a
\* change of its members, if anything.
LEMMA Membership ==
  ASSUME registered' \subseteq Key, UNCHANGED <<mail, receipt>>
  PROVE  Service!Next
<1>1. Service!Enrol(registered')
  BY DEF Service!Enrol, mail
<1> QED BY <1>1 DEF Service!Next

\* Moving copies from the queue to the archive, and archived ones again, is what
\* the service calls taking them.
LEMMA Taking ==
  ASSUME IInv, NEW k \in Key, NEW S \in SUBSET (queue[k] \cup archive[k]),
         queue' = [queue EXCEPT ![k] = @ \ S],
         archive' = [archive EXCEPT ![k] = @ \cup S],
         UNCHANGED <<registered, delivered, receipt>>
  PROVE  Service!Next
<1>0. TypeOK /\ Conserved
  BY DEF IInv, BInv
<1> DEFINE U == S \cap queue[k]
<1>1. queue' = [queue EXCEPT ![k] = @ \ U]
  BY <1>0 DEF TypeOK
<1>2. Record' = [Record EXCEPT ![k] = @ \cup U]
  <2>1. queue[k] \subseteq delivered[k]
    BY <1>0 DEF Conserved
  <2>2. (archive[k] \cup S) \cap delivered[k] = (archive[k] \cap delivered[k]) \cup U
    BY <2>1
  <2>3. ASSUME NEW j \in Key
        PROVE  archive'[j] = IF j = k THEN archive[k] \cup S ELSE archive[j]
    BY <1>0 DEF TypeOK
  <2> QED BY <2>2, <2>3 DEF Record
<1> HIDE DEF U
<1>3. PICK X \in SUBSET queue[k] : X = U
  BY DEF U
<1>4. Service!Take(k, X)
  BY <1>1, <1>2, <1>3 DEF Service!Take, Record
<1> QED BY <1>4, Zenon DEF Service!Next

\* Every step of the bus is one of the service.
LEMMA ServiceStep == IInv /\ [Next]_vars => [Service!Next]_<<registered, Posted, queue, Record>>
<1> SUFFICES ASSUME IInv, [Next]_vars
             PROVE  Service!Next \/ UNCHANGED <<registered, Posted, queue, Record>>
  OBVIOUS
<1>0. TypeOK
  BY DEF IInv, BInv
<1>1. ASSUME NEW m \in Message, SendMessage(m) PROVE Service!Next
  <2>1. CASE Verdict(m) = "sent"
    BY <1>1, <2>1, DeliveryPosts DEF SendMessage
  <2>2. CASE Verdict(m) # "sent"
    <3>1. m \in Message \ Posted
      BY <1>1 DEF SendMessage, MaySend, Posted
    <3>2. Verdict(m) # "none"
      BY DEF Verdict
    <3>3. Posted' = Posted \cup {m}
      BY <1>0, <1>1, <3>1, <3>2 DEF SendMessage, Posted, TypeOK
    <3>4. UNCHANGED <<registered, queue, Record>>
      BY <1>1, <2>2 DEF SendMessage, mail, Record
    <3>5. queue = [k \in Key |-> queue[k]]
      BY <1>0 DEF TypeOK
    <3>6. Service!Post(m, {}, {})
      BY <3>1, <3>3, <3>4, <3>5 DEF Service!Post, Posted, Record
    <3> QED BY <3>1, <3>6 DEF Service!Next, Posted
  <2> QED BY <2>1, <2>2
<1>2. ASSUME NEW m \in Message, Broadcast(m) PROVE Service!Next
  BY <1>2, DeliveryPosts DEF Broadcast
<1>3. ASSUME NEW k \in Key, NEW m \in Message, ReadMessage(k, m) PROVE Service!Next
  <2>1. {m} \in SUBSET (queue[k] \cup archive[k])
    BY <1>3 DEF ReadMessage
  <2> QED BY <1>3, <2>1, Taking DEF ReadMessage
<1>4. ASSUME NEW k \in Key, DrainInbox(k) PROVE Service!Next
  <2>1. queue' = [queue EXCEPT ![k] = @ \ queue[k]]
    BY <1>0, <1>4 DEF DrainInbox, TypeOK
  <2> QED BY <1>4, <2>1, Taking DEF DrainInbox
<1>5. ASSUME NEW w \in Wait, WaitForMail(w) PROVE Service!Next
  <2>1. Owner(w) \in Key
    BY MailAssumption DEF Owner
  <2>2. AtHand(w) \in SUBSET (queue[Owner(w)] \cup archive[Owner(w)])
    BY DEF AtHand
  <2>3. CASE WaitOf[w].mark
    BY <1>5, <2>1, <2>2, <2>3, Taking DEF WaitForMail
  <2>4. CASE ~WaitOf[w].mark
    BY <1>0, <1>5, <2>4, Membership DEF WaitForMail, mail, TypeOK
  <2> QED BY <2>3, <2>4
<1>6. ASSUME NEW k \in Key, Abort(k) PROVE Service!Next
  BY <1>0, <1>6, Membership DEF Abort, TypeOK
<1>7. ASSUME NEW w \in Wait, WaitTimeout(w) PROVE Service!Next
  BY <1>0, <1>7, Membership DEF WaitTimeout, TypeOK
<1>8. ASSUME NEW k \in Key, RegisterAgent(k) \/ MarkAgentTerminated(k) PROVE Service!Next
  BY <1>0, <1>8, Membership DEF RegisterAgent, MarkAgentTerminated, TypeOK
<1>9. ASSUME NEW k \in Key, PurgeAgent(k) PROVE Service!Next
  <2>1. Record' = [Record EXCEPT ![k] = {}]
    BY <1>0, <1>9 DEF PurgeAgent, Record, TypeOK
  <2>2. Service!Forget(k)
    BY <1>9, <2>1 DEF PurgeAgent, Service!Forget, Record
  <2> QED BY <2>2 DEF Service!Next
<1>10. ASSUME NEW S \in SUBSET Key, NEW D \in SUBSET Key, ImportRealmSlice(S, D)
       PROVE  Service!Next
  BY <1>0, <1>10, Membership DEF ImportRealmSlice, TypeOK
<1>11. CASE UNCHANGED vars
  BY <1>11 DEF vars, mail, Posted, Record
<1>12. CASE Next
  <2>1. ASSUME NEW r \in Realm, NEW S \in SUBSET {k \in Key : RealmOf[k] = r},
               NEW D \in SUBSET {k \in Key : RealmOf[k] = r}, ImportRealmSlice(S, D)
        PROVE  Service!Next
    BY <1>10, <2>1
  <2> QED BY <1>1, <1>2, <1>3, <1>4, <1>5, <1>6, <1>7, <1>8, <1>9, <1>12, <2>1 DEF Next
<1> QED BY <1>11, <1>12

\* The bus keeps the promise of MailService, for any number of agents, messages
\* and waits (sendMessage, waitForMail, drainInbox, purgeAgent, importSnapshot).
THEOREM BusKeepsService == Spec => ImplementsService
<1>1. Init => Service!Init
  BY IdentityAssumption, BusAssumption DEF Init, Service!Init
<1>2. IInv /\ [Next]_vars => [Service!Next]_Service!vars
  BY ServiceStep DEF Service!vars, Posted, Record
<1> QED BY <1>1, <1>2, BusInvariance, PTL DEF Spec, ImplementsService, Service!Spec

-----------------------------------------------------------------------------
(* The scheduler                                                           *)

\* A reference is kept as a reference.
LEMMA StoredIsRef ==
  ASSUME NEW r \in Ref, NEW L \in SUBSET Key
  PROVE  Stored(r, L) \in Ref
BY DEF Stored, Denotes, Ref

\* Reading rows gives rows, of the same status and time.
LEMMA RereadIsRows ==
  ASSUME NEW rows \in [Timer -> Row], NEW L \in SUBSET Key
  PROVE  /\ Reread(rows, L) \in [Timer -> Row]
         /\ \A i \in Timer : Reread(rows, L)[i].status = rows[i].status
<1>1. ASSUME NEW i \in Timer
      PROVE  /\ Reread(rows, L)[i] \in Row
             /\ Reread(rows, L)[i].status = rows[i].status
  <2>1. CASE rows[i].status = "pending"
    <3>1. rows[i] \in [status : {"pending"}, owner : Ref, cond : Condition, fireAt : Nat]
      BY <2>1 DEF Row
    <3>2. Stored(rows[i].owner, L) \in Ref
      BY <3>1, StoredIsRef
    <3>3. Reread(rows, L)[i] = [rows[i] EXCEPT !.owner = Stored(rows[i].owner, L)]
      BY <2>1 DEF Reread
    <3> QED BY <3>1, <3>2, <3>3 DEF Row
  <2>2. CASE rows[i].status # "pending"
    BY <2>2 DEF Reread
  <2> QED BY <2>1, <2>2
<1> QED BY <1>1 DEF Reread

\* The engine starts without alarms.
LEMMA AlarmsBegin ==
  AlarmsInit => AInv
<1> SUFFICES ASSUME AlarmsInit PROVE AInv
  OBVIOUS
<1>1. AlarmsTypeOK
  BY SchedulerAssumption DEF AlarmsInit, AlarmsTypeOK, Place,
        Row, NoRow
<1>2. PendingTasks = {}
  BY DEF AlarmsInit, PendingTasks, NoRow
<1> QED BY <1>1, <1>2 DEF AlarmsInit, AInv, Armed, OnTime,
      NoGhostAlarm, RingsOnce, NoRow

\* The callback belongs to now or later.
LEMMA DueTime ==
  ASSUME AlarmsTypeOK, NEW f \in Nat
  PROVE  /\ Due(f) \in Nat
         /\ Due(f) =< f \/ Due(f) =< now
         /\ Due(f) >= f \/ f - Due(f) > MaxDelay
BY SchedulerAssumption DEF Due, AlarmsTypeOK

\* Whatever cancels alarms clears their timers and leaves the others alone.
LEMMA Cancelling ==
  ASSUME AInv, NEW S \in SUBSET PendingTasks, CancelAlarms(S),
         UNCHANGED <<now, gen, stored, rings>>,
         place' \in [Key -> Place], listening' \in BOOLEAN, mishaps' \in 0..MaxMishaps,
         ghosts' = {}
  PROVE  AInv'
<1>1. \A i \in Timer : task'[i] = IF i \in S THEN NoRow("cancelled") ELSE task[i]
  BY DEF CancelAlarms, Cancelled
<1>2. timeouts' = {x \in timeouts : x.id \notin S}
  BY DEF CancelAlarms, Cleared, AInv, Armed
<1>3. PendingTasks' = PendingTasks \ S
  BY <1>1 DEF PendingTasks, NoRow
<1>4. AlarmsTypeOK'
  <2>1. task' \in [Timer -> Row]
    BY DEF AInv, AlarmsTypeOK, CancelAlarms, Cancelled, Row,
          NoRow
  <2> QED BY <1>2, <2>1 DEF AInv, AlarmsTypeOK
<1>5. Armed'
  BY <1>2, <1>3 DEF AInv, Armed
<1>6. OnTime'
  <2>1. ASSUME NEW x \in timeouts' PROVE x \in timeouts /\ task'[x.id] = task[x.id]
    BY <1>1, <1>2 DEF AInv, AlarmsTypeOK
  <2> QED BY <2>1 DEF AInv, OnTime
<1>7. RingsOnce'
  <2>1. \A i \in S : task[i].status = "pending"
    BY DEF PendingTasks
  <2> QED BY <1>1, <2>1 DEF AInv, RingsOnce, AlarmsTypeOK, NoRow
<1> QED BY <1>4, <1>5, <1>6, <1>7 DEF AInv, NoGhostAlarm

\* A death leaves no alarm behind if it cancels what is kept under the key and
\* under the bare id of whoever goes.
LEMMA NobodyHaunts ==
  ASSUME AInv, NEW S \in SUBSET PendingTasks, CancelAlarms(S),
         NEW D, Haunt(D), \A a \in D : TaskOwnedByReference(a) \subseteq S
  PROVE  ghosts' = {}
<1> SUFFICES ASSUME NEW i \in ghosts' PROVE FALSE
  OBVIOUS
<1>1. i \in PendingTasks /\ task'[i].status = "pending"
      /\ \E a \in D : task[i].owner \in {a, BareOf[a]}
  BY DEF Haunt, AInv, NoGhostAlarm
<1>2. i \in S /\ i \in Timer
  BY <1>1 DEF TaskOwnedByReference, PendingTasks
<1>3. task'[i] = NoRow("cancelled")
  BY <1>2 DEF CancelAlarms, Cancelled
<1> QED BY <1>1, <1>3 DEF NoRow

\* Whatever reads rows arms the pending ones, once.
LEMMA Importing ==
  ASSUME AInv, NEW rows \in [Timer -> Row],
         ImportSchedules(rows),
         UNCHANGED <<now, stored>>,
         place' \in [Key -> Place], listening' \in BOOLEAN, mishaps' \in 0..MaxMishaps,
         ghosts' = {}, rings' \in [Timer -> Nat],
         \A i \in Timer : rings'[i] =< (IF rows[i].status = "triggered" THEN 1 ELSE 0)
  PROVE  AInv'
<1>1. task' = rows /\ gen' = gen + 1
  BY DEF ImportSchedules
<1>2. PendingTasks' = {i \in Timer : rows[i].status = "pending"}
  BY <1>1 DEF PendingTasks
<1>3. timeouts' = {[id |-> i, gen |-> gen + 1, due |-> Due(rows[i].fireAt)] :
                   i \in PendingTasks'}
  BY <1>2 DEF ImportSchedules
<1>4. \A i \in PendingTasks' : i \in Timer /\ rows[i].fireAt \in Nat
  BY <1>2 DEF Row
<1>5. gen \in Nat /\ AlarmsTypeOK
  BY DEF AInv, AlarmsTypeOK
<1>6. \A i \in PendingTasks' : Due(rows[i].fireAt) \in Nat
  BY <1>4, <1>5, DueTime
<1>7. AlarmsTypeOK'
  <2>1. timeouts' \subseteq [id : Timer, gen : Nat, due : Nat]
    BY <1>3, <1>4, <1>5, <1>6
  <2>2. ghosts' \subseteq Timer
    OBVIOUS
  <2> QED BY <1>1, <1>5, <2>1, <2>2 DEF AlarmsTypeOK
<1>8. Armed'
  <2>1. ASSUME NEW x \in timeouts' PROVE x.id \in PendingTasks' /\ x.gen = gen'
    BY <1>1, <1>3, <2>1
  <2>2. ASSUME NEW i \in PendingTasks' PROVE \E x \in timeouts' : x.id = i
    <3> DEFINE x == [id |-> i, gen |-> gen + 1, due |-> Due(rows[i].fireAt)]
    <3>1. x \in timeouts' /\ x.id = i
      BY <1>3, <2>2
    <3> QED BY <3>1
  <2>3. ASSUME NEW x \in timeouts', NEW y \in timeouts', x.id = y.id PROVE x = y
    BY <1>3, <2>3
  <2> QED BY <2>1, <2>2, <2>3 DEF Armed
<1>9. OnTime'
  <2> SUFFICES ASSUME NEW x \in timeouts'
               PROVE  LET f == rows[x.id].fireAt
                      IN  /\ x.due =< f \/ x.due =< now
                          /\ x.due >= f \/ f - x.due > MaxDelay
    BY <1>1 DEF OnTime
  <2>1. PICK i \in PendingTasks' : x.id = i /\ x.due = Due(rows[i].fireAt)
    BY <1>3
  <2> QED BY <1>4, <1>5, <2>1, DueTime
<1>10. RingsOnce'
  BY <1>1 DEF RingsOnce
<1> QED BY <1>7, <1>8, <1>9, <1>10 DEF AInv, NoGhostAlarm

-----------------------------------------------------------------------------
(* One lemma per kind of action                                            *)

\* schedule arms the new alarm.
LEMMA ScheduleInv ==
  ASSUME AInv,
         NEW i \in Timer, NEW r \in Ref, NEW c \in Condition, NEW d \in Duration,
         Schedule(i, r, c, d)
  PROVE  AInv'
<1> DEFINE owner == Stored(r, ActiveAgents)
           row == [status |-> "pending", owner |-> owner, cond |-> c, fireAt |-> now + d]
           x == [id |-> i, gen |-> gen, due |-> Due(now + d)]
<1>1. AlarmsTypeOK /\ now \in Nat /\ gen \in Nat /\ d \in Nat
  BY SchedulerAssumption DEF AInv, AlarmsTypeOK
<1>2. task' = [task EXCEPT ![i] = row] /\ timeouts' = timeouts \cup {x}
  BY DEF Schedule
<1>3. row \in Row
  BY <1>1, StoredIsRef DEF ActiveAgents, Row
<1>4. i \notin PendingTasks /\ PendingTasks' = PendingTasks \cup {i}
  BY <1>1, <1>2 DEF Schedule, PendingTasks, AlarmsTypeOK
<1>5. Due(now + d) \in Nat /\ (Due(now + d) =< now + d \/ Due(now + d) =< now)
      /\ (Due(now + d) >= now + d \/ (now + d) - Due(now + d) > MaxDelay)
  BY <1>1, DueTime
<1>6. AlarmsTypeOK'
  <2>1. task' \in [Timer -> Row]
    BY <1>1, <1>2, <1>3 DEF AlarmsTypeOK
  <2>2. timeouts' \subseteq [id : Timer, gen : Nat, due : Nat]
    BY <1>1, <1>2, <1>5 DEF AlarmsTypeOK
  <2> QED BY <1>1, <2>1, <2>2 DEF AlarmsTypeOK, Schedule, history
<1>7. Armed'
  <2> HIDE DEF x
  <2>1. x.id = i /\ x.gen = gen /\ gen' = gen
    BY DEF x, Schedule
  <2>2. \A y \in timeouts : y.id \in PendingTasks /\ y.gen = gen
    BY DEF AInv, Armed
  <2>3. \A y \in timeouts' : y.id \in PendingTasks' /\ y.gen = gen'
    BY <1>2, <1>4, <2>1, <2>2
  <2>4. \A j \in PendingTasks' : \E y \in timeouts' : y.id = j
    BY <1>2, <1>4, <2>1 DEF AInv, Armed
  <2>5. ASSUME NEW y \in timeouts', NEW z \in timeouts', y.id = z.id PROVE y = z
    BY <1>2, <1>4, <2>1, <2>2, <2>5 DEF AInv, Armed
  <2> QED BY <2>3, <2>4, <2>5 DEF Armed
<1>8. OnTime'
  <2>1. ASSUME NEW y \in timeouts PROVE y.id \in Timer /\ task'[y.id] = task[y.id]
    BY <1>1, <1>2, <1>4 DEF AInv, Armed, AlarmsTypeOK
  <2>2. task'[i].fireAt = now + d
    BY <1>1, <1>2 DEF AlarmsTypeOK
  <2> QED BY <1>2, <1>5, <2>1, <2>2 DEF AInv, OnTime, Schedule
<1>9. RingsOnce'
  BY <1>1, <1>2 DEF AInv, RingsOnce, AlarmsTypeOK, Schedule,
        history
<1> QED BY <1>6, <1>7, <1>8, <1>9 DEF AInv, NoGhostAlarm, Schedule,
      history

\* The callback of a timer finds its own object, pending.
LEMMA ExecuteInv ==
  ASSUME AInv, NEW x \in timeouts, ExecuteTimerTrigger(x)
  PROVE  AInv'
<1>1. AlarmsTypeOK /\ x.id \in Timer /\ x.id \in PendingTasks /\ x.gen = gen
  BY DEF AInv, Armed, AlarmsTypeOK
<1>2. task' = [task EXCEPT ![x.id] = NoRow("triggered")]
      /\ rings' = [rings EXCEPT ![x.id] = @ + 1] /\ timeouts' = timeouts \ {x}
  BY <1>1 DEF ExecuteTimerTrigger
<1>3. PendingTasks' = PendingTasks \ {x.id}
  BY <1>1, <1>2 DEF PendingTasks, NoRow, AlarmsTypeOK
<1>4. AlarmsTypeOK'
  <2>1. task' \in [Timer -> Row]
    BY <1>1, <1>2 DEF AlarmsTypeOK, Row, NoRow
  <2> QED BY <1>1, <1>2, <2>1 DEF AlarmsTypeOK, ExecuteTimerTrigger
<1>5. Armed'
  BY <1>1, <1>2, <1>3 DEF AInv, Armed, ExecuteTimerTrigger
<1>6. OnTime'
  <2>1. ASSUME NEW y \in timeouts' PROVE y \in timeouts /\ task'[y.id] = task[y.id]
    BY <1>1, <1>2 DEF AInv, Armed, AlarmsTypeOK
  <2> QED BY <2>1 DEF AInv, OnTime, ExecuteTimerTrigger
<1>7. RingsOnce'
  <2>1. rings[x.id] = 0 /\ task'[x.id].status = "triggered"
    BY <1>1, <1>2 DEF AInv, RingsOnce, PendingTasks, AlarmsTypeOK,
          NoRow
  <2> QED BY <1>1, <1>2, <2>1 DEF AInv, RingsOnce, AlarmsTypeOK
<1> QED BY <1>4, <1>5, <1>6, <1>7 DEF AInv, NoGhostAlarm,
      ExecuteTimerTrigger

\* A later time makes nothing late.
LEMMA TickInv ==
  AInv /\ Tick => AInv'
<1> SUFFICES ASSUME AInv, Tick PROVE AInv'
  OBVIOUS
<1>1. AlarmsTypeOK'
  BY SchedulerAssumption DEF AInv, AlarmsTypeOK, Tick, history
<1>2. Armed' /\ RingsOnce' /\ NoGhostAlarm'
  BY DEF AInv, Armed, RingsOnce, NoGhostAlarm,
        PendingTasks, Tick, history
<1>3. OnTime'
  BY DEF AInv, AlarmsTypeOK, OnTime, Tick
<1> QED BY <1>1, <1>2, <1>3 DEF AInv

\* Steps that leave the alarms alone.
LEMMA QuietInv ==
  ASSUME AInv, UNCHANGED <<now, task, timeouts, gen, rings, ghosts, mishaps>>,
         place' \in [Key -> Place], listening' \in BOOLEAN,
         stored' \in [place : [Key -> Place], task : [Timer -> Row]]
  PROVE  AInv'
<1>1. AlarmsTypeOK' /\ Armed' /\ RingsOnce' /\ NoGhostAlarm' /\ OnTime'
  BY DEF AInv, AlarmsTypeOK, Armed, RingsOnce, NoGhostAlarm,
        OnTime, PendingTasks
<1> QED BY <1>1 DEF AInv

\* The snapshot is imported whole, and the count of triggers starts again.
LEMMA ImportSnapshotInv ==
  AInv /\ ImportSnapshot => AInv'
<1> SUFFICES ASSUME AInv, ImportSnapshot PROVE AInv'
  OBVIOUS
<1> DEFINE L == {a \in Key : stored.place[a] = "active"}
           rows == Reread(Recalled, L)
<1>1. AlarmsTypeOK
  BY DEF AInv
<1>2. Recalled \in [Timer -> Row]
  BY <1>1 DEF Recalled, AlarmsTypeOK, Row, NoRow
<1>3. rows \in [Timer -> Row]
  BY <1>2, RereadIsRows
<1>4. /\ ImportSchedules(rows) /\ UNCHANGED <<now, stored>>
      /\ place' \in [Key -> Place] /\ listening' \in BOOLEAN /\ mishaps' \in 0..MaxMishaps
      /\ ghosts' = {} /\ rings' = [i \in Timer |-> 0]
  BY <1>1, SchedulerAssumption DEF ImportSnapshot, Mishap,
        AlarmsTypeOK
<1>5. \A i \in Timer : rings'[i] =< (IF rows[i].status = "triggered" THEN 1 ELSE 0)
  BY <1>4
<1>6. rings' \in [Timer -> Nat]
  BY <1>4
<1> HIDE DEF rows
<1> QED BY <1>3, <1>4, <1>5, <1>6, Importing

\* A Realm slice is merged, or rolled back: the rows are read again.
LEMMA ImportRealmSchedulesInv ==
  ASSUME AInv, NEW a \in Key, ImportRealmSchedules(a)
  PROVE  AInv'
<1>1. AlarmsTypeOK /\ rings' = rings /\ ghosts' = ghosts /\ ghosts = {}
  BY DEF AInv, ImportRealmSchedules, history, NoGhostAlarm
<1>2. PICK rows \in [Timer -> Row], L \in SUBSET Key :
        /\ ImportSchedules(Reread(rows, L))
        /\ \A i \in Timer : rows[i].status # task[i].status => task[i].status = "unused"
  <2>1. /\ task \in [Timer -> Row]
        /\ ActiveAgents \cup {a} \in SUBSET Key /\ ActiveAgents \in SUBSET Key
    BY <1>1 DEF AlarmsTypeOK, ActiveAgents
  <2>2. CASE ImportSchedules(Reread(task, ActiveAgents \cup {a}))
    BY <2>1, <2>2
  <2>3. CASE ImportSchedules(Reread(task, ActiveAgents))
    BY <2>1, <2>3
  <2>4. ASSUME NEW i \in Timer, NEW c \in Condition, NEW f \in 0..MaxTime,
               task[i].status = "unused",
               ImportSchedules(Reread([task EXCEPT ![i] =
                  [status |-> "pending", owner |-> a, cond |-> c, fireAt |-> f]],
                  ActiveAgents \cup {a}))
        PROVE  \E rows \in [Timer -> Row], L \in SUBSET Key :
                 /\ ImportSchedules(Reread(rows, L))
                 /\ \A j \in Timer :
                      rows[j].status # task[j].status => task[j].status = "unused"
    <3> DEFINE new == [status |-> "pending", owner |-> a, cond |-> c, fireAt |-> f]
    <3>1. f \in Nat
      BY SchedulerAssumption
    <3>2. new \in Row
      BY <3>1 DEF Row, Ref
    <3>3. [task EXCEPT ![i] = new] \in [Timer -> Row]
      BY <2>1, <3>2
    <3>4. \A j \in Timer : [task EXCEPT ![i] = new][j].status # task[j].status
                             => task[j].status = "unused"
      BY <2>1, <2>4
    <3> QED BY <2>1, <2>4, <3>3, <3>4
  <2> QED BY <2>2, <2>3, <2>4 DEF ImportRealmSchedules
<1>3. Reread(rows, L) \in [Timer -> Row]
      /\ \A i \in Timer : Reread(rows, L)[i].status = rows[i].status
  BY RereadIsRows
<1>4. \A i \in Timer :
        rings[i] =< (IF Reread(rows, L)[i].status = "triggered" THEN 1 ELSE 0)
  BY <1>1, <1>2, <1>3 DEF AInv, RingsOnce, AlarmsTypeOK
<1>5. UNCHANGED <<now, stored>> /\ place' \in [Key -> Place]
  BY <1>1 DEF ImportRealmSchedules, AlarmsTypeOK, Place
<1>7. mishaps' \in 0..MaxMishaps
  BY <1>1, SchedulerAssumption DEF ImportRealmSchedules, Mishap,
        AlarmsTypeOK
<1>8. listening' \in BOOLEAN
  BY DEF ImportRealmSchedules
<1>6. rings' \in [Timer -> Nat]
  BY <1>1 DEF AlarmsTypeOK
<1> QED BY <1>1, <1>2, <1>3, <1>4, <1>5, <1>6, <1>7, <1>8, Importing

-----------------------------------------------------------------------------
(* The invariant                                                           *)

\* Every step preserves the invariant.
LEMMA AlarmsStep ==
  AInv /\ [AlarmsNext]_alarmVars => AInv'
<1> SUFFICES ASSUME AInv, [AlarmsNext]_alarmVars PROVE AInv'
  OBVIOUS
<1>1. AlarmsTypeOK /\ ghosts = {}
  BY DEF AInv, NoGhostAlarm
<1>2. CASE UNCHANGED alarmVars
  BY <1>1, <1>2, QuietInv DEF alarmVars, history, AlarmsTypeOK
<1>3. CASE Tick
  BY <1>3, TickInv
<1>4. CASE CancelAll
  <2>1. CancelAlarms(PendingTasks) /\ UNCHANGED <<now, gen, stored, rings>>
        /\ UNCHANGED <<place, listening, mishaps, ghosts>>
    BY <1>4 DEF CancelAll, history
  <2> QED BY <1>1, <2>1, Cancelling DEF AlarmsTypeOK
<1>5. CASE EmptyRecycleBin
  <2> DEFINE bin == {a \in Key : place[a] = "recycled"}
  <2>1. PICK last \in SUBSET bin :
          /\ \A a \in bin :
               ActiveAgents \cap Namesakes(BareOf[a]) = {} =>
                 \E b \in bin : last \cap Namesakes(BareOf[a]) = {b}
          /\ CancelAlarms(UNION {TaskOwnedByReference(a) : a \in last})
    BY <1>5 DEF EmptyRecycleBin
  <2>2. UNION {TaskOwnedByReference(a) : a \in last} \in SUBSET PendingTasks
    BY DEF TaskOwnedByReference
  <2>3. /\ place' \in [Key -> Place] /\ mishaps' \in 0..MaxMishaps
        /\ UNCHANGED <<now, gen, stored, rings, listening>>
        /\ Haunt({a \in bin : ~Shared(a)})
    BY <1>1, <1>5, SchedulerAssumption DEF EmptyRecycleBin, Mishap,
          AlarmsTypeOK, Place
  <2>4. ASSUME NEW a \in bin, ~Shared(a) PROVE a \in last
    <3>1. \A b \in Namesakes(BareOf[a]) : b # a => place[b] = "absent"
      BY <2>4 DEF Shared
    <3>2. ActiveAgents \cap Namesakes(BareOf[a]) = {}
      BY <3>1 DEF ActiveAgents
    <3>3. PICK b \in bin : last \cap Namesakes(BareOf[a]) = {b}
      BY <2>1, <3>2
    <3>4. b = a
      BY <3>1, <3>3
    <3> QED BY <3>3, <3>4
  <2>5. \A a \in {b \in bin : ~Shared(b)} :
          TaskOwnedByReference(a) \subseteq UNION {TaskOwnedByReference(b) : b \in last}
    BY <2>4
  <2>6. ghosts' = {}
    <3> HIDE DEF bin
    <3> QED BY <2>1, <2>2, <2>3, <2>5, NobodyHaunts
  <2> QED BY <1>1, <2>1, <2>2, <2>3, <2>6, Cancelling DEF AlarmsTypeOK
<1>6. CASE Reset
  <2>1. CancelAlarms(PendingTasks) /\ Haunt(Key)
    BY <1>6 DEF Reset
  <2>2. /\ place' \in [Key -> Place] /\ mishaps' \in 0..MaxMishaps /\ listening' \in BOOLEAN
        /\ UNCHANGED <<now, gen, stored, rings>>
    BY <1>1, <1>6, SchedulerAssumption DEF Reset, Mishap,
          AlarmsTypeOK, Place
  <2>3. ghosts' = {}
    <3>1. \A a \in Key : TaskOwnedByReference(a) \subseteq PendingTasks
      BY DEF TaskOwnedByReference
    <3> QED BY <2>1, <3>1, NobodyHaunts
  <2> QED BY <1>1, <2>1, <2>2, <2>3, Cancelling
<1>7. CASE Save
  BY <1>1, <1>7, QuietInv DEF Save, history, AlarmsTypeOK
<1>8. CASE ImportSnapshot
  BY <1>8, ImportSnapshotInv
<1>9. ASSUME NEW x \in timeouts, ExecuteTimerTrigger(x) PROVE AInv'
  BY <1>9, ExecuteInv
<1>10. ASSUME NEW i \in Timer, CancelSchedule(i) PROVE AInv'
  <2>1. {i} \in SUBSET PendingTasks /\ CancelAlarms({i}) /\ UNCHANGED <<now, gen, stored, rings>>
        /\ UNCHANGED <<place, listening, mishaps, ghosts>>
    BY <1>10 DEF CancelSchedule, history
  <2> QED BY <1>1, <2>1, Cancelling DEF AlarmsTypeOK
<1>11. ASSUME NEW i \in Timer, NEW r \in Ref, NEW c \in Condition, NEW d \in Duration,
              Schedule(i, r, c, d)
       PROVE  AInv'
  BY <1>11, ScheduleInv
<1>12. ASSUME NEW a \in Key, Launch(a) PROVE AInv'
  BY <1>1, <1>12, QuietInv DEF Launch, history, AlarmsTypeOK, Place
<1>13. ASSUME NEW a \in Key, NEW p \in Place, TeardownForAgent(a, p) PROVE AInv'
  <2>1. /\ TaskOwnedByReference(a) \in SUBSET PendingTasks
        /\ CancelAlarms(TaskOwnedByReference(a))
    BY <1>13 DEF TeardownForAgent, TaskOwnedByReference
  <2>2. ghosts' = {}
    <3>1. Haunt({a})
      BY <1>13 DEF TeardownForAgent
    <3> QED BY <2>1, <3>1, NobodyHaunts
  <2>3. /\ place' \in [Key -> Place] /\ mishaps' \in 0..MaxMishaps
        /\ UNCHANGED <<now, gen, stored, rings, listening>>
    BY <1>1, <1>13, SchedulerAssumption DEF TeardownForAgent,
          Mishap, AlarmsTypeOK
  <2> QED BY <1>1, <2>1, <2>2, <2>3, Cancelling DEF AlarmsTypeOK
<1>14. ASSUME NEW a \in Key, RuntimeKillAgent(a) \/ RuntimePurgeAgent(a) PROVE AInv'
  BY <1>13, <1>14 DEF RuntimeKillAgent, RuntimePurgeAgent, Place
<1>15. ASSUME NEW a \in Key, ImportRealmSchedules(a) PROVE AInv'
  BY <1>15, ImportRealmSchedulesInv
<1>16. ASSUME NEW s \in Bare, NEW t \in Bare \cup {"any"}, HandleIncomingMessageForTimers(s, t)
       PROVE  AInv'
  <2>1. SatisfiedTasks(s, t) \in SUBSET PendingTasks /\ CancelAlarms(SatisfiedTasks(s, t))
        /\ UNCHANGED <<now, gen, stored, rings>>
        /\ UNCHANGED <<place, listening, mishaps, ghosts>>
    BY <1>16 DEF HandleIncomingMessageForTimers, SatisfiedTasks, history
  <2> QED BY <1>1, <2>1, Cancelling DEF AlarmsTypeOK
<1> QED
  BY <1>2, <1>3, <1>4, <1>5, <1>6, <1>7, <1>8, <1>9, <1>10, <1>11, <1>12, <1>14, <1>15, <1>16
  DEF AlarmsNext

\* Every pending alarm has one timer of the host and every timer an alarm, it
\* calls back on time, none rings twice, and none outlives its owner, for any
\* agents and alarms and through any snapshots, except where emptyRecycleBin
\* removes one of several agents of a bare id (schedule, importSchedules,
\* teardownForAgent).
THEOREM SchedulerInvariance ==
  AlarmsSpec => []AInv
<1>1. AlarmsInit => AInv
  BY AlarmsBegin
<1>2. AInv /\ [AlarmsNext]_alarmVars => AInv'
  BY AlarmsStep
<1> QED BY <1>1, <1>2, PTL DEF AlarmsSpec

\* Mail of an agent that ends an alarm of another comes from the Realm of the
\* owner, or from an agent without Realm if the owner is gone, or from one with
\* realmBypass, and only such a one reaches the alarm of such a one
\* (handleIncomingMessageForTimers, #senderScopeMatchesTimer).
THEOREM MailStaysInRealm ==
  AlarmsSpec => RealmsApart
<1>1. ASSUME NEW b \in ActiveAgents, NEW t \in Bare \cup {"any"}, NEW i \in PendingTasks,
             HandleIncomingMessageForTimers(BareOf[b], t),
             task[i].owner \in Key, task'[i].status = "cancelled"
      PROVE  RealmOf[b] \in {Bypass, IF task[i].owner \in ActiveAgents
                                      THEN RealmOf[task[i].owner] ELSE NoRealm}
  <2> DEFINE s == BareOf[b]
             r == task[i].owner
  <2>1. b \in Key /\ s \in Bare /\ b \in ActiveAgents \cap Namesakes(s)
    BY IdentityAssumption DEF ActiveAgents, Namesakes
  <2>2. i \in SatisfiedTasks(s, t)
    BY <1>1 DEF HandleIncomingMessageForTimers, CancelAlarms,
          Cancelled, PendingTasks
  <2>3. SenderScopeMatchesTimer(s, r)
    BY <2>2 DEF SatisfiedTasks
  <2>4. s # r /\ s \notin Key
    BY <1>1, <2>1, IdentityAssumption
  <2>5. \A c \in Denotes(s, ActiveAgents) : c = b
    BY <2>1, <2>4 DEF Denotes, ActiveAgents
  <2>6. ScopeOf(s) \subseteq {RealmOf[b]}
    BY <2>5 DEF ScopeOf
  <2>7. Denotes(r, ActiveAgents) = IF r \in ActiveAgents THEN {r} ELSE {}
    <3>1. \A c \in ActiveAgents : BareOf[c] # r
      BY <1>1, IdentityAssumption DEF ActiveAgents
    <3> QED BY <3>1 DEF Denotes
  <2>8. ScopeOf(r) = IF r \in ActiveAgents THEN {RealmOf[r]} ELSE {}
    BY <2>7 DEF ScopeOf
  <2> HIDE DEF s, r
  <2>9. ScopeOf(s) \in {{Bypass}, IF ScopeOf(r) = {} THEN {NoRealm} ELSE ScopeOf(r)}
    BY <2>1, <2>3, <2>4 DEF SenderScopeMatchesTimer
  <2>10. RealmOf[b] \in {Bypass, IF r \in ActiveAgents THEN RealmOf[r] ELSE NoRealm}
    <3>1. CASE r \in ActiveAgents
      BY <2>6, <2>8, <2>9, <3>1
    <3>2. CASE r \notin ActiveAgents
      BY <2>6, <2>8, <2>9, <3>2
    <3> QED BY <3>1, <3>2
  <2> QED BY <2>10 DEF r
<1>2. [AlarmsNext]_alarmVars =>
      [\A b \in ActiveAgents, t \in Bare \cup {"any"}, i \in PendingTasks :
       /\ HandleIncomingMessageForTimers(BareOf[b], t)
       /\ task[i].owner \in Key /\ task'[i].status = "cancelled"
       => RealmOf[b] \in {Bypass, IF task[i].owner \in ActiveAgents
                                  THEN RealmOf[task[i].owner] ELSE NoRealm}]_alarmVars
  BY <1>1
<1> QED BY <1>2, PTL DEF AlarmsSpec, RealmsApart
=============================================================================
