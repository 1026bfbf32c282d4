---------------------- MODULE ConversationHistory_proofs ----------------------
(***************************************************************************)
(* Proofs about the conversation of an agent, for any prompts, loops,      *)
(* calls and operations of the user.                                       *)
(*                                                                         *)
(* Everything that rewrites a history takes a stretch out, puts one in, or *)
(* leaves places out; the first four parts say what that does to places,   *)
(* identities and pairs.  OrderInv is then taken apart into a relation     *)
(* (Conversation) of the history, the stack and what is gone, for which    *)
(* each kind of step has one lemma, and the two parts that speak of the    *)
(* turn under way.  Two parts follow a bundle from its undo to its redo,   *)
(* and a history into the payload.  The rest is about retries: RetryInv is *)
(* taken apart into Said, on the messages, and Owed, on what remembers a   *)
(* prompt, and OwnRetries follows a retry through its 50 ms.               *)
(***************************************************************************)
EXTENDS ConversationHistory, SequenceTheorems, FiniteSetTheorems, TLAPS

-----------------------------------------------------------------------------
(* Taking a stretch out of a sequence and putting it back                  *)

\* Taking h[a..b] out leaves g and takes p.
CutInto(h, a, b, g, p) ==
  /\ Len(g) = Len(h) - (b - a + 1)
  /\ \A n \in 1..Len(g) : g[n] = h[IF n < a THEN n ELSE n + (b - a + 1)]
  /\ Len(p) = b - a + 1
  /\ \A n \in 1..Len(p) : p[n] = h[a + n - 1]

\* What is left and what is taken when h[a..b] is taken out.
LEMMA CutFacts ==
  ASSUME NEW S, NEW h \in Seq(S), NEW a \in Nat \ {0}, NEW b \in Nat, a =< b + 1, b =< Len(h)
  PROVE  LET g == Upto(h, a - 1) \o From(h, b + 1)
             p == SubSeq(h, a, b)
         IN  g \in Seq(S) /\ p \in Seq(S) /\ CutInto(h, a, b, g, p)
<1> DEFINE l == SubSeq(h, 1, a - 1)
           r == SubSeq(h, b + 1, Len(h))
           p == SubSeq(h, a, b)
<1>1. /\ Len(h) \in Nat /\ \A i \in 1..Len(h) : h[i] \in S
  BY ElementOfSeq, LenProperties
<1>2. l \in Seq(S) /\ Len(l) = a - 1 /\ \A n \in 1..(a - 1) : l[n] = h[n]
  <2>1. \A i \in 1..(a - 1) : h[i] \in S
    BY <1>1
  <2>2. a - 1 \in Int
    OBVIOUS
  <2> HIDE DEF l
  <2>3. /\ SubSeq(h, 1, a - 1) \in Seq(S)
        /\ Len(SubSeq(h, 1, a - 1)) = IF 1 <= a - 1 THEN a - 1 - 1 + 1 ELSE 0
        /\ \A i \in 1..(a - 1 - 1 + 1) : SubSeq(h, 1, a - 1)[i] = h[1 + i - 1]
    BY <2>1, <2>2, SubSeqProperties
  <2> QED BY <2>3 DEF l
<1>3. r \in Seq(S) /\ Len(r) = Len(h) - b /\ \A n \in 1..(Len(h) - b) : r[n] = h[b + n]
  <2>1. \A i \in (b + 1)..Len(h) : h[i] \in S
    BY <1>1
  <2>2. b + 1 \in Int /\ Len(h) \in Int
    BY <1>1
  <2> HIDE DEF r
  <2>3. /\ SubSeq(h, b + 1, Len(h)) \in Seq(S)
        /\ Len(SubSeq(h, b + 1, Len(h))) =
             IF b + 1 <= Len(h) THEN Len(h) - (b + 1) + 1 ELSE 0
        /\ \A i \in 1..(Len(h) - (b + 1) + 1) : SubSeq(h, b + 1, Len(h))[i] = h[b + 1 + i - 1]
    BY <2>1, <2>2, SubSeqProperties
  <2> QED BY <1>1, <2>3 DEF r
<1>4. p \in Seq(S) /\ Len(p) = b - a + 1 /\ \A n \in 1..Len(p) : p[n] = h[a + n - 1]
  <2>1. \A i \in a..b : h[i] \in S
    BY <1>1
  <2> HIDE DEF p
  <2>3. /\ SubSeq(h, a, b) \in Seq(S)
        /\ Len(SubSeq(h, a, b)) = IF a <= b THEN b - a + 1 ELSE 0
        /\ \A i \in 1..(b - a + 1) : SubSeq(h, a, b)[i] = h[a + i - 1]
    BY <2>1, SubSeqProperties
  <2> QED BY <2>3 DEF p
<1> HIDE DEF l, r, p
<1>5. /\ l \o r \in Seq(S) /\ Len(l \o r) = Len(l) + Len(r)
      /\ \A i \in 1..(Len(l) + Len(r)) : (l \o r)[i] = IF i <= Len(l) THEN l[i] ELSE r[i - Len(l)]
  BY <1>2, <1>3, ConcatProperties
<1> DEFINE g == l \o r
<1> HIDE DEF g
<1>6. /\ g \in Seq(S) /\ Len(g) = Len(h) - (b - a + 1)
      /\ \A i \in 1..Len(g) : g[i] = IF i =< a - 1 THEN l[i] ELSE r[i - (a - 1)]
  <2>1. /\ g \in Seq(S) /\ Len(g) = Len(l) + Len(r)
        /\ \A i \in 1..(Len(l) + Len(r)) : g[i] = IF i <= Len(l) THEN l[i] ELSE r[i - Len(l)]
    BY <1>5 DEF g
  <2>2. (a - 1) + (Len(h) - b) = Len(h) - (b - a + 1)
    BY <1>1
  <2>3. Len(g) = (a - 1) + (Len(h) - b)
    BY <1>2, <1>3, <2>1
  <2>4. \A i \in 1..Len(g) : g[i] = IF i <= Len(l) THEN l[i] ELSE r[i - Len(l)]
    BY <2>1
  <2> QED BY <1>2, <2>1, <2>2, <2>3, <2>4
<1>7. ASSUME NEW n \in 1..Len(g)
      PROVE  g[n] = h[IF n < a THEN n ELSE n + (b - a + 1)]
  <2>1. CASE n < a
    BY <2>1, <1>2, <1>6
  <2>2. CASE ~(n < a)
    <3>1. n - (a - 1) \in 1..(Len(h) - b) /\ b + (n - (a - 1)) = n + (b - a + 1)
      BY <1>1, <1>6, <2>2
    <3>2. g[n] = r[n - (a - 1)]
      BY <1>6, <2>2
    <3> QED BY <1>3, <2>2, <3>1, <3>2
  <2> QED BY <2>1, <2>2
<1>8. Upto(h, a - 1) \o From(h, b + 1) = g
  BY DEF Upto, From, g, l, r
<1>9. SubSeq(h, a, b) = p
  BY DEF p
<1>10. CutInto(h, a, b, g, p)
  BY <1>4, <1>6, <1>7 DEF CutInto
<1> QED BY <1>4, <1>6, <1>8, <1>9, <1>10

\* What is where when p is put into h behind place at.
LEMMA PasteFacts ==
  ASSUME NEW S, NEW h \in Seq(S), NEW p \in Seq(S), NEW at \in 0..Len(h)
  PROVE  LET g == Upto(h, at) \o p \o From(h, at + 1)
         IN  /\ g \in Seq(S) /\ Len(g) = Len(h) + Len(p)
             /\ \A n \in 1..Len(g) :
                  g[n] = IF n =< at THEN h[n]
                         ELSE IF n =< at + Len(p) THEN p[n - at] ELSE h[n - Len(p)]
<1> DEFINE l == SubSeq(h, 1, at)
           r == SubSeq(h, at + 1, Len(h))
<1>1. /\ Len(h) \in Nat /\ Len(p) \in Nat /\ \A i \in 1..Len(h) : h[i] \in S
  BY ElementOfSeq, LenProperties
<1>2. l \in Seq(S) /\ Len(l) = at /\ \A n \in 1..at : l[n] = h[n]
  <2>1. at \in Int /\ \A i \in 1..at : h[i] \in S
    BY <1>1
  <2> HIDE DEF l
  <2>3. /\ SubSeq(h, 1, at) \in Seq(S)
        /\ Len(SubSeq(h, 1, at)) = IF 1 <= at THEN at - 1 + 1 ELSE 0
        /\ \A i \in 1..(at - 1 + 1) : SubSeq(h, 1, at)[i] = h[1 + i - 1]
    BY <2>1, SubSeqProperties
  <2> QED BY <1>1, <2>3 DEF l
<1>3. r \in Seq(S) /\ Len(r) = Len(h) - at /\ \A n \in 1..(Len(h) - at) : r[n] = h[at + n]
  <2>1. /\ at + 1 \in Int /\ Len(h) \in Int /\ at \in Int
        /\ \A i \in (at + 1)..Len(h) : h[i] \in S
    BY <1>1
  <2> HIDE DEF r
  <2>3. /\ SubSeq(h, at + 1, Len(h)) \in Seq(S)
        /\ Len(SubSeq(h, at + 1, Len(h))) =
             IF at + 1 <= Len(h) THEN Len(h) - (at + 1) + 1 ELSE 0
        /\ \A i \in 1..(Len(h) - (at + 1) + 1) : SubSeq(h, at + 1, Len(h))[i] = h[at + 1 + i - 1]
    BY <2>1, SubSeqProperties
  <2> QED BY <1>1, <2>1, <2>3 DEF r
<1> HIDE DEF l, r
<1>4. /\ l \o p \in Seq(S) /\ Len(l \o p) = Len(l) + Len(p)
      /\ \A i \in 1..(Len(l) + Len(p)) : (l \o p)[i] = IF i <= Len(l) THEN l[i] ELSE p[i - Len(l)]
  BY <1>2, ConcatProperties
<1>5. /\ (l \o p) \o r \in Seq(S) /\ Len((l \o p) \o r) = Len(l \o p) + Len(r)
      /\ \A i \in 1..(Len(l \o p) + Len(r)) :
           ((l \o p) \o r)[i] = IF i <= Len(l \o p) THEN (l \o p)[i] ELSE r[i - Len(l \o p)]
  BY <1>3, <1>4, ConcatProperties
<1> DEFINE lp == l \o p
           g  == lp \o r
<1> HIDE DEF lp, g
<1>6. /\ g \in Seq(S) /\ Len(g) = Len(h) + Len(p) /\ Len(lp) = at + Len(p)
      /\ \A n \in 1..Len(g) : g[n] = IF n <= Len(lp) THEN lp[n] ELSE r[n - Len(lp)]
  BY <1>1, <1>2, <1>3, <1>4, <1>5 DEF lp, g
<1>7. \A n \in 1..Len(lp) : lp[n] = IF n <= at THEN h[n] ELSE p[n - at]
  BY <1>1, <1>2, <1>4 DEF lp
<1>8. ASSUME NEW n \in 1..Len(g)
      PROVE  g[n] = IF n =< at THEN h[n]
                    ELSE IF n =< at + Len(p) THEN p[n - at] ELSE h[n - Len(p)]
  <2>1. CASE n <= Len(lp)
    BY <1>1, <1>6, <1>7, <2>1
  <2>2. CASE ~(n <= Len(lp))
    <3>1. n - Len(lp) \in 1..(Len(h) - at) /\ at + (n - Len(lp)) = n - Len(p)
      BY <1>1, <1>6, <2>2
    <3>2. g[n] = r[n - Len(lp)]
      BY <1>6, <2>2
    <3>3. r[n - Len(lp)] = h[at + (n - Len(lp))]
      BY <1>3, <3>1
    <3>4. ~(n =< at) /\ ~(n =< at + Len(p))
      BY <1>1, <1>6, <2>2
    <3> QED BY <3>1, <3>2, <3>3, <3>4
  <2> QED BY <2>1, <2>2
<1>9. Upto(h, at) \o p \o From(h, at + 1) = g
  BY DEF Upto, From, g, lp, l, r
<1> QED BY <1>6, <1>8, <1>9

-----------------------------------------------------------------------------
(* Leaving places out                                                      *)

\* The places that are left, in order, are numbered without a gap.
LEMMA RankFacts ==
  ASSUME NEW K \in SUBSET Nat, IsFiniteSet(K)
  PROVE  /\ Cardinality(K) \in Nat
         /\ \A k \in K : Rank(K, k) \in 1..Cardinality(K)
         /\ \A j, k \in K : j < k => Rank(K, j) < Rank(K, k)
<1> DEFINE B(k) == {j \in K : j =< k}
<1>1. Cardinality(K) \in Nat
  BY FS_CardinalityType
<1>2. ASSUME NEW k \in K
      PROVE  /\ IsFiniteSet(B(k)) /\ Cardinality(B(k)) \in 1..Cardinality(K)
  <2>1. B(k) \subseteq K /\ k \in B(k)
    OBVIOUS
  <2> HIDE DEF B
  <2>2. IsFiniteSet(B(k)) /\ Cardinality(B(k)) =< Cardinality(K)
    BY <2>1, FS_Subset
  <2>3. Cardinality(B(k)) \in Nat /\ Cardinality(B(k)) # 0
    BY <2>1, <2>2, FS_CardinalityType, FS_EmptySet
  <2> QED BY <1>1, <2>2, <2>3
<1>3. ASSUME NEW j \in K, NEW k \in K, j < k
      PROVE  Cardinality(B(j)) < Cardinality(B(k))
  <2>0. j \in Nat /\ k \in Nat /\ \A i \in K : i \in Nat
    OBVIOUS
  <2>a. \A i \in K : i =< j => i =< k
    BY <1>3, <2>0
  <2>b. k =< k /\ ~(k =< j)
    BY <1>3, <2>0
  <2>1. B(j) \subseteq B(k) /\ k \in B(k) /\ k \notin B(j)
    BY <2>a, <2>b
  <2>2. IsFiniteSet(B(k)) /\ Cardinality(B(k)) \in Nat /\ Cardinality(B(j)) \in Nat
    BY <1>2
  <2> HIDE DEF B
  <2>3. Cardinality(B(j)) =< Cardinality(B(k)) /\ (Cardinality(B(j)) = Cardinality(B(k)) => B(j) = B(k))
    BY <2>1, <2>2, FS_Subset
  <2> QED BY <2>1, <2>2, <2>3
<1> QED BY <1>1, <1>2, <1>3 DEF Rank

\* Place and Rank are inverse to each other.
LEMMA PlaceFacts ==
  ASSUME NEW K \in SUBSET Nat, IsFiniteSet(K)
  PROVE  /\ \A n \in 1..Cardinality(K) : Place(K, n) \in K /\ Rank(K, Place(K, n)) = n
         /\ \A k \in K : Place(K, Rank(K, k)) = k
<1> DEFINE N == Cardinality(K)
           r == [k \in K |-> Rank(K, k)]
<1>1. N \in Nat /\ r \in [K -> 1..N]
  BY RankFacts
<1>2. ASSUME NEW j \in K, NEW k \in K, Rank(K, j) = Rank(K, k)
      PROVE  j = k
  <2>1. j \in Nat /\ k \in Nat /\ Rank(K, j) \in Nat /\ Rank(K, k) \in Nat
    BY <1>1, RankFacts
  <2>2. ~(j < k) /\ ~(k < j)
    BY <1>2, <2>1, RankFacts
  <2> QED BY <2>1, <2>2
<1>3. r \in Injection(K, 1..N)
  BY <1>1, <1>2 DEF Injection, IsInjective
<1>4. IsFiniteSet(1..N) /\ Cardinality(1..N) = N
  BY <1>1, FS_Interval
<1> HIDE DEF N, r
<1>5. r \in Bijection(K, Range(r)) /\ Range(r) \subseteq 1..N
  BY <1>3, <1>1 DEF Injection, IsInjective, Bijection, Surjection, Range
<1>6. IsFiniteSet(Range(r)) /\ Cardinality(Range(r)) = N
  <2>1. ExistsBijection(K, Range(r))
    BY <1>5 DEF ExistsBijection
  <2> QED BY <2>1, FS_Bijection DEF N
<1>7. Range(r) = 1..N
  BY <1>4, <1>5, <1>6, FS_Subset
<1>8. ASSUME NEW n \in 1..N
      PROVE  \E k \in K : Rank(K, k) = n
  BY <1>1, <1>7 DEF Range, r
<1>9. \A n \in 1..N : Place(K, n) \in K /\ Rank(K, Place(K, n)) = n
  BY <1>8 DEF Place
<1>10. ASSUME NEW k \in K
       PROVE  Place(K, Rank(K, k)) = k
  <2>1. Rank(K, k) \in 1..N
    BY RankFacts DEF N
  <2> QED BY <1>2, <1>9, <2>1
<1> QED BY <1>9, <1>10 DEF N

\* Places next to each other stay next to each other.
LEMMA RankRun ==
  ASSUME NEW K \in SUBSET Nat, IsFiniteSet(K), NEW i \in K, NEW k \in K, i =< k, i..k \subseteq K
  PROVE  Rank(K, k) = Rank(K, i) + (k - i)
<1> DEFINE B(n) == {j \in K : j =< n}
<1>1. i \in Nat /\ k \in Nat /\ \A j \in K : j \in Nat
  OBVIOUS
<1>2. IsFiniteSet(B(i)) /\ Cardinality(B(i)) \in Nat
  <2>1. B(i) \subseteq K
    OBVIOUS
  <2> HIDE DEF B
  <2> QED BY <2>1, FS_Subset, FS_CardinalityType
<1>3. IsFiniteSet((i + 1)..k) /\ Cardinality((i + 1)..k) = k - i
  <2>1. i + 1 \in Int /\ k \in Int
    BY <1>1
  <2>2. IsFiniteSet((i + 1)..k) /\ Cardinality((i + 1)..k) = IF i + 1 > k THEN 0 ELSE k - (i + 1) + 1
    BY <2>1, FS_Interval
  <2> QED BY <1>1, <2>2
<1>4. B(k) = B(i) \cup ((i + 1)..k) /\ B(i) \cap ((i + 1)..k) = {}
  <2>1. ASSUME NEW j \in K PROVE j =< k <=> (j =< i \/ j \in (i + 1)..k)
    BY <1>1
  <2>2. \A j \in (i + 1)..k : j \in K /\ ~(j =< i)
    BY <1>1
  <2> QED BY <2>1, <2>2
<1> HIDE DEF B
<1>5. Cardinality(B(i) \cup ((i + 1)..k)) =
        Cardinality(B(i)) + Cardinality((i + 1)..k) - Cardinality(B(i) \cap ((i + 1)..k))
  BY <1>2, <1>3, FS_Union
<1>6. Cardinality(B(k)) = Cardinality(B(i)) + (k - i)
  <2>1. Cardinality(B(i) \cap ((i + 1)..k)) = 0
    BY <1>4, FS_EmptySet
  <2>2. Cardinality(B(k)) = Cardinality(B(i)) + Cardinality((i + 1)..k) - 0
    BY <1>4, <1>5, <2>1
  <2> QED BY <1>1, <1>2, <1>3, <2>2
<1> QED BY <1>6 DEF B, Rank

\* g is h without the places D, and K are the places that are left: each keeps
\* its element, at its rank among them.
Leaves(h, D, g, K) ==
  /\ K = DOMAIN h \ D /\ IsFiniteSet(K) /\ K \subseteq 1..Len(h)
  /\ Len(g) = Cardinality(K)
  /\ \A n \in 1..Len(g) : Place(K, n) \in K /\ Rank(K, Place(K, n)) = n /\ g[n] = h[Place(K, n)]
  /\ \A k \in K : Rank(K, k) \in 1..Len(g) /\ g[Rank(K, k)] = h[k]
  /\ \A k, l \in K : k < l => Rank(K, k) < Rank(K, l)

\* Without keeps the order and the values of what it keeps.
LEMMA WithoutFacts ==
  ASSUME NEW S, NEW h \in Seq(S), NEW D
  PROVE  /\ Without(h, D) \in Seq(S)
         /\ \E K \in SUBSET Nat : Leaves(h, D, Without(h, D), K)
<1> DEFINE K == DOMAIN h \ D
           g == Without(h, D)
<1>1. /\ Len(h) \in Nat /\ DOMAIN h = 1..Len(h) /\ \A i \in 1..Len(h) : h[i] \in S
  BY ElementOfSeq, LenProperties
<1>2. K \in SUBSET Nat /\ K \subseteq 1..Len(h) /\ IsFiniteSet(K)
  <2>1. IsFiniteSet(1..Len(h))
    BY <1>1, FS_Interval
  <2>2. K \subseteq 1..Len(h)
    BY <1>1
  <2>3. \A i \in 1..Len(h) : i \in Nat
    BY <1>1
  <2> HIDE DEF K
  <2> QED BY <2>1, <2>2, <2>3, FS_Subset
<1>3. g = [n \in 1..Cardinality(K) |-> h[Place(K, n)]]
  BY DEF Without
<1>0. K = DOMAIN h \ D
  OBVIOUS
<1> HIDE DEF K, g
<1>4. /\ Cardinality(K) \in Nat
      /\ \A n \in 1..Cardinality(K) : Place(K, n) \in K /\ Rank(K, Place(K, n)) = n
      /\ \A k \in K : Rank(K, k) \in 1..Cardinality(K) /\ Place(K, Rank(K, k)) = k
      /\ \A k, l \in K : k < l => Rank(K, k) < Rank(K, l)
  BY <1>2, RankFacts, PlaceFacts
<1>5. g \in Seq(S) /\ Len(g) = Cardinality(K)
  <2>1. \A n \in 1..Cardinality(K) : h[Place(K, n)] \in S
    BY <1>1, <1>2, <1>4
  <2> DEFINE N == Cardinality(K)
             e(n) == h[Place(K, n)]
  <2> HIDE DEF e, N
  <2>2. N \in Nat /\ \A n \in 1..N : e(n) \in S
    BY <1>4, <2>1 DEF e, N
  <2>3. [n \in 1..N |-> e(n)] \in Seq(S)
    BY <2>2, IsASeq
  <2>4. g = [n \in 1..N |-> e(n)]
    BY <1>3 DEF e, N
  <2>5. DOMAIN g = 1..N /\ g \in Seq(S)
    BY <2>3, <2>4
  <2> QED BY <2>2, <2>5, LenProperties DEF N
<1>6. \A n \in 1..Len(g) : g[n] = h[Place(K, n)]
  BY <1>3, <1>5
<1>7. \A k \in K : g[Rank(K, k)] = h[k]
  BY <1>4, <1>5, <1>6
<1>8. Leaves(h, D, g, K)
  BY <1>0, <1>2, <1>4, <1>5, <1>6, <1>7 DEF Leaves
<1> QED BY <1>2, <1>5, <1>8 DEF g

\* A finite set of numbers has a greatest and a least element.
LEMMA Extremes ==
  ASSUME NEW K \in SUBSET Nat, IsFiniteSet(K), K # {}
  PROVE  /\ \E k \in K : \A j \in K : j =< k
         /\ \E k \in K : \A j \in K : j >= k
<1>1. /\ Cardinality(K) \in Nat /\ \A j \in K : j \in Nat
      /\ \A n \in 1..Cardinality(K) : Place(K, n) \in K /\ Rank(K, Place(K, n)) = n
      /\ \A k \in K : Rank(K, k) \in 1..Cardinality(K)
      /\ \A j, k \in K : j < k => Rank(K, j) < Rank(K, k)
  BY RankFacts, PlaceFacts
<1>2. Cardinality(K) # 0
  BY FS_EmptySet
<1> DEFINE N == Cardinality(K)
           hi == Place(K, N)
           lo == Place(K, 1)
<1>3. hi \in K /\ lo \in K /\ Rank(K, hi) = N /\ Rank(K, lo) = 1
  BY <1>1, <1>2
<1> HIDE DEF N, hi, lo
<1>4. ASSUME NEW j \in K PROVE j =< hi /\ j >= lo
  <2>1. j \in Nat /\ hi \in Nat /\ lo \in Nat
    BY <1>1, <1>3
  <2>2. Rank(K, j) \in 1..N /\ N \in Nat
    BY <1>1 DEF N
  <2>3. ~(hi < j) /\ ~(j < lo)
    BY <1>1, <1>3, <2>1, <2>2
  <2> QED BY <2>1, <2>3
<1> QED BY <1>3, <1>4

\* The greatest and the least number of an interval with a property.
LEMMA IntervalExtremes ==
  ASSUME NEW a \in Nat, NEW b \in Nat, NEW K \in SUBSET (a..b), K # {}
  PROVE  /\ \E k \in K : \A j \in K : j =< k
         /\ \E k \in K : \A j \in K : j >= k
<1>1. IsFiniteSet(a..b) /\ \A i \in a..b : i \in Nat
  BY FS_Interval
<1>2. IsFiniteSet(K) /\ K \in SUBSET Nat
  BY <1>1, FS_Subset
<1> QED BY <1>2, Extremes

\* Trim pops a stretch at the end, all of it in S, and stops before the first place
\* that is not.
LEMMA TrimFacts ==
  ASSUME NEW n \in Nat, NEW S
  PROVE  /\ Trim(n, S) \in 0..n
         /\ (Trim(n, S) + 1)..n \subseteq S
         /\ Trim(n, S) = 0 \/ Trim(n, S) \notin S
<1> DEFINE K == {k \in 0..n : k = 0 \/ k \notin S}
<1>1. 0 \in K /\ K \in SUBSET (0..n)
  OBVIOUS
<1>2. PICK k \in K : \A j \in K : j =< k
  <2> HIDE DEF K
  <2> QED BY <1>1, IntervalExtremes, 0 \in Nat
<1>3. k \in 0..n /\ (k = 0 \/ k \notin S)
  BY <1>2
<1>4. ASSUME NEW i \in (k + 1)..n PROVE i \in S
  BY <1>2, <1>3
<1>5. \E m \in 0..n : (m + 1)..n \subseteq S /\ (m = 0 \/ m \notin S)
  BY <1>3, <1>4
<1> QED BY <1>5 DEF Trim

-----------------------------------------------------------------------------
(* Where undo cuts                                                         *)

\* The fields of the messages of a conversation.
LEMMA MsgFacts ==
  ASSUME NEW h \in Seq(Msg)
  PROVE  /\ Len(h) \in Nat /\ DOMAIN h = 1..Len(h)
         /\ \A i \in 1..Len(h) : /\ h[i] \in Msg /\ h[i].id \in Nat /\ h[i].role \in Role
                                 /\ h[i].calls \in Seq(Call) /\ h[i].call \in Call
                                 /\ h[i].prompt \in Input
<1>1. /\ Len(h) \in Nat /\ DOMAIN h = 1..Len(h) /\ \A i \in 1..Len(h) : h[i] \in Msg
  BY ElementOfSeq, LenProperties
<1>2. \A m \in Msg : /\ m.id \in Nat /\ m.role \in Role /\ m.calls \in Seq(Call)
                     /\ m.call \in Call /\ m.prompt \in Input
  BY Zenon DEF Msg
<1> QED BY <1>1, <1>2

\* The default undo takes messages from the end, beginning with the prompt or
\* with what is no response to an answer that stays.
LEMMA LeftFacts ==
  ASSUME NEW h \in Seq(Msg)
  PROVE  /\ Left(h) \in 0..Len(h)
         /\ Left(h) < Len(h) /\ Standing(h) /\ (\A i \in DOMAIN h : Declares(h[i]) => Is(h[i], "assistant"))
              => ~Is(h[Left(h) + 1], "tool")
<1> DEFINE sys   == Trim(Len(h), Places(h, "system") \ {1})
           tools == Trim(sys, Places(h, "tool"))
           C     == Places(h, "tool") \cup {i \in Places(h, "assistant") : Declares(h[i])}
           calls == IF tools > 0 /\ Is(h[tools], "assistant") THEN Trim(tools - 1, C) ELSE tools
<1>0. Len(h) \in Nat /\ DOMAIN h = 1..Len(h)
  BY MsgFacts
<1>1. /\ sys \in 0..Len(h) /\ (sys + 1)..Len(h) \subseteq Places(h, "system") \ {1}
      /\ sys = 0 \/ sys \notin Places(h, "system") \ {1}
  BY <1>0, TrimFacts
<1>2. /\ tools \in 0..sys /\ (tools + 1)..sys \subseteq Places(h, "tool")
      /\ tools = 0 \/ tools \notin Places(h, "tool")
  <2> HIDE DEF sys
  <2>1. sys \in Nat
    BY <1>0, <1>1
  <2> QED BY <2>1, TrimFacts
<1>3. Left(h) = IF calls > 0 /\ Is(h[calls], "user") THEN calls - 1 ELSE calls
  BY DEF Left
<1> HIDE DEF sys, tools, C
<1>4. sys \in Nat /\ tools \in Nat /\ tools =< sys /\ sys =< Len(h)
  BY <1>0, <1>1, <1>2
<1>5. /\ calls \in 0..tools
      /\ calls = tools \/ (/\ tools > 0 /\ Is(h[tools], "assistant")
                           /\ (calls + 1)..(tools - 1) \subseteq C
                           /\ calls < tools
                           /\ (calls = 0 \/ calls \notin C))
  <2>1. CASE tools > 0 /\ Is(h[tools], "assistant")
    <3>1. tools - 1 \in Nat
      BY <2>1, <1>4
    <3>2. /\ Trim(tools - 1, C) \in 0..(tools - 1)
          /\ (Trim(tools - 1, C) + 1)..(tools - 1) \subseteq C
          /\ Trim(tools - 1, C) = 0 \/ Trim(tools - 1, C) \notin C
      BY <3>1, TrimFacts
    <3>3. calls = Trim(tools - 1, C)
      BY <2>1
    <3> HIDE DEF calls
    <3> QED BY <1>4, <2>1, <3>2, <3>3
  <2>2. CASE ~(tools > 0 /\ Is(h[tools], "assistant"))
    BY <2>2, <1>4
  <2> QED BY <2>1, <2>2
<1>6. calls = tools => tools = 0 \/ ~Is(h[tools], "assistant")
  BY <1>5, <1>4, TrimFacts
<1> HIDE DEF calls
<1>7. Left(h) \in 0..Len(h)
  BY <1>3, <1>4, <1>5
<1>8. ASSUME Left(h) < Len(h), Standing(h), Is(h[Left(h) + 1], "tool"),
             \A i \in DOMAIN h : Declares(h[i]) => Is(h[i], "assistant")
      PROVE  FALSE
  <2>0. Left(h) = calls
    <3>1. CASE calls > 0 /\ Is(h[calls], "user")
      BY <3>1, <1>3, <1>4, <1>5, <1>8 DEF Is
    <3>2. CASE ~(calls > 0 /\ Is(h[calls], "user"))
      BY <3>2, <1>3
    <3> QED BY <3>1, <3>2
  <2>1. calls + 1 \in 1..Len(h) /\ Is(h[calls + 1], "tool")
    BY <1>4, <1>5, <1>8, <2>0
  <2>2. PICK j \in 1..calls : /\ h[calls + 1].call \in Range(h[j].calls)
                              /\ \A k \in (j + 1)..calls : Is(h[k], "tool")
    <3>1. calls + 1 \in Places(h, "tool")
      BY <1>0, <2>1 DEF Places
    <3>2. (calls + 1) - 1 = calls
      BY <1>4, <1>5
    <3> QED BY <1>8, <3>1, <3>2 DEF Standing
  <2>3. j \in DOMAIN h /\ Declares(h[j]) /\ Is(h[j], "assistant")
    <3>1. j \in 1..Len(h)
      BY <1>4, <1>5, <2>2
    <3>2. h[j].calls # <<>>
      BY <2>2 DEF Range
    <3> QED BY <1>0, <1>8, <3>1, <3>2 DEF Declares
  <2>4. j # calls => Is(h[calls], "tool")
    BY <2>2, <1>4, <1>5
  <2>5. CASE calls = tools
    <3>1. calls > 0 /\ calls \in DOMAIN h
      BY <1>0, <1>4, <1>5, <2>2
    <3>2. ~Is(h[calls], "tool")
      BY <1>2, <2>5, <3>1 DEF Places
    <3> QED BY <1>6, <2>3, <2>4, <2>5, <3>1, <3>2
  <2>6. CASE calls # tools
    <3>1. calls > 0 /\ calls \in DOMAIN h /\ calls \notin C
      BY <1>0, <1>4, <1>5, <2>2, <2>6
    <3>2. ~Is(h[calls], "tool") /\ ~(Is(h[calls], "assistant") /\ Declares(h[calls]))
      BY <3>1 DEF C, Places
    <3> QED BY <2>3, <2>4, <3>2
  <2> QED BY <2>5, <2>6
<1> QED BY <1>7, <1>8

-----------------------------------------------------------------------------
(* What cutting, pasting and adding do to identities and pairs             *)

\* Ids and Range, element by element.
LEMMA IdsFacts ==
  ASSUME NEW h \in Seq(Msg)
  PROVE  /\ \A x : x \in Ids(h) <=> \E i \in 1..Len(h) : x = h[i].id
         /\ \A m : m \in Range(h) <=> \E i \in 1..Len(h) : m = h[i]
BY MsgFacts, Zenon DEF Ids, Range

\* What IdsFacts says of a set of identities, for one of two sequences.
LEMMA IdsSubset ==
  ASSUME NEW h \in Seq(Msg), NEW g \in Seq(Msg),
         \A n \in 1..Len(g) : \E i \in 1..Len(h) : g[n].id = h[i].id
  PROVE  Ids(g) \subseteq Ids(h)
<1>1. ASSUME NEW x \in Ids(g) PROVE x \in Ids(h)
  <2>1. PICK n \in 1..Len(g) : x = g[n].id
    BY IdsFacts
  <2>2. PICK i \in 1..Len(h) : g[n].id = h[i].id
    BY <2>1
  <2> QED BY <2>1, <2>2, IdsFacts
<1> QED BY <1>1

\* Messages taken from h are messages of h.
LEMMA RangeSubset ==
  ASSUME NEW h \in Seq(Msg), NEW g \in Seq(Msg),
         \A n \in 1..Len(g) : \E i \in 1..Len(h) : g[n] = h[i]
  PROVE  Range(g) \subseteq Range(h)
<1>1. ASSUME NEW x \in Range(g) PROVE x \in Range(h)
  <2>1. PICK n \in 1..Len(g) : x = g[n]
    BY IdsFacts
  <2>2. PICK i \in 1..Len(h) : g[n] = h[i]
    BY <2>1
  <2> QED BY <2>1, <2>2, IdsFacts
<1> QED BY <1>1

\* Where each message goes when h[a..b] is taken out.
LEMMA CutPlaces ==
  ASSUME NEW h \in Seq(Msg), NEW a \in Nat \ {0}, NEW b \in Nat, a =< b + 1, b =< Len(h)
  PROVE  LET g == Upto(h, a - 1) \o From(h, b + 1)
             p == SubSeq(h, a, b)
         IN  /\ g \in Seq(Msg) /\ p \in Seq(Msg)
             /\ \A n \in 1..Len(g) : \E i \in 1..Len(h) :
                  g[n] = h[i] /\ ((i < a /\ i = n) \/ (i > b /\ i = n + (b - a + 1)))
             /\ \A n \in 1..Len(p) : \E i \in 1..Len(h) :
                  p[n] = h[i] /\ a =< i /\ i =< b /\ i = a + n - 1
             /\ \A i \in 1..Len(h) :
                  \/ i < a /\ i \in 1..Len(g) /\ g[i] = h[i]
                  \/ i > b /\ i - (b - a + 1) \in 1..Len(g) /\ g[i - (b - a + 1)] = h[i]
                  \/ a =< i /\ i =< b /\ i - a + 1 \in 1..Len(p) /\ p[i - a + 1] = h[i]
<1> DEFINE g == Upto(h, a - 1) \o From(h, b + 1)
           p == SubSeq(h, a, b)
           d == b - a + 1
<1>1. /\ g \in Seq(Msg) /\ Len(g) = Len(h) - d
      /\ \A n \in 1..Len(g) : g[n] = h[IF n < a THEN n ELSE n + d]
      /\ p \in Seq(Msg) /\ Len(p) = d
      /\ \A n \in 1..Len(p) : p[n] = h[a + n - 1]
  <2>1. g \in Seq(Msg) /\ p \in Seq(Msg) /\ CutInto(h, a, b, g, p)
    BY CutFacts
  <2> HIDE DEF g, p
  <2> QED BY <2>1 DEF CutInto
<1>2. Len(h) \in Nat /\ d \in Nat /\ d = b - a + 1
  BY MsgFacts
<1> HIDE DEF g, p, d
<1>3. ASSUME NEW n \in 1..Len(g)
      PROVE  \E i \in 1..Len(h) : g[n] = h[i] /\ ((i < a /\ i = n) \/ (i > b /\ i = n + d))
  <2>1. n \in Nat /\ 1 =< n /\ n =< Len(h) - d
    BY <1>1, <1>2
  <2>2. CASE n < a
    <3>1. n \in 1..Len(h) /\ g[n] = h[n]
      BY <1>1, <1>2, <2>1, <2>2
    <3> QED BY <2>2, <3>1
  <2>3. CASE ~(n < a)
    <3>1. n + d \in 1..Len(h) /\ g[n] = h[n + d] /\ n + d > b
      BY <1>1, <1>2, <2>1, <2>3
    <3> QED BY <2>3, <3>1
  <2> QED BY <2>2, <2>3
<1>4. ASSUME NEW n \in 1..Len(p)
      PROVE  \E i \in 1..Len(h) : p[n] = h[i] /\ a =< i /\ i =< b /\ i = a + n - 1
  <2>1. n \in Nat /\ 1 =< n /\ n =< d
    BY <1>1, <1>2
  <2>2. a + n - 1 \in 1..Len(h) /\ a =< a + n - 1 /\ a + n - 1 =< b /\ p[n] = h[a + n - 1]
    BY <1>1, <1>2, <2>1
  <2> QED BY <2>2
<1>5. ASSUME NEW i \in 1..Len(h)
      PROVE  \/ i < a /\ i \in 1..Len(g) /\ g[i] = h[i]
             \/ i > b /\ i - d \in 1..Len(g) /\ g[i - d] = h[i]
             \/ a =< i /\ i =< b /\ i - a + 1 \in 1..Len(p) /\ p[i - a + 1] = h[i]
  <2>1. CASE i < a
    <3>1. i \in 1..Len(g)
      BY <1>1, <1>2, <2>1
    <3> QED BY <1>1, <2>1, <3>1
  <2>2. CASE i > b
    <3>1. i - d \in 1..Len(g) /\ ~(i - d < a) /\ (i - d) + d = i
      BY <1>1, <1>2, <2>2
    <3>2. g[i - d] = h[(i - d) + d]
      BY <1>1, <3>1
    <3> QED BY <2>2, <3>1, <3>2
  <2>3. CASE a =< i /\ i =< b
    <3>1. i - a + 1 \in 1..Len(p) /\ a + (i - a + 1) - 1 = i
      BY <1>1, <1>2, <2>3
    <3>2. p[i - a + 1] = h[a + (i - a + 1) - 1]
      BY <1>1, <3>1
    <3> QED BY <2>3, <3>1, <3>2
  <2> QED BY <1>2, <2>1, <2>2, <2>3
<1> QED BY <1>1, <1>3, <1>4, <1>5 DEF g, p, d

\* Taking out loses and doubles no message.
LEMMA CutIds ==
  ASSUME NEW h \in Seq(Msg), NEW a \in Nat \ {0}, NEW b \in Nat, a =< b + 1, b =< Len(h)
  PROVE  LET g == Upto(h, a - 1) \o From(h, b + 1)
             p == SubSeq(h, a, b)
         IN  /\ Ids(g) \cup Ids(p) = Ids(h)
             /\ Range(g) \cup Range(p) \subseteq Range(h)
             /\ Distinct(h) => Distinct(g) /\ Distinct(p) /\ Ids(g) \cap Ids(p) = {}
<1> DEFINE g == Upto(h, a - 1) \o From(h, b + 1)
           p == SubSeq(h, a, b)
           d == b - a + 1
<1>1. /\ g \in Seq(Msg) /\ p \in Seq(Msg)
      /\ \A n \in 1..Len(g) : \E i \in 1..Len(h) :
           g[n] = h[i] /\ ((i < a /\ i = n) \/ (i > b /\ i = n + d))
      /\ \A n \in 1..Len(p) : \E i \in 1..Len(h) :
           p[n] = h[i] /\ a =< i /\ i =< b /\ i = a + n - 1
      /\ \A i \in 1..Len(h) :
           \/ i < a /\ i \in 1..Len(g) /\ g[i] = h[i]
           \/ i > b /\ i - d \in 1..Len(g) /\ g[i - d] = h[i]
           \/ a =< i /\ i =< b /\ i - a + 1 \in 1..Len(p) /\ p[i - a + 1] = h[i]
  BY CutPlaces
<1>2. d \in Nat /\ d = b - a + 1
  OBVIOUS
<1>3. /\ Len(h) \in Nat /\ DOMAIN h = 1..Len(h)
      /\ Len(g) \in Nat /\ DOMAIN g = 1..Len(g)
      /\ Len(p) \in Nat /\ DOMAIN p = 1..Len(p)
  BY <1>1, MsgFacts
<1> HIDE DEF g, p, d
<1>4. Ids(g) \subseteq Ids(h) /\ Range(g) \subseteq Range(h)
  <2>1. \A n \in 1..Len(g) : \E i \in 1..Len(h) : g[n] = h[i]
    BY <1>1
  <2> QED BY <1>1, <2>1, IdsSubset, RangeSubset
<1>5. Ids(p) \subseteq Ids(h) /\ Range(p) \subseteq Range(h)
  <2>1. \A n \in 1..Len(p) : \E i \in 1..Len(h) : p[n] = h[i]
    BY <1>1
  <2> QED BY <1>1, <2>1, IdsSubset, RangeSubset
<1>6. ASSUME NEW x \in Ids(h) PROVE x \in Ids(g) \cup Ids(p)
  <2>1. PICK i \in 1..Len(h) : x = h[i].id
    BY IdsFacts
  <2>2. (\E n \in 1..Len(g) : g[n] = h[i]) \/ (\E n \in 1..Len(p) : p[n] = h[i])
    BY <1>1
  <2>3. CASE \E n \in 1..Len(g) : g[n] = h[i]
    BY <1>1, <2>1, <2>3, IdsFacts
  <2>4. CASE \E n \in 1..Len(p) : p[n] = h[i]
    BY <1>1, <2>1, <2>4, IdsFacts
  <2> QED BY <2>2, <2>3, <2>4
<1>7. ASSUME Distinct(h), NEW n \in 1..Len(g), NEW m \in 1..Len(g), g[n].id = g[m].id PROVE n = m
  <2>1. PICK i \in 1..Len(h) : g[n] = h[i] /\ ((i < a /\ i = n) \/ (i > b /\ i = n + d))
    BY <1>1
  <2>2. PICK j \in 1..Len(h) : g[m] = h[j] /\ ((j < a /\ j = m) \/ (j > b /\ j = m + d))
    BY <1>1
  <2>3. i = j
    BY <1>3, <1>7, <2>1, <2>2 DEF Distinct
  <2>4. n \in Nat /\ m \in Nat
    BY <1>3
  <2> QED BY <1>2, <2>1, <2>2, <2>3, <2>4
<1>8. ASSUME Distinct(h), NEW n \in 1..Len(p), NEW m \in 1..Len(p), p[n].id = p[m].id PROVE n = m
  <2>1. PICK i \in 1..Len(h) : p[n] = h[i] /\ i = a + n - 1
    BY <1>1
  <2>2. PICK j \in 1..Len(h) : p[m] = h[j] /\ j = a + m - 1
    BY <1>1
  <2>3. i = j
    BY <1>3, <1>8, <2>1, <2>2 DEF Distinct
  <2>4. n \in Nat /\ m \in Nat
    BY <1>3
  <2> QED BY <2>1, <2>2, <2>3, <2>4
<1>9. ASSUME Distinct(h), NEW x \in Ids(g), x \in Ids(p) PROVE FALSE
  <2>1. PICK n \in 1..Len(g) : x = g[n].id
    BY <1>1, IdsFacts
  <2>2. PICK m \in 1..Len(p) : x = p[m].id
    BY <1>1, <1>9, IdsFacts
  <2>3. PICK i \in 1..Len(h) : g[n] = h[i] /\ (i < a \/ i > b)
    BY <1>1
  <2>4. PICK j \in 1..Len(h) : p[m] = h[j] /\ a =< j /\ j =< b
    BY <1>1
  <2>5. i = j
    BY <1>3, <1>9, <2>1, <2>2, <2>3, <2>4 DEF Distinct
  <2> QED BY <1>3, <2>3, <2>4, <2>5
<1>10. Ids(g) \cup Ids(p) = Ids(h)
  BY <1>4, <1>5, <1>6
<1>11. Distinct(h) => Distinct(g) /\ Distinct(p) /\ Ids(g) \cap Ids(p) = {}
  BY <1>3, <1>7, <1>8, <1>9 DEF Distinct
<1> QED BY <1>4, <1>5, <1>10, <1>11 DEF g, p

\* What is left stays paired if no response is cut from its answer.
LEMMA CutStanding ==
  ASSUME NEW h \in Seq(Msg), NEW a \in Nat \ {0}, NEW b \in Nat, a =< b + 1, b =< Len(h),
         Standing(h), \A i \in DOMAIN h : Declares(h[i]) => Is(h[i], "assistant"),
         b < Len(h) => ~Is(h[b + 1], "tool")
  PROVE  LET g == Upto(h, a - 1) \o From(h, b + 1)
             p == SubSeq(h, a, b)
         IN  /\ Standing(g)
             /\ (a =< b => ~Is(h[a], "tool")) => Standing(p)
<1> DEFINE g == Upto(h, a - 1) \o From(h, b + 1)
           p == SubSeq(h, a, b)
           d == b - a + 1
<1>1. /\ g \in Seq(Msg) /\ p \in Seq(Msg)
      /\ \A n \in 1..Len(g) : \E i \in 1..Len(h) :
           g[n] = h[i] /\ ((i < a /\ i = n) \/ (i > b /\ i = n + d))
      /\ \A n \in 1..Len(p) : \E i \in 1..Len(h) :
           p[n] = h[i] /\ a =< i /\ i =< b /\ i = a + n - 1
      /\ \A i \in 1..Len(h) :
           \/ i < a /\ i \in 1..Len(g) /\ g[i] = h[i]
           \/ i > b /\ i - d \in 1..Len(g) /\ g[i - d] = h[i]
           \/ a =< i /\ i =< b /\ i - a + 1 \in 1..Len(p) /\ p[i - a + 1] = h[i]
  BY CutPlaces
<1>2. d \in Nat /\ d = b - a + 1
  OBVIOUS
<1>3. /\ Len(h) \in Nat /\ DOMAIN h = 1..Len(h)
      /\ Len(g) \in Nat /\ DOMAIN g = 1..Len(g)
      /\ Len(p) \in Nat /\ DOMAIN p = 1..Len(p)
  BY <1>1, MsgFacts
<1> HIDE DEF g, p, d
<1>4. ASSUME NEW i \in 1..Len(h), Is(h[i], "tool")
      PROVE  \E j \in 1..(i - 1) : /\ h[i].call \in Range(h[j].calls)
                                   /\ \A k \in (j + 1)..(i - 1) : Is(h[k], "tool")
  BY <1>3, <1>4 DEF Standing, Places
<1>5. ASSUME NEW n \in 1..Len(g), Is(g[n], "tool")
      PROVE  \E m \in 1..(n - 1) : /\ g[n].call \in Range(g[m].calls)
                                   /\ \A k \in (m + 1)..(n - 1) : Is(g[k], "tool")
  <2>0. n \in Nat
    BY <1>3
  <2>1. PICK i \in 1..Len(h) : g[n] = h[i] /\ ((i < a /\ i = n) \/ (i > b /\ i = n + d))
    BY <1>1
  <2>2. PICK j \in 1..(i - 1) : /\ h[i].call \in Range(h[j].calls)
                                /\ \A k \in (j + 1)..(i - 1) : Is(h[k], "tool")
    BY <1>4, <1>5, <2>1
  <2>3. i \in Nat /\ j \in Nat /\ j < i /\ 1 =< j /\ i =< Len(h) /\ j \in 1..Len(h)
    BY <1>3
  <2>4. CASE i < a /\ i = n
    <3>1. ASSUME NEW k \in 1..i PROVE k \in 1..Len(g) /\ g[k] = h[k]
      <4>1. k \in 1..Len(h) /\ k < a
        BY <1>3, <2>3, <2>4
      <4> QED BY <1>1, <2>3, <4>1
    <3>2. j \in 1..(n - 1) /\ j \in 1..i
      BY <2>3, <2>4
    <3>3. \A k \in (j + 1)..(n - 1) : Is(g[k], "tool")
      BY <2>2, <2>3, <2>4, <3>1
    <3>4. g[n].call \in Range(g[j].calls)
      BY <2>1, <2>2, <3>1, <3>2
    <3> QED BY <3>2, <3>3, <3>4
  <2>5. CASE i > b /\ i = n + d
    <3>1. j > b
      <4>1. SUFFICES ASSUME j =< b PROVE FALSE
        BY <2>3
      <4>2. b + 1 =< i /\ b < Len(h) /\ j + 1 =< b + 1
        BY <2>3, <2>5, <4>1
      <4>3. b + 1 = i \/ b + 1 \in (j + 1)..(i - 1)
        BY <2>3, <4>2
      <4> QED BY <1>5, <2>1, <2>2, <4>2, <4>3
    <3>2. ASSUME NEW k \in (b + 1)..i PROVE k - d \in 1..Len(g) /\ g[k - d] = h[k]
      <4>1. k \in 1..Len(h) /\ k > b /\ ~(k < a) /\ ~(k =< b)
        BY <1>3, <2>3, <2>5
      <4> QED BY <1>1, <4>1
    <3>3. j - d \in 1..(n - 1) /\ j \in (b + 1)..i
      <4>1. j \in (b + 1)..i
        BY <2>3, <3>1
      <4>2. j - d \in 1..Len(g)
        BY <3>2, <4>1
      <4> QED BY <1>2, <1>3, <2>0, <2>3, <2>5, <4>1, <4>2
    <3>4. ASSUME NEW k \in (j - d + 1)..(n - 1) PROVE Is(g[k], "tool")
      <4>1. k + d \in (j + 1)..(i - 1) /\ k + d \in (b + 1)..i /\ (k + d) - d = k
        BY <1>2, <2>0, <2>3, <2>5, <3>1
      <4> QED BY <2>2, <3>2, <4>1
    <3>5. g[n].call \in Range(g[j - d].calls)
      BY <2>1, <2>2, <3>2, <3>3
    <3> QED BY <3>3, <3>4, <3>5
  <2> QED BY <2>1, <2>4, <2>5
<1>6. ASSUME a =< b => ~Is(h[a], "tool"), NEW n \in 1..Len(p), Is(p[n], "tool")
      PROVE  \E m \in 1..(n - 1) : /\ p[n].call \in Range(p[m].calls)
                                   /\ \A k \in (m + 1)..(n - 1) : Is(p[k], "tool")
  <2>0. n \in Nat
    BY <1>3
  <2>1. PICK i \in 1..Len(h) : p[n] = h[i] /\ a =< i /\ i =< b /\ i = a + n - 1
    BY <1>1
  <2>2. PICK j \in 1..(i - 1) : /\ h[i].call \in Range(h[j].calls)
                                /\ \A k \in (j + 1)..(i - 1) : Is(h[k], "tool")
    BY <1>4, <1>6, <2>1
  <2>3. i \in Nat /\ j \in Nat /\ j < i /\ 1 =< j /\ i =< Len(h) /\ j \in 1..Len(h)
    BY <1>3
  <2>4. j >= a
    <3>1. SUFFICES ASSUME j < a PROVE FALSE
      BY <2>3
    <3>2. a = i \/ a \in (j + 1)..(i - 1)
      BY <2>1, <2>3, <3>1
    <3> QED BY <1>6, <2>1, <2>2, <3>2
  <2>5. ASSUME NEW k \in a..i PROVE k - a + 1 \in 1..Len(p) /\ p[k - a + 1] = h[k]
    <3>1. k \in 1..Len(h) /\ ~(k < a) /\ ~(k > b)
      BY <1>3, <2>1, <2>3
    <3> QED BY <1>1, <3>1
  <2>6. j \in a..i /\ j - a + 1 \in 1..(n - 1)
    BY <2>0, <2>1, <2>3, <2>4
  <2>7. ASSUME NEW k \in (j - a + 1 + 1)..(n - 1) PROVE Is(p[k], "tool")
    <3>1. k + a - 1 \in (j + 1)..(i - 1) /\ k + a - 1 \in a..i /\ (k + a - 1) - a + 1 = k
      BY <2>0, <2>1, <2>3, <2>4
    <3> QED BY <2>2, <2>5, <3>1
  <2>8. p[n].call \in Range(p[j - a + 1].calls)
    BY <2>1, <2>2, <2>5, <2>6
  <2> QED BY <2>6, <2>7, <2>8
<1>7. Standing(g)
  BY <1>3, <1>5 DEF Standing, Places
<1>8. (a =< b => ~Is(h[a], "tool")) => Standing(p)
  BY <1>3, <1>6 DEF Standing, Places
<1> QED BY <1>7, <1>8 DEF g, p

\* Where each message goes when p is put into h.
LEMMA PastePlaces ==
  ASSUME NEW h \in Seq(Msg), NEW p \in Seq(Msg), NEW at \in 0..Len(h)
  PROVE  LET g == Upto(h, at) \o p \o From(h, at + 1)
         IN  /\ g \in Seq(Msg) /\ Len(g) = Len(h) + Len(p)
             /\ \A n \in 1..Len(g) :
                  \/ n =< at /\ n \in 1..Len(h) /\ g[n] = h[n]
                  \/ n > at /\ n =< at + Len(p) /\ n - at \in 1..Len(p) /\ g[n] = p[n - at]
                  \/ n > at + Len(p) /\ n - Len(p) \in 1..Len(h) /\ g[n] = h[n - Len(p)]
             /\ \A i \in 1..Len(h) : \/ i =< at /\ i \in 1..Len(g) /\ g[i] = h[i]
                                     \/ i > at /\ i + Len(p) \in 1..Len(g) /\ g[i + Len(p)] = h[i]
             /\ \A i \in 1..Len(p) : i + at \in 1..Len(g) /\ g[i + at] = p[i]
<1> DEFINE g == Upto(h, at) \o p \o From(h, at + 1)
<1>1. /\ g \in Seq(Msg) /\ Len(g) = Len(h) + Len(p)
      /\ \A n \in 1..Len(g) :
           g[n] = IF n =< at THEN h[n] ELSE IF n =< at + Len(p) THEN p[n - at] ELSE h[n - Len(p)]
  BY PasteFacts
<1>2. Len(h) \in Nat /\ Len(p) \in Nat /\ at \in Nat /\ at =< Len(h)
  BY MsgFacts
<1> HIDE DEF g
<1>3. ASSUME NEW n \in 1..Len(g)
      PROVE  \/ n =< at /\ n \in 1..Len(h) /\ g[n] = h[n]
             \/ n > at /\ n =< at + Len(p) /\ n - at \in 1..Len(p) /\ g[n] = p[n - at]
             \/ n > at + Len(p) /\ n - Len(p) \in 1..Len(h) /\ g[n] = h[n - Len(p)]
  <2>1. n \in Nat /\ 1 =< n /\ n =< Len(h) + Len(p)
    BY <1>1, <1>2
  <2>2. CASE n =< at
    BY <1>1, <1>2, <2>1, <2>2
  <2>3. CASE n > at /\ n =< at + Len(p)
    BY <1>1, <1>2, <2>1, <2>3
  <2>4. CASE n > at + Len(p)
    BY <1>1, <1>2, <2>1, <2>4
  <2> QED BY <1>2, <2>1, <2>2, <2>3, <2>4
<1>4. ASSUME NEW i \in 1..Len(h)
      PROVE  \/ i =< at /\ i \in 1..Len(g) /\ g[i] = h[i]
             \/ i > at /\ i + Len(p) \in 1..Len(g) /\ g[i + Len(p)] = h[i]
  <2>1. i \in Nat /\ 1 =< i /\ i =< Len(h)
    BY <1>2
  <2>2. CASE i =< at
    <3>1. i \in 1..Len(g)
      BY <1>1, <1>2, <2>1
    <3> QED BY <1>1, <2>2, <3>1
  <2>3. CASE i > at
    <3>1. /\ i + Len(p) \in 1..Len(g) /\ ~(i + Len(p) =< at) /\ ~(i + Len(p) =< at + Len(p))
          /\ (i + Len(p)) - Len(p) = i
      BY <1>1, <1>2, <2>1, <2>3
    <3>2. g[i + Len(p)] = h[(i + Len(p)) - Len(p)]
      BY <1>1, <3>1
    <3> QED BY <2>3, <3>1, <3>2
  <2> QED BY <1>2, <2>1, <2>2, <2>3
<1>5. ASSUME NEW i \in 1..Len(p)
      PROVE  i + at \in 1..Len(g) /\ g[i + at] = p[i]
  <2>1. i \in Nat /\ 1 =< i /\ i =< Len(p)
    BY <1>2
  <2>2. /\ i + at \in 1..Len(g) /\ ~(i + at =< at) /\ i + at =< at + Len(p) /\ (i + at) - at = i
    BY <1>1, <1>2, <2>1
  <2>3. g[i + at] = p[(i + at) - at]
    BY <1>1, <2>2
  <2> QED BY <2>2, <2>3
<1> QED BY <1>1, <1>3, <1>4, <1>5 DEF g

\* Putting in loses and doubles no message.
LEMMA PasteIds ==
  ASSUME NEW h \in Seq(Msg), NEW p \in Seq(Msg), NEW at \in 0..Len(h)
  PROVE  LET g == Upto(h, at) \o p \o From(h, at + 1)
         IN  /\ Ids(g) = Ids(h) \cup Ids(p)
             /\ Range(g) = Range(h) \cup Range(p)
             /\ Distinct(h) /\ Distinct(p) /\ Ids(h) \cap Ids(p) = {} => Distinct(g)
<1> DEFINE g == Upto(h, at) \o p \o From(h, at + 1)
<1>1. /\ g \in Seq(Msg) /\ Len(g) = Len(h) + Len(p)
      /\ \A n \in 1..Len(g) :
           \/ n =< at /\ n \in 1..Len(h) /\ g[n] = h[n]
           \/ n > at /\ n =< at + Len(p) /\ n - at \in 1..Len(p) /\ g[n] = p[n - at]
           \/ n > at + Len(p) /\ n - Len(p) \in 1..Len(h) /\ g[n] = h[n - Len(p)]
      /\ \A i \in 1..Len(h) : \/ i =< at /\ i \in 1..Len(g) /\ g[i] = h[i]
                              \/ i > at /\ i + Len(p) \in 1..Len(g) /\ g[i + Len(p)] = h[i]
      /\ \A i \in 1..Len(p) : i + at \in 1..Len(g) /\ g[i + at] = p[i]
  BY PastePlaces
<1>2. /\ Len(h) \in Nat /\ DOMAIN h = 1..Len(h)
      /\ Len(g) \in Nat /\ DOMAIN g = 1..Len(g)
      /\ Len(p) \in Nat /\ DOMAIN p = 1..Len(p)
      /\ at \in Nat
  BY <1>1, MsgFacts
<1> HIDE DEF g
<1>3. \A n \in 1..Len(g) : (\E i \in 1..Len(h) : g[n] = h[i]) \/ (\E i \in 1..Len(p) : g[n] = p[i])
  BY <1>1
<1>4. Ids(h) \subseteq Ids(g) /\ Range(h) \subseteq Range(g)
  <2>1. \A n \in 1..Len(h) : \E i \in 1..Len(g) : h[n] = g[i]
    BY <1>1
  <2> QED BY <1>1, <2>1, IdsSubset, RangeSubset
<1>5. Ids(p) \subseteq Ids(g) /\ Range(p) \subseteq Range(g)
  <2>1. \A n \in 1..Len(p) : \E i \in 1..Len(g) : p[n] = g[i]
    BY <1>1
  <2> QED BY <1>1, <2>1, IdsSubset, RangeSubset
<1>6. ASSUME NEW x \in Ids(g) PROVE x \in Ids(h) \cup Ids(p)
  <2>1. PICK n \in 1..Len(g) : x = g[n].id
    BY <1>1, IdsFacts
  <2>2. CASE \E i \in 1..Len(h) : g[n] = h[i]
    BY <2>1, <2>2, IdsFacts
  <2>3. CASE \E i \in 1..Len(p) : g[n] = p[i]
    BY <2>1, <2>3, IdsFacts
  <2> QED BY <1>3, <2>2, <2>3
<1>7. ASSUME NEW x \in Range(g) PROVE x \in Range(h) \cup Range(p)
  <2>1. PICK n \in 1..Len(g) : x = g[n]
    BY <1>1, IdsFacts
  <2>2. CASE \E i \in 1..Len(h) : g[n] = h[i]
    BY <2>1, <2>2, IdsFacts
  <2>3. CASE \E i \in 1..Len(p) : g[n] = p[i]
    BY <2>1, <2>3, IdsFacts
  <2> QED BY <1>3, <2>2, <2>3
<1>8. ASSUME Distinct(h), Distinct(p), Ids(h) \cap Ids(p) = {},
             NEW n \in 1..Len(g), NEW m \in 1..Len(g), g[n].id = g[m].id
      PROVE  n = m
  <2>1. \A i, j \in 1..Len(h) : h[i].id = h[j].id => i = j
    BY <1>2, <1>8 DEF Distinct
  <2>2. \A i, j \in 1..Len(p) : p[i].id = p[j].id => i = j
    BY <1>2, <1>8 DEF Distinct
  <2>3. \A i \in 1..Len(h), j \in 1..Len(p) : h[i].id # p[j].id
    <3>1. \A i \in 1..Len(h) : h[i].id \in Ids(h)
      BY IdsFacts
    <3>2. \A i \in 1..Len(p) : p[i].id \in Ids(p)
      BY IdsFacts
    <3> QED BY <1>8, <3>1, <3>2
  <2>4. n \in Nat /\ m \in Nat
    BY <1>2
  <2>5. CASE n > at /\ n =< at + Len(p) /\ n - at \in 1..Len(p) /\ g[n] = p[n - at]
    <3>0. \A i \in 1..Len(h) : g[m] # h[i]
      BY <1>8, <2>3, <2>5
    <3>1. m > at /\ m =< at + Len(p) /\ m - at \in 1..Len(p) /\ g[m] = p[m - at]
      BY <1>1, <3>0
    <3>2. n - at = m - at
      BY <1>8, <2>2, <2>5, <3>1
    <3> QED BY <1>2, <2>4, <3>2
  <2>6. CASE n =< at /\ n \in 1..Len(h) /\ g[n] = h[n]
    <3>1. \/ m =< at /\ m \in 1..Len(h) /\ g[m] = h[m]
          \/ m > at + Len(p) /\ m - Len(p) \in 1..Len(h) /\ g[m] = h[m - Len(p)]
      BY <1>1, <1>8, <2>3, <2>6
    <3>2. m = n \/ (m > at + Len(p) /\ m - Len(p) = n)
      BY <1>8, <2>1, <2>6, <3>1
    <3> QED BY <1>2, <2>4, <2>6, <3>2
  <2>7. CASE n > at + Len(p) /\ n - Len(p) \in 1..Len(h) /\ g[n] = h[n - Len(p)]
    <3>1. \/ m =< at /\ m \in 1..Len(h) /\ g[m] = h[m]
          \/ m > at + Len(p) /\ m - Len(p) \in 1..Len(h) /\ g[m] = h[m - Len(p)]
      BY <1>1, <1>8, <2>3, <2>7
    <3>2. (m =< at /\ m = n - Len(p)) \/ (m - Len(p) = n - Len(p))
      BY <1>8, <2>1, <2>7, <3>1
    <3> QED BY <1>2, <2>4, <2>7, <3>2
  <2> QED BY <1>1, <2>5, <2>6, <2>7
<1>9. Ids(g) = Ids(h) \cup Ids(p) /\ Range(g) = Range(h) \cup Range(p)
  BY <1>4, <1>5, <1>6, <1>7
<1>10. Distinct(h) /\ Distinct(p) /\ Ids(h) \cap Ids(p) = {} => Distinct(g)
  BY <1>2, <1>8 DEF Distinct
<1> QED BY <1>9, <1>10 DEF g

\* The whole stays paired unless p goes between an answer and its response.
LEMMA PasteStanding ==
  ASSUME NEW h \in Seq(Msg), NEW p \in Seq(Msg), NEW at \in 0..Len(h),
         Standing(h), Standing(p), at < Len(h) => ~Is(h[at + 1], "tool")
  PROVE  Standing(Upto(h, at) \o p \o From(h, at + 1))
<1> DEFINE g == Upto(h, at) \o p \o From(h, at + 1)
           l == Len(p)
<1>1. /\ g \in Seq(Msg) /\ Len(g) = Len(h) + l
      /\ \A n \in 1..Len(g) :
           \/ n =< at /\ n \in 1..Len(h) /\ g[n] = h[n]
           \/ n > at /\ n =< at + l /\ n - at \in 1..l /\ g[n] = p[n - at]
           \/ n > at + l /\ n - l \in 1..Len(h) /\ g[n] = h[n - l]
      /\ \A i \in 1..Len(h) : \/ i =< at /\ i \in 1..Len(g) /\ g[i] = h[i]
                              \/ i > at /\ i + l \in 1..Len(g) /\ g[i + l] = h[i]
      /\ \A i \in 1..l : i + at \in 1..Len(g) /\ g[i + at] = p[i]
  BY PastePlaces
<1>2. /\ Len(h) \in Nat /\ DOMAIN h = 1..Len(h)
      /\ Len(g) \in Nat /\ DOMAIN g = 1..Len(g)
      /\ l \in Nat /\ DOMAIN p = 1..l
      /\ at \in Nat
  BY <1>1, MsgFacts
<1> HIDE DEF g, l
<1>3. ASSUME NEW i \in 1..Len(h), Is(h[i], "tool")
      PROVE  \E j \in 1..(i - 1) : /\ h[i].call \in Range(h[j].calls)
                                   /\ \A k \in (j + 1)..(i - 1) : Is(h[k], "tool")
  BY <1>2, <1>3 DEF Standing, Places
<1>4. ASSUME NEW i \in 1..l, Is(p[i], "tool")
      PROVE  \E j \in 1..(i - 1) : /\ p[i].call \in Range(p[j].calls)
                                   /\ \A k \in (j + 1)..(i - 1) : Is(p[k], "tool")
  BY <1>2, <1>4 DEF Standing, Places
<1>5. ASSUME NEW n \in 1..Len(g), Is(g[n], "tool")
      PROVE  \E m \in 1..(n - 1) : /\ g[n].call \in Range(g[m].calls)
                                   /\ \A k \in (m + 1)..(n - 1) : Is(g[k], "tool")
  <2>0. n \in Nat
    BY <1>2
  <2>1. CASE n =< at /\ n \in 1..Len(h) /\ g[n] = h[n]
    <3>1. PICK j \in 1..(n - 1) : /\ h[n].call \in Range(h[j].calls)
                                  /\ \A k \in (j + 1)..(n - 1) : Is(h[k], "tool")
      BY <1>3, <1>5, <2>1
    <3>2. ASSUME NEW k \in 1..n PROVE g[k] = h[k]
      <4>1. k \in 1..Len(h) /\ ~(k > at)
        BY <1>2, <2>0, <2>1
      <4> QED BY <1>1, <4>1
    <3>3. \A k \in (j + 1)..(n - 1) : Is(g[k], "tool")
      <4>1. \A k \in (j + 1)..(n - 1) : k \in 1..n
        BY <2>0
      <4> QED BY <3>1, <3>2, <4>1
    <3>4. g[n].call \in Range(g[j].calls)
      <4>1. j \in 1..n
        BY <2>0
      <4> QED BY <2>1, <3>1, <3>2, <4>1
    <3> QED BY <3>3, <3>4
  <2>2. CASE n > at /\ n =< at + l /\ n - at \in 1..l /\ g[n] = p[n - at]
    <3>1. PICK j \in 1..(n - at - 1) : /\ p[n - at].call \in Range(p[j].calls)
                                       /\ \A k \in (j + 1)..(n - at - 1) : Is(p[k], "tool")
      BY <1>4, <1>5, <2>2
    <3>2. j \in 1..l /\ j + at \in 1..(n - 1)
      BY <1>2, <2>0, <2>2
    <3>a. at \in Nat /\ l \in Nat
      BY <1>2
    <3>b. j \in Nat
      BY <3>2
    <3>3. ASSUME NEW k \in (j + at + 1)..(n - 1) PROVE Is(g[k], "tool")
      <4>0. j \in Nat /\ k \in Nat /\ j + at + 1 =< k /\ k =< n - 1 /\ n =< at + l
        BY <2>0, <2>2, <3>a, <3>b
      <4>1. k - at \in (j + 1)..(n - at - 1) /\ k - at \in 1..l /\ (k - at) + at = k
        BY <1>2, <2>0, <4>0
      <4> QED BY <1>1, <3>1, <4>1
    <3>4. g[n].call \in Range(g[j + at].calls)
      BY <1>1, <2>2, <3>1, <3>2
    <3> QED BY <3>2, <3>3, <3>4
  <2>3. CASE n > at + l /\ n - l \in 1..Len(h) /\ g[n] = h[n - l]
    <3>1. PICK j \in 1..(n - l - 1) : /\ h[n - l].call \in Range(h[j].calls)
                                      /\ \A k \in (j + 1)..(n - l - 1) : Is(h[k], "tool")
      BY <1>3, <1>5, <2>3
    <3>0. j \in Nat /\ 1 =< j /\ j < n - l
      BY <1>2, <2>0
    <3>2. j > at
      <4>1. SUFFICES ASSUME j =< at PROVE FALSE
        BY <1>2, <3>0
      <4>2. at < Len(h) /\ (at + 1 = n - l \/ at + 1 \in (j + 1)..(n - l - 1))
        BY <1>2, <2>0, <2>3, <3>0, <4>1
      <4> QED BY <1>5, <2>3, <3>1, <4>2
    <3>3. ASSUME NEW k \in (at + 1)..(n - l) PROVE g[k + l] = h[k]
      <4>1. k \in 1..Len(h) /\ ~(k =< at)
        BY <1>2, <2>0, <2>3
      <4> QED BY <1>1, <4>1
    <3>4. j + l \in 1..(n - 1) /\ j \in (at + 1)..(n - l)
      BY <1>2, <2>0, <3>0, <3>2
    <3>5. ASSUME NEW k \in (j + l + 1)..(n - 1) PROVE Is(g[k], "tool")
      <4>1. k - l \in (j + 1)..(n - l - 1) /\ k - l \in (at + 1)..(n - l) /\ (k - l) + l = k
        BY <1>2, <2>0, <3>0, <3>2
      <4> QED BY <3>1, <3>3, <4>1
    <3>6. g[n].call \in Range(g[j + l].calls)
      BY <2>3, <3>1, <3>3, <3>4
    <3> QED BY <3>4, <3>5, <3>6
  <2> QED BY <1>1, <2>1, <2>2, <2>3
<1>6. Standing(g)
  BY <1>2, <1>5 DEF Standing, Places
<1> QED BY <1>6 DEF g

\* Adding at the end is putting in behind the last place.
LEMMA ConcatAsPaste ==
  ASSUME NEW h \in Seq(Msg), NEW p \in Seq(Msg)
  PROVE  /\ h \o p = Upto(h, Len(h)) \o p \o From(h, Len(h) + 1)
         /\ Len(h) \in 0..Len(h)
<1>1. Len(h) \in Nat
  BY MsgFacts
<1> DEFINE g == Upto(h, Len(h)) \o p \o From(h, Len(h) + 1)
<1>2. /\ g \in Seq(Msg) /\ Len(g) = Len(h) + Len(p)
      /\ \A n \in 1..Len(g) :
           g[n] = IF n =< Len(h) THEN h[n] ELSE IF n =< Len(h) + Len(p) THEN p[n - Len(h)] ELSE h[n - Len(p)]
  <2>1. Len(h) \in 0..Len(h)
    BY <1>1
  <2> QED BY <2>1, PasteFacts
<1>3. /\ h \o p \in Seq(Msg) /\ Len(h \o p) = Len(h) + Len(p)
      /\ \A i \in 1..(Len(h) + Len(p)) : (h \o p)[i] = IF i <= Len(h) THEN h[i] ELSE p[i - Len(h)]
  BY ConcatProperties
<1> DEFINE f == h \o p
<1> HIDE DEF g, f
<1>4. /\ f \in Seq(Msg) /\ Len(f) = Len(g) /\ Len(h) + Len(p) = Len(g)
      /\ \A i \in 1..Len(f) : f[i] = IF i <= Len(h) THEN h[i] ELSE p[i - Len(h)]
  BY <1>2, <1>3 DEF f
<1>5. ASSUME NEW i \in 1..Len(f) PROVE f[i] = g[i]
  <2>1. Len(p) \in Nat /\ i \in Nat /\ i =< Len(h) + Len(p) /\ i \in 1..Len(g)
    BY <1>1, <1>4, MsgFacts
  <2>2. g[i] = IF i =< Len(h) THEN h[i] ELSE p[i - Len(h)]
    BY <1>2, <2>1
  <2> QED BY <1>4, <2>2
<1>6. f = g
  BY <1>2, <1>4, <1>5, SeqEqual
<1> QED BY <1>1, <1>6 DEF f, g

\* Taking the last message back is taking out the last place.
LEMMA FrontAsCut ==
  ASSUME NEW h \in Seq(Msg), h # <<>>
  PROVE  /\ Len(h) \in Nat \ {0}
         /\ Front(h) = Upto(h, Len(h) - 1) \o From(h, Len(h) + 1)
         /\ SubSeq(h, Len(h), Len(h)) = <<Last(h)>>
         /\ Last(h) = h[Len(h)]
<1>1. Len(h) \in Nat \ {0}
  BY EmptySeq
<1>2. From(h, Len(h) + 1) = <<>>
  BY <1>1, SubSeqEmpty DEF From
<1>3. Upto(h, Len(h) - 1) \in Seq(Msg)
  BY <1>1, SubSeqProperties, MsgFacts DEF Upto
<1>4. Front(h) = Upto(h, Len(h) - 1)
  BY DEF Front, Upto
<1>5. Upto(h, Len(h) - 1) \o <<>> = Upto(h, Len(h) - 1)
  BY <1>3, ConcatEmptySeq
<1>6. SubSeq(h, Len(h), Len(h)) = <<h[Len(h)]>>
  <2> DEFINE n == Len(h)
             p == SubSeq(h, n, n)
  <2>1. n \in Int /\ \A i \in n..n : h[i] \in Msg
    BY <1>1, MsgFacts
  <2> HIDE DEF n
  <2>2. /\ SubSeq(h, n, n) \in Seq(Msg)
        /\ Len(SubSeq(h, n, n)) = IF n <= n THEN n - n + 1 ELSE 0
        /\ \A i \in 1..(n - n + 1) : SubSeq(h, n, n)[i] = h[n + i - 1]
    BY <2>1, SubSeqProperties
  <2>3. 1 \in 1..(n - n + 1) /\ n + 1 - 1 = n /\ n - n + 1 = 1 /\ n <= n
    BY <2>1
  <2> HIDE DEF p
  <2>4. p \in Seq(Msg) /\ Len(p) = 1 /\ p[1] = h[n]
    <3>1. Len(SubSeq(h, n, n)) = 1
      BY <2>2, <2>3
    <3>2. SubSeq(h, n, n)[1] = h[n]
      BY <2>2, <2>3
    <3> QED BY <2>2, <3>1, <3>2 DEF p
  <2> HIDE DEF p
  <2>5. p \in [1..1 -> Msg]
    BY <2>4, LenProperties
  <2>6. p = <<h[n]>>
    BY <2>4, <2>5
  <2> QED BY <2>6 DEF n, p
<1> QED BY <1>1, <1>2, <1>4, <1>5, <1>6 DEF Last

-----------------------------------------------------------------------------
(* The stack of bundles                                                    *)

BundledIn(s) == UNION {Ids(s[i].popped) : i \in DOMAIN s}
InPlayOf(h, s) == Range(h) \cup UNION {Range(s[i].popped) : i \in DOMAIN s}

\* The fields of the bundles of a stack.
LEMMA BundleFacts ==
  ASSUME NEW s \in Seq(Bundle)
  PROVE  /\ Len(s) \in Nat /\ DOMAIN s = 1..Len(s)
         /\ \A i \in 1..Len(s) :
              /\ s[i] \in Bundle /\ s[i].popped \in Seq(Msg) /\ s[i].delta \in {0, 1}
              /\ s[i].at \in Nat \cup {AtTail}
              /\ s[i].before \in Seq(Nat) \X Nat /\ s[i].after \in Seq(Nat) \X Nat
<1>1. /\ Len(s) \in Nat /\ DOMAIN s = 1..Len(s) /\ \A i \in 1..Len(s) : s[i] \in Bundle
  BY ElementOfSeq, LenProperties
<1>2. \A b \in Bundle : /\ b.popped \in Seq(Msg) /\ b.delta \in {0, 1}
                        /\ b.at \in Nat \cup {AtTail}
                        /\ b.before \in Seq(Nat) \X Nat /\ b.after \in Seq(Nat) \X Nat
  BY Zenon DEF Bundle
<1> QED BY <1>1, <1>2

\* What is bundled, and what is in play, place by place.
LEMMA StackFacts ==
  ASSUME NEW h \in Seq(Msg), NEW s \in Seq(Bundle)
  PROVE  /\ \A x : x \in BundledIn(s) <=> \E i \in 1..Len(s) : x \in Ids(s[i].popped)
         /\ \A m : m \in InPlayOf(h, s) <=>
                     \/ m \in Range(h)
                     \/ \E i \in 1..Len(s) : m \in Range(s[i].popped)
<1>1. DOMAIN s = 1..Len(s)
  BY BundleFacts
<1> QED BY <1>1, Zenon DEF BundledIn, InPlayOf

\* A stack with one bundle more.
LEMMA PushFacts ==
  ASSUME NEW s \in Seq(Bundle), NEW b \in Bundle
  PROVE  LET t == Append(s, b)
         IN  /\ t \in Seq(Bundle) /\ Len(t) = Len(s) + 1 /\ DOMAIN t = DOMAIN s \cup {Len(s) + 1}
             /\ \A i \in DOMAIN s : t[i] = s[i]
             /\ t[Len(s) + 1] = b /\ Len(s) + 1 \notin DOMAIN s
<1> DEFINE t == Append(s, b)
<1>1. /\ t \in Seq(Bundle) /\ Len(t) = Len(s) + 1
      /\ \A i \in 1..Len(s) : t[i] = s[i]
      /\ t[Len(s) + 1] = b
  BY AppendProperties
<1> HIDE DEF t
<1>2. Len(s) \in Nat /\ DOMAIN s = 1..Len(s) /\ DOMAIN t = 1..(Len(s) + 1)
  BY <1>1, BundleFacts
<1> QED BY <1>1, <1>2 DEF t

\* A stack without its last bundle.
LEMMA PopFacts ==
  ASSUME NEW s \in Seq(Bundle), s # <<>>
  PROVE  LET t == Front(s)
         IN  /\ t \in Seq(Bundle) /\ Len(t) = Len(s) - 1 /\ DOMAIN t = DOMAIN s \ {Len(s)}
             /\ \A i \in DOMAIN t : t[i] = s[i]
             /\ Last(s) = s[Len(s)] /\ Len(s) \in DOMAIN s
<1>1. Len(s) \in Nat \ {0} /\ DOMAIN s = 1..Len(s) /\ \A i \in 1..Len(s) : s[i] \in Bundle
  BY EmptySeq, BundleFacts
<1> DEFINE t == Front(s)
           n == Len(s) - 1
<1>2. n \in Nat /\ \A i \in 1..n : s[i] \in Bundle
  BY <1>1
<1> HIDE DEF n
<1>3. /\ SubSeq(s, 1, n) \in Seq(Bundle)
      /\ Len(SubSeq(s, 1, n)) = IF 1 <= n THEN n - 1 + 1 ELSE 0
      /\ \A i \in 1..(n - 1 + 1) : SubSeq(s, 1, n)[i] = s[1 + i - 1]
  BY <1>2, SubSeqProperties
<1>4. t = SubSeq(s, 1, n)
  BY DEF Front, n
<1> HIDE DEF t
<1>5. t \in Seq(Bundle) /\ Len(t) = n /\ DOMAIN t = 1..n /\ \A i \in 1..n : t[i] = s[i]
  <2>1. Len(t) = n
    BY <1>2, <1>3, <1>4
  <2>2. DOMAIN t = 1..Len(t)
    BY <1>3, <1>4, LenProperties
  <2>3. \A i \in 1..n : i \in 1..(n - 1 + 1) /\ 1 + i - 1 = i
    BY <1>2
  <2> QED BY <1>3, <1>4, <2>1, <2>2, <2>3
<1>6. 1..n = (1..Len(s)) \ {Len(s)} /\ Len(s) \in 1..Len(s)
  BY <1>1 DEF n
<1> QED BY <1>1, <1>5, <1>6 DEF t, n, Last

-----------------------------------------------------------------------------
(* Types                                                                   *)

\* The constructors of messages make messages.
LEMMA MessageTypes ==
  ASSUME HistoryAssumption, NEW id \in Nat
  PROVE  /\ \A r \in Role : Message(id, r) \in Msg
         /\ \A p \in Input : User(id, p) \in Msg
         /\ Answer(id) \in Msg
         /\ \A n \in Nat : Calling(id, n) \in Msg
         /\ \A c \in Call : Response(id, c) \in Msg
<1>1. ASSUME NEW r \in Role PROVE Message(id, r) \in Msg
  <2>1. <<>> \in Seq(Call) /\ NoCall \in Call /\ NoInput \in Input
    BY EmptySeq DEF NoCall, Call, NoInput, Input, HistoryAssumption
  <2> QED BY <2>1 DEF Message, Msg
<1>2. "user" \in Role /\ "assistant" \in Role /\ "tool" \in Role
  BY DEF Role
<1>3. ASSUME NEW p \in Input PROVE User(id, p) \in Msg
  <2>1. Message(id, "user") \in Msg
    BY <1>1, <1>2
  <2> QED BY <2>1, Zenon DEF User, Msg
<1>4. Answer(id) \in Msg
  <2>1. Message(id, "assistant") \in Msg
    BY <1>1, <1>2
  <2> QED BY <2>1, Zenon DEF Answer, Msg
<1>5. ASSUME NEW n \in Nat PROVE Calling(id, n) \in Msg
  <2>1. Message(id, "assistant") \in Msg
    BY <1>1, <1>2
  <2>2. [k \in 1..n |-> <<id, k>>] \in Seq(Call)
    <3>1. \A k \in 1..n : <<id, k>> \in Call
      BY DEF Call
    <3> QED BY <3>1, IsASeq
  <2> QED BY <2>1, <2>2, Zenon DEF Calling, Msg
<1>6. ASSUME NEW c \in Call PROVE Response(id, c) \in Msg
  <2>1. Message(id, "tool") \in Msg
    BY <1>1, <1>2
  <2> QED BY <2>1, Zenon DEF Response, Msg
<1> QED BY <1>1, <1>3, <1>4, <1>5, <1>6

\* What the kinds of messages look like.
LEMMA MessageKinds ==
  ASSUME NEW id \in Nat
  PROVE  /\ \A r : LET m == Message(id, r) IN m.id = id /\ m.role = r /\ m.calls = <<>>
         /\ \A p : LET m == User(id, p)
                   IN  m.id = id /\ m.role = "user" /\ m.calls = <<>>
         /\ LET m == Answer(id) IN m.id = id /\ m.role = "assistant" /\ m.calls = <<>>
         /\ \A n \in Nat : LET m == Calling(id, n)
                           IN  /\ m.id = id /\ m.role = "assistant"
                               /\ m.calls = [k \in 1..n |-> <<id, k>>]
         /\ \A c : LET m == Response(id, c)
                   IN  m.id = id /\ m.role = "tool" /\ m.calls = <<>> /\ m.call = c
BY Zenon DEF Message, User, Answer, Calling, Response

\* Pruning a call changes only the calls.
LEMMA PruneFacts ==
  ASSUME NEW m \in Msg, NEW c
  PROVE  /\ Prune(m, c) \in Msg
         /\ Prune(m, c).id = m.id /\ Prune(m, c).role = m.role /\ Prune(m, c).call = m.call
         /\ Prune(m, c).calls = Without(m.calls, {n \in DOMAIN m.calls : m.calls[n] = c})
         /\ Prune(m, c).calls \in Seq(Call)
<1>1. m.calls \in Seq(Call)
  BY Zenon DEF Msg
<1> DEFINE C == m.calls
           D == {n \in DOMAIN m.calls : m.calls[n] = c}
           w == Without(C, D)
<1>2. w \in Seq(Call)
  <2>1. C \in Seq(Call)
    BY <1>1
  <2> HIDE DEF C, D
  <2> QED BY <2>1, WithoutFacts
<1>3. Prune(m, c) = [m EXCEPT !.calls = w]
  BY DEF Prune
<1> HIDE DEF w
<1>4. [m EXCEPT !.calls = w] \in Msg
  BY <1>2, Zenon DEF Msg
<1>5. /\ Prune(m, c).id = m.id /\ Prune(m, c).role = m.role /\ Prune(m, c).call = m.call
      /\ Prune(m, c).calls = w
  BY <1>3, Zenon DEF Msg
<1> QED BY <1>2, <1>3, <1>4, <1>5 DEF w

\* What an undo gives back is an input.
LEMMA PromptOfType ==
  ASSUME HistoryAssumption, NEW h \in Seq(Msg)
  PROVE  PromptOf(h) \in Input
<1> DEFINE K == Places(h, "user")
<1>1. CASE K = {}
  BY <1>1 DEF PromptOf, NoInput, Input, HistoryAssumption
<1>2. CASE K # {}
  <2>1. Len(h) \in Nat /\ DOMAIN h = 1..Len(h) /\ \A i \in 1..Len(h) : h[i].prompt \in Input
    BY MsgFacts
  <2>2. K \in SUBSET (1..Len(h))
    BY <2>1 DEF Places
  <2> HIDE DEF K
  <2>3. \E k \in K : \A j \in K : j >= k
    BY <1>2, <2>1, <2>2, IntervalExtremes, 1 \in Nat
  <2>4. \E k \in K : \A j \in K : k <= j
    BY <2>1, <2>2, <2>3
  <2>5. Min(K) \in K
    BY <2>4 DEF Min
  <2>6. PromptOf(h) = h[Min(K)].prompt
    BY <1>2 DEF PromptOf, K
  <2> QED BY <2>1, <2>2, <2>5, <2>6
<1> QED BY <1>1, <1>2

\* A segment begins with a prompt and ends before the next.
LEMMA SegmentFacts ==
  ASSUME history \in Seq(Msg), NEW i \in DOMAIN history, \E s \in 1..i : Is(history[s], "user")
  PROVE  /\ SegmentStart(i) \in 1..i /\ Is(history[SegmentStart(i)], "user")
         /\ SegmentEnd(i) \in i..Len(history)
         /\ SegmentEnd(i) = Len(history) \/ Is(history[SegmentEnd(i) + 1], "user")
<1>1. Len(history) \in Nat /\ i \in Nat /\ 1 =< i /\ i =< Len(history)
  BY MsgFacts
<1>2. \E s \in 1..i : Is(history[s], "user") /\ \A k \in (s + 1)..i : ~Is(history[k], "user")
  <2> DEFINE K == {s \in 1..i : Is(history[s], "user")}
  <2>1. K \in SUBSET (1..i) /\ K # {}
    OBVIOUS
  <2>2. \A k \in 1..i : k \in K <=> Is(history[k], "user")
    OBVIOUS
  <2> HIDE DEF K
  <2>3. PICK s \in K : \A j \in K : j =< s
    BY <1>1, <2>1, IntervalExtremes, 1 \in Nat
  <2>4. \A k \in (s + 1)..i : ~Is(history[k], "user")
    BY <1>1, <2>1, <2>2, <2>3
  <2> QED BY <2>1, <2>2, <2>3, <2>4
<1>3. \E e \in i..Len(history) :
        /\ \A k \in (i + 1)..e : ~Is(history[k], "user")
        /\ e = Len(history) \/ Is(history[e + 1], "user")
  <2> DEFINE K == {e \in i..Len(history) : e = Len(history) \/ Is(history[e + 1], "user")}
  <2>1. K \in SUBSET (i..Len(history)) /\ K # {}
    BY <1>1
  <2>2. \A e \in i..Len(history) : e \in K <=> (e = Len(history) \/ Is(history[e + 1], "user"))
    OBVIOUS
  <2> HIDE DEF K
  <2>3. PICK e \in K : \A j \in K : j >= e
    BY <1>1, <2>1, IntervalExtremes
  <2>4. ASSUME NEW k \in (i + 1)..e PROVE ~Is(history[k], "user")
    <3>1. e \in i..Len(history) /\ k - 1 \in i..Len(history) /\ (k - 1) + 1 = k /\ ~(k - 1 >= e)
      BY <1>1, <2>1
    <3> QED BY <2>2, <2>3, <3>1
  <2> QED BY <2>1, <2>2, <2>3, <2>4
<1> QED BY <1>2, <1>3 DEF SegmentStart, SegmentEnd

\* The identities of a conversation, in order.
LEMMA IdsOfType ==
  ASSUME NEW h \in Seq(Msg)
  PROVE  /\ IdsOf(h) \in Seq(Nat) /\ Len(IdsOf(h)) = Len(h)
         /\ \A n \in 1..Len(h) : IdsOf(h)[n] = h[n].id
<1>1. Len(h) \in Nat /\ DOMAIN h = 1..Len(h) /\ \A i \in 1..Len(h) : h[i].id \in Nat
  BY MsgFacts
<1> DEFINE N == Len(h)
           e(n) == h[n].id
<1> HIDE DEF N, e
<1>2. N \in Nat /\ \A n \in 1..N : e(n) \in Nat
  BY <1>1 DEF N, e
<1>3. [n \in 1..N |-> e(n)] \in Seq(Nat)
  BY <1>2, IsASeq
<1>4. IdsOf(h) = [n \in 1..N |-> e(n)]
  BY <1>1 DEF IdsOf, N, e
<1>5. IdsOf(h) \in Seq(Nat) /\ DOMAIN IdsOf(h) = 1..N
  BY <1>3, <1>4
<1>6. Len(IdsOf(h)) = N
  BY <1>2, <1>5, LenProperties
<1> QED BY <1>4, <1>5, <1>6 DEF N, e

\* Taking out makes a bundle that says what was there before and after.
LEMMA TypeTakeOut ==
  ASSUME TypeOK, NEW a \in Nat \ {0}, NEW b \in Nat, NEW at \in Nat \cup {AtTail},
         a =< b + 1, b =< Len(history), TakeOut(a, b, at), HistoryAssumption
  PROVE  /\ history' \in Seq(Msg) /\ redoStack' \in Seq(Bundle)
         /\ turnCount' \in Nat /\ interrupted' \in Input
         /\ \E c \in Bundle :
              /\ redoStack' = Append(redoStack, c)
              /\ c.popped = SubSeq(history, a, b) /\ c.at = at
              /\ c.before = <<IdsOf(history), turnCount>>
              /\ c.after[1] = IdsOf(history') /\ c.after[2] + c.delta = turnCount
<1> DEFINE popped == SubSeq(history, a, b)
           delta  == IF HasProse(popped) /\ turnCount > 0 THEN 1 ELSE 0
           bundle == [popped |-> popped, delta |-> delta, at |-> at, before |-> Seen, after |-> Seen']
<1>1. /\ history' = Upto(history, a - 1) \o From(history, b + 1)
      /\ turnCount' = turnCount - delta
      /\ redoStack' = Append(redoStack, bundle)
      /\ interrupted' = NoInput
  BY DEF TakeOut
<1>2. history \in Seq(Msg) /\ redoStack \in Seq(Bundle) /\ turnCount \in Nat
  BY DEF TypeOK
<1>3. history' \in Seq(Msg) /\ popped \in Seq(Msg)
  BY <1>1, <1>2, CutPlaces
<1>4. turnCount' \in Nat /\ delta \in {0, 1}
  <2> HIDE DEF popped
  <2> QED BY <1>1, <1>2
<1>5. Seen \in Seq(Nat) \X Nat
  BY <1>2, IdsOfType DEF Seen
<1>6. Seen' \in Seq(Nat) \X Nat
  <2>1. IdsOf(history') \in Seq(Nat)
    BY <1>3, IdsOfType
  <2> QED BY <1>4, <2>1 DEF Seen
<1> HIDE DEF popped, delta
<1>7. bundle \in Bundle
  BY <1>3, <1>4, <1>5, <1>6 DEF Bundle
<1>10. /\ bundle.popped = popped /\ bundle.at = at /\ bundle.delta = delta
       /\ bundle.before = Seen /\ bundle.after = Seen'
  OBVIOUS
<1> HIDE DEF bundle
<1>11. bundle.popped = SubSeq(history, a, b)
  BY <1>10 DEF popped
<1>12. bundle.before = <<IdsOf(history), turnCount>> /\ bundle.after = <<IdsOf(history'), turnCount'>>
  BY <1>10 DEF Seen
<1>13. bundle.after[1] = IdsOf(history') /\ bundle.after[2] + bundle.delta = turnCount
  <2>1. turnCount' + delta = turnCount
    BY <1>1, <1>2, <1>4
  <2> QED BY <1>10, <1>12, <2>1
<1>8. redoStack' \in Seq(Bundle)
  BY <1>1, <1>2, <1>7, AppendProperties
<1>9. interrupted' \in Input
  BY <1>1 DEF NoInput, Input, HistoryAssumption
<1> QED BY <1>1, <1>3, <1>4, <1>7, <1>8, <1>9, <1>10, <1>11, <1>12, <1>13

\* The default range of an undo lies within the history.
LEMMA TypeRecovered ==
  ASSUME HistoryAssumption, TypeOK
  PROVE  /\ Left(history) \in 0..Len(history) /\ Left(history) + 1 \in Nat \ {0}
         /\ Len(history) \in Nat /\ Recovered \in Input
<1>1. history \in Seq(Msg) /\ interrupted \in Input
  BY DEF TypeOK
<1>2. Len(history) \in Nat /\ Left(history) \in 0..Len(history)
  BY <1>1, LeftFacts, MsgFacts
<1>3. From(history, Left(history) + 1) \in Seq(Msg)
  <2> DEFINE n == Left(history) + 1
  <2>1. n \in Nat \ {0} /\ n =< Len(history) + 1
    BY <1>2
  <2> HIDE DEF n
  <2>2. SubSeq(history, n, Len(history)) \in Seq(Msg)
    BY <1>1, <1>2, <2>1, CutPlaces
  <2> QED BY <2>2 DEF From, n
<1>4. PromptOf(From(history, Left(history) + 1)) \in Input
  BY <1>3, PromptOfType
<1>5. Recovered \in Input
  BY <1>1, <1>4 DEF Recovered
<1> QED BY <1>2, <1>5

\* The changes a turn goes through keep its type.
LEMMA TypeTurn ==
  ASSUME TypeOK, HistoryAssumption
  PROVE  /\ NoTurn \in Turn
         /\ [turn EXCEPT !.aborted = TRUE] \in Turn
         /\ \A p \in {"model", "again"} : [turn EXCEPT !.phase = p] \in Turn
         /\ \A t \in Turn : [t EXCEPT !.phase = "model", !.loops = @ + 1] \in Turn
         /\ \A q \in Input : /\ [NoTurn EXCEPT !.input = q] \in Turn
                             /\ [[NoTurn EXCEPT !.input = q] EXCEPT !.phase = "precalls"] \in Turn
         /\ \A c \in Seq(Call) : [turn EXCEPT !.calls = c] \in Turn
<1>1. <<>> \in Seq(Call) /\ NoCall \in Call /\ NoInput \in Input
  BY EmptySeq DEF NoCall, Call, NoInput, Input, HistoryAssumption
<1>2. NoTurn \in Turn
  BY <1>1 DEF NoTurn, Turn
<1>3. turn \in Turn
  BY DEF TypeOK
<1>4. \A t \in Turn : t.loops \in Nat
  BY DEF Turn
<1>5. \A t \in Turn, l \in Nat : [t EXCEPT !.phase = "model", !.loops = l] \in Turn
  BY DEF Turn
<1>6. ASSUME NEW t \in Turn PROVE [t EXCEPT !.phase = "model", !.loops = @ + 1] \in Turn
  <2>1. t.loops + 1 \in Nat
    BY <1>4
  <2> QED BY <1>5, <2>1
<1>7. \A t \in Turn : [t EXCEPT !.aborted = TRUE] \in Turn
  BY DEF Turn
<1>8. \A t \in Turn, p \in {"model", "again", "precalls"} : [t EXCEPT !.phase = p] \in Turn
  BY DEF Turn
<1>9. \A t \in Turn, q \in Input : [t EXCEPT !.input = q] \in Turn
  BY DEF Turn
<1>10. \A t \in Turn, c \in Seq(Call) : [t EXCEPT !.calls = c] \in Turn
  BY DEF Turn
<1> QED BY <1>2, <1>3, <1>6, <1>7, <1>8, <1>9, <1>10

\* A turn that begins to execute the calls of an answer is a turn.
LEMMA TypeExecuting ==
  ASSUME NEW t \in Turn, NEW i \in Nat, NEW c \in Seq(Call), NEW d \in Call
  PROVE  [t EXCEPT !.phase = "tool", !.msg = i, !.calls = c, !.at = 1, !.call = d] \in Turn
BY DEF Turn

\* The retries under way stay retries.
LEMMA TypeRetries ==
  ASSUME TypeOK
  PROVE  /\ Spoiled \in Seq(Retry)
         /\ retries # <<>> => Tail(Spoiled) \in Seq(Retry)
         /\ \A b \in BOOLEAN : Append(Spoiled, [input |-> turn.input, own |-> b]) \in Seq(Retry)
<1>1. retries \in Seq(Retry)
  BY DEF TypeOK
<1>2. Len(retries) \in Nat /\ DOMAIN retries = 1..Len(retries) /\ \A i \in 1..Len(retries) : retries[i] \in Retry
  BY <1>1, ElementOfSeq, LenProperties
<1> DEFINE N == Len(retries)
           e(n) == [retries[n] EXCEPT !.own = FALSE]
<1>3. \A i \in 1..N : e(i) \in Retry
  BY <1>2 DEF Retry
<1>4. Spoiled = [i \in 1..N |-> e(i)]
  BY <1>2 DEF Spoiled
<1> HIDE DEF N, e
<1>5. Spoiled \in Seq(Retry)
  BY <1>2, <1>3, <1>4, IsASeq DEF N
<1>6. retries # <<>> => Tail(Spoiled) \in Seq(Retry)
  <2>1. ASSUME retries # <<>> PROVE Spoiled # <<>>
    <3>1. Len(retries) # 0
      BY <1>1, <2>1, EmptySeq
    <3>2. DOMAIN Spoiled = 1..N /\ 1 \in 1..N
      BY <1>2, <1>4, <3>1 DEF N
    <3>3. DOMAIN Spoiled = 1..Len(Spoiled)
      BY <1>5, LenProperties
    <3>4. Len(<<>>) = 0 /\ 1 \notin 1..0
      OBVIOUS
    <3>5. Spoiled = <<>> => FALSE
      BY <3>2, <3>3, <3>4
    <3> QED BY <3>5
  <2> QED BY <1>5, <2>1, HeadTailProperties
<1>7. turn.input \in Input
  BY DEF TypeOK, Turn
<1>8. \A b \in BOOLEAN : [input |-> turn.input, own |-> b] \in Retry
  BY <1>7 DEF Retry
<1> QED BY <1>5, <1>6, <1>8, AppendProperties

\* What a turn and a retry do to the types of what they change.
LEMMA TypeSay ==
  ASSUME TypeOK, NEW ms \in Seq(Msg), Say(ms)
  PROVE  history' \in Seq(Msg) /\ minted' \in Nat
<1>1. history \in Seq(Msg) /\ minted \in Nat
  BY DEF TypeOK
<1>2. Len(ms) \in Nat
  BY LenProperties
<1> QED BY <1>1, <1>2, ConcatProperties DEF Say

\* An undo keeps the types of what it writes.
LEMMA TypeUndoTail ==
  ASSUME HistoryAssumption, TypeOK, UndoTail
  PROVE  /\ history' \in Seq(Msg) /\ redoStack' \in Seq(Bundle)
         /\ turnCount' \in Nat /\ interrupted' \in Input
         /\ state' \in {"idle", "running", "canceling", "errored"} /\ turn' \in Turn
<1>1. state' \in {"idle", "running", "canceling", "errored"} /\ turn' \in Turn
  <2>1. [turn EXCEPT !.aborted = TRUE] \in Turn
    BY TypeTurn
  <2> QED BY <2>1 DEF UndoTail, StopTurn, TypeOK
<1>2. CASE interrupted' = NoInput /\ UNCHANGED <<history, redoStack, turnCount>>
  BY <1>1, <1>2 DEF TypeOK, NoInput, Input, HistoryAssumption
<1>3. CASE TakeOut(Left(history) + 1, Len(history), AtTail)
  <2>1. /\ Left(history) \in 0..Len(history) /\ Left(history) + 1 \in Nat \ {0}
        /\ Len(history) \in Nat
    BY TypeRecovered
  <2>2. Left(history) + 1 =< Len(history) + 1 /\ Len(history) =< Len(history)
    BY <2>1
  <2>3. AtTail \in Nat \cup {AtTail}
    OBVIOUS
  <2> DEFINE a == Left(history) + 1
             b == Len(history)
  <2> HIDE DEF a, b
  <2>4. a \in Nat \ {0} /\ b \in Nat /\ a =< b + 1 /\ b =< Len(history) /\ TakeOut(a, b, AtTail)
    BY <1>3, <2>1, <2>2 DEF a, b
  <2> QED BY <1>1, <2>3, <2>4, TypeTakeOut
<1> QED BY <1>2, <1>3 DEF UndoTail

\* A retry keeps the types of what it writes.
LEMMA TypeRetryNow ==
  ASSUME HistoryAssumption, TypeOK, RetryNow
  PROVE  /\ history' \in Seq(Msg) /\ redoStack' \in Seq(Bundle)
         /\ turnCount' \in Nat /\ interrupted' \in Input
         /\ state' \in {"idle", "running", "canceling", "errored"} /\ turn' \in Turn
         /\ queue' \in Seq(Input) /\ gone' \subseteq Nat
<1>0. /\ NoInput \in Input /\ interrupted \in Input /\ history \in Seq(Msg)
      /\ queue \in Seq(Input) /\ gone \subseteq Nat
  BY DEF TypeOK, NoInput, Input, HistoryAssumption
<1>1. \A p \in Input : Append(queue, p) \in Seq(Input)
  BY <1>0, AppendProperties
<1>2. CASE ResendPrompt
  <2>1. history # <<>>
    BY <1>2 DEF ResendPrompt, LastMessage, Message, Is
  <2>2. LastMessage \in Msg /\ LastMessage = history[Len(history)] /\ Len(history) \in Nat \ {0}
    BY <1>0, <2>1, FrontAsCut, MsgFacts DEF LastMessage
  <2>3. LastMessage.prompt \in Input /\ LastMessage.id \in Nat
    BY <2>2, Zenon DEF Msg
  <2>4. history' \in Seq(Msg)
    <3> DEFINE a == Len(history)
    <3>1. a \in Nat \ {0} /\ a \in Nat /\ a =< a + 1 /\ a =< Len(history)
      BY <2>2
    <3>2. Front(history) = Upto(history, a - 1) \o From(history, a + 1)
      BY <1>0, <2>1, FrontAsCut
    <3> HIDE DEF a
    <3>3. Upto(history, a - 1) \o From(history, a + 1) \in Seq(Msg)
      BY <1>0, <3>1, CutPlaces
    <3> QED BY <1>2, <3>2, <3>3 DEF ResendPrompt
  <2> QED BY <1>0, <1>1, <1>2, <2>3, <2>4 DEF ResendPrompt, Resend, TypeOK
<1>3. CASE Resume
  BY <1>0, <1>1, <1>3 DEF Resume, Resend, TypeOK
<1>4. CASE ResendUndone
  <2>1. Recovered \in Input
    BY TypeRecovered
  <2>2. UndoTail /\ queue' = Append(queue, Recovered) /\ gone' = gone
    BY <1>4 DEF ResendUndone, Resend
  <2> QED BY <1>0, <1>1, <2>1, <2>2, TypeUndoTail
<1>5. CASE ResendInterrupted
  BY <1>0, <1>1, <1>5 DEF ResendInterrupted, Resend, TypeOK
<1> QED BY <1>2, <1>3, <1>4, <1>5 DEF RetryNow

\* Every step keeps the types.
LEMMA TypeStep ==
  ASSUME HistoryAssumption, TypeOK, [Next]_vars
  PROVE  TypeOK'
<1>0. /\ history \in Seq(Msg) /\ redoStack \in Seq(Bundle) /\ queue \in Seq(Input)
      /\ minted \in Nat /\ asked \in Input /\ ops \in Nat /\ turnCount \in Nat
      /\ gone \subseteq Nat /\ interrupted \in Input /\ turn \in Turn /\ retries \in Seq(Retry)
      /\ disturbed \in BOOLEAN /\ state \in {"idle", "running", "canceling", "errored"}
      /\ NoInput \in Input /\ turn.input \in Input /\ MaxPrompts \in Nat
  BY DEF TypeOK, NoInput, Input, HistoryAssumption, Turn
<1>1. CASE Submit
  <2>1. asked + 1 \in Input
    BY <1>0, <1>1 DEF Submit, Input
  <2>2. Append(queue, asked + 1) \in Seq(Input)
    BY <1>0, <2>1, AppendProperties
  <2> QED BY <1>0, <1>1, <2>1, <2>2 DEF Submit, TypeOK, record, traces
<1>2. CASE StartTurn
  <2> DEFINE new == [NoTurn EXCEPT !.input = Head(queue)]
             ms  == IF new.input = NoInput THEN <<>> ELSE <<User(minted + 1, new.input)>>
  <2>1. Head(queue) \in Input /\ Tail(queue) \in Seq(Input)
    BY <1>0, <1>2, HeadTailProperties DEF StartTurn
  <2>2. new \in Turn /\ new.input \in Input
    BY <2>1, TypeTurn DEF NoTurn
  <2>3. ms \in Seq(Msg)
    <3>1. User(minted + 1, new.input) \in Msg
      <4> HIDE DEF new
      <4>1. minted + 1 \in Nat
        BY <1>0
      <4> QED BY <2>2, <4>1, MessageTypes
    <3>2. <<>> \in Seq(Msg) /\ <<User(minted + 1, new.input)>> \in Seq(Msg)
      BY <3>1, EmptySeq
    <3> HIDE DEF new
    <3> QED BY <3>2
  <2>4. Say(ms)
    BY <1>2 DEF StartTurn
  <2>5. turn' \in Turn
    BY <1>2, <2>1, <2>2, TypeTurn DEF StartTurn, Send
  <2>6. gone' \subseteq Nat
    <3>1. \A i \in DOMAIN redoStack : Ids(redoStack[i].popped) \subseteq Nat
      <4>1. ASSUME NEW i \in DOMAIN redoStack PROVE Ids(redoStack[i].popped) \subseteq Nat
        <5>1. redoStack[i].popped \in Seq(Msg)
          BY <1>0, BundleFacts
        <5> QED BY <5>1, MsgFacts DEF Ids
      <4> QED BY <4>1
    <3>2. Bundled \subseteq Nat
      BY <3>1 DEF Bundled
    <3> QED BY <1>0, <1>2, <3>2 DEF StartTurn
  <2>7. <<>> \in Seq(Bundle)
    BY EmptySeq
  <2>8. history' \in Seq(Msg) /\ minted' \in Nat
    <3> HIDE DEF ms
    <3> QED BY <2>3, <2>4, TypeSay
  <2>9. retries' \in Seq(Retry)
    BY <1>2, TypeRetries DEF StartTurn
  <2>10. /\ queue' \in Seq(Input) /\ redoStack' \in Seq(Bundle) /\ state' = "running"
         /\ UNCHANGED <<turnCount, interrupted, asked, disturbed, ops>>
    BY <1>2, <2>1, <2>7 DEF StartTurn
  <2> QED BY <1>0, <2>5, <2>6, <2>8, <2>9, <2>10 DEF TypeOK
<1>3. CASE PrecallsReturn
  <2> DEFINE ast == Calling(minted + 1, 1)
             ms  == <<ast, Response(minted + 2, ast.calls[1])>>
  <2>1. ms \in Seq(Msg)
    <3>1. minted + 1 \in Nat /\ minted + 2 \in Nat
      BY <1>0
    <3>2. ast \in Msg /\ ast.calls = [k \in 1..1 |-> <<minted + 1, k>>]
      <4>1. \A n \in Nat : LET m == Calling(minted + 1, n)
                           IN  m \in Msg /\ m.calls = [k \in 1..n |-> <<minted + 1, k>>]
        BY <3>1, MessageTypes, MessageKinds
      <4> QED BY <4>1, 1 \in Nat
    <3>3. ast.calls[1] \in Call
      <4> HIDE DEF ast
      <4> QED BY <3>1, <3>2 DEF Call
    <3> HIDE DEF ast
    <3>4. Response(minted + 2, ast.calls[1]) \in Msg
      BY <3>1, <3>3, MessageTypes
    <3> QED BY <3>2, <3>4
  <2>2. Say(ms)
    BY <1>3 DEF PrecallsReturn
  <2>3. turn' \in Turn
    BY <1>0, <1>3, TypeTurn DEF PrecallsReturn, Cancelled, Send
  <2>4. /\ state' \in {"idle", "running", "canceling", "errored"} /\ interrupted' \in Input
        /\ turnCount' = turnCount
        /\ UNCHANGED <<redoStack, queue, retries, asked, traces, ops>>
    BY <1>0, <1>3 DEF PrecallsReturn, Cancelled
  <2>5. history' \in Seq(Msg) /\ minted' \in Nat
    <3> HIDE DEF ms
    <3> QED BY <2>1, <2>2, TypeSay
  <2> QED BY <1>0, <2>3, <2>4, <2>5 DEF TypeOK, traces
<1>4. CASE ModelAnswers
  <2>0. UNCHANGED <<redoStack, queue, retries, asked, traces, ops>>
    BY <1>4 DEF ModelAnswers
  <2>1. CASE Say(<<Answer(minted + 1)>>) /\ Completed
    <3>1. <<Answer(minted + 1)>> \in Seq(Msg)
      BY <1>0, MessageTypes
    <3>2. history' \in Seq(Msg) /\ minted' \in Nat
      BY <2>1, <3>1, TypeSay
    <3>3. NoTurn \in Turn
      BY TypeTurn
    <3>4. state' = "idle" /\ interrupted' = NoInput /\ turn' = NoTurn /\ turnCount' = turnCount + 1
      BY <2>1 DEF Completed
    <3> QED BY <1>0, <2>0, <3>2, <3>3, <3>4 DEF TypeOK, traces
  <2>2. CASE \E n \in {c \in 1..MaxCalls : minted + c < MaxMinted} :
               LET ast == Calling(minted + 1, n)
               IN  /\ Say(<<ast>>)
                   /\ turn' = [turn EXCEPT !.phase = "tool", !.msg = ast.id, !.calls = ast.calls,
                                           !.at = 1, !.call = ast.calls[1]]
                   /\ UNCHANGED <<state, interrupted, turnCount>>
    <3> PICK n \in 1..MaxCalls :
               LET ast == Calling(minted + 1, n)
               IN  /\ Say(<<ast>>)
                   /\ turn' = [turn EXCEPT !.phase = "tool", !.msg = ast.id, !.calls = ast.calls,
                                           !.at = 1, !.call = ast.calls[1]]
                   /\ UNCHANGED <<state, interrupted, turnCount>>
      BY <2>2
    <3> DEFINE ast == Calling(minted + 1, n)
    <3>1. n \in Nat /\ 1 \in 1..n /\ minted + 1 \in Nat
      BY <1>0 DEF HistoryAssumption
    <3>2. ast \in Msg /\ ast.id = minted + 1 /\ ast.calls = [k \in 1..n |-> <<minted + 1, k>>]
      BY <3>1, MessageTypes, MessageKinds
    <3>3. ast.calls \in Seq(Call) /\ ast.calls[1] \in Call
      <4>1. ast.calls \in Seq(Call)
        BY <3>2, Zenon DEF Msg
      <4>2. ast.calls[1] = <<minted + 1, 1>>
        BY <3>1, <3>2
      <4>3. <<minted + 1, 1>> \in Call
        BY <3>1 DEF Call
      <4> QED BY <4>1, <4>2, <4>3
    <3> HIDE DEF ast
    <3>4. Say(<<ast>>) /\ <<ast>> \in Seq(Msg)
      BY <3>2 DEF ast
    <3>5. history' \in Seq(Msg) /\ minted' \in Nat
      BY <3>4, TypeSay
    <3>6. turn' \in Turn
      <4>1. turn' = [turn EXCEPT !.phase = "tool", !.msg = ast.id, !.calls = ast.calls,
                                 !.at = 1, !.call = ast.calls[1]]
        BY DEF ast
      <4> DEFINE c == ast.calls
                 d == ast.calls[1]
                 i == ast.id
      <4>2. c \in Seq(Call) /\ d \in Call /\ i \in Nat
        BY <3>1, <3>2, <3>3
      <4>3. turn' = [turn EXCEPT !.phase = "tool", !.msg = i, !.calls = c, !.at = 1, !.call = d]
        BY <4>1
      <4> HIDE DEF c, d, i
      <4>4. turn \in Turn
        BY <1>0
      <4>5. [turn EXCEPT !.phase = "tool", !.msg = i, !.calls = c, !.at = 1, !.call = d] \in Turn
        BY <4>2, <4>4, TypeExecuting
      <4> QED BY <4>3, <4>5, Zenon
    <3> QED BY <1>0, <2>0, <3>5, <3>6 DEF TypeOK, traces
  <2> QED BY <1>4, <2>1, <2>2 DEF ModelAnswers
<1>5. CASE ModelFails
  BY <1>0, <1>5, TypeTurn DEF ModelFails, Errored, TypeOK, traces
<1>6. CASE ToolReturns
  <2>1. turn.call \in Call /\ turn.calls \in Seq(Call) /\ turn.at \in Nat
    BY <1>0 DEF Turn
  <2>2. <<Response(minted + 1, turn.call)>> \in Seq(Msg)
    BY <1>0, <2>1, MessageTypes
  <2>3. Say(<<Response(minted + 1, turn.call)>>)
    BY <1>6 DEF ToolReturns
  <2>4. history' \in Seq(Msg) /\ minted' \in Nat
    BY <2>2, <2>3, TypeSay
  <2>5. turn' \in Turn
    <3>1. CASE turn.at < Len(turn.calls)
      <4>1. turn.at + 1 \in 1..Len(turn.calls) /\ turn.at + 1 \in Nat
        BY <2>1, <3>1, LenProperties
      <4>2. turn.calls[turn.at + 1] \in Call
        BY <2>1, <4>1, ElementOfSeq
      <4>3. turn' = [turn EXCEPT !.at = turn.at + 1, !.call = turn.calls[turn.at + 1]]
        BY <1>6, <3>1 DEF ToolReturns
      <4>4. \A n \in Nat, c \in Call : [turn EXCEPT !.at = n, !.call = c] \in Turn
        BY <1>0 DEF Turn
      <4> QED BY <4>1, <4>2, <4>3, <4>4
    <3>2. CASE ~(turn.at < Len(turn.calls))
      BY <1>6, <3>2, TypeTurn DEF ToolReturns
    <3> QED BY <3>1, <3>2
  <2> QED BY <1>0, <1>6, <2>4, <2>5 DEF ToolReturns, TypeOK, traces
<1>7. CASE Again
  BY <1>0, <1>7, TypeTurn DEF Again, Send, Errored, TypeOK, traces
<1>8. CASE Unwind
  BY <1>0, <1>8, TypeTurn DEF Unwind, Cancelled, TypeOK, traces
<1>9. CASE Cancel
  <2>1. [turn EXCEPT !.aborted = TRUE] \in Turn
    BY TypeTurn
  <2>2. /\ ops' = ops + 1 /\ state' = "canceling" /\ turn' = [turn EXCEPT !.aborted = TRUE]
        /\ UNCHANGED <<record, queue, retries, asked, minted, traces>>
    BY <1>9 DEF Cancel, Op
  <2> QED BY <1>0, <2>1, <2>2 DEF TypeOK, record, traces
<1>10. CASE Undo
  <2>1. UndoTail /\ retries' = Spoiled /\ ops' = ops + 1 /\ UNCHANGED <<queue, asked, minted, traces>>
    BY <1>10 DEF Undo, Op
  <2> QED BY <1>0, <2>1, TypeUndoTail, TypeRetries DEF TypeOK, traces
<1>11. CASE Redo
  <2> DEFINE b  == Last(redoStack)
             at == IF b.at = AtTail \/ b.at > Len(history) THEN Len(history) ELSE b.at
  <2>1. /\ b \in Bundle /\ b.popped \in Seq(Msg) /\ b.delta \in {0, 1} /\ b.at \in Nat \cup {AtTail}
        /\ Front(redoStack) \in Seq(Bundle)
    <3>1. redoStack # <<>>
      BY <1>11 DEF Redo
    <3>2. /\ Front(redoStack) \in Seq(Bundle) /\ b = redoStack[Len(redoStack)]
          /\ Len(redoStack) \in DOMAIN redoStack /\ DOMAIN redoStack = 1..Len(redoStack)
      BY <1>0, <3>1, PopFacts, BundleFacts
    <3> HIDE DEF b
    <3>3. \A i \in 1..Len(redoStack) :
            /\ redoStack[i] \in Bundle /\ redoStack[i].popped \in Seq(Msg)
            /\ redoStack[i].delta \in {0, 1} /\ redoStack[i].at \in Nat \cup {AtTail}
      BY <1>0, BundleFacts
    <3> QED BY <3>2, <3>3
  <2>2. /\ history' = Upto(history, at) \o b.popped \o From(history, at + 1)
        /\ turnCount' = turnCount + b.delta
        /\ disturbed' \in BOOLEAN
        /\ redoStack' = Front(redoStack) /\ retries' = Spoiled /\ ops' = ops + 1
        /\ UNCHANGED <<interrupted, state, queue, turn, asked, minted, gone>>
    BY <1>0, <1>11 DEF Redo, PutBack, Op
  <2> HIDE DEF b
  <2>3. at \in 0..Len(history)
    BY <1>0, <2>1, MsgFacts DEF AtTail
  <2>4. history' \in Seq(Msg)
    <3> HIDE DEF at
    <3> QED BY <1>0, <2>1, <2>2, <2>3, PasteFacts
  <2>5. turnCount' \in Nat
    BY <1>0, <2>1, <2>2
  <2> QED BY <1>0, <2>1, <2>2, <2>4, <2>5, TypeRetries DEF TypeOK
<1>12. CASE RetryRunning
  <2>1. \A b \in BOOLEAN : Append(Spoiled, [input |-> turn.input, own |-> b]) \in Seq(Retry)
    BY TypeRetries
  <2>2. InPlace(turn.input) \in BOOLEAN
    BY DEF InPlace
  <2>3. retries' \in Seq(Retry)
    BY <1>12, <2>1, <2>2 DEF RetryRunning
  <2>4. [turn EXCEPT !.aborted = TRUE] \in Turn
    BY TypeTurn
  <2>5. /\ state' = "canceling" /\ turn' = [turn EXCEPT !.aborted = TRUE] /\ ops' = ops + 1
        /\ UNCHANGED <<history, redoStack, turnCount, interrupted, queue, asked, minted,
                       gone, disturbed>>
    BY <1>12 DEF RetryRunning, Op, record, traces
  <2> QED BY <1>0, <2>3, <2>4, <2>5 DEF TypeOK
<1>13. CASE RetryIdle
  BY <1>0, <1>13, TypeRetryNow, TypeRetries DEF RetryIdle, Op, TypeOK
<1>14. CASE RetryResumes
  BY <1>0, <1>14, TypeRetryNow, TypeRetries DEF RetryResumes, TypeOK
<1>15. ASSUME NEW i \in DOMAIN history, UndoEarlier(i) PROVE TypeOK'
  <2>1. /\ StopTurn /\ TakeOut(SegmentStart(i), SegmentEnd(i), SegmentStart(i) - 1)
        /\ retries' = Spoiled /\ ops' = ops + 1 /\ UNCHANGED <<queue, asked, minted, traces>>
        /\ \E s \in 1..i : Is(history[s], "user")
    BY <1>15 DEF UndoEarlier, Op
  <2>2. turn' \in Turn /\ state' \in {"idle", "running", "canceling", "errored"}
    BY <1>0, <2>1, TypeTurn DEF StopTurn
  <2> DEFINE a == SegmentStart(i)
             b == SegmentEnd(i)
             at == a - 1
  <2>3. a \in 1..i /\ b \in i..Len(history) /\ i \in 1..Len(history) /\ Len(history) \in Nat
    BY <1>0, <2>1, SegmentFacts, MsgFacts
  <2> HIDE DEF a, b
  <2>4. a \in Nat \ {0} /\ b \in Nat /\ at \in Nat \cup {AtTail} /\ a =< b + 1 /\ b =< Len(history)
    BY <2>3
  <2>5. TakeOut(a, b, at)
    BY <2>1 DEF a, b
  <2> HIDE DEF at
  <2>6. /\ history' \in Seq(Msg) /\ redoStack' \in Seq(Bundle)
        /\ turnCount' \in Nat /\ interrupted' \in Input
    BY <2>4, <2>5, TypeTakeOut
  <2> QED BY <1>0, <2>1, <2>2, <2>6, TypeRetries DEF TypeOK, traces
<1>16. ASSUME NEW i \in DOMAIN history, Delete(i) PROVE TypeOK'
  <2> DEFINE pruned == [j \in DOMAIN history |->
                          IF Is(history[i], "tool") /\ j \in Declarer(i)
                          THEN Prune(history[j], history[i].call) ELSE history[j]]
             C == Cascade(i)
  <2>0. DOMAIN history = 1..Len(history) /\ Len(history) \in Nat /\ \A j \in 1..Len(history) : history[j] \in Msg
    BY <1>0, MsgFacts
  <2>1. pruned \in Seq(Msg)
    <3> DEFINE N == Len(history)
               e(j) == IF Is(history[i], "tool") /\ j \in Declarer(i)
                       THEN Prune(history[j], history[i].call) ELSE history[j]
    <3>1. \A j \in 1..N : e(j) \in Msg
      BY <2>0, PruneFacts
    <3>2. pruned = [j \in 1..N |-> e(j)]
      BY <2>0
    <3> HIDE DEF pruned, e, N
    <3> QED BY <2>0, <3>1, <3>2, IsASeq DEF N
  <2>2. history' = Without(pruned, C)
    BY <1>16 DEF Delete
  <2> HIDE DEF pruned, C
  <2>3. history' \in Seq(Msg)
    BY <2>1, <2>2, WithoutFacts
  <2>4. turn' \in Turn
    <3>1. Prune(turn, history[i].call).calls \in Seq(Call)
      <4> DEFINE c == history[i].call
                 S == turn.calls
                 D == {n \in DOMAIN turn.calls : turn.calls[n] = c}
      <4>1. S \in Seq(Call)
        BY <1>0 DEF Turn
      <4>2. Prune(turn, c).calls = Without(S, D)
        BY <1>0, Zenon DEF Prune, Turn
      <4> HIDE DEF c, S, D
      <4>3. Without(S, D) \in Seq(Call)
        BY <4>1, WithoutFacts
      <4> QED BY <4>2, <4>3 DEF c
    <3>2. \/ turn' = [turn EXCEPT !.calls = Prune(turn, history[i].call).calls]
          \/ turn' = turn
      BY <1>16 DEF Delete
    <3>3. [turn EXCEPT !.calls = Prune(turn, history[i].call).calls] \in Turn
      BY <3>1, TypeTurn
    <3> QED BY <1>0, <3>2, <3>3
  <2>5. gone' \subseteq Nat
    <3>1. C \subseteq 1..Len(history)
      BY <1>0, <2>0 DEF C, Cascade
    <3>2. \A j \in C : history[j].id \in Nat
      BY <1>0, <3>1, MsgFacts
    <3>3. gone' = gone \cup {history[j].id : j \in C}
      BY <1>16 DEF Delete, C
    <3> QED BY <1>0, <3>2, <3>3
  <2>6. /\ disturbed' \in BOOLEAN /\ retries' = Spoiled /\ ops' = ops + 1
        /\ UNCHANGED <<redoStack, turnCount, interrupted, state, queue, asked, minted>>
    BY <1>0, <1>16 DEF Delete, Op, CountedOn
  <2> QED BY <1>0, <2>3, <2>4, <2>5, <2>6, TypeRetries DEF TypeOK
<1>17. CASE UNCHANGED vars
  BY <1>17 DEF vars, record, traces, TypeOK
<1> QED BY <1>1, <1>2, <1>3, <1>4, <1>5, <1>6, <1>7, <1>8, <1>9, <1>10, <1>11, <1>12, <1>13,
           <1>14, <1>15, <1>16, <1>17 DEF Next

-----------------------------------------------------------------------------
(* No message is lost and none is there twice                              *)

\* OncePerMessage as a relation of the history h, the stack s, what is gone, and
\* the number n of messages made.
Once(h, s, g, n) ==
  /\ Distinct(h)
  /\ \A i \in DOMAIN s :
       /\ Distinct(s[i].popped)
       /\ Ids(s[i].popped) \cap Ids(h) = {}
       /\ \A j \in DOMAIN s \ {i} : Ids(s[i].popped) \cap Ids(s[j].popped) = {}
  /\ (Ids(h) \cup BundledIn(s)) \cap g = {}
  /\ Ids(h) \cup BundledIn(s) \cup g = 1..n

\* New messages with new numbers.
LEMMA OnceAdd ==
  ASSUME NEW h \in Seq(Msg), NEW s \in Seq(Bundle), NEW g, NEW n \in Nat, Once(h, s, g, n),
         NEW ms \in Seq(Msg), \A k \in 1..Len(ms) : ms[k].id = n + k
  PROVE  Once(h \o ms, s, g, n + Len(ms))
<1> DEFINE f == h \o ms
<1>1. Len(ms) \in Nat /\ DOMAIN ms = 1..Len(ms)
  BY MsgFacts
<1>2. Distinct(ms)
  BY <1>1 DEF Distinct
<1>3. Ids(ms) = (n + 1)..(n + Len(ms))
  <2>1. \A k \in 1..Len(ms) : ms[k].id \in Ids(ms)
    BY IdsFacts
  <2>2. ASSUME NEW x \in (n + 1)..(n + Len(ms)) PROVE x \in Ids(ms)
    <3>1. x - n \in 1..Len(ms) /\ x = n + (x - n)
      BY <1>1
    <3>2. ms[x - n].id = n + (x - n)
      BY <3>1
    <3> QED BY <2>1, <3>1, <3>2
  <2>3. ASSUME NEW x \in Ids(ms) PROVE x \in (n + 1)..(n + Len(ms))
    <3>1. PICK k \in 1..Len(ms) : x = ms[k].id
      BY IdsFacts
    <3>2. x = n + k
      BY <3>1
    <3> QED BY <1>1, <3>2
  <2> QED BY <2>2, <2>3
<1>4. \A x \in (n + 1)..(n + Len(ms)) : x \notin 1..n
  BY <1>1
<1>5. Ids(h) \subseteq 1..n /\ BundledIn(s) \subseteq 1..n /\ g \subseteq 1..n
  BY DEF Once
<1>6. Ids(h) \cap Ids(ms) = {}
  BY <1>3, <1>4, <1>5
<1>7. Ids(f) = Ids(h) \cup Ids(ms) /\ (Distinct(h) /\ Distinct(ms) /\ Ids(h) \cap Ids(ms) = {} => Distinct(f))
  <2> DEFINE at == Len(h)
  <2>1. f = Upto(h, at) \o ms \o From(h, at + 1) /\ at \in 0..Len(h)
    BY ConcatAsPaste
  <2> HIDE DEF f, at
  <2> QED BY <2>1, PasteIds
<1> HIDE DEF f
<1>8. Distinct(f)
  BY <1>2, <1>6, <1>7 DEF Once
<1>9. \A i \in DOMAIN s : Ids(s[i].popped) \subseteq BundledIn(s)
  BY DEF BundledIn
<1>10. ASSUME NEW i \in DOMAIN s PROVE Ids(s[i].popped) \cap Ids(f) = {}
  BY <1>3, <1>4, <1>5, <1>7, <1>9 DEF Once
<1>11. (Ids(f) \cup BundledIn(s)) \cap g = {}
  BY <1>3, <1>4, <1>5, <1>7 DEF Once
<1>12. 1..(n + Len(ms)) = (1..n) \cup ((n + 1)..(n + Len(ms)))
  BY <1>1
<1>13. Ids(f) \cup BundledIn(s) \cup g = 1..(n + Len(ms))
  BY <1>3, <1>7, <1>12 DEF Once
<1> QED BY <1>8, <1>10, <1>11, <1>13 DEF Once, f

\* Dropping the stack loses its bundles on record.
LEMMA OnceDropStack ==
  ASSUME NEW h, NEW s, NEW g, NEW n, Once(h, s, g, n)
  PROVE  Once(h, <<>>, g \cup BundledIn(s), n)
<1>1. DOMAIN <<>> = {} /\ BundledIn(<<>>) = {}
  BY DEF BundledIn
<1>2. \A i \in DOMAIN s : Ids(s[i].popped) \cap Ids(h) = {}
  BY DEF Once
<1>3. Ids(h) \cap BundledIn(s) = {}
  BY <1>2 DEF BundledIn
<1> QED BY <1>1, <1>3 DEF Once

\* Moving messages from the history into a new bundle.
LEMMA OncePush ==
  ASSUME NEW h, NEW s \in Seq(Bundle), NEW g, NEW n, Once(h, s, g, n),
         NEW f, NEW b \in Bundle, Distinct(f), Distinct(b.popped),
         Ids(f) \cap Ids(b.popped) = {}, Ids(f) \cup Ids(b.popped) = Ids(h)
  PROVE  Once(f, Append(s, b), g, n)
<1> DEFINE t == Append(s, b)
           m == Len(s) + 1
<1>1. /\ DOMAIN t = DOMAIN s \cup {m} /\ \A i \in DOMAIN s : t[i] = s[i]
      /\ t[m] = b /\ m \notin DOMAIN s
  BY PushFacts
<1> HIDE DEF t, m
<1>2. BundledIn(t) = BundledIn(s) \cup Ids(b.popped)
  BY <1>1 DEF BundledIn
<1>3. \A i \in DOMAIN s : Ids(s[i].popped) \cap Ids(h) = {}
  BY DEF Once
<1>4. ASSUME NEW i \in DOMAIN t
      PROVE  /\ Distinct(t[i].popped) /\ Ids(t[i].popped) \cap Ids(f) = {}
             /\ \A j \in DOMAIN t \ {i} : Ids(t[i].popped) \cap Ids(t[j].popped) = {}
  <2>1. CASE i = m
    <3>1. \A j \in DOMAIN t \ {i} : j \in DOMAIN s /\ t[j] = s[j]
      BY <1>1, <2>1
    <3> QED BY <1>1, <1>3, <2>1, <3>1
  <2>2. CASE i # m
    <3>1. i \in DOMAIN s /\ t[i] = s[i]
      BY <1>1, <2>2
    <3>2. \A j \in DOMAIN t \ {i} : (j \in DOMAIN s \ {i} /\ t[j] = s[j]) \/ (t[j] = b)
      BY <1>1
    <3>3. Distinct(s[i].popped) /\ \A j \in DOMAIN s \ {i} : Ids(s[i].popped) \cap Ids(s[j].popped) = {}
      BY <3>1 DEF Once
    <3>4. Ids(s[i].popped) \cap Ids(f) = {} /\ Ids(s[i].popped) \cap Ids(b.popped) = {}
      BY <1>3, <3>1
    <3> QED BY <3>1, <3>2, <3>3, <3>4
  <2> QED BY <2>1, <2>2
<1>5. (Ids(f) \cup BundledIn(t)) \cap g = {} /\ Ids(f) \cup BundledIn(t) \cup g = 1..n
  <2>1. Ids(f) \cup BundledIn(t) = Ids(h) \cup BundledIn(s)
    BY <1>2
  <2> QED BY <2>1 DEF Once
<1> QED BY <1>4, <1>5 DEF Once, t

\* Moving the last bundle back into the history.
LEMMA OncePop ==
  ASSUME NEW h, NEW s \in Seq(Bundle), s # <<>>, NEW g, NEW n, Once(h, s, g, n),
         NEW f, Distinct(f), Ids(f) = Ids(h) \cup Ids(Last(s).popped)
  PROVE  Once(f, Front(s), g, n)
<1> DEFINE t == Front(s)
           m == Len(s)
<1>1. /\ DOMAIN t = DOMAIN s \ {m} /\ m \in DOMAIN s
      /\ \A i \in DOMAIN t : t[i] = s[i]
      /\ Last(s) = s[m]
  BY PopFacts
<1> HIDE DEF t, m
<1>2. \A i \in DOMAIN s : /\ Distinct(s[i].popped) /\ Ids(s[i].popped) \cap Ids(h) = {}
                          /\ \A j \in DOMAIN s \ {i} : Ids(s[i].popped) \cap Ids(s[j].popped) = {}
  BY DEF Once
<1>3. BundledIn(s) = BundledIn(t) \cup Ids(Last(s).popped)
  BY <1>1 DEF BundledIn
<1>4. ASSUME NEW i \in DOMAIN t
      PROVE  /\ Distinct(t[i].popped) /\ Ids(t[i].popped) \cap Ids(f) = {}
             /\ \A j \in DOMAIN t \ {i} : Ids(t[i].popped) \cap Ids(t[j].popped) = {}
  <2>1. i \in DOMAIN s /\ i # m /\ t[i] = s[i]
    BY <1>1
  <2>2. \A j \in DOMAIN t \ {i} : j \in DOMAIN s \ {i} /\ t[j] = s[j]
    BY <1>1
  <2>3. Ids(s[i].popped) \cap Ids(Last(s).popped) = {}
    BY <1>1, <1>2, <2>1
  <2> QED BY <1>2, <2>1, <2>2, <2>3
<1>5. (Ids(f) \cup BundledIn(t)) \cap g = {} /\ Ids(f) \cup BundledIn(t) \cup g = 1..n
  <2>1. Ids(f) \cup BundledIn(t) = Ids(h) \cup BundledIn(s)
    BY <1>3
  <2> QED BY <2>1 DEF Once
<1> QED BY <1>4, <1>5 DEF Once, t

\* Losing messages D of the history on record.
LEMMA OnceDrop ==
  ASSUME NEW h, NEW s, NEW g, NEW n, Once(h, s, g, n),
         NEW f, NEW D, Distinct(f), Ids(f) \cup D = Ids(h), Ids(f) \cap D = {}
  PROVE  Once(f, s, g \cup D, n)
<1>1. \A i \in DOMAIN s : Ids(s[i].popped) \cap Ids(h) = {}
  BY DEF Once
<1>2. \A i \in DOMAIN s : Ids(s[i].popped) \cap Ids(f) = {}
  BY <1>1
<1>3. Ids(h) \cap BundledIn(s) = {}
  BY <1>1 DEF BundledIn
<1>4. (Ids(f) \cup BundledIn(s)) \cap (g \cup D) = {}
  BY <1>3 DEF Once
<1>5. Ids(f) \cup BundledIn(s) \cup (g \cup D) = Ids(h) \cup BundledIn(s) \cup g
  OBVIOUS
<1> QED BY <1>2, <1>4, <1>5 DEF Once

-----------------------------------------------------------------------------
(* Deletion                                                                *)

\* Pruning call c keeps all the others, and each of them once.
LEMMA PruneCalls ==
  ASSUME NEW m \in Msg, NEW c
  PROVE  LET w == Prune(m, c).calls
         IN  /\ \A n \in DOMAIN w : \E k \in DOMAIN m.calls : w[n] = m.calls[k]
             /\ \A k \in DOMAIN m.calls : m.calls[k] # c => m.calls[k] \in Range(w)
             /\ (\A n, k \in DOMAIN m.calls : m.calls[n] = m.calls[k] => n = k)
                  => \A n, k \in DOMAIN w : w[n] = w[k] => n = k
             /\ Declares(Prune(m, c)) => Declares(m)
<1> DEFINE v == m.calls
           D == {n \in DOMAIN m.calls : m.calls[n] = c}
           w == Prune(m, c).calls
<1>1. v \in Seq(Call)
  BY Zenon DEF Msg
<1>2. w = Without(v, D) /\ w \in Seq(Call)
  BY PruneFacts
<1>3. \A k \in DOMAIN v : v[k] # c => k \in DOMAIN v \ D
  OBVIOUS
<1>a. Declares(Prune(m, c)) <=> w # <<>>
  BY DEF Declares
<1>b. Declares(m) <=> v # <<>>
  BY DEF Declares
<1> HIDE DEF v, D, w
<1>5. PICK K \in SUBSET Nat :
        /\ K = DOMAIN v \ D
        /\ \A n \in 1..Len(w) : Place(K, n) \in K /\ Rank(K, Place(K, n)) = n /\ w[n] = v[Place(K, n)]
        /\ \A k \in K : Rank(K, k) \in 1..Len(w) /\ w[Rank(K, k)] = v[k]
  <2>1. PICK K \in SUBSET Nat : Leaves(v, D, Without(v, D), K)
    BY <1>1, WithoutFacts
  <2> QED BY <1>2, <2>1 DEF Leaves
<1>4. K \subseteq DOMAIN v /\ \A k \in DOMAIN v : v[k] # c => k \in K
  BY <1>3, <1>5
<1>6. DOMAIN w = 1..Len(w) /\ Len(w) \in Nat
  BY <1>2, LenProperties
<1>7. \A n \in DOMAIN w : \E k \in DOMAIN v : w[n] = v[k]
  BY <1>4, <1>5, <1>6
<1>8. \A k \in DOMAIN v : v[k] # c => v[k] \in Range(w)
  BY <1>4, <1>5, <1>6 DEF Range
<1>9. ASSUME \A n, k \in DOMAIN v : v[n] = v[k] => n = k,
             NEW n \in DOMAIN w, NEW k \in DOMAIN w, w[n] = w[k]
      PROVE  n = k
  <2>1. /\ Place(K, n) \in DOMAIN v /\ Place(K, k) \in DOMAIN v
        /\ w[n] = v[Place(K, n)] /\ w[k] = v[Place(K, k)]
        /\ Rank(K, Place(K, n)) = n /\ Rank(K, Place(K, k)) = k
    BY <1>4, <1>5, <1>6
  <2>2. Place(K, n) = Place(K, k)
    BY <1>9, <2>1
  <2> QED BY <2>1, <2>2
<1>10. w # <<>> => v # <<>>
  <2>1. ASSUME w # <<>>, v = <<>> PROVE FALSE
    <3>1. Len(w) # 0
      BY <1>2, <2>1, EmptySeq
    <3>2. 1 \in DOMAIN w
      BY <1>6, <3>1
    <3>3. DOMAIN v = {}
      BY <2>1
    <3> QED BY <1>7, <3>2, <3>3
  <2> QED BY <2>1
<1> QED BY <1>7, <1>8, <1>9, <1>10, <1>a, <1>b DEF v, w

Pruned(i) == [j \in DOMAIN history |->
                IF Is(history[i], "tool") /\ j \in Declarer(i)
                THEN Prune(history[j], history[i].call) ELSE history[j]]
Remaining(i) == DOMAIN history \ Cascade(i)

\* What is left of the conversation after message i is deleted, message by message.
LEMMA DeleteFacts ==
  ASSUME history \in Seq(Msg), NEW i \in DOMAIN history
  PROVE  LET K == Remaining(i)
             g == Without(Pruned(i), Cascade(i))
         IN  /\ K \in SUBSET Nat /\ IsFiniteSet(K) /\ K \subseteq 1..Len(history)
             /\ i \notin K
             /\ g \in Seq(Msg)
             /\ \A n \in 1..Len(g) : \E k \in K : Rank(K, k) = n /\ g[n] = Pruned(i)[k]
             /\ \A k \in K : Rank(K, k) \in 1..Len(g) /\ g[Rank(K, k)] = Pruned(i)[k]
             /\ \A k, l \in K : k < l => Rank(K, k) < Rank(K, l)
             /\ \A k \in 1..Len(history) :
                  /\ Pruned(i)[k].id = history[k].id /\ Pruned(i)[k].role = history[k].role
                  /\ Pruned(i)[k].call = history[k].call
                  /\ \/ Pruned(i)[k] = history[k]
                     \/ /\ Is(history[i], "tool") /\ k \in Declarer(i)
                        /\ Pruned(i)[k] = Prune(history[k], history[i].call)
<1> DEFINE R == Remaining(i)
           C == Cascade(i)
           p == Pruned(i)
           g == Without(p, C)
<1>1. /\ Len(history) \in Nat /\ DOMAIN history = 1..Len(history)
      /\ \A j \in 1..Len(history) : history[j] \in Msg
  BY MsgFacts
<1>2. ASSUME NEW k \in 1..Len(history)
      PROVE  /\ p[k] \in Msg
             /\ p[k].id = history[k].id /\ p[k].role = history[k].role /\ p[k].call = history[k].call
             /\ \/ p[k] = history[k]
                \/ /\ Is(history[i], "tool") /\ k \in Declarer(i)
                   /\ p[k] = Prune(history[k], history[i].call)
  <2>1. p[k] = IF Is(history[i], "tool") /\ k \in Declarer(i)
               THEN Prune(history[k], history[i].call) ELSE history[k]
    BY <1>1 DEF Pruned
  <2>2. history[k] \in Msg
    BY <1>1
  <2> HIDE DEF p
  <2>3. CASE Is(history[i], "tool") /\ k \in Declarer(i)
    <3>1. /\ Prune(history[k], history[i].call) \in Msg
          /\ Prune(history[k], history[i].call).id = history[k].id
          /\ Prune(history[k], history[i].call).role = history[k].role
          /\ Prune(history[k], history[i].call).call = history[k].call
      BY <2>2, PruneFacts
    <3> QED BY <2>1, <2>3, <3>1
  <2>4. CASE ~(Is(history[i], "tool") /\ k \in Declarer(i))
    BY <2>1, <2>2, <2>4
  <2> QED BY <2>3, <2>4
<1>3. p \in Seq(Msg)
  <2> DEFINE N == Len(history)
             e(j) == p[j]
  <2>1. p = [j \in 1..N |-> e(j)]
    BY <1>1 DEF Pruned
  <2>2. \A j \in 1..N : e(j) \in Msg
    BY <1>2
  <2> HIDE DEF p, e, N
  <2> QED BY <1>1, <2>1, <2>2, IsASeq DEF N
<1>4. R = DOMAIN p \ C /\ DOMAIN p = DOMAIN history /\ i \notin R
  BY DEF Pruned, Remaining, Cascade
<1>5. Len(p) = Len(history)
  BY <1>1, <1>3, <1>4, LenProperties
<1> HIDE DEF R, C, p, g
<1>6. /\ R \in SUBSET Nat /\ IsFiniteSet(R) /\ R \subseteq 1..Len(history)
      /\ g \in Seq(Msg)
      /\ \A n \in 1..Len(g) : Place(R, n) \in R /\ Rank(R, Place(R, n)) = n /\ g[n] = p[Place(R, n)]
      /\ \A k \in R : Rank(R, k) \in 1..Len(g) /\ g[Rank(R, k)] = p[k]
      /\ \A k, l \in R : k < l => Rank(R, k) < Rank(R, l)
  <2>1. g \in Seq(Msg) /\ \E L \in SUBSET Nat : Leaves(p, C, g, L)
    BY <1>3, WithoutFacts DEF g
  <2>2. PICK L \in SUBSET Nat : Leaves(p, C, g, L)
    BY <2>1
  <2>3. L = R
    BY <1>4, <2>2 DEF Leaves
  <2> QED BY <1>5, <2>1, <2>2, <2>3 DEF Leaves
<1>7. \A n \in 1..Len(g) : \E k \in R : Rank(R, k) = n /\ g[n] = p[k]
  BY <1>6
<1> QED BY <1>2, <1>4, <1>6, <1>7 DEF R, C, p, g

\* What a deletion leaves and what it takes are the history, and disjoint.
LEMMA DeleteIds ==
  ASSUME history \in Seq(Msg), NEW i \in DOMAIN history, Distinct(history)
  PROVE  LET g == Without(Pruned(i), Cascade(i))
             D == {history[j].id : j \in Cascade(i)}
         IN  Distinct(g) /\ Ids(g) \cup D = Ids(history) /\ Ids(g) \cap D = {}
<1> DEFINE K == Remaining(i)
           g == Without(Pruned(i), Cascade(i))
           D == {history[j].id : j \in Cascade(i)}
<1>1. /\ K \in SUBSET Nat /\ K \subseteq 1..Len(history)
      /\ g \in Seq(Msg)
      /\ \A n \in 1..Len(g) : \E k \in K : Rank(K, k) = n /\ g[n] = Pruned(i)[k]
      /\ \A k \in K : Rank(K, k) \in 1..Len(g) /\ g[Rank(K, k)] = Pruned(i)[k]
      /\ \A k \in 1..Len(history) : Pruned(i)[k].id = history[k].id
  BY DeleteFacts
<1>2. /\ DOMAIN history = 1..Len(history) /\ Cascade(i) \subseteq DOMAIN history
      /\ \A k \in DOMAIN history : k \in K \/ k \in Cascade(i)
      /\ \A k \in K : k \notin Cascade(i)
  BY MsgFacts DEF Cascade, Remaining
<1>3. DOMAIN g = 1..Len(g)
  BY <1>1, MsgFacts
<1> HIDE DEF K, g
<1>4. ASSUME NEW n \in 1..Len(g)
      PROVE  \E k \in K : Rank(K, k) = n /\ g[n].id = history[k].id
  <2>1. PICK k \in K : Rank(K, k) = n /\ g[n] = Pruned(i)[k]
    BY <1>1
  <2>2. k \in 1..Len(history)
    BY <1>1
  <2> QED BY <1>1, <2>1, <2>2
<1>5. \A j, k \in 1..Len(history) : history[j].id = history[k].id => j = k
  BY <1>2 DEF Distinct
<1>6. Distinct(g)
  BY <1>1, <1>3, <1>4, <1>5 DEF Distinct
<1>7. \A x : x \in Ids(g) <=> \E n \in 1..Len(g) : x = g[n].id
  BY <1>1, IdsFacts
<1>8. \A x : x \in Ids(history) <=> \E k \in 1..Len(history) : x = history[k].id
  BY IdsFacts
<1>9. \A x : x \in Ids(g) <=> \E k \in K : x = history[k].id
  <2>1. ASSUME NEW x \in Ids(g) PROVE \E k \in K : x = history[k].id
    BY <1>4, <1>7, <2>1
  <2>2. ASSUME NEW k \in K PROVE history[k].id \in Ids(g)
    <3>1. g[Rank(K, k)].id = history[k].id /\ Rank(K, k) \in 1..Len(g)
      BY <1>1
    <3> QED BY <1>7, <3>1
  <2> QED BY <2>1, <2>2
<1>10. Ids(g) \cup D = Ids(history)
  BY <1>1, <1>2, <1>8, <1>9
<1>11. ASSUME NEW x \in Ids(g), x \in D PROVE FALSE
  <2>1. PICK k \in K : x = history[k].id
    BY <1>9
  <2>2. PICK j \in Cascade(i) : x = history[j].id
    BY <1>11
  <2> QED BY <1>1, <1>2, <1>5, <2>1, <2>2
<1> QED BY <1>6, <1>10, <1>11 DEF g


\* A deletion leaves the others paired.
LEMMA DeleteStanding ==
  ASSUME history \in Seq(Msg), NEW i \in DOMAIN history, Distinct(history), Standing(history),
         \A k \in DOMAIN history : Declares(history[k]) => Is(history[k], "assistant"),
         \A j, k \in DOMAIN history :
           Is(history[j], "tool") /\ Is(history[k], "tool") /\ history[j].call = history[k].call
             => history[j].id = history[k].id
  PROVE  Standing(Without(Pruned(i), Cascade(i)))
<1> DEFINE K == Remaining(i)
           g == Without(Pruned(i), Cascade(i))
<1>1. /\ K \in SUBSET Nat /\ K \subseteq 1..Len(history) /\ i \notin K
      /\ g \in Seq(Msg)
      /\ \A n \in 1..Len(g) : \E k \in K : Rank(K, k) = n /\ g[n] = Pruned(i)[k]
      /\ \A k \in K : Rank(K, k) \in 1..Len(g) /\ g[Rank(K, k)] = Pruned(i)[k]
      /\ \A k, l \in K : k < l => Rank(K, k) < Rank(K, l)
      /\ \A k \in 1..Len(history) :
           /\ Pruned(i)[k].role = history[k].role
           /\ Pruned(i)[k].call = history[k].call
           /\ \/ Pruned(i)[k] = history[k]
              \/ /\ Is(history[i], "tool") /\ k \in Declarer(i)
                 /\ Pruned(i)[k] = Prune(history[k], history[i].call)
  BY DeleteFacts
<1>2. /\ DOMAIN history = 1..Len(history) /\ Len(history) \in Nat
      /\ \A k \in DOMAIN history : history[k] \in Msg
  BY MsgFacts
<1>3. DOMAIN g = 1..Len(g) /\ Len(g) \in Nat
  BY <1>1, MsgFacts
<1>4. \A k \in DOMAIN history : history[k].calls # <<>> => Is(history[k], "assistant")
  BY DEF Declares
<1>5. /\ Cascade(i) \subseteq DOMAIN history
      /\ \A k \in DOMAIN history : k \in K \/ k \in Cascade(i)
      /\ \A k \in Cascade(i) : k = i \/ Is(history[k], "tool")
      /\ \A k \in (i + 1)..Len(history) :
           Is(history[i], "assistant") /\ Is(history[k], "tool") /\ history[k].call \in Range(history[i].calls)
             => k \in Cascade(i)
  BY <1>2 DEF Cascade, Remaining
<1>6. \A k \in K : k \notin Cascade(i)
  BY DEF Remaining
<1> HIDE DEF K, g
<1>7. ASSUME NEW n \in 1..Len(g), Is(g[n], "tool")
      PROVE  \E m \in 1..(n - 1) : /\ g[n].call \in Range(g[m].calls)
                                   /\ \A o \in (m + 1)..(n - 1) : Is(g[o], "tool")
  <2>1. PICK k \in K : Rank(K, k) = n /\ g[n] = Pruned(i)[k]
    BY <1>1
  <2>2. /\ k \in 1..Len(history) /\ k \in Nat /\ Is(history[k], "tool")
        /\ g[n].call = history[k].call
    BY <1>1, <1>2, <1>7, <2>1 DEF Is
  <2>3. PICK j \in 1..(k - 1) : /\ history[k].call \in Range(history[j].calls)
                                /\ \A o \in (j + 1)..(k - 1) : Is(history[o], "tool")
    BY <1>2, <2>2 DEF Standing, Places
  <2>4. j \in Nat /\ j < k /\ j \in 1..Len(history) /\ j + 1 =< k
    BY <1>2, <2>2
  <2>5. Is(history[j], "assistant") /\ ~Is(history[j], "tool")
    <3>1. history[j].calls # <<>>
      BY <2>3 DEF Range
    <3> QED BY <1>2, <1>4, <2>4, <3>1 DEF Is
  <2>6. j \in K
    <3>1. SUFFICES ASSUME j \in Cascade(i) PROVE FALSE
      BY <1>2, <1>5, <2>4
    <3>2. j = i
      BY <1>5, <2>5, <3>1
    <3>3. k \in (i + 1)..Len(history)
      BY <1>2, <2>2, <2>4, <3>2
    <3>4. k \in Cascade(i)
      BY <1>5, <2>2, <2>3, <2>5, <3>2, <3>3
    <3> QED BY <1>6, <3>4
  <2>7. history[k].call \in Range(Pruned(i)[j].calls)
    <3>1. CASE Pruned(i)[j] = history[j]
      BY <2>3, <3>1
    <3>2. CASE Is(history[i], "tool") /\ Pruned(i)[j] = Prune(history[j], history[i].call)
      <4>1. history[k].call # history[i].call
        <5>1. SUFFICES ASSUME history[k].call = history[i].call PROVE FALSE
          OBVIOUS
        <5>2. history[k].id = history[i].id
          BY <1>2, <2>2, <3>2, <5>1
        <5>3. k = i
          BY <1>2, <2>2, <5>2 DEF Distinct
        <5> QED BY <1>1, <5>3
      <4>2. PICK o \in DOMAIN history[j].calls : history[k].call = history[j].calls[o]
        BY <2>3 DEF Range
      <4>3. history[j].calls[o] \in Range(Prune(history[j], history[i].call).calls)
        <5>1. history[j] \in Msg
          BY <1>2, <2>4
        <5>2. history[j].calls[o] # history[i].call
          BY <4>1, <4>2
        <5> QED BY <5>1, <5>2, PruneCalls
      <4> QED BY <3>2, <4>2, <4>3
    <3> QED BY <1>1, <2>4, <3>1, <3>2
  <2> DEFINE m == Rank(K, j)
  <2>8. m \in 1..Len(g) /\ g[m] = Pruned(i)[j] /\ m < n
    BY <1>1, <2>1, <2>4, <2>6
  <2> HIDE DEF m
  <2>9. m \in 1..(n - 1)
    BY <1>3, <2>8
  <2>10. ASSUME NEW o \in (m + 1)..(n - 1) PROVE Is(g[o], "tool")
    <3>0. o \in 1..Len(g) /\ m < o /\ o < n
      BY <1>3, <2>8
    <3>1. PICK l \in K : Rank(K, l) = o /\ g[o] = Pruned(i)[l]
      BY <1>1, <3>0
    <3>2. l \in 1..Len(history) /\ l \in Nat
      BY <1>1, <1>2
    <3>3. ~(l < j) /\ l # j /\ ~(k < l) /\ l # k
      BY <1>1, <1>3, <2>1, <2>6, <2>8, <3>0, <3>1 DEF m
    <3>4. l \in (j + 1)..(k - 1)
      BY <2>2, <2>4, <3>2, <3>3
    <3>5. Is(history[l], "tool")
      BY <2>3, <3>4
    <3> QED BY <1>1, <3>1, <3>2, <3>5 DEF Is
  <2>11. g[n].call \in Range(g[m].calls)
    BY <2>2, <2>7, <2>8
  <2> QED BY <2>9, <2>10, <2>11
<1> QED BY <1>3, <1>7 DEF Standing, Places, g

-----------------------------------------------------------------------------
(* Adding messages                                                         *)

\* What is where when p is added to h.
LEMMA ConcatFacts ==
  ASSUME NEW h \in Seq(Msg), NEW p \in Seq(Msg)
  PROVE  /\ h \o p \in Seq(Msg) /\ Len(h \o p) = Len(h) + Len(p)
         /\ \A n \in 1..Len(h) : (h \o p)[n] = h[n]
         /\ \A n \in 1..Len(p) : (h \o p)[Len(h) + n] = p[n]
         /\ Range(h \o p) = Range(h) \cup Range(p)
         /\ Standing(h) /\ Standing(p) => Standing(h \o p)
<1> DEFINE f == h \o p
           at == Len(h)
<1>1. /\ f \in Seq(Msg) /\ Len(f) = Len(h) + Len(p)
      /\ \A i \in 1..(Len(h) + Len(p)) : f[i] = IF i <= Len(h) THEN h[i] ELSE p[i - Len(h)]
  BY ConcatProperties
<1>2. f = Upto(h, at) \o p \o From(h, at + 1) /\ at \in 0..Len(h)
  BY ConcatAsPaste
<1>3. Len(h) \in Nat /\ Len(p) \in Nat
  BY MsgFacts
<1> HIDE DEF f
<1>4. \A n \in 1..Len(h) : f[n] = h[n]
  BY <1>1, <1>3
<1>5. ASSUME NEW n \in 1..Len(p) PROVE f[Len(h) + n] = p[n]
  <2>1. Len(h) + n \in 1..(Len(h) + Len(p)) /\ ~(Len(h) + n <= Len(h)) /\ (Len(h) + n) - Len(h) = n
    BY <1>3
  <2>2. f[Len(h) + n] = p[(Len(h) + n) - Len(h)]
    BY <1>1, <2>1
  <2> QED BY <2>1, <2>2
<1>6. ~(at < Len(h))
  BY <1>3
<1> HIDE DEF at
<1>7. Range(f) = Range(h) \cup Range(p)
  BY <1>2, PasteIds
<1>8. Standing(h) /\ Standing(p) => Standing(f)
  BY <1>2, <1>6, PasteStanding
<1> QED BY <1>1, <1>4, <1>5, <1>7, <1>8 DEF f

\* A response stands when it is put behind its call and nothing but responses.
LEMMA StandingResponse ==
  ASSUME NEW h \in Seq(Msg), NEW m \in Msg, Standing(h), NEW j \in 1..Len(h),
         m.call \in Range(h[j].calls), \A k \in (j + 1)..Len(h) : Is(h[k], "tool")
  PROVE  Standing(h \o <<m>>)
<1> DEFINE p == <<m>>
           f == h \o p
<1>1. p \in Seq(Msg) /\ Len(p) = 1 /\ p[1] = m
  OBVIOUS
<1>2. Len(h) \in Nat /\ DOMAIN h = 1..Len(h)
  BY MsgFacts
<1> HIDE DEF p
<1>3. /\ f \in Seq(Msg) /\ Len(f) = Len(h) + 1
      /\ \A n \in 1..Len(h) : f[n] = h[n]
      /\ f[Len(h) + 1] = m
  <2>1. /\ f \in Seq(Msg) /\ Len(f) = Len(h) + Len(p)
        /\ \A n \in 1..Len(h) : f[n] = h[n]
        /\ \A n \in 1..Len(p) : f[Len(h) + n] = p[n]
    BY <1>1, ConcatFacts
  <2>2. 1 \in 1..Len(p)
    BY <1>1
  <2> HIDE DEF f
  <2> QED BY <1>1, <2>1, <2>2
<1> HIDE DEF f
<1>4. DOMAIN f = 1..(Len(h) + 1)
  BY <1>3, MsgFacts
<1>5. ASSUME NEW n \in 1..(Len(h) + 1), Is(f[n], "tool")
      PROVE  \E i \in 1..(n - 1) : /\ f[n].call \in Range(f[i].calls)
                                   /\ \A k \in (i + 1)..(n - 1) : Is(f[k], "tool")
  <2>1. CASE n \in 1..Len(h)
    <3>1. PICK i \in 1..(n - 1) : /\ h[n].call \in Range(h[i].calls)
                                  /\ \A k \in (i + 1)..(n - 1) : Is(h[k], "tool")
      BY <1>2, <1>3, <1>5, <2>1 DEF Standing, Places
    <3>2. i \in 1..Len(h) /\ \A k \in (i + 1)..(n - 1) : k \in 1..Len(h)
      BY <1>2, <2>1
    <3> QED BY <1>3, <2>1, <3>1, <3>2
  <2>2. CASE n = Len(h) + 1
    <3>1. j \in 1..(n - 1) /\ \A k \in (j + 1)..(n - 1) : k \in (j + 1)..Len(h) /\ k \in 1..Len(h)
      BY <1>2, <2>2
    <3> QED BY <1>3, <2>2, <3>1
  <2> QED BY <1>2, <2>1, <2>2
<1>6. Standing(f)
  BY <1>4, <1>5 DEF Standing, Places
<1> QED BY <1>6 DEF f, p

-----------------------------------------------------------------------------
(* What is in play                                                         *)

\* WellMade, AnsweredOnce, Paired and PlacedAtPrompts as relations of the messages
\* in play, the history, the stack and the number of messages made.
Made(P) ==
  \A m \in P :
    /\ Declares(m) => Is(m, "assistant")
    /\ \A n \in DOMAIN m.calls : m.calls[n][1] = m.id
    /\ \A n, k \in DOMAIN m.calls : m.calls[n] = m.calls[k] => n = k
Single(P) ==
  \A m, n \in P : Is(m, "tool") /\ Is(n, "tool") /\ m.call = n.call => m.id = n.id
AllStanding(h, s) == Standing(h) /\ \A i \in DOMAIN s : Standing(s[i].popped)
PlacedIn(P, b, n) ==
  b.at # AtTail =>
    /\ b.at =< Len(b.after[1])
    /\ \A k \in DOMAIN b.after[1] : b.after[1][k] =< n
    /\ b.at < Len(b.after[1]) =>
         \A m \in P : m.id = b.after[1][b.at + 1] => Is(m, "user")
Undoes(b) ==
  LET at == IF b.at = AtTail \/ b.at > Len(b.after[1]) THEN Len(b.after[1]) ELSE b.at
  IN  b.before = <<Upto(b.after[1], at) \o IdsOf(b.popped) \o From(b.after[1], at + 1),
                   b.after[2] + b.delta>>

\* The messages in Q that are not new, with identities up to n, have been in P with
\* the same roles.
Follows(Q, P, n) ==
  \A m \in Q : m.id \in Nat /\ (m.id > n \/ \E o \in P : o.id = m.id /\ o.role = m.role)

\* A bundle keeps its place when new messages have new identities and the others
\* keep theirs and their roles.
LEMMA PlacedKept ==
  ASSUME NEW P, NEW Q, NEW b \in Bundle, NEW n \in Nat, NEW k \in Nat, n =< k,
         PlacedIn(P, b, n), Follows(Q, P, n)
  PROVE  PlacedIn(Q, b, k)
<1>1. SUFFICES ASSUME b.at # AtTail
               PROVE  /\ b.at =< Len(b.after[1])
                      /\ \A l \in DOMAIN b.after[1] : b.after[1][l] =< k
                      /\ b.at < Len(b.after[1]) =>
                           \A m \in Q : m.id = b.after[1][b.at + 1] => Is(m, "user")
  BY DEF PlacedIn
<1> DEFINE a == b.after[1]
<1>2. b.at \in Nat /\ a \in Seq(Nat)
  <2>1. b.at \in Nat \cup {AtTail} /\ b.after \in Seq(Nat) \X Nat
    BY Zenon DEF Bundle
  <2> QED BY <1>1, <2>1
<1>3. /\ b.at =< Len(a) /\ \A l \in DOMAIN a : a[l] =< n
      /\ b.at < Len(a) => \A m \in P : m.id = a[b.at + 1] => Is(m, "user")
  BY <1>1 DEF PlacedIn
<1> HIDE DEF a
<1>4. Len(a) \in Nat /\ DOMAIN a = 1..Len(a) /\ \A l \in DOMAIN a : a[l] \in Nat
  BY <1>2, LenProperties, ElementOfSeq
<1>5. \A l \in DOMAIN a : a[l] =< k
  BY <1>3, <1>4
<1>6. ASSUME b.at < Len(a), NEW m \in Q, m.id = a[b.at + 1]
      PROVE  Is(m, "user")
  <2>1. b.at + 1 \in DOMAIN a
    BY <1>2, <1>4, <1>6
  <2>2. ~(m.id > n)
    BY <1>3, <1>4, <1>6, <2>1
  <2>3. PICK o \in P : o.id = m.id /\ o.role = m.role
    BY <2>2 DEF Follows
  <2> QED BY <1>3, <1>6, <2>3 DEF Is
<1> QED BY <1>3, <1>5, <1>6 DEF a

\* The messages in play and their numbers.
LEMMA InPlayIds ==
  ASSUME NEW h \in Seq(Msg), NEW s \in Seq(Bundle)
  PROVE  /\ InPlayOf(h, s) \subseteq Msg
         /\ \A m \in InPlayOf(h, s) : m.id \in Nat /\ m.id \in Ids(h) \cup BundledIn(s)
<1>1. ASSUME NEW p \in Seq(Msg), NEW m \in Range(p) PROVE m \in Msg /\ m.id \in Nat /\ m.id \in Ids(p)
  <2>1. PICK i \in 1..Len(p) : m = p[i]
    BY IdsFacts
  <2> QED BY <2>1, MsgFacts, IdsFacts
<1>2. ASSUME NEW m \in InPlayOf(h, s) PROVE m \in Msg /\ m.id \in Nat /\ m.id \in Ids(h) \cup BundledIn(s)
  <2>1. CASE m \in Range(h)
    BY <1>1, <2>1
  <2>2. CASE m \notin Range(h)
    <3>1. PICK i \in 1..Len(s) : m \in Range(s[i].popped)
      BY <2>2, StackFacts
    <3>2. s[i].popped \in Seq(Msg)
      BY BundleFacts
    <3>3. m \in Msg /\ m.id \in Nat /\ m.id \in Ids(s[i].popped)
      BY <1>1, <3>1, <3>2
    <3>4. m.id \in BundledIn(s)
      BY <3>3, StackFacts
    <3> QED BY <3>3, <3>4
  <2> QED BY <2>1, <2>2
<1> QED BY <1>2

-----------------------------------------------------------------------------
(* What each kind of step does to the conversation                         *)

\* The parts of the invariant that are about the history h, the stack s, what is
\* gone, the number n of messages made, and whether the conversation is disturbed.
Conversation(h, s, g, n, d) ==
  /\ Once(h, s, g, n)
  /\ d \/ AllStanding(h, s)
  /\ Made(InPlayOf(h, s))
  /\ d \/ Single(InPlayOf(h, s))
  /\ \A i \in DOMAIN s : PlacedIn(InPlayOf(h, s), s[i], n)
  /\ \A i \in DOMAIN s : Undoes(s[i])

\* New messages at the end.
LEMMA ConversationAdd ==
  ASSUME NEW h \in Seq(Msg), NEW s \in Seq(Bundle), NEW g, NEW n \in Nat, NEW d \in BOOLEAN,
         Conversation(h, s, g, n, d),
         NEW ms \in Seq(Msg), \A k \in 1..Len(ms) : ms[k].id = n + k, Made(Range(ms)),
         d \/ Standing(h \o ms),
         d \/ \A m \in Range(ms), o \in InPlayOf(h, s) \cup Range(ms) :
                Is(m, "tool") /\ Is(o, "tool") /\ m.call = o.call => m.id = o.id
  PROVE  Conversation(h \o ms, s, g, n + Len(ms), d)
<1> DEFINE f == h \o ms
           P == InPlayOf(h, s)
           Q == InPlayOf(f, s)
<1>1. f \in Seq(Msg) /\ Range(f) = Range(h) \cup Range(ms)
  BY ConcatFacts
<1>2. Len(ms) \in Nat /\ DOMAIN s = 1..Len(s)
  BY MsgFacts, BundleFacts
<1>3. Once(f, s, g, n + Len(ms))
  BY OnceAdd DEF Conversation
<1>4. Q = P \cup Range(ms)
  <2> HIDE DEF f
  <2> QED BY <1>1 DEF InPlayOf
<1>5. d \/ AllStanding(f, s)
  BY DEF Conversation, AllStanding
<1>6. P \subseteq Msg /\ \A m \in P : m.id \in Nat
  BY InPlayIds
<1>7. ASSUME NEW m \in Range(ms) PROVE m.id \in Nat /\ m.id > n
  <2>1. PICK k \in 1..Len(ms) : m = ms[k]
    BY IdsFacts
  <2>2. m.id = n + k
    BY <2>1
  <2> QED BY <1>2, <2>2
<1> HIDE DEF f, P, Q
<1>8. Made(P) /\ (d \/ Single(P)) /\ (\A i \in DOMAIN s : PlacedIn(P, s[i], n)) /\ \A i \in DOMAIN s : Undoes(s[i])
  BY DEF Conversation, P
<1>9. Made(Q)
  BY <1>4, <1>8 DEF Made
<1>10. d \/ Single(Q)
  <2>1. ASSUME ~d, NEW m \in Q, NEW o \in Q, Is(m, "tool"), Is(o, "tool"), m.call = o.call
        PROVE  m.id = o.id
    <3>1. \A x \in Range(ms), y \in P \cup Range(ms) :
            Is(x, "tool") /\ Is(y, "tool") /\ x.call = y.call => x.id = y.id
      BY <2>1 DEF P
    <3>2. CASE m \in Range(ms)
      BY <1>4, <2>1, <3>1, <3>2
    <3>3. CASE o \in Range(ms)
      BY <1>4, <2>1, <3>1, <3>3
    <3>4. CASE m \in P /\ o \in P
      BY <1>8, <2>1, <3>4 DEF Single
    <3> QED BY <1>4, <3>2, <3>3, <3>4
  <2> QED BY <2>1 DEF Single
<1>11. ASSUME NEW i \in DOMAIN s PROVE PlacedIn(Q, s[i], n + Len(ms))
  <2>1. s[i] \in Bundle /\ n + Len(ms) \in Nat /\ n =< n + Len(ms)
    BY <1>2, BundleFacts
  <2>2. PlacedIn(P, s[i], n)
    BY <1>8
  <2>3. Follows(Q, P, n)
    BY <1>4, <1>6, <1>7 DEF Follows
  <2> QED BY <2>1, <2>2, <2>3, PlacedKept
<1> QED BY <1>3, <1>5, <1>8, <1>9, <1>10, <1>11 DEF Conversation, f, Q

\* A new turn drops the stack.
LEMMA ConversationDropStack ==
  ASSUME NEW h, NEW s, NEW g, NEW n, NEW d, Conversation(h, s, g, n, d)
  PROVE  Conversation(h, <<>>, g \cup BundledIn(s), n, d)
<1>1. Once(h, <<>>, g \cup BundledIn(s), n)
  BY OnceDropStack DEF Conversation
<1>2. DOMAIN <<>> = {}
  OBVIOUS
<1>3. InPlayOf(h, <<>>) \subseteq InPlayOf(h, s)
  BY <1>2 DEF InPlayOf
<1> QED BY <1>1, <1>2, <1>3 DEF Conversation, AllStanding, Made, Single

\* What comes to stand where a stretch up to b was taken out of l elements.
LEMMA CutArithmetic ==
  ASSUME NEW l \in Nat, NEW k \in Nat, NEW a \in Nat \ {0}, NEW b \in Nat,
         k = l - (b - a + 1), a - 1 < k
  PROVE  a \in 1..k /\ (a - 1) + 1 = a /\ b < l /\ ~(a < a) /\ a + (b - a + 1) = b + 1
OBVIOUS

\* The sequence w is q with r put in behind its first n elements.
Pasted(w, q, r, n) ==
  /\ Len(w) = Len(q) + Len(r)
  /\ \A k \in 1..Len(w) :
       w[k] = IF k =< n THEN q[k] ELSE IF k =< n + Len(r) THEN r[k - n] ELSE q[k - Len(r)]

\* The same for sequences of numbers.
LEMMA PasteNumbers ==
  ASSUME NEW q \in Seq(Nat), NEW r \in Seq(Nat), NEW at \in 0..Len(q)
  PROVE  \E w \in Seq(Nat) :
           w = Upto(q, at) \o r \o From(q, at + 1) /\ Pasted(w, q, r, at)
<1> DEFINE w == Upto(q, at) \o r \o From(q, at + 1)
<1>1. w \in Seq(Nat) /\ Pasted(w, q, r, at)
  <2>1. /\ w \in Seq(Nat) /\ Len(w) = Len(q) + Len(r)
        /\ \A k \in 1..Len(w) :
             w[k] = IF k =< at THEN q[k]
                    ELSE IF k =< at + Len(r) THEN r[k - at] ELSE q[k - Len(r)]
    BY PasteFacts
  <2> HIDE DEF w
  <2> QED BY <2>1 DEF Pasted
<1>2. w = Upto(q, at) \o r \o From(q, at + 1)
  OBVIOUS
<1> HIDE DEF w
<1> QED BY <1>1, <1>2

\* Identities are taken out and put back as messages are.
LEMMA CutIdsOf ==
  ASSUME NEW h \in Seq(Msg), NEW a \in Nat \ {0}, NEW b \in Nat, a =< b + 1, b =< Len(h)
  PROVE  LET f == Upto(h, a - 1) \o From(h, b + 1)
         IN  IdsOf(h) = Upto(IdsOf(f), a - 1) \o IdsOf(SubSeq(h, a, b)) \o From(IdsOf(f), (a - 1) + 1)
<1> DEFINE f == Upto(h, a - 1) \o From(h, b + 1)
           p == SubSeq(h, a, b)
           q == IdsOf(f)
           r == IdsOf(p)
           at == a - 1
           w == Upto(q, at) \o r \o From(q, at + 1)
<1>1. /\ f \in Seq(Msg) /\ Len(f) = Len(h) - (b - a + 1)
      /\ \A k \in 1..Len(f) : f[k] = h[IF k < a THEN k ELSE k + (b - a + 1)]
      /\ p \in Seq(Msg) /\ Len(p) = b - a + 1
      /\ \A k \in 1..Len(p) : p[k] = h[a + k - 1]
  <2> HIDE DEF q, r, at, w
  <2>1. f \in Seq(Msg) /\ p \in Seq(Msg) /\ CutInto(h, a, b, f, p)
    BY CutFacts
  <2> HIDE DEF f, p
  <2> QED BY <2>1 DEF CutInto
<1>2. Len(h) \in Nat /\ Len(f) \in Nat
  BY <1>1, MsgFacts
<1> HIDE DEF f, p
<1>3. /\ q \in Seq(Nat) /\ Len(q) = Len(f) /\ \A k \in 1..Len(f) : q[k] = f[k].id
      /\ r \in Seq(Nat) /\ Len(r) = Len(p) /\ \A k \in 1..Len(p) : r[k] = p[k].id
      /\ IdsOf(h) \in Seq(Nat) /\ Len(IdsOf(h)) = Len(h) /\ \A k \in 1..Len(h) : IdsOf(h)[k] = h[k].id
  BY <1>1, IdsOfType
<1> HIDE DEF q, r
<1>4. at \in 0..Len(q)
  BY <1>1, <1>2, <1>3
<1>5. at = a - 1
  OBVIOUS
<1> HIDE DEF at
<1>6. /\ w \in Seq(Nat) /\ Len(w) = Len(q) + Len(r)
      /\ \A k \in 1..Len(w) :
           w[k] = IF k =< at THEN q[k] ELSE IF k =< at + Len(r) THEN r[k - at] ELSE q[k - Len(r)]
  <2>0. q \in Seq(Nat) /\ r \in Seq(Nat)
    BY <1>3
  <2> HIDE DEF w
  <2>1. \E v \in Seq(Nat) : v = Upto(q, at) \o r \o From(q, at + 1) /\ Pasted(v, q, r, at)
    BY <1>4, <2>0, PasteNumbers
  <2>2. PICK v \in Seq(Nat) : v = w /\ Pasted(v, q, r, at)
    BY <2>1, Zenon DEF w
  <2> QED BY <2>2 DEF Pasted
<1> HIDE DEF w
<1>7. Len(w) = Len(h) /\ Len(r) = b - a + 1 /\ Len(q) = Len(h) - (b - a + 1)
  BY <1>1, <1>2, <1>3, <1>6
<1>8. ASSUME NEW k \in 1..Len(w) PROVE w[k] = h[k].id
  <2>0. k \in Nat /\ 1 =< k /\ k =< Len(h)
    BY <1>2, <1>7
  <2>a. at \in Nat /\ at =< Len(f)
    BY <1>2, <1>3, <1>4
  <2>1. CASE k =< at
    <3>1. k \in 1..Len(f) /\ k < a
      BY <1>2, <1>5, <2>0, <2>1, <2>a
    <3> QED BY <1>1, <1>3, <1>6, <2>1, <3>1
  <2>2. CASE k > at /\ k =< at + Len(r)
    <3>1. k - at \in 1..Len(p) /\ a + (k - at) - 1 = k /\ ~(k =< at)
      BY <1>1, <1>2, <1>3, <1>5, <2>0, <2>2
    <3>2. w[k] = r[k - at]
      BY <1>6, <2>2, <3>1
    <3>3. r[k - at] = p[k - at].id /\ p[k - at] = h[a + (k - at) - 1]
      BY <1>1, <1>3, <3>1
    <3> QED BY <3>1, <3>2, <3>3
  <2>3. CASE k > at + Len(r)
    <3>0. Len(r) \in Nat /\ at \in Nat
      BY <1>3, <1>4, <1>5, LenProperties
    <3>1. /\ k - Len(r) \in 1..Len(f) /\ ~(k - Len(r) < a) /\ k - Len(r) + (b - a + 1) = k
          /\ ~(k =< at) /\ ~(k =< at + Len(r))
      BY <1>1, <1>2, <1>5, <1>7, <2>0, <2>3, <3>0
    <3>2. w[k] = q[k - Len(r)]
      BY <1>6, <3>1
    <3>3. q[k - Len(r)] = f[k - Len(r)].id /\ f[k - Len(r)] = h[k - Len(r) + (b - a + 1)]
      BY <1>1, <1>3, <3>1
    <3> QED BY <3>1, <3>2, <3>3
  <2>4. at \in Nat /\ Len(r) \in Nat
    BY <1>3, <1>4, <1>5, LenProperties
  <2> QED BY <2>0, <2>1, <2>2, <2>3, <2>4
<1>9. \A k \in 1..Len(w) : w[k] = IdsOf(h)[k]
  BY <1>3, <1>7, <1>8
<1>10. w = IdsOf(h)
  BY <1>3, <1>6, <1>7, <1>9, SeqEqual
<1> QED BY <1>5, <1>10 DEF w, q, r, at, f, p

\* What an undo takes out of the history, h[a] up to h[b], is on the stack.
LEMMA ConversationCut ==
  ASSUME NEW h \in Seq(Msg), NEW s \in Seq(Bundle), NEW g, NEW n \in Nat, NEW d \in BOOLEAN,
         Conversation(h, s, g, n, d),
         NEW a \in Nat \ {0}, NEW b \in Nat, a =< b + 1, b =< Len(h),
         d \/ (a =< b => ~Is(h[a], "tool")), b < Len(h) => Is(h[b + 1], "user"),
         NEW c \in Bundle, c.popped = SubSeq(h, a, b),
         \/ c.at = AtTail /\ b = Len(h)
         \/ c.at = a - 1,
         NEW t, c.before = <<IdsOf(h), t>>,
         c.after[1] = IdsOf(Upto(h, a - 1) \o From(h, b + 1)), c.after[2] + c.delta = t
  PROVE  Conversation(Upto(h, a - 1) \o From(h, b + 1), Append(s, c), g, n, d)
<1> DEFINE f == Upto(h, a - 1) \o From(h, b + 1)
           u == Append(s, c)
           P == InPlayOf(h, s)
           Q == InPlayOf(f, u)
           p == c.popped
<1>1. /\ f \in Seq(Msg) /\ Len(f) = Len(h) - (b - a + 1)
      /\ \A k \in 1..Len(f) : f[k] = h[IF k < a THEN k ELSE k + (b - a + 1)]
      /\ p \in Seq(Msg)
  <2> HIDE DEF P, Q
  <2>1. SubSeq(h, a, b) = p
    OBVIOUS
  <2>2. f \in Seq(Msg) /\ SubSeq(h, a, b) \in Seq(Msg) /\ CutInto(h, a, b, f, SubSeq(h, a, b))
    BY CutFacts
  <2> HIDE DEF f, p
  <2> QED BY <2>1, <2>2 DEF CutInto
<1>2. /\ Ids(f) \cup Ids(p) = Ids(h)
      /\ Range(f) \cup Range(p) \subseteq Range(h)
      /\ Distinct(h) => Distinct(f) /\ Distinct(p) /\ Ids(f) \cap Ids(p) = {}
  BY CutIds
<1>3. /\ u \in Seq(Bundle) /\ DOMAIN u = DOMAIN s \cup {Len(s) + 1}
      /\ \A i \in DOMAIN s : u[i] = s[i]
      /\ u[Len(s) + 1] = c
  BY PushFacts
<1>4. Len(h) \in Nat /\ DOMAIN h = 1..Len(h) /\ Len(f) \in Nat /\ DOMAIN f = 1..Len(f)
  BY <1>1, MsgFacts
<1>n. /\ a - 1 \in Nat /\ a - 1 =< Len(f) /\ a - 1 # AtTail
      /\ b = Len(h) => Len(f) = a - 1
      /\ a - 1 < Len(f) => a \in 1..Len(f) /\ (a - 1) + 1 = a /\ b < Len(h) /\ f[a] = h[b + 1]
  <2> HIDE DEF f, p, u, P, Q
  <2>1. f \in Seq(Msg)
    BY <1>1
  <2>2. Len(f) = Len(h) - (b - a + 1)
    BY <1>1
  <2>3. \A k \in 1..Len(f) : f[k] = h[IF k < a THEN k ELSE k + (b - a + 1)]
    BY <1>1
  <2>4. Len(f) \in Nat /\ Len(h) \in Nat
    BY <1>4
  <2>5. a - 1 \in Nat /\ a - 1 =< Len(f) /\ a - 1 # AtTail
    BY <2>2, <2>4 DEF AtTail
  <2>6. b = Len(h) => Len(f) = a - 1
    BY <2>2, <2>4
  <2>7. ASSUME a - 1 < Len(f)
        PROVE  a \in 1..Len(f) /\ (a - 1) + 1 = a /\ b < Len(h) /\ f[a] = h[b + 1]
    <3>1. a \in 1..Len(f) /\ (a - 1) + 1 = a /\ b < Len(h) /\ ~(a < a) /\ a + (b - a + 1) = b + 1
      BY <2>2, <2>4, <2>7, CutArithmetic
    <3> QED BY <2>3, <3>1
  <2> QED BY <2>5, <2>6, <2>7
<1>c. /\ Once(h, s, g, n) /\ (d \/ AllStanding(h, s)) /\ Made(P) /\ (d \/ Single(P))
      /\ \A i \in DOMAIN s : PlacedIn(P, s[i], n)
      /\ \A i \in DOMAIN s : Undoes(s[i])
  BY DEF Conversation
<1>5. Distinct(h) /\ (d \/ Standing(h))
  BY <1>c DEF Once, AllStanding
<1>d. Range(h) \subseteq P
  BY DEF InPlayOf
<1>e. P \subseteq Msg /\ \A m \in P : m.id \in Nat
  BY InPlayIds
<1>s. ASSUME ~d PROVE Standing(f) /\ Standing(p)
  <2>1. \A i \in DOMAIN h : Declares(h[i]) => Is(h[i], "assistant")
    <3>1. \A i \in DOMAIN h : h[i] \in P
      BY <1>d DEF Range
    <3> QED BY <1>c, <3>1 DEF Made
  <2>2. b < Len(h) => ~Is(h[b + 1], "tool")
    BY DEF Is
  <2>3. a =< b => ~Is(h[a], "tool")
    BY <1>s
  <2> QED BY <1>5, <1>s, <2>1, <2>2, <2>3, CutStanding
<1>o. Once(f, u, g, n)
  <2> HIDE DEF f, p
  <2> QED BY <1>2, <1>5, <1>c, OncePush DEF p
<1> HIDE DEF f, P, p
<1>6. Q \subseteq P
  <2>1. \A i \in DOMAIN u : u[i].popped = p \/ (i \in DOMAIN s /\ u[i].popped = s[i].popped)
    BY <1>3 DEF p
  <2> HIDE DEF u
  <2>2. ASSUME NEW m \in Q PROVE m \in Range(f) \/ m \in Range(p) \/ \E i \in DOMAIN s : m \in Range(s[i].popped)
    BY <2>1 DEF InPlayOf
  <2> QED BY <1>2, <2>2 DEF P, InPlayOf
<1> HIDE DEF u, Q
<1>7. Made(Q) /\ (d \/ Single(Q))
  BY <1>6, <1>c DEF Made, Single
<1>8. d \/ AllStanding(f, u)
  BY <1>3, <1>c, <1>s DEF AllStanding, p
<1>9. ASSUME NEW i \in DOMAIN s PROVE PlacedIn(Q, s[i], n)
  <2>1. s[i] \in Bundle /\ n =< n /\ PlacedIn(P, s[i], n)
    BY <1>c, BundleFacts
  <2>2. Follows(Q, P, n)
    BY <1>6, <1>e DEF Follows
  <2> QED BY <2>1, <2>2, PlacedKept
<1>10. PlacedIn(Q, c, n)
  <2>1. SUFFICES ASSUME c.at # AtTail
                 PROVE  /\ c.at =< Len(c.after[1])
                        /\ \A k \in DOMAIN c.after[1] : c.after[1][k] =< n
                        /\ c.at < Len(c.after[1]) =>
                             \A m \in Q : m.id = c.after[1][c.at + 1] => Is(m, "user")
    BY DEF PlacedIn
  <2>2. /\ c.after[1] = IdsOf(f) /\ Len(IdsOf(f)) = Len(f) /\ DOMAIN IdsOf(f) = 1..Len(f)
        /\ \A k \in 1..Len(f) : IdsOf(f)[k] = f[k].id
    BY <1>1, <1>4, IdsOfType DEF f, IdsOf
  <2>3. c.at = a - 1 /\ a - 1 =< Len(f)
    BY <1>n, <2>1
  <2>4. ASSUME NEW k \in 1..Len(f) PROVE f[k].id =< n /\ f[k].id \in Ids(f)
    <3>1. f[k].id \in Ids(f)
      BY <1>1, IdsFacts
    <3>2. f[k].id \in 1..n
      BY <1>o, <3>1 DEF Once
    <3> QED BY <3>1, <3>2
  <2>5. ASSUME a - 1 < Len(f), NEW m \in Q, m.id = f[a].id PROVE Is(m, "user")
    <3>1. a \in 1..Len(f) /\ f[a] = h[b + 1] /\ b < Len(h)
      BY <1>n, <2>5
    <3>2. Is(f[a], "user")
      BY <3>1
    <3>3. m.id \in Ids(f)
      BY <2>4, <2>5, <3>1
    <3>4. m \in Range(f) \/ \E i \in DOMAIN u : m \in Range(u[i].popped)
      BY DEF Q, InPlayOf
    <3>5. ASSUME NEW i \in DOMAIN u PROVE m \notin Range(u[i].popped)
      <4>1. Ids(u[i].popped) \cap Ids(f) = {}
        BY <1>o DEF Once
      <4>2. u[i].popped \in Seq(Msg)
        BY <1>3, BundleFacts
      <4>3. ASSUME m \in Range(u[i].popped) PROVE FALSE
        <5>1. PICK k \in 1..Len(u[i].popped) : m = u[i].popped[k]
          BY <4>2, <4>3, IdsFacts
        <5>2. m.id \in Ids(u[i].popped)
          BY <4>2, <5>1, IdsFacts
        <5> QED BY <3>3, <4>1, <5>2
      <4> QED BY <4>3
    <3>6. PICK k \in 1..Len(f) : m = f[k]
      BY <1>1, <3>4, <3>5, IdsFacts
    <3>7. k = a
      BY <1>4, <1>o, <2>5, <3>1, <3>6 DEF Once, Distinct
    <3> QED BY <3>2, <3>6, <3>7
  <2>6. a - 1 < Len(f) => IdsOf(f)[(a - 1) + 1] = f[a].id
    <3>1. a - 1 < Len(f) => a \in 1..Len(f) /\ (a - 1) + 1 = a
      BY <1>n
    <3> QED BY <2>2, <3>1
  <2> QED BY <2>2, <2>3, <2>4, <2>5, <2>6
<1>11. Undoes(c)
  <2> DEFINE at == IF c.at = AtTail \/ c.at > Len(c.after[1]) THEN Len(c.after[1]) ELSE c.at
  <2>1. c.after[1] = IdsOf(f) /\ Len(IdsOf(f)) = Len(f)
    BY <1>1, IdsOfType DEF f
  <2>2. at = a - 1
    <3>1. CASE c.at = AtTail /\ b = Len(h)
      BY <1>n, <2>1, <3>1
    <3>2. CASE c.at = a - 1
      <4>1. c.at # AtTail /\ ~(c.at > Len(c.after[1]))
        BY <1>n, <2>1, <3>2
      <4> QED BY <3>2, <4>1
    <3> QED BY <3>1, <3>2
  <2> HIDE DEF at
  <2>3. IdsOf(h) = Upto(IdsOf(f), a - 1) \o IdsOf(p) \o From(IdsOf(f), (a - 1) + 1)
    BY CutIdsOf DEF f, p
  <2>4. c.before = <<Upto(c.after[1], at) \o IdsOf(c.popped) \o From(c.after[1], at + 1),
                     c.after[2] + c.delta>>
    BY <2>1, <2>2, <2>3 DEF p
  <2> QED BY <2>4 DEF Undoes, at
<1>12. ASSUME NEW i \in DOMAIN u PROVE PlacedIn(Q, u[i], n) /\ Undoes(u[i])
  <2>1. CASE i \in DOMAIN s
    BY <1>3, <1>9, <1>c, <2>1
  <2>2. CASE i = Len(s) + 1
    BY <1>3, <1>10, <1>11, <2>2
  <2> QED BY <1>3, <2>1, <2>2
<1> QED BY <1>7, <1>8, <1>12, <1>o DEF Conversation, f, u, Q

\* The next place, while there is one.
LEMMA NextIndex ==
  ASSUME NEW n \in Nat, NEW k \in 0..n, k < n
  PROVE  k + 1 \in 1..n
OBVIOUS

\* A redo puts the last bundle back.
LEMMA ConversationPop ==
  ASSUME NEW h \in Seq(Msg), NEW s \in Seq(Bundle), NEW g, NEW n \in Nat, NEW d \in BOOLEAN,
         Conversation(h, s, g, n, d), s # <<>>, NEW b, b = Last(s),
         NEW at, at = IF b.at = AtTail \/ b.at > Len(h) THEN Len(h) ELSE b.at,
         NEW e \in BOOLEAN, e = (d \/ (b.at # AtTail /\ b.after[1] # IdsOf(h)))
  PROVE  Conversation(Upto(h, at) \o b.popped \o From(h, at + 1), Front(s), g, n, e)
<1> DEFINE f == Upto(h, at) \o b.popped \o From(h, at + 1)
           u == Front(s)
           P == InPlayOf(h, s)
           Q == InPlayOf(f, u)
<1>1. /\ u \in Seq(Bundle) /\ DOMAIN u = DOMAIN s \ {Len(s)}
      /\ \A i \in DOMAIN u : u[i] = s[i]
      /\ b = s[Len(s)] /\ Len(s) \in DOMAIN s
  BY PopFacts
<1>2. b \in Bundle /\ b.popped \in Seq(Msg) /\ b.at \in Nat \cup {AtTail}
  BY <1>1, BundleFacts
<1>3. Len(h) \in Nat /\ DOMAIN h = 1..Len(h)
  BY MsgFacts
<1>4. at \in 0..Len(h)
  BY <1>2, <1>3
<1>5. f \in Seq(Msg)
  BY <1>2, <1>4, PastePlaces
<1>6. /\ Ids(f) = Ids(h) \cup Ids(b.popped)
      /\ Range(f) = Range(h) \cup Range(b.popped)
      /\ Distinct(h) /\ Distinct(b.popped) /\ Ids(h) \cap Ids(b.popped) = {} => Distinct(f)
  BY <1>2, <1>4, PasteIds
<1>7. /\ Once(h, s, g, n) /\ (d \/ AllStanding(h, s)) /\ Made(P) /\ (d \/ Single(P))
      /\ \A i \in DOMAIN s : PlacedIn(P, s[i], n)
      /\ \A i \in DOMAIN s : Undoes(s[i])
  BY DEF Conversation
<1>8. Distinct(h) /\ Distinct(b.popped) /\ Ids(h) \cap Ids(b.popped) = {}
  BY <1>1, <1>7 DEF Once
<1>9. Once(f, u, g, n)
  <2> HIDE DEF f
  <2> QED BY <1>6, <1>7, <1>8, OncePop
<1> HIDE DEF u, P
<1>10. ASSUME ~e PROVE Standing(f)
  <2>1. ~d /\ Standing(h) /\ Standing(b.popped) /\ (b.at = AtTail \/ b.after[1] = IdsOf(h))
    BY <1>1, <1>7, <1>10 DEF AllStanding
  <2>2. ASSUME at < Len(h) PROVE ~Is(h[at + 1], "tool")
    <3>1. b.at = at /\ b.at # AtTail /\ b.after[1] = IdsOf(h)
      BY <1>2, <1>3, <2>1, <2>2
    <3>2. /\ Len(IdsOf(h)) = Len(h)
          /\ \A k \in 1..Len(h) : IdsOf(h)[k] = h[k].id
      BY IdsOfType
    <3>3. at + 1 \in 1..Len(h)
      BY <1>3, <1>4, <2>2, NextIndex
    <3>4. h[at + 1] \in P
      BY <1>3, <3>3 DEF P, InPlayOf, Range
    <3>5. b.at < Len(b.after[1]) /\ PlacedIn(P, b, n)
      BY <1>1, <1>7, <2>2, <3>1, <3>2
    <3>6. h[at + 1].id = b.after[1][b.at + 1]
      BY <3>1, <3>2, <3>3
    <3>7. Is(h[at + 1], "user")
      BY <3>1, <3>4, <3>5, <3>6 DEF PlacedIn
    <3> QED BY <3>7 DEF Is
  <2> QED BY <1>2, <1>4, <2>1, <2>2, PasteStanding
<1> HIDE DEF f
<1>11. Q \subseteq P
  BY <1>1, <1>6 DEF P, InPlayOf
<1> HIDE DEF Q
<1>12. Made(Q) /\ (d \/ Single(Q))
  BY <1>7, <1>11 DEF Made, Single
<1>13. e \/ AllStanding(f, u)
  BY <1>1, <1>7, <1>10 DEF AllStanding
<1>14. ASSUME NEW i \in DOMAIN u PROVE PlacedIn(Q, u[i], n) /\ Undoes(u[i])
  <2>1. /\ i \in DOMAIN s /\ u[i] = s[i] /\ s[i] \in Bundle /\ n =< n /\ PlacedIn(P, s[i], n)
        /\ Undoes(s[i])
    BY <1>1, <1>7, BundleFacts
  <2>2. \A m \in P : m.id \in Nat
    BY InPlayIds DEF P
  <2>3. Follows(Q, P, n)
    BY <1>11, <2>2 DEF Follows
  <2> QED BY <2>1, <2>3, PlacedKept
<1> QED BY <1>9, <1>12, <1>13, <1>14 DEF Conversation, f, u, Q

\* Each message of f is one of h, which may have declared more calls.
Thinned(f, h) ==
  \A m \in Range(f) : \E o \in Range(h) :
    /\ o.id = m.id /\ o.role = m.role /\ o.call = m.call
    /\ Made({o}) => Made({m})

\* The messages of h with the identities in D are not in f, the others are.
Loses(f, h, D) == Distinct(f) /\ Ids(f) \cup D = Ids(h) /\ Ids(f) \cap D = {}

\* Messages with the identities in D leave the history, and others lose calls.
LEMMA ConversationDrop ==
  ASSUME NEW h \in Seq(Msg), NEW s \in Seq(Bundle), NEW g, NEW n \in Nat, NEW d \in BOOLEAN,
         Conversation(h, s, g, n, d),
         NEW f \in Seq(Msg), NEW D, Loses(f, h, D), Thinned(f, h), d \/ Standing(f),
         NEW k, k = g \cup D
  PROVE  Conversation(f, s, k, n, d)
<1> DEFINE P == InPlayOf(h, s)
           Q == InPlayOf(f, s)
<1>1. /\ Once(h, s, g, n) /\ (d \/ AllStanding(h, s)) /\ Made(P) /\ (d \/ Single(P))
      /\ \A i \in DOMAIN s : PlacedIn(P, s[i], n)
      /\ \A i \in DOMAIN s : Undoes(s[i])
  BY DEF Conversation
<1>2. Once(f, s, k, n)
  BY <1>1, OnceDrop DEF Loses
<1>3. ASSUME NEW m \in Q
      PROVE  \E o \in P : /\ o.id = m.id /\ o.role = m.role /\ o.call = m.call
                          /\ Made({o}) => Made({m})
  BY <1>3 DEF InPlayOf, Thinned
<1>4. \A m \in P : m.id \in Nat
  BY InPlayIds
<1> HIDE DEF P, Q
<1>5. Made(Q)
  <2>1. ASSUME NEW m \in Q PROVE Made({m})
    <3>1. PICK o \in P : Made({o}) => Made({m})
      BY <1>3
    <3>2. Made({o})
      BY <1>1 DEF Made
    <3> QED BY <3>1, <3>2
  <2> QED BY <2>1 DEF Made
<1>6. d \/ Single(Q)
  <2>1. ASSUME Single(P) PROVE Single(Q)
    <3>1. ASSUME NEW m \in Q, NEW l \in Q, Is(m, "tool"), Is(l, "tool"), m.call = l.call
          PROVE  m.id = l.id
      <4>1. PICK o \in P : o.id = m.id /\ o.role = m.role /\ o.call = m.call
        BY <1>3
      <4>2. PICK p \in P : p.id = l.id /\ p.role = l.role /\ p.call = l.call
        BY <1>3
      <4> QED BY <2>1, <3>1, <4>1, <4>2 DEF Single, Is
    <3> QED BY <3>1 DEF Single
  <2> QED BY <1>1, <2>1
<1>7. d \/ AllStanding(f, s)
  BY <1>1 DEF AllStanding
<1>8. ASSUME NEW i \in DOMAIN s PROVE PlacedIn(Q, s[i], n)
  <2>1. s[i] \in Bundle /\ n =< n /\ PlacedIn(P, s[i], n)
    BY <1>1, BundleFacts
  <2>2. Follows(Q, P, n)
    BY <1>3, <1>4 DEF Follows
  <2> QED BY <2>1, <2>2, PlacedKept
<1> QED BY <1>1, <1>2, <1>5, <1>6, <1>7, <1>8 DEF Conversation, Q

-----------------------------------------------------------------------------
(* The parts of OrderInv as a relation of the conversation                 *)

\* OrderInv says this of the conversation, the stack and what is gone.
LEMMA OrderParts ==
  ASSUME OrderInv
  PROVE  /\ TypeOK /\ TurnAlone /\ AnswersInPlace
         /\ Conversation(history, redoStack, gone, minted, disturbed)
<1>1. disturbed \in BOOLEAN
  BY DEF OrderInv, TypeOK
<1>2. Once(history, redoStack, gone, minted)
  BY DEF OrderInv, OncePerMessage, Once, Bundled, BundledIn
<1>3. ~disturbed => AllStanding(history, redoStack)
  BY DEF OrderInv, Paired, AllStanding
<1>4. InPlay = InPlayOf(history, redoStack)
  BY DEF InPlay, InPlayOf
<1>5. Made(InPlay)
  BY DEF OrderInv, WellMade, Made
<1>6. ~disturbed => Single(InPlay)
  BY DEF OrderInv, AnsweredOnce, Single
<1>7. \A i \in DOMAIN redoStack : PlacedIn(InPlay, redoStack[i], minted)
  BY DEF OrderInv, PlacedAtPrompts, PlacedIn
<1>8. \A i \in DOMAIN redoStack : Undoes(redoStack[i])
  BY DEF OrderInv, Reversible, Undoes
<1> QED BY <1>1, <1>2, <1>3, <1>4, <1>5, <1>6, <1>7, <1>8 DEF Conversation, OrderInv

\* And nothing else, but for the turn.
LEMMA OrderFromParts ==
  ASSUME TypeOK', TurnAlone', AnswersInPlace',
         Conversation(history', redoStack', gone', minted', disturbed')
  PROVE  OrderInv'
<1> DEFINE P == InPlayOf(history', redoStack')
<1>1. disturbed' \in BOOLEAN
  BY DEF TypeOK
<1>2. InPlay' = P
  BY DEF InPlay, InPlayOf
<1>3. /\ Once(history', redoStack', gone', minted')
      /\ disturbed' \/ AllStanding(history', redoStack')
      /\ Made(P)
      /\ disturbed' \/ Single(P)
      /\ \A i \in DOMAIN redoStack' : PlacedIn(P, redoStack'[i], minted')
      /\ \A i \in DOMAIN redoStack' : Undoes(redoStack'[i])
  BY DEF Conversation
<1>4. OncePerMessage'
  BY <1>3 DEF OncePerMessage, Once, Bundled, BundledIn
<1>5. Paired'
  BY <1>3 DEF Paired, AllStanding
<1> HIDE DEF P
<1>6. WellMade'
  BY <1>2, <1>3 DEF WellMade, Made
<1>7. AnsweredOnce'
  BY <1>2, <1>3 DEF AnsweredOnce, Single
<1>8. PlacedAtPrompts'
  BY <1>2, <1>3 DEF PlacedAtPrompts, PlacedIn
<1>9. Reversible'
  BY <1>3 DEF Reversible, Undoes
<1> QED BY <1>4, <1>5, <1>6, <1>7, <1>8, <1>9 DEF OrderInv

-----------------------------------------------------------------------------
(* What each action does to the conversation                               *)

\* Every response in play answers a call of a message that has been made.
LEMMA CallsAreOld ==
  ASSUME NEW h \in Seq(Msg), NEW s \in Seq(Bundle), NEW g, NEW n \in Nat, NEW d \in BOOLEAN,
         Conversation(h, s, g, n, d), ~d, NEW o \in InPlayOf(h, s), Is(o, "tool")
  PROVE  o.call[1] \in 1..n
<1>1. /\ Once(h, s, g, n) /\ Standing(h) /\ \A i \in DOMAIN s : Standing(s[i].popped)
      /\ Made(InPlayOf(h, s))
  BY DEF Conversation, AllStanding
<1>2. \A x \in Ids(h) \cup BundledIn(s) : x \in 1..n
  BY <1>1 DEF Once
<1>3. \A x \in InPlayOf(h, s) : x.id \in 1..n
  BY <1>2, InPlayIds
<1>4. ASSUME NEW p \in Seq(Msg), Range(p) \subseteq InPlayOf(h, s), Standing(p), o \in Range(p)
      PROVE  o.call[1] \in 1..n
  <2>1. PICK k \in 1..Len(p) : o = p[k]
    BY <1>4, IdsFacts
  <2>2. Len(p) \in Nat /\ DOMAIN p = 1..Len(p)
    BY MsgFacts
  <2>3. PICK j \in 1..(k - 1) : /\ p[k].call \in Range(p[j].calls)
                                /\ \A l \in (j + 1)..(k - 1) : Is(p[l], "tool")
    BY <1>4, <2>1, <2>2 DEF Standing, Places
  <2>4. j \in 1..Len(p)
    BY <2>1, <2>2, <2>3
  <2>5. p[j] \in InPlayOf(h, s)
    BY <1>4, <2>4, IdsFacts
  <2>6. PICK l \in DOMAIN p[j].calls : p[k].call = p[j].calls[l]
    BY <2>3 DEF Range
  <2>7. p[j].calls[l][1] = p[j].id
    BY <1>1, <2>5 DEF Made
  <2> QED BY <1>3, <2>1, <2>5, <2>6, <2>7
<1>5. CASE o \in Range(h)
  BY <1>1, <1>4, <1>5 DEF InPlayOf
<1>6. CASE o \notin Range(h)
  <2>1. PICK i \in 1..Len(s) : o \in Range(s[i].popped)
    BY <1>6, StackFacts
  <2>2. s[i].popped \in Seq(Msg) /\ i \in DOMAIN s
    BY BundleFacts
  <2>3. Range(s[i].popped) \subseteq InPlayOf(h, s)
    BY <2>2 DEF InPlayOf
  <2> QED BY <1>1, <1>4, <2>1, <2>2, <2>3
<1> QED BY <1>5, <1>6

\* New messages that answer no call.
LEMMA ConversationSay ==
  ASSUME NEW h \in Seq(Msg), NEW s \in Seq(Bundle), NEW g, NEW n \in Nat, NEW d \in BOOLEAN,
         Conversation(h, s, g, n, d),
         NEW ms \in Seq(Msg), \A k \in 1..Len(ms) : ms[k].id = n + k,
         \A k \in 1..Len(ms) : ~Is(ms[k], "tool") /\ Made({ms[k]})
  PROVE  Conversation(h \o ms, s, g, n + Len(ms), d)
<1>1. Standing(ms)
  <2>1. DOMAIN ms = 1..Len(ms)
    BY MsgFacts
  <2> QED BY <2>1 DEF Standing, Places
<1>2. d \/ Standing(h \o ms)
  <2>1. d \/ Standing(h)
    BY DEF Conversation, AllStanding
  <2> QED BY <1>1, <2>1, ConcatFacts
<1>3. ASSUME NEW m \in Range(ms) PROVE ~Is(m, "tool") /\ Made({m})
  <2>1. PICK k \in 1..Len(ms) : m = ms[k]
    BY IdsFacts
  <2> QED BY <2>1
<1>4. Made(Range(ms))
  BY <1>3 DEF Made
<1> QED BY <1>2, <1>3, <1>4, ConversationAdd

\* Messages as the actions make them.
LEMMA MadeMessages ==
  ASSUME NEW id \in Nat
  PROVE  /\ \A p : Made({User(id, p)}) /\ ~Is(User(id, p), "tool")
         /\ Made({Answer(id)}) /\ ~Is(Answer(id), "tool")
         /\ \A n \in Nat : Made({Calling(id, n)}) /\ ~Is(Calling(id, n), "tool")
         /\ \A c : Made({Response(id, c)}) /\ Is(Response(id, c), "tool")
<1>1. ASSUME NEW m, m.calls = <<>> PROVE Made({m})
  <2>1. DOMAIN m.calls = {}
    BY <1>1
  <2> QED BY <1>1, <2>1 DEF Made, Declares
<1>2. ASSUME NEW p PROVE Made({User(id, p)}) /\ ~Is(User(id, p), "tool")
  BY <1>1, MessageKinds DEF Is
<1>3. Made({Answer(id)}) /\ ~Is(Answer(id), "tool")
  BY <1>1, MessageKinds DEF Is
<1>4. ASSUME NEW n \in Nat PROVE Made({Calling(id, n)}) /\ ~Is(Calling(id, n), "tool")
  <2> DEFINE m == Calling(id, n)
  <2>1. m.id = id /\ m.role = "assistant" /\ m.calls = [k \in 1..n |-> <<id, k>>]
    BY MessageKinds
  <2> HIDE DEF m
  <2>2. \A k \in DOMAIN m.calls : m.calls[k] = <<id, k>>
    BY <2>1
  <2>3. \A k \in DOMAIN m.calls : m.calls[k][1] = m.id /\ m.calls[k][2] = k
    BY <2>1, <2>2
  <2>4. Made({m}) /\ ~Is(m, "tool")
    BY <2>1, <2>3 DEF Made, Is
  <2> QED BY <2>4 DEF m
<1>5. ASSUME NEW c PROVE Made({Response(id, c)}) /\ Is(Response(id, c), "tool")
  BY <1>1, MessageKinds DEF Is
<1> QED BY <1>2, <1>3, <1>4, <1>5

\* All there is to say of a new answer with n calls.
LEMMA CallingFacts ==
  ASSUME HistoryAssumption, NEW id \in Nat, NEW n \in Nat
  PROVE  /\ Calling(id, n) \in Msg /\ Calling(id, n).id = id /\ Calling(id, n).role = "assistant"
         /\ Calling(id, n).calls = [k \in 1..n |-> <<id, k>>]
         /\ Made({Calling(id, n)}) /\ ~Is(Calling(id, n), "tool")
<1>1. Calling(id, n) \in Msg
  BY MessageTypes
<1>2. Calling(id, n).id = id /\ Calling(id, n).role = "assistant"
  BY DEF Calling, Message
<1>3. Calling(id, n).calls = [k \in 1..n |-> <<id, k>>]
  BY DEF Calling, Message
<1>4. Made({Calling(id, n)}) /\ ~Is(Calling(id, n), "tool")
  BY MadeMessages
<1> QED BY <1>1, <1>2, <1>3, <1>4

\* All there is to say of a new response.
LEMMA ResponseFacts ==
  ASSUME HistoryAssumption, NEW id \in Nat, NEW c \in Call
  PROVE  /\ Response(id, c) \in Msg /\ Response(id, c).id = id /\ Response(id, c).call = c
         /\ Made({Response(id, c)}) /\ Is(Response(id, c), "tool")
<1>1. Response(id, c) \in Msg
  BY MessageTypes
<1>2. Response(id, c).id = id /\ Response(id, c).call = c
  BY DEF Response, Message
<1>3. Made({Response(id, c)}) /\ Is(Response(id, c), "tool")
  BY MadeMessages
<1> QED BY <1>1, <1>2, <1>3

\* The prompt is added and the stack dropped.
LEMMA ConversationStartTurn ==
  ASSUME HistoryAssumption, OrderInv, StartTurn
  PROVE  Conversation(history', redoStack', gone', minted', disturbed')
<1> DEFINE new == [NoTurn EXCEPT !.input = Head(queue)]
           ms  == IF new.input = NoInput THEN <<>> ELSE <<User(minted + 1, new.input)>>
<1>1. /\ TypeOK /\ Conversation(history, redoStack, gone, minted, disturbed)
      /\ history \in Seq(Msg) /\ redoStack \in Seq(Bundle) /\ minted \in Nat /\ minted + 1 \in Nat
      /\ disturbed \in BOOLEAN /\ queue \in Seq(Input)
  BY OrderParts DEF TypeOK
<1>2. new.input \in Input
  <2>1. Head(queue) \in Input
    BY <1>1, HeadTailProperties DEF StartTurn
  <2> QED BY <2>1, TypeTurn, <1>1 DEF NoTurn
<1>3. /\ history' = history \o ms /\ minted' = minted + Len(ms)
      /\ redoStack' = <<>> /\ gone' = gone \cup Bundled /\ disturbed' = disturbed
  BY DEF StartTurn, Say
<1> HIDE DEF new
<1> DEFINE u == User(minted + 1, new.input)
<1>4. u \in Msg /\ u.id = minted + 1 /\ Made({u}) /\ ~Is(u, "tool")
  <2>1. \A p \in Input : User(minted + 1, p) \in Msg
    BY <1>1, MessageTypes
  <2>2. u.id = minted + 1
    BY DEF User, Message
  <2>3. \A p : Made({User(minted + 1, p)}) /\ ~Is(User(minted + 1, p), "tool")
    BY <1>1, MadeMessages
  <2> QED BY <1>2, <2>1, <2>2, <2>3
<1> HIDE DEF u
<1>5. ms = <<>> \/ ms = <<u>>
  BY DEF u
<1>6. /\ ms \in Seq(Msg)
      /\ \A k \in 1..Len(ms) : ms[k].id = minted + k
      /\ \A k \in 1..Len(ms) : ~Is(ms[k], "tool") /\ Made({ms[k]})
  <2>1. CASE ms = <<>>
    <3>1. Len(ms) = 0 /\ ms \in Seq(Msg)
      BY <2>1, EmptySeq
    <3> QED BY <3>1
  <2>2. CASE ms = <<u>>
    <3>1. ms \in Seq(Msg) /\ Len(ms) = 1 /\ ms[1] = u
      BY <1>4, <2>2
    <3>2. ASSUME NEW k \in 1..Len(ms)
          PROVE  ms[k].id = minted + k /\ ~Is(ms[k], "tool") /\ Made({ms[k]})
      <4>1. k = 1 /\ ms[k] = u
        BY <3>1
      <4> QED BY <1>4, <4>1
    <3> QED BY <3>1, <3>2
  <2> QED BY <1>5, <2>1, <2>2
<1> HIDE DEF ms
<1>7. Conversation(history \o ms, redoStack, gone, minted + Len(ms), disturbed)
  BY <1>1, <1>6, ConversationSay
<1>8. Bundled = BundledIn(redoStack)
  BY DEF Bundled, BundledIn
<1> QED BY <1>3, <1>7, <1>8, ConversationDropStack

\* An answer with one call and its response are added together.
LEMMA ConversationPrecallsReturn ==
  ASSUME HistoryAssumption, OrderInv, PrecallsReturn
  PROVE  Conversation(history', redoStack', gone', minted', disturbed')
<1> DEFINE ast == Calling(minted + 1, 1)
           c   == ast.calls[1]
           r   == Response(minted + 2, c)
           ms  == <<ast, r>>
<1>1. /\ TypeOK /\ Conversation(history, redoStack, gone, minted, disturbed)
      /\ history \in Seq(Msg) /\ redoStack \in Seq(Bundle) /\ minted \in Nat
      /\ minted + 1 \in Nat /\ minted + 2 \in Nat /\ disturbed \in BOOLEAN
  BY OrderParts DEF TypeOK
<1>2. /\ history' = history \o ms /\ minted' = minted + Len(ms)
      /\ redoStack' = redoStack /\ gone' = gone /\ disturbed' = disturbed
  BY DEF PrecallsReturn, Say, traces
<1>3. /\ ast \in Msg /\ ast.id = minted + 1 /\ ast.role = "assistant"
      /\ ast.calls = [k \in 1..1 |-> <<minted + 1, k>>] /\ Made({ast}) /\ ~Is(ast, "tool")
  <2>1. 1 \in Nat
    OBVIOUS
  <2>2. \A n \in Nat :
          /\ Calling(minted + 1, n) \in Msg /\ Calling(minted + 1, n).id = minted + 1
          /\ Calling(minted + 1, n).role = "assistant"
          /\ Calling(minted + 1, n).calls = [k \in 1..n |-> <<minted + 1, k>>]
          /\ Made({Calling(minted + 1, n)}) /\ ~Is(Calling(minted + 1, n), "tool")
    BY <1>1, CallingFacts
  <2> QED BY <2>1, <2>2, Zenon
<1>4. c = <<minted + 1, 1>> /\ c \in Call /\ c \in Range(ast.calls)
  <2> HIDE DEF ast
  <2>1. c = <<minted + 1, 1>>
    BY <1>3
  <2>2. 1 \in DOMAIN ast.calls
    BY <1>3
  <2> HIDE DEF c
  <2>3. c \in Range(ast.calls)
    BY <2>2 DEF Range, c
  <2> QED BY <1>1, <2>1, <2>3 DEF Call
<1> HIDE DEF ast, c
<1>5. r \in Msg /\ r.id = minted + 2 /\ r.call = c /\ Made({r}) /\ Is(r, "tool")
  BY <1>1, <1>4, ResponseFacts
<1> HIDE DEF r
<1>6. /\ ms \in Seq(Msg) /\ Len(ms) = 2 /\ ms[1] = ast /\ ms[2] = r
      /\ \A k \in 1..Len(ms) : ms[k].id = minted + k
      /\ Range(ms) = {ast, r}
  <2>1. ms \in Seq(Msg) /\ Len(ms) = 2 /\ ms[1] = ast /\ ms[2] = r
    BY <1>3, <1>5
  <2> HIDE DEF ms
  <2>2. \A k \in 1..Len(ms) : k = 1 \/ k = 2
    BY <2>1
  <2>3. 1 \in 1..Len(ms) /\ 2 \in 1..Len(ms)
    BY <2>1
  <2>4. \A k \in 1..Len(ms) : ms[k].id = minted + k
    BY <1>3, <1>5, <2>1, <2>2
  <2>5. Range(ms) = {ast, r}
    BY <2>1, <2>2, <2>3, IdsFacts
  <2> QED BY <2>1, <2>4, <2>5
<1> HIDE DEF ms
<1>7. Standing(ms)
  <2>1. DOMAIN ms = 1..2
    BY <1>6, MsgFacts
  <2>2. ASSUME NEW i \in 1..2, Is(ms[i], "tool")
        PROVE  \E j \in 1..(i - 1) : /\ ms[i].call \in Range(ms[j].calls)
                                     /\ \A k \in (j + 1)..(i - 1) : Is(ms[k], "tool")
    <3>1. i = 2
      BY <1>3, <1>6, <2>2
    <3>2. 1 \in 1..(i - 1) /\ (1 + 1)..(i - 1) = {}
      BY <3>1
    <3>3. ms[i].call \in Range(ms[1].calls)
      BY <1>4, <1>5, <1>6, <3>1
    <3> QED BY <3>2, <3>3
  <2> QED BY <2>1, <2>2 DEF Standing, Places
<1>8. Made(Range(ms))
  BY <1>3, <1>5, <1>6 DEF Made
<1>9. disturbed \/ Standing(history \o ms)
  <2>1. disturbed \/ Standing(history)
    BY <1>1 DEF Conversation, AllStanding
  <2> QED BY <1>1, <1>6, <1>7, <2>1, ConcatFacts
<1>10. ASSUME ~disturbed, NEW m \in Range(ms), NEW o \in InPlayOf(history, redoStack) \cup Range(ms),
              Is(m, "tool"), Is(o, "tool"), m.call = o.call
       PROVE  m.id = o.id
  <2>1. m = r
    BY <1>3, <1>6, <1>10
  <2>2. m.call[1] = minted + 1
    BY <1>4, <1>5, <2>1
  <2>3. o \notin InPlayOf(history, redoStack)
    <3>1. SUFFICES ASSUME o \in InPlayOf(history, redoStack) PROVE FALSE
      OBVIOUS
    <3>2. o.call[1] \in 1..minted
      BY <1>1, <1>10, <3>1, CallsAreOld
    <3> QED BY <1>1, <1>10, <2>2, <3>2
  <2>4. o = r
    BY <1>3, <1>6, <1>10, <2>3
  <2> QED BY <2>1, <2>4
<1>11. Conversation(history \o ms, redoStack, gone, minted + Len(ms), disturbed)
  <2>1. disturbed \/ \A m \in Range(ms), o \in InPlayOf(history, redoStack) \cup Range(ms) :
                         Is(m, "tool") /\ Is(o, "tool") /\ m.call = o.call => m.id = o.id
    BY <1>10
  <2>2. \A k \in 1..Len(ms) : ms[k].id = minted + k
    BY <1>6
  <2>3. ms \in Seq(Msg)
    BY <1>6
  <2>4. Conversation(history, redoStack, gone, minted, disturbed)
    BY <1>1
  <2>5. /\ history \in Seq(Msg) /\ redoStack \in Seq(Bundle) /\ minted \in Nat
        /\ disturbed \in BOOLEAN
    BY <1>1
  <2> QED BY <1>8, <1>9, <2>1, <2>2, <2>3, <2>4, <2>5, ConversationAdd
<1> QED BY <1>2, <1>11


\* A new answer has only calls of its own.
LEMMA ConversationModelAnswers ==
  ASSUME HistoryAssumption, OrderInv, ModelAnswers
  PROVE  Conversation(history', redoStack', gone', minted', disturbed')
<1>1. /\ TypeOK /\ Conversation(history, redoStack, gone, minted, disturbed)
      /\ history \in Seq(Msg) /\ redoStack \in Seq(Bundle) /\ minted \in Nat
      /\ minted + 1 \in Nat /\ disturbed \in BOOLEAN
  BY OrderParts DEF TypeOK
<1>2. redoStack' = redoStack /\ gone' = gone /\ disturbed' = disturbed
  BY DEF ModelAnswers, traces
<1>3. PICK m \in Msg : Say(<<m>>) /\ m.id = minted + 1 /\ Made({m}) /\ ~Is(m, "tool")
  <2>1. CASE Say(<<Answer(minted + 1)>>)
    <3>1. Answer(minted + 1) \in Msg
      BY <1>1, MessageTypes
    <3>2. Answer(minted + 1).id = minted + 1
      BY DEF Answer, Message
    <3>3. Made({Answer(minted + 1)}) /\ ~Is(Answer(minted + 1), "tool")
      BY <1>1, MadeMessages
    <3> QED BY <2>1, <3>1, <3>2, <3>3
  <2>2. CASE \E n \in 1..MaxCalls : Say(<<Calling(minted + 1, n)>>)
    <3>1. PICK n \in 1..MaxCalls : Say(<<Calling(minted + 1, n)>>)
      BY <2>2
    <3>2. n \in Nat
      BY DEF HistoryAssumption
    <3> QED BY <1>1, <3>1, <3>2, CallingFacts
  <2> QED BY <2>1, <2>2 DEF ModelAnswers
<1> DEFINE ms == <<m>>
<1>4. /\ ms \in Seq(Msg) /\ Len(ms) = 1 /\ ms[1] = m
      /\ history' = history \o ms /\ minted' = minted + Len(ms)
  BY <1>3 DEF Say
<1> HIDE DEF ms
<1>5. \A k \in 1..Len(ms) : k = 1
  BY <1>4
<1>6. /\ \A k \in 1..Len(ms) : ms[k].id = minted + k
      /\ \A k \in 1..Len(ms) : ~Is(ms[k], "tool") /\ Made({ms[k]})
  BY <1>3, <1>4, <1>5
<1>7. Conversation(history \o ms, redoStack, gone, minted + Len(ms), disturbed)
  <2>1. history \in Seq(Msg) /\ redoStack \in Seq(Bundle) /\ minted \in Nat /\ disturbed \in BOOLEAN
    BY <1>1
  <2>2. Conversation(history, redoStack, gone, minted, disturbed)
    BY <1>1
  <2>3. ms \in Seq(Msg)
    BY <1>4
  <2>4. \A k \in 1..Len(ms) : ms[k].id = minted + k
    BY <1>6
  <2>5. \A k \in 1..Len(ms) : ~Is(ms[k], "tool") /\ Made({ms[k]})
    BY <1>6
  <2> QED BY <2>1, <2>2, <2>3, <2>4, <2>5, ConversationSay, Zenon
<1> QED BY <1>2, <1>4, <1>7

\* Where a turn that executes a tool stands in the conversation.
LEMMA ToolPlace ==
  ASSUME OrderInv, turn.phase = "tool", ~turn.aborted, ~disturbed
  PROVE  \E i \in 1..Len(history) :
           /\ history[i].id = turn.msg /\ history[i].calls = turn.calls
           /\ turn.at \in DOMAIN turn.calls /\ turn.call = turn.calls[turn.at]
           /\ turn.calls \in Seq(Call) /\ turn.at \in 1..Len(turn.calls) /\ turn.call \in Call
           /\ Len(history) = i + turn.at - 1
           /\ \A k \in 1..(turn.at - 1) : /\ i + k \in 1..Len(history) /\ Is(history[i + k], "tool")
                                          /\ history[i + k].call = turn.calls[k]
           /\ \A k \in (i + 1)..Len(history) : Is(history[k], "tool") /\ k - i \in 1..(turn.at - 1)
                                               /\ history[k].call = turn.calls[k - i]
<1>1. TypeOK /\ AnswersInPlace /\ history \in Seq(Msg) /\ turn.calls \in Seq(Call) /\ turn.call \in Call
  BY OrderParts DEF TypeOK, Turn
<1>2. DOMAIN history = 1..Len(history) /\ Len(history) \in Nat
  BY <1>1, MsgFacts
<1>3. DOMAIN turn.calls = 1..Len(turn.calls) /\ Len(turn.calls) \in Nat
  BY <1>1, LenProperties
<1>4. PICK i \in DOMAIN history :
        /\ history[i].id = turn.msg /\ history[i].calls = turn.calls
        /\ turn.at \in DOMAIN turn.calls /\ turn.call = turn.calls[turn.at]
        /\ Len(history) = i + turn.at - 1
        /\ \A k \in 1..(turn.at - 1) : Is(history[i + k], "tool") /\ history[i + k].call = turn.calls[k]
  BY <1>1 DEF AnswersInPlace
<1>5. i \in 1..Len(history) /\ i \in Nat /\ turn.at \in Nat /\ turn.at \in 1..Len(turn.calls)
  BY <1>2, <1>3, <1>4
<1>a. PICK x : x = turn.at
  OBVIOUS
<1>b. x \in Nat /\ 1 =< x
  BY <1>5, <1>a
<1>c. Len(history) = i + x - 1
  BY <1>4, <1>a
<1>l. PICK e \in Nat : e = turn.at - 1 /\ e = x - 1
  BY <1>a, <1>b
<1>h. Len(history) = i + e /\ i \in Nat
  BY <1>b, <1>c, <1>5, <1>l
<1>6. ASSUME NEW k \in 1..(turn.at - 1) PROVE i + k \in 1..Len(history)
  <2>1. k \in 1..e
    BY <1>l
  <2>2. i + k \in 1..(i + e)
    BY <1>h, <2>1
  <2> QED BY <1>h, <2>2
<1>7. ASSUME NEW k \in (i + 1)..Len(history)
      PROVE  k - i \in 1..(turn.at - 1) /\ i + (k - i) = k
  <2>1. k \in (i + 1)..(i + e)
    BY <1>h
  <2>2. k - i \in 1..e /\ i + (k - i) = k
    BY <1>h, <2>1
  <2> QED BY <1>l, <2>2
<1>8. ASSUME NEW k \in (i + 1)..Len(history)
      PROVE  Is(history[k], "tool") /\ history[k].call = turn.calls[k - i]
  <2>1. k - i \in 1..(turn.at - 1) /\ i + (k - i) = k
    BY <1>7
  <2>2. Is(history[i + (k - i)], "tool") /\ history[i + (k - i)].call = turn.calls[k - i]
    BY <1>4, <2>1
  <2> QED BY <2>1, <2>2
<1> QED BY <1>1, <1>4, <1>5, <1>6, <1>7, <1>8

\* The response goes behind the answer and the responses before it (ToolPlace),
\* and its call has no response yet.
LEMMA ConversationToolReturns ==
  ASSUME HistoryAssumption, OrderInv, ToolReturns
  PROVE  Conversation(history', redoStack', gone', minted', disturbed')
<1>1. /\ TypeOK /\ TurnAlone /\ Conversation(history, redoStack, gone, minted, disturbed)
      /\ history \in Seq(Msg) /\ redoStack \in Seq(Bundle) /\ minted \in Nat
      /\ minted + 1 \in Nat /\ disturbed \in BOOLEAN /\ turn.call \in Call
  BY OrderParts DEF TypeOK, Turn
<1> DEFINE r  == Response(minted + 1, turn.call)
           ms == <<r>>
<1>2. /\ redoStack' = redoStack /\ gone' = gone /\ disturbed' = disturbed
      /\ history' = history \o ms /\ minted' = minted + Len(ms)
      /\ turn.phase = "tool" /\ ~turn.aborted
  BY DEF ToolReturns, Say, traces
<1>3. r \in Msg /\ r.id = minted + 1 /\ r.call = turn.call /\ Made({r}) /\ Is(r, "tool")
  BY <1>1, ResponseFacts
<1> HIDE DEF r
<1>4. ms \in Seq(Msg) /\ Len(ms) = 1 /\ ms[1] = r
  BY <1>3
<1>5. ms = <<r>>
  OBVIOUS
<1> HIDE DEF ms
<1>6. \A k \in 1..Len(ms) : k = 1
  BY <1>4
<1>7. /\ \A k \in 1..Len(ms) : ms[k].id = minted + k
      /\ Range(ms) = {r} /\ Made(Range(ms))
  <2>1. \A k \in 1..Len(ms) : ms[k].id = minted + k
    BY <1>3, <1>4, <1>6
  <2>2. 1 \in 1..Len(ms)
    BY <1>4
  <2>3. Range(ms) = {r}
    BY <1>4, <1>6, <2>2, IdsFacts
  <2> QED BY <1>3, <2>1, <2>3
<1>8. Once(history, redoStack, gone, minted) /\ (disturbed \/ Standing(history)) /\ Made(InPlayOf(history, redoStack))
  BY <1>1 DEF Conversation, AllStanding
<1>9. ASSUME ~disturbed
      PROVE  /\ Standing(history \o ms)
             /\ \A o \in InPlayOf(history, redoStack) : Is(o, "tool") => o.call # turn.call
  <2>1. PICK i \in 1..Len(history) :
           /\ history[i].id = turn.msg /\ history[i].calls = turn.calls
           /\ turn.at \in DOMAIN turn.calls /\ turn.call = turn.calls[turn.at]
           /\ turn.calls \in Seq(Call) /\ turn.at \in 1..Len(turn.calls) /\ turn.call \in Call
           /\ Len(history) = i + turn.at - 1
           /\ \A k \in 1..(turn.at - 1) : /\ i + k \in 1..Len(history) /\ Is(history[i + k], "tool")
                                          /\ history[i + k].call = turn.calls[k]
           /\ \A k \in (i + 1)..Len(history) : Is(history[k], "tool") /\ k - i \in 1..(turn.at - 1)
                                               /\ history[k].call = turn.calls[k - i]
    BY <1>2, <1>9, ToolPlace
  <2>2. r.call \in Range(history[i].calls)
    BY <1>3, <2>1 DEF Range
  <2>3. Standing(history \o ms)
    <3>1. Standing(history)
      BY <1>8, <1>9
    <3>2. Standing(history \o <<r>>)
      BY <1>1, <1>3, <2>1, <2>2, <3>1, StandingResponse
    <3> QED BY <1>5, <3>2
  <2>4. ASSUME NEW o \in InPlayOf(history, redoStack), Is(o, "tool"), o.call = turn.call PROVE FALSE
    <3>1. redoStack = <<>>
      BY <1>1, <1>2 DEF TurnAlone
    <3>2. o \in Range(history)
      <4>1. DOMAIN redoStack = {}
        BY <3>1
      <4> QED BY <4>1 DEF InPlayOf
    <3>3. PICK x \in 1..Len(history) : o = history[x]
      BY <1>1, <3>2, IdsFacts
    <3>4. Len(history) \in Nat /\ DOMAIN history = 1..Len(history)
      BY <1>1, MsgFacts
    <3>5. PICK j \in 1..(x - 1) : /\ history[x].call \in Range(history[j].calls)
                                  /\ \A k \in (j + 1)..(x - 1) : Is(history[k], "tool")
      BY <1>8, <1>9, <2>4, <3>3, <3>4 DEF Standing, Places
    <3>6. j \in 1..Len(history) /\ j < x /\ j \in Nat /\ x \in Nat
      BY <3>4, <3>5
    <3>7. history[j] \in InPlayOf(history, redoStack) /\ history[i] \in InPlayOf(history, redoStack)
      BY <1>1, <3>6, IdsFacts DEF InPlayOf
    <3>8. PICK n \in DOMAIN history[j].calls : history[j].calls[n] = turn.call
      BY <2>4, <3>3, <3>5 DEF Range
    <3>9. turn.call[1] = history[j].id
      BY <1>8, <3>7, <3>8 DEF Made
    <3>10. turn.call[1] = history[i].id
      <4>1. turn.at \in DOMAIN history[i].calls /\ history[i].calls[turn.at] = turn.call
        BY <2>1
      <4>2. \A k \in DOMAIN history[i].calls : history[i].calls[k][1] = history[i].id
        BY <1>8, <3>7 DEF Made
      <4>3. history[i].calls[turn.at][1] = history[i].id
        BY <4>1, <4>2
      <4> QED BY <4>1, <4>3
    <3>11. j = i
      BY <1>8, <3>4, <3>6, <3>9, <3>10 DEF Once, Distinct
    <3>12. x \in (i + 1)..Len(history)
      BY <3>3, <3>4, <3>6, <3>11
    <3>13. x - i \in 1..(turn.at - 1) /\ turn.calls[x - i] = turn.call
      BY <2>1, <2>4, <3>3, <3>12
    <3>14. Len(turn.calls) \in Nat /\ DOMAIN turn.calls = 1..Len(turn.calls)
      BY <2>1, LenProperties
    <3>15. x - i \in DOMAIN turn.calls /\ x - i # turn.at
      <4> DEFINE y == x - i
                 t == turn.at
      <4>1. y \in 1..(t - 1) /\ t \in 1..Len(turn.calls)
        BY <2>1, <3>13
      <4> HIDE DEF y, t
      <4>2. y \in 1..Len(turn.calls) /\ y # t
        BY <3>14, <4>1
      <4> QED BY <3>14, <4>2 DEF y, t
    <3>16. \A k, l \in DOMAIN history[i].calls : history[i].calls[k] = history[i].calls[l] => k = l
      BY <1>8, <3>7 DEF Made
    <3> QED BY <2>1, <3>13, <3>15, <3>16
  <2> QED BY <2>3, <2>4
<1>10. disturbed \/ Standing(history \o ms)
  BY <1>1, <1>9
<1>11. disturbed \/ \A m \in Range(ms), o \in InPlayOf(history, redoStack) \cup Range(ms) :
                         Is(m, "tool") /\ Is(o, "tool") /\ m.call = o.call => m.id = o.id
  BY <1>1, <1>3, <1>7, <1>9
<1>12. Conversation(history \o ms, redoStack, gone, minted + Len(ms), disturbed)
  <2>1. \A k \in 1..Len(ms) : ms[k].id = minted + k
    BY <1>7
  <2>2. ms \in Seq(Msg) /\ Made(Range(ms))
    BY <1>4, <1>7
  <2>3. Conversation(history, redoStack, gone, minted, disturbed)
    BY <1>1
  <2>4. /\ history \in Seq(Msg) /\ redoStack \in Seq(Bundle) /\ minted \in Nat
        /\ disturbed \in BOOLEAN
    BY <1>1
  <2> QED BY <1>10, <1>11, <2>1, <2>2, <2>3, <2>4, ConversationAdd
<1> QED BY <1>2, <1>12


\* An undo that cuts before no response and ends at a prompt, or at the end.
LEMMA ConversationTakeOut ==
  ASSUME HistoryAssumption, OrderInv,
         NEW a \in Nat \ {0}, NEW b \in Nat, NEW at \in Nat \cup {AtTail},
         a =< b + 1, b =< Len(history), TakeOut(a, b, at),
         disturbed \/ (a =< b => ~Is(history[a], "tool")),
         b < Len(history) => Is(history[b + 1], "user"),
         \/ at = AtTail /\ b = Len(history)
         \/ at = a - 1
  PROVE  Conversation(history', redoStack', gone, minted, disturbed)
<1>1. /\ TypeOK /\ Conversation(history, redoStack, gone, minted, disturbed)
      /\ history \in Seq(Msg) /\ redoStack \in Seq(Bundle) /\ minted \in Nat
      /\ disturbed \in BOOLEAN
  BY OrderParts DEF TypeOK
<1>2. PICK c \in Bundle :
        /\ redoStack' = Append(redoStack, c)
        /\ c.popped = SubSeq(history, a, b) /\ c.at = at
        /\ c.before = <<IdsOf(history), turnCount>>
        /\ c.after[1] = IdsOf(history') /\ c.after[2] + c.delta = turnCount
  BY <1>1, TypeTakeOut
<1>3. history' = Upto(history, a - 1) \o From(history, b + 1)
  BY DEF TakeOut
<1>4. c.after[1] = IdsOf(Upto(history, a - 1) \o From(history, b + 1))
  BY <1>2, <1>3
<1>5. Conversation(Upto(history, a - 1) \o From(history, b + 1), Append(redoStack, c),
                   gone, minted, disturbed)
  <2>1. /\ history \in Seq(Msg) /\ redoStack \in Seq(Bundle) /\ minted \in Nat
        /\ disturbed \in BOOLEAN
    BY <1>1
  <2>2. Conversation(history, redoStack, gone, minted, disturbed)
    BY <1>1
  <2>3. c.popped = SubSeq(history, a, b) /\ c.before = <<IdsOf(history), turnCount>>
    BY <1>2
  <2>4. c.after[2] + c.delta = turnCount
    BY <1>2
  <2>5. (c.at = AtTail /\ b = Len(history)) \/ c.at = a - 1
    BY <1>2
  <2>6. c.popped = SubSeq(history, a, b)
    BY <2>3
  <2>7. c.before = <<IdsOf(history), turnCount>>
    BY <2>3
  <2> HIDE <1>1, <1>2, <1>3, <2>3
  <2> QED BY <1>4, <2>1, <2>2, <2>4, <2>5, <2>6, <2>7, ConversationCut
<1> QED BY <1>2, <1>3, <1>5

\* Only answers declare calls.
LEMMA AnswersDeclare ==
  ASSUME NEW h \in Seq(Msg), NEW s, Made(InPlayOf(h, s))
  PROVE  \A k \in DOMAIN h : Declares(h[k]) => Is(h[k], "assistant")
<1>1. \A k \in DOMAIN h : h[k] \in InPlayOf(h, s)
  BY DEF InPlayOf, Range
<1> QED BY <1>1 DEF Made

\* The default undo cuts at Left, which is never before a response.
LEMMA ConversationUndoTail ==
  ASSUME HistoryAssumption, OrderInv, UndoTail
  PROVE  Conversation(history', redoStack', gone, minted, disturbed)
<1>1. /\ TypeOK /\ Conversation(history, redoStack, gone, minted, disturbed)
      /\ history \in Seq(Msg)
  BY OrderParts DEF TypeOK
<1>2. CASE UNCHANGED <<history, redoStack>>
  BY <1>1, <1>2
<1>3. CASE TakeOut(Left(history) + 1, Len(history), AtTail)
  <2> DEFINE a == Left(history) + 1
             b == Len(history)
  <2>1. /\ Left(history) \in 0..Len(history) /\ a \in Nat \ {0} /\ b \in Nat
        /\ a =< b + 1 /\ b =< Len(history) /\ ~(b < Len(history))
        /\ a =< b => Left(history) < Len(history)
    BY <1>1, TypeRecovered
  <2>2. disturbed \/ (a =< b => ~Is(history[a], "tool"))
    <3>1. disturbed \/ Standing(history)
      BY <1>1 DEF Conversation, AllStanding
    <3>2. \A k \in DOMAIN history : Declares(history[k]) => Is(history[k], "assistant")
      BY <1>1, AnswersDeclare DEF Conversation
    <3>3. disturbed \/ (Left(history) < Len(history) => ~Is(history[Left(history) + 1], "tool"))
      BY <1>1, <3>1, <3>2, LeftFacts
    <3> QED BY <2>1, <3>3
  <2>3. TakeOut(a, b, AtTail) /\ b = Len(history)
    BY <1>3
  <2> HIDE DEF a, b
  <2>4. AtTail \in Nat \cup {AtTail}
    OBVIOUS
  <2>5. AtTail = AtTail /\ b = Len(history)
    BY <2>3
  <2> QED BY <2>1, <2>2, <2>3, <2>4, <2>5, ConversationTakeOut
<1> QED BY <1>2, <1>3 DEF UndoTail

\* A targeted undo takes the segment from a prompt up to the next.
LEMMA ConversationUndoEarlier ==
  ASSUME HistoryAssumption, OrderInv, NEW i \in DOMAIN history, UndoEarlier(i)
  PROVE  Conversation(history', redoStack', gone, minted, disturbed)
<1>1. history \in Seq(Msg)
  BY OrderParts DEF TypeOK
<1>2. /\ \E s \in 1..i : Is(history[s], "user")
      /\ TakeOut(SegmentStart(i), SegmentEnd(i), SegmentStart(i) - 1)
  BY DEF UndoEarlier
<1>3. /\ SegmentStart(i) \in 1..i /\ Is(history[SegmentStart(i)], "user")
      /\ SegmentEnd(i) \in i..Len(history)
      /\ SegmentEnd(i) = Len(history) \/ Is(history[SegmentEnd(i) + 1], "user")
  BY <1>1, <1>2, SegmentFacts
<1>4. Len(history) \in Nat /\ DOMAIN history = 1..Len(history)
  BY <1>1, MsgFacts
<1> DEFINE a == SegmentStart(i)
           b == SegmentEnd(i)
           at == a - 1
<1>5. /\ a \in 1..i /\ b \in i..Len(history) /\ Is(history[a], "user")
      /\ b = Len(history) \/ Is(history[b + 1], "user")
      /\ TakeOut(a, b, at)
  BY <1>2, <1>3
<1> HIDE DEF a, b
<1>6. /\ a \in Nat \ {0} /\ b \in Nat /\ at \in Nat \cup {AtTail}
      /\ a =< b + 1 /\ b =< Len(history) /\ at = a - 1
  <2>1. i \in Nat /\ i >= 1
    BY <1>4
  <2>2. a \in Nat /\ a >= 1 /\ a =< i
    BY <1>5, <2>1
  <2>3. b \in Nat /\ i =< b /\ b =< Len(history)
    <3> DEFINE N == Len(history)
    <3>1. b \in i..N /\ N \in Nat
      BY <1>4, <1>5
    <3> HIDE DEF N
    <3>2. b \in Nat /\ i =< b /\ b =< N
      BY <2>1, <3>1
    <3> QED BY <3>2 DEF N
  <2> QED BY <2>1, <2>2, <2>3
<1>7. ~Is(history[a], "tool")
  BY <1>5 DEF Is
<1>8. b < Len(history) => Is(history[b + 1], "user")
  <2>1. b = Len(history) => ~(b < Len(history))
    BY <1>4
  <2> QED BY <1>5, <2>1
<1> HIDE DEF at
<1> QED BY <1>5, <1>6, <1>7, <1>8, ConversationTakeOut

\* The bundle goes back in front of a prompt, or the redo is on record as one that
\* found another conversation.
LEMMA ConversationRedo ==
  ASSUME HistoryAssumption, OrderInv, Redo
  PROVE  Conversation(history', redoStack', gone', minted', disturbed')
<1> DEFINE b  == Last(redoStack)
           at == IF b.at = AtTail \/ b.at > Len(history) THEN Len(history) ELSE b.at
           e  == disturbed \/ (b.at # AtTail /\ b.after[1] # IdsOf(history))
<1>1. /\ TypeOK /\ Conversation(history, redoStack, gone, minted, disturbed)
      /\ history \in Seq(Msg) /\ redoStack \in Seq(Bundle) /\ minted \in Nat
      /\ disturbed \in BOOLEAN
  BY OrderParts DEF TypeOK
<1>2. /\ history' = Upto(history, at) \o b.popped \o From(history, at + 1)
      /\ redoStack # <<>> /\ redoStack' = Front(redoStack)
      /\ gone' = gone /\ minted' = minted /\ disturbed' = e
  <2>1. Seen[1] = IdsOf(history)
    BY DEF Seen
  <2> QED BY <2>1 DEF Redo, PutBack
<1>3. e \in BOOLEAN
  BY <1>1
<1>4. /\ b = Last(redoStack)
      /\ at = IF b.at = AtTail \/ b.at > Len(history) THEN Len(history) ELSE b.at
      /\ e = (disturbed \/ (b.at # AtTail /\ b.after[1] # IdsOf(history)))
  OBVIOUS
<1> HIDE DEF b, at, e
<1>5. Conversation(Upto(history, at) \o b.popped \o From(history, at + 1), Front(redoStack),
                   gone, minted, e)
  BY <1>1, <1>2, <1>3, <1>4, ConversationPop
<1> QED BY <1>2, <1>5

\* Saying of more conversations that they were disturbed is safe.
LEMMA ConversationDisturbed ==
  ASSUME NEW h, NEW s, NEW g, NEW n, NEW d \in BOOLEAN, Conversation(h, s, g, n, d),
         NEW e \in BOOLEAN
  PROVE  Conversation(h, s, g, n, d \/ e)
BY DEF Conversation

\* A deletion takes the responses with their answer, or the call with its response.
LEMMA ConversationDelete ==
  ASSUME HistoryAssumption, OrderInv, NEW i \in DOMAIN history, Delete(i)
  PROVE  Conversation(history', redoStack', gone', minted', disturbed')
<1> DEFINE f == Without(Pruned(i), Cascade(i))
           D == {history[j].id : j \in Cascade(i)}
<1>1. /\ TypeOK /\ Conversation(history, redoStack, gone, minted, disturbed)
      /\ history \in Seq(Msg) /\ redoStack \in Seq(Bundle) /\ minted \in Nat
      /\ disturbed \in BOOLEAN
  BY OrderParts DEF TypeOK
<1>2. /\ history' = f /\ gone' = gone \cup D
      /\ redoStack' = redoStack /\ minted' = minted /\ disturbed' = (disturbed \/ CountedOn(i))
  BY DEF Delete, Pruned
<1>3. /\ Once(history, redoStack, gone, minted) /\ (disturbed \/ Standing(history))
      /\ Made(InPlayOf(history, redoStack)) /\ (disturbed \/ Single(InPlayOf(history, redoStack)))
  BY <1>1 DEF Conversation, AllStanding
<1>4. Distinct(f) /\ Ids(f) \cup D = Ids(history) /\ Ids(f) \cap D = {}
  BY <1>1, <1>3, DeleteIds DEF Once
<1>5. f \in Seq(Msg)
  BY <1>1, DeleteFacts
<1>6. disturbed \/ Standing(f)
  <2>1. ASSUME ~disturbed PROVE Standing(f)
    <3>1. \A k \in DOMAIN history : Declares(history[k]) => Is(history[k], "assistant")
      BY <1>1, <1>3, AnswersDeclare
    <3>2. \A j, k \in DOMAIN history :
            Is(history[j], "tool") /\ Is(history[k], "tool") /\ history[j].call = history[k].call
              => history[j].id = history[k].id
      <4>1. \A k \in DOMAIN history : history[k] \in InPlayOf(history, redoStack)
        BY DEF InPlayOf, Range
      <4> QED BY <1>3, <2>1, <4>1 DEF Single
    <3>3. Distinct(history) /\ Standing(history)
      BY <1>3, <2>1 DEF Once
    <3> QED BY <1>1, <3>1, <3>2, <3>3, DeleteStanding
  <2> QED BY <1>1, <2>1
<1>7. ASSUME NEW m \in Range(f)
      PROVE  \E o \in Range(history) :
               /\ o.id = m.id /\ o.role = m.role /\ o.call = m.call
               /\ Made({o}) => Made({m})
  <2> HIDE DEF f
  <2>1. PICK n \in 1..Len(f) : m = f[n]
    BY <1>5, <1>7, IdsFacts
  <2>2. PICK k \in Remaining(i) : f[n] = Pruned(i)[k]
    BY <1>1, DeleteFacts DEF f
  <2>3. k \in 1..Len(history) /\ history[k] \in Msg
    BY <1>1, MsgFacts DEF Remaining
  <2>a. /\ Pruned(i)[k].id = history[k].id /\ Pruned(i)[k].role = history[k].role
        /\ Pruned(i)[k].call = history[k].call
        /\ Pruned(i)[k] = history[k] \/ Pruned(i)[k] = Prune(history[k], history[i].call)
    <3>1. \A j \in 1..Len(history) :
            /\ Pruned(i)[j].id = history[j].id /\ Pruned(i)[j].role = history[j].role
            /\ Pruned(i)[j].call = history[j].call
            /\ \/ Pruned(i)[j] = history[j]
               \/ /\ Is(history[i], "tool") /\ j \in Declarer(i)
                  /\ Pruned(i)[j] = Prune(history[j], history[i].call)
      BY <1>1, DeleteFacts
    <3> QED BY <2>3, <3>1
  <2>4. /\ m.id = history[k].id /\ m.role = history[k].role /\ m.call = history[k].call
        /\ m = history[k] \/ m = Prune(history[k], history[i].call)
    BY <2>1, <2>2, <2>a
  <2>5. history[k] \in Range(history)
    BY <1>1, <2>3, IdsFacts
  <2>6. ASSUME Made({history[k]}) PROVE Made({m})
    <3> DEFINE o == history[k]
               c == history[i].call
    <3>1. CASE m = o
      BY <2>6, <3>1
    <3>2. CASE m = Prune(o, c)
      <4> HIDE DEF o, c
      <4>0. o \in Msg /\ Made({o})
        BY <2>3, <2>6 DEF o
      <4>1. /\ \A l \in DOMAIN m.calls : \E j \in DOMAIN o.calls : m.calls[l] = o.calls[j]
            /\ (\A l, j \in DOMAIN o.calls : o.calls[l] = o.calls[j] => l = j)
                  => \A l, j \in DOMAIN m.calls : m.calls[l] = m.calls[j] => l = j
            /\ Declares(m) => Declares(o)
        BY <3>2, <4>0, PruneCalls
      <4>2. /\ Declares(o) => Is(o, "assistant")
            /\ \A l \in DOMAIN o.calls : o.calls[l][1] = o.id
            /\ \A l, j \in DOMAIN o.calls : o.calls[l] = o.calls[j] => l = j
        BY <4>0 DEF Made
      <4>3. m.id = o.id /\ m.role = o.role
        BY <2>4 DEF o
      <4>4. /\ Declares(m) => Is(m, "assistant")
            /\ \A l \in DOMAIN m.calls : m.calls[l][1] = m.id
            /\ \A l, j \in DOMAIN m.calls : m.calls[l] = m.calls[j] => l = j
        BY <4>1, <4>2, <4>3 DEF Is
      <4> QED BY <4>4 DEF Made
    <3> QED BY <2>4, <3>1, <3>2
  <2> QED BY <2>4, <2>5, <2>6
<1>8. Loses(f, history, D)
  BY <1>4 DEF Loses
<1> HIDE DEF f, D
<1>9. Conversation(f, redoStack, gone', minted, disturbed)
  <2>1. Thinned(f, history)
    BY <1>7 DEF Thinned
  <2>2. Conversation(history, redoStack, gone, minted, disturbed) /\ gone' = gone \cup D
    BY <1>1, <1>2
  <2> QED BY <1>1, <1>5, <1>6, <1>8, <2>1, <2>2, ConversationDrop
<1> QED BY <1>1, <1>2, <1>9, ConversationDisturbed

\* A trailing prompt is taken back.
LEMMA ConversationResendPrompt ==
  ASSUME HistoryAssumption, OrderInv, ResendPrompt
  PROVE  Conversation(history', redoStack, gone', minted, disturbed)
<1>1. /\ TypeOK /\ Conversation(history, redoStack, gone, minted, disturbed)
      /\ history \in Seq(Msg) /\ redoStack \in Seq(Bundle) /\ minted \in Nat
      /\ disturbed \in BOOLEAN
  BY OrderParts DEF TypeOK
<1>2. history # <<>>
  BY DEF ResendPrompt, LastMessage, Message, Is
<1> DEFINE a == Len(history)
           f == Upto(history, a - 1) \o From(history, a + 1)
           p == SubSeq(history, a, a)
           D == {LastMessage.id}
<1>3. /\ a \in Nat \ {0} /\ a \in Nat /\ a =< a + 1 /\ a =< Len(history) /\ ~(a < Len(history))
      /\ history' = f /\ gone' = gone \cup D
      /\ p = <<Last(history)>> /\ LastMessage = Last(history)
  BY <1>1, <1>2, FrontAsCut DEF ResendPrompt, LastMessage
<1>4. /\ Once(history, redoStack, gone, minted) /\ (disturbed \/ Standing(history))
      /\ Made(InPlayOf(history, redoStack))
  BY <1>1 DEF Conversation, AllStanding
<1>5. Ids(p) = D
  <2> DEFINE m == Last(history)
  <2>1. p = <<m>> /\ D = {m.id}
    BY <1>3
  <2> HIDE DEF p, m, D
  <2>2. DOMAIN p = {1} /\ p[1] = m
    BY <2>1
  <2> QED BY <2>1, <2>2 DEF Ids
<1> HIDE DEF D, a
<1>6. f \in Seq(Msg) /\ p \in Seq(Msg)
  BY <1>1, <1>3, CutPlaces
<1>7. /\ Ids(f) \cup Ids(p) = Ids(history)
      /\ Range(f) \cup Range(p) \subseteq Range(history)
      /\ Distinct(f) /\ Ids(f) \cap Ids(p) = {}
  <2>1. Distinct(history)
    BY <1>4 DEF Once
  <2> QED BY <1>1, <1>3, <2>1, CutIds
<1>8. disturbed \/ Standing(f)
  <2>1. \A k \in DOMAIN history : Declares(history[k]) => Is(history[k], "assistant")
    BY <1>1, <1>4, AnswersDeclare
  <2>2. a < Len(history) => ~Is(history[a + 1], "tool")
    BY <1>3
  <2>3. ASSUME Standing(history) PROVE Standing(f)
    BY <1>1, <1>3, <2>1, <2>2, <2>3, CutStanding
  <2> QED BY <1>4, <2>3
<1> HIDE DEF f, p
<1>9. Thinned(f, history)
  BY <1>7 DEF Thinned
<1>10. Loses(f, history, D)
  BY <1>5, <1>7 DEF Loses
<1>11. Conversation(f, redoStack, gone', minted, disturbed)
  <2>1. Conversation(history, redoStack, gone, minted, disturbed) /\ gone' = gone \cup D
    BY <1>1, <1>3
  <2> QED BY <1>1, <1>6, <1>8, <1>9, <1>10, <2>1, ConversationDrop
<1> QED BY <1>3, <1>11


\* A retry takes a prompt back, undoes, or leaves the conversation alone.
LEMMA ConversationRetryNow ==
  ASSUME HistoryAssumption, OrderInv, RetryNow
  PROVE  Conversation(history', redoStack', gone', minted, disturbed)
<1>1. Conversation(history, redoStack, gone, minted, disturbed)
  BY OrderParts
<1>2. CASE ResendPrompt
  <2>1. redoStack' = redoStack
    BY <1>2 DEF ResendPrompt
  <2> QED BY <1>2, <2>1, ConversationResendPrompt
<1>3. CASE ResendUndone
  <2>1. UndoTail /\ gone' = gone
    BY <1>3 DEF ResendUndone
  <2> QED BY <2>1, ConversationUndoTail
<1>4. CASE Resume \/ ResendInterrupted
  BY <1>1, <1>4 DEF Resume, ResendInterrupted
<1> QED BY <1>2, <1>3, <1>4 DEF RetryNow

\* Every step keeps the conversation in order.
LEMMA ConversationStep ==
  ASSUME HistoryAssumption, OrderInv, [Next]_vars
  PROVE  Conversation(history', redoStack', gone', minted', disturbed')
<1>1. Conversation(history, redoStack, gone, minted, disturbed)
  BY OrderParts
<1>2. CASE UNCHANGED <<history, redoStack, gone, minted, disturbed>>
  BY <1>1, <1>2
<1>3. CASE StartTurn
  BY <1>3, ConversationStartTurn
<1>4. CASE PrecallsReturn
  BY <1>4, ConversationPrecallsReturn
<1>5. CASE ModelAnswers
  BY <1>5, ConversationModelAnswers
<1>6. CASE ToolReturns
  BY <1>6, ConversationToolReturns
<1>7. CASE Undo
  <2>1. UndoTail /\ UNCHANGED <<gone, minted, disturbed>>
    BY <1>7 DEF Undo, traces
  <2> QED BY <2>1, ConversationUndoTail
<1>8. CASE Redo
  BY <1>8, ConversationRedo
<1>9. CASE RetryIdle \/ RetryResumes
  <2>1. RetryNow /\ UNCHANGED <<minted, disturbed>>
    BY <1>9 DEF RetryIdle, RetryResumes
  <2> QED BY <2>1, ConversationRetryNow
<1>10. ASSUME NEW i \in DOMAIN history, UndoEarlier(i)
       PROVE  Conversation(history', redoStack', gone', minted', disturbed')
  <2>1. UNCHANGED <<gone, minted, disturbed>>
    BY <1>10 DEF UndoEarlier, traces
  <2> QED BY <1>10, <2>1, ConversationUndoEarlier
<1>11. ASSUME NEW i \in DOMAIN history, Delete(i)
       PROVE  Conversation(history', redoStack', gone', minted', disturbed')
  BY <1>11, ConversationDelete
<1>12. CASE Submit \/ ModelFails \/ Again \/ Unwind \/ Cancel \/ RetryRunning \/ UNCHANGED vars
  <2>1. UNCHANGED <<history, redoStack, gone, minted, disturbed>>
    BY <1>12 DEF Submit, ModelFails, Again, Unwind, Cancel, RetryRunning, vars, record, traces
  <2> QED BY <1>2, <2>1
<1> QED BY <1>3, <1>4, <1>5, <1>6, <1>7, <1>8, <1>9, <1>10, <1>11, <1>12 DEF Next

-----------------------------------------------------------------------------
(* The turn under way                                                      *)

\* After an undo no turn runs that nobody stopped.
LEMMA StopTurnFacts ==
  ASSUME OrderInv, StopTurn
  PROVE  turn'.phase = "none" \/ turn'.aborted \/ (turn' = turn /\ (turn.phase = "none" \/ turn.aborted))
<1>1. turn \in Turn /\ TurnAlone /\ turn.aborted \in BOOLEAN
  BY OrderParts DEF TypeOK, Turn
<1>2. CASE state \in {"running", "canceling"}
  BY <1>1, <1>2 DEF StopTurn, Turn
<1>3. CASE state \notin {"running", "canceling"}
  BY <1>1, <1>3 DEF StopTurn, TurnAlone
<1> QED BY <1>2, <1>3

\* Every step that makes an agent anything but running stops its turn, and only such
\* steps fill the stack.
LEMMA TurnAloneStep ==
  ASSUME HistoryAssumption, OrderInv, [Next]_vars
  PROVE  TurnAlone'
<1>1. TurnAlone /\ turn \in Turn /\ turn.aborted \in BOOLEAN
  BY OrderParts DEF TypeOK, Turn
<1>2. CASE UNCHANGED <<turn, state, redoStack>>
  BY <1>1, <1>2 DEF TurnAlone
<1>3. CASE StartTurn
  BY <1>3 DEF StartTurn, TurnAlone
<1>4. CASE turn' = NoTurn
  BY <1>4 DEF TurnAlone, NoTurn
<1>5. CASE StopTurn
  <2>1. turn'.phase = "none" \/ turn'.aborted
    BY <1>5, StopTurnFacts
  <2> QED BY <2>1 DEF TurnAlone
<1>6. CASE /\ turn.phase # "none" /\ ~turn.aborted /\ turn'.aborted = turn.aborted
           /\ UNCHANGED <<state, redoStack>>
  BY <1>1, <1>6 DEF TurnAlone
<1>7. CASE turn'.aborted
  BY <1>7 DEF TurnAlone
<1>8. CASE PrecallsReturn
  <2>1. CASE Cancelled
    BY <1>4, <2>1 DEF Cancelled
  <2>2. CASE ~turn.aborted /\ Send(turn) /\ UNCHANGED <<state, interrupted, turnCount>>
    <3>1. turn'.aborted = turn.aborted
      BY <1>1, <2>2 DEF Send, Turn
    <3>2. turn.phase # "none" /\ redoStack' = redoStack
      BY <1>8 DEF PrecallsReturn
    <3> QED BY <1>6, <2>2, <3>1, <3>2
  <2> QED BY <1>8, <2>1, <2>2 DEF PrecallsReturn
<1>9. CASE ModelAnswers
  <2>1. turn.phase # "none" /\ ~turn.aborted /\ redoStack' = redoStack
    BY <1>9 DEF ModelAnswers
  <2>2. Completed \/ (state' = state /\ turn'.aborted = turn.aborted)
    <3>1. ASSUME NEW n, LET ast == Calling(minted + 1, n)
                        IN  turn' = [turn EXCEPT !.phase = "tool", !.msg = ast.id, !.calls = ast.calls,
                                                 !.at = 1, !.call = ast.calls[1]]
          PROVE  turn'.aborted = turn.aborted
      BY <1>1, <3>1 DEF Turn
    <3> QED BY <1>9, <3>1, Zenon DEF ModelAnswers
  <2>3. CASE Completed
    BY <1>4, <2>3 DEF Completed
  <2>4. CASE ~Completed
    BY <1>6, <2>1, <2>2, <2>4
  <2> QED BY <2>3, <2>4
<1>10. CASE ToolReturns
  <2>1. turn.phase # "none" /\ ~turn.aborted /\ redoStack' = redoStack /\ state' = state
    BY <1>10 DEF ToolReturns
  <2>2. turn'.aborted = turn.aborted
    BY <1>1, <1>10 DEF ToolReturns, Turn
  <2> QED BY <1>6, <2>1, <2>2
<1>11. CASE Again
  <2>1. CASE Errored
    BY <1>4, <2>1 DEF Errored
  <2>2. CASE Send(turn) /\ UNCHANGED <<state, interrupted, turnCount>>
    <3>1. turn'.aborted = turn.aborted
      BY <1>1, <2>2 DEF Send, Turn
    <3>2. turn.phase # "none" /\ ~turn.aborted /\ redoStack' = redoStack
      BY <1>11 DEF Again
    <3> QED BY <1>6, <2>2, <3>1, <3>2
  <2> QED BY <1>11, <2>1, <2>2 DEF Again
<1>12. CASE ModelFails \/ Unwind
  BY <1>4, <1>12 DEF ModelFails, Unwind, Errored, Cancelled
<1>13. CASE Cancel \/ RetryRunning
  <2>1. turn' = [turn EXCEPT !.aborted = TRUE]
    BY <1>13 DEF Cancel, RetryRunning
  <2> QED BY <1>1, <1>7, <2>1 DEF Turn
<1>14. CASE Undo
  BY <1>5, <1>14 DEF Undo, UndoTail
<1>15. ASSUME NEW i \in DOMAIN history, UndoEarlier(i) PROVE TurnAlone'
  BY <1>5, <1>15 DEF UndoEarlier
<1>16. CASE Redo
  <2>1. turn' = turn /\ redoStack # <<>>
    BY <1>16 DEF Redo
  <2> QED BY <1>1, <2>1 DEF TurnAlone
<1>17. ASSUME NEW i \in DOMAIN history, Delete(i) PROVE TurnAlone'
  <2>1. state' = state /\ redoStack' = redoStack
    BY <1>17 DEF Delete
  <2>2. turn'.aborted = turn.aborted /\ turn'.phase = turn.phase
    BY <1>1, <1>17 DEF Delete, Turn
  <2> QED BY <1>1, <2>1, <2>2 DEF TurnAlone
<1>18. CASE RetryNow
  BY <1>2, <1>5, <1>18 DEF RetryNow, ResendPrompt, Resume, ResendUndone, ResendInterrupted, UndoTail
<1>19. CASE Submit \/ UNCHANGED vars
  BY <1>2, <1>19 DEF Submit, vars, record
<1> QED BY <1>3, <1>8, <1>9, <1>10, <1>11, <1>12, <1>13, <1>14, <1>15, <1>16, <1>17, <1>18, <1>19
        DEF Next, RetryIdle, RetryResumes


\* The turn t executes its tool behind its answer, the i-th message of h.
AnswerAt(h, t, i) ==
  /\ h[i].id = t.msg /\ h[i].calls = t.calls
  /\ t.at \in DOMAIN t.calls /\ t.call = t.calls[t.at]
  /\ Len(h) = i + t.at - 1
  /\ \A k \in 1..(t.at - 1) : Is(h[i + k], "tool") /\ h[i + k].call = t.calls[k]

\* AnswersInPlace in terms of AnswerAt.
LEMMA AnswerAtFacts ==
  /\ AnswersInPlace <=> (turn.phase = "tool" /\ ~turn.aborted /\ ~disturbed
                           => \E i \in DOMAIN history : AnswerAt(history, turn, i))
  /\ AnswersInPlace' <=> (turn'.phase = "tool" /\ ~turn'.aborted /\ ~disturbed'
                            => \E i \in DOMAIN history' : AnswerAt(history', turn', i))
BY DEF AnswersInPlace, AnswerAt

\* The answer of the model is where the turn looks for it.
LEMMA AnswerModelAnswers ==
  ASSUME HistoryAssumption, OrderInv, ModelAnswers, turn'.phase = "tool"
  PROVE  \E i \in DOMAIN history' : AnswerAt(history', turn', i)
<1>1. history \in Seq(Msg) /\ minted \in Nat /\ minted + 1 \in Nat /\ turn \in Turn
  BY OrderParts DEF TypeOK
<1>2. ~Completed
  BY DEF Completed, NoTurn
<1>3. PICK n \in 1..MaxCalls :
        /\ Say(<<Calling(minted + 1, n)>>)
        /\ turn' = [turn EXCEPT !.phase = "tool", !.msg = Calling(minted + 1, n).id,
                                !.calls = Calling(minted + 1, n).calls,
                                !.at = 1, !.call = Calling(minted + 1, n).calls[1]]
  BY <1>2, Zenon DEF ModelAnswers
<1> DEFINE m  == Calling(minted + 1, n)
           ms == <<m>>
           t  == turn'
<1>4. n \in Nat /\ 1 \in 1..n
  BY DEF HistoryAssumption
<1>5. m \in Msg /\ m.calls = [k \in 1..n |-> <<minted + 1, k>>]
  <2> HIDE DEF t, ms
  <2>1. minted + 1 \in Nat /\ n \in Nat
    BY <1>1, <1>4
  <2>2. Calling(minted + 1, n) \in Msg
    BY <2>1, CallingFacts
  <2>3. Calling(minted + 1, n).calls = [k \in 1..n |-> <<minted + 1, k>>]
    BY DEF Calling, Message
  <2> QED BY <2>2, <2>3
<1>6. t.msg = m.id /\ t.calls = m.calls /\ t.at = 1 /\ t.call = m.calls[1]
  BY <1>1, <1>3 DEF Turn
<1>7. history' = history \o ms
  BY <1>3 DEF Say
<1> HIDE DEF m, t
<1>8. ms \in Seq(Msg) /\ Len(ms) = 1 /\ ms[1] = m /\ 1 \in 1..Len(ms)
  BY <1>5
<1> HIDE DEF ms
<1> DEFINE f == history \o ms
           i == Len(history) + 1
<1>9. f \in Seq(Msg) /\ Len(f) = Len(history) + Len(ms) /\ f[Len(history) + 1] = m
  BY <1>1, <1>8, ConcatFacts
<1> HIDE DEF f
<1>10. Len(history) \in Nat /\ DOMAIN f = 1..Len(f)
  BY <1>1, <1>9, MsgFacts
<1>11. i \in DOMAIN f /\ Len(f) = i + 1 - 1 /\ f[i] = m
  BY <1>8, <1>9, <1>10
<1>12. 1 \in DOMAIN t.calls
  BY <1>4, <1>5, <1>6
<1>13. \A k \in 1..(t.at - 1) : FALSE
  BY <1>6
<1> HIDE DEF i
<1>14. AnswerAt(f, t, i)
  BY <1>6, <1>11, <1>12, <1>13 DEF AnswerAt
<1> QED BY <1>7, <1>11, <1>14 DEF f, t

\* The response comes to stand where the turn expects the next one behind it.
LEMMA AnswerToolReturns ==
  ASSUME HistoryAssumption, OrderInv, ToolReturns, turn'.phase = "tool", ~disturbed
  PROVE  \E i \in DOMAIN history' : AnswerAt(history', turn', i)
<1>1. /\ history \in Seq(Msg) /\ minted \in Nat /\ minted + 1 \in Nat /\ turn \in Turn
      /\ turn.call \in Call
  BY OrderParts DEF TypeOK, Turn
<1>2. turn.phase = "tool" /\ ~turn.aborted
  BY DEF ToolReturns
<1>3. PICK i \in 1..Len(history) :
        /\ history[i].id = turn.msg /\ history[i].calls = turn.calls
        /\ turn.at \in DOMAIN turn.calls /\ turn.call = turn.calls[turn.at]
        /\ turn.calls \in Seq(Call) /\ turn.at \in 1..Len(turn.calls) /\ turn.call \in Call
        /\ Len(history) = i + turn.at - 1
        /\ \A k \in 1..(turn.at - 1) : /\ i + k \in 1..Len(history) /\ Is(history[i + k], "tool")
                                       /\ history[i + k].call = turn.calls[k]
        /\ \A k \in (i + 1)..Len(history) : Is(history[k], "tool") /\ k - i \in 1..(turn.at - 1)
                                            /\ history[k].call = turn.calls[k - i]
  BY <1>2, ToolPlace
<1> DEFINE r  == Response(minted + 1, turn.call)
           ms == <<r>>
           t  == turn'
<1>4. r \in Msg /\ Is(r, "tool") /\ r.call = turn.call
  BY <1>1, ResponseFacts
<1>5. /\ history' = history \o ms /\ turn.at < Len(turn.calls)
      /\ t.msg = turn.msg /\ t.calls = turn.calls /\ t.at = turn.at + 1
      /\ t.call = turn.calls[turn.at + 1]
  BY <1>1 DEF ToolReturns, Say, Turn
<1> HIDE DEF r, t
<1>6. ms \in Seq(Msg) /\ Len(ms) = 1 /\ ms[1] = r /\ 1 \in 1..Len(ms)
  BY <1>4
<1> HIDE DEF ms
<1> DEFINE f == history \o ms
           L == Len(history)
           at == turn.at
           N == Len(turn.calls)
<1>7. /\ f \in Seq(Msg) /\ Len(f) = L + Len(ms) /\ f[L + 1] = r
      /\ \A k \in 1..L : f[k] = history[k]
  BY <1>1, <1>6, ConcatFacts
<1>8. L \in Nat /\ DOMAIN f = 1..Len(f) /\ N \in Nat /\ DOMAIN turn.calls = 1..N
  BY <1>1, <1>3, <1>7, MsgFacts, LenProperties
<1>9. at \in 1..N /\ at < N /\ L = i + at - 1 /\ i \in 1..L
  BY <1>3, <1>5
<1> HIDE DEF f, L, at, N
<1>10. at + 1 \in 1..N /\ Len(f) = i + (at + 1) - 1 /\ i \in 1..Len(f) /\ at \in Nat /\ i \in Nat
  BY <1>6, <1>7, <1>8, <1>9
<1>11. f[i] = history[i]
  BY <1>7, <1>9
<1>12. ASSUME NEW k \in 1..((at + 1) - 1)
       PROVE  Is(f[i + k], "tool") /\ f[i + k].call = turn.calls[k]
  <2>1. CASE k = at
    <3>1. i + k = L + 1
      BY <1>8, <1>9, <1>10, <2>1
    <3> QED BY <1>3, <1>4, <1>7, <2>1, <3>1 DEF at
  <2>2. CASE k # at
    <3>1. k \in 1..(at - 1)
      BY <1>10, <2>2
    <3>2. i + k \in 1..L /\ Is(history[i + k], "tool") /\ history[i + k].call = turn.calls[k]
      BY <1>3, <3>1 DEF at, L
    <3> QED BY <1>7, <3>2
  <2> QED BY <2>1, <2>2
<1>13. /\ t.at = at + 1 /\ t.calls = turn.calls /\ t.msg = turn.msg /\ t.call = turn.calls[at + 1]
       /\ history[i].id = turn.msg /\ history[i].calls = turn.calls
  BY <1>3, <1>5 DEF at
<1>14. t.at \in DOMAIN t.calls
  BY <1>8, <1>10, <1>13
<1>15. AnswerAt(f, t, i)
  BY <1>10, <1>11, <1>12, <1>13, <1>14 DEF AnswerAt
<1> QED BY <1>5, <1>8, <1>10, <1>15 DEF f, t

\* A deletion of something else moves the answer and its responses together.
LEMMA AnswerDelete ==
  ASSUME HistoryAssumption, OrderInv, NEW i \in DOMAIN history, Delete(i),
         turn.phase = "tool", ~turn.aborted, ~disturbed, ~CountedOn(i)
  PROVE  turn' = turn /\ \E k \in DOMAIN history' : AnswerAt(history', turn, k)
<1> DEFINE K == Remaining(i)
           g == Without(Pruned(i), Cascade(i))
           at == turn.at
           L == Len(history)
<1>1. /\ history \in Seq(Msg) /\ L \in Nat /\ DOMAIN history = 1..L /\ i \in 1..L /\ i \in Nat
      /\ Once(history, redoStack, gone, minted) /\ Made(InPlayOf(history, redoStack))
  BY OrderParts, MsgFacts DEF TypeOK, Conversation
<1>2. PICK p \in 1..Len(history) :
        /\ history[p].id = turn.msg /\ history[p].calls = turn.calls
        /\ turn.at \in DOMAIN turn.calls /\ turn.call = turn.calls[turn.at]
        /\ turn.calls \in Seq(Call) /\ turn.at \in 1..Len(turn.calls) /\ turn.call \in Call
        /\ Len(history) = p + turn.at - 1
        /\ \A k \in 1..(turn.at - 1) : /\ p + k \in 1..Len(history) /\ Is(history[p + k], "tool")
                                       /\ history[p + k].call = turn.calls[k]
        /\ \A k \in (p + 1)..Len(history) : Is(history[k], "tool") /\ k - p \in 1..(turn.at - 1)
                                            /\ history[k].call = turn.calls[k - p]
  BY ToolPlace
<1>3. p \in 1..L /\ p \in Nat /\ at \in Nat /\ at >= 1 /\ L = p + at - 1
  <2>1. Len(turn.calls) \in Nat
    BY <1>2, LenProperties
  <2>2. at \in 1..Len(turn.calls) /\ L = p + at - 1 /\ p \in 1..L
    BY <1>2
  <2> HIDE DEF at, L
  <2> QED BY <1>1, <2>1, <2>2
<1>4. \A k \in 1..L : history[k] \in InPlayOf(history, redoStack)
  BY <1>1, IdsFacts DEF InPlayOf
<1>5. Is(history[p], "assistant") /\ ~Is(history[p], "tool")
  <2>1. Declares(history[p])
    BY <1>2 DEF Declares
  <2>2. Is(history[p], "assistant")
    BY <1>1, <1>3, <1>4, <2>1 DEF Made
  <2> QED BY <2>2 DEF Is
<1>6. \A k \in (p + 1)..L : Is(history[k], "tool") /\ history[k].call \in Range(turn.calls)
  <2>1. Len(turn.calls) \in Nat /\ DOMAIN turn.calls = 1..Len(turn.calls)
    BY <1>2, LenProperties
  <2>2. ASSUME NEW k \in (p + 1)..L PROVE Is(history[k], "tool") /\ history[k].call \in Range(turn.calls)
    <3>1. Is(history[k], "tool") /\ k - p \in 1..(at - 1) /\ history[k].call = turn.calls[k - p]
      BY <1>2
    <3>2. k - p \in DOMAIN turn.calls
      <4> DEFINE y == k - p
                 N == Len(turn.calls)
      <4>1. y \in 1..(at - 1) /\ at \in 1..N
        BY <1>2, <3>1
      <4> HIDE DEF y, N, at
      <4>2. y \in 1..N
        BY <2>1, <4>1 DEF N
      <4> QED BY <2>1, <4>2 DEF y, N
    <3> QED BY <3>1, <3>2 DEF Range
  <2> QED BY <2>2
<1> HIDE DEF at, L
<1>7. i < p
  <2>1. history[i].id # turn.msg /\ history[i].call \notin Range(turn.calls)
    BY DEF CountedOn
  <2>2. i # p
    BY <1>2, <2>1
  <2>3. i \notin (p + 1)..L
    BY <1>6, <2>1
  <2> QED BY <1>1, <1>3, <2>2, <2>3
<1>8. ASSUME NEW k \in p..L PROVE k \notin Cascade(i)
  <2>1. SUFFICES ASSUME k \in Cascade(i) PROVE FALSE
    OBVIOUS
  <2>2. k # i /\ k \in 1..L
    BY <1>1, <1>3, <1>7
  <2>3. Is(history[k], "tool") /\ history[k].call \in Range(history[i].calls)
    BY <2>1, <2>2 DEF Cascade
  <2>4. k \in (p + 1)..L
    <3>1. k # p
      BY <1>5, <2>3
    <3> QED BY <1>1, <1>3, <3>1
  <2>5. PICK n \in DOMAIN history[i].calls : history[i].calls[n] = history[k].call
    BY <2>3 DEF Range
  <2>6. PICK m \in DOMAIN history[p].calls : history[p].calls[m] = history[k].call
    <3>1. history[k].call \in Range(turn.calls) /\ history[p].calls = turn.calls
      BY <1>2, <1>6, <2>4
    <3> QED BY <3>1 DEF Range
  <2>7. history[k].call[1] = history[i].id
    BY <1>1, <1>4, <2>5 DEF Made
  <2>8. history[k].call[1] = history[p].id
    BY <1>3, <1>1, <1>4, <2>6 DEF Made
  <2>9. i = p
    BY <1>1, <1>3, <2>7, <2>8 DEF Once, Distinct
  <2> QED BY <1>7, <1>1, <1>3, <2>9
<1>9. /\ K \in SUBSET Nat /\ IsFiniteSet(K) /\ K \subseteq 1..L
      /\ g \in Seq(Msg)
      /\ \A n \in 1..Len(g) : \E k \in K : Rank(K, k) = n /\ g[n] = Pruned(i)[k]
      /\ \A k \in K : Rank(K, k) \in 1..Len(g) /\ g[Rank(K, k)] = Pruned(i)[k]
      /\ \A k, l \in K : k < l => Rank(K, k) < Rank(K, l)
  BY <1>1, DeleteFacts DEF L
<1>10. p..L \subseteq K
  BY <1>1, <1>3, <1>8 DEF Remaining
<1>11. \A j \in Declarer(i) : j \in 1..(i - 1)
  BY DEF Declarer
<1>12. ASSUME NEW k \in p..L PROVE Pruned(i)[k] = history[k]
  <2>1. k \in 1..L /\ k \notin 1..(i - 1)
    BY <1>1, <1>3, <1>7
  <2> QED BY <1>1, <1>11, <2>1 DEF Pruned
<1>13. turn' = turn /\ history' = g
  <2>1. \A j \in Declarer(i) : history[j].id # turn.msg
    <3>1. ASSUME NEW j \in Declarer(i), history[j].id = turn.msg PROVE FALSE
      <4>1. j \in 1..L /\ j < p
        BY <1>1, <1>3, <1>7, <1>11
      <4>2. j \in DOMAIN history /\ p \in DOMAIN history /\ Distinct(history)
        BY <1>1, <1>3, <4>1 DEF Once
      <4>3. history[j].id = history[p].id
        BY <1>2, <3>1
      <4>4. j = p
        BY <4>2, <4>3, Zenon DEF Distinct
      <4> QED BY <1>1, <1>3, <4>1, <4>4
    <3> QED BY <3>1
  <2> QED BY <2>1 DEF Delete, Pruned
<1> DEFINE q == Rank(K, p)
<1>14. ASSUME NEW k \in 0..(at - 1)
       PROVE  p + k \in p..L /\ p + k \in K /\ Rank(K, p + k) = q + k /\ g[q + k] = history[p + k]
              /\ q + k \in 1..Len(g)
  <2>1. p + k \in p..L /\ p =< p + k /\ p \in p..L /\ (p + k) - p = k /\ p..(p + k) \subseteq p..L
    BY <1>1, <1>3
  <2>2. p + k \in K /\ p \in K /\ p..(p + k) \subseteq K
    BY <1>10, <2>1
  <2> HIDE DEF K
  <2>3. Rank(K, p + k) = Rank(K, p) + ((p + k) - p)
    BY <1>9, <2>1, <2>2, RankRun
  <2>4. g[Rank(K, p + k)] = history[p + k] /\ Rank(K, p + k) \in 1..Len(g)
    BY <1>9, <1>12, <2>1, <2>2
  <2> QED BY <2>1, <2>2, <2>3, <2>4
<1>15. q \in 1..Len(g) /\ g[q] = history[p] /\ q \in Nat
  <2>1. p \in p..L
    BY <1>1, <1>3
  <2> HIDE DEF K, g
  <2> QED BY <1>9, <1>10, <1>12, <2>1
<1>16. Len(g) = q + at - 1
  <2>1. Len(g) \in Nat
    BY <1>9, MsgFacts
  <2>2. at - 1 \in 0..(at - 1) /\ p + (at - 1) = L
    BY <1>1, <1>3
  <2>3. q + (at - 1) \in 1..Len(g) /\ Rank(K, L) = q + (at - 1) /\ L \in K
    BY <1>14, <2>2
  <2> HIDE DEF K, g, q
  <2>4. Len(g) \in 1..Len(g)
    BY <1>15, <2>1
  <2>5. PICK k \in K : Rank(K, k) = Len(g)
    BY <1>9, <2>4
  <2>6. k = L \/ k < L
    BY <1>1, <1>9
  <2>7. k < L => Len(g) < q + (at - 1)
    BY <1>9, <2>3, <2>5, <2>6
  <2> QED BY <1>3, <1>15, <2>1, <2>3, <2>5, <2>6, <2>7
<1> HIDE DEF K, g, q
<1>17. \A k \in 1..(at - 1) : Is(g[q + k], "tool") /\ g[q + k].call = turn.calls[k]
  <2>1. ASSUME NEW k \in 1..(at - 1) PROVE Is(g[q + k], "tool") /\ g[q + k].call = turn.calls[k]
    <3>1. k \in 0..(at - 1)
      BY <1>3
    <3>2. g[q + k] = history[p + k]
      BY <1>14, <3>1
    <3> QED BY <1>2, <3>2 DEF at
  <2> QED BY <2>1
<1>18. AnswerAt(g, turn, q)
  BY <1>2, <1>15, <1>16, <1>17 DEF AnswerAt, at
<1>19. q \in DOMAIN g
  BY <1>9, <1>15, MsgFacts
<1> QED BY <1>13, <1>18, <1>19


\* A retry while an unstopped turn executes a tool finds its answer or a response at
\* the end, and resumes.
LEMMA AnswerRetryNow ==
  ASSUME HistoryAssumption, OrderInv, RetryNow, turn'.phase = "tool", ~turn'.aborted, ~disturbed
  PROVE  turn' = turn /\ history' = history
<1>1. history \in Seq(Msg) /\ turn \in Turn
  BY OrderParts DEF TypeOK
<1>2. CASE Resume \/ ResendInterrupted
  BY <1>2 DEF Resume, ResendInterrupted
<1>3. CASE UndoTail
  <2>1. turn' = turn /\ (turn.phase = "none" \/ turn.aborted)
    BY <1>3, StopTurnFacts DEF UndoTail
  <2> QED BY <2>1
<1>4. CASE ResendPrompt
  <2>1. turn' = turn /\ Is(LastMessage, "user")
    BY <1>4 DEF ResendPrompt
  <2>2. history # <<>> /\ LastMessage = history[Len(history)]
    <3>1. history # <<>>
      BY <2>1 DEF LastMessage, Message, Is
    <3> QED BY <1>1, <3>1, FrontAsCut DEF LastMessage
  <2>3. PICK i \in 1..Len(history) :
          /\ history[i].id = turn.msg /\ history[i].calls = turn.calls
          /\ turn.at \in DOMAIN turn.calls /\ turn.call = turn.calls[turn.at]
          /\ turn.calls \in Seq(Call) /\ turn.at \in 1..Len(turn.calls) /\ turn.call \in Call
          /\ Len(history) = i + turn.at - 1
          /\ \A k \in 1..(turn.at - 1) : /\ i + k \in 1..Len(history) /\ Is(history[i + k], "tool")
                                         /\ history[i + k].call = turn.calls[k]
          /\ \A k \in (i + 1)..Len(history) : Is(history[k], "tool") /\ k - i \in 1..(turn.at - 1)
                                              /\ history[k].call = turn.calls[k - i]
    BY <2>1, ToolPlace
  <2>4. Len(history) \in Nat
    BY <1>1, MsgFacts
  <2>5. CASE i = Len(history)
    <3>1. Declares(history[i])
      BY <2>3 DEF Declares
    <3>2. history[i] \in InPlayOf(history, redoStack)
      BY <1>1, IdsFacts DEF InPlayOf
    <3>3. Is(history[i], "assistant")
      BY <3>1, <3>2, OrderParts DEF Conversation, Made
    <3> QED BY <2>1, <2>2, <2>5, <3>3 DEF Is
  <2>6. CASE i # Len(history)
    <3>1. Len(history) \in (i + 1)..Len(history)
      BY <2>4, <2>6
    <3>2. Is(history[Len(history)], "tool")
      BY <2>3, <3>1
    <3> QED BY <2>1, <2>2, <3>2 DEF Is
  <2> QED BY <2>5, <2>6
<1> QED BY <1>2, <1>3, <1>4 DEF RetryNow, ResendUndone

\* Every step keeps the answer of a running turn in its place.
LEMMA AnswersInPlaceStep ==
  ASSUME HistoryAssumption, OrderInv, [Next]_vars
  PROVE  AnswersInPlace'
<1>1. AnswersInPlace /\ TurnAlone /\ turn \in Turn
  BY OrderParts DEF TypeOK
<1>2. SUFFICES ASSUME turn'.phase = "tool", ~turn'.aborted, ~disturbed'
               PROVE  \E i \in DOMAIN history' : AnswerAt(history', turn', i)
  BY AnswerAtFacts
<1>3. CASE turn' = turn /\ history' = history /\ ~disturbed
  BY <1>1, <1>2, <1>3, AnswerAtFacts
<1>4. ~disturbed
  BY <1>2 DEF Next, Submit, StartTurn, PrecallsReturn, ModelAnswers, ModelFails, ToolReturns, Again,
     Unwind, Cancel, Undo, Redo, PutBack, RetryRunning, RetryIdle, RetryResumes, UndoEarlier, Delete,
     vars, traces
<1>5. CASE StartTurn \/ PrecallsReturn \/ Again
  <2>1. \A t \in Turn : Send(t) => turn'.phase = "model"
    BY DEF Send, Turn
  <2>2. NoTurn.phase = "none" /\ NoTurn \in Turn
    BY <1>1, TypeTurn, OrderParts DEF NoTurn
  <2>3. CASE StartTurn
    <3> DEFINE new == [NoTurn EXCEPT !.input = Head(queue)]
    <3>1. new.phase = "none"
      BY DEF NoTurn
    <3>2. turn' = [new EXCEPT !.phase = "precalls"] \/ turn' = [new EXCEPT !.phase = "model", !.loops = @ + 1]
      BY <2>3 DEF StartTurn, Send
    <3>3. turn'.phase # "tool"
      BY <3>2 DEF NoTurn
    <3> QED BY <1>2, <3>3
  <2>4. CASE PrecallsReturn
    BY <1>1, <1>2, <2>1, <2>2, <2>4 DEF PrecallsReturn, Cancelled
  <2>5. CASE Again
    BY <1>1, <1>2, <2>1, <2>2, <2>5 DEF Again, Errored
  <2> QED BY <1>5, <2>3, <2>4, <2>5
<1>6. CASE ModelAnswers
  BY <1>2, <1>6, AnswerModelAnswers
<1>7. CASE ModelFails \/ Unwind
  BY <1>2, <1>7 DEF ModelFails, Unwind, Errored, Cancelled, NoTurn
<1>8. CASE ToolReturns
  BY <1>2, <1>4, <1>8, AnswerToolReturns
<1>9. CASE Cancel \/ RetryRunning
  <2>1. turn' = [turn EXCEPT !.aborted = TRUE]
    BY <1>9 DEF Cancel, RetryRunning
  <2> QED BY <1>1, <1>2, <2>1 DEF Turn
<1>10. CASE StopTurn
  BY <1>2, <1>10, StopTurnFacts
<1>11. CASE Redo
  <2>1. turn' = turn /\ redoStack # <<>>
    BY <1>11 DEF Redo
  <2> QED BY <1>1, <1>2, <2>1 DEF TurnAlone
<1>12. ASSUME NEW i \in DOMAIN history, Delete(i)
       PROVE  \E k \in DOMAIN history' : AnswerAt(history', turn', k)
  <2>1. turn'.phase = turn.phase /\ turn'.aborted = turn.aborted
    BY <1>1, <1>12 DEF Delete, Turn
  <2>2. ~CountedOn(i)
    BY <1>2, <1>12 DEF Delete
  <2> QED BY <1>2, <1>4, <1>12, <2>1, <2>2, AnswerDelete
<1>13. CASE RetryNow
  BY <1>2, <1>3, <1>4, <1>13, AnswerRetryNow
<1>14. CASE Submit \/ UNCHANGED vars
  BY <1>3, <1>4, <1>14 DEF Submit, vars, record
<1> QED BY <1>5, <1>6, <1>7, <1>8, <1>9, <1>10, <1>11, <1>12, <1>13, <1>14
        DEF Next, RetryIdle, RetryResumes, Undo, UndoTail, UndoEarlier

-----------------------------------------------------------------------------
(* The conversation stays in order                                         *)

\* An agent starts with its system prompt at most.
LEMMA OrderInit ==
  ASSUME HistoryAssumption, Init
  PROVE  OrderInv
<1>1. Cardinality({}) = 0
  BY FS_EmptySet
<1>2. MaxPrompts \in Nat /\ NoInput \in Input
  BY DEF HistoryAssumption, Input, NoInput
<1> DEFINE m == Message(1, "system")
<1>3. m \in Msg /\ m.id = 1 /\ m.role = "system" /\ m.calls = <<>>
  <2>1. m \in Msg
    BY MessageTypes DEF Role
  <2> QED BY <2>1 DEF Message
<1> HIDE DEF m
<1>4. history = <<>> \/ history = <<m>>
  BY DEF Init, m
<1>5. history \in Seq(Msg) /\ minted = Len(history) /\ minted \in Nat
      /\ \A k \in 1..Len(history) : history[k] = m /\ k = 1
  BY <1>3, <1>4 DEF Init
<1>6. DOMAIN history = 1..Len(history)
  BY <1>5, MsgFacts
<1>7. redoStack = <<>> /\ DOMAIN redoStack = {} /\ gone = {}
  BY DEF Init
<1>8. TypeOK
  <2>1. NoTurn \in Turn
    BY <1>2 DEF NoTurn, Turn, Call, NoCall
  <2>2. \A S : <<>> \in Seq(S)
    BY EmptySeq
  <2>3. asked \in Input
    BY <1>2 DEF Init, Input
  <2> QED BY <1>2, <1>5, <2>1, <2>2, <2>3 DEF Init, TypeOK
<1>9. InPlay = Range(history) /\ Bundled = {}
  BY <1>7 DEF InPlay, Bundled
<1>10. \A x \in Range(history) : x = m
  BY <1>5, IdsFacts
<1>11. OncePerMessage
  <2>1. Distinct(history)
    BY <1>5, <1>6 DEF Distinct
  <2>2. Ids(history) = 1..minted
    <3>1. \A x : x \in Ids(history) <=> \E k \in 1..Len(history) : x = history[k].id
      BY <1>5, IdsFacts
    <3>2. \A k \in 1..Len(history) : history[k].id = k
      BY <1>3, <1>5
    <3>3. \A x : x \in Ids(history) <=> x \in 1..Len(history)
      BY <3>1, <3>2
    <3>4. Ids(history) = 1..Len(history)
      <4> HIDE DEF m
      <4> QED BY <3>3, Zenon
    <3> QED BY <1>5, <3>4
  <2> QED BY <1>7, <1>9, <2>1, <2>2 DEF OncePerMessage
<1>12. Paired
  <2>1. Places(history, "tool") = {}
    BY <1>3, <1>5, <1>6 DEF Places, Is
  <2> QED BY <1>7, <2>1 DEF Paired, Standing
<1>13. WellMade
  <2>1. DOMAIN m.calls = {} /\ ~Declares(m)
    BY <1>3 DEF Declares
  <2> QED BY <1>9, <1>10, <2>1 DEF WellMade
<1>14. AnsweredOnce
  BY <1>3, <1>9, <1>10 DEF AnsweredOnce, Is
<1>15. PlacedAtPrompts /\ Reversible
  BY <1>7 DEF PlacedAtPrompts, Reversible
<1>16. TurnAlone /\ AnswersInPlace
  BY DEF Init, TurnAlone, AnswersInPlace, NoTurn
<1> QED BY <1>8, <1>11, <1>12, <1>13, <1>14, <1>15, <1>16 DEF OrderInv

\* The conversation stays in order (OrderInv): no message is lost or there twice, every
\* response stands behind the answer that declares its call, a running turn finds its
\* answer at the end, whatever is undone, redone, deleted and retried while it waits.
LEMMA ConversationOrder == Spec => []OrderInv
<1>1. Init => OrderInv
  BY HistoryAssumption, OrderInit
<1>2. OrderInv /\ [Next]_vars => OrderInv'
  <2> SUFFICES ASSUME OrderInv, [Next]_vars PROVE OrderInv'
    OBVIOUS
  <2>1. TypeOK'
    BY HistoryAssumption, OrderParts, TypeStep
  <2>2. TurnAlone'
    BY HistoryAssumption, TurnAloneStep
  <2>3. AnswersInPlace'
    BY HistoryAssumption, AnswersInPlaceStep
  <2>4. Conversation(history', redoStack', gone', minted', disturbed')
    BY HistoryAssumption, ConversationStep
  <2> QED BY <2>1, <2>2, <2>3, <2>4, OrderFromParts
<1> QED BY <1>1, <1>2, PTL DEF Spec

-----------------------------------------------------------------------------
(* Redo                                                                    *)

\* Identities are put back as messages are.
LEMMA PasteIdsOf ==
  ASSUME NEW h \in Seq(Msg), NEW p \in Seq(Msg), NEW at \in 0..Len(h)
  PROVE  IdsOf(Upto(h, at) \o p \o From(h, at + 1))
           = Upto(IdsOf(h), at) \o IdsOf(p) \o From(IdsOf(h), at + 1)
<1> DEFINE f == Upto(h, at) \o p \o From(h, at + 1)
           q == IdsOf(h)
           r == IdsOf(p)
           w == Upto(q, at) \o r \o From(q, at + 1)
<1>1. /\ f \in Seq(Msg) /\ Len(f) = Len(h) + Len(p)
      /\ \A k \in 1..Len(f) :
           \/ k =< at /\ k \in 1..Len(h) /\ f[k] = h[k]
           \/ k > at /\ k =< at + Len(p) /\ k - at \in 1..Len(p) /\ f[k] = p[k - at]
           \/ k > at + Len(p) /\ k - Len(p) \in 1..Len(h) /\ f[k] = h[k - Len(p)]
  BY PastePlaces
<1>2. Len(h) \in Nat /\ Len(p) \in Nat /\ at \in Nat
  BY MsgFacts
<1> HIDE DEF f
<1>3. /\ q \in Seq(Nat) /\ Len(q) = Len(h) /\ \A k \in 1..Len(h) : q[k] = h[k].id
      /\ r \in Seq(Nat) /\ Len(r) = Len(p) /\ \A k \in 1..Len(p) : r[k] = p[k].id
      /\ IdsOf(f) \in Seq(Nat) /\ Len(IdsOf(f)) = Len(f) /\ \A k \in 1..Len(f) : IdsOf(f)[k] = f[k].id
  BY <1>1, IdsOfType
<1> HIDE DEF q, r
<1>4. w \in Seq(Nat) /\ Pasted(w, q, r, at)
  <2>0. q \in Seq(Nat) /\ r \in Seq(Nat) /\ at \in 0..Len(q)
    BY <1>3
  <2> HIDE DEF w
  <2>1. \E v \in Seq(Nat) : v = Upto(q, at) \o r \o From(q, at + 1) /\ Pasted(v, q, r, at)
    BY <2>0, PasteNumbers
  <2>2. PICK v \in Seq(Nat) : v = w /\ Pasted(v, q, r, at)
    BY <2>1, Zenon DEF w
  <2> QED BY <2>2
<1> HIDE DEF w
<1>5. /\ Len(w) = Len(f)
      /\ \A k \in 1..Len(w) :
           w[k] = IF k =< at THEN q[k] ELSE IF k =< at + Len(p) THEN r[k - at] ELSE q[k - Len(p)]
  BY <1>1, <1>3, <1>4 DEF Pasted
<1>6. ASSUME NEW k \in 1..Len(w) PROVE w[k] = IdsOf(f)[k]
  <2>1. k \in 1..Len(f) /\ k \in Nat
    BY <1>5
  <2>2. CASE k =< at /\ k \in 1..Len(h) /\ f[k] = h[k]
    BY <1>3, <1>5, <2>1, <2>2
  <2>3. CASE k > at /\ k =< at + Len(p) /\ k - at \in 1..Len(p) /\ f[k] = p[k - at]
    <3>1. ~(k =< at)
      BY <1>2, <2>1, <2>3
    <3> QED BY <1>3, <1>5, <2>1, <2>3, <3>1
  <2>4. CASE k > at + Len(p) /\ k - Len(p) \in 1..Len(h) /\ f[k] = h[k - Len(p)]
    <3>1. ~(k =< at) /\ ~(k =< at + Len(p))
      BY <1>2, <2>1, <2>4
    <3> QED BY <1>3, <1>5, <2>1, <2>4, <3>1
  <2> QED BY <1>1, <2>1, <2>2, <2>3, <2>4
<1>7. w = IdsOf(f)
  BY <1>3, <1>4, <1>5, <1>6, SeqEqual
<1> QED BY <1>7 DEF w, q, r, f

\* A redo of the last bundle b brings back what was before its undo.
LEMMA RedoBringsBack ==
  ASSUME HistoryAssumption, OrderInv, Redo, Seen = Last(redoStack).after
  PROVE  Seen' = Last(redoStack).before
<1> DEFINE b  == Last(redoStack)
           at == IF b.at = AtTail \/ b.at > Len(history) THEN Len(history) ELSE b.at
           to == IF b.at = AtTail \/ b.at > Len(b.after[1]) THEN Len(b.after[1]) ELSE b.at
<1>1. /\ history \in Seq(Msg) /\ redoStack \in Seq(Bundle)
      /\ \A i \in DOMAIN redoStack : Undoes(redoStack[i])
      /\ b.after = <<IdsOf(history), turnCount>>
  BY OrderParts DEF TypeOK, Conversation, Seen
<1>2. /\ redoStack # <<>>
      /\ history' = Upto(history, at) \o b.popped \o From(history, at + 1)
      /\ turnCount' = turnCount + b.delta
  BY DEF Redo, PutBack
<1>3. b = redoStack[Len(redoStack)] /\ Len(redoStack) \in DOMAIN redoStack
  BY <1>1, <1>2, PopFacts
<1>4. b \in Bundle /\ b.popped \in Seq(Msg) /\ b.at \in Nat \cup {AtTail}
  BY <1>1, <1>3, BundleFacts
<1>5. b.before = <<Upto(b.after[1], to) \o IdsOf(b.popped) \o From(b.after[1], to + 1),
                   b.after[2] + b.delta>>
  BY <1>1, <1>3 DEF Undoes
<1>6. b.after[1] = IdsOf(history) /\ b.after[2] = turnCount /\ Len(IdsOf(history)) = Len(history)
  BY <1>1, IdsOfType
<1>7. to = at
  BY <1>6
<1>8. at \in 0..Len(history)
  <2>1. Len(history) \in Nat
    BY <1>1, MsgFacts
  <2> QED BY <1>4, <2>1
<1> HIDE DEF b, at, to
<1>9. IdsOf(history') = Upto(IdsOf(history), at) \o IdsOf(b.popped) \o From(IdsOf(history), at + 1)
  BY <1>1, <1>2, <1>4, <1>8, PasteIdsOf
<1>10. b.before = <<IdsOf(history'), turnCount'>>
  BY <1>2, <1>5, <1>6, <1>7, <1>9
<1> QED BY <1>10 DEF Seen, b

\* The stack gets shorter only when a turn starts, or by a redo.
LEMMA StackShorter ==
  ASSUME HistoryAssumption, OrderInv, [Next]_vars, Len(redoStack') < Len(redoStack)
  PROVE  Redo \/ turn' # turn
<1>1. redoStack \in Seq(Bundle) /\ Len(redoStack) \in Nat
  BY OrderParts, LenProperties DEF TypeOK
<1>2. redoStack' # redoStack
  BY <1>1
<1>3. ASSUME NEW c \in Bundle, redoStack' = Append(redoStack, c) PROVE FALSE
  BY <1>1, <1>3, PushFacts
<1>4. ASSUME NEW a \in Nat \ {0}, NEW b \in Nat, NEW at \in Nat \cup {AtTail},
             a =< b + 1, b =< Len(history), TakeOut(a, b, at)
      PROVE  FALSE
  BY <1>3, <1>4, TypeTakeOut, OrderParts
<1>5. CASE UndoTail
  <2>1. TakeOut(Left(history) + 1, Len(history), AtTail)
    BY <1>2, <1>5 DEF UndoTail
  <2> DEFINE a == Left(history) + 1
             b == Len(history)
  <2>2. a \in Nat \ {0} /\ b \in Nat /\ a =< b + 1 /\ b =< Len(history)
    BY TypeRecovered, OrderParts
  <2>3. TakeOut(a, b, AtTail) /\ AtTail \in Nat \cup {AtTail}
    BY <2>1
  <2> HIDE DEF a, b
  <2> QED BY <1>4, <2>2, <2>3
<1>6. ASSUME NEW i \in DOMAIN history, UndoEarlier(i) PROVE FALSE
  <2> DEFINE a == SegmentStart(i)
             b == SegmentEnd(i)
             at == a - 1
  <2>1. history \in Seq(Msg) /\ TakeOut(a, b, at) /\ \E s \in 1..i : Is(history[s], "user")
    BY <1>6, OrderParts DEF UndoEarlier, TypeOK
  <2>2. a \in 1..i /\ b \in i..Len(history)
    BY <2>1, SegmentFacts
  <2>3. Len(history) \in Nat /\ DOMAIN history = 1..Len(history)
    BY <2>1, MsgFacts
  <2> HIDE DEF a, b
  <2>4. i \in Nat /\ i >= 1
    BY <2>3
  <2>5. a \in Nat \ {0} /\ a =< i /\ at \in Nat \cup {AtTail}
    BY <2>2, <2>4
  <2>6. b \in Nat /\ i =< b /\ b =< Len(history)
    BY <2>2, <2>3, <2>4
  <2>7. a =< b + 1
    BY <2>4, <2>5, <2>6
  <2> HIDE DEF at
  <2> QED BY <1>4, <2>1, <2>5, <2>6, <2>7
<1>7. CASE StartTurn
  <2>1. turn.phase = "none" /\ turn'.phase # "none"
    BY <1>7 DEF StartTurn, Send, NoTurn
  <2> QED BY <2>1
<1>8. CASE RetryNow
  BY <1>2, <1>5, <1>8 DEF RetryNow, ResendPrompt, Resume, ResendUndone, ResendInterrupted
<1>9. CASE \/ Submit \/ PrecallsReturn \/ ModelAnswers \/ ModelFails \/ ToolReturns \/ Again \/ Unwind
           \/ Cancel \/ RetryRunning \/ UNCHANGED vars \/ \E i \in DOMAIN history : Delete(i)
  BY <1>2, <1>9 DEF Submit, PrecallsReturn, ModelAnswers, ModelFails, ToolReturns, Again, Unwind,
     Cancel, RetryRunning, Delete, vars, record
<1> QED BY <1>5, <1>6, <1>7, <1>8, <1>9 DEF Next, Undo, RetryIdle, RetryResumes

\* A redo that finds the conversation as its undo left it brings back exactly what was
\* there before (RedoRestores).
THEOREM RedoBringsItBack == Spec => RedoRestores
<1> DEFINE Restores ==
      \A b \in {redoStack[i] : i \in {j \in {Len(redoStack)} : j > 0}} :
        Len(redoStack') < Len(redoStack) /\ turn' = turn /\ Seen = b.after => Seen' = b.before
<1>1. OrderInv /\ [Next]_vars => [Restores]_vars
  <2> SUFFICES ASSUME OrderInv, [Next]_vars,
                      NEW b \in {redoStack[i] : i \in {j \in {Len(redoStack)} : j > 0}},
                      Len(redoStack') < Len(redoStack), turn' = turn, Seen = b.after
               PROVE  Seen' = b.before
    OBVIOUS
  <2>1. Redo
    BY HistoryAssumption, StackShorter
  <2>2. redoStack \in Seq(Bundle) /\ redoStack # <<>>
    BY <2>1, OrderParts DEF Redo, TypeOK
  <2>3. b = Last(redoStack)
    BY <2>2, PopFacts
  <2> QED BY <2>1, <2>3, HistoryAssumption, RedoBringsBack
<1>2. Spec => []OrderInv
  BY ConversationOrder
<1> QED BY <1>1, <1>2, PTL DEF Spec, RedoRestores

-----------------------------------------------------------------------------
(* The payload                                                             *)

\* A conversation in order, as OrderInv has it when nothing is disturbed.
Sound(h) == Distinct(h) /\ Standing(h) /\ Made(Range(h)) /\ Single(Range(h))

\* The parts of Sound, place by place.
LEMMA SoundFacts ==
  ASSUME NEW h \in Seq(Msg), Sound(h)
  PROVE  /\ Len(h) \in Nat /\ DOMAIN h = 1..Len(h)
         /\ \A i, j \in 1..Len(h) : h[i].id = h[j].id => i = j
         /\ \A i \in 1..Len(h) : Is(h[i], "tool") =>
              \E j \in 1..(i - 1) : /\ h[i].call \in Range(h[j].calls)
                                    /\ \A k \in (j + 1)..(i - 1) : Is(h[k], "tool")
         /\ \A i \in 1..Len(h) :
              /\ h[i].calls # <<>> => Is(h[i], "assistant") /\ ~Is(h[i], "tool")
              /\ \A n \in DOMAIN h[i].calls : h[i].calls[n][1] = h[i].id
              /\ \A n, k \in DOMAIN h[i].calls : h[i].calls[n] = h[i].calls[k] => n = k
         /\ \A i, j \in 1..Len(h) : Is(h[i], "tool") /\ Is(h[j], "tool") /\ h[i].call = h[j].call => i = j
<1>1. Len(h) \in Nat /\ DOMAIN h = 1..Len(h)
  BY MsgFacts
<1>2. \A i \in 1..Len(h) : h[i] \in Range(h)
  BY IdsFacts
<1>3. \A i, j \in 1..Len(h) : h[i].id = h[j].id => i = j
  BY <1>1 DEF Sound, Distinct
<1>4. \A i \in 1..Len(h) : Is(h[i], "tool") =>
        \E j \in 1..(i - 1) : /\ h[i].call \in Range(h[j].calls)
                              /\ \A k \in (j + 1)..(i - 1) : Is(h[k], "tool")
  BY <1>1 DEF Sound, Standing, Places
<1>5. ASSUME NEW i \in 1..Len(h)
      PROVE  /\ h[i].calls # <<>> => Is(h[i], "assistant") /\ ~Is(h[i], "tool")
             /\ \A n \in DOMAIN h[i].calls : h[i].calls[n][1] = h[i].id
             /\ \A n, k \in DOMAIN h[i].calls : h[i].calls[n] = h[i].calls[k] => n = k
  <2>1. h[i] \in Range(h)
    BY <1>2
  <2> QED BY <2>1 DEF Sound, Made, Declares, Is
<1>6. ASSUME NEW i \in 1..Len(h), NEW j \in 1..Len(h), Is(h[i], "tool"), Is(h[j], "tool"), h[i].call = h[j].call
      PROVE  i = j
  <2>1. h[i].id = h[j].id
    BY <1>2, <1>6 DEF Sound, Single
  <2> QED BY <1>3, <2>1
<1> QED BY <1>1, <1>3, <1>4, <1>5, <1>6

\* The message that declares the call of a response comes before it, with nothing but
\* responses to its calls in between, no more than it has calls.
LEMMA DeclarerFacts ==
  ASSUME NEW h \in Seq(Msg), Sound(h), NEW i \in 1..Len(h), NEW j \in 1..Len(h),
         Is(h[i], "tool"), h[i].call \in Range(h[j].calls)
  PROVE  /\ j < i /\ Is(h[j], "assistant") /\ ~Is(h[j], "tool")
         /\ \A k \in (j + 1)..i : Is(h[k], "tool") /\ h[k].call \in Range(h[j].calls)
         /\ i - j =< Len(h[j].calls)
<1>1. /\ Len(h) \in Nat /\ DOMAIN h = 1..Len(h)
      /\ i \in Nat /\ j \in Nat
  BY MsgFacts
<1>2. ASSUME NEW k \in 1..Len(h), h[i].call \in Range(h[k].calls) PROVE k = j
  <2>1. PICK m \in DOMAIN h[k].calls : h[k].calls[m] = h[i].call
    BY <1>2 DEF Range
  <2>2. PICK n \in DOMAIN h[j].calls : h[j].calls[n] = h[i].call
    BY DEF Range
  <2>3. h[i].call[1] = h[k].id /\ h[i].call[1] = h[j].id
    BY <2>1, <2>2, SoundFacts
  <2>4. \A x, y \in 1..Len(h) : h[x].id = h[y].id => x = y
    BY SoundFacts
  <2>5. h[k].id = h[j].id
    BY <2>3
  <2> QED BY <2>4, <2>5
<1>3. PICK l \in 1..(i - 1) : /\ h[i].call \in Range(h[l].calls)
                              /\ \A k \in (l + 1)..(i - 1) : Is(h[k], "tool")
  BY SoundFacts
<1>4. l = j
  BY <1>1, <1>2, <1>3
<1>5. j < i /\ \A k \in (j + 1)..(i - 1) : Is(h[k], "tool")
  BY <1>1, <1>3, <1>4
<1>6. h[j].calls # <<>>
  BY DEF Range
<1>7. Is(h[j], "assistant") /\ ~Is(h[j], "tool")
  BY <1>6, SoundFacts
<1>8. ASSUME NEW k \in (j + 1)..i
      PROVE  Is(h[k], "tool") /\ h[k].call \in Range(h[j].calls)
  <2>1. k \in 1..Len(h) /\ k \in Nat
    BY <1>1
  <2>2. CASE k = i
    BY <2>2
  <2>3. CASE k # i
    <3>1. Is(h[k], "tool")
      BY <1>1, <1>5, <2>3
    <3>2. PICK m \in 1..(k - 1) : /\ h[k].call \in Range(h[m].calls)
                                  /\ \A n \in (m + 1)..(k - 1) : Is(h[n], "tool")
      BY <2>1, <3>1, SoundFacts
    <3>3. m \in 1..Len(h) /\ m \in Nat /\ m < k
      BY <1>1, <2>1
    <3>4. h[m].calls # <<>>
      BY <3>2 DEF Range
    <3>5. ~Is(h[m], "tool")
      BY <3>3, <3>4, SoundFacts
    <3>6. ~(m < j)
      <4>1. m < j => j \in (m + 1)..(k - 1)
        BY <1>1, <2>1, <3>3
      <4> QED BY <1>7, <3>2, <4>1
    <3>7. ~(m > j)
      <4>1. m > j => m \in (j + 1)..(i - 1)
        BY <1>1, <2>1, <2>3, <3>3
      <4> QED BY <1>5, <3>5, <4>1
    <3>8. m = j
      BY <1>1, <3>3, <3>6, <3>7
    <3> QED BY <3>1, <3>2, <3>8
  <2> QED BY <2>2, <2>3
<1>9. i - j =< Len(h[j].calls)
  <2> DEFINE d == i - j
             c == h[j].calls
             N == Len(c)
             f == [k \in 1..d |-> CHOOSE n \in 1..N : c[n] = h[j + k].call]
  <2>1. c \in Seq(Call) /\ N \in Nat /\ DOMAIN c = 1..N
    BY MsgFacts, LenProperties
  <2>2. d \in Nat /\ d \in Int /\ 1 \in Int /\ N \in Int
    BY <1>1, <1>5, <2>1
  <2>3. ASSUME NEW k \in 1..d PROVE f[k] \in 1..N /\ c[f[k]] = h[j + k].call
    <3>1. j + k \in (j + 1)..i
      BY <1>1, <1>5
    <3>2. h[j + k].call \in Range(c)
      BY <1>8, <3>1
    <3> HIDE DEF c
    <3>3. \E n \in 1..N : c[n] = h[j + k].call
      BY <2>1, <3>2 DEF Range
    <3> HIDE DEF N, d
    <3> QED BY <3>3
  <2> HIDE DEF f, c, N
  <2>4. ASSUME NEW k \in 1..d, NEW e \in 1..d, f[k] = f[e] PROVE k = e
    <3>1. h[j + k].call = h[j + e].call
      BY <2>3, <2>4
    <3>2. /\ j + k \in (j + 1)..i /\ j + e \in (j + 1)..i
          /\ j + k \in 1..Len(h) /\ j + e \in 1..Len(h)
      BY <1>1, <1>5
    <3>3. j + k = j + e
      BY <1>8, <3>1, <3>2, SoundFacts
    <3> QED BY <1>1, <3>3
  <2>5. f \in [1..d -> 1..N]
    <3>1. \A k \in 1..d : f[k] \in 1..N
      BY <2>3
    <3> HIDE DEF d
    <3> QED BY <3>1 DEF f
  <2> HIDE DEF d
  <2>6. IsFiniteSet(1..d) /\ IsFiniteSet(1..N) /\ Cardinality(1..d) = d /\ Cardinality(1..N) = N
    <3>1. ASSUME NEW n \in Nat PROVE IsFiniteSet(1..n) /\ Cardinality(1..n) = n
      <4>1. n \in Int /\ 1 \in Int
        OBVIOUS
      <4>2. IsFiniteSet(1..n) /\ Cardinality(1..n) = IF 1 > n THEN 0 ELSE n - 1 + 1
        BY <4>1, FS_Interval
      <4> QED BY <4>2
    <3> QED BY <2>1, <2>2, <3>1
  <2>7. ~(Cardinality(1..N) < Cardinality(1..d))
    <3>1. SUFFICES ASSUME Cardinality(1..N) < Cardinality(1..d) PROVE FALSE
      OBVIOUS
    <3>2. \E k, e \in 1..d : k # e /\ f[k] = f[e]
      BY <2>5, <2>6, <3>1, FS_PigeonHole
    <3> QED BY <2>4, <3>2
  <2> QED BY <2>1, <2>2, <2>6, <2>7 DEF d, c, N
<1> QED BY <1>5, <1>7, <1>8, <1>9

\* A response is kept with the calls of the message that declares its own.
LEMMA KeptTogether ==
  ASSUME NEW h \in Seq(Msg), Sound(h), NEW i \in 1..Len(h), NEW j \in 1..Len(h),
         Is(h[i], "tool"), h[i].call \in Range(h[j].calls), KeepsCalls(h, j)
  PROVE  KeepsResponse(h, i)
<1>1. /\ j < i /\ Is(h[j], "assistant")
      /\ \A k \in (j + 1)..i : Is(h[k], "tool")
  BY DeclarerFacts
<1>2. Len(h) \in Nat /\ i \in Nat /\ j \in Nat /\ j \in 1..(i - 1)
  BY <1>1, MsgFacts
<1>3. ASSUME NEW k \in (j + 1)..(i - 1) PROVE Is(h[k], "tool") /\ h[k].call # h[i].call
  <2>1. k \in (j + 1)..i /\ k \in 1..Len(h) /\ k # i
    BY <1>2
  <2> QED BY <1>1, <2>1, SoundFacts
<1> QED BY <1>1, <1>2, <1>3 DEF KeepsResponse

\* Without responses that nothing declares there is no answer that keeps them.
LEMMA KeptFacts ==
  ASSUME NEW h \in Seq(Msg), Sound(h), NEW i \in 1..Len(h), Is(h[i], "tool"), KeepsResponse(h, i)
  PROVE  \E j \in 1..(i - 1) :
           /\ Is(h[j], "assistant") /\ KeepsCalls(h, j) /\ h[i].call \in Range(h[j].calls)
           /\ \A k \in (j + 1)..(i - 1) : Is(h[k], "tool")
<1>1. PICK l \in 1..(i - 1) : h[i].call \in Range(h[l].calls) /\ \A k \in (l + 1)..(i - 1) : Is(h[k], "tool")
  BY SoundFacts
<1>2. Len(h) \in Nat /\ l \in 1..Len(h) /\ DOMAIN h = 1..Len(h)
  BY MsgFacts
<1>3. Is(h[l], "assistant")
  BY <1>1, <1>2, DeclarerFacts
<1>4. ~\A j \in DOMAIN h : ~Is(h[j], "assistant")
  BY <1>2, <1>3
<1> QED BY <1>4, Zenon DEF KeepsResponse

\* What Formatted shows of message i, and the places it keeps.
Shown(h) == [i \in DOMAIN h |-> IF KeepsCalls(h, i) THEN h[i] ELSE [h[i] EXCEPT !.calls = <<>>]]
Kept(h)  == DOMAIN h \ {i \in Places(h, "tool") : ~KeepsResponse(h, i)}

\* What the payload keeps, in the order of the history.
LEMMA FormattedFacts ==
  ASSUME NEW h \in Seq(Msg)
  PROVE  LET K == Kept(h)
             p == Formatted(h)
         IN  /\ K \in SUBSET Nat /\ IsFiniteSet(K) /\ K \subseteq 1..Len(h)
             /\ \A k \in 1..Len(h) : k \in K <=> (Is(h[k], "tool") => KeepsResponse(h, k))
             /\ p \in Seq(Msg)
             /\ \A n \in 1..Len(p) : \E k \in K : Rank(K, k) = n /\ p[n] = Shown(h)[k]
             /\ \A k \in K : Rank(K, k) \in 1..Len(p) /\ p[Rank(K, k)] = Shown(h)[k]
             /\ \A k, l \in K : k < l => Rank(K, k) < Rank(K, l)
             /\ \A k \in 1..Len(h) :
                  /\ Shown(h)[k].role = h[k].role /\ Shown(h)[k].call = h[k].call
                  /\ Shown(h)[k].calls = IF KeepsCalls(h, k) THEN h[k].calls ELSE <<>>
<1> DEFINE s == Shown(h)
           D == {i \in Places(h, "tool") : ~KeepsResponse(h, i)}
<1>1. /\ Len(h) \in Nat /\ DOMAIN h = 1..Len(h)
      /\ \A k \in 1..Len(h) : h[k] \in Msg
  BY MsgFacts
<1>2. ASSUME NEW k \in 1..Len(h)
      PROVE  /\ s[k] \in Msg /\ s[k].role = h[k].role /\ s[k].call = h[k].call
             /\ s[k].calls = IF KeepsCalls(h, k) THEN h[k].calls ELSE <<>>
  <2> DEFINE m == h[k]
             o == [m EXCEPT !.calls = <<>>]
  <2>1. s[k] = IF KeepsCalls(h, k) THEN m ELSE o
    BY <1>1 DEF Shown
  <2>2. m \in Msg
    BY <1>1
  <2>3. <<>> \in Seq(Call)
    BY EmptySeq
  <2>4. o \in Msg /\ o.role = m.role /\ o.call = m.call /\ o.calls = <<>>
    <3> HIDE DEF m
    <3> QED BY <2>2, <2>3 DEF Msg
  <2> HIDE DEF m, o, s
  <2>5. m = h[k]
    BY DEF m
  <2> QED BY <2>1, <2>2, <2>4, <2>5
<1>3. s \in Seq(Msg) /\ DOMAIN s = DOMAIN h /\ Len(s) = Len(h)
  <2>1. DOMAIN s = 1..Len(h)
    BY <1>1 DEF Shown
  <2> DEFINE e(k) == s[k]
             N == Len(h)
  <2>2. s = [k \in 1..N |-> e(k)]
    BY <1>1 DEF Shown
  <2>3. \A k \in 1..N : e(k) \in Msg
    BY <1>2
  <2> HIDE DEF s, e, N
  <2>4. N \in Nat
    BY <1>1 DEF N
  <2>5. [k \in 1..N |-> e(k)] \in Seq(Msg)
    BY <2>3, <2>4, IsASeq
  <2>6. s \in Seq(Msg)
    BY <2>2, <2>5
  <2>7. Len(s) = N
    BY <2>1, <2>4, <2>6, LenProperties DEF N
  <2> QED BY <1>1, <2>1, <2>6, <2>7 DEF N
<1>4. Formatted(h) = Without(s, D)
  BY DEF Formatted, Shown
<1> HIDE DEF s, D
<1> DEFINE p == Without(s, D)
<1> HIDE DEF p
<1>7. p \in Seq(Msg) /\ \E K \in SUBSET Nat : Leaves(s, D, p, K)
  BY <1>3, WithoutFacts DEF p
<1>5. PICK K \in SUBSET Nat : Leaves(s, D, p, K)
  BY <1>7
<1>6. K = Kept(h)
  BY <1>3, <1>5 DEF Kept, D, Leaves
<1>8. \A k \in 1..Len(h) : k \in Kept(h) <=> (Is(h[k], "tool") => KeepsResponse(h, k))
  BY <1>1 DEF Kept, Places
<1>9. /\ \A n \in 1..Len(p) : \E k \in K : Rank(K, k) = n /\ p[n] = s[k]
      /\ \A k \in K : Rank(K, k) \in 1..Len(p) /\ p[Rank(K, k)] = s[k]
  BY <1>5 DEF Leaves
<1>10. \A k, l \in K : k < l => Rank(K, k) < Rank(K, l)
  BY <1>5 DEF Leaves
<1>11. K \in SUBSET Nat /\ IsFiniteSet(K) /\ K \subseteq 1..Len(h)
  BY <1>3, <1>5 DEF Leaves
<1>12. Formatted(h) = p /\ p \in Seq(Msg)
  BY <1>4, <1>7 DEF p
<1>13. Shown(h) = s
  BY DEF s
<1> QED BY <1>2, <1>6, <1>8, <1>9, <1>10, <1>11, <1>12, <1>13


\* A call that is kept is answered right behind its answer.
LEMMA FormattedAnswers ==
  ASSUME NEW h \in Seq(Msg), Sound(h), Len(h) > 1,
         NEW m \in DOMAIN Formatted(h), NEW n \in DOMAIN Formatted(h)[m].calls
  PROVE  \E k \in (m + 1)..(m + Len(Formatted(h)[m].calls)) :
           k =< Len(Formatted(h)) /\ Formatted(h)[k].call = Formatted(h)[m].calls[n]
<1> DEFINE p == Formatted(h)
           K == Kept(h)
           s == Shown(h)
           L == Len(h)
<1>1. /\ K \in SUBSET Nat /\ IsFiniteSet(K) /\ K \subseteq 1..L
      /\ \A k \in 1..L : k \in K <=> (Is(h[k], "tool") => KeepsResponse(h, k))
      /\ p \in Seq(Msg)
      /\ \A k \in 1..Len(p) : \E l \in K : Rank(K, l) = k /\ p[k] = s[l]
      /\ \A k \in K : Rank(K, k) \in 1..Len(p) /\ p[Rank(K, k)] = s[k]
      /\ \A k, l \in K : k < l => Rank(K, k) < Rank(K, l)
      /\ \A k \in 1..L :
           /\ s[k].role = h[k].role /\ s[k].call = h[k].call
           /\ s[k].calls = IF KeepsCalls(h, k) THEN h[k].calls ELSE <<>>
  BY FormattedFacts
<1>2. m \in DOMAIN p /\ n \in DOMAIN p[m].calls
  OBVIOUS
<1> HIDE DEF p, K, s
<1>3. DOMAIN p = 1..Len(p) /\ Len(p) \in Nat /\ L \in Nat /\ DOMAIN h = 1..L /\ m \in Nat
  BY <1>1, <1>2, MsgFacts
<1>4. PICK j \in K : Rank(K, j) = m /\ p[m] = s[j]
  BY <1>1, <1>2, <1>3
<1>5. j \in 1..L /\ j \in Nat
  BY <1>1, <1>3
<1>6. KeepsCalls(h, j) /\ p[m].calls = h[j].calls
  <2>1. p[m].calls # <<>>
    BY <1>2
  <2> QED BY <1>1, <1>4, <1>5, <2>1
<1> DEFINE c == h[j].calls[n]
<1>7. n \in DOMAIN h[j].calls /\ c \in Range(h[j].calls) /\ p[m].calls[n] = c
  BY <1>2, <1>6 DEF Range
<1> HIDE DEF c
<1>8. PICK i \in 1..L : Is(h[i], "tool") /\ h[i].call = c
  <2>1. Range(h[j].calls) \subseteq Answered(h)
    <3>1. L # 1
      <4>1. L > 1 /\ L \in Nat
        BY <1>3
      <4> HIDE DEF L
      <4> QED BY <4>1
    <3> QED BY <1>6, <3>1 DEF KeepsCalls
  <2>2. c \in Answered(h)
    BY <1>7, <2>1
  <2> QED BY <1>3, <2>2 DEF Answered, Places
<1>9. i \in Nat
  BY <1>3
<1>10. /\ j < i /\ \A k \in (j + 1)..i : Is(h[k], "tool") /\ h[k].call \in Range(h[j].calls)
       /\ i - j =< Len(h[j].calls)
  BY <1>5, <1>7, <1>8, DeclarerFacts
<1>11. ASSUME NEW k \in j..i PROVE k \in K
  <2>1. CASE k = j
    BY <2>1
  <2>2. CASE k # j
    <3>1. k \in (j + 1)..i /\ k \in 1..L
      BY <1>3, <1>5, <1>9, <2>2
    <3>2. Is(h[k], "tool") /\ h[k].call \in Range(h[j].calls)
      BY <1>10, <3>1
    <3>3. KeepsResponse(h, k)
      BY <1>5, <1>6, <3>1, <3>2, KeptTogether
    <3> QED BY <1>1, <3>1, <3>3
  <2> QED BY <2>1, <2>2
<1>12. Rank(K, i) = m + (i - j)
  <2>1. j..i \subseteq K /\ i \in K /\ j =< i
    BY <1>5, <1>9, <1>10, <1>11
  <2>2. Rank(K, i) = Rank(K, j) + (i - j)
    BY <1>1, <2>1, RankRun
  <2> QED BY <1>4, <2>2
<1> DEFINE k == Rank(K, i)
           N == Len(h[j].calls)
<1>13. k \in 1..Len(p) /\ p[k] = s[i] /\ i \in K
  <2>1. i \in j..i
    BY <1>5, <1>9, <1>10
  <2>2. i \in K
    BY <1>11, <2>1
  <2> QED BY <1>1, <2>2
<1>14. p[k].call = c
  BY <1>1, <1>8, <1>13
<1>15. k \in (m + 1)..(m + N) /\ k =< Len(p)
  <2>1. N \in Nat
    <3>1. h[j].calls \in Seq(Call)
      BY <1>5, MsgFacts
    <3> QED BY <3>1, LenProperties
  <2>2. k = m + (i - j) /\ i - j =< N /\ k \in 1..Len(p)
    BY <1>10, <1>12, <1>13
  <2> HIDE DEF k, N, L
  <2>3. i - j >= 1 /\ i - j \in Nat
    BY <1>5, <1>9, <1>10
  <2> QED BY <1>3, <2>1, <2>2, <2>3
<1>16. k \in (m + 1)..(m + Len(p[m].calls)) /\ k =< Len(p) /\ p[k].call = p[m].calls[n]
  BY <1>6, <1>7, <1>14, <1>15
<1> HIDE DEF k
<1> QED BY <1>16 DEF p

\* A response that is kept stands right behind an answer that keeps its call.
LEMMA FormattedResponses ==
  ASSUME NEW h \in Seq(Msg), Sound(h), NEW n \in DOMAIN Formatted(h), Is(Formatted(h)[n], "tool")
  PROVE  \E m \in 1..(n - 1) :
           /\ Formatted(h)[n].call \in Range(Formatted(h)[m].calls)
           /\ \A k \in (m + 1)..(n - 1) : Is(Formatted(h)[k], "tool")
<1> DEFINE p == Formatted(h)
           K == Kept(h)
           s == Shown(h)
           L == Len(h)
<1>1. /\ K \in SUBSET Nat /\ IsFiniteSet(K) /\ K \subseteq 1..L
      /\ \A k \in 1..L : k \in K <=> (Is(h[k], "tool") => KeepsResponse(h, k))
      /\ p \in Seq(Msg)
      /\ \A k \in 1..Len(p) : \E l \in K : Rank(K, l) = k /\ p[k] = s[l]
      /\ \A k \in K : Rank(K, k) \in 1..Len(p) /\ p[Rank(K, k)] = s[k]
      /\ \A k, l \in K : k < l => Rank(K, k) < Rank(K, l)
      /\ \A k \in 1..L :
           /\ s[k].role = h[k].role /\ s[k].call = h[k].call
           /\ s[k].calls = IF KeepsCalls(h, k) THEN h[k].calls ELSE <<>>
  BY FormattedFacts
<1>2. n \in DOMAIN p /\ Is(p[n], "tool")
  OBVIOUS
<1> HIDE DEF p, K, s
<1>3. DOMAIN p = 1..Len(p) /\ Len(p) \in Nat /\ L \in Nat /\ DOMAIN h = 1..L /\ n \in Nat
  BY <1>1, <1>2, MsgFacts
<1>4. PICK i \in K : Rank(K, i) = n /\ p[n] = s[i]
  BY <1>1, <1>2, <1>3
<1>5. i \in 1..L /\ i \in Nat /\ Is(h[i], "tool") /\ p[n].call = h[i].call
  <2>1. i \in 1..L /\ i \in Nat
    BY <1>1, <1>3
  <2> QED BY <1>1, <1>2, <1>4, <2>1 DEF Is
<1>6. PICK j \in 1..(i - 1) :
        /\ Is(h[j], "assistant") /\ KeepsCalls(h, j) /\ h[i].call \in Range(h[j].calls)
        /\ \A k \in (j + 1)..(i - 1) : Is(h[k], "tool")
  <2>1. KeepsResponse(h, i)
    BY <1>1, <1>5
  <2> QED BY <1>5, <2>1, KeptFacts
<1>7. j \in 1..L /\ j \in Nat /\ j < i
  BY <1>3, <1>5
<1>8. j \in K
  <2>1. ~Is(h[j], "tool")
    BY <1>6 DEF Is
  <2> QED BY <1>1, <1>7, <2>1
<1> DEFINE m == Rank(K, j)
<1>9. m \in 1..Len(p) /\ p[m] = s[j] /\ m < n
  BY <1>1, <1>4, <1>7, <1>8
<1>10. p[n].call \in Range(p[m].calls)
  BY <1>1, <1>5, <1>6, <1>7, <1>9
<1>11. ASSUME NEW k \in (m + 1)..(n - 1) PROVE Is(p[k], "tool")
  <2>0. m \in Nat /\ m < k /\ k < n /\ k \in 1..Len(p)
    <3> HIDE DEF m
    <3> QED BY <1>2, <1>3, <1>9
  <2>1. PICK l \in K : Rank(K, l) = k /\ p[k] = s[l]
    BY <1>1, <2>0
  <2>2. l \in 1..L /\ l \in Nat
    BY <1>1, <1>3
  <2>3. ~(l < j) /\ l # j /\ ~(i < l) /\ l # i
    BY <1>1, <1>3, <1>4, <1>8, <2>0, <2>1
  <2>4. l \in (j + 1)..(i - 1)
    BY <1>5, <1>7, <2>2, <2>3
  <2> QED BY <1>1, <1>6, <2>1, <2>2, <2>4 DEF Is
<1>12. m \in 1..(n - 1)
  <2> HIDE DEF m
  <2> QED BY <1>3, <1>9
<1> QED BY <1>10, <1>11, <1>12 DEF p

\* The payload of a sound conversation pairs calls and responses.
LEMMA FormattedWellFormed ==
  ASSUME NEW h \in Seq(Msg), Sound(h), Len(h) > 1
  PROVE  WellFormed(Formatted(h))
BY FormattedAnswers, FormattedResponses DEF WellFormed

\* What the model is called with pairs calls and responses (PayloadWellFormed), however
\* the conversation came about, unless something a turn counts on was taken from it.
THEOREM PayloadPairs == Spec => PayloadWellFormed
<1> DEFINE Pairs ==
      turn'.phase = "model" /\ turn'.loops # turn.loops /\ ~disturbed /\ Len(history') > 1 =>
        WellFormed(Formatted(history'))
<1>1. OrderInv /\ OrderInv' /\ [Next]_vars => [Pairs]_vars
  <2> SUFFICES ASSUME OrderInv, OrderInv', [Next]_vars, turn'.phase = "model", turn'.loops # turn.loops,
                      ~disturbed, Len(history') > 1
               PROVE  WellFormed(Formatted(history'))
    OBVIOUS
  <2>1. /\ history' \in Seq(Msg) /\ TypeOK
        /\ OncePerMessage' /\ Paired' /\ WellMade' /\ AnsweredOnce'
    BY DEF OrderInv, TypeOK
  <2>2. turn \in Turn
    BY <2>1 DEF TypeOK
  <2>3. ~disturbed'
    <3>1. ASSUME NEW i \in DOMAIN history, Delete(i) PROVE FALSE
      BY <2>2, <3>1 DEF Delete, Turn
    <3>2. CASE UndoTail \/ \E i \in DOMAIN history : UndoEarlier(i)
      BY <2>2, <3>2 DEF UndoTail, UndoEarlier, StopTurn, Turn
    <3>3. CASE Redo
      BY <3>3 DEF Redo
    <3>4. CASE RetryIdle \/ RetryResumes
      BY <3>4 DEF RetryIdle, RetryResumes
    <3> QED BY <3>1, <3>2, <3>3, <3>4 DEF Next, Submit, StartTurn, PrecallsReturn, ModelAnswers, ModelFails,
          ToolReturns, Again, Unwind, Cancel, Undo, RetryRunning, vars, traces
  <2>4. Range(history') \subseteq InPlay'
    BY DEF InPlay
  <2>5. Sound(history')
    <3>1. Distinct(history')
      BY <2>1 DEF OncePerMessage
    <3>2. Standing(history')
      BY <2>1, <2>3 DEF Paired
    <3>3. Made(Range(history'))
      BY <2>1, <2>4 DEF WellMade, Made
    <3>4. Single(Range(history'))
      BY <2>1, <2>3, <2>4 DEF AnsweredOnce, Single
    <3> QED BY <3>1, <3>2, <3>3, <3>4 DEF Sound
  <2> QED BY <2>1, <2>5, FormattedWellFormed
<1>2. Spec => []OrderInv
  BY ConversationOrder
<1> QED BY <1>1, <1>2, PTL DEF Spec, PayloadWellFormed

-----------------------------------------------------------------------------
(* How often a prompt is there                                             *)

\* The places of a prompt in a conversation and in the queue.
Carrying(h, p) == {i \in DOMAIN h : h[i].prompt = p}
Waiting(q, p)  == {i \in DOMAIN q : q[i] = p}

\* The places are finitely many, and Copies counts them.
LEMMA CopiesFacts ==
  ASSUME NEW h \in Seq(Msg), NEW q \in Seq(Input), NEW p
  PROVE  /\ Copies(p, h, q) = Cardinality(Carrying(h, p)) + Cardinality(Waiting(q, p))
         /\ IsFiniteSet(Carrying(h, p)) /\ IsFiniteSet(Waiting(q, p))
         /\ Cardinality(Carrying(h, p)) \in Nat /\ Cardinality(Waiting(q, p)) \in Nat
<1>1. ASSUME NEW n \in Nat, NEW S \in SUBSET (1..n)
      PROVE  IsFiniteSet(S) /\ Cardinality(S) \in Nat
  <2>1. IsFiniteSet(1..n)
    BY <1>1, FS_Interval
  <2> QED BY <2>1, FS_Subset, FS_CardinalityType
<1>2. Len(h) \in Nat /\ DOMAIN h = 1..Len(h) /\ Len(q) \in Nat /\ DOMAIN q = 1..Len(q)
  BY LenProperties
<1>3. Carrying(h, p) \in SUBSET (1..Len(h)) /\ Waiting(q, p) \in SUBSET (1..Len(q))
  BY <1>2 DEF Carrying, Waiting
<1> QED BY <1>1, <1>2, <1>3 DEF Copies, Carrying, Waiting

\* A prompt that is there once and in the conversation at c is nowhere else.
LEMMA OnlyCopy ==
  ASSUME NEW h \in Seq(Msg), NEW q \in Seq(Input), NEW p, Copies(p, h, q) = 1,
         NEW c \in Carrying(h, p)
  PROVE  Carrying(h, p) = {c} /\ Waiting(q, p) = {}
<1> DEFINE S == Carrying(h, p)
           T == Waiting(q, p)
<1>1. /\ Cardinality(S) + Cardinality(T) = 1
      /\ IsFiniteSet(S) /\ IsFiniteSet(T) /\ Cardinality(S) \in Nat /\ Cardinality(T) \in Nat
  BY CopiesFacts
<1>2. c \in S
  OBVIOUS
<1> HIDE DEF S, T
<1>3. Cardinality(S) # 0
  BY <1>1, <1>2, FS_EmptySet
<1>4. Cardinality(S) = 1 /\ Cardinality(T) = 0
  BY <1>1, <1>3
<1>5. \E x : S = {x}
  BY <1>1, <1>4, FS_Singleton
<1>6. T = {}
  BY <1>1, <1>4, FS_EmptySet
<1> QED BY <1>2, <1>5, <1>6 DEF S, T

\* What joining the queue does to the places there.
LEMMA WaitingAppend ==
  ASSUME NEW q \in Seq(Input), NEW x \in Input, NEW p
  PROVE  /\ Waiting(Append(q, x), p) = IF x = p THEN Waiting(q, p) \cup {Len(q) + 1} ELSE Waiting(q, p)
         /\ Append(q, x) \in Seq(Input) /\ Last(Append(q, x)) = x
<1> DEFINE r == Append(q, x)
<1>1. /\ r \in Seq(Input) /\ Len(r) = Len(q) + 1
      /\ \A i \in 1..Len(q) : r[i] = q[i]
      /\ r[Len(q) + 1] = x
  BY AppendProperties
<1>2. Len(q) \in Nat /\ DOMAIN q = 1..Len(q) /\ DOMAIN r = 1..(Len(q) + 1)
  BY <1>1, LenProperties
<1> HIDE DEF r
<1>3. Waiting(r, p) = IF x = p THEN Waiting(q, p) \cup {Len(q) + 1} ELSE Waiting(q, p)
  BY <1>1, <1>2 DEF Waiting
<1>4. Last(r) = x
  BY <1>1 DEF Last
<1> QED BY <1>1, <1>3, <1>4 DEF r

\* An undo that gives a prompt back has popped it.
LEMMA PromptOfFacts ==
  ASSUME NEW h \in Seq(Msg), PromptOf(h) # NoInput
  PROVE  \E k \in 1..Len(h) : Is(h[k], "user") /\ h[k].prompt = PromptOf(h)
<1> DEFINE K == Places(h, "user")
<1>1. K # {} /\ PromptOf(h) = h[Min(K)].prompt
  BY DEF PromptOf
<1>2. Len(h) \in Nat /\ DOMAIN h = 1..Len(h)
  BY MsgFacts
<1>3. K \in SUBSET (1..Len(h)) /\ \A k \in K : Is(h[k], "user")
  BY <1>2 DEF Places
<1> HIDE DEF K
<1>4. \E k \in K : \A j \in K : j >= k
  BY <1>1, <1>2, <1>3, IntervalExtremes, 1 \in Nat
<1>5. \E k \in K : \A j \in K : k <= j
  BY <1>2, <1>3, <1>4
<1>6. Min(K) \in K
  BY <1>5 DEF Min
<1> QED BY <1>1, <1>3, <1>6

\* The tail that the default undo pops has a prompt only at its beginning, and no
\* system message but the first of all.
LEMMA LeftTail ==
  ASSUME NEW h \in Seq(Msg), NEW i \in (Left(h) + 1)..Len(h)
  PROVE  /\ Is(h[i], "user") => i = Left(h) + 1
         /\ Is(h[i], "system") => i # 1
<1> DEFINE sys   == Trim(Len(h), Places(h, "system") \ {1})
           tools == Trim(sys, Places(h, "tool"))
           C     == Places(h, "tool") \cup {k \in Places(h, "assistant") : Declares(h[k])}
           calls == IF tools > 0 /\ Is(h[tools], "assistant") THEN Trim(tools - 1, C) ELSE tools
<1>0. Len(h) \in Nat /\ DOMAIN h = 1..Len(h) /\ Left(h) \in 0..Len(h)
  BY MsgFacts, LeftFacts
<1>1. sys \in 0..Len(h) /\ (sys + 1)..Len(h) \subseteq Places(h, "system") \ {1}
  BY <1>0, TrimFacts
<1>2. tools \in 0..sys /\ (tools + 1)..sys \subseteq Places(h, "tool")
  <2> HIDE DEF sys
  <2>1. sys \in Nat
    BY <1>0, <1>1
  <2> QED BY <2>1, TrimFacts
<1>3. Left(h) = IF calls > 0 /\ Is(h[calls], "user") THEN calls - 1 ELSE calls
  BY DEF Left
<1> HIDE DEF sys, tools, C
<1>4. sys \in Nat /\ tools \in Nat /\ tools =< sys /\ sys =< Len(h)
  BY <1>0, <1>1, <1>2
<1>5. /\ calls \in 0..tools
      /\ calls = tools \/ (/\ tools > 0 /\ Is(h[tools], "assistant")
                           /\ (calls + 1)..(tools - 1) \subseteq C)
  <2>1. CASE tools > 0 /\ Is(h[tools], "assistant")
    <3>1. tools - 1 \in Nat
      BY <2>1, <1>4
    <3>2. Trim(tools - 1, C) \in 0..(tools - 1) /\ (Trim(tools - 1, C) + 1)..(tools - 1) \subseteq C
      BY <3>1, TrimFacts
    <3>3. calls = Trim(tools - 1, C)
      BY <2>1
    <3> HIDE DEF calls
    <3> QED BY <1>4, <2>1, <3>2, <3>3
  <2>2. CASE ~(tools > 0 /\ Is(h[tools], "assistant"))
    BY <2>2, <1>4
  <2> QED BY <2>1, <2>2
<1> HIDE DEF calls
<1>6. calls \in Nat /\ (Left(h) = calls \/ (calls > 0 /\ Is(h[calls], "user") /\ Left(h) = calls - 1))
  BY <1>3, <1>4, <1>5
<1>7. i \in Nat /\ i =< Len(h) /\ i > Left(h)
  BY <1>0
<1>8. CASE i > sys
  <2>1. i \in Places(h, "system") \ {1}
    BY <1>1, <1>4, <1>7, <1>8
  <2> QED BY <2>1 DEF Places, Is
<1>9. CASE i > tools /\ i =< sys
  <2>1. i \in Places(h, "tool")
    BY <1>2, <1>4, <1>7, <1>9
  <2> QED BY <2>1 DEF Places, Is
<1>10. CASE i > calls /\ i =< tools
  <2>1. calls # tools
    BY <1>4, <1>6, <1>7, <1>10
  <2>2. i = tools \/ i \in C
    BY <1>4, <1>5, <1>6, <1>7, <1>10, <2>1
  <2> QED BY <1>5, <2>1, <2>2 DEF C, Places, Is
<1>11. CASE i =< calls
  <2>1. i = calls /\ Is(h[calls], "user") /\ Left(h) = calls - 1
    BY <1>6, <1>7, <1>11
  <2> QED BY <1>6, <2>1 DEF Is
<1> QED BY <1>4, <1>6, <1>7, <1>8, <1>9, <1>10, <1>11

\* g is what stands before place a of h.
Before(g, h, a) ==
  /\ g \in Seq(Msg) /\ DOMAIN g = 1..(a - 1)
  /\ \A k \in 1..(a - 1) : g[k] = h[k] /\ k \in 1..Len(h)

\* What is left when a tail goes.
LEMMA TailCut ==
  ASSUME NEW h \in Seq(Msg), NEW a \in Nat \ {0}, NEW b \in Nat, b = Len(h), a =< b + 1,
         NEW g, g = Upto(h, a - 1) \o From(h, b + 1)
  PROVE  Before(g, h, a)
<1>0. b =< Len(h)
  OBVIOUS
<1> DEFINE f == Upto(h, a - 1) \o From(h, b + 1)
           p == SubSeq(h, a, b)
           d == b - a + 1
<1>a. /\ f \in Seq(Msg) /\ p \in Seq(Msg)
      /\ \A n \in 1..Len(f) : \E i \in 1..Len(h) :
           f[n] = h[i] /\ ((i < a /\ i = n) \/ (i > b /\ i = n + d))
      /\ \A n \in 1..Len(p) : \E i \in 1..Len(h) :
           p[n] = h[i] /\ a =< i /\ i =< b /\ i = a + n - 1
      /\ \A i \in 1..Len(h) :
           \/ i < a /\ i \in 1..Len(f) /\ f[i] = h[i]
           \/ i > b /\ i - d \in 1..Len(f) /\ f[i - d] = h[i]
           \/ a =< i /\ i =< b /\ i - a + 1 \in 1..Len(p) /\ p[i - a + 1] = h[i]
  BY <1>0, CutPlaces
<1>b. f = g
  OBVIOUS
<1> HIDE DEF f, p, d
<1>1. /\ g \in Seq(Msg)
      /\ \A n \in 1..Len(g) : \E i \in 1..Len(h) : (i < a /\ i = n) \/ i > b
      /\ \A i \in 1..Len(h) :
           \/ i < a /\ i \in 1..Len(g) /\ g[i] = h[i]
           \/ i > b
           \/ a =< i
  BY <1>a, <1>b
<1>2. Len(g) \in Nat /\ DOMAIN g = 1..Len(g)
  BY <1>1, MsgFacts
<1>3. ASSUME NEW k \in 1..Len(g) PROVE k \in 1..(a - 1)
  <2>1. PICK i \in 1..Len(h) : (i < a /\ i = k) \/ i > b
    BY <1>1
  <2> QED BY <2>1
<1>4. ASSUME NEW k \in 1..(a - 1) PROVE k \in 1..Len(g) /\ g[k] = h[k] /\ k \in 1..b
  <2>1. k \in 1..Len(h) /\ k \in 1..b /\ ~(k > b) /\ ~(a =< k)
    OBVIOUS
  <2> QED BY <1>1, <2>1
<1>5. 1..Len(g) = 1..(a - 1)
  BY <1>3, <1>4
<1> QED BY <1>1, <1>2, <1>4, <1>5 DEF Before

\* From a on, the prompt p is there, and no other.
OnlyPrompt(h, a, p) ==
  /\ \E c \in a..Len(h) : h[c].prompt = p
  /\ \A i \in a..Len(h) : h[i].prompt \in {NoInput, p}

\* A tail with the prompt p, and no other, goes and p joins the queue: p has moved,
\* and no other prompt has.
LEMMA Resending ==
  ASSUME NEW h \in Seq(Msg), NEW q \in Seq(Input), NEW p \in Input, p # NoInput,
         NEW a \in Nat \ {0}, NEW g, Before(g, h, a), OnlyPrompt(h, a, p),
         Copies(p, h, q) = 1
  PROVE  /\ Copies(p, g, Append(q, p)) = 1
         /\ \A x \in Prompt \ {p} : Copies(x, g, Append(q, p)) = Copies(x, h, q)
<1>0. PICK c \in a..Len(h) : h[c].prompt = p
  BY DEF OnlyPrompt
<1>1. Len(h) \in Nat /\ DOMAIN h = 1..Len(h) /\ c \in DOMAIN h
  BY MsgFacts
<1>2. /\ g \in Seq(Msg) /\ DOMAIN g = 1..(a - 1)
      /\ \A k \in 1..(a - 1) : g[k] = h[k] /\ k \in 1..Len(h)
  BY DEF Before
<1>3. ~(c \in 1..(a - 1))
  BY <1>1
<1>4. Carrying(h, p) = {c} /\ Waiting(q, p) = {}
  <2>1. c \in Carrying(h, p)
    BY <1>0, <1>1 DEF Carrying
  <2> QED BY <2>1, OnlyCopy
<1>5. Carrying(g, p) = {}
  <2>1. ASSUME NEW i \in 1..(a - 1), g[i].prompt = p PROVE FALSE
    <3>1. i \in Carrying(h, p)
      BY <1>1, <1>2, <2>1 DEF Carrying
    <3> QED BY <1>3, <1>4, <3>1
  <2> QED BY <1>2, <2>1 DEF Carrying
<1> DEFINE r == Append(q, p)
<1>6. r \in Seq(Input) /\ Waiting(r, p) = {Len(q) + 1}
      /\ \A x : x # p => Waiting(r, x) = Waiting(q, x)
  BY <1>4, WaitingAppend
<1> HIDE DEF r
<1>7. Copies(p, g, r) = 1
  <2>1. Copies(p, g, r) = Cardinality(Carrying(g, p)) + Cardinality(Waiting(r, p))
    BY <1>2, <1>6, CopiesFacts
  <2>2. Cardinality({}) = 0 /\ Cardinality({Len(q) + 1}) = 1
    BY FS_EmptySet, FS_Singleton
  <2>3. Cardinality(Carrying(g, p)) = 0 /\ Cardinality(Waiting(r, p)) = 1
    BY <1>5, <1>6, <2>2
  <2> QED BY <2>1, <2>3
<1>8. ASSUME NEW x \in Prompt \ {p} PROVE Copies(x, g, r) = Copies(x, h, q)
  <2>1. x # NoInput /\ x # p
    BY DEF Prompt, NoInput
  <2>2. ASSUME NEW i PROVE i \in Carrying(g, x) <=> i \in Carrying(h, x)
    <3>1. i \in 1..Len(h) => i \in 1..(a - 1) \/ i \in a..Len(h)
      BY <1>1
    <3>2. i \in a..Len(h) => h[i].prompt # x
      BY <2>1 DEF OnlyPrompt
    <3> QED BY <1>1, <1>2, <3>1, <3>2 DEF Carrying
  <2>3. Carrying(g, x) = Carrying(h, x) /\ Waiting(r, x) = Waiting(q, x)
    BY <1>6, <2>1, <2>2
  <2>4. Copies(x, g, r) = Cardinality(Carrying(g, x)) + Cardinality(Waiting(r, x))
    BY <1>2, <1>6, CopiesFacts
  <2>5. Copies(x, h, q) = Cardinality(Carrying(h, x)) + Cardinality(Waiting(q, x))
    BY CopiesFacts
  <2> QED BY <2>3, <2>4, <2>5
<1> QED BY <1>7, <1>8 DEF r

-----------------------------------------------------------------------------
(* Where prompts are, and where the system prompt is                       *)

\* A message carries a prompt only as the user's, and one of the first n.
Spoken(m, n) == m.prompt =< n /\ (m.prompt # NoInput => Is(m, "user"))

\* A conversation whose prompts are among the first n, with the system prompt first.
Heard(h, n) == \A i \in 1..Len(h) : Spoken(h[i], n) /\ (Is(h[i], "system") => i = 1)
NoSystem(h) == \A i \in 1..Len(h) : ~Is(h[i], "system")
Aside(b, h, n) == Heard(b.popped, n) /\ NoSystem(b.popped) /\ (b.at = 0 => NoSystem(h))
Said(h, s, n) == Heard(h, n) /\ \A j \in 1..Len(s) : Aside(s[j], h, n)

\* Said is what PromptsAsked and SystemFirst say of the messages.
LEMMA SaidFacts ==
  ASSUME NEW h \in Seq(Msg), NEW s \in Seq(Bundle), NEW n
  PROVE  Said(h, s, n) <=>
           /\ \A m \in InPlayOf(h, s) : Spoken(m, n)
           /\ Places(h, "system") \subseteq {1}
           /\ \A j \in DOMAIN s : /\ Places(s[j].popped, "system") = {}
                                  /\ s[j].at = 0 => Places(h, "system") = {}
<1>1. /\ DOMAIN h = 1..Len(h) /\ DOMAIN s = 1..Len(s)
      /\ \A j \in 1..Len(s) : s[j].popped \in Seq(Msg) /\ DOMAIN s[j].popped = 1..Len(s[j].popped)
  BY MsgFacts, BundleFacts
<1>2. \A m : m \in InPlayOf(h, s) <=>
               \/ \E i \in 1..Len(h) : m = h[i]
               \/ \E j \in 1..Len(s) : \E k \in 1..Len(s[j].popped) : m = s[j].popped[k]
  <2>1. \A m : m \in InPlayOf(h, s) <=> m \in Range(h) \/ \E j \in 1..Len(s) : m \in Range(s[j].popped)
    BY StackFacts
  <2>2. \A m : m \in Range(h) <=> \E i \in 1..Len(h) : m = h[i]
    BY IdsFacts
  <2>3. ASSUME NEW j \in 1..Len(s)
        PROVE  \A m : m \in Range(s[j].popped) <=> \E k \in 1..Len(s[j].popped) : m = s[j].popped[k]
    BY <1>1, IdsFacts
  <2>4. ASSUME NEW m
        PROVE  (\E j \in 1..Len(s) : m \in Range(s[j].popped))
                 <=> \E j \in 1..Len(s) : \E k \in 1..Len(s[j].popped) : m = s[j].popped[k]
    <3>1. ASSUME NEW j \in 1..Len(s)
          PROVE  m \in Range(s[j].popped) <=> \E k \in 1..Len(s[j].popped) : m = s[j].popped[k]
      BY <2>3
    <3> QED BY <3>1, Zenon
  <2>5. ASSUME NEW m
        PROVE  m \in InPlayOf(h, s) <=>
                 \/ \E i \in 1..Len(h) : m = h[i]
                 \/ \E j \in 1..Len(s) : \E k \in 1..Len(s[j].popped) : m = s[j].popped[k]
    BY <2>1, <2>2, <2>4, Zenon
  <2> QED BY <2>5, Zenon
<1>3. /\ Places(h, "system") \subseteq {1} <=> \A i \in 1..Len(h) : Is(h[i], "system") => i = 1
      /\ Places(h, "system") = {} <=> NoSystem(h)
  BY <1>1 DEF Places, NoSystem
<1>4. ASSUME NEW j \in 1..Len(s) PROVE Places(s[j].popped, "system") = {} <=> NoSystem(s[j].popped)
  BY <1>1 DEF Places, NoSystem
<1>5. ASSUME Said(h, s, n)
      PROVE  /\ \A m \in InPlayOf(h, s) : Spoken(m, n)
             /\ Places(h, "system") \subseteq {1}
             /\ \A j \in DOMAIN s : /\ Places(s[j].popped, "system") = {}
                                    /\ s[j].at = 0 => Places(h, "system") = {}
  <2>1. /\ \A i \in 1..Len(h) : Spoken(h[i], n) /\ (Is(h[i], "system") => i = 1)
        /\ \A j \in 1..Len(s) : /\ \A k \in 1..Len(s[j].popped) : Spoken(s[j].popped[k], n)
                                /\ NoSystem(s[j].popped) /\ (s[j].at = 0 => NoSystem(h))
    BY <1>5 DEF Said, Heard, Aside
  <2>2. \A m \in InPlayOf(h, s) : Spoken(m, n)
    <3>1. ASSUME NEW m \in InPlayOf(h, s) PROVE Spoken(m, n)
      <4>1. CASE \E i \in 1..Len(h) : m = h[i]
        BY <2>1, <4>1
      <4>2. CASE \E j \in 1..Len(s) : \E k \in 1..Len(s[j].popped) : m = s[j].popped[k]
        BY <2>1, <4>2
      <4> QED BY <1>2, <4>1, <4>2
    <3> QED BY <3>1
  <2>3. Places(h, "system") \subseteq {1}
    BY <1>3, <2>1
  <2>4. \A j \in DOMAIN s : /\ Places(s[j].popped, "system") = {}
                            /\ s[j].at = 0 => Places(h, "system") = {}
    BY <1>1, <1>3, <1>4, <2>1
  <2> QED BY <2>2, <2>3, <2>4
<1>6. ASSUME \A m \in InPlayOf(h, s) : Spoken(m, n),
             Places(h, "system") \subseteq {1},
             \A j \in DOMAIN s : /\ Places(s[j].popped, "system") = {}
                                 /\ s[j].at = 0 => Places(h, "system") = {}
      PROVE  Said(h, s, n)
  <2>1. Heard(h, n)
    BY <1>2, <1>3, <1>6 DEF Heard
  <2>2. ASSUME NEW j \in 1..Len(s) PROVE Aside(s[j], h, n)
    <3>1. NoSystem(s[j].popped) /\ (s[j].at = 0 => NoSystem(h))
      BY <1>1, <1>3, <1>4, <1>6
    <3>2. \A k \in 1..Len(s[j].popped) : Spoken(s[j].popped[k], n)
      BY <1>2, <1>6
    <3> QED BY <3>1, <3>2 DEF Aside, Heard, NoSystem
  <2> QED BY <2>1, <2>2 DEF Said
<1> QED BY <1>5, <1>6

\* A prompt more.
LEMMA SaidMore ==
  ASSUME NEW h \in Seq(Msg), NEW s \in Seq(Bundle), NEW n \in Nat, Said(h, s, n)
  PROVE  Said(h, s, n + 1)
<1>1. ASSUME NEW m \in Msg, Spoken(m, n) PROVE Spoken(m, n + 1)
  <2>1. m.prompt \in Nat
    BY DEF Msg, Input
  <2> QED BY <1>1, <2>1 DEF Spoken
<1>2. ASSUME NEW g \in Seq(Msg), Heard(g, n) PROVE Heard(g, n + 1)
  BY <1>1, <1>2, MsgFacts DEF Heard
<1>3. \A j \in 1..Len(s) : s[j].popped \in Seq(Msg)
  BY BundleFacts
<1> QED BY <1>2, <1>3 DEF Said, Aside

\* Messages that no system prompt is among join the conversation.
LEMMA SaidAdd ==
  ASSUME NEW h \in Seq(Msg), NEW s \in Seq(Bundle), NEW n, Said(h, s, n),
         NEW ms \in Seq(Msg), \A k \in 1..Len(ms) : Spoken(ms[k], n) /\ ~Is(ms[k], "system")
  PROVE  Said(h \o ms, s, n)
<1> DEFINE g == h \o ms
<1>1. /\ Len(g) = Len(h) + Len(ms)
      /\ \A k \in 1..Len(h) : g[k] = h[k]
      /\ \A k \in 1..Len(ms) : g[Len(h) + k] = ms[k]
  BY ConcatFacts
<1>2. Len(h) \in Nat /\ Len(ms) \in Nat
  BY MsgFacts
<1> HIDE DEF g
<1>3. ASSUME NEW i \in 1..Len(g)
      PROVE  \/ i \in 1..Len(h) /\ g[i] = h[i]
             \/ Spoken(g[i], n) /\ ~Is(g[i], "system")
  <2>1. CASE i =< Len(h)
    BY <1>1, <1>2, <2>1
  <2>2. CASE i > Len(h)
    <3>1. i - Len(h) \in 1..Len(ms) /\ Len(h) + (i - Len(h)) = i
      BY <1>1, <1>2, <2>2
    <3> QED BY <1>1, <3>1
  <2> QED BY <1>2, <2>1, <2>2
<1>4. Heard(g, n) /\ (NoSystem(h) => NoSystem(g))
  BY <1>3 DEF Said, Heard, NoSystem
<1> QED BY <1>4 DEF Said, Aside, g

\* A conversation loses messages, and what was first stays first.
Fewer(f, h) ==
  \A n \in 1..Len(f) : \E i \in 1..Len(h) :
    f[n].prompt = h[i].prompt /\ f[n].role = h[i].role /\ (i = 1 => n = 1)

LEMMA SaidFewer ==
  ASSUME NEW h, NEW s, NEW n, Said(h, s, n), NEW f, Fewer(f, h)
  PROVE  Said(f, s, n)
<1>1. Heard(f, n)
  <2>1. ASSUME NEW k \in 1..Len(f) PROVE Spoken(f[k], n) /\ (Is(f[k], "system") => k = 1)
    <3>1. PICK i \in 1..Len(h) : f[k].prompt = h[i].prompt /\ f[k].role = h[i].role /\ (i = 1 => k = 1)
      BY DEF Fewer
    <3>2. Spoken(h[i], n) /\ (Is(h[i], "system") => i = 1)
      BY DEF Said, Heard
    <3> QED BY <3>1, <3>2 DEF Spoken, Is
  <2> QED BY <2>1 DEF Heard
<1>2. NoSystem(h) => NoSystem(f)
  BY DEF Fewer, NoSystem, Is
<1> QED BY <1>1, <1>2 DEF Said, Aside

\* What is cut out of a conversation leaves fewer messages.
LEMMA CutFewer ==
  ASSUME NEW h \in Seq(Msg), NEW a \in Nat \ {0}, NEW b \in Nat, a =< b + 1, b =< Len(h)
  PROVE  Fewer(Upto(h, a - 1) \o From(h, b + 1), h)
<1> DEFINE f == Upto(h, a - 1) \o From(h, b + 1)
           p == SubSeq(h, a, b)
           d == b - a + 1
<1>1. /\ f \in Seq(Msg) /\ p \in Seq(Msg)
      /\ \A n \in 1..Len(f) : \E i \in 1..Len(h) :
           f[n] = h[i] /\ ((i < a /\ i = n) \/ (i > b /\ i = n + d))
      /\ \A n \in 1..Len(p) : \E i \in 1..Len(h) :
           p[n] = h[i] /\ a =< i /\ i =< b /\ i = a + n - 1
      /\ \A i \in 1..Len(h) :
           \/ i < a /\ i \in 1..Len(f) /\ f[i] = h[i]
           \/ i > b /\ i - d \in 1..Len(f) /\ f[i - d] = h[i]
           \/ a =< i /\ i =< b /\ i - a + 1 \in 1..Len(p) /\ p[i - a + 1] = h[i]
  BY CutPlaces
<1>2. d \in Nat
  OBVIOUS
<1> HIDE DEF f, p, d
<1>3. ASSUME NEW n \in 1..Len(f)
      PROVE  \E i \in 1..Len(h) :
               f[n].prompt = h[i].prompt /\ f[n].role = h[i].role /\ (i = 1 => n = 1)
  <2>1. PICK i \in 1..Len(h) : f[n] = h[i] /\ ((i < a /\ i = n) \/ (i > b /\ i = n + d))
    BY <1>1
  <2>2. i = 1 => n = 1
    BY <1>2, <2>1
  <2> QED BY <2>1, <2>2
<1> QED BY <1>3 DEF Fewer, f

\* A bundle is made of what is cut out.
LEMMA SaidCut ==
  ASSUME NEW h \in Seq(Msg), NEW s \in Seq(Bundle), NEW n, Said(h, s, n),
         NEW a \in Nat \ {0}, NEW b \in Nat, a =< b + 1, b =< Len(h),
         \A i \in a..b : ~Is(h[i], "system"),
         NEW c \in Bundle, c.popped = SubSeq(h, a, b), c.at = 0 => NoSystem(h)
  PROVE  Said(Upto(h, a - 1) \o From(h, b + 1), Append(s, c), n)
<1> DEFINE f == Upto(h, a - 1) \o From(h, b + 1)
           p == SubSeq(h, a, b)
           d == b - a + 1
<1>1. /\ f \in Seq(Msg) /\ p \in Seq(Msg)
      /\ \A k \in 1..Len(f) : \E i \in 1..Len(h) :
           f[k] = h[i] /\ ((i < a /\ i = k) \/ (i > b /\ i = k + d))
      /\ \A k \in 1..Len(p) : \E i \in 1..Len(h) :
           p[k] = h[i] /\ a =< i /\ i =< b /\ i = a + k - 1
      /\ \A i \in 1..Len(h) :
           \/ i < a /\ i \in 1..Len(f) /\ f[i] = h[i]
           \/ i > b /\ i - d \in 1..Len(f) /\ f[i - d] = h[i]
           \/ a =< i /\ i =< b /\ i - a + 1 \in 1..Len(p) /\ p[i - a + 1] = h[i]
  BY CutPlaces
<1>2. Fewer(f, h)
  BY CutFewer
<1> HIDE DEF f, p, d
<1>3. Said(f, s, n) /\ (NoSystem(h) => NoSystem(f))
  BY <1>2, SaidFewer DEF Fewer, NoSystem, Is
<1>4. ASSUME NEW k \in 1..Len(p) PROVE Spoken(p[k], n) /\ ~Is(p[k], "system")
  <2>1. PICK i \in 1..Len(h) : p[k] = h[i] /\ a =< i /\ i =< b
    BY <1>1
  <2>2. i \in a..b
    BY <2>1
  <2> QED BY <2>1, <2>2 DEF Said, Heard
<1>5. Aside(c, f, n)
  <2>1. c.popped = p
    BY DEF p
  <2>2. Heard(p, n) /\ NoSystem(p)
    BY <1>4 DEF Heard, NoSystem
  <2> QED BY <1>3, <2>1, <2>2 DEF Aside
<1>6. /\ Len(Append(s, c)) = Len(s) + 1 /\ DOMAIN s = 1..Len(s) /\ Len(s) \in Nat
      /\ \A j \in 1..Len(s) : Append(s, c)[j] = s[j]
      /\ Append(s, c)[Len(s) + 1] = c
  BY BundleFacts, PushFacts
<1>7. ASSUME NEW j \in 1..Len(Append(s, c)) PROVE Aside(Append(s, c)[j], f, n)
  <2>1. CASE j \in 1..Len(s)
    BY <1>3, <1>6, <2>1 DEF Said
  <2>2. CASE j = Len(s) + 1
    BY <1>5, <1>6, <2>2
  <2> QED BY <1>6, <2>1, <2>2
<1> QED BY <1>3, <1>7 DEF Said, f

\* The last bundle is put back.
LEMMA SaidPop ==
  ASSUME NEW h \in Seq(Msg), NEW s \in Seq(Bundle), s # <<>>, NEW n, Said(h, s, n),
         NEW b, b = Last(s),
         NEW at, at = IF b.at = AtTail \/ b.at > Len(h) THEN Len(h) ELSE b.at
  PROVE  Said(Upto(h, at) \o b.popped \o From(h, at + 1), Front(s), n)
<1> DEFINE p == b.popped
           g == Upto(h, at) \o p \o From(h, at + 1)
<1>1. /\ Len(Front(s)) = Len(s) - 1 /\ DOMAIN Front(s) = DOMAIN s \ {Len(s)}
      /\ \A i \in DOMAIN Front(s) : Front(s)[i] = s[i]
      /\ b = s[Len(s)] /\ Len(s) \in DOMAIN s /\ DOMAIN s = 1..Len(s) /\ Len(s) \in Nat
      /\ Front(s) \in Seq(Bundle)
  BY PopFacts, BundleFacts
<1>2. p \in Seq(Msg) /\ b.at \in Nat \cup {AtTail} /\ Aside(b, h, n) /\ Len(h) \in Nat
  BY <1>1, BundleFacts, MsgFacts DEF Said
<1>3. at \in 0..Len(h)
  BY <1>2 DEF AtTail
<1>4. /\ g \in Seq(Msg) /\ Len(g) = Len(h) + Len(p)
      /\ \A k \in 1..Len(g) :
           \/ k =< at /\ k \in 1..Len(h) /\ g[k] = h[k]
           \/ k > at /\ k =< at + Len(p) /\ k - at \in 1..Len(p) /\ g[k] = p[k - at]
           \/ k > at + Len(p) /\ k - Len(p) \in 1..Len(h) /\ g[k] = h[k - Len(p)]
      /\ \A i \in 1..Len(h) : \/ i =< at /\ i \in 1..Len(g) /\ g[i] = h[i]
                              \/ i > at /\ i + Len(p) \in 1..Len(g) /\ g[i + Len(p)] = h[i]
      /\ \A i \in 1..Len(p) : i + at \in 1..Len(g) /\ g[i + at] = p[i]
  <2> HIDE DEF p
  <2> QED BY <1>2, <1>3, PastePlaces
<1>5. Len(p) \in Nat
  BY <1>2, MsgFacts
<1>6. Heard(p, n) /\ NoSystem(p) /\ (b.at = 0 => NoSystem(h)) /\ Heard(h, n)
  BY <1>2 DEF Aside, Said
<1> HIDE DEF g, p
<1>7. ASSUME NEW k \in 1..Len(g)
      PROVE  Spoken(g[k], n) /\ (Is(g[k], "system") => k = 1 /\ ~NoSystem(h))
  <2>1. CASE k =< at /\ k \in 1..Len(h) /\ g[k] = h[k]
    BY <1>6, <2>1 DEF Heard, NoSystem
  <2>2. CASE k - at \in 1..Len(p) /\ g[k] = p[k - at]
    BY <1>6, <2>2 DEF Heard, NoSystem
  <2>3. CASE k > at + Len(p) /\ k - Len(p) \in 1..Len(h) /\ g[k] = h[k - Len(p)]
    <3> DEFINE i == k - Len(p)
    <3>1. i \in 1..Len(h) /\ g[k] = h[i] /\ i > at
      BY <1>3, <1>5, <2>3
    <3> HIDE DEF i
    <3>2. Spoken(h[i], n) /\ (Is(h[i], "system") => i = 1)
      BY <1>6, <3>1 DEF Heard
    <3>3. i = 1 => at = 0 /\ Len(h) # 0
      BY <1>2, <1>3, <3>1
    <3>4. i = 1 => b.at = 0
      BY <1>2, <3>3
    <3>5. ~Is(h[i], "system")
      BY <1>6, <3>1, <3>2, <3>4 DEF NoSystem
    <3> QED BY <3>1, <3>2, <3>5
  <2> QED BY <1>4, <2>1, <2>2, <2>3
<1>8. Heard(g, n) /\ (NoSystem(h) => NoSystem(g))
  BY <1>7 DEF Heard, NoSystem
<1>9. ASSUME NEW j \in 1..Len(Front(s)) PROVE Aside(Front(s)[j], g, n)
  <2>1. j \in DOMAIN Front(s) /\ j \in 1..Len(s)
    BY <1>1
  <2>2. Aside(s[j], h, n) /\ Front(s)[j] = s[j]
    BY <1>1, <2>1 DEF Said
  <2> QED BY <1>8, <2>2 DEF Aside
<1> QED BY <1>8, <1>9 DEF Said, g, p

\* A deletion leaves fewer messages.
LEMMA DeleteFewer ==
  ASSUME history \in Seq(Msg), NEW i \in DOMAIN history
  PROVE  Fewer(Without(Pruned(i), Cascade(i)), history)
<1> DEFINE g == Without(Pruned(i), Cascade(i))
           K == Remaining(i)
<1>1. /\ K \subseteq 1..Len(history) /\ g \in Seq(Msg)
      /\ \A n \in 1..Len(g) : \E k \in K : Rank(K, k) = n /\ g[n] = Pruned(i)[k]
      /\ \A k \in K : Rank(K, k) \in 1..Len(g)
      /\ \A k, l \in K : k < l => Rank(K, k) < Rank(K, l)
      /\ \A k \in 1..Len(history) :
           /\ Pruned(i)[k].role = history[k].role
           /\ \/ Pruned(i)[k] = history[k]
              \/ Pruned(i)[k] = Prune(history[k], history[i].call)
  BY DeleteFacts
<1>2. Len(history) \in Nat /\ Len(g) \in Nat /\ \A k \in 1..Len(history) : history[k] \in Msg
  BY <1>1, MsgFacts
<1> HIDE DEF g, K
<1>3. ASSUME NEW m \in Msg, NEW c PROVE Prune(m, c).prompt = m.prompt
  BY DEF Prune, Msg
<1>4. ASSUME NEW n \in 1..Len(g)
      PROVE  \E k \in 1..Len(history) :
               g[n].prompt = history[k].prompt /\ g[n].role = history[k].role /\ (k = 1 => n = 1)
  <2>1. PICK k \in K : Rank(K, k) = n /\ g[n] = Pruned(i)[k]
    BY <1>1
  <2>2. k \in 1..Len(history)
    BY <1>1
  <2>3. g[n].prompt = history[k].prompt /\ g[n].role = history[k].role
    <3>1. Prune(history[k], history[i].call).prompt = history[k].prompt
      BY <1>2, <1>3, <2>2
    <3>2. Pruned(i)[k].prompt = history[k].prompt /\ Pruned(i)[k].role = history[k].role
      BY <1>1, <2>2, <3>1
    <3> QED BY <2>1, <3>2
  <2>4. ASSUME k = 1 PROVE n = 1
    <3>1. 1 \in 1..Len(g)
      BY <1>2
    <3>2. PICK l \in K : Rank(K, l) = 1
      BY <1>1, <3>1
    <3>3. l \in 1..Len(history)
      BY <1>1
    <3>4. l > k => n < 1
      BY <1>1, <2>1, <3>2, <3>3, <2>2
    <3> QED BY <1>2, <2>1, <2>2, <2>4, <3>2, <3>3, <3>4
  <2> QED BY <2>2, <2>3, <2>4
<1> QED BY <1>4 DEF Fewer, g

\* A new message is the user's with a prompt, or carries none.
LEMMA NewSpoken ==
  ASSUME HistoryAssumption, NEW id \in Nat, NEW n \in Nat
  PROVE  /\ \A p \in Input : p =< n => Spoken(User(id, p), n) /\ ~Is(User(id, p), "system")
         /\ Spoken(Answer(id), n) /\ ~Is(Answer(id), "system")
         /\ \A c \in Nat : Spoken(Calling(id, c), n) /\ ~Is(Calling(id, c), "system")
         /\ \A c \in Call : Spoken(Response(id, c), n) /\ ~Is(Response(id, c), "system")
<1>1. NoInput =< n
  BY DEF NoInput
<1>2. \A p \in Input : User(id, p).prompt = p /\ User(id, p).role = "user"
  BY Zenon DEF User, Message
<1>3. Answer(id).prompt = NoInput /\ Answer(id).role = "assistant"
  BY Zenon DEF Answer, Message
<1>4. \A c \in Nat : Calling(id, c).prompt = NoInput /\ Calling(id, c).role = "assistant"
  BY Zenon DEF Calling, Message
<1>5. \A c \in Call : Response(id, c).prompt = NoInput /\ Response(id, c).role = "tool"
  BY Zenon DEF Response, Message
<1> QED BY <1>1, <1>2, <1>3, <1>4, <1>5 DEF Spoken, Is

\* A turn adds messages of its own.
LEMMA SaidSay ==
  ASSUME TypeOK, NEW n, Said(history, redoStack, n),
         NEW ms \in Seq(Msg), Say(ms), redoStack' = redoStack,
         \A k \in 1..Len(ms) : Spoken(ms[k], n) /\ ~Is(ms[k], "system")
  PROVE  Said(history', redoStack', n)
BY SaidAdd DEF TypeOK, Say

\* An undo of the last turn takes no system prompt.
LEMMA SaidUndoTail ==
  ASSUME HistoryAssumption, TypeOK, NEW n, Said(history, redoStack, n), UndoTail
  PROVE  Said(history', redoStack', n)
<1>1. CASE UNCHANGED <<history, redoStack>>
  BY <1>1
<1>2. CASE TakeOut(Left(history) + 1, Len(history), AtTail)
  <2> DEFINE a == Left(history) + 1
             b == Len(history)
  <2>0. history \in Seq(Msg) /\ redoStack \in Seq(Bundle)
    BY DEF TypeOK
  <2>1. /\ Left(history) \in 0..Len(history) /\ a \in Nat \ {0} /\ b \in Nat
        /\ a =< b + 1 /\ b =< Len(history)
    BY TypeRecovered
  <2>2. TakeOut(a, b, AtTail) /\ AtTail \in Nat \cup {AtTail} /\ AtTail # 0
    BY <1>2 DEF AtTail
  <2>3. ASSUME NEW i \in a..b PROVE ~Is(history[i], "system")
    <3>1. i \in (Left(history) + 1)..Len(history) /\ i \in 1..Len(history)
      BY <2>1
    <3>2. Is(history[i], "system") => i # 1
      BY <2>0, <3>1, LeftTail
    <3> QED BY <3>1, <3>2 DEF Said, Heard
  <2> HIDE DEF a, b
  <2> DEFINE at == AtTail
  <2>a. at \in Nat \cup {AtTail} /\ at # 0 /\ TakeOut(a, b, at)
    BY <2>2
  <2> HIDE DEF at
  <2>4. PICK c \in Bundle : redoStack' = Append(redoStack, c) /\ c.popped = SubSeq(history, a, b) /\ c.at = at
    BY <2>1, <2>a, TypeTakeOut
  <2>5. history' = Upto(history, a - 1) \o From(history, b + 1)
    BY <2>2 DEF TakeOut
  <2>6. Said(Upto(history, a - 1) \o From(history, b + 1), Append(redoStack, c), n)
    BY <2>0, <2>1, <2>a, <2>3, <2>4, SaidCut
  <2> QED BY <2>4, <2>5, <2>6
<1> QED BY <1>1, <1>2 DEF UndoTail

\* Nor does one with a target, which starts at a prompt.
LEMMA SaidUndoEarlier ==
  ASSUME HistoryAssumption, TypeOK, NEW n, Said(history, redoStack, n),
         NEW i \in DOMAIN history, UndoEarlier(i)
  PROVE  Said(history', redoStack', n)
<1>0. history \in Seq(Msg) /\ redoStack \in Seq(Bundle)
  BY DEF TypeOK
<1>1. /\ \E s \in 1..i : Is(history[s], "user")
      /\ TakeOut(SegmentStart(i), SegmentEnd(i), SegmentStart(i) - 1)
  BY DEF UndoEarlier
<1>2. Len(history) \in Nat /\ DOMAIN history = 1..Len(history)
  BY <1>0, MsgFacts
<1> DEFINE a == SegmentStart(i)
           b == SegmentEnd(i)
           at == a - 1
<1>3. a \in 1..i /\ b \in i..Len(history) /\ Is(history[a], "user") /\ TakeOut(a, b, at)
  BY <1>0, <1>1, SegmentFacts
<1> HIDE DEF a, b
<1>4. /\ a \in Nat \ {0} /\ b \in Nat /\ at \in Nat \cup {AtTail} /\ at = a - 1
      /\ a =< b + 1 /\ b =< Len(history) /\ a \in 1..Len(history)
  <2>1. i \in Nat /\ i >= 1 /\ i =< Len(history)
    BY <1>2
  <2>2. a \in Nat /\ a >= 1 /\ a =< i
    BY <1>3, <2>1
  <2>3. b \in Nat /\ i =< b /\ b =< Len(history)
    <3> DEFINE N == Len(history)
    <3>1. b \in i..N /\ N \in Nat
      BY <1>2, <1>3
    <3> HIDE DEF N
    <3>2. b \in Nat /\ i =< b /\ b =< N
      BY <2>1, <3>1
    <3> QED BY <3>2 DEF N
  <2> QED BY <1>2, <2>1, <2>2, <2>3
<1>5. \A k \in 1..Len(history) : Is(history[k], "system") => k = 1
  BY DEF Said, Heard
<1>6. a = 1 => NoSystem(history)
  BY <1>3, <1>5 DEF NoSystem, Is
<1>7. ASSUME NEW k \in a..b PROVE ~Is(history[k], "system")
  <2>1. k \in 1..Len(history) /\ (k = 1 => a = 1)
    BY <1>2, <1>4
  <2> QED BY <1>5, <1>6, <2>1 DEF NoSystem
<1>8. at = 0 => NoSystem(history)
  BY <1>4, <1>6
<1> HIDE DEF at
<1>9. PICK c \in Bundle : redoStack' = Append(redoStack, c) /\ c.popped = SubSeq(history, a, b) /\ c.at = at
  BY <1>3, <1>4, TypeTakeOut
<1>10. history' = Upto(history, a - 1) \o From(history, b + 1)
  BY <1>3 DEF TakeOut
<1>11. Said(Upto(history, a - 1) \o From(history, b + 1), Append(redoStack, c), n)
  BY <1>0, <1>4, <1>7, <1>8, <1>9, SaidCut
<1> QED BY <1>9, <1>10, <1>11

\* A retry takes back a prompt, undoes, or leaves the conversation alone.
LEMMA SaidRetryNow ==
  ASSUME HistoryAssumption, TypeOK, NEW n, Said(history, redoStack, n), RetryNow
  PROVE  Said(history', redoStack', n)
<1>1. CASE ResendPrompt
  <2>1. history # <<>> /\ history \in Seq(Msg)
    BY <1>1 DEF ResendPrompt, LastMessage, Message, Is, TypeOK
  <2> DEFINE a == Len(history)
  <2>2. /\ a \in Nat \ {0} /\ a \in Nat /\ a =< a + 1 /\ a =< Len(history)
        /\ history' = Upto(history, a - 1) \o From(history, a + 1) /\ redoStack' = redoStack
    BY <1>1, <2>1, FrontAsCut DEF ResendPrompt
  <2> HIDE DEF a
  <2>3. Fewer(Upto(history, a - 1) \o From(history, a + 1), history)
    BY <2>1, <2>2, CutFewer
  <2> QED BY <2>2, <2>3, SaidFewer
<1>2. CASE ResendUndone
  BY <1>2, SaidUndoTail DEF ResendUndone
<1>3. CASE Resume \/ ResendInterrupted
  BY <1>3 DEF Resume, ResendInterrupted
<1> QED BY <1>1, <1>2, <1>3 DEF RetryNow

\* Every step keeps the prompts with the user and the system prompt first.
LEMMA SaidStep ==
  ASSUME HistoryAssumption, TypeOK, [Next]_vars, Said(history, redoStack, asked),
         \A j \in DOMAIN queue : queue[j] =< asked
  PROVE  Said(history', redoStack', asked')
<1>0. /\ history \in Seq(Msg) /\ redoStack \in Seq(Bundle) /\ minted \in Nat /\ asked \in Nat
      /\ queue \in Seq(Input) /\ turn \in Turn /\ turn.call \in Call
  BY DEF TypeOK, Input, Turn
<1>1. CASE Submit
  <2>1. history' = history /\ redoStack' = redoStack /\ asked' = asked + 1
    BY <1>1 DEF Submit, record
  <2> QED BY <1>0, <2>1, SaidMore
<1>2. CASE StartTurn
  <2> DEFINE p == Head(queue)
             ms == IF p = NoInput THEN <<>> ELSE <<User(minted + 1, p)>>
  <2>1. p \in Input /\ p =< asked
    <3>1. queue # <<>>
      BY <1>2 DEF StartTurn
    <3>2. Head(queue) = queue[1] /\ 1 \in DOMAIN queue
      BY <1>0, <3>1
    <3> QED BY <1>0, <3>2, ElementOfSeq
  <2>2. history' = history \o ms /\ redoStack' = <<>> /\ asked' = asked
    <3>1. [NoTurn EXCEPT !.input = p].input = p
      BY DEF NoTurn
    <3> QED BY <1>2, <3>1 DEF StartTurn, Say
  <2>3. /\ User(minted + 1, p) \in Msg
        /\ Spoken(User(minted + 1, p), asked) /\ ~Is(User(minted + 1, p), "system")
    BY <1>0, <2>1, MessageTypes, NewSpoken
  <2> HIDE DEF p
  <2>4. ms \in Seq(Msg) /\ \A k \in 1..Len(ms) : Spoken(ms[k], asked) /\ ~Is(ms[k], "system")
    <3>1. CASE p = NoInput
      <4>1. ms = <<>> /\ Len(<<>>) = 0
        BY <3>1, EmptySeq
      <4> QED BY <4>1, EmptySeq
    <3>2. CASE p # NoInput
      <4>1. ms = <<User(minted + 1, p)>>
        BY <3>2
      <4> QED BY <2>3, <4>1
    <3> QED BY <3>1, <3>2
  <2> HIDE DEF ms
  <2>5. Said(history, <<>>, asked)
    BY DEF Said
  <2>6. <<>> \in Seq(Bundle)
    BY EmptySeq
  <2> QED BY <1>0, <2>2, <2>4, <2>5, <2>6, SaidAdd
<1>3. CASE PrecallsReturn
  <2> DEFINE ast == Calling(minted + 1, 1)
             res == Response(minted + 2, ast.calls[1])
             ms == <<ast, res>>
  <2>1. Say(ms) /\ redoStack' = redoStack /\ asked' = asked
    BY <1>3 DEF PrecallsReturn
  <2>2. ast \in Msg /\ Spoken(ast, asked) /\ ~Is(ast, "system") /\ ast.calls[1] \in Call
    <3>1. ast \in Msg /\ Spoken(ast, asked) /\ ~Is(ast, "system")
      BY <1>0, MessageTypes, NewSpoken
    <3>2. \A n \in Nat : Calling(minted + 1, n).calls = [k \in 1..n |-> <<minted + 1, k>>]
      BY Zenon DEF Calling, Message
    <3>3. 1 \in Nat
      OBVIOUS
    <3>4. ast.calls = [k \in 1..1 |-> <<minted + 1, k>>]
      BY <3>2, <3>3, Zenon
    <3> HIDE DEF ast
    <3>5. ast.calls[1] = <<minted + 1, 1>>
      BY <3>4
    <3> QED BY <1>0, <3>1, <3>5 DEF Call
  <2>3. res \in Msg /\ Spoken(res, asked) /\ ~Is(res, "system")
    <3> HIDE DEF ast
    <3> QED BY <1>0, <2>2, MessageTypes, NewSpoken
  <2> HIDE DEF ast, res
  <2>4. ms \in Seq(Msg) /\ \A k \in 1..Len(ms) : Spoken(ms[k], asked) /\ ~Is(ms[k], "system")
    BY <2>2, <2>3
  <2> HIDE DEF ms
  <2> QED BY <2>1, <2>4, SaidSay
<1>4. CASE ModelAnswers
  <2>1. redoStack' = redoStack /\ asked' = asked
    BY <1>4 DEF ModelAnswers
  <2>2. PICK m \in Msg : Say(<<m>>) /\ Spoken(m, asked) /\ ~Is(m, "system")
    <3>1. Answer(minted + 1) \in Msg /\ Spoken(Answer(minted + 1), asked) /\ ~Is(Answer(minted + 1), "system")
      BY <1>0, MessageTypes, NewSpoken
    <3>2. ASSUME NEW n \in Nat
          PROVE  LET ast == Calling(minted + 1, n)
                 IN  ast \in Msg /\ Spoken(ast, asked) /\ ~Is(ast, "system")
      BY <1>0, MessageTypes, NewSpoken
    <3>3. \/ Say(<<Answer(minted + 1)>>)
          \/ \E n \in 1..MaxCalls : Say(<<Calling(minted + 1, n)>>)
      BY <1>4 DEF ModelAnswers
    <3>4. \A n \in 1..MaxCalls : n \in Nat
      BY DEF HistoryAssumption
    <3> QED BY <3>1, <3>2, <3>3, <3>4
  <2> DEFINE ms == <<m>>
  <2>3. ms \in Seq(Msg) /\ \A k \in 1..Len(ms) : Spoken(ms[k], asked) /\ ~Is(ms[k], "system")
    BY <2>2
  <2>4. Say(ms)
    BY <2>2
  <2> HIDE DEF ms
  <2> QED BY <2>1, <2>3, <2>4, SaidSay
<1>5. CASE ToolReturns
  <2> DEFINE res == Response(minted + 1, turn.call)
             ms == <<res>>
  <2>1. Say(ms) /\ redoStack' = redoStack /\ asked' = asked
    BY <1>5 DEF ToolReturns
  <2>2. res \in Msg /\ Spoken(res, asked) /\ ~Is(res, "system")
    BY <1>0, MessageTypes, NewSpoken
  <2> HIDE DEF res
  <2>3. ms \in Seq(Msg) /\ \A k \in 1..Len(ms) : Spoken(ms[k], asked) /\ ~Is(ms[k], "system")
    BY <2>2
  <2> HIDE DEF ms
  <2> QED BY <2>1, <2>3, SaidSay
<1>6. CASE Undo
  BY <1>6, SaidUndoTail DEF Undo
<1>7. CASE Redo
  <2> DEFINE b  == Last(redoStack)
             at == IF b.at = AtTail \/ b.at > Len(history) THEN Len(history) ELSE b.at
  <2>1. /\ history' = Upto(history, at) \o b.popped \o From(history, at + 1)
        /\ redoStack # <<>> /\ redoStack' = Front(redoStack) /\ asked' = asked
    BY <1>7 DEF Redo, PutBack
  <2>2. /\ b = Last(redoStack)
        /\ at = IF b.at = AtTail \/ b.at > Len(history) THEN Len(history) ELSE b.at
    OBVIOUS
  <2> HIDE DEF b, at
  <2>3. Said(Upto(history, at) \o b.popped \o From(history, at + 1), Front(redoStack), asked)
    BY <1>0, <2>1, <2>2, SaidPop
  <2> QED BY <2>1, <2>3
<1>8. CASE RetryIdle \/ RetryResumes
  <2>1. RetryNow /\ asked' = asked
    BY <1>8 DEF RetryIdle, RetryResumes
  <2> QED BY <2>1, SaidRetryNow
<1>9. ASSUME NEW i \in DOMAIN history, UndoEarlier(i) PROVE Said(history', redoStack', asked')
  <2>1. asked' = asked
    BY <1>9 DEF UndoEarlier
  <2> QED BY <1>9, <2>1, SaidUndoEarlier
<1>10. ASSUME NEW i \in DOMAIN history, Delete(i) PROVE Said(history', redoStack', asked')
  <2>1. redoStack' = redoStack /\ asked' = asked /\ history' = Without(Pruned(i), Cascade(i))
    BY <1>10 DEF Delete, Pruned
  <2> QED BY <1>0, <2>1, DeleteFewer, SaidFewer
<1>11. CASE ModelFails \/ Again \/ Unwind \/ Cancel \/ RetryRunning \/ UNCHANGED vars
  <2>1. UNCHANGED <<history, redoStack, asked>>
    BY <1>11 DEF ModelFails, Again, Unwind, Cancel, RetryRunning, vars, record
  <2> QED BY <2>1
<1> QED BY <1>1, <1>2, <1>3, <1>4, <1>5, <1>6, <1>7, <1>8, <1>9, <1>10, <1>11 DEF Next

-----------------------------------------------------------------------------
(* Which prompts are owed                                                  *)

\* The queue, the retries, the turn and its record know none but the first n.
Owed(q, r, t, x, n) ==
  /\ \A j \in DOMAIN q : q[j] =< n
  /\ \A j \in DOMAIN r : r[j].input =< n
  /\ t.input =< n /\ x =< n

\* The two parts of the invariant, put together as the proofs use them.
LEMMA PromptsParts ==
  ASSUME TypeOK
  PROVE  PromptsAsked /\ SystemFirst
           <=> Said(history, redoStack, asked) /\ Owed(queue, retries, turn, interrupted, asked)
<1>1. history \in Seq(Msg) /\ redoStack \in Seq(Bundle)
  BY DEF TypeOK
<1>2. Said(history, redoStack, asked) <=>
        /\ \A m \in InPlayOf(history, redoStack) : Spoken(m, asked)
        /\ Places(history, "system") \subseteq {1}
        /\ \A j \in DOMAIN redoStack : /\ Places(redoStack[j].popped, "system") = {}
                                       /\ redoStack[j].at = 0 => Places(history, "system") = {}
  BY <1>1, SaidFacts
<1> QED BY <1>2 DEF PromptsAsked, SystemFirst, Owed, InPlay, InPlayOf, Spoken

LEMMA PromptsPartsNext ==
  ASSUME TypeOK'
  PROVE  Said(history', redoStack', asked') /\ Owed(queue', retries', turn', interrupted', asked')
           => PromptsAsked' /\ SystemFirst'
<1>1. history' \in Seq(Msg) /\ redoStack' \in Seq(Bundle)
  BY DEF TypeOK
<1>2. Said(history', redoStack', asked') <=>
        /\ \A m \in InPlayOf(history', redoStack') : Spoken(m, asked')
        /\ Places(history', "system") \subseteq {1}
        /\ \A j \in DOMAIN redoStack' : /\ Places(redoStack'[j].popped, "system") = {}
                                        /\ redoStack'[j].at = 0 => Places(history', "system") = {}
  BY <1>1, SaidFacts
<1> QED BY <1>2 DEF PromptsAsked, SystemFirst, Owed, InPlay, InPlayOf, Spoken

\* What joining and leaving the queue do.
LEMMA QueueAppend ==
  ASSUME NEW q \in Seq(Input), NEW x \in Input
  PROVE  /\ Len(q) \in Nat /\ DOMAIN q = 1..Len(q)
         /\ DOMAIN Append(q, x) = 1..(Len(q) + 1)
         /\ \A j \in 1..Len(q) : Append(q, x)[j] = q[j]
         /\ Append(q, x)[Len(q) + 1] = x
<1> DEFINE r == Append(q, x)
<1>1. /\ r \in Seq(Input) /\ Len(r) = Len(q) + 1
      /\ \A j \in 1..Len(q) : r[j] = q[j]
      /\ r[Len(q) + 1] = x
  BY AppendProperties
<1> HIDE DEF r
<1>2. Len(q) \in Nat /\ DOMAIN q = 1..Len(q) /\ DOMAIN r = 1..(Len(q) + 1)
  BY <1>1, LenProperties
<1> QED BY <1>1, <1>2 DEF r

LEMMA QueueTail ==
  ASSUME NEW q \in Seq(Input), q # <<>>
  PROVE  /\ Head(q) = q[1] /\ 1 \in DOMAIN q
         /\ \A j \in DOMAIN Tail(q) : j + 1 \in DOMAIN q /\ Tail(q)[j] = q[j + 1]
<1>1. Len(q) \in Nat /\ DOMAIN q = 1..Len(q) /\ Len(q) # 0
  BY LenProperties, EmptySeq
<1>2. /\ Tail(q) \in Seq(Input) /\ Len(Tail(q)) = Len(q) - 1 /\ Head(q) = q[1]
      /\ \A j \in 1..Len(Tail(q)) : Tail(q)[j] = q[j + 1]
  BY HeadTailProperties
<1>3. DOMAIN Tail(q) = 1..(Len(q) - 1)
  BY <1>1, <1>2, LenProperties
<1> QED BY <1>1, <1>2, <1>3

\* The retries keep their inputs, and none is alone with its turn any more.
LEMMA SpoiledFacts ==
  ASSUME TypeOK
  PROVE  /\ Len(retries) \in Nat /\ DOMAIN retries = 1..Len(retries)
         /\ DOMAIN Spoiled = DOMAIN retries /\ Len(Spoiled) = Len(retries)
         /\ \A j \in DOMAIN retries : /\ retries[j].input \in Input /\ Spoiled[j] \in Retry
                                      /\ Spoiled[j].input = retries[j].input /\ ~Spoiled[j].own
<1>1. retries \in Seq(Retry) /\ Spoiled \in Seq(Retry)
  BY TypeRetries DEF TypeOK
<1>2. Len(retries) \in Nat /\ DOMAIN retries = 1..Len(retries) /\ \A j \in 1..Len(retries) : retries[j] \in Retry
  BY <1>1, ElementOfSeq, LenProperties
<1>3. Len(Spoiled) \in Nat /\ DOMAIN Spoiled = 1..Len(Spoiled) /\ \A j \in 1..Len(Spoiled) : Spoiled[j] \in Retry
  BY <1>1, ElementOfSeq, LenProperties
<1>4. DOMAIN Spoiled = DOMAIN retries
      /\ \A j \in DOMAIN retries : Spoiled[j] = [retries[j] EXCEPT !.own = FALSE]
  BY DEF Spoiled
<1>5. \A j \in 1..Len(retries) : retries[j].input \in Input /\ Spoiled[j].input = retries[j].input /\ ~Spoiled[j].own
  BY <1>2, <1>4 DEF Retry
<1>6. Len(Spoiled) = Len(retries)
  <2>1. ASSUME NEW m \in Nat, NEW n \in Nat, 1..m = 1..n PROVE m =< n
    <3>1. m # 0 => m \in 1..n
      BY <2>1
    <3> QED BY <3>1
  <2>2. 1..Len(Spoiled) = 1..Len(retries)
    BY <1>2, <1>3, <1>4
  <2>3. Len(Spoiled) =< Len(retries) /\ Len(retries) =< Len(Spoiled)
    BY <1>2, <1>3, <2>1, <2>2
  <2>4. ASSUME NEW m \in Nat, NEW n \in Nat, m =< n, n =< m PROVE m = n
    BY <2>4
  <2> QED BY <1>2, <1>3, <2>3, <2>4
<1> QED BY <1>2, <1>3, <1>4, <1>5, <1>6

\* The steps that leave the retries under way alone.
Bystander ==
  \/ Submit \/ PrecallsReturn \/ ModelAnswers \/ ModelFails \/ ToolReturns \/ Again \/ Unwind
  \/ Cancel \/ UNCHANGED vars

\* Where the inputs of the retries come from, which may be alone with their turn, and
\* what ends one.
LEMMA RetriesStep ==
  ASSUME HistoryAssumption, TypeOK, [Next]_vars
  PROVE  /\ \A j \in DOMAIN retries' :
              \/ retries'[j].input = turn.input
              \/ \E k \in DOMAIN retries : retries'[j].input = retries[k].input
         /\ \/ Bystander /\ retries' = retries
            \/ \A j \in DOMAIN retries' : ~retries'[j].own
            \/ RetryRunning /\ \A j \in DOMAIN retries' :
                 retries'[j].own => retries'[j].input = turn.input /\ InPlace(turn.input)
         /\ Len(retries') >= Len(retries) \/ RetryResumes
<1>1. /\ Len(retries) \in Nat /\ DOMAIN retries = 1..Len(retries)
      /\ DOMAIN Spoiled = DOMAIN retries /\ Len(Spoiled) = Len(retries)
      /\ \A j \in DOMAIN retries : Spoiled[j].input = retries[j].input /\ ~Spoiled[j].own
      /\ Spoiled \in Seq(Retry)
  BY SpoiledFacts, TypeRetries
<1>2. CASE Bystander
  <2>1. retries' = retries
    BY <1>2 DEF Bystander, Submit, PrecallsReturn, ModelAnswers, ModelFails, ToolReturns, Again,
                Unwind, Cancel, vars
  <2> QED BY <1>1, <1>2, <2>1
<1>3. CASE retries' = Spoiled
  BY <1>1, <1>3
<1>4. CASE RetryResumes
  <2>1. retries # <<>> /\ retries' = Tail(Spoiled)
    BY <1>4 DEF RetryResumes
  <2>2. Spoiled # <<>>
    <3>1. retries \in Seq(Retry)
      BY DEF TypeOK
    <3>2. Len(retries) # 0
      BY <2>1, <3>1, EmptySeq
    <3>3. Len(<<>>) = 0
      OBVIOUS
    <3> QED BY <1>1, <3>2, <3>3
  <2>3. /\ Tail(Spoiled) \in Seq(Retry) /\ Len(Tail(Spoiled)) = Len(Spoiled) - 1
        /\ \A j \in 1..Len(Tail(Spoiled)) : Tail(Spoiled)[j] = Spoiled[j + 1]
    BY <1>1, <2>2, HeadTailProperties
  <2>4. DOMAIN Tail(Spoiled) = 1..Len(Tail(Spoiled))
    BY <2>3, LenProperties
  <2>5. ASSUME NEW j \in DOMAIN retries'
        PROVE  j + 1 \in DOMAIN retries /\ retries'[j] = Spoiled[j + 1]
    BY <1>1, <2>1, <2>3, <2>4
  <2> QED BY <1>1, <1>4, <2>5
<1>5. CASE RetryRunning
  <2> DEFINE x == [input |-> turn.input, own |-> InPlace(turn.input)]
  <2>1. retries' = Append(Spoiled, x) /\ x.input = turn.input /\ x.own = InPlace(turn.input)
    BY <1>5 DEF RetryRunning
  <2>2. x \in Retry
    BY DEF TypeOK, Turn, Retry, InPlace
  <2> HIDE DEF x
  <2>3. /\ Append(Spoiled, x) \in Seq(Retry) /\ Len(Append(Spoiled, x)) = Len(Spoiled) + 1
        /\ \A j \in 1..Len(Spoiled) : Append(Spoiled, x)[j] = Spoiled[j]
        /\ Append(Spoiled, x)[Len(Spoiled) + 1] = x
    BY <1>1, <2>2, AppendProperties
  <2>4. DOMAIN Append(Spoiled, x) = 1..(Len(Spoiled) + 1)
    BY <2>3, LenProperties
  <2>5. ASSUME NEW j \in DOMAIN retries'
        PROVE  \/ retries'[j] = x
               \/ j \in DOMAIN retries /\ retries'[j] = Spoiled[j]
    BY <1>1, <2>1, <2>3, <2>4
  <2>6. \A j \in DOMAIN retries' :
          /\ \/ retries'[j].input = turn.input
             \/ \E k \in DOMAIN retries : retries'[j].input = retries[k].input
          /\ retries'[j].own => retries'[j].input = turn.input /\ InPlace(turn.input)
    BY <1>1, <2>1, <2>5
  <2>7. Len(retries') >= Len(retries)
    BY <1>1, <2>1, <2>3
  <2> QED BY <1>5, <2>6, <2>7
<1> QED BY <1>2, <1>3, <1>4, <1>5
        DEF Next, Bystander, StartTurn, Undo, Redo, RetryIdle, UndoEarlier, Delete

\* The prompt an undo gives back is one that was asked.
LEMMA RecoveredAsked ==
  ASSUME HistoryAssumption, TypeOK, Said(history, redoStack, asked), interrupted =< asked
  PROVE  Recovered =< asked
<1> DEFINE a == Left(history) + 1
           b == Len(history)
           ms == SubSeq(history, a, b)
<1>1. history \in Seq(Msg) /\ asked \in Nat
  BY DEF TypeOK, Input
<1>2. a \in Nat \ {0} /\ b \in Nat /\ a =< b + 1 /\ b =< Len(history)
  BY TypeRecovered
<1>3. Recovered = IF PromptOf(ms) # NoInput THEN PromptOf(ms) ELSE interrupted
  BY DEF Recovered, From
<1> HIDE DEF a, b
<1>4. /\ ms \in Seq(Msg)
      /\ \A n \in 1..Len(ms) : \E i \in 1..Len(history) :
           ms[n] = history[i] /\ a =< i /\ i =< b /\ i = a + n - 1
  BY <1>1, <1>2, CutPlaces
<1> HIDE DEF ms
<1>5. CASE PromptOf(ms) # NoInput
  <2>1. PICK k \in 1..Len(ms) : ms[k].prompt = PromptOf(ms)
    BY <1>4, <1>5, PromptOfFacts
  <2>2. PICK i \in 1..Len(history) : ms[k] = history[i]
    BY <1>4
  <2>3. history[i].prompt =< asked
    BY DEF Said, Heard, Spoken
  <2> QED BY <1>3, <1>5, <2>1, <2>2, <2>3
<1>6. CASE PromptOf(ms) = NoInput
  BY <1>3, <1>6
<1> QED BY <1>5, <1>6

\* What joins the queue was asked.
LEMMA QueueStep ==
  ASSUME HistoryAssumption, TypeOK, TypeOK', [Next]_vars, Said(history, redoStack, asked),
         Owed(queue, retries, turn, interrupted, asked)
  PROVE  asked =< asked' /\ \A j \in DOMAIN queue' : queue'[j] =< asked'
<1>1. /\ queue \in Seq(Input) /\ history \in Seq(Msg) /\ asked \in Nat /\ asked' \in Input
      /\ \A j \in DOMAIN queue : queue[j] =< asked
      /\ interrupted =< asked /\ NoInput =< asked /\ NoInput \in Input /\ interrupted \in Input
  BY DEF TypeOK, Input, Owed, NoInput, HistoryAssumption
<1>2. CASE queue' = queue /\ asked' = asked
  BY <1>1, <1>2
<1>3. CASE Submit
  <2>1. asked' = asked + 1 /\ queue' = Append(queue, asked + 1) /\ asked + 1 \in Input
    BY <1>1, <1>3 DEF Submit
  <2>2. \A j \in DOMAIN queue : queue[j] \in Nat
    BY <1>1, ElementOfSeq, LenProperties DEF Input
  <2>3. ASSUME NEW j \in DOMAIN queue' PROVE queue'[j] =< asked'
    <3>1. /\ Len(queue) \in Nat /\ DOMAIN queue = 1..Len(queue)
          /\ DOMAIN Append(queue, asked + 1) = 1..(Len(queue) + 1)
          /\ \A k \in 1..Len(queue) : Append(queue, asked + 1)[k] = queue[k]
          /\ Append(queue, asked + 1)[Len(queue) + 1] = asked + 1
      BY <1>1, <2>1, QueueAppend
    <3>2. CASE j \in 1..Len(queue)
      BY <1>1, <2>1, <2>2, <3>1, <3>2
    <3>3. CASE j = Len(queue) + 1
      BY <1>1, <2>1, <3>1, <3>3
    <3> QED BY <2>1, <3>1, <3>2, <3>3
  <2> QED BY <1>1, <2>1, <2>3
<1>4. CASE StartTurn
  <2>1. queue # <<>> /\ queue' = Tail(queue) /\ asked' = asked
    BY <1>4 DEF StartTurn
  <2>2. \A j \in DOMAIN Tail(queue) : j + 1 \in DOMAIN queue /\ Tail(queue)[j] = queue[j + 1]
    BY <1>1, <2>1, QueueTail
  <2> QED BY <1>1, <2>1, <2>2
<1>5. ASSUME NEW x \in Input, x =< asked, queue' = Append(queue, x), asked' = asked
      PROVE  \A j \in DOMAIN queue' : queue'[j] =< asked'
  <2>1. /\ Len(queue) \in Nat /\ DOMAIN queue = 1..Len(queue)
        /\ DOMAIN Append(queue, x) = 1..(Len(queue) + 1)
        /\ \A j \in 1..Len(queue) : Append(queue, x)[j] = queue[j]
        /\ Append(queue, x)[Len(queue) + 1] = x
    BY <1>1, QueueAppend
  <2>2. ASSUME NEW j \in 1..(Len(queue) + 1) PROVE j \in 1..Len(queue) \/ j = Len(queue) + 1
    BY <2>1
  <2> QED BY <1>1, <1>5, <2>1, <2>2
<1>6. CASE RetryIdle \/ RetryResumes
  <2>1. RetryNow /\ asked' = asked
    BY <1>6 DEF RetryIdle, RetryResumes
  <2>2. CASE ResendPrompt
    <3>1. history # <<>> /\ LastMessage = Last(history)
      BY <2>2 DEF ResendPrompt, LastMessage, Message, Is
    <3>2. Len(history) \in 1..Len(history) /\ Last(history) = history[Len(history)]
      BY <1>1, <3>1, FrontAsCut
    <3>3. Last(history).prompt =< asked /\ Last(history).prompt \in Input
      BY <1>1, <3>2, MsgFacts DEF Said, Heard, Spoken
    <3> QED BY <1>1, <1>5, <2>1, <2>2, <3>1, <3>3 DEF ResendPrompt, Resend
  <2>3. CASE Resume \/ ResendInterrupted
    BY <1>1, <1>5, <2>1, <2>3 DEF Resume, ResendInterrupted, Resend
  <2>4. CASE ResendUndone
    <3>1. Recovered =< asked /\ Recovered \in Input
      BY <1>1, RecoveredAsked, TypeRecovered
    <3> QED BY <1>1, <1>5, <2>1, <2>4, <3>1 DEF ResendUndone, Resend
  <2> QED BY <1>1, <2>1, <2>2, <2>3, <2>4 DEF RetryNow
<1> QED BY <1>2, <1>3, <1>4, <1>6
        DEF Next, PrecallsReturn, ModelAnswers, ModelFails, ToolReturns, Again,
            Unwind, Cancel, Undo, Redo, RetryRunning, UndoEarlier, Delete, vars

\* A turn has its input from the queue, and leaves it to the record when it stops.
LEMMA InputsStep ==
  ASSUME HistoryAssumption, TypeOK, [Next]_vars
  PROVE  /\ turn'.input \in {turn.input, NoInput} \/ (queue # <<>> /\ turn'.input = Head(queue))
         /\ interrupted' \in {interrupted, turn.input, NoInput}
<1>1. turn \in Turn /\ NoTurn.input = NoInput /\ NoTurn \in Turn /\ queue \in Seq(Input)
  BY TypeTurn DEF TypeOK, NoTurn
<1>2. \A t \in Turn : [t EXCEPT !.phase = "model", !.loops = @ + 1].input = t.input
  BY DEF Turn
<1>3. [turn EXCEPT !.aborted = TRUE].input = turn.input
  BY <1>1 DEF Turn
<1>4. CASE turn' \in {turn, NoTurn, [turn EXCEPT !.aborted = TRUE]} /\ interrupted' \in {interrupted, turn.input, NoInput}
  BY <1>1, <1>3, <1>4
<1>5. CASE StartTurn
  <2> DEFINE new == [NoTurn EXCEPT !.input = Head(queue)]
  <2>1. queue # <<>> /\ interrupted' = interrupted /\ new.input = Head(queue)
    BY <1>5 DEF StartTurn, NoTurn
  <2>2. new \in Turn
    BY <1>1, <2>1, HeadTailProperties, TypeTurn
  <2>3. turn' = [new EXCEPT !.phase = "precalls"] \/ Send(new)
    BY <1>5 DEF StartTurn
  <2>4. turn'.input = new.input
    <3>1. [new EXCEPT !.phase = "precalls"].input = new.input
      BY DEF NoTurn
    <3>2. [new EXCEPT !.phase = "model", !.loops = @ + 1].input = new.input
      BY <1>2, <2>2
    <3> HIDE DEF new
    <3> QED BY <2>3, <3>1, <3>2 DEF Send
  <2> QED BY <2>1, <2>4
<1>6. CASE PrecallsReturn
  BY <1>1, <1>2, <1>4, <1>6 DEF PrecallsReturn, Cancelled, Send
<1>7. CASE ModelAnswers
  <2>1. CASE Completed
    BY <1>4, <2>1 DEF Completed
  <2>2. CASE ~Completed
    <3>1. ASSUME NEW n, LET ast == Calling(minted + 1, n)
                        IN  turn' = [turn EXCEPT !.phase = "tool", !.msg = ast.id, !.calls = ast.calls,
                                                 !.at = 1, !.call = ast.calls[1]]
          PROVE  turn'.input = turn.input
      BY <1>1, <3>1 DEF Turn
    <3>2. turn'.input = turn.input /\ interrupted' = interrupted
      BY <1>7, <2>2, <3>1, Zenon DEF ModelAnswers
    <3> QED BY <3>2
  <2> QED BY <2>1, <2>2
<1>8. CASE ToolReturns
  BY <1>1, <1>8 DEF ToolReturns, Turn
<1>9. CASE Again
  BY <1>1, <1>2, <1>4, <1>9 DEF Again, Send, Errored
<1>10. CASE ModelFails \/ Unwind
  BY <1>4, <1>10 DEF ModelFails, Unwind, Errored, Cancelled
<1>11. CASE Cancel \/ RetryRunning
  BY <1>4, <1>11 DEF Cancel, RetryRunning, record
<1>12. CASE StopTurn /\ interrupted' = NoInput
  BY <1>4, <1>12 DEF StopTurn
<1>13. CASE UndoTail
  BY <1>12, <1>13 DEF UndoTail, TakeOut
<1>14. CASE RetryNow
  BY <1>4, <1>13, <1>14 DEF RetryNow, ResendPrompt, Resume, ResendUndone, ResendInterrupted
<1>15. ASSUME NEW i \in DOMAIN history, UndoEarlier(i)
       PROVE  StopTurn /\ interrupted' = NoInput
  BY <1>15 DEF UndoEarlier, TakeOut
<1>16. ASSUME NEW i \in DOMAIN history, Delete(i)
       PROVE  turn'.input = turn.input /\ interrupted' = interrupted
  BY <1>1, <1>16 DEF Delete, Turn
<1>17. CASE Submit \/ Redo \/ UNCHANGED vars
  BY <1>4, <1>17 DEF Submit, Redo, vars, record
<1> QED BY <1>5, <1>6, <1>7, <1>8, <1>9, <1>10, <1>11, <1>12, <1>13, <1>14, <1>15, <1>16, <1>17
        DEF Next, Undo, RetryIdle, RetryResumes

\* Every step keeps the prompts asked and the system prompt first.
LEMMA PromptsStep ==
  ASSUME HistoryAssumption, TypeOK, TypeOK', [Next]_vars, PromptsAsked, SystemFirst
  PROVE  PromptsAsked' /\ SystemFirst'
<1>1. /\ Said(history, redoStack, asked) /\ Owed(queue, retries, turn, interrupted, asked)
      /\ \A j \in DOMAIN queue : queue[j] =< asked
  BY PromptsParts DEF Owed
<1>2. Said(history', redoStack', asked')
  BY <1>1, SaidStep
<1>3. asked =< asked' /\ \A j \in DOMAIN queue' : queue'[j] =< asked'
  BY <1>1, QueueStep
<1>4. /\ asked \in Nat /\ asked' \in Nat /\ turn.input \in Nat /\ interrupted \in Nat /\ queue \in Seq(Input)
      /\ \A k \in DOMAIN retries : retries[k].input \in Nat
  <2>1. /\ asked \in Input /\ asked' \in Input /\ turn.input \in Input /\ interrupted \in Input
        /\ queue \in Seq(Input)
    BY DEF TypeOK, Turn
  <2>2. \A k \in DOMAIN retries : retries[k].input \in Input
    BY SpoiledFacts
  <2>3. Input \subseteq Nat
    BY DEF Input
  <2> QED BY <2>1, <2>2, <2>3
<1>5. turn.input =< asked /\ interrupted =< asked /\ \A k \in DOMAIN retries : retries[k].input =< asked
  BY <1>1 DEF Owed
<1>6. \A x \in Nat : x =< asked => x =< asked'
  BY <1>3, <1>4
<1>7. NoInput =< asked'
  BY <1>4 DEF NoInput
<1>8. \A j \in DOMAIN retries' : retries'[j].input =< asked'
  BY <1>4, <1>5, <1>6, RetriesStep
<1>9. queue # <<>> => Head(queue) =< asked'
  <2>1. ASSUME queue # <<>> PROVE Head(queue) =< asked'
    <3>1. Head(queue) = queue[1] /\ 1 \in DOMAIN queue
      BY <1>4, <2>1, QueueTail
    <3>2. Head(queue) \in Nat
      BY <1>4, <3>1, ElementOfSeq, LenProperties DEF Input
    <3> QED BY <1>1, <1>6, <3>1, <3>2
  <2> QED BY <2>1
<1>10. turn'.input =< asked' /\ interrupted' =< asked'
  BY <1>4, <1>5, <1>6, <1>7, <1>9, InputsStep
<1> QED BY <1>2, <1>3, <1>8, <1>10, PromptsPartsNext DEF Owed

-----------------------------------------------------------------------------
(* A retry and its own prompt                                              *)

\* A prompt that does not join the queue is there as often as before.
LEMMA CopiesWait ==
  ASSUME NEW h \in Seq(Msg), NEW q \in Seq(Input), NEW x \in Input, NEW p, x # p
  PROVE  Copies(p, h, Append(q, x)) = Copies(p, h, q)
<1> DEFINE r == Append(q, x)
<1>1. r \in Seq(Input) /\ Waiting(r, p) = Waiting(q, p)
  BY WaitingAppend
<1> HIDE DEF r
<1>2. /\ Copies(p, h, r) = Cardinality(Carrying(h, p)) + Cardinality(Waiting(r, p))
      /\ Copies(p, h, q) = Cardinality(Carrying(h, p)) + Cardinality(Waiting(q, p))
  BY <1>1, CopiesFacts
<1> QED BY <1>1, <1>2 DEF r

\* So is one that joins the conversation with no new message.
LEMMA CopiesSay ==
  ASSUME NEW h \in Seq(Msg), NEW q \in Seq(Input), NEW ms \in Seq(Msg), NEW p,
         \A k \in 1..Len(ms) : ms[k].prompt # p
  PROVE  Copies(p, h \o ms, q) = Copies(p, h, q)
<1> DEFINE g == h \o ms
<1>1. /\ g \in Seq(Msg) /\ Len(g) = Len(h) + Len(ms)
      /\ \A k \in 1..Len(h) : g[k] = h[k]
      /\ \A k \in 1..Len(ms) : g[Len(h) + k] = ms[k]
  BY ConcatFacts
<1> HIDE DEF g
<1>2. Len(h) \in Nat /\ Len(ms) \in Nat /\ DOMAIN h = 1..Len(h) /\ DOMAIN g = 1..Len(g)
  BY <1>1, MsgFacts
<1>3. ASSUME NEW i PROVE i \in Carrying(g, p) <=> i \in Carrying(h, p)
  <2>1. CASE i \in 1..Len(h)
    <3>1. i \in 1..Len(g)
      BY <1>1, <1>2, <2>1
    <3> QED BY <1>1, <1>2, <2>1, <3>1 DEF Carrying
  <2>2. CASE i \in 1..Len(g) /\ i \notin 1..Len(h)
    <3>1. i - Len(h) \in 1..Len(ms) /\ Len(h) + (i - Len(h)) = i
      BY <1>1, <1>2, <2>2
    <3> QED BY <1>1, <1>2, <2>2, <3>1 DEF Carrying
  <2>3. CASE i \notin 1..Len(g) /\ i \notin 1..Len(h)
    BY <1>2, <2>3 DEF Carrying
  <2> QED BY <2>1, <2>2, <2>3
<1>4. Carrying(g, p) = Carrying(h, p)
  BY <1>3
<1>5. /\ Copies(p, g, q) = Cardinality(Carrying(g, p)) + Cardinality(Waiting(q, p))
      /\ Copies(p, h, q) = Cardinality(Carrying(h, p)) + Cardinality(Waiting(q, p))
  BY <1>1, CopiesFacts
<1> QED BY <1>4, <1>5 DEF g

\* While nothing interferes with a retry, its turn stays as it stopped.
LEMMA OwnRetriesStep ==
  ASSUME HistoryAssumption, TypeOK, PromptsAsked, OwnRetries, [Next]_vars
  PROVE  OwnRetries'
<1> SUFFICES ASSUME NEW i \in DOMAIN retries', retries'[i].own, retries'[i].input # NoInput
             PROVE  LET p == retries'[i].input
                    IN  /\ turn'.phase = "none" \/ turn'.aborted
                        /\ Copies(p, history', queue') = 1
                        /\ \/ PromptOf(From(history', Left(history') + 1)) = p
                           \/ Is(LastMessage', "tool") \/ Declares(LastMessage')
  BY DEF OwnRetries
<1> DEFINE p == retries'[i].input
<1>0. /\ history \in Seq(Msg) /\ queue \in Seq(Input) /\ minted \in Nat /\ asked \in Nat
      /\ turn \in Turn /\ turn.aborted \in BOOLEAN
  BY DEF TypeOK, Input, Turn
<1>1. CASE RetryRunning
  <2>1. p = turn.input /\ InPlace(turn.input)
    <3>1. retries' # retries
      <4>1. retries' = Append(Spoiled, [input |-> turn.input, own |-> InPlace(turn.input)])
        BY <1>1 DEF RetryRunning
      <4> DEFINE x == [input |-> turn.input, own |-> InPlace(turn.input)]
      <4>2. x \in Retry
        BY DEF TypeOK, Turn, Retry, InPlace
      <4> HIDE DEF x
      <4>3. Len(Append(Spoiled, x)) = Len(Spoiled) + 1
        BY <4>2, TypeRetries, AppendProperties
      <4>4. Len(Spoiled) = Len(retries) /\ Len(retries) \in Nat
        BY SpoiledFacts
      <4> QED BY <4>1, <4>3, <4>4 DEF x
    <3> QED BY <3>1, RetriesStep
  <2>2. turn'.aborted /\ history' = history /\ queue' = queue
    BY <1>0, <1>1 DEF RetryRunning, record, Turn
  <2>3. Copies(p, history', queue') = 1 /\ PromptOf(From(history', Left(history') + 1)) = p
    BY <2>1, <2>2 DEF InPlace
  <2> QED BY <2>2, <2>3
<1>2. CASE Bystander /\ retries' = retries
  <2>1. /\ turn.phase = "none" \/ turn.aborted
        /\ Copies(p, history, queue) = 1
        /\ \/ PromptOf(From(history, Left(history) + 1)) = p
           \/ Is(LastMessage, "tool") \/ Declares(LastMessage)
    BY <1>2 DEF OwnRetries
  <2>2. p # NoInput /\ p =< asked /\ p \in Nat
    <3>1. p \in Input
      BY <1>2, SpoiledFacts
    <3> QED BY <1>2, <3>1 DEF PromptsAsked, Input
  <2> HIDE DEF p
  <2>3. history' = history => LastMessage' = LastMessage
    BY DEF LastMessage
  <2>4. CASE Submit
    <3>1. history' = history /\ turn' = turn /\ queue' = Append(queue, asked + 1) /\ asked + 1 \in Input
      BY <1>0, <2>4 DEF Submit, record, Input, HistoryAssumption
    <3>2. p # asked + 1
      BY <1>0, <2>2
    <3>3. Copies(p, history, queue') = Copies(p, history, queue)
      BY <1>0, <3>1, <3>2, CopiesWait
    <3> QED BY <2>1, <2>3, <3>1, <3>3 DEF p
  <2>5. CASE PrecallsReturn
    <3> DEFINE ast == Calling(minted + 1, 1)
               res == Response(minted + 2, ast.calls[1])
               ms == <<ast, res>>
    <3>1. turn' = NoTurn /\ history' = history \o ms /\ queue' = queue
      BY <2>1, <2>5 DEF PrecallsReturn, Say, Cancelled
    <3>2. ast \in Msg /\ ast.prompt = NoInput /\ ast.calls[1] \in Call
      <4>1. ast \in Msg
        BY <1>0, MessageTypes
      <4>2. ast.prompt = NoInput
        BY Zenon DEF Calling, Message
      <4>3. \A n \in Nat : Calling(minted + 1, n).calls = [k \in 1..n |-> <<minted + 1, k>>]
        BY Zenon DEF Calling, Message
      <4>4. 1 \in Nat
        OBVIOUS
      <4>5. ast.calls = [k \in 1..1 |-> <<minted + 1, k>>]
        BY <4>3, <4>4, Zenon
      <4> HIDE DEF ast
      <4>6. ast.calls[1] = <<minted + 1, 1>>
        BY <4>5
      <4> QED BY <1>0, <4>1, <4>2, <4>6 DEF Call
    <3>3. res \in Msg /\ res.prompt = NoInput /\ Is(res, "tool")
      <4>1. res.prompt = NoInput /\ res.role = "tool"
        BY Zenon DEF Response, Message
      <4> HIDE DEF ast
      <4>2. res \in Msg
        BY <1>0, <3>2, MessageTypes
      <4> QED BY <4>1, <4>2 DEF Is
    <3> HIDE DEF ast, res
    <3>4. /\ ms \in Seq(Msg) /\ Len(ms) = 2 /\ ms[2] = res
          /\ \A k \in 1..Len(ms) : ms[k].prompt = NoInput
      BY <3>2, <3>3
    <3> HIDE DEF ms
    <3>5. Copies(p, history', queue') = 1
      <4>1. \A k \in 1..Len(ms) : ms[k].prompt # p
        BY <2>2, <3>4
      <4>2. Copies(p, history \o ms, queue) = Copies(p, history, queue)
        BY <1>0, <3>4, <4>1, CopiesSay
      <4> QED BY <2>1, <3>1, <4>2
    <3>6. Is(LastMessage', "tool")
      <4> DEFINE g == history \o ms
      <4>0. /\ g \in Seq(Msg) /\ Len(g) = Len(history) + Len(ms)
            /\ \A k \in 1..Len(ms) : g[Len(history) + k] = ms[k]
        BY <1>0, <3>4, ConcatFacts
      <4>1. Len(g) = Len(history) + 2 /\ g[Len(history) + 2] = res /\ Len(history) \in Nat
        BY <1>0, <3>4, <4>0, MsgFacts
      <4>2. history' = g
        BY <3>1
      <4> HIDE DEF g
      <4>3. Last(g) = res /\ g # <<>>
        BY <4>0, <4>1, EmptySeq DEF Last
      <4> QED BY <3>3, <4>2, <4>3 DEF LastMessage
    <3>7. turn'.phase = "none"
      BY <3>1 DEF NoTurn
    <3> QED BY <3>5, <3>6, <3>7 DEF p
  <2>6. CASE ModelAnswers \/ ModelFails \/ ToolReturns \/ Again
    BY <2>1, <2>6 DEF ModelAnswers, ModelFails, ToolReturns, Again
  <2>7. CASE Unwind
    <3>1. history' = history /\ queue' = queue /\ turn'.phase = "none"
      BY <2>7 DEF Unwind, Cancelled, NoTurn
    <3> QED BY <2>1, <2>3, <3>1 DEF p
  <2>8. CASE Cancel
    <3>1. history' = history /\ queue' = queue /\ turn'.aborted
      BY <1>0, <2>8 DEF Cancel, record, Turn
    <3> QED BY <2>1, <2>3, <3>1 DEF p
  <2>9. CASE UNCHANGED vars
    <3>1. history' = history /\ queue' = queue /\ turn' = turn
      BY <2>9 DEF vars, record
    <3> QED BY <2>1, <2>3, <3>1 DEF p
  <2> QED BY <1>2, <2>4, <2>5, <2>6, <2>7, <2>8, <2>9 DEF Bystander
<1> QED BY <1>1, <1>2, RetriesStep

\* After its 50 ms a retry that nothing interfered with finds its own turn.
LEMMA OwnRetryResends ==
  ASSUME HistoryAssumption, HInv, RetryNow, NEW p \in Input, p # NoInput,
         Copies(p, history, queue) = 1,
         \/ PromptOf(From(history, Left(history) + 1)) = p
         \/ Is(LastMessage, "tool") \/ Declares(LastMessage)
  PROVE  /\ Last(queue') \in {p, NoInput}
         /\ Copies(p, history', queue') = 1
         /\ \A q \in Prompt \ {p} : Copies(q, history', queue') = Copies(q, history, queue)
<1> DEFINE a == Left(history) + 1
<1>0. TypeOK /\ history \in Seq(Msg) /\ queue \in Seq(Input) /\ NoInput \in Input
  BY DEF HInv, OrderInv, TypeOK, NoInput, Input, HistoryAssumption
<1>1. /\ \A i \in 1..Len(history) : /\ history[i].prompt # NoInput => Is(history[i], "user")
                                    /\ Is(history[i], "system") => i = 1
                                    /\ Declares(history[i]) => Is(history[i], "assistant")
  <2>1. Said(history, redoStack, asked)
    BY <1>0, PromptsParts DEF HInv, RetryInv
  <2>2. \A i \in 1..Len(history) : history[i] \in InPlay
    BY <1>0, IdsFacts, Zenon DEF InPlay
  <2>3. WellMade
    BY DEF HInv, OrderInv
  <2> QED BY <2>1, <2>2, <2>3 DEF Said, Heard, Spoken, WellMade
<1>2. /\ Left(history) \in 0..Len(history) /\ a \in Nat \ {0} /\ Len(history) \in Nat
      /\ a =< Len(history) + 1
  BY <1>0, TypeRecovered
<1>3. Resume => Last(queue') = NoInput
  <2>1. Last(Append(queue, NoInput)) = NoInput
    BY <1>0, WaitingAppend
  <2> QED BY <2>1 DEF Resume, Resend
<1>4. CASE Resume
  <2>1. history' = history /\ queue' = Append(queue, NoInput)
    BY <1>4 DEF Resume, Resend
  <2>2. \A x \in Input \ {NoInput} : Copies(x, history, Append(queue, NoInput)) = Copies(x, history, queue)
    BY <1>0, CopiesWait
  <2>3. \A q \in Prompt : q \in Input \ {NoInput}
    BY DEF Prompt, Input, NoInput
  <2> QED BY <1>3, <1>4, <2>1, <2>2, <2>3
<1>5. history = <<>> => LastMessage.role = "none" /\ ~Declares(LastMessage)
  BY DEF LastMessage, Message, Declares
<1>6. history # <<>> => /\ LastMessage = history[Len(history)]
                        /\ Len(history) \in 1..Len(history)
  BY <1>0, FrontAsCut DEF LastMessage
<1>7. Declares(LastMessage) => Is(LastMessage, "assistant")
  BY <1>1, <1>5, <1>6
<1>8. CASE ~Resume
  <2>1. PromptOf(From(history, a)) = p
    <3>1. ~(Is(LastMessage, "tool") \/ Declares(LastMessage))
      BY <1>7, <1>8 DEF RetryNow, ResendPrompt, ResendUndone, ResendInterrupted, Is
    <3> QED BY <3>1
  <2> DEFINE b == Len(history)
             ms == SubSeq(history, a, b)
  <2>2. ms \in Seq(Msg) /\ \A n \in 1..Len(ms) : \E i \in 1..Len(history) :
                             ms[n] = history[i] /\ a =< i /\ i =< b /\ i = a + n - 1
    <3>1. b \in Nat /\ a =< b + 1 /\ b =< Len(history)
      BY <1>2
    <3> HIDE DEF a, b
    <3> QED BY <1>0, <1>2, <3>1, CutPlaces
  <2>3. PromptOf(ms) = p
    BY <2>1 DEF From
  <2> HIDE DEF ms
  <2>4. PICK k \in 1..Len(ms) : Is(ms[k], "user") /\ ms[k].prompt = p
    BY <2>2, <2>3, PromptOfFacts
  <2>5. PICK c \in 1..Len(history) : ms[k] = history[c] /\ a =< c /\ c =< b
    BY <2>2
  <2>6. ASSUME NEW i \in a..Len(history)
        PROVE  (Is(history[i], "user") => i = a) /\ (Is(history[i], "system") => i # 1)
    <3>1. i \in (Left(history) + 1)..Len(history)
      OBVIOUS
    <3> QED BY <1>0, <3>1, LeftTail
  <2>7. c = a /\ history[a].prompt = p /\ Is(history[a], "user") /\ a =< Len(history) /\ a \in a..Len(history)
    <3>1. c \in a..Len(history)
      BY <1>2, <2>5
    <3>2. c = a
      BY <2>4, <2>5, <2>6, <3>1
    <3> QED BY <2>4, <2>5, <3>1, <3>2
  <2>8. history # <<>>
    <3>1. Len(history) # 0
      BY <1>2, <2>7
    <3>2. Len(<<>>) = 0
      OBVIOUS
    <3> QED BY <3>1, <3>2
  <2>9. \A i \in a..Len(history) : history[i].prompt \in {NoInput, p}
    <3>1. ASSUME NEW i \in a..Len(history) PROVE history[i].prompt \in {NoInput, p}
      <4>1. i \in 1..Len(history)
        BY <1>2
      <4> QED BY <1>1, <2>6, <2>7, <4>1
    <3> QED BY <3>1
  <2>10. Len(history) \in a..Len(history) /\ LastMessage = history[Len(history)]
    BY <1>2, <1>6, <2>7, <2>8
  <2>11. ASSUME NEW g, g = Upto(history, a - 1) \o From(history, Len(history) + 1),
                history' = g, queue' = Append(queue, p)
         PROVE  /\ Last(queue') \in {p, NoInput}
                /\ Copies(p, history', queue') = 1
                /\ \A q \in Prompt \ {p} : Copies(q, history', queue') = Copies(q, history, queue)
    <3>1. Last(queue') = p
      BY <1>0, <2>11, WaitingAppend
    <3> HIDE DEF a
    <3>2. /\ Copies(p, g, Append(queue, p)) = 1
          /\ \A q \in Prompt \ {p} : Copies(q, g, Append(queue, p)) = Copies(q, history, queue)
      <4>1. /\ a \in Nat \ {0} /\ b \in Nat /\ b = Len(history) /\ a =< b + 1
            /\ g = Upto(history, a - 1) \o From(history, b + 1)
            /\ OnlyPrompt(history, a, p)
        BY <1>2, <2>7, <2>9, <2>11 DEF OnlyPrompt
      <4> HIDE DEF b
      <4>2. Before(g, history, a)
        BY <1>0, <4>1, TailCut
      <4> QED BY <1>0, <4>1, <4>2, Resending
    <3> QED BY <2>11, <3>1, <3>2
  <2>12. CASE ResendPrompt
    <3>1. Is(history[Len(history)], "user")
      BY <2>10, <2>12 DEF ResendPrompt
    <3>2. Len(history) = a
      BY <2>6, <2>10, <3>1
    <3>3. LastMessage.prompt = p
      BY <2>7, <2>10, <3>2
    <3>4. Front(history) = Upto(history, Len(history) - 1) \o From(history, Len(history) + 1)
      BY <1>0, <2>8, FrontAsCut
    <3>5. history' = Upto(history, a - 1) \o From(history, Len(history) + 1) /\ queue' = Append(queue, p)
      BY <2>12, <3>2, <3>3, <3>4 DEF ResendPrompt, Resend
    <3> QED BY <2>11, <3>5
  <2>13. CASE ResendUndone
    <3>1. Recovered = p
      BY <2>1 DEF Recovered
    <3>2. TakeOut(Left(history) + 1, Len(history), AtTail) /\ queue' = Append(queue, p)
      BY <2>13, <3>1 DEF ResendUndone, UndoTail, Resend
    <3>3. history' = Upto(history, a - 1) \o From(history, Len(history) + 1)
      BY <3>2 DEF TakeOut
    <3> QED BY <2>11, <3>2, <3>3
  <2>14. CASE ResendInterrupted
    <3>1. LastMessage.role \in {"none", "system"} /\ LastMessage.role \in Role
      BY <1>0, <1>6, <2>8, <2>14, MsgFacts DEF ResendInterrupted
    <3>2. Is(history[Len(history)], "system")
      BY <2>10, <3>1 DEF Role, Is
    <3>3. Len(history) = 1 /\ Len(history) # 1
      BY <1>1, <1>6, <2>6, <2>8, <2>10, <3>2
    <3> QED BY <3>3
  <2> QED BY <1>8, <2>12, <2>13, <2>14 DEF RetryNow
<1> QED BY <1>4, <1>8

\* A conversation begins with no prompt asked and no retry under way.
LEMMA RetryInit ==
  ASSUME HistoryAssumption, Init
  PROVE  RetryInv
<1>1. /\ TypeOK /\ queue = <<>> /\ retries = <<>> /\ redoStack = <<>>
      /\ asked = 0 /\ turn = NoTurn /\ interrupted = NoInput
  BY OrderInit DEF Init, OrderInv
<1>2. Said(history, redoStack, asked)
  <2>1. ASSUME NEW j \in 1..Len(history)
        PROVE  j = 1 /\ history[j].prompt = NoInput
    <3>1. CASE HasRoot
      <4>1. history = <<Message(1, "system")>>
        BY <3>1 DEF Init
      <4>2. Len(history) = 1 /\ history[1] = Message(1, "system")
        BY <4>1
      <4> QED BY <4>2 DEF Message
    <3>2. CASE ~HasRoot
      <4>1. history = <<>>
        BY <3>2 DEF Init
      <4> QED BY <4>1
    <3> QED BY <3>1, <3>2
  <2>2. Heard(history, asked)
    BY <1>1, <2>1 DEF Heard, Spoken, NoInput
  <2>3. Len(redoStack) = 0
    BY <1>1
  <2> QED BY <2>2, <2>3 DEF Said
<1>3. Owed(queue, retries, turn, interrupted, asked)
  BY <1>1 DEF Owed, NoTurn, NoInput
<1>4. OwnRetries
  BY <1>1 DEF OwnRetries
<1> QED BY <1>1, <1>2, <1>3, <1>4, PromptsParts DEF RetryInv

\* The conversation stays in order, and the retries keep what they count on (HInv): no
\* message is lost or there twice, every response stands behind the answer that declares
\* its call, a running turn finds its answer at the end, and a retry that nothing
\* interferes with finds its prompt once, whatever is undone, redone, deleted and retried
\* while a turn waits.
THEOREM ConversationInOrder == Spec => []HInv
<1>1. Init => RetryInv
  BY HistoryAssumption, RetryInit
<1>2. OrderInv /\ OrderInv' /\ RetryInv /\ [Next]_vars => RetryInv'
  <2> SUFFICES ASSUME OrderInv, OrderInv', RetryInv, [Next]_vars PROVE RetryInv'
    OBVIOUS
  <2>1. TypeOK /\ TypeOK'
    BY DEF OrderInv
  <2>2. PromptsAsked' /\ SystemFirst'
    BY <2>1, HistoryAssumption, PromptsStep DEF RetryInv
  <2>3. OwnRetries'
    BY <2>1, HistoryAssumption, OwnRetriesStep DEF RetryInv
  <2> QED BY <2>2, <2>3 DEF RetryInv
<1>3. Spec => []OrderInv
  BY ConversationOrder
<1>4. OrderInv /\ RetryInv => HInv
  BY DEF HInv
<1> QED BY <1>1, <1>2, <1>3, <1>4, PTL DEF Spec

\* A retry that nothing interferes with in its 50 ms resends its own prompt, or resumes
\* its own turn, and no other prompt is touched (RetryResends).
THEOREM RetryResendsItsPrompt == Spec => RetryResends
<1> DEFINE Resends ==
      Len(retries') < Len(retries) /\ Head(retries).own /\ Head(retries).input # NoInput =>
        LET p == Head(retries).input
        IN  /\ Last(queue') \in {p, NoInput}
            /\ Copies(p, history', queue') = 1
            /\ \A q \in Prompt \ {p} : Copies(q, history', queue') = Copies(q, history, queue)
<1>1. HInv /\ [Next]_vars => [Resends]_vars
  <2> SUFFICES ASSUME HInv, [Next]_vars, Len(retries') < Len(retries),
                      Head(retries).own, Head(retries).input # NoInput
               PROVE  LET p == Head(retries).input
                      IN  /\ Last(queue') \in {p, NoInput}
                          /\ Copies(p, history', queue') = 1
                          /\ \A q \in Prompt \ {p} :
                               Copies(q, history', queue') = Copies(q, history, queue)
    OBVIOUS
  <2>1. TypeOK /\ OwnRetries
    BY DEF HInv, OrderInv, RetryInv
  <2>2. TypeOK' /\ Len(retries) \in Nat
    BY <2>1, HistoryAssumption, TypeStep, SpoiledFacts
  <2>3. Len(retries') \in Nat
    BY <2>2, LenProperties DEF TypeOK
  <2>4. RetryNow /\ retries # <<>>
    BY <2>1, <2>2, <2>3, HistoryAssumption, RetriesStep DEF RetryResumes
  <2>5. Head(retries) = retries[1] /\ 1 \in DOMAIN retries
    <3>1. retries \in Seq(Retry)
      BY <2>1 DEF TypeOK
    <3>2. Len(retries) # 0
      BY <2>4, <3>1, EmptySeq
    <3> QED BY <2>1, <2>2, <3>2, SpoiledFacts
  <2> DEFINE p == retries[1].input
  <2>6. /\ p \in Input /\ p # NoInput
        /\ Copies(p, history, queue) = 1
        /\ \/ PromptOf(From(history, Left(history) + 1)) = p
           \/ Is(LastMessage, "tool") \/ Declares(LastMessage)
    BY <2>1, <2>5, SpoiledFacts DEF OwnRetries
  <2> HIDE DEF p
  <2>7. /\ Last(queue') \in {p, NoInput}
        /\ Copies(p, history', queue') = 1
        /\ \A q \in Prompt \ {p} : Copies(q, history', queue') = Copies(q, history, queue)
    BY <2>4, <2>6, HistoryAssumption, OwnRetryResends
  <2> QED BY <2>5, <2>7 DEF p
<1>2. Spec => []HInv
  BY ConversationInOrder
<1> QED BY <1>1, <1>2, PTL DEF Spec, RetryResends
=============================================================================
