------------------------ MODULE PluginServiceProofs ------------------------
(***************************************************************************)
(* Safety of a plugin service for every number of pods and requests, every *)
(* configuration and every queue limit; first, what the operations of its  *)
(* request queue return, for every queue and assignment of priorities.     *)
(***************************************************************************)
EXTENDS PluginService, FiniteSetTheorems, SequenceTheorems,
        WellFoundedInduction, TLAPS

(* A nonempty set of naturals has a least element: of the intervals 1..i   *)
(* its elements span, take one that is minimal for inclusion.              *)
LEMMA LeastElement ==
  ASSUME NEW S \in SUBSET Nat, S # {}
  PROVE  \E i \in S : \A j \in S : i <= j
<1> DEFINE I == {1..i : i \in S}
           R == StrictSubsetOrdering(Nat)
<1>1. I # {} /\ I \subseteq FiniteSubsetsOf(Nat)
  <2>1. ASSUME NEW i \in S PROVE 1..i \in FiniteSubsetsOf(Nat)
    BY <2>1, FS_Interval DEF FiniteSubsetsOf
  <2> QED BY <2>1
<1>2. IsWellFoundedOn(R, FiniteSubsetsOf(Nat))
  BY FS_StrictSubsetOrderingWellFounded
<1>3. PICK x \in I : \A y \in I : <<y, x>> \notin R
  BY <1>1, <1>2, WFMin
<1>4. PICK i \in S : x = 1..i
  BY <1>3
<1>5. ASSUME NEW j \in S, j < i PROVE FALSE
  <2>1. 1..j \in I /\ 1..j \in SUBSET Nat /\ x \in SUBSET Nat
    BY <1>4
  <2>2. 1..j \subseteq x /\ i \in x /\ i \notin 1..j
    BY <1>4, <1>5
  <2>3. <<1..j, x>> \in R
    BY <2>1, <2>2 DEF StrictSubsetOrdering
  <2> QED BY <1>3, <2>1, <2>3
<1> QED BY <1>5

(* The index insertByPriority finds is in bounds, every request before it  *)
(* outranks or equals the new one, and the one at it is outranked.         *)
LEMMA InsertIndexBounds ==
  ASSUME NEW q \in Seq(Requests), NEW r \in Requests
  PROVE  /\ InsertIndex(q, r) \in 1..(Len(q) + 1)
         /\ \A i \in 1..Len(q) : i < InsertIndex(q, r) => Priority[q[i]] >= Priority[r]
         /\ InsertIndex(q, r) <= Len(q) => Priority[r] > Priority[q[InsertIndex(q, r)]]
<1> DEFINE O == Outranked(q, r)
<1>1. O \subseteq 1..Len(q) /\ Len(q) \in Nat
  BY DEF Outranked
<1>2. \A i \in 1..Len(q) : q[i] \in Requests
  OBVIOUS
<1>3. \A i \in 1..Len(q) : i \notin O => Priority[q[i]] >= Priority[r]
  BY <1>2, QueueAssumption DEF Outranked
<1>4. CASE O = {}
  BY <1>1, <1>3, <1>4 DEF InsertIndex
<1>5. CASE O # {}
  <2> DEFINE k == CHOOSE i \in O : \A j \in O : i <= j
  <2>1. O \in SUBSET Nat
    BY <1>1
  <2>2. k \in O /\ \A j \in O : k <= j
    BY <1>5, <2>1, LeastElement
  <2>3. InsertIndex(q, r) = k
    BY <1>5 DEF InsertIndex
  <2>4. Priority[r] > Priority[q[k]]
    BY <2>2 DEF Outranked
  <2>5. \A i \in 1..Len(q) : i < k => i \notin O
    BY <1>1, <2>2
  <2> HIDE DEF k, O
  <2> QED BY <1>1, <1>3, <2>2, <2>3, <2>4, <2>5
<1> QED BY <1>4, <1>5

(* Inserting a request makes the queue longer by it and keeps the others.  *)
LEMMA InsertByPriorityType ==
  ASSUME NEW q \in Seq(Requests), NEW r \in Requests
  PROVE  /\ InsertByPriority(q, r) \in Seq(Requests)
         /\ Len(InsertByPriority(q, r)) = Len(q) + 1
<1> DEFINE k == InsertIndex(q, r)
           n == Len(q) + 1
           e(i) == IF i < k THEN q[i] ELSE IF i = k THEN r ELSE q[i - 1]
<1>1. k \in 1..n /\ n \in Nat
  BY InsertIndexBounds
<1>2. \A i \in 1..Len(q) : q[i] \in Requests
  OBVIOUS
<1>3. \A i \in 1..n : e(i) \in Requests
  BY <1>1, <1>2
<1>4. InsertByPriority(q, r) = [i \in 1..n |-> e(i)]
  BY DEF InsertByPriority
<1> HIDE DEF k, e
<1>5. [i \in 1..n |-> e(i)] \in Seq(Requests) /\ Len([i \in 1..n |-> e(i)]) = n
  BY <1>1, <1>3
<1> QED BY <1>4, <1>5

(* insertByPriority keeps the queue in priority order.                     *)
THEOREM InsertKeepsOrder ==
  ASSUME NEW q \in Seq(Requests), NEW r \in Requests, SortedByPriority(q)
  PROVE  SortedByPriority(InsertByPriority(q, r))
<1> DEFINE k == InsertIndex(q, r)
           s == InsertByPriority(q, r)
<1>1. /\ k \in 1..(Len(q) + 1) /\ Len(q) \in Nat
      /\ Len(s) = Len(q) + 1
  BY InsertIndexBounds, InsertByPriorityType
<1>2. \A i \in 1..Len(q) : q[i] \in Requests
  OBVIOUS
<1>3. \A x \in Requests : Priority[x] \in Nat
  BY QueueAssumption
<1>4. \A i \in 1..(Len(q) + 1) :
        /\ i < k => s[i] = q[i]
        /\ i = k => s[i] = r
        /\ i > k => s[i] = q[i - 1]
  BY <1>1 DEF InsertByPriority
<1>5. /\ \A i \in 1..Len(q) : i < k => Priority[q[i]] >= Priority[r]
      /\ k <= Len(q) => Priority[r] > Priority[q[k]]
  BY InsertIndexBounds
<1>6. \A i \in 1..Len(q) : i >= k => Priority[r] >= Priority[q[i]]
  <2> SUFFICES ASSUME NEW i \in 1..Len(q), i >= k
               PROVE  Priority[r] >= Priority[q[i]]
    OBVIOUS
  <2>1. k \in 1..Len(q) /\ Priority[r] > Priority[q[k]]
    BY <1>1, <1>5
  <2>2. Priority[q[k]] >= Priority[q[i]]
    <3>1. CASE i = k
      BY <3>1, <1>2, <1>3, <2>1
    <3>2. CASE k < i
      BY <3>2, <2>1 DEF SortedByPriority
    <3> QED BY <3>1, <3>2, <1>1
  <2> QED BY <2>1, <2>2, <1>2, <1>3
<1> HIDE DEF k, s
<1>7. ASSUME NEW i \in 1..(Len(q) + 1), NEW j \in 1..(Len(q) + 1), i < j
      PROVE  Priority[s[i]] >= Priority[s[j]]
  <2>1. CASE j < k
    BY <1>1, <1>4, <1>7, <2>1 DEF SortedByPriority
  <2>2. CASE j = k
    <3>1. s[i] = q[i] /\ s[j] = r /\ i \in 1..Len(q)
      BY <1>1, <1>4, <1>7, <2>2
    <3> QED BY <3>1, <1>5, <1>7, <2>2
  <2>3. CASE i = k
    <3>1. s[i] = r /\ s[j] = q[j - 1] /\ j - 1 \in 1..Len(q) /\ j - 1 >= k
      BY <1>1, <1>4, <1>7, <2>3
    <3> QED BY <3>1, <1>6
  <2>4. CASE i < k /\ j > k
    <3>1. s[i] = q[i] /\ s[j] = q[j - 1] /\ i \in 1..Len(q) /\ j - 1 \in 1..Len(q)
      BY <1>1, <1>4, <1>7, <2>4
    <3>2. Priority[q[i]] >= Priority[r] /\ Priority[r] >= Priority[q[j - 1]]
      BY <1>1, <1>5, <1>6, <2>4, <3>1
    <3> QED BY <3>1, <3>2, <1>2, <1>3
  <2>5. CASE i > k
    <3>1. s[i] = q[i - 1] /\ s[j] = q[j - 1] /\ i - 1 \in 1..Len(q)
          /\ j - 1 \in 1..Len(q) /\ i - 1 < j - 1
      BY <1>1, <1>4, <1>7, <2>5
    <3> QED BY <3>1 DEF SortedByPriority
  <2> QED BY <1>1, <2>1, <2>2, <2>3, <2>4, <2>5
<1> QED BY <1>1, <1>7 DEF SortedByPriority, s

(* Taking the head, which is what shift() does, keeps type and order.      *)
LEMMA TailType ==
  ASSUME NEW q \in Seq(Requests), q # <<>>
  PROVE  /\ Head(q) \in Requests /\ Tail(q) \in Seq(Requests)
         /\ Len(Tail(q)) = Len(q) - 1
         /\ Len(q) >= 1
         /\ \A i \in 1..Len(Tail(q)) : Tail(q)[i] = q[i + 1]
<1>1. Len(q) \in Nat /\ Len(q) >= 1
  BY EmptySeq
<1> QED BY <1>1, HeadTailProperties

(* The queue stays in priority order when processQueue takes its head.     *)
THEOREM TailKeepsOrder ==
  ASSUME NEW q \in Seq(Requests), q # <<>>, SortedByPriority(q)
  PROVE  SortedByPriority(Tail(q))
<1>1. /\ Len(Tail(q)) = Len(q) - 1 /\ Len(q) \in Nat
      /\ \A i \in 1..Len(Tail(q)) : Tail(q)[i] = q[i + 1]
  BY TailType
<1>2. \A i, j \in 1..Len(Tail(q)) :
        i < j => i + 1 \in 1..Len(q) /\ j + 1 \in 1..Len(q) /\ i + 1 < j + 1
  BY <1>1
<1> QED BY <1>1, <1>2 DEF SortedByPriority

(* remove(requestId) of a waiting request: one element less, the others    *)
(* in their order.                                                         *)
LEMMA WithoutType ==
  ASSUME NEW q \in Seq(Requests), NEW r \in Queued(q)
  PROVE  /\ Without(q, r) \in Seq(Requests)
         /\ Len(Without(q, r)) = Len(q) - 1
         /\ Position(q, r) \in 1..Len(q)
         /\ \A i \in 1..(Len(q) - 1) :
              Without(q, r)[i] = IF i < Position(q, r) THEN q[i] ELSE q[i + 1]
<1> DEFINE k == Position(q, r)
           n == Len(q) - 1
           e(i) == IF i < k THEN q[i] ELSE q[i + 1]
<1>1. \E i \in 1..Len(q) : q[i] = r
  BY DEF Queued
<1>2. k \in 1..Len(q)
  BY <1>1 DEF Position
<1>3. Len(q) \in Nat /\ n \in Nat
  BY <1>2
<1>4. \A i \in 1..Len(q) : q[i] \in Requests
  OBVIOUS
<1>5. Without(q, r) = [i \in 1..n |-> e(i)]
  BY DEF Without
<1>6. \A i \in 1..n : i \in 1..Len(q) /\ i + 1 \in 1..Len(q)
  BY <1>3
<1>7. \A i \in 1..n : e(i) \in Requests
  BY <1>4, <1>6
<1> HIDE DEF k
<1>8. [i \in 1..n |-> e(i)] \in Seq(Requests) /\ Len([i \in 1..n |-> e(i)]) = n
  <2> HIDE DEF e, n
  <2> QED BY <1>3, <1>7
<1>9. \A i \in 1..n : Without(q, r)[i] = e(i)
  BY <1>5
<1> QED BY <1>2, <1>5, <1>8, <1>9 DEF k

(* A timeout in the middle of the queue leaves the rest in order.          *)
THEOREM WithoutKeepsOrder ==
  ASSUME NEW q \in Seq(Requests), NEW r \in Queued(q), SortedByPriority(q)
  PROVE  SortedByPriority(Without(q, r))
<1> DEFINE k == Position(q, r)
           w == Without(q, r)
<1>1. /\ Len(q) \in Nat /\ Len(w) = Len(q) - 1 /\ k \in 1..Len(q)
      /\ \A i \in 1..(Len(q) - 1) : w[i] = IF i < k THEN q[i] ELSE q[i + 1]
  BY WithoutType
<1> HIDE DEF k, w
<1>2. ASSUME NEW i \in 1..(Len(q) - 1), NEW j \in 1..(Len(q) - 1), i < j
      PROVE  Priority[w[i]] >= Priority[w[j]]
  <2>1. /\ i \in 1..Len(q) /\ j \in 1..Len(q)
        /\ i + 1 \in 1..Len(q) /\ j + 1 \in 1..Len(q)
        /\ i < j + 1 /\ i + 1 < j + 1
    BY <1>1, <1>2
  <2>2. CASE i < k /\ j < k
    BY <1>1, <1>2, <2>1, <2>2 DEF SortedByPriority
  <2>3. CASE i < k /\ ~(j < k)
    BY <1>1, <1>2, <2>1, <2>3 DEF SortedByPriority
  <2>4. CASE ~(i < k)
    <3>1. ~(j < k)
      BY <1>1, <1>2, <2>4
    <3> QED BY <1>1, <1>2, <2>1, <2>4, <3>1 DEF SortedByPriority
  <2> QED BY <2>2, <2>3, <2>4
<1>3. SortedByPriority(w)
  BY <1>1, <1>2 DEF SortedByPriority
<1> QED BY <1>3 DEF w

-----------------------------------------------------------------------------
(* A request that was not waiting waits once after it was inserted.        *)
THEOREM InsertKeepsDistinct ==
  ASSUME NEW q \in Seq(Requests), NEW r \in Requests, r \notin Queued(q), NoDuplicates(q)
  PROVE  /\ NoDuplicates(InsertByPriority(q, r))
         /\ Queued(InsertByPriority(q, r)) = Queued(q) \cup {r}
<1> DEFINE k == InsertIndex(q, r)
           s == InsertByPriority(q, r)
<1>1. k \in 1..(Len(q) + 1) /\ Len(q) \in Nat /\ Len(s) = Len(q) + 1
  BY InsertIndexBounds, InsertByPriorityType
<1>2. \A i \in 1..(Len(q) + 1) :
        /\ i < k => s[i] = q[i] /\ i \in 1..Len(q)
        /\ i = k => s[i] = r
        /\ i > k => s[i] = q[i - 1] /\ i - 1 \in 1..Len(q)
  BY <1>1 DEF InsertByPriority
<1> HIDE DEF k, s
<1>3. \A i \in 1..Len(q) : q[i] # r
  BY DEF Queued
<1>4. NoDuplicates(s)
  <2> SUFFICES ASSUME NEW i \in 1..(Len(q) + 1), NEW j \in 1..(Len(q) + 1), s[i] = s[j]
               PROVE  i = j
    BY <1>1 DEF NoDuplicates
  <2>1. CASE i < k
    BY <1>1, <1>2, <1>3, <2>1 DEF NoDuplicates
  <2>2. CASE i = k
    <3>1. s[j] = r
      BY <1>2, <2>2
    <3>2. ~(j < k) /\ ~(j > k)
      BY <1>2, <1>3, <3>1
    <3> QED BY <1>1, <2>2, <3>2
  <2>3. CASE i > k
    BY SMTT(30), <1>1, <1>2, <1>3, <2>3 DEF NoDuplicates
  <2> QED BY <1>1, <2>1, <2>2, <2>3
<1>5. Queued(s) \subseteq Queued(q) \cup {r}
  BY <1>1, <1>2 DEF Queued
<1>6. ASSUME NEW i \in 1..Len(q) PROVE q[i] \in Queued(s)
  <2>1. CASE i < k
    BY <1>1, <1>2, <2>1 DEF Queued
  <2>2. CASE i >= k
    <3>1. i + 1 \in 1..Len(s) /\ i + 1 > k /\ (i + 1) - 1 = i
      BY <1>1, <2>2
    <3>2. s[i + 1] = q[i]
      BY <1>1, <1>2, <3>1
    <3> QED BY <3>1, <3>2 DEF Queued
  <2> QED BY <1>1, <2>1, <2>2
<1>7. r \in Queued(s)
  BY <1>1, <1>2 DEF Queued
<1>8. Queued(q) \cup {r} \subseteq Queued(s)
  BY <1>6, <1>7 DEF Queued
<1> QED BY <1>4, <1>5, <1>8 DEF s

(* The head that processQueue takes waits no longer, the others do.        *)
THEOREM TailKeepsDistinct ==
  ASSUME NEW q \in Seq(Requests), q # <<>>, NoDuplicates(q)
  PROVE  /\ NoDuplicates(Tail(q))
         /\ Head(q) \in Queued(q)
         /\ Queued(Tail(q)) = Queued(q) \ {Head(q)}
<1>1. /\ Len(Tail(q)) = Len(q) - 1 /\ Len(q) \in Nat /\ Len(q) >= 1
      /\ \A i \in 1..Len(Tail(q)) : Tail(q)[i] = q[i + 1] /\ i + 1 \in 1..Len(q)
      /\ Head(q) = q[1] /\ 1 \in 1..Len(q)
  BY TailType
<1>2. NoDuplicates(Tail(q))
  BY <1>1 DEF NoDuplicates
<1>3. Queued(Tail(q)) \subseteq Queued(q) \ {Head(q)}
  <2> SUFFICES ASSUME NEW i \in 1..Len(Tail(q))
               PROVE  Tail(q)[i] \in Queued(q) /\ Tail(q)[i] # Head(q)
    BY DEF Queued
  <2>1. i + 1 # 1
    BY <1>1
  <2> QED BY <1>1, <2>1 DEF Queued, NoDuplicates
<1>4. ASSUME NEW i \in 1..Len(q), q[i] # Head(q) PROVE q[i] \in Queued(Tail(q))
  <2>1. i - 1 \in 1..Len(Tail(q)) /\ (i - 1) + 1 = i
    BY <1>1, <1>4
  <2> QED BY <1>1, <2>1 DEF Queued
<1>5. Queued(q) \ {Head(q)} \subseteq Queued(Tail(q))
  BY <1>4 DEF Queued
<1> QED BY <1>1, <1>2, <1>3, <1>5 DEF Queued

(* A request that is removed waits no longer, the others do.               *)
THEOREM WithoutKeepsDistinct ==
  ASSUME NEW q \in Seq(Requests), NEW r \in Queued(q), NoDuplicates(q)
  PROVE  /\ NoDuplicates(Without(q, r))
         /\ Queued(Without(q, r)) = Queued(q) \ {r}
<1> DEFINE k == Position(q, r)
           w == Without(q, r)
<1>1. /\ Len(q) \in Nat /\ Len(w) = Len(q) - 1 /\ k \in 1..Len(q) /\ q[k] = r
      /\ \A i \in 1..(Len(q) - 1) :
           /\ i < k => w[i] = q[i]
           /\ ~(i < k) => w[i] = q[i + 1]
  <2>1. \E i \in 1..Len(q) : q[i] = r
    BY DEF Queued
  <2>2. q[Position(q, r)] = r
    BY <2>1 DEF Position
  <2> QED BY <2>2, WithoutType
<1> HIDE DEF k, w
<1>2. \A i \in 1..(Len(q) - 1) : i \in 1..Len(q) /\ i + 1 \in 1..Len(q)
  BY <1>1
<1>3. NoDuplicates(w)
  <2> SUFFICES ASSUME NEW i \in 1..(Len(q) - 1), NEW j \in 1..(Len(q) - 1), w[i] = w[j]
               PROVE  i = j
    BY <1>1 DEF NoDuplicates
  <2>1. CASE i < k
    BY <1>1, <1>2, <2>1 DEF NoDuplicates
  <2>2. CASE ~(i < k)
    BY <1>1, <1>2, <2>2 DEF NoDuplicates
  <2> QED BY <2>1, <2>2
<1>4. ASSUME NEW i \in 1..(Len(q) - 1) PROVE w[i] \in Queued(q) /\ w[i] # r
  <2>1. CASE i < k
    BY <1>1, <1>2, <2>1 DEF Queued, NoDuplicates
  <2>2. CASE ~(i < k)
    BY <1>1, <1>2, <2>2 DEF Queued, NoDuplicates
  <2> QED BY <2>1, <2>2
<1>5. ASSUME NEW i \in 1..Len(q), i # k PROVE q[i] \in Queued(w)
  <2>1. CASE i < k
    BY <1>1, <2>1 DEF Queued
  <2>2. CASE i > k
    <3>1. i - 1 \in 1..Len(w) /\ ~(i - 1 < k) /\ (i - 1) + 1 = i
      BY <1>1, <2>2
    <3> QED BY <1>1, <3>1 DEF Queued
  <2> QED BY <1>1, <1>5, <2>1, <2>2
<1>6. Queued(w) \subseteq Queued(q) \ {r}
  BY <1>1, <1>4 DEF Queued
<1>7. Queued(q) \ {r} \subseteq Queued(w)
  BY ZenonT(60), <1>1, <1>5 DEF Queued
<1> QED BY <1>3, <1>6, <1>7 DEF w

-----------------------------------------------------------------------------
(* In a queue without duplicates an index is the position of its request.  *)
LEMMA PositionIs ==
  ASSUME NEW q \in Seq(Requests), NoDuplicates(q), NEW i \in 1..Len(q)
  PROVE  Position(q, q[i]) = i
<1>1. Position(q, q[i]) \in 1..Len(q) /\ q[Position(q, q[i])] = q[i]
  BY DEF Position
<1> QED BY <1>1 DEF NoDuplicates

(* Inserting a request changes no order, and puts it behind every request  *)
(* that outranks or equals it.                                             *)
THEOREM InsertIsFair ==
  ASSUME NEW q \in Seq(Requests), NEW r \in Requests, r \notin Queued(q), NoDuplicates(q),
         SortedByPriority(q)
  PROVE  /\ \A a, b \in Queued(q) : Position(q, a) < Position(q, b) =>
              Position(InsertByPriority(q, r), a) < Position(InsertByPriority(q, r), b)
         /\ \A a \in Queued(q) : Priority[a] >= Priority[r] =>
              Position(InsertByPriority(q, r), a) < Position(InsertByPriority(q, r), r)
<1> DEFINE k == InsertIndex(q, r)
           s == InsertByPriority(q, r)
<1>1. /\ k \in 1..(Len(q) + 1) /\ Len(q) \in Nat /\ Len(s) = Len(q) + 1
      /\ s \in Seq(Requests) /\ NoDuplicates(s)
  BY InsertIndexBounds, InsertByPriorityType, InsertKeepsDistinct
<1>2. \A i \in 1..(Len(q) + 1) :
        /\ i < k => s[i] = q[i]
        /\ i = k => s[i] = r
        /\ i > k => s[i] = q[i - 1]
  BY <1>1 DEF InsertByPriority
<1>3. k <= Len(q) => Priority[r] > Priority[q[k]]
  BY InsertIndexBounds
<1> HIDE DEF k, s
<1>4. ASSUME NEW i \in 1..Len(q) PROVE Position(s, q[i]) = IF i < k THEN i ELSE i + 1
  <2>1. CASE i < k
    <3>1. i \in 1..Len(s) /\ s[i] = q[i]
      BY <1>1, <1>2, <2>1
    <3>2. Position(s, s[i]) = i
      BY <1>1, <3>1, PositionIs
    <3> QED BY <2>1, <3>1, <3>2
  <2>2. CASE ~(i < k)
    <3>1. i + 1 \in 1..Len(s) /\ i + 1 > k /\ (i + 1) - 1 = i
      BY <1>1, <2>2
    <3>2. s[i + 1] = q[i]
      BY <1>1, <1>2, <3>1
    <3>3. Position(s, s[i + 1]) = i + 1
      BY <1>1, <3>1, PositionIs
    <3> QED BY <2>2, <3>2, <3>3
  <2> QED BY <2>1, <2>2
<1>5. Position(s, r) = k
  <2>1. k \in 1..Len(s) /\ s[k] = r
    BY <1>1, <1>2
  <2>2. Position(s, s[k]) = k
    BY <1>1, <2>1, PositionIs
  <2> QED BY <2>1, <2>2
<1>6. ASSUME NEW i \in 1..Len(q), NEW j \in 1..Len(q), Position(q, q[i]) < Position(q, q[j])
      PROVE  Position(s, q[i]) < Position(s, q[j])
  <2>1. i < j
    BY <1>6, PositionIs
  <2> QED BY <1>1, <1>4, <2>1
<1>7. ASSUME NEW i \in 1..Len(q), Priority[q[i]] >= Priority[r]
      PROVE  Position(s, q[i]) < Position(s, r)
  <2>1. i < k
    <3> SUFFICES ASSUME ~(i < k) PROVE FALSE
      OBVIOUS
    <3>1. k \in 1..Len(q) /\ k <= i
      BY <1>1
    <3>2. Priority[q[k]] >= Priority[q[i]]
      <4>1. q[i] \in Requests /\ Priority[q[i]] \in Nat
        BY QueueAssumption
      <4>2. CASE k = i
        BY <4>1, <4>2
      <4>3. CASE k < i
        BY <3>1, <4>3 DEF SortedByPriority
      <4> QED BY <1>1, <3>1, <4>2, <4>3
    <3>3. Priority[r] > Priority[q[k]]
      BY <1>3, <3>1
    <3>4. q[i] \in Requests /\ q[k] \in Requests
      BY <3>1
    <3>5. Priority[r] \in Nat /\ Priority[q[i]] \in Nat /\ Priority[q[k]] \in Nat
      BY <3>4, QueueAssumption
    <3> QED BY <1>7, <3>2, <3>3, <3>5
  <2> QED BY <1>1, <1>4, <1>5, <2>1
<1>8. \A a, b \in Queued(q) : Position(q, a) < Position(q, b) => Position(s, a) < Position(s, b)
  BY <1>6 DEF Queued
<1>9. \A a \in Queued(q) : Priority[a] >= Priority[r] => Position(s, a) < Position(s, r)
  BY <1>7 DEF Queued
<1> QED BY <1>8, <1>9 DEF s

(* Taking the head changes no order.                                       *)
THEOREM TailIsFair ==
  ASSUME NEW q \in Seq(Requests), q # <<>>, NoDuplicates(q)
  PROVE  \A a, b \in Queued(Tail(q)) :
           Position(q, a) < Position(q, b) => Position(Tail(q), a) < Position(Tail(q), b)
<1>1. /\ Len(Tail(q)) = Len(q) - 1 /\ Len(q) \in Nat /\ Tail(q) \in Seq(Requests)
      /\ \A i \in 1..Len(Tail(q)) : Tail(q)[i] = q[i + 1] /\ i + 1 \in 1..Len(q)
      /\ NoDuplicates(Tail(q))
  BY TailType, TailKeepsDistinct
<1>2. ASSUME NEW i \in 1..Len(Tail(q))
      PROVE  Position(Tail(q), Tail(q)[i]) = i /\ Position(q, Tail(q)[i]) = i + 1
  <2>1. Position(Tail(q), Tail(q)[i]) = i
    BY <1>1, PositionIs
  <2>2. Position(q, q[i + 1]) = i + 1
    BY <1>1, PositionIs
  <2> QED BY <1>1, <2>1, <2>2
<1> DEFINE s == Tail(q)
<1> HIDE DEF s
<1>3. ASSUME NEW i \in 1..Len(s), NEW j \in 1..Len(s), Position(q, s[i]) < Position(q, s[j])
      PROVE  Position(s, s[i]) < Position(s, s[j])
  <2>1. \A n \in 1..Len(s) : Position(s, s[n]) = n /\ Position(q, s[n]) = n + 1
    BY <1>2 DEF s
  <2> QED BY <1>3, <2>1
<1>4. \A a, b \in Queued(s) : Position(q, a) < Position(q, b) => Position(s, a) < Position(s, b)
  BY <1>3 DEF Queued
<1> QED BY <1>4 DEF s

(* Removing a request from its place changes no order of the others.       *)
THEOREM WithoutIsFair ==
  ASSUME NEW q \in Seq(Requests), NEW r \in Queued(q), NoDuplicates(q)
  PROVE  \A a, b \in Queued(Without(q, r)) :
           Position(q, a) < Position(q, b) => Position(Without(q, r), a) < Position(Without(q, r), b)
<1> DEFINE k == Position(q, r)
           w == Without(q, r)
<1>1. /\ Len(q) \in Nat /\ Len(w) = Len(q) - 1 /\ k \in 1..Len(q)
      /\ w \in Seq(Requests) /\ NoDuplicates(w)
      /\ \A i \in 1..(Len(q) - 1) : w[i] = IF i < k THEN q[i] ELSE q[i + 1]
  BY WithoutType, WithoutKeepsDistinct
<1> HIDE DEF k, w
<1>2. ASSUME NEW i \in 1..Len(w)
      PROVE  Position(w, w[i]) = i /\ Position(q, w[i]) = IF i < k THEN i ELSE i + 1
  <2>1. Position(w, w[i]) = i
    BY <1>1, PositionIs
  <2>2. i \in 1..Len(q) /\ i + 1 \in 1..Len(q) /\ i \in 1..(Len(q) - 1)
    BY <1>1
  <2>3. Position(q, q[i]) = i /\ Position(q, q[i + 1]) = i + 1
    BY <2>2, PositionIs
  <2> QED BY <1>1, <2>1, <2>2, <2>3
<1>3. ASSUME NEW i \in 1..Len(w), NEW j \in 1..Len(w), Position(q, w[i]) < Position(q, w[j])
      PROVE  Position(w, w[i]) < Position(w, w[j])
  BY <1>1, <1>2, <1>3
<1>4. \A a, b \in Queued(w) : Position(q, a) < Position(q, b) => Position(w, a) < Position(w, b)
  BY <1>3 DEF Queued
<1> QED BY <1>4 DEF w

-----------------------------------------------------------------------------
(* The loop of processQueue is entered, and gone through again, only with  *)
(* a request waiting: its shift() is never applied to an empty queue.      *)
LoopHasWork == turn = "drain" => queue # <<>>

(* A request that awaits a pod or runs on one names it.                    *)
Hosted ==
  \A r \in Requests : req[r] \in {"starting", "running", "streaming"} => on[r] \in Pods

TypeInv == TypeOK /\ LoopHasWork /\ Hosted

(* The initial state has its types.                                        *)
LEMMA InitTypes == Init => TypeInv
<1> SUFFICES ASSUME Init PROVE TypeInv
  OBVIOUS
<1>1. PodTypeOK
  BY ConfigAssumption DEF Init, PodTypeOK, Status, Config
<1>2. FleetTypeOK
  BY DEF Init, FleetTypeOK
<1>3. ServiceTypeOK
  BY DEF Init, ServiceTypeOK, NoUpdate, UpdateRecord
<1>4. RequestTypeOK /\ LoopHasWork /\ Hosted
  BY QueueAssumption DEF Init, RequestTypeOK, LoopHasWork, Hosted, ReqState
<1> QED BY <1>1, <1>2, <1>3, <1>4 DEF TypeInv, TypeOK

(* A configuration in use has a positive concurrency.                      *)
LEMMA ConfigType ==
  ASSUME NEW c \in Configs \cup {InitialConfig}
  PROVE  /\ c \in Config /\ c.minPods \in Nat /\ c.maxPods \in Nat \ {0}
         /\ c.concurrency \in Nat \ {0} /\ c.minPods <= c.maxPods
BY ConfigAssumption DEF Config

(* createPod gives the pods it makes their types.                          *)
LEMMA LaunchTypes ==
  ASSUME PodTypeOK, FleetTypeOK,
         NEW S \in SUBSET Pods, NEW al \in SUBSET Pods, NEW st \in [Pods -> Status],
         NEW lim \in [Pods -> Nat \ {0}], NEW c \in Configs \cup {InitialConfig},
         Launch(S, al, st, lim, c)
  PROVE  /\ pending' \subseteq Pods /\ alive' \subseteq Pods /\ connected' \subseteq Pods
         /\ status' \in [Pods -> Status] /\ limit' \in [Pods -> Nat \ {0}]
<1>1. c.concurrency \in Nat \ {0}
  BY ConfigType
<1> QED BY <1>1 DEF Launch, PodTypeOK, FleetTypeOK, Status

(* The pods createPod may make, alone or for ensureMinPods.                *)
LEMMA LaunchAny ==
  ASSUME TypeOK,
         NEW al \in SUBSET Pods, NEW st \in [Pods -> Status],
         NEW lim \in [Pods -> Nat \ {0}], NEW c \in Configs \cup {InitialConfig},
         NEW fl, NEW S, S \in EnsureSets(fl, c) \/ \E p \in Fresh : S = {p},
         Launch(S, al, st, lim, c)
  PROVE  /\ S \subseteq Pods
         /\ pending' \subseteq Pods /\ alive' \subseteq Pods /\ connected' \subseteq Pods
         /\ status' \in [Pods -> Status] /\ limit' \in [Pods -> Nat \ {0}]
<1>1. S \in SUBSET Pods
  BY DEF EnsureSets, Fresh
<1> QED BY <1>1, LaunchTypes DEF TypeOK

(* A call that awaits the creation of pods is one more record in ensures.  *)
LEMMA AwaitAllType ==
  ASSUME FleetTypeOK, NEW S \in SUBSET Pods, NEW next \in Then, AwaitAll(S, next)
  PROVE  ensures' \subseteq [creates : SUBSET Pods, then : Then]
BY DEF AwaitAll, FleetTypeOK

(* executeRequest keeps the types and puts the request on a pod.           *)
LEMMA ExecuteTypes ==
  ASSUME PodTypeOK, RequestTypeOK, Hosted, NEW r \in Requests, NEW p \in Pods, Execute(r, p)
  PROVE  /\ req' \in [Requests -> ReqState] /\ on' \in [Requests -> Pods \cup {NoPod}]
         /\ status' \in [Pods -> Status] /\ active' \in [Pods -> Nat]
         /\ Hosted'
BY DEF Execute, PodTypeOK, RequestTypeOK, Hosted, ReqState, Status

(* An answered request has a type and is no longer on a pod.               *)
LEMMA SettleTypes ==
  ASSUME RequestTypeOK, Hosted, NEW r \in Requests,
         NEW outcome \in {"done", "failed"}, Settle(r, outcome)
  PROVE  /\ req' \in [Requests -> ReqState] /\ on' \in [Requests -> Pods \cup {NoPod}]
         /\ sessions' \subseteq Requests
         /\ Hosted'
BY DEF Settle, RequestTypeOK, Hosted, ReqState

(* What selectAvailablePod and createPod choose from are pods.             *)
LEMMA CandidatesArePods ==
  ASSUME TypeOK
  PROVE  LeastLoaded \subseteq Pods /\ Selectable \subseteq fleet \ retiring /\ Fresh \subseteq Pods
BY DEF TypeOK, FleetTypeOK, LeastLoaded, Selectable, Fresh

(* Each way an invocation begins keeps the types.                          *)
LEMMA InvokeTypes ==
  ASSUME TypeInv, NEW r \in Requests, Invoke(r)
  PROVE  TypeInv'
<1> USE DEF TypeInv, TypeOK, LoopHasWork, podVars, fleetVars, startVars, lifeVars, confVars
<1>1. CASE InvokeForwarded(r)
  BY <1>1
  DEF InvokeForwarded, PodTypeOK, FleetTypeOK, ServiceTypeOK, RequestTypeOK, Hosted, ReqState
<1>2. CASE InvokeRefused(r)
  BY <1>2
  DEF InvokeRefused, PodTypeOK, FleetTypeOK, ServiceTypeOK, RequestTypeOK, Hosted, ReqState
<1>3. CASE InvokeOnPod(r)
  <2>1. PICK p \in Pods : Execute(r, p)
    BY <1>3, CandidatesArePods DEF InvokeOnPod
  <2>2. /\ req' \in [Requests -> ReqState] /\ on' \in [Requests -> Pods \cup {NoPod}]
        /\ status' \in [Pods -> Status] /\ active' \in [Pods -> Nat]
        /\ Hosted'
    BY <2>1, ExecuteTypes
  <2> QED
    BY <1>3, <2>2 DEF InvokeOnPod, PodTypeOK, FleetTypeOK, ServiceTypeOK, RequestTypeOK
<1>4. CASE InvokeColdStart(r)
  <2>1. PICK p \in Fresh : /\ Launch({p}, alive, status, limit, config)
                           /\ req' = [req EXCEPT ![r] = "starting"]
                           /\ on' = [on EXCEPT ![r] = p]
    BY <1>4 DEF InvokeColdStart
  <2>2. /\ pending' \subseteq Pods /\ alive' \subseteq Pods /\ connected' \subseteq Pods
        /\ status' \in [Pods -> Status] /\ limit' \in [Pods -> Nat \ {0}]
    BY <2>1, LaunchAny DEF PodTypeOK, ServiceTypeOK
  <2>3. RequestTypeOK' /\ Hosted'
    BY <1>4, <2>1, CandidatesArePods DEF InvokeColdStart, RequestTypeOK, Hosted, ReqState
  <2>4. PodTypeOK' /\ FleetTypeOK' /\ ServiceTypeOK' /\ LoopHasWork'
    BY <1>4, <2>2 DEF InvokeColdStart, PodTypeOK, FleetTypeOK, ServiceTypeOK
  <2> QED BY <2>3, <2>4
<1>5. CASE InvokeBlocked(r)
  <2>1. RequestTypeOK' /\ Hosted'
    BY <1>5, SettleTypes DEF InvokeBlocked, RequestTypeOK
  <2> QED BY <1>5, <2>1 DEF InvokeBlocked, PodTypeOK, FleetTypeOK, ServiceTypeOK
<1>6. CASE InvokeQueued(r)
  <2>1. queue' \in Seq(Requests) /\ Len(queue') = Len(queue) + 1 /\ Len(queue) \in Nat
    BY <1>6, InsertByPriorityType DEF InvokeQueued, RequestTypeOK
  <2>2. Len(queue') <= MaxQueueSize
    BY <1>6, <2>1, QueueAssumption DEF InvokeQueued, HasRoom
  <2>3. RequestTypeOK' /\ Hosted'
    BY <1>6, <2>1, <2>2 DEF InvokeQueued, RequestTypeOK, Hosted, ReqState
  <2>4. turn' \in {"idle", "drain"} /\ LoopHasWork'
    BY <1>6 DEF InvokeQueued, ProcessQueue
  <2> QED BY <1>6, <2>3, <2>4 DEF InvokeQueued, PodTypeOK, FleetTypeOK, ServiceTypeOK
<1> QED BY <1>1, <1>2, <1>3, <1>4, <1>5, <1>6 DEF Invoke

(* releasePod keeps the types of everything but the counters.              *)
LEMMA ReleaseTypes ==
  ASSUME TypeInv, turn = "idle", NEW p, NEW st \in Status, NEW ex, Release(p, st, ex),
         queue' = queue, config \in Configs \cup {InitialConfig}
  PROVE  /\ fleet' \subseteq Pods /\ pending' \subseteq Pods /\ retiring' \subseteq Pods
         /\ alive' \subseteq Pods /\ connected' \subseteq Pods
         /\ status' \in [Pods -> Status] /\ limit' \in [Pods -> Nat \ {0}]
         /\ ensures' \subseteq [creates : SUBSET Pods, then : Then]
         /\ turn' \in {"idle", "drain"} /\ LoopHasWork'
<1> USE DEF TypeInv, TypeOK, LoopHasWork, fleetVars
<1>1. CASE PodRecycled(p, st, ex)
  <2> DEFINE dying == [status EXCEPT ![p] = "terminating"]
  <2>1. dying \in [Pods -> Status]
    BY DEF PodTypeOK, Status
  <2>2. PICK S \in EnsureSets(fleet \ {p}, config) :
          Launch(S, alive, dying, limit, config) /\ AwaitAll(S, "queue")
    BY <1>1 DEF PodRecycled
  <2> HIDE DEF dying
  <2>3. /\ S \subseteq Pods
        /\ pending' \subseteq Pods /\ alive' \subseteq Pods /\ connected' \subseteq Pods
        /\ status' \in [Pods -> Status] /\ limit' \in [Pods -> Nat \ {0}]
    BY <2>1, <2>2, LaunchAny DEF PodTypeOK
  <2>4. ensures' \subseteq [creates : SUBSET Pods, then : Then]
    BY <2>2, <2>3, AwaitAllType DEF Then
  <2> QED BY <1>1, <2>3, <2>4 DEF PodRecycled, FleetTypeOK
<1>2. CASE PodReturned(p, st, ex)
  BY <1>2 DEF PodReturned, PodTypeOK, FleetTypeOK
<1> QED BY <1>1, <1>2 DEF Release

(* Every answer, failure, stream event and timeout keeps the types.        *)
LEMMA RequestStepTypes ==
  ASSUME TypeInv, NEW r \in Requests, RequestStep(r)
  PROVE  TypeInv'
<1> USE DEF TypeInv, TypeOK, LoopHasWork, startVars, lifeVars, confVars
<1> DEFINE p == on[r]
<1>1. turn = "idle" /\ config \in Configs \cup {InitialConfig}
  BY DEF RequestStep, QueueTimeout, RequestSucceeds, RequestFails, StreamOpens, StreamCloses,
         StreamTimesOut, Event, Quiet, ServiceTypeOK
<1>2. ASSUME req[r] \in {"running", "streaming"}
      PROVE  p \in Pods /\ CompletedStatus(p) \in Status /\ KilledStatus(p) \in Status
  <2>1. p \in Pods
    BY <1>2 DEF Hosted
  <2> QED BY <2>1 DEF CompletedStatus, KilledStatus, PodTypeOK, Status
<1>3. ASSUME p \in Pods, CompletesOn(p) PROVE active' \in [Pods -> Nat]
  BY <1>3 DEF CompletesOn, PodTypeOK
<1>4. CASE QueueTimeout(r)
  <2>1. queue' \in Seq(Requests) /\ Len(queue') = Len(queue) - 1 /\ Len(queue) \in Nat
    BY <1>4, WithoutType DEF QueueTimeout, RequestTypeOK
  <2>2. RequestTypeOK' /\ Hosted'
    BY <1>4, <2>1, SettleTypes, QueueAssumption DEF QueueTimeout, RequestTypeOK
  <2> QED
    BY <1>1, <1>4, <2>2 DEF QueueTimeout, podVars, fleetVars, PodTypeOK, FleetTypeOK, ServiceTypeOK
<1>5. CASE StreamOpens(r)
  <2>1. p \in Pods /\ req[r] = "running"
    BY <1>2, <1>5 DEF StreamOpens
  <2>2. RequestTypeOK' /\ Hosted'
    BY <1>5, <2>1 DEF StreamOpens, RequestTypeOK, Hosted, ReqState
  <2>3. executed' \in [Pods -> Nat]
    BY <1>5, <2>1 DEF StreamOpens, PodTypeOK
  <2> QED
    BY <1>1, <1>5, <2>2, <2>3
    DEF StreamOpens, fleetVars, PodTypeOK, FleetTypeOK, ServiceTypeOK
<1>6. ASSUME NEW st \in Status, NEW ex, Release(p, st, ex), p \in Pods, CompletesOn(p),
             executed' \in [Pods -> Nat], NEW outcome \in {"done", "failed"},
             Settle(r, outcome), UNCHANGED <<queue, startVars, lifeVars, confVars>>
      PROVE  TypeInv'
  <2>1. /\ fleet' \subseteq Pods /\ pending' \subseteq Pods /\ retiring' \subseteq Pods
        /\ alive' \subseteq Pods /\ connected' \subseteq Pods
        /\ status' \in [Pods -> Status] /\ limit' \in [Pods -> Nat \ {0}]
        /\ ensures' \subseteq [creates : SUBSET Pods, then : Then]
        /\ turn' \in {"idle", "drain"} /\ LoopHasWork'
    BY <1>1, <1>6, ReleaseTypes
  <2>2. RequestTypeOK' /\ Hosted'
    BY <1>6, SettleTypes DEF RequestTypeOK
  <2> QED BY <1>3, <1>6, <2>1, <2>2 DEF PodTypeOK, FleetTypeOK, ServiceTypeOK
<1>7. CASE RequestSucceeds(r)
  <2>1. p \in Pods
    BY <1>2, <1>7 DEF RequestSucceeds
  <2>2. executed' \in [Pods -> Nat]
    BY <1>7, <2>1 DEF RequestSucceeds, PodTypeOK
  <2> QED BY <1>2, <1>6, <1>7, <2>1, <2>2 DEF RequestSucceeds
<1>8. CASE RequestFails(r)
  BY <1>2, <1>6, <1>8 DEF RequestFails, PodTypeOK
<1>9. CASE StreamCloses(r)
  BY <1>2, <1>6, <1>9 DEF StreamCloses, PodTypeOK
<1>10. CASE StreamTimesOut(r)
  BY <1>2, <1>6, <1>10 DEF StreamTimesOut, PodTypeOK
<1> QED BY <1>4, <1>5, <1>7, <1>8, <1>9, <1>10 DEF RequestStep

(* The breaker's rejection empties the queue or changes nothing.           *)
LEMMA RejectTypes ==
  ASSUME RequestTypeOK, Hosted, RejectIfBlocked, on' = on
  PROVE  RequestTypeOK' /\ Hosted' /\ queue' \in {<<>>, queue}
<1>1. CASE StartupBlocked'
  BY <1>1, QueueAssumption DEF RejectIfBlocked, RequestTypeOK, Hosted, ReqState
<1>2. CASE ~StartupBlocked'
  BY <1>2 DEF RejectIfBlocked, RequestTypeOK, Hosted
<1> QED BY <1>1, <1>2

(* processQueue() enters its loop only with a request to serve.            *)
LEMMA ProcessQueueType ==
  ASSUME ProcessQueue
  PROVE  turn' \in {"idle", "drain"} /\ LoopHasWork'
BY DEF ProcessQueue, LoopHasWork

(* A call of ensureMinPods still awaits pods after one has settled.        *)
LEMMA CreationSettlesType ==
  ASSUME FleetTypeOK, NEW p, CreationSettles(p)
  PROVE  ensures' \subseteq [creates : SUBSET Pods, then : Then]
<1>1. PICK e \in ensures : ensures' = (ensures \ {e}) \cup {[e EXCEPT !.creates = @ \ {p}]}
  BY DEF CreationSettles, AwaitedByEnsure
<1>2. e \in [creates : SUBSET Pods, then : Then]
  BY DEF FleetTypeOK
<1>3. [e EXCEPT !.creates = @ \ {p}] \in [creates : SUBSET Pods, then : Then]
  BY <1>2
<1> QED BY <1>1, <1>3 DEF FleetTypeOK

(* A start that succeeded keeps the types, whoever awaited it.             *)
LEMMA PodReadyTypes ==
  ASSUME TypeInv, NEW p \in Pods,
         \/ PodReadyForInvoke(p) \/ PodReadyForQueue(p)
         \/ PodReadyForEnsure(p) \/ PodReadyForRoll(p)
  PROVE  TypeInv'
<1> USE DEF TypeInv, TypeOK
<1>1. ASSUME Joins(p)
      PROVE  /\ fleet' \subseteq Pods /\ pending' \subseteq Pods /\ retiring' \subseteq Pods
             /\ failures' \in Nat /\ disabled' \in BOOLEAN /\ coolingDown' \in BOOLEAN
             /\ retryTimer' \in BOOLEAN /\ turn = "idle"
             /\ UNCHANGED <<executed, limit, alive, connected, config>>
  BY <1>1 DEF Joins, Event, Quiet, FleetTypeOK
<1>2. ASSUME JoinsIdle(p)
      PROVE  PodTypeOK' /\ RequestTypeOK' /\ Hosted'
  BY <1>1, <1>2 DEF JoinsIdle, PodTypeOK, RequestTypeOK, Hosted, Status
<1>3. CASE PodReadyForInvoke(p)
  <2>1. PICK r \in Requests : Execute(r, p)
    BY <1>3 DEF PodReadyForInvoke, AwaitedByInvoke
  <2>2. /\ req' \in [Requests -> ReqState] /\ on' \in [Requests -> Pods \cup {NoPod}]
        /\ status' \in [Pods -> Status] /\ active' \in [Pods -> Nat]
        /\ Hosted'
    BY <2>1, ExecuteTypes
  <2> QED
    BY <1>1, <1>3, <2>2
    DEF PodReadyForInvoke, lifeVars, PodTypeOK, FleetTypeOK, ServiceTypeOK, RequestTypeOK, LoopHasWork
<1>4. CASE PodReadyForQueue(p)
  BY <1>1, <1>2, <1>4, ProcessQueueType
  DEF PodReadyForQueue, JoinsIdle, lifeVars, FleetTypeOK, ServiceTypeOK
<1>5. CASE PodReadyForEnsure(p)
  BY <1>1, <1>2, <1>5, CreationSettlesType
  DEF PodReadyForEnsure, JoinsIdle, lifeVars, FleetTypeOK, ServiceTypeOK, LoopHasWork
<1>6. CASE PodReadyForRoll(p)
  <2>1. update' \in UpdateRecord
    BY <1>6 DEF PodReadyForRoll, ServiceTypeOK, UpdateRecord
  <2> QED
    BY <1>1, <1>2, <1>6, <2>1
    DEF PodReadyForRoll, JoinsIdle, lifeVars, FleetTypeOK, ServiceTypeOK, LoopHasWork
<1> QED BY <1>3, <1>4, <1>5, <1>6

(* A start that failed keeps the types, whoever awaited it.                *)
LEMMA StartFailedTypes ==
  ASSUME TypeInv, NEW p \in Pods,
         \/ StartFailedForInvoke(p) \/ StartFailedForQueue(p)
         \/ StartFailedForEnsure(p) \/ StartFailedForRoll(p)
  PROVE  TypeInv'
<1> USE DEF TypeInv, TypeOK
<1>1. /\ fleet' \subseteq Pods /\ pending' \subseteq Pods /\ retiring' \subseteq Pods
      /\ failures' \in Nat /\ disabled' \in BOOLEAN /\ coolingDown' \in BOOLEAN
      /\ retryTimer' \in BOOLEAN
      /\ turn = "idle" /\ PodTypeOK' /\ config' = config
  <2>1. StartFailed(p)
    BY DEF StartFailedForInvoke, StartFailedForQueue, StartFailedForEnsure, StartFailedForRoll
  <2>2. turn = "idle" /\ status' \in [Pods -> Status]
    BY <2>1 DEF StartFailed, StartRejected, StartTimedOut, Event, Quiet, PodTypeOK, Status
  <2>3. /\ failures' \in Nat /\ disabled' \in BOOLEAN /\ coolingDown' \in BOOLEAN
        /\ retryTimer' \in BOOLEAN
    <3>1. CASE StartRejected(p)
      <4>1. failures' \in Nat
        BY <3>1 DEF StartRejected, RecordFailure, FleetTypeOK
      <4>2. disabled' \in BOOLEAN /\ coolingDown' \in BOOLEAN /\ retryTimer' \in BOOLEAN
        BY <3>1, Zenon DEF StartRejected, RecordFailure, FleetTypeOK
      <4> QED BY <4>1, <4>2
    <3>2. CASE StartTimedOut(p)
      BY <3>2 DEF StartTimedOut, RecordTimeout, FleetTypeOK, ServiceTypeOK
    <3> QED BY <2>1, <3>1, <3>2 DEF StartFailed
  <2> QED BY <2>1, <2>2, <2>3 DEF StartFailed, PodTypeOK, FleetTypeOK
<1>2. CASE StartFailedForInvoke(p)
  <2> DEFINE blocked == disabled' /\ fleet = {} /\ pending' = {}
             queues  == ~blocked /\ HasRoom(queue)
  <2>1. PICK r \in Requests :
          LET lost == IF blocked THEN Queued(queue) \cup {r} ELSE IF queues THEN {} ELSE {r}
          IN  /\ queue' = IF blocked THEN <<>>
                          ELSE IF queues THEN InsertByPriority(queue, r) ELSE queue
              /\ req' = [s \in Requests |-> IF s \in lost THEN "failed"
                                            ELSE IF s = r THEN "queued" ELSE req[s]]
              /\ on' = [on EXCEPT ![r] = NoPod]
              /\ sessions' = sessions \ lost
              /\ turn' = IF queues /\ ~destroyed THEN "drain" ELSE "idle"
    BY <1>2 DEF StartFailedForInvoke, AwaitedByInvoke
  <2> HIDE DEF blocked
  <2>2. queue' \in Seq(Requests) /\ Len(queue') <= MaxQueueSize /\ LoopHasWork'
    <3>1. /\ InsertByPriority(queue, r) \in Seq(Requests)
          /\ Len(InsertByPriority(queue, r)) = Len(queue) + 1 /\ Len(queue) \in Nat
      BY InsertByPriorityType DEF RequestTypeOK
    <3>2. queues => InsertByPriority(queue, r) # <<>> /\ Len(queue) + 1 <= MaxQueueSize
      BY <3>1, QueueAssumption DEF HasRoom
    <3> QED BY <2>1, <3>1, <3>2, QueueAssumption DEF RequestTypeOK, LoopHasWork
  <2>3. /\ req' \in [Requests -> ReqState] /\ on' \in [Requests -> Pods \cup {NoPod}]
        /\ sessions' \subseteq Requests /\ turn' \in {"idle", "drain"}
    BY <2>1 DEF RequestTypeOK, ReqState
  <2>4. Hosted'
    BY <2>1 DEF RequestTypeOK, Hosted
  <2> QED
    BY <1>1, <1>2, <2>2, <2>3, <2>4
    DEF StartFailedForInvoke, lifeVars, FleetTypeOK, ServiceTypeOK, RequestTypeOK
<1>3. CASE StartFailedForQueue(p)
  BY <1>1, <1>3, RejectTypes, ProcessQueueType
  DEF StartFailedForQueue, lifeVars, FleetTypeOK, ServiceTypeOK
<1>4. CASE StartFailedForEnsure(p)
  BY <1>1, <1>4, CreationSettlesType
  DEF StartFailedForEnsure, reqVars, lifeVars, FleetTypeOK, ServiceTypeOK, RequestTypeOK, Hosted,
      LoopHasWork
<1>5. CASE StartFailedForRoll(p)
  <2>1. update' \in UpdateRecord
    BY <1>5 DEF StartFailedForRoll, ServiceTypeOK, UpdateRecord
  <2> QED
    BY <1>1, <1>5, <2>1, RejectTypes
    DEF StartFailedForRoll, lifeVars, FleetTypeOK, ServiceTypeOK, LoopHasWork
<1> QED BY <1>2, <1>3, <1>4, <1>5

(* The events of the child processes keep the types.                       *)
LEMMA ProcessTypes ==
  ASSUME TypeInv, NEW p \in Pods, ProcessStep(p)
  PROVE  TypeInv'
<1> USE DEF TypeInv, TypeOK, LoopHasWork, podVars, fleetVars, startVars, reqVars, lifeVars, confVars
<1>1. CASE StartThrows(p)
  BY <1>1 DEF StartThrows, PodTypeOK, FleetTypeOK, ServiceTypeOK, RequestTypeOK, Hosted
<1>2. CASE PodExit(p)
  <2> DEFINE st == [status EXCEPT ![p] = "failed"]
             al == alive \ {p}
  <2>1. st \in [Pods -> Status] /\ al \subseteq Pods
    BY DEF PodTypeOK, Status
  <2> HIDE DEF st, al
  <2>2. PICK S \in IF destroyed THEN {{}} ELSE EnsureSets(fleet \ {p}, config) :
          /\ Launch(S, al, st, limit, config)
          /\ IF destroyed THEN UNCHANGED ensures ELSE AwaitAll(S, "queue")
    BY <1>2 DEF PodExit, st, al
  <2>3. S \subseteq Pods
    BY <2>2 DEF EnsureSets, Fresh
  <2>4. /\ pending' \subseteq Pods /\ alive' \subseteq Pods /\ connected' \subseteq Pods
        /\ status' \in [Pods -> Status] /\ limit' \in [Pods -> Nat \ {0}]
    BY <2>1, <2>2, <2>3, LaunchTypes DEF PodTypeOK, ServiceTypeOK
  <2>5. ensures' \subseteq [creates : SUBSET Pods, then : Then]
    BY <2>2, <2>3, AwaitAllType DEF Then, FleetTypeOK
  <2>6. executed' \in [Pods -> Nat]
    BY <1>2 DEF PodExit, PodTypeOK
  <2>7. turn' \in {"idle", "drain"} /\ LoopHasWork'
    BY <1>2, ProcessQueueType DEF PodExit
  <2> QED
    BY <1>2, <2>4, <2>5, <2>6, <2>7
    DEF PodExit, PodTypeOK, FleetTypeOK, ServiceTypeOK, RequestTypeOK, Hosted
<1>3. CASE ChannelError(p)
  BY <1>3
  DEF ChannelError, PodTypeOK, FleetTypeOK, ServiceTypeOK, RequestTypeOK, Hosted, Status
<1> QED BY <1>1, <1>2, <1>3 DEF ProcessStep

(* Every pass of the loop of processQueue keeps the types.                 *)
LEMMA DrainTypes ==
  ASSUME TypeInv, DrainStep
  PROVE  TypeInv'
<1> USE DEF TypeInv, TypeOK, podVars, fleetVars, startVars, lifeVars, confVars
<1>1. queue # <<>> /\ Head(queue) \in Requests
      /\ Tail(queue) \in Seq(Requests) /\ Len(Tail(queue)) <= MaxQueueSize
  <2>1. queue # <<>>
    BY DEF DrainStep, DrainDispatches, DrainStops, DrainScalesUp, LoopHasWork
  <2> QED BY <2>1, TailType, QueueAssumption DEF RequestTypeOK
<1>2. CASE DrainDispatches
  <2>1. PICK p \in Pods : Execute(Head(queue), p)
    BY <1>2, CandidatesArePods DEF DrainDispatches
  <2>2. /\ req' \in [Requests -> ReqState] /\ on' \in [Requests -> Pods \cup {NoPod}]
        /\ status' \in [Pods -> Status] /\ active' \in [Pods -> Nat]
        /\ Hosted'
    BY <1>1, <2>1, ExecuteTypes
  <2> QED
    BY <1>1, <1>2, <2>2
    DEF DrainDispatches, LoopAgain, PodTypeOK, FleetTypeOK, ServiceTypeOK, RequestTypeOK, LoopHasWork
<1>3. CASE DrainStops
  BY <1>3, RejectTypes DEF DrainStops, PodTypeOK, FleetTypeOK, ServiceTypeOK, LoopHasWork
<1>4. CASE DrainScalesUp
  <2>1. PICK p \in Fresh : Launch({p}, alive, status, limit, config)
    BY <1>4 DEF DrainScalesUp
  <2>2. /\ pending' \subseteq Pods /\ alive' \subseteq Pods /\ connected' \subseteq Pods
        /\ status' \in [Pods -> Status] /\ limit' \in [Pods -> Nat \ {0}]
    BY <2>1, LaunchAny DEF PodTypeOK, ServiceTypeOK
  <2> QED
    BY <1>4, <2>2
    DEF DrainScalesUp, reqVars, PodTypeOK, FleetTypeOK, ServiceTypeOK, RequestTypeOK, Hosted,
        LoopHasWork
<1> QED BY <1>2, <1>3, <1>4 DEF DrainStep

(* initialize(), the end of ensureMinPods and the timers keep the types.   *)
LEMMA BackgroundTypes ==
  ASSUME TypeInv, Initialize \/ EnsureSettles \/ TimerStep
  PROVE  TypeInv'
<1> USE DEF TypeInv, TypeOK, podVars, fleetVars, startVars, reqVars, lifeVars, confVars
<1>1. ASSUME NEW next \in Then,
             \E S \in EnsureSets(fleet, config) :
               Launch(S, alive, status, limit, config) /\ AwaitAll(S, next)
      PROVE  /\ pending' \subseteq Pods /\ alive' \subseteq Pods /\ connected' \subseteq Pods
             /\ status' \in [Pods -> Status] /\ limit' \in [Pods -> Nat \ {0}]
             /\ ensures' \subseteq [creates : SUBSET Pods, then : Then]
  BY <1>1, LaunchAny, AwaitAllType DEF PodTypeOK, ServiceTypeOK
<1>2. CASE Initialize
  <2>1. /\ pending' \subseteq Pods /\ alive' \subseteq Pods /\ connected' \subseteq Pods
        /\ status' \in [Pods -> Status] /\ limit' \in [Pods -> Nat \ {0}]
        /\ ensures' \subseteq [creates : SUBSET Pods, then : Then]
    BY <1>1, <1>2 DEF Initialize, Then
  <2> QED
    BY <1>2, <2>1
    DEF Initialize, PodTypeOK, FleetTypeOK, ServiceTypeOK, RequestTypeOK, Hosted, LoopHasWork
<1>3. CASE EnsureSettles
  <2>1. PICK e \in ensures :
          /\ ensures' = ensures \ {e}
          /\ initialized' = (initialized \/ e.then = "init")
          /\ CASE e.then = "init"   -> UNCHANGED turn
               [] e.then = "update" -> turn' = "update"
               [] e.then = "queue"  -> ProcessQueue
    BY <1>3 DEF EnsureSettles
  <2>2. RequestTypeOK' /\ Hosted' /\ turn = "idle"
    BY <1>3, RejectTypes DEF EnsureSettles
  <2>3. e.then \in Then
    BY DEF FleetTypeOK
  <2>4. turn' \in {"idle", "drain", "update"} /\ LoopHasWork'
    BY <2>1, <2>2, <2>3, ProcessQueueType DEF Then, LoopHasWork
  <2> QED
    BY <1>3, <2>1, <2>2, <2>4 DEF EnsureSettles, PodTypeOK, FleetTypeOK, ServiceTypeOK
<1>4. CASE BackoffElapses
  BY ZenonT(60), <1>4
  DEF BackoffElapses, PodTypeOK, FleetTypeOK, ServiceTypeOK, RequestTypeOK, Hosted, LoopHasWork
<1>5. CASE RetryTimerFires
  <2>1. /\ pending' \subseteq Pods /\ alive' \subseteq Pods /\ connected' \subseteq Pods
        /\ status' \in [Pods -> Status] /\ limit' \in [Pods -> Nat \ {0}]
        /\ ensures' \subseteq [creates : SUBSET Pods, then : Then]
    BY <1>1, <1>5 DEF RetryTimerFires, Then
  <2> QED
    BY <1>5, <2>1
    DEF RetryTimerFires, PodTypeOK, FleetTypeOK, ServiceTypeOK, RequestTypeOK, Hosted, LoopHasWork
<1>6. CASE IdleCheck
  BY <1>6
  DEF IdleCheck, Terminated, PodTypeOK, FleetTypeOK, ServiceTypeOK, RequestTypeOK, Hosted,
      LoopHasWork, Status
<1> QED BY <1>2, <1>3, <1>4, <1>5, <1>6 DEF TimerStep

(* Every step of updateConfig keeps the types.                             *)
LEMMA UpdateTypes ==
  ASSUME TypeInv, UpdateStep \/ \E c \in Configs : UpdateConfig(c)
  PROVE  TypeInv'
<1> USE DEF TypeInv, TypeOK, podVars, fleetVars, startVars, reqVars, lifeVars
<1>1. update \in UpdateRecord /\ config \in Configs \cup {InitialConfig}
  BY DEF ServiceTypeOK
<1>2. ASSUME NEW c \in Configs, UpdateConfig(c) PROVE TypeInv'
  <2> DEFINE lim == HotLimits(c)
  <2>1. lim \in [Pods -> Nat \ {0}]
    BY ConfigType DEF HotLimits, PodTypeOK
  <2>2. update' \in UpdateRecord
    BY <1>2, Zenon DEF UpdateConfig, NoUpdate, UpdateRecord
  <2> HIDE DEF lim
  <2>3. PICK S \in EnsureSets(fleet, c) :
          Launch(S, alive, status, lim, c) /\ AwaitAll(S, "update")
    BY <1>2 DEF UpdateConfig, lim
  <2>4. /\ S \subseteq Pods
        /\ pending' \subseteq Pods /\ alive' \subseteq Pods /\ connected' \subseteq Pods
        /\ status' \in [Pods -> Status] /\ limit' \in [Pods -> Nat \ {0}]
    BY <2>1, <2>3, LaunchAny DEF PodTypeOK
  <2>5. ensures' \subseteq [creates : SUBSET Pods, then : Then]
    BY <2>3, <2>4, AwaitAllType DEF Then
  <2> QED
    BY <1>2, <2>2, <2>4, <2>5
    DEF UpdateConfig, PodTypeOK, FleetTypeOK, ServiceTypeOK, RequestTypeOK, Hosted, LoopHasWork
<1>3. CASE RollBegins
  <2>1. update' \in UpdateRecord
    BY <1>1, <1>3 DEF RollBegins, UpdateRecord, FleetTypeOK
  <2> QED
    BY <1>3, <2>1
    DEF RollBegins, PodTypeOK, FleetTypeOK, ServiceTypeOK, RequestTypeOK, Hosted, LoopHasWork
<1>4. ASSUME NEW p \in Pods, RollSkips(p) PROVE TypeInv'
  <2>1. update' \in UpdateRecord
    BY <1>1, <1>4 DEF RollSkips, UpdateRecord
  <2> QED
    BY <1>4, <2>1
    DEF RollSkips, PodTypeOK, FleetTypeOK, ServiceTypeOK, RequestTypeOK, Hosted, LoopHasWork
<1>5. ASSUME NEW p \in Pods, RollCreates(p) PROVE TypeInv'
  <2>1. PICK q \in Fresh :
          /\ Launch({q}, alive, status, limit, config)
          /\ update' = [update EXCEPT !.todo = @ \ {p}, !.cur = p, !.repl = q]
    BY <1>5 DEF RollCreates
  <2>2. /\ pending' \subseteq Pods /\ alive' \subseteq Pods /\ connected' \subseteq Pods
        /\ status' \in [Pods -> Status] /\ limit' \in [Pods -> Nat \ {0}]
    BY <1>1, <2>1, LaunchAny DEF PodTypeOK
  <2>3. update' \in UpdateRecord
    BY <1>1, <2>1 DEF UpdateRecord, Fresh
  <2> QED
    BY <1>5, <2>2, <2>3
    DEF RollCreates, RollTurn, PodTypeOK, FleetTypeOK, ServiceTypeOK, RequestTypeOK, Hosted,
        LoopHasWork
<1>6. ASSUME NEW p \in Pods, RollWithout(p) PROVE TypeInv'
  <2>1. update' \in UpdateRecord
    BY <1>1, <1>6 DEF RollWithout, UpdateRecord
  <2> QED
    BY <1>6, <2>1
    DEF RollWithout, RollTurn, PodTypeOK, FleetTypeOK, ServiceTypeOK, RequestTypeOK, Hosted,
        LoopHasWork
<1>7. CASE RollDestroys
  <2>1. update' \in UpdateRecord
    BY <1>1, <1>7 DEF RollDestroys, UpdateRecord
  <2> QED
    BY <1>7, <2>1
    DEF RollDestroys, PodTypeOK, FleetTypeOK, ServiceTypeOK, RequestTypeOK, Hosted, LoopHasWork,
        Status
<1>8. CASE RollKeeps
  <2>1. update' \in UpdateRecord
    BY <1>1, <1>8 DEF RollKeeps, UpdateRecord
  <2>2. CASE UNCHANGED <<pending, status, limit, alive, connected, ensures, turn>>
    BY <1>8, <2>1, <2>2
    DEF RollKeeps, PodTypeOK, FleetTypeOK, ServiceTypeOK, RequestTypeOK, Hosted, LoopHasWork
  <2>3. ASSUME NEW S \in EnsureSets(fleet, config),
               Launch(S, alive, status, limit, config), AwaitAll(S, "update"), turn' = "idle"
        PROVE  TypeInv'
    <3>1. /\ S \subseteq Pods
          /\ pending' \subseteq Pods /\ alive' \subseteq Pods /\ connected' \subseteq Pods
          /\ status' \in [Pods -> Status] /\ limit' \in [Pods -> Nat \ {0}]
      BY <1>1, <2>3, LaunchAny DEF PodTypeOK
    <3>2. ensures' \subseteq [creates : SUBSET Pods, then : Then]
      BY <2>3, <3>1, AwaitAllType DEF Then
    <3> QED
      BY <1>8, <2>1, <2>3, <3>1, <3>2
      DEF RollKeeps, PodTypeOK, FleetTypeOK, ServiceTypeOK, RequestTypeOK, Hosted, LoopHasWork
  <2> QED BY <1>8, <2>2, <2>3 DEF RollKeeps
<1>9. CASE UpdateFinishes
  <2>1. PICK C \in OverflowSets : \E T \in Trimmable(fleet \ IdlePods(C)) :
          /\ fleet' = (fleet \ IdlePods(C)) \ T
          /\ retiring' = (retiring \cup C) \ (IdlePods(C) \cup T)
          /\ status' = Terminated(IdlePods(C) \cup T)
    BY <1>9 DEF UpdateFinishes
  <2>2. fleet' \subseteq Pods /\ retiring' \subseteq Pods /\ status' \in [Pods -> Status]
    BY <2>1 DEF OverflowSets, Terminated, FleetTypeOK, PodTypeOK, Status
  <2>3. update' \in UpdateRecord
    BY <1>9 DEF UpdateFinishes, NoUpdate, UpdateRecord
  <2>4. turn' \in {"idle", "drain"} /\ LoopHasWork'
    BY <1>9, ProcessQueueType DEF UpdateFinishes
  <2> QED
    BY ZenonT(60), <1>9, <2>2, <2>3, <2>4
    DEF UpdateFinishes, PodTypeOK, FleetTypeOK, ServiceTypeOK, RequestTypeOK, Hosted
<1> QED BY <1>2, <1>3, <1>4, <1>5, <1>6, <1>7, <1>8, <1>9 DEF UpdateStep

(* Closing the service, and each step of it, keeps the types.              *)
LEMMA CloseTypes ==
  ASSUME TypeInv, CloseStep
  PROVE  TypeInv'
<1> USE DEF TypeInv, TypeOK, startVars, lifeVars, confVars, LoopHasWork
<1>1. turn = "idle"
  BY DEF CloseStep, Destroy, DrainTo, ClosePoll, CloseTimeout, Event, Quiet
<1>2. \A T : Terminated(T) \in [Pods -> Status]
  BY DEF Terminated, PodTypeOK, Status
<1>3. ASSUME CloseFleet
      PROVE  /\ fleet' \subseteq Pods /\ retiring' = {} /\ status' \in [Pods -> Status]
             /\ closing' \in {"waiting", "closed"} /\ pending' = pending
  BY <1>2, <1>3 DEF CloseFleet, FleetTypeOK, PodTypeOK
<1>4. ASSUME NEW outcome \in {"failed", "moved"}, EmptyQueue(outcome), on' = on
      PROVE  /\ req' \in [Requests -> ReqState] /\ Hosted'
             /\ queue' \in Seq(Requests) /\ Len(queue') <= MaxQueueSize
  BY <1>4, QueueAssumption DEF EmptyQueue, RequestTypeOK, Hosted, ReqState
<1>5. CASE Destroy
  BY <1>1, <1>3, <1>4, <1>5
  DEF Destroy, PodTypeOK, FleetTypeOK, ServiceTypeOK, RequestTypeOK
<1>6. CASE DrainTo
  BY <1>1, <1>3, <1>4, <1>6
  DEF DrainTo, PodTypeOK, FleetTypeOK, ServiceTypeOK, RequestTypeOK
<1>7. CASE CloseEnds /\ retiring' \subseteq Pods
  BY <1>1, <1>2, <1>7
  DEF CloseEnds, PodTypeOK, FleetTypeOK, ServiceTypeOK, RequestTypeOK, Hosted
<1>8. ClosePoll \/ CloseTimeout => retiring' \subseteq Pods
  BY DEF ClosePoll, CloseTimeout, FleetTypeOK
<1> QED BY <1>5, <1>6, <1>7, <1>8 DEF CloseStep, ClosePoll, CloseTimeout

(* The types, the non-empty queue of a running loop and the pod of every   *)
(* request in service are preserved by every step.                         *)
LEMMA StepTypes ==
  ASSUME TypeInv, [Next]_vars
  PROVE  TypeInv'
<1>1. CASE UNCHANGED vars
  BY <1>1
  DEF vars, podVars, fleetVars, startVars, reqVars, lifeVars, confVars, TypeInv, TypeOK, PodTypeOK,
      FleetTypeOK, ServiceTypeOK, RequestTypeOK, LoopHasWork, Hosted
<1>2. ASSUME NEW p \in Pods, StartStep(p) PROVE TypeInv'
  BY <1>2, PodReadyTypes, StartFailedTypes DEF StartStep
<1> QED
  BY <1>1, <1>2, InvokeTypes, RequestStepTypes, ProcessTypes, DrainTypes, BackgroundTypes,
     UpdateTypes, CloseTypes
  DEF Next

(* Type correctness, which includes the limit of the queue: no path that   *)
(* puts a request into it (invoke without a pod, or a cold start that      *)
(* failed) exceeds maxQueueSize, for every number of pods and requests.    *)
THEOREM TypeCorrect == Spec => []TypeOK
<1>1. Init => TypeInv
  BY InitTypes
<1>2. TypeInv /\ [Next]_vars => TypeInv'
  BY StepTypes
<1>3. TypeInv => TypeOK
  BY DEF TypeInv
<1> QED BY <1>1, <1>2, <1>3, PTL DEF Spec

-----------------------------------------------------------------------------
(* The queue is only ever changed by the operations of its class.          *)
QueueStep ==
  \/ queue' \in {queue, <<>>}
  \/ \E r \in Requests : queue' = InsertByPriority(queue, r)
  \/ \E r \in Queued(queue) : queue' = Without(queue, r)
  \/ queue # <<>> /\ queue' = Tail(queue)

(* Every step of the service treats the queue in one of those ways.        *)
LEMMA StepsOfTheQueue ==
  ASSUME TypeInv, [Next]_vars
  PROVE  QueueStep
<1> USE DEF vars, podVars, fleetVars, startVars, reqVars, lifeVars, confVars
<1>1. ASSUME RejectIfBlocked PROVE QueueStep
  BY <1>1 DEF RejectIfBlocked, QueueStep
<1>2. CASE UNCHANGED vars
  BY <1>2 DEF QueueStep
<1>3. ASSUME NEW r \in Requests, Invoke(r) PROVE QueueStep
  BY <1>3
  DEF QueueStep, Invoke, InvokeForwarded, InvokeRefused, InvokeOnPod, InvokeColdStart, InvokeBlocked,
      InvokeQueued
<1>4. ASSUME NEW r \in Requests, RequestStep(r) PROVE QueueStep
  BY <1>4
  DEF QueueStep, RequestStep, QueueTimeout, RequestSucceeds, RequestFails, StreamOpens, StreamCloses,
      StreamTimesOut
<1>5. ASSUME NEW p \in Pods, StartStep(p) PROVE QueueStep
  <2>1. CASE StartFailedForInvoke(p)
    <3>1. PICK r \in Requests : queue' \in {<<>>, InsertByPriority(queue, r), queue}
      BY <2>1 DEF StartFailedForInvoke, AwaitedByInvoke
    <3> QED BY <3>1 DEF QueueStep
  <2>2. CASE StartFailedForQueue(p) \/ StartFailedForRoll(p)
    BY <2>2, <1>1 DEF StartFailedForQueue, StartFailedForRoll
  <2>3. CASE StartFailedForEnsure(p) \/ PodReadyForInvoke(p)
    BY <2>3 DEF StartFailedForEnsure, PodReadyForInvoke, QueueStep
  <2>4. CASE PodReadyForQueue(p) \/ PodReadyForEnsure(p) \/ PodReadyForRoll(p)
    BY <2>4 DEF PodReadyForQueue, PodReadyForEnsure, PodReadyForRoll, JoinsIdle, QueueStep
  <2> QED BY <1>5, <2>1, <2>2, <2>3, <2>4 DEF StartStep
<1>6. ASSUME NEW p \in Pods, ProcessStep(p) PROVE QueueStep
  BY <1>6 DEF QueueStep, ProcessStep, StartThrows, PodExit, ChannelError
<1>7. CASE DrainStep
  <2>1. CASE DrainDispatches
    BY <2>1 DEF DrainDispatches, TypeInv, LoopHasWork, QueueStep
  <2>2. CASE DrainStops
    BY <2>2, <1>1 DEF DrainStops
  <2>3. CASE DrainScalesUp
    BY <2>3 DEF DrainScalesUp, QueueStep
  <2> QED BY <1>7, <2>1, <2>2, <2>3 DEF DrainStep
<1>8. CASE EnsureSettles
  BY <1>8, <1>1 DEF EnsureSettles
<1>9. CASE Initialize \/ TimerStep
  BY <1>9 DEF QueueStep, Initialize, TimerStep, BackoffElapses, RetryTimerFires, IdleCheck
<1>10. CASE UpdateStep \/ \E c \in Configs : UpdateConfig(c)
  BY <1>10
  DEF QueueStep, UpdateStep, UpdateConfig, RollSkips, RollCreates, RollWithout, RollBegins,
      RollDestroys, RollKeeps, UpdateFinishes
<1>11. CASE CloseStep
  BY <1>11
  DEF QueueStep, CloseStep, Destroy, DrainTo, EmptyQueue, ClosePoll, CloseTimeout, CloseEnds
<1> QED BY <1>2, <1>3, <1>4, <1>5, <1>6, <1>7, <1>8, <1>9, <1>10, <1>11 DEF Next

(* The queue is in priority order whatever mixes into it: insertions from  *)
(* invoke and from failed cold starts, timeouts in its middle, dispatches  *)
(* from its head and the two ways of emptying it.                          *)
THEOREM QueueSorted == Spec => []QueueIsSorted
<1>1. Init => TypeInv /\ QueueIsSorted
  BY InitTypes DEF Init, QueueIsSorted, SortedByPriority
<1>2. ASSUME TypeInv, QueueIsSorted, [Next]_vars
      PROVE  QueueIsSorted'
  <2>1. QueueStep /\ queue \in Seq(Requests) /\ SortedByPriority(queue)
    BY <1>2, StepsOfTheQueue DEF QueueIsSorted, TypeInv, TypeOK, RequestTypeOK
  <2>2. SortedByPriority(<<>>)
    BY DEF SortedByPriority
  <2>3. SortedByPriority(queue')
    BY <2>1, <2>2, InsertKeepsOrder, WithoutKeepsOrder, TailKeepsOrder DEF QueueStep
  <2> QED BY <2>3 DEF QueueIsSorted
<1>3. TypeInv /\ QueueIsSorted /\ [Next]_vars => (TypeInv /\ QueueIsSorted)'
  BY <1>2, StepTypes
<1> QED BY <1>1, <1>3, PTL DEF Spec

-----------------------------------------------------------------------------
(* What a step may do to the pods that count against maxPods: let some go, *)
(* move one from the starting pods to the fleet, or create some under one  *)
(* of the two guards of the code.                                          *)
PodsLeave == fleet' \subseteq fleet /\ pending' \subseteq pending

PodJoins == \E p \in pending : fleet' = fleet \cup {p} /\ pending' = pending \ {p}

PodsPreheated ==
  \E fl \in SUBSET fleet :
    \E S \in EnsureSets(fl, config') : fleet' = fl /\ pending' = pending \cup S

PodScaledUp ==
  /\ CanScaleUp /\ config' = config
  /\ \E p \in Pods : fleet' = fleet /\ pending' = pending \cup {p}

PodsStep == PodsLeave \/ PodJoins \/ PodsPreheated \/ PodScaledUp

(* createPod() up to its await only adds to the pods that are starting.    *)
LEMMA LaunchPending ==
  ASSUME NEW S, NEW al, NEW st, NEW lim, NEW c, Launch(S, al, st, lim, c)
  PROVE  pending' = pending \cup S
BY DEF Launch

(* releasePod() removes at most its pod and tops the fleet up.             *)
LEMMA ReleaseSteps ==
  ASSUME NEW p, NEW st, NEW ex, Release(p, st, ex), config' = config
  PROVE  PodsLeave \/ PodsPreheated
<1>1. CASE PodRecycled(p, st, ex)
  <2>1. PICK S \in EnsureSets(fleet \ {p}, config) : pending' = pending \cup S
    BY <1>1, LaunchPending DEF PodRecycled
  <2> QED BY <1>1, <2>1 DEF PodRecycled, PodsPreheated
<1>2. CASE PodReturned(p, st, ex)
  BY <1>2 DEF PodReturned, fleetVars, PodsLeave
<1> QED BY <1>1, <1>2 DEF Release

(* Every step of the service changes the pods in one of those four ways.   *)
LEMMA StepsOfThePods ==
  ASSUME TypeInv, [Next]_vars
  PROVE  PodsStep
<1> USE DEF vars, podVars, fleetVars, startVars, reqVars, lifeVars, confVars
<1>1. ASSUME NEW c, config' = c,
             NEW next, NEW lim, fleet' = fleet,
             \E S \in EnsureSets(fleet, c) :
               Launch(S, alive, status, lim, c) /\ AwaitAll(S, next)
      PROVE  PodsPreheated
  BY <1>1, LaunchPending DEF PodsPreheated
<1>2. ASSUME CanScaleUp, config' = config, fleet' = fleet, NEW p \in Fresh,
             Launch({p}, alive, status, limit, config)
      PROVE  PodScaledUp
  BY <1>2, LaunchPending DEF PodScaledUp, Fresh
<1>3. CASE UNCHANGED vars
  BY <1>3 DEF PodsStep, PodsLeave
<1>4. ASSUME NEW r \in Requests, Invoke(r) PROVE PodsStep
  <2>1. CASE InvokeColdStart(r)
    BY <1>2, <2>1 DEF InvokeColdStart, PodsStep
  <2>2. CASE ~InvokeColdStart(r)
    BY <1>4, <2>2
    DEF Invoke, InvokeForwarded, InvokeRefused, InvokeOnPod, InvokeBlocked, InvokeQueued, PodsStep,
        PodsLeave
  <2> QED BY <2>1, <2>2
<1>5. ASSUME NEW r \in Requests, RequestStep(r) PROVE PodsStep
  <2>1. CASE QueueTimeout(r) \/ StreamOpens(r)
    BY <2>1 DEF QueueTimeout, StreamOpens, PodsStep, PodsLeave
  <2>2. CASE RequestSucceeds(r) \/ RequestFails(r) \/ StreamCloses(r) \/ StreamTimesOut(r)
    BY <2>2, ReleaseSteps
    DEF RequestSucceeds, RequestFails, StreamCloses, StreamTimesOut, PodsStep
  <2> QED BY <1>5, <2>1, <2>2 DEF RequestStep
<1>6. ASSUME NEW p \in Pods, StartStep(p) PROVE PodsStep
  <2>1. ASSUME Joins(p) PROVE PodJoins
    BY <2>1 DEF Joins, PodJoins
  <2>2. ASSUME StartFailed(p) PROVE PodsLeave
    BY <2>2 DEF StartFailed, PodsLeave
  <2> QED
    BY <1>6, <2>1, <2>2
    DEF StartStep, PodReadyForInvoke, PodReadyForQueue, PodReadyForEnsure, PodReadyForRoll, JoinsIdle,
        StartFailedForInvoke, StartFailedForQueue, StartFailedForEnsure, StartFailedForRoll, PodsStep
<1>7. ASSUME NEW p \in Pods, ProcessStep(p) PROVE PodsStep
  <2>1. CASE PodExit(p)
    <3>1. PICK S \in IF destroyed THEN {{}} ELSE EnsureSets(fleet \ {p}, config) :
            pending' = pending \cup S
      BY <2>1, LaunchPending DEF PodExit
    <3>2. fleet' = fleet \ {p} /\ config' = config
      BY <2>1 DEF PodExit
    <3> QED BY <3>1, <3>2 DEF PodsStep, PodsLeave, PodsPreheated
  <2>2. CASE StartThrows(p) \/ ChannelError(p)
    BY <2>2 DEF StartThrows, ChannelError, PodsStep, PodsLeave
  <2> QED BY <1>7, <2>1, <2>2 DEF ProcessStep
<1>8. CASE DrainStep
  BY <1>2, <1>8 DEF DrainStep, DrainDispatches, DrainStops, DrainScalesUp, PodsStep, PodsLeave
<1>9. CASE Initialize
  BY <1>1, <1>9 DEF Initialize, PodsStep
<1>10. CASE EnsureSettles
  BY <1>10 DEF EnsureSettles, PodsStep, PodsLeave
<1>11. CASE TimerStep
  BY <1>1, <1>11
  DEF TimerStep, BackoffElapses, RetryTimerFires, IdleCheck, PodsStep, PodsLeave
<1>12. CASE UpdateStep
  <2>1. ASSUME NEW p \in Pods, RollCreates(p) PROVE PodsStep
    <3>1. PICK q \in Fresh : Launch({q}, alive, status, limit, config)
      BY <2>1 DEF RollCreates
    <3> QED BY <1>2, <2>1, <3>1 DEF RollCreates, PodsStep
  <2>2. ASSUME NEW p \in Pods, RollSkips(p) \/ RollWithout(p) PROVE PodsStep
    BY <2>2 DEF RollSkips, RollWithout, PodsStep, PodsLeave
  <2>3. CASE RollKeeps
    BY <1>1, <2>3 DEF RollKeeps, PodsStep, PodsLeave
  <2>4. CASE RollBegins \/ RollDestroys \/ UpdateFinishes
    BY <2>4 DEF RollBegins, RollDestroys, UpdateFinishes, PodsStep, PodsLeave
  <2> QED BY <1>12, <2>1, <2>2, <2>3, <2>4 DEF UpdateStep
<1>13. ASSUME NEW c \in Configs, UpdateConfig(c) PROVE PodsStep
  BY <1>1, <1>13 DEF UpdateConfig, PodsStep
<1>14. CASE CloseStep
  BY <1>14
  DEF CloseStep, Destroy, DrainTo, CloseFleet, ClosePoll, CloseTimeout, CloseEnds, PodsStep, PodsLeave
<1> QED
  BY <1>3, <1>4, <1>5, <1>6, <1>7, <1>8, <1>9, <1>10, <1>11, <1>12, <1>13, <1>14 DEF Next

(* Adding an element adds at most one to a cardinality.                    *)
LEMMA AtMostOneMore ==
  ASSUME NEW S, IsFiniteSet(S), NEW x
  PROVE  Cardinality(S \cup {x}) <= Cardinality(S) + 1
<1>1. Cardinality(S) \in Nat
  BY FS_CardinalityType
<1>2. Cardinality(S \cup {x}) = IF x \in S THEN Cardinality(S) ELSE Cardinality(S) + 1
  BY FS_AddElement
<1> QED BY <1>1, <1>2

(* None of the four adds a pod beyond maxPods.                             *)
LEMMA CapacityStep ==
  ASSUME TypeInv, TypeInv', PodsStep
  PROVE  Total' > Total => Total' <= config'.maxPods
<1>1. /\ fleet \subseteq Pods /\ pending \subseteq Pods
      /\ fleet' \subseteq Pods /\ pending' \subseteq Pods
  BY DEF TypeInv, TypeOK, FleetTypeOK
<1>2. ASSUME NEW S \in SUBSET Pods PROVE IsFiniteSet(S) /\ Cardinality(S) \in Nat
  BY PodsAssumption, FS_Subset, FS_CardinalityType
<1>3. /\ IsFiniteSet(fleet) /\ IsFiniteSet(pending)
      /\ Cardinality(fleet) \in Nat /\ Cardinality(pending) \in Nat
      /\ Cardinality(fleet') \in Nat /\ Cardinality(pending') \in Nat
  BY <1>1, <1>2
<1>4. config \in Configs \cup {InitialConfig} /\ config' \in Configs \cup {InitialConfig}
  BY DEF TypeInv, TypeOK, ServiceTypeOK
<1>5. CASE PodsLeave
  <2>1. Cardinality(fleet') <= Cardinality(fleet) /\ Cardinality(pending') <= Cardinality(pending)
    BY <1>3, <1>5, FS_Subset DEF PodsLeave
  <2> QED BY <1>3, <2>1 DEF Total
<1>6. CASE PodJoins
  <2>1. PICK p \in pending : fleet' = fleet \cup {p} /\ pending' = pending \ {p}
    BY <1>6 DEF PodJoins
  <2>2. Cardinality(fleet') <= Cardinality(fleet) + 1
    BY <1>3, <2>1, AtMostOneMore
  <2>3. Cardinality(pending') = Cardinality(pending) - 1
    BY <1>3, <2>1, FS_RemoveElement
  <2> QED BY <1>3, <2>2, <2>3 DEF Total
<1>7. CASE PodsPreheated
  <2>1. PICK fl \in SUBSET fleet, S \in SUBSET Fresh :
          /\ Cardinality(S) = MinDeficit(fl, config')
          /\ fleet' = fl /\ pending' = pending \cup S
    BY <1>7, SMTT(30) DEF PodsPreheated, EnsureSets
  <2>2. S \subseteq Pods /\ IsFiniteSet(S) /\ Cardinality(S) \in Nat
    BY <1>2 DEF Fresh
  <2>3. Cardinality(fl) \in Nat /\ Cardinality(fl) <= Cardinality(fleet)
    BY <1>3, FS_Subset, FS_CardinalityType
  <2>4. Cardinality(pending') <= Cardinality(pending) + Cardinality(S)
    <3>1. Cardinality(pending \cap S) \in Nat
      BY <1>2, <2>2
    <3>2. Cardinality(pending \cup S)
            = Cardinality(pending) + Cardinality(S) - Cardinality(pending \cap S)
      BY <1>3, <2>2, FS_Union
    <3> QED BY <1>3, <2>1, <2>2, <3>1, <3>2
  <2>5. config'.minPods \in Nat /\ config'.maxPods \in Nat
    BY <1>4, ConfigType
  <2>6. CASE Cardinality(S) = 0
    BY <1>3, <2>1, <2>3, <2>4, <2>6 DEF Total
  <2>7. CASE Cardinality(S) # 0
    <3>1. /\ Cardinality(S) + Cardinality(fl) + Cardinality(pending) <= config'.maxPods
      BY <1>3, <2>1, <2>2, <2>3, <2>5, <2>7 DEF MinDeficit
    <3> QED BY <1>3, <2>1, <2>2, <2>3, <2>4, <2>5, <3>1 DEF Total
  <2> QED BY <2>6, <2>7
<1>8. CASE PodScaledUp
  <2>1. PICK p \in Pods : fleet' = fleet /\ pending' = pending \cup {p}
    BY <1>8 DEF PodScaledUp
  <2>2. Cardinality(pending') <= Cardinality(pending) + 1
    BY <1>3, <2>1, AtMostOneMore
  <2>3. config' = config /\ Total < config.maxPods /\ config.maxPods \in Nat
    BY <1>4, <1>8, ConfigType DEF PodScaledUp, CanScaleUp
  <2> QED BY <1>3, <2>1, <2>2, <2>3 DEF Total
<1> QED BY <1>5, <1>6, <1>7, <1>8 DEF PodsStep

(* No interleaving of cold starts, preheating, crash recovery, the retry   *)
(* timer, rolling updates and changes of maxPods makes a step add a pod    *)
(* beyond the maxPods in force after it.                                   *)
THEOREM NeverGrows == Spec => NeverGrowsPastCapacity
<1>1. Init => TypeInv
  BY InitTypes
<1>2. TypeInv /\ [Next]_vars => TypeInv'
  BY StepTypes
<1>3. TypeInv /\ TypeInv' /\ [Next]_vars => [Total' > Total => Total' <= config'.maxPods]_vars
  BY StepsOfThePods, CapacityStep
<1> QED BY <1>1, <1>2, <1>3, PTL DEF Spec, NeverGrowsPastCapacity

(* While updates leave maxPods as it is, the pods that exist or start      *)
(* never exceed it.                                                        *)
THEOREM CapacityRespected ==
  ASSUME \A c \in Configs : c.maxPods = InitialConfig.maxPods
  PROVE  Spec => []WithinCapacity
<1>1. Init => TypeInv /\ WithinCapacity
  <2>1. Init => Total = 0
    BY FS_EmptySet DEF Init, Total
  <2>2. InitialConfig.maxPods \in Nat
    BY ConfigType
  <2> QED BY <2>1, <2>2, InitTypes DEF Init, WithinCapacity
<1>2. ASSUME TypeInv, WithinCapacity, [Next]_vars
      PROVE  TypeInv' /\ WithinCapacity'
  <2>1. TypeInv' /\ (Total' > Total => Total' <= config'.maxPods)
    BY <1>2, StepTypes, StepsOfThePods, CapacityStep
  <2>2. config'.maxPods = config.maxPods /\ config.maxPods \in Nat
    BY <1>2, <2>1, ConfigType DEF TypeInv, TypeOK, ServiceTypeOK
  <2>3. Total \in Nat /\ Total' \in Nat
    <3>1. ASSUME NEW S \in SUBSET Pods PROVE Cardinality(S) \in Nat
      BY PodsAssumption, FS_Subset, FS_CardinalityType
    <3> QED BY <1>2, <2>1, <3>1 DEF Total, TypeInv, TypeOK, FleetTypeOK
  <2> QED BY <1>2, <2>1, <2>2, <2>3 DEF WithinCapacity
<1> QED BY <1>1, <1>2, PTL DEF Spec

-----------------------------------------------------------------------------
(* Pods and requests agree; on that rest the sessions, the order of        *)
(* service, the refinement of RequestLifecycle, and what scheduling keeps. *)

Placed ==
  /\ NoDuplicates(queue)
  /\ \A r \in Requests : req[r] = "queued" <=> r \in Queued(queue)
  /\ \A r \in Requests : req[r] \in {"starting", "running", "streaming"} <=> on[r] # NoPod

(* What keeps a starting request from losing its pod: a pod that starts is *)
(* awaited by at most one of an invocation, a call of ensureMinPods and    *)
(* rollPods, and whatever one of them awaits is starting.                  *)
Awaits(r, p) == req[r] = "starting" /\ on[r] = p

Awaited ==
  /\ \A r \in Requests, p \in Pods : Awaits(r, p) => p \in pending
  /\ \A r, s \in Requests, p \in Pods : Awaits(r, p) /\ Awaits(s, p) => r = s
  /\ \A e \in ensures : e.creates \subseteq pending
  /\ \A e, f \in ensures : e # f => e.creates \cap f.creates = {}
  /\ \A e \in ensures : update.repl \notin e.creates
  /\ \A e \in ensures, r \in Requests, p \in Pods : Awaits(r, p) => p \notin e.creates
  /\ update.repl \in Pods => update.repl \in pending
  /\ \A r \in Requests, p \in Pods : Awaits(r, p) => update.repl # p

PlaceInv == TypeInv /\ Placed /\ ActiveMatches /\ Awaited

-----------------------------------------------------------------------------
(* What a step may do to the requests, where they are, and the counters.   *)
Unmoved == UNCHANGED <<queue, req, on, active>>

Runs ==
  \E r \in Requests, p \in Pods :
    /\ Execute(r, p)
    /\ p \in Selectable \/ p \in pending \ pending'
    /\ \/ req[r] \in {"new", "starting"} /\ queue' = queue
       \/ queue # <<>> /\ r = Head(queue) /\ queue' = Tail(queue)

Becomes(r, s, p) == req' = [req EXCEPT ![r] = s] /\ on' = [on EXCEPT ![r] = p]

Streams ==
  \E r \in Requests :
    /\ req[r] = "running" /\ req' = [req EXCEPT ![r] = "streaming"]
    /\ UNCHANGED <<queue, on, active>>

Completes ==
  \E r \in Requests, s \in {"done", "failed"} :
    /\ req[r] \in {"running", "streaming"}
    /\ CompletesOn(on[r]) /\ Becomes(r, s, NoPod)
    /\ queue' = queue
    /\ destroyed \/ on[r] \notin fleet' \/ executed'[on[r]] < MaxRequests

Joining ==
  \E r \in Requests :
    /\ req[r] \in {"new", "starting"}
    /\ Becomes(r, "queued", NoPod) /\ queue' = InsertByPriority(queue, r)
    /\ active' = active

Starting ==
  \E r \in Requests, p \in Pods :
    req[r] = "new" /\ Becomes(r, "starting", p) /\ UNCHANGED <<queue, active>>

Gone ==
  \E r \in Requests, s \in {"failed", "moved"} :
    /\ Becomes(r, s, NoPod)
    /\ \/ req[r] \in {"new", "starting"} /\ queue' = queue
       \/ r \in Queued(queue) /\ queue' = Without(queue, r)
    /\ active' = active

(* The queue is emptied, perhaps with one request that was starting.       *)
Emptied ==
  \E R \in SUBSET Requests, s \in {"failed", "moved"} :
    /\ \A r \in R : req[r] = "starting"
    /\ req' = [r \in Requests |-> IF r \in Queued(queue) \cup R THEN s ELSE req[r]]
    /\ on' = [r \in Requests |-> IF r \in R THEN NoPod ELSE on[r]]
    /\ queue' = <<>> /\ active' = active

MoveStep ==
  Unmoved \/ Runs \/ Streams \/ Completes \/ Joining \/ Starting \/ Gone \/ Emptied

(* No pod is no pod, and what the invariant says of the queue's contents.  *)
LEMMA Basics ==
  ASSUME TypeInv, Placed
  PROVE  /\ NoPod \notin Pods
         /\ queue \in Seq(Requests) /\ Queued(queue) \subseteq Requests
         /\ req \in [Requests -> ReqState] /\ on \in [Requests -> Pods \cup {NoPod}]
         /\ active \in [Pods -> Nat]
         /\ \A r \in Requests : req[r] = "new" => on[r] = NoPod
<1>1. /\ NoPod \notin Pods
      /\ queue \in Seq(Requests)
      /\ req \in [Requests -> ReqState] /\ on \in [Requests -> Pods \cup {NoPod}]
      /\ active \in [Pods -> Nat]
  BY PodsAssumption DEF TypeInv, TypeOK, RequestTypeOK, PodTypeOK
<1>2. \A i \in 1..Len(queue) : queue[i] \in Requests
  BY <1>1
<1> QED BY <1>1, <1>2 DEF Placed, Queued

(* An empty queue has no duplicates and nothing in it.                     *)
LEMMA EmptyQueueIsPlaced == NoDuplicates(<<>>) /\ Queued(<<>>) = {}
BY DEF NoDuplicates, Queued

(* Every such move leaves each request in exactly one place.               *)
LEMMA MovesKeepPlaces ==
  ASSUME TypeInv, Placed, MoveStep
  PROVE  Placed'
<1> USE Basics
<1>1. CASE Unmoved
  BY <1>1 DEF Unmoved, Placed
<1>2. CASE Runs
  <2>1. PICK r \in Requests, p \in Pods :
          /\ Execute(r, p)
          /\ \/ req[r] \in {"new", "starting"} /\ queue' = queue
             \/ queue # <<>> /\ r = Head(queue) /\ queue' = Tail(queue)
    BY <1>2 DEF Runs
  <2>2. NoDuplicates(queue') /\ Queued(queue') = Queued(queue) \ {r}
    <3>1. CASE req[r] \in {"new", "starting"} /\ queue' = queue
      BY <3>1 DEF Placed
    <3>2. CASE queue # <<>> /\ r = Head(queue) /\ queue' = Tail(queue)
      BY <3>2, TailKeepsDistinct DEF Placed
    <3> QED BY <2>1, <3>1, <3>2
  <2> QED BY <2>1, <2>2 DEF Execute, Placed
<1>3. CASE Streams
  BY <1>3 DEF Streams, Placed
<1>4. CASE Completes
  BY <1>4 DEF Completes, Becomes, Placed
<1>5. CASE Joining
  <2>1. PICK r \in Requests :
          /\ req[r] \in {"new", "starting"}
          /\ Becomes(r, "queued", NoPod) /\ queue' = InsertByPriority(queue, r)
    BY <1>5 DEF Joining
  <2>2. NoDuplicates(queue') /\ Queued(queue') = Queued(queue) \cup {r}
    BY <2>1, InsertKeepsDistinct DEF Placed
  <2> QED BY <2>1, <2>2 DEF Becomes, Placed
<1>6. CASE Starting
  BY <1>6 DEF Starting, Becomes, Placed
<1>7. CASE Gone
  <2>1. PICK r \in Requests, s \in {"failed", "moved"} :
          /\ Becomes(r, s, NoPod)
          /\ \/ req[r] \in {"new", "starting"} /\ queue' = queue
             \/ r \in Queued(queue) /\ queue' = Without(queue, r)
    BY <1>7 DEF Gone
  <2>2. NoDuplicates(queue') /\ Queued(queue') = Queued(queue) \ {r}
    BY <2>1, WithoutKeepsDistinct DEF Placed
  <2> QED BY <2>1, <2>2 DEF Becomes, Placed
<1>8. CASE Emptied
  BY <1>8, EmptyQueueIsPlaced DEF Emptied, Placed
<1> QED BY <1>1, <1>2, <1>3, <1>4, <1>5, <1>6, <1>7, <1>8 DEF MoveStep

(* The requests on a pod are finitely many, as the requests are.           *)
LEMMA InFlightFinite ==
  ASSUME NEW p PROVE IsFiniteSet(InFlight(p)) /\ Cardinality(InFlight(p)) \in Nat
BY RequestsAssumption, FS_Subset, FS_CardinalityType DEF InFlight

(* Every such move keeps the counters equal to the requests on the pods.   *)
LEMMA MovesKeepCounters ==
  ASSUME TypeInv, Placed, ActiveMatches, MoveStep
  PROVE  ActiveMatches'
<1> USE Basics
<1>1. ASSUME active' = active, \A p \in Pods : InFlight(p)' = InFlight(p)
      PROVE  ActiveMatches'
  BY <1>1 DEF ActiveMatches
<1>2. CASE Unmoved
  BY <1>1, <1>2 DEF Unmoved, InFlight
<1>3. CASE Runs
  <2>1. PICK r \in Requests, q \in Pods : Execute(r, q) /\ req[r] \notin {"running", "streaming"}
    <3>1. PICK r \in Requests, q \in Pods :
            /\ Execute(r, q)
            /\ req[r] \in {"new", "starting"} \/ (queue # <<>> /\ r = Head(queue))
      BY <1>3 DEF Runs
    <3>2. CASE queue # <<>> /\ r = Head(queue)
      <4>1. req[r] = "queued"
        BY <3>2, TailKeepsDistinct DEF Placed
      <4> QED BY <3>1, <4>1
    <3> QED BY <3>1, <3>2
  <2>2. InFlight(q)' = InFlight(q) \cup {r} /\ r \notin InFlight(q)
    BY <2>1 DEF Execute, InFlight
  <2>3. Cardinality(InFlight(q)') = Cardinality(InFlight(q)) + 1
    BY <2>2, InFlightFinite, FS_AddElement
  <2>4. ASSUME NEW p \in Pods, p # q PROVE InFlight(p)' = InFlight(p)
    BY <2>1, <2>4 DEF Execute, InFlight
  <2>5. active' = [active EXCEPT ![q] = @ + 1]
    BY <2>1 DEF Execute
  <2> QED BY <2>3, <2>4, <2>5 DEF ActiveMatches
<1>4. CASE Streams
  BY <1>1, <1>4 DEF Streams, InFlight
<1>5. CASE Completes
  <2>1. PICK r \in Requests, s \in {"done", "failed"} :
          /\ req[r] \in {"running", "streaming"}
          /\ CompletesOn(on[r]) /\ Becomes(r, s, NoPod)
    BY <1>5 DEF Completes
  <2>2. PICK q \in Pods : on[r] = q
    BY <2>1 DEF Placed
  <2>3. r \in InFlight(q) /\ InFlight(q)' = InFlight(q) \ {r}
    BY <2>1, <2>2 DEF Becomes, InFlight
  <2>4. /\ Cardinality(InFlight(q)') = Cardinality(InFlight(q)) - 1
        /\ Cardinality(InFlight(q)') \in Nat /\ Cardinality(InFlight(q)) \in Nat
    BY <2>3, InFlightFinite, FS_RemoveElement, FS_CardinalityType
  <2>5. ASSUME NEW p \in Pods, p # q PROVE InFlight(p)' = InFlight(p)
    BY <2>1, <2>2, <2>5 DEF Becomes, InFlight
  <2>6. active' = [active EXCEPT ![q] = IF active[q] > 0 THEN active[q] - 1 ELSE 0]
    BY <2>1, <2>2 DEF CompletesOn
  <2>7. active'[q] = Cardinality(InFlight(q)')
    BY <2>4, <2>6 DEF ActiveMatches
  <2>8. ASSUME NEW p \in Pods, p # q PROVE active'[p] = Cardinality(InFlight(p)')
    BY <2>5, <2>6, <2>8 DEF ActiveMatches
  <2> QED BY <2>7, <2>8 DEF ActiveMatches
<1>6. CASE Joining
  BY <1>1, <1>6 DEF Joining, Becomes, InFlight
<1>7. CASE Starting
  BY <1>1, <1>7 DEF Starting, Becomes, InFlight
<1>8. CASE Gone
  <2>1. PICK r \in Requests, s \in {"failed", "moved"} :
          Becomes(r, s, NoPod) /\ req[r] \in {"new", "starting", "queued"} /\ active' = active
    BY <1>8 DEF Gone, Placed
  <2> QED BY <1>1, <2>1 DEF Becomes, InFlight
<1>9. CASE Emptied
  <2>1. PICK R \in SUBSET Requests, s \in {"failed", "moved"} :
          /\ \A r \in R : req[r] = "starting"
          /\ req' = [r \in Requests |-> IF r \in Queued(queue) \cup R THEN s ELSE req[r]]
          /\ on' = [r \in Requests |-> IF r \in R THEN NoPod ELSE on[r]]
          /\ active' = active
    BY <1>9 DEF Emptied
  <2>2. \A r \in Requests : req[r] \in {"running", "streaming"} => r \notin Queued(queue) \cup R
    BY <2>1 DEF Placed
  <2>3. \A p \in Pods : InFlight(p)' = InFlight(p)
    BY <2>1, <2>2 DEF InFlight
  <2> QED BY <1>1, <2>1, <2>3
<1> QED BY <1>2, <1>3, <1>4, <1>5, <1>6, <1>7, <1>8, <1>9 DEF MoveStep

-----------------------------------------------------------------------------
(* What a step may do to the pods that start and to who awaits them: some  *)
(* are created, for one awaiter each, or one has settled.                  *)
Fewer == \A r \in Requests, p \in Pods : Awaits(r, p)' => Awaits(r, p)

(* Pods are created for nobody, for the queue or for ensureMinPods.        *)
Creates ==
  \E S \in SUBSET Fresh, next \in Then :
    /\ pending' = pending \cup S
    /\ ensures' \subseteq ensures \cup {[creates |-> S, then |-> next]}
    /\ Fewer /\ update'.repl \in {update.repl, NoPod}

CreatesForInvoke ==
  \E r \in Requests, p \in Fresh :
    /\ pending' = pending \cup {p}
    /\ req[r] = "new" /\ Becomes(r, "starting", p)
    /\ UNCHANGED <<ensures, update>>

CreatesForRoll ==
  \E p \in Fresh :
    /\ pending' = pending \cup {p}
    /\ update'.repl = p
    /\ UNCHANGED <<ensures, req, on>>

Settled ==
  \E p \in pending :
    /\ pending' = pending \ {p}
    /\ Fewer /\ update'.repl \in {update.repl, NoPod}
    /\ \/ \E r \in AwaitedByInvoke(p) : req'[r] # "starting" /\ ensures' = ensures
       \/ CreationSettles(p)
       \/ update.repl = p /\ update'.repl = NoPod /\ ensures' = ensures
       \/ AwaitedByQueue(p) /\ ensures' = ensures

AwaitStep == Creates \/ CreatesForInvoke \/ CreatesForRoll \/ Settled

(* A pod that is created is not starting, and nobody has awaited it.       *)
LEMMA FreshIsUnknown ==
  ASSUME NEW p \in Fresh
  PROVE  p \in Pods /\ p \notin pending /\ \A r \in Requests : on[r] # p
BY DEF Fresh

(* Every such step leaves each starting pod at most one awaiter.           *)
LEMMA AwaitsStaySingle ==
  ASSUME TypeInv, Awaited, AwaitStep
  PROVE  Awaited'
<1>1. /\ NoPod \notin Pods /\ pending \subseteq Pods
      /\ req \in [Requests -> ReqState] /\ on \in [Requests -> Pods \cup {NoPod}]
  BY PodsAssumption DEF TypeInv, TypeOK, RequestTypeOK, FleetTypeOK
<1>2. \A p \in Fresh : p \in Pods /\ p \notin pending /\ \A r \in Requests : on[r] # p
  BY FreshIsUnknown
<1>3. CASE Creates
  <2>1. PICK S \in SUBSET Fresh, next \in Then :
          /\ pending' = pending \cup S
          /\ ensures' \subseteq ensures \cup {[creates |-> S, then |-> next]}
          /\ Fewer /\ update'.repl \in {update.repl, NoPod}
    BY <1>3 DEF Creates
  <2> DEFINE new == [creates |-> S, then |-> next]
  <2>2. new.creates = S
    OBVIOUS
  <2> HIDE DEF new
  <2>3. ensures' \subseteq ensures \cup {new}
    BY <2>1 DEF new
  <2>4. S \cap pending = {} /\ S \subseteq Pods
    BY <1>2
  <2>5. update'.repl \in Pods => update'.repl = update.repl
    BY <1>1, <2>1
  <2>6. \A e \in ensures : e.creates \subseteq pending /\ e.creates \cap S = {}
    BY <2>4 DEF Awaited
  <2>7. \A e, f \in ensures' : e # f => e.creates \cap f.creates = {}
    BY <2>2, <2>3, <2>6 DEF Awaited
  <2>8. \A e \in ensures' : e.creates \subseteq pending' /\ update'.repl \notin e.creates
    BY <1>1, <2>1, <2>2, <2>3, <2>4, <2>5, <2>6 DEF Awaited
  <2>9. \A e \in ensures', r \in Requests, p \in Pods : Awaits(r, p)' => p \notin e.creates
    BY <2>1, <2>2, <2>3, <2>4 DEF Awaited, Fewer
  <2>10. \A r, s \in Requests, p \in Pods : Awaits(r, p)' /\ Awaits(s, p)' => r = s
    BY <2>1 DEF Awaited, Fewer
  <2>11. \A r \in Requests, p \in Pods : Awaits(r, p)' => p \in pending' /\ update'.repl # p
    BY <2>1, <2>5 DEF Awaited, Fewer
  <2>12. update'.repl \in Pods => update'.repl \in pending'
    BY <2>1, <2>5 DEF Awaited
  <2> QED BY <2>7, <2>8, <2>9, <2>10, <2>11, <2>12 DEF Awaited
<1>4. CASE CreatesForInvoke
  <2>1. PICK r \in Requests, p \in Fresh :
          /\ pending' = pending \cup {p}
          /\ req[r] = "new" /\ Becomes(r, "starting", p)
          /\ UNCHANGED <<ensures, update>>
    BY <1>4 DEF CreatesForInvoke
  <2>2. \A s \in Requests, q \in Pods : Awaits(s, q)' => (s = r /\ q = p) \/ Awaits(s, q)
    BY <1>1, <2>1 DEF Awaits, Becomes
  <2>3. p \in Pods /\ p \notin pending /\ \A s \in Requests : ~Awaits(s, p)
    BY <1>2 DEF Awaits
  <2>4. update.repl # p /\ \A e \in ensures : p \notin e.creates
    BY <2>3 DEF Awaited
  <2> QED BY <2>1, <2>2, <2>3, <2>4 DEF Awaited
<1>5. CASE CreatesForRoll
  <2>1. PICK p \in Fresh :
          /\ pending' = pending \cup {p}
          /\ update'.repl = p
          /\ UNCHANGED <<ensures, req, on>>
    BY <1>5 DEF CreatesForRoll
  <2>2. \A s \in Requests, q \in Pods : Awaits(s, q)' => Awaits(s, q)
    BY <2>1 DEF Awaits
  <2>3. p \in Pods /\ p \notin pending /\ \A s \in Requests : ~Awaits(s, p)
    BY <1>2 DEF Awaits
  <2>4. \A e \in ensures : p \notin e.creates
    BY <2>3 DEF Awaited
  <2> QED BY <2>1, <2>2, <2>3, <2>4 DEF Awaited
<1>6. CASE Settled
  <2>1. PICK p \in pending :
          /\ pending' = pending \ {p}
          /\ Fewer /\ update'.repl \in {update.repl, NoPod}
          /\ \/ \E r \in AwaitedByInvoke(p) : req'[r] # "starting" /\ ensures' = ensures
             \/ CreationSettles(p)
             \/ update.repl = p /\ update'.repl = NoPod /\ ensures' = ensures
             \/ AwaitedByQueue(p) /\ ensures' = ensures
    BY <1>6 DEF Settled
  <2>2. p \in Pods /\ (update'.repl \in Pods => update'.repl = update.repl)
    BY <1>1, <2>1
  <2>3. ASSUME /\ \A r \in Requests : ~Awaits(r, p)'
               /\ update'.repl # p
               /\ \A e \in ensures' : p \notin e.creates
               /\ \A e \in ensures' : \E f \in ensures : e.creates \subseteq f.creates
               /\ \A e, f \in ensures' : e # f => e.creates \cap f.creates = {}
        PROVE  Awaited'
    <3>1. \A e \in ensures' :
            /\ e.creates \subseteq pending' /\ update'.repl \notin e.creates
            /\ \A r \in Requests, q \in Pods : Awaits(r, q)' => q \notin e.creates
      BY <1>1, <2>1, <2>2, <2>3 DEF Awaited, Fewer
    <3>2. \A r \in Requests, q \in Pods : Awaits(r, q)' => q \in pending' /\ update'.repl # q
      BY <2>1, <2>2, <2>3 DEF Awaited, Fewer
    <3>3. \A r, s \in Requests, q \in Pods : Awaits(r, q)' /\ Awaits(s, q)' => r = s
      BY <2>1 DEF Awaited, Fewer
    <3>4. update'.repl \in Pods => update'.repl \in pending'
      BY <2>1, <2>2, <2>3 DEF Awaited
    <3> QED BY <2>3, <3>1, <3>2, <3>3, <3>4 DEF Awaited
  <2>4. CASE \E r \in AwaitedByInvoke(p) : req'[r] # "starting" /\ ensures' = ensures
    <3>1. PICK r \in Requests : Awaits(r, p) /\ req'[r] # "starting" /\ ensures' = ensures
      BY <2>4 DEF AwaitedByInvoke, Awaits
    <3>2. \A s \in Requests : ~Awaits(s, p)'
      BY <2>1, <2>2, <3>1 DEF Awaited, Awaits, Fewer
    <3>3. update.repl # p /\ \A e \in ensures : p \notin e.creates
      BY <2>2, <3>1 DEF Awaited
    <3> QED BY <1>1, <2>1, <2>2, <2>3, <3>1, <3>2, <3>3 DEF Awaited
  <2>5. CASE CreationSettles(p)
    <3>1. PICK e \in ensures :
            p \in e.creates /\ ensures' = (ensures \ {e}) \cup {[e EXCEPT !.creates = @ \ {p}]}
      BY <2>5 DEF CreationSettles, AwaitedByEnsure
    <3> DEFINE rest == [e EXCEPT !.creates = @ \ {p}]
    <3>2. rest.creates = e.creates \ {p}
      BY <3>1 DEF TypeInv, TypeOK, FleetTypeOK
    <3> HIDE DEF rest
    <3>3. ensures' = (ensures \ {e}) \cup {rest}
      BY <3>1 DEF rest
    <3>4. \A f \in ensures \ {e} : f.creates \cap e.creates = {}
      BY DEF Awaited
    <3>5. \A f \in ensures' : p \notin f.creates
      BY <3>1, <3>2, <3>3, <3>4
    <3>6. \A f \in ensures' : \E g \in ensures : f.creates \subseteq g.creates
      BY <3>2, <3>3
    <3>7. \A f, g \in ensures' : f # g => f.creates \cap g.creates = {}
      BY <3>2, <3>3, <3>4 DEF Awaited
    <3>8. \A r \in Requests : ~Awaits(r, p)'
      BY <2>1, <2>2, <3>1 DEF Awaited, Fewer
    <3>9. update'.repl # p
      BY <1>1, <2>1, <2>2, <3>1 DEF Awaited
    <3> QED BY <2>3, <3>5, <3>6, <3>7, <3>8, <3>9
  <2>6. CASE update.repl = p /\ update'.repl = NoPod /\ ensures' = ensures
    <3>1. \A r \in Requests : ~Awaits(r, p)'
      BY <2>1, <2>2, <2>6 DEF Awaited, Fewer
    <3>2. \A e \in ensures : p \notin e.creates
      BY <2>6 DEF Awaited
    <3> QED BY <1>1, <2>2, <2>3, <2>6, <3>1, <3>2 DEF Awaited
  <2>7. CASE AwaitedByQueue(p) /\ ensures' = ensures
    <3>1. \A r \in Requests : ~Awaits(r, p)'
      BY <2>1, <2>2, <2>7 DEF AwaitedByQueue, AwaitedByInvoke, Awaits, Fewer
    <3>2. update.repl # p /\ \A e \in ensures : p \notin e.creates
      BY <2>7 DEF AwaitedByQueue, AwaitedByEnsure
    <3> QED BY <1>1, <2>1, <2>2, <2>3, <2>7, <3>1, <3>2 DEF Awaited
  <2> QED BY <2>1, <2>4, <2>5, <2>6, <2>7
<1> QED BY <1>3, <1>4, <1>5, <1>6 DEF AwaitStep

-----------------------------------------------------------------------------
QuietMove == Unmoved \/ Runs \/ Streams \/ Completes \/ Joining \/ Gone \/ Emptied

(* Only a cold start makes a request await a pod.                          *)
LEMMA OthersAwaitFewer ==
  ASSUME TypeInv, Placed, QuietMove
  PROVE  Fewer
<1> USE Basics
<1>1. CASE Unmoved
  BY <1>1 DEF Unmoved, Fewer, Awaits
<1>2. CASE Runs
  BY <1>2 DEF Runs, Execute, Fewer, Awaits
<1>3. CASE Streams
  BY <1>3 DEF Streams, Fewer, Awaits
<1>4. CASE Completes
  BY <1>4 DEF Completes, Becomes, Fewer, Awaits
<1>5. CASE Joining
  BY <1>5 DEF Joining, Becomes, Fewer, Awaits
<1>6. CASE Gone
  BY <1>6 DEF Gone, Becomes, Fewer, Awaits
<1>7. CASE Emptied
  BY <1>7 DEF Emptied, Fewer, Awaits
<1> QED BY <1>1, <1>2, <1>3, <1>4, <1>5, <1>6, <1>7 DEF QuietMove

(* The pods that start stay as they are.                                   *)
LEMMA NothingCreated ==
  ASSUME TypeInv, Placed, QuietMove, pending' = pending, ensures' \subseteq ensures,
         update'.repl \in {update.repl, NoPod}
  PROVE  MoveStep /\ AwaitStep
<1>1. pending' = pending \cup {} /\ ensures' \subseteq ensures \cup {[creates |-> {}, then |-> "init"]}
  OBVIOUS
<1>2. {} \in SUBSET Fresh /\ "init" \in Then
  BY DEF Then
<1>3. Creates
  BY <1>1, <1>2, OthersAwaitFewer DEF Creates
<1> QED BY <1>3 DEF QuietMove, MoveStep, AwaitStep

(* createPod for ensureMinPods, or for the queue.                          *)
LEMMA LaunchCreates ==
  ASSUME TypeInv, Placed, QuietMove,
         NEW S \in SUBSET Fresh, NEW al, NEW st, NEW lim, NEW c, Launch(S, al, st, lim, c),
         NEW next \in Then, AwaitAll(S, next) \/ ensures' = ensures,
         update'.repl \in {update.repl, NoPod}
  PROVE  MoveStep /\ AwaitStep
<1>1. pending' = pending \cup S /\ ensures' \subseteq ensures \cup {[creates |-> S, then |-> next]}
  BY DEF Launch, AwaitAll
<1>2. Creates
  BY <1>1, OthersAwaitFewer DEF Creates
<1> QED BY <1>2 DEF QuietMove, MoveStep, AwaitStep

(* Every way an invocation begins is such a step.                          *)
LEMMA InvokeMoves ==
  ASSUME TypeInv, Placed, NEW r \in Requests, Invoke(r)
  PROVE  MoveStep /\ AwaitStep
<1> USE Basics DEF fleetVars, confVars, podVars
<1>1. req[r] = "new" /\ on[r] = NoPod /\ r \notin Queued(queue)
  BY DEF Invoke, InvokeForwarded, InvokeRefused, InvokeOnPod, InvokeColdStart, InvokeBlocked,
         InvokeQueued, InvokeReady, Placed
<1>2. on = [on EXCEPT ![r] = NoPod]
  BY <1>1
<1>3. CASE InvokeForwarded(r) \/ InvokeRefused(r) \/ InvokeBlocked(r)
  <2>1. Gone
    BY <1>1, <1>2, <1>3 DEF InvokeForwarded, InvokeRefused, InvokeBlocked, Settle, Becomes, Gone
  <2>2. UNCHANGED <<pending, ensures, update>>
    BY <1>3 DEF InvokeForwarded, InvokeRefused, InvokeBlocked
  <2> QED BY <2>1, <2>2, NothingCreated DEF QuietMove
<1>4. CASE InvokeOnPod(r)
  <2>1. PICK p \in Pods : Execute(r, p) /\ p \in Selectable
    BY <1>4, CandidatesArePods DEF InvokeOnPod, LeastLoaded, TypeInv
  <2>2. Runs
    BY <1>1, <1>4, <2>1 DEF InvokeOnPod, Runs
  <2>3. UNCHANGED <<pending, ensures, update>>
    BY <1>4 DEF InvokeOnPod
  <2> QED BY <2>2, <2>3, NothingCreated DEF QuietMove
<1>5. CASE InvokeQueued(r)
  <2>1. Joining
    BY <1>1, <1>2, <1>5 DEF InvokeQueued, Becomes, Joining
  <2>2. UNCHANGED <<pending, ensures, update>>
    BY <1>5 DEF InvokeQueued
  <2> QED BY <2>1, <2>2, NothingCreated DEF QuietMove
<1>6. CASE InvokeColdStart(r)
  <2>1. PICK p \in Fresh : pending' = pending \cup {p} /\ Becomes(r, "starting", p)
    BY <1>6, LaunchPending DEF InvokeColdStart, Becomes
  <2>2. CreatesForInvoke
    BY <1>1, <1>6, <2>1 DEF InvokeColdStart, CreatesForInvoke
  <2>3. Starting
    BY <1>1, <1>6, <2>1, FreshIsUnknown DEF InvokeColdStart, Starting
  <2> QED BY <2>2, <2>3 DEF MoveStep, AwaitStep
<1> QED BY <1>3, <1>4, <1>5, <1>6 DEF Invoke

(* releasePod creates pods for ensureMinPods, or none.                     *)
LEMMA ReleaseMoves ==
  ASSUME TypeInv, Placed, QuietMove, NEW p, NEW st, NEW ex, Release(p, st, ex), update' = update
  PROVE  MoveStep /\ AwaitStep
<1>1. CASE PodRecycled(p, st, ex)
  <2> DEFINE dying == [status EXCEPT ![p] = "terminating"]
  <2>1. PICK S \in EnsureSets(fleet \ {p}, config) :
          Launch(S, alive, dying, limit, config) /\ AwaitAll(S, "queue")
    BY <1>1 DEF PodRecycled
  <2>2. S \in SUBSET Fresh /\ "queue" \in Then
    BY DEF EnsureSets, Then
  <2> HIDE DEF dying
  <2> QED BY <2>1, <2>2, LaunchCreates
<1>2. CASE PodReturned(p, st, ex)
  BY <1>2, NothingCreated DEF PodReturned, fleetVars
<1> QED BY <1>1, <1>2 DEF Release

(* Every answer, failure, stream event and timeout is such a step.         *)
LEMMA RequestMoves ==
  ASSUME TypeInv, Placed, NEW r \in Requests, RequestStep(r)
  PROVE  MoveStep /\ AwaitStep
<1>1. CASE QueueTimeout(r)
  <2>1. Gone
    BY <1>1 DEF QueueTimeout, Settle, Becomes, podVars, Gone
  <2> QED BY <1>1, <2>1, NothingCreated DEF QueueTimeout, fleetVars, confVars, QuietMove
<1>2. CASE StreamOpens(r)
  <2>1. Streams
    BY <1>2 DEF StreamOpens, Streams
  <2> QED BY <1>2, <2>1, NothingCreated DEF StreamOpens, fleetVars, confVars, QuietMove
<1>3. CASE RequestSucceeds(r) \/ RequestFails(r) \/ StreamCloses(r) \/ StreamTimesOut(r)
  <2>1. on[r] \in Pods /\ executed \in [Pods -> Nat] /\ MaxRequests \in Nat
    BY <1>3, Basics, ConfigAssumption
    DEF RequestSucceeds, RequestFails, StreamCloses, StreamTimesOut, Placed, TypeInv, TypeOK,
        PodTypeOK
  <2>2. executed'[on[r]] \in Nat /\ \E st : Release(on[r], st, executed'[on[r]])
    BY <1>3, <2>1 DEF RequestSucceeds, RequestFails, StreamCloses, StreamTimesOut
  <2>3. destroyed \/ on[r] \notin fleet' \/ executed'[on[r]] < MaxRequests
    BY <2>1, <2>2 DEF Release, PodRecycled, PodReturned, ShouldRecycle, fleetVars
  <2>4. Completes
    BY <1>3, <2>3
    DEF RequestSucceeds, RequestFails, StreamCloses, StreamTimesOut, Settle, Becomes, Completes
  <2>5. update' = update
    BY <1>3 DEF RequestSucceeds, RequestFails, StreamCloses, StreamTimesOut, confVars
  <2> QED BY <2>2, <2>4, <2>5, ReleaseMoves DEF QuietMove
<1> QED BY <1>1, <1>2, <1>3 DEF RequestStep

(* The breaker's rejection.                                                *)
LEMMA RejectEmpties ==
  ASSUME TypeInv, Placed, RejectIfBlocked, on' = on, active' = active
  PROVE  QuietMove
<1>1. CASE StartupBlocked'
  <2>1. on = [r \in Requests |-> IF r \in {} THEN NoPod ELSE on[r]]
    BY Basics
  <2>2. {} \in SUBSET Requests /\ Queued(queue) \cup {} = Queued(queue)
    OBVIOUS
  <2>3. Emptied
    BY <1>1, <2>1, <2>2 DEF RejectIfBlocked, Emptied
  <2> QED BY <2>3 DEF QuietMove
<1>2. CASE ~StartupBlocked'
  BY <1>2 DEF RejectIfBlocked, Unmoved, QuietMove
<1> QED BY <1>1, <1>2

(* A start has settled.                                                    *)
LEMMA SettledOnce ==
  ASSUME TypeInv, Placed, QuietMove, NEW p \in pending, pending' = pending \ {p},
         update'.repl \in {update.repl, NoPod},
         \/ \E r \in AwaitedByInvoke(p) : req'[r] # "starting" /\ ensures' = ensures
         \/ CreationSettles(p)
         \/ update.repl = p /\ update'.repl = NoPod /\ ensures' = ensures
         \/ AwaitedByQueue(p) /\ ensures' = ensures
  PROVE  MoveStep /\ AwaitStep
BY OthersAwaitFewer DEF Settled, QuietMove, MoveStep, AwaitStep

(* A start that succeeded, whoever awaited it.                             *)
LEMMA PodReadyMoves ==
  ASSUME TypeInv, Placed, NEW p \in Pods,
         \/ PodReadyForInvoke(p) \/ PodReadyForQueue(p)
         \/ PodReadyForEnsure(p) \/ PodReadyForRoll(p)
  PROVE  MoveStep /\ AwaitStep
<1> USE Basics
<1>1. p \in pending /\ pending' = pending \ {p}
  BY DEF PodReadyForInvoke, PodReadyForQueue, PodReadyForEnsure, PodReadyForRoll, JoinsIdle, Joins
<1>2. CASE PodReadyForInvoke(p)
  <2>1. PICK r \in AwaitedByInvoke(p) : Execute(r, p)
    BY <1>2 DEF PodReadyForInvoke
  <2>2. r \in Requests /\ req[r] = "starting" /\ req'[r] = "running"
    BY <2>1 DEF AwaitedByInvoke, Execute
  <2>3. Runs
    BY <1>1, <1>2, <2>1, <2>2 DEF PodReadyForInvoke, Runs
  <2> QED BY <1>1, <1>2, <2>1, <2>2, <2>3, SettledOnce DEF PodReadyForInvoke, QuietMove
<1>3. ASSUME JoinsIdle(p) PROVE QuietMove
  BY <1>3 DEF JoinsIdle, Unmoved, QuietMove
<1>4. CASE PodReadyForQueue(p)
  BY <1>1, <1>3, <1>4, SettledOnce DEF PodReadyForQueue
<1>5. CASE PodReadyForEnsure(p)
  BY <1>1, <1>3, <1>5, SettledOnce DEF PodReadyForEnsure
<1>6. CASE PodReadyForRoll(p)
  <2>1. update'.repl = NoPod /\ update.repl = p
    BY <1>6 DEF PodReadyForRoll, TypeInv, TypeOK, ServiceTypeOK, UpdateRecord
  <2> QED BY <1>1, <1>3, <1>6, <2>1, SettledOnce DEF PodReadyForRoll
<1> QED BY <1>2, <1>4, <1>5, <1>6

(* A start that failed, whoever awaited it.                                *)
LEMMA StartFailedMoves ==
  ASSUME TypeInv, Placed, NEW p \in Pods,
         \/ StartFailedForInvoke(p) \/ StartFailedForQueue(p)
         \/ StartFailedForEnsure(p) \/ StartFailedForRoll(p)
  PROVE  MoveStep /\ AwaitStep
<1> USE Basics
<1>1. p \in pending /\ pending' = pending \ {p} /\ active' = active
  <2>1. StartFailed(p)
    BY DEF StartFailedForInvoke, StartFailedForQueue, StartFailedForEnsure, StartFailedForRoll
  <2>2. p \in pending
    BY <2>1 DEF StartFailed, StartRejected, StartTimedOut
  <2> QED BY <2>1, <2>2 DEF StartFailed
<1>2. CASE StartFailedForInvoke(p)
  <2> DEFINE blocked == disabled' /\ fleet = {} /\ pending' = {}
             queues  == ~blocked /\ HasRoom(queue)
  <2>1. PICK r \in AwaitedByInvoke(p) :
          LET lost == IF blocked THEN Queued(queue) \cup {r} ELSE IF queues THEN {} ELSE {r}
          IN  /\ queue' = IF blocked THEN <<>>
                          ELSE IF queues THEN InsertByPriority(queue, r) ELSE queue
              /\ req' = [s \in Requests |-> IF s \in lost THEN "failed"
                                            ELSE IF s = r THEN "queued" ELSE req[s]]
              /\ on' = [on EXCEPT ![r] = NoPod]
    BY <1>2 DEF StartFailedForInvoke
  <2>2. r \in Requests /\ req[r] = "starting"
    BY <2>1 DEF AwaitedByInvoke
  <2> HIDE DEF blocked
  <2>3. ASSUME blocked PROVE QuietMove
    <3>1. on' = [s \in Requests |-> IF s \in {r} THEN NoPod ELSE on[s]]
      BY <2>1, <2>2
    <3>2. /\ req' = [s \in Requests |-> IF s \in Queued(queue) \cup {r} THEN "failed" ELSE req[s]]
          /\ queue' = <<>>
      BY <2>1, <2>2, <2>3
    <3>3. {r} \in SUBSET Requests /\ \A s \in {r} : req[s] = "starting"
      BY <2>2
    <3> QED BY <1>1, <3>1, <3>2, <3>3 DEF Emptied, QuietMove
  <2>4. ASSUME queues PROVE QuietMove
    <3>1. req' = [req EXCEPT ![r] = "queued"]
      BY <2>1, <2>2, <2>4
    <3> QED BY <1>1, <2>1, <2>2, <2>4, <3>1 DEF Joining, Becomes, QuietMove
  <2>5. ASSUME ~blocked /\ ~queues PROVE QuietMove
    <3>1. req' = [req EXCEPT ![r] = "failed"]
      BY <2>1, <2>2, <2>5
    <3> QED BY <1>1, <2>1, <2>2, <2>5, <3>1 DEF Gone, Becomes, QuietMove
  <2>6. req'[r] # "starting"
    BY <2>1, <2>2
  <2>7. QuietMove
    BY <2>3, <2>4, <2>5
  <2>8. ensures' = ensures /\ update' = update
    BY <1>2 DEF StartFailedForInvoke
  <2> QED BY <1>1, <2>1, <2>6, <2>7, <2>8, SettledOnce
<1>3. CASE StartFailedForQueue(p)
  <2>1. QuietMove
    BY <1>1, <1>3, RejectEmpties DEF StartFailedForQueue
  <2> QED BY <1>1, <1>3, <2>1, SettledOnce DEF StartFailedForQueue
<1>4. CASE StartFailedForEnsure(p)
  <2>1. QuietMove
    BY <1>1, <1>4 DEF StartFailedForEnsure, reqVars, Unmoved, QuietMove
  <2> QED BY <1>1, <1>4, <2>1, SettledOnce DEF StartFailedForEnsure
<1>5. CASE StartFailedForRoll(p)
  <2>1. QuietMove
    BY <1>1, <1>5, RejectEmpties DEF StartFailedForRoll
  <2>2. update'.repl = NoPod /\ update.repl = p
    BY <1>5 DEF StartFailedForRoll, TypeInv, TypeOK, ServiceTypeOK, UpdateRecord
  <2> QED BY <1>1, <1>5, <2>1, <2>2, SettledOnce DEF StartFailedForRoll
<1> QED BY <1>2, <1>3, <1>4, <1>5

(* The events of the child processes.                                      *)
LEMMA ProcessMoves ==
  ASSUME TypeInv, Placed, NEW p \in Pods, ProcessStep(p)
  PROVE  MoveStep /\ AwaitStep
<1> USE DEF fleetVars, reqVars, confVars
<1>1. QuietMove /\ update' = update
  BY DEF ProcessStep, StartThrows, PodExit, ChannelError, Unmoved, QuietMove
<1>2. CASE PodExit(p)
  <2> DEFINE st == [status EXCEPT ![p] = "failed"]
             al == alive \ {p}
  <2>1. PICK S \in IF destroyed THEN {{}} ELSE EnsureSets(fleet \ {p}, config) :
          /\ Launch(S, al, st, limit, config)
          /\ IF destroyed THEN UNCHANGED ensures ELSE AwaitAll(S, "queue")
    BY <1>2 DEF PodExit
  <2>2. S \in SUBSET Fresh /\ "queue" \in Then
    BY <2>1 DEF EnsureSets, Then
  <2> HIDE DEF st, al
  <2> QED BY <1>1, <2>1, <2>2, LaunchCreates
<1>3. CASE StartThrows(p) \/ ChannelError(p)
  BY <1>1, <1>3, NothingCreated DEF StartThrows, ChannelError
<1> QED BY <1>2, <1>3 DEF ProcessStep

(* Every pass of the loop of processQueue.                                 *)
LEMMA DrainMoves ==
  ASSUME TypeInv, Placed, DrainStep
  PROVE  MoveStep /\ AwaitStep
<1> USE DEF fleetVars, confVars, podVars
<1>1. update' = update /\ ensures' = ensures
  BY DEF DrainStep, DrainDispatches, DrainStops, DrainScalesUp
<1>2. CASE DrainDispatches
  <2>1. queue # <<>> /\ Head(queue) \in Requests
    BY <1>2, TailType DEF DrainDispatches, TypeInv, TypeOK, RequestTypeOK, LoopHasWork
  <2>2. PICK p \in Pods : Execute(Head(queue), p) /\ p \in Selectable
    BY <1>2, CandidatesArePods DEF DrainDispatches, LeastLoaded, TypeInv
  <2>3. Runs
    BY <1>2, <2>1, <2>2 DEF DrainDispatches, Runs
  <2> QED BY <1>1, <1>2, <2>3, NothingCreated DEF DrainDispatches, QuietMove
<1>3. CASE DrainStops
  <2>1. QuietMove
    BY <1>3, RejectEmpties DEF DrainStops
  <2> QED BY <1>1, <1>3, <2>1, NothingCreated DEF DrainStops
<1>4. CASE DrainScalesUp
  <2>1. QuietMove
    BY <1>4 DEF DrainScalesUp, reqVars, Unmoved, QuietMove
  <2>2. PICK p \in Fresh : Launch({p}, alive, status, limit, config)
    BY <1>4 DEF DrainScalesUp
  <2>3. {p} \in SUBSET Fresh /\ "queue" \in Then
    BY DEF Then
  <2> QED BY <1>1, <2>1, <2>2, <2>3, LaunchCreates
<1> QED BY <1>2, <1>3, <1>4 DEF DrainStep

(* initialize(), the end of ensureMinPods and the timers.                  *)
LEMMA BackgroundMoves ==
  ASSUME TypeInv, Placed, Initialize \/ EnsureSettles \/ TimerStep
  PROVE  MoveStep /\ AwaitStep
<1> USE DEF fleetVars, confVars, podVars, startVars
<1>1. ASSUME QuietMove, update' = update, NEW next \in Then,
             \E S \in EnsureSets(fleet, config) :
               Launch(S, alive, status, limit, config) /\ AwaitAll(S, next)
      PROVE  MoveStep /\ AwaitStep
  BY <1>1, LaunchCreates DEF EnsureSets
<1>2. CASE Initialize
  <2>1. QuietMove /\ update' = update
    BY <1>2 DEF Initialize, reqVars, Unmoved, QuietMove
  <2> QED BY <1>1, <1>2, <2>1 DEF Initialize, Then
<1>3. CASE EnsureSettles
  <2>1. QuietMove
    BY <1>3, RejectEmpties DEF EnsureSettles
  <2>2. pending' = pending /\ ensures' \subseteq ensures /\ update' = update
    BY <1>3 DEF EnsureSettles
  <2> QED BY <2>1, <2>2, NothingCreated
<1>4. CASE BackoffElapses \/ IdleCheck
  <2>1. QuietMove
    BY <1>4 DEF BackoffElapses, IdleCheck, reqVars, Unmoved, QuietMove
  <2> QED BY <1>4, <2>1, NothingCreated DEF BackoffElapses, IdleCheck
<1>5. CASE RetryTimerFires
  <2>1. QuietMove /\ update' = update
    BY <1>5 DEF RetryTimerFires, reqVars, Unmoved, QuietMove
  <2> QED BY <1>1, <1>5, <2>1 DEF RetryTimerFires, Then
<1> QED BY <1>2, <1>3, <1>4, <1>5 DEF TimerStep

(* Every step of updateConfig.                                             *)
LEMMA UpdateMoves ==
  ASSUME TypeInv, Placed, UpdateStep \/ \E c \in Configs : UpdateConfig(c)
  PROVE  MoveStep /\ AwaitStep
<1> USE DEF fleetVars, podVars
<1>1. update \in UpdateRecord
  BY DEF TypeInv, TypeOK, ServiceTypeOK
<1>2. Unmoved
  BY DEF UpdateStep, UpdateConfig, RollBegins, RollSkips, RollCreates, RollWithout, RollTurn,
         RollDestroys, RollKeeps, UpdateFinishes, reqVars, Unmoved
<1>3. QuietMove /\ MoveStep
  BY <1>2 DEF QuietMove, MoveStep
<1>4. ASSUME NEW c \in Configs, UpdateConfig(c) PROVE AwaitStep
  <2> DEFINE lim == HotLimits(c)
  <2>1. PICK S \in EnsureSets(fleet, c) :
          Launch(S, alive, status, lim, c) /\ AwaitAll(S, "update")
    BY <1>4 DEF UpdateConfig
  <2>2. S \in SUBSET Fresh /\ "update" \in Then
    BY DEF EnsureSets, Then
  <2>3. update'.repl = NoPod
    BY <1>4 DEF UpdateConfig, NoUpdate
  <2> HIDE DEF lim
  <2> QED BY <1>3, <2>1, <2>2, <2>3, LaunchCreates
<1>5. CASE RollBegins \/ RollDestroys \/ UpdateFinishes
  <2>1. update'.repl \in {update.repl, NoPod}
    <3>1. CASE RollBegins
      BY <1>1, <3>1 DEF RollBegins, UpdateRecord
    <3>2. CASE RollDestroys
      BY <1>1, <3>2 DEF RollDestroys, UpdateRecord
    <3>3. CASE UpdateFinishes
      BY <3>3 DEF UpdateFinishes, NoUpdate
    <3> QED BY <1>5, <3>1, <3>2, <3>3
  <2>2. pending' = pending /\ ensures' = ensures
    BY <1>5 DEF RollBegins, RollDestroys, UpdateFinishes
  <2> QED BY <1>3, <2>1, <2>2, NothingCreated
<1>6. ASSUME NEW p \in Pods, RollSkips(p) \/ RollWithout(p) PROVE AwaitStep
  <2>1. update'.repl \in {update.repl, NoPod}
    BY <1>1, <1>6 DEF RollSkips, RollWithout, UpdateRecord
  <2>2. pending' = pending /\ ensures' = ensures
    BY <1>6 DEF RollSkips, RollWithout
  <2> QED BY <1>3, <2>1, <2>2, NothingCreated
<1>7. ASSUME NEW p \in Pods, RollCreates(p) PROVE AwaitStep
  <2>1. PICK q \in Fresh :
          /\ Launch({q}, alive, status, limit, config)
          /\ update' = [update EXCEPT !.todo = @ \ {p}, !.cur = p, !.repl = q]
    BY <1>7 DEF RollCreates
  <2>2. update'.repl = q
    BY <1>1, <2>1 DEF UpdateRecord
  <2>3. ensures' = ensures /\ req' = req /\ on' = on
    BY <1>2, <1>7 DEF RollCreates, Unmoved
  <2>4. pending' = pending \cup {q}
    BY <2>1, LaunchPending
  <2> QED BY <2>2, <2>3, <2>4 DEF CreatesForRoll, AwaitStep
<1>8. CASE RollKeeps
  <2>1. update'.repl = update.repl
    BY <1>1, <1>8 DEF RollKeeps, UpdateRecord
  <2>2. CASE UNCHANGED <<pending, ensures>>
    BY <1>3, <2>1, <2>2, NothingCreated
  <2>3. ASSUME NEW S \in EnsureSets(fleet, config),
               Launch(S, alive, status, limit, config), AwaitAll(S, "update")
        PROVE  AwaitStep
    <3>1. S \in SUBSET Fresh /\ "update" \in Then
      BY DEF EnsureSets, Then
    <3> QED BY <1>3, <2>1, <2>3, <3>1, LaunchCreates
  <2> QED BY <1>3, <1>8, <2>2, <2>3 DEF RollKeeps
<1> QED BY <1>3, <1>4, <1>5, <1>6, <1>7, <1>8 DEF UpdateStep

(* Closing the service, and each step of it.                               *)
LEMMA CloseMoves ==
  ASSUME TypeInv, Placed, CloseStep
  PROVE  MoveStep /\ AwaitStep
<1>1. UNCHANGED <<pending, ensures, update, on, active>>
  BY DEF CloseStep, Destroy, DrainTo, CloseFleet, ClosePoll, CloseTimeout, CloseEnds, confVars
<1>2. CASE Destroy \/ DrainTo
  <2>1. PICK s \in {"failed", "moved"} : EmptyQueue(s)
    BY <1>2 DEF Destroy, DrainTo
  <2>2. on' = [r \in Requests |-> IF r \in {} THEN NoPod ELSE on[r]]
    BY <1>1, Basics
  <2>3. {} \in SUBSET Requests /\ Queued(queue) \cup {} = Queued(queue)
    OBVIOUS
  <2>4. Emptied
    BY <1>1, <2>1, <2>2, <2>3 DEF EmptyQueue, Emptied
  <2> QED BY <1>1, <2>4, NothingCreated DEF QuietMove
<1>3. CASE ClosePoll \/ CloseTimeout
  <2>1. Unmoved
    BY <1>3 DEF ClosePoll, CloseTimeout, CloseEnds, Unmoved
  <2> QED BY <1>1, <2>1, NothingCreated DEF QuietMove
<1> QED BY <1>2, <1>3 DEF CloseStep

(* Every step of the service is such a step.                               *)
LEMMA StepsMove ==
  ASSUME TypeInv, Placed, [Next]_vars
  PROVE  MoveStep /\ AwaitStep
<1>1. CASE UNCHANGED vars
  <2>1. Unmoved /\ UNCHANGED <<pending, ensures, update>>
    BY <1>1 DEF vars, podVars, fleetVars, reqVars, confVars, Unmoved
  <2> QED BY <2>1, NothingCreated DEF QuietMove
<1>2. ASSUME NEW p \in Pods, StartStep(p) PROVE MoveStep /\ AwaitStep
  BY <1>2, PodReadyMoves, StartFailedMoves DEF StartStep
<1> QED
  BY <1>1, <1>2, InvokeMoves, RequestMoves, ProcessMoves, DrainMoves, BackgroundMoves, UpdateMoves,
     CloseMoves
  DEF Next

(* The initial state.                                                      *)
LEMMA InitPlaced == Init => PlaceInv
<1> SUFFICES ASSUME Init PROVE PlaceInv
  OBVIOUS
<1>1. TypeInv /\ NoPod \notin Pods
  BY InitTypes, PodsAssumption
<1>2. Placed
  BY EmptyQueueIsPlaced DEF Init, Placed
<1>3. ActiveMatches
  <2>1. \A p \in Pods : InFlight(p) = {}
    BY DEF Init, InFlight
  <2> QED BY <2>1, FS_EmptySet DEF Init, ActiveMatches
<1>4. Awaited
  BY <1>1 DEF Init, Awaited, Awaits, NoUpdate
<1> QED BY <1>1, <1>2, <1>3, <1>4 DEF PlaceInv

(* Pods and requests agree in every reachable state: a pod counts the      *)
(* requests that run or stream on it, whatever ends them and in whatever   *)
(* order, and a live request is once in the queue, or awaits a pod that is *)
(* still starting, or is on a pod, however the awaits of invoke,           *)
(* ensureMinPods, rollPods and processQueue interleave.                    *)
THEOREM PodsAndRequestsAgree == Spec => []PodsMatchRequests
<1>1. Init => PlaceInv
  BY InitPlaced
<1>2. PlaceInv /\ [Next]_vars => PlaceInv'
  BY StepTypes, StepsMove, MovesKeepPlaces, MovesKeepCounters, AwaitsStaySingle DEF PlaceInv
<1>3. PlaceInv => PodsMatchRequests
  <2> SUFFICES ASSUME PlaceInv PROVE PodsMatchRequests
    OBVIOUS
  <2>1. ASSUME NEW r \in Requests, req[r] = "starting" PROVE on[r] \in pending
    <3>1. on[r] \in Pods
      BY <2>1 DEF PlaceInv, TypeInv, Hosted
    <3> QED BY <2>1, <3>1 DEF PlaceInv, Awaited, Awaits
  <2> QED BY <2>1 DEF PlaceInv, Placed, PodsMatchRequests, Placement
<1> QED BY <1>1, <1>2, <1>3, PTL DEF Spec
-----------------------------------------------------------------------------
(***************************************************************************)
(* Host sessions follow the invocations they belong to, for every number   *)
(* of pods and requests and every configuration.                           *)
(***************************************************************************)

(* A service that closes has been destroyed or drained: no session of an   *)
(* open service goes when the pods do.                                     *)
ClosingIsFinal == closing # "open" => destroyed

SessionInv == TypeInv /\ Placed /\ ClosingIsFinal /\ SessionsFollowRequests

(* What a step may do to the sessions: some begin with the request, and    *)
(* those of requests that end are taken away, by closing perhaps more.     *)
Follows ==
  /\ destroyed => destroyed'
  /\ \A r \in Requests :
       /\ Live(r)' => Live(r) \/ r \in sessions' \/ destroyed'
       /\ r \in sessions' => Live(r)' \/ (r \in sessions /\ ~Live(r))
       /\ r \in sessions /\ ~destroyed' /\ Live(r)' => r \in sessions'

(* Such a step keeps sessions and live requests together.                  *)
LEMMA FollowsKeeps ==
  ASSUME SessionsFollowRequests, Follows
  PROVE  SessionsFollowRequests'
BY DEF SessionsFollowRequests, Follows

(* Every way an invocation begins takes care of its session.               *)
LEMMA InvokeFollows ==
  ASSUME TypeInv, Placed, NEW r \in Requests, Invoke(r)
  PROVE  Follows
<1> USE Basics DEF Follows, Live, lifeVars
<1>1. CASE InvokeForwarded(r)
  BY <1>1 DEF InvokeForwarded
<1>2. CASE InvokeRefused(r)
  BY <1>2 DEF InvokeRefused
<1>3. CASE InvokeOnPod(r)
  BY <1>3 DEF InvokeOnPod, Execute
<1>4. CASE InvokeColdStart(r)
  BY <1>4 DEF InvokeColdStart
<1>5. CASE InvokeBlocked(r)
  BY <1>5 DEF InvokeBlocked, Settle
<1>6. CASE InvokeQueued(r)
  BY <1>6 DEF InvokeQueued
<1> QED BY <1>1, <1>2, <1>3, <1>4, <1>5, <1>6 DEF Invoke

(* An answer, failure, stream end or timeout takes the session with it.    *)
LEMMA RequestFollows ==
  ASSUME TypeInv, Placed, NEW r \in Requests, RequestStep(r)
  PROVE  Follows
<1> USE Basics DEF Follows, Live, lifeVars
<1>1. CASE StreamOpens(r)
  BY <1>1 DEF StreamOpens
<1>2. CASE ~StreamOpens(r)
  <2>1. PICK s \in {"done", "failed"} : Settle(r, s) /\ destroyed' = destroyed
    BY <1>2 DEF RequestStep, QueueTimeout, RequestSucceeds, RequestFails, StreamCloses,
                StreamTimesOut
  <2> QED BY <2>1 DEF Settle
<1> QED BY <1>1, <1>2

(* The breaker takes the sessions of those it rejects.                     *)
LEMMA RejectFollows ==
  ASSUME TypeInv, Placed, RejectIfBlocked, destroyed' = destroyed
  PROVE  Follows
<1> USE Basics DEF Follows, Live
<1>1. CASE StartupBlocked'
  BY <1>1 DEF RejectIfBlocked
<1>2. CASE ~StartupBlocked'
  BY <1>2 DEF RejectIfBlocked
<1> QED BY <1>1, <1>2

(* A start that succeeded or failed.                                       *)
LEMMA StartFollows ==
  ASSUME TypeInv, Placed, NEW p \in Pods, StartStep(p)
  PROVE  Follows
<1> USE Basics DEF lifeVars
<1>1. destroyed' = destroyed
  BY DEF StartStep, PodReadyForInvoke, PodReadyForQueue, PodReadyForEnsure, PodReadyForRoll,
         StartFailedForInvoke, StartFailedForQueue, StartFailedForEnsure, StartFailedForRoll
<1>2. CASE PodReadyForInvoke(p)
  <2>1. PICK r \in Requests : req[r] = "starting" /\ Execute(r, p) /\ sessions' = sessions
    BY <1>2 DEF PodReadyForInvoke, AwaitedByInvoke
  <2> QED BY <1>1, <2>1 DEF Execute, Follows, Live
<1>3. CASE PodReadyForQueue(p) \/ PodReadyForEnsure(p) \/ PodReadyForRoll(p)
           \/ StartFailedForEnsure(p)
  <2>1. req' = req /\ sessions' = sessions
    BY <1>3
    DEF PodReadyForQueue, PodReadyForEnsure, PodReadyForRoll, JoinsIdle, StartFailedForEnsure,
        reqVars
  <2> QED BY <1>1, <2>1 DEF Follows, Live
<1>4. CASE StartFailedForQueue(p) \/ StartFailedForRoll(p)
  BY <1>1, <1>4, RejectFollows DEF StartFailedForQueue, StartFailedForRoll
<1>5. CASE StartFailedForInvoke(p)
  <2>1. PICK r \in Requests, lost \in SUBSET Requests :
          /\ req[r] = "starting"
          /\ req' = [s \in Requests |-> IF s \in lost THEN "failed"
                                        ELSE IF s = r THEN "queued" ELSE req[s]]
          /\ sessions' = sessions \ lost
    <3> DEFINE blocked == disabled' /\ fleet = {} /\ pending' = {}
               queues  == ~blocked /\ HasRoom(queue)
               lost(r) == IF blocked THEN Queued(queue) \cup {r} ELSE IF queues THEN {} ELSE {r}
    <3>1. PICK r \in AwaitedByInvoke(p) :
            /\ req' = [s \in Requests |-> IF s \in lost(r) THEN "failed"
                                          ELSE IF s = r THEN "queued" ELSE req[s]]
            /\ sessions' = sessions \ lost(r)
      BY <1>5 DEF StartFailedForInvoke
    <3>2. r \in Requests /\ req[r] = "starting" /\ lost(r) \in SUBSET Requests
      BY DEF AwaitedByInvoke
    <3> HIDE DEF lost
    <3> QED BY <3>1, <3>2
  <2> QED BY <1>1, <2>1 DEF Follows, Live
<1> QED BY <1>2, <1>3, <1>4, <1>5 DEF StartStep

(* A pass of the loop of processQueue.                                     *)
LEMMA DrainFollows ==
  ASSUME TypeInv, Placed, DrainStep
  PROVE  Follows
<1> USE Basics DEF lifeVars
<1>1. CASE DrainDispatches
  <2>1. queue # <<>>
    BY <1>1 DEF DrainDispatches, TypeInv, LoopHasWork
  <2>2. Head(queue) \in Requests /\ req[Head(queue)] = "queued"
    BY <2>1, TailType, TailKeepsDistinct DEF Placed
  <2>3. PICK p \in Pods : Execute(Head(queue), p)
    BY <1>1, CandidatesArePods DEF DrainDispatches, TypeInv
  <2> QED BY <1>1, <2>2, <2>3 DEF DrainDispatches, Execute, Follows, Live
<1>2. CASE DrainStops
  BY <1>2, RejectFollows DEF DrainStops
<1>3. CASE DrainScalesUp
  BY <1>3 DEF DrainScalesUp, reqVars, Follows, Live
<1> QED BY <1>1, <1>2, <1>3 DEF DrainStep

(* Closing: the sessions of the open service may all go, it is closed now. *)
LEMMA CloseFollows ==
  ASSUME TypeInv, Placed, ClosingIsFinal, CloseStep
  PROVE  Follows
<1> USE Basics DEF Follows, Live
<1>1. CASE Destroy
  BY <1>1 DEF Destroy, EmptyQueue
<1>2. CASE DrainTo
  BY <1>2 DEF DrainTo, EmptyQueue
<1>3. CASE ClosePoll \/ CloseTimeout
  BY <1>3 DEF ClosePoll, CloseTimeout, CloseEnds, ClosingIsFinal
<1> QED BY <1>1, <1>2, <1>3 DEF CloseStep

(* Everything else leaves requests and sessions alone.                     *)
LEMMA RestFollows ==
  ASSUME \/ UNCHANGED vars \/ Initialize \/ TimerStep \/ UpdateStep
         \/ \E p \in Pods : ProcessStep(p)
         \/ \E c \in Configs : UpdateConfig(c)
  PROVE  Follows
<1>1. req' = req /\ sessions' = sessions /\ destroyed' = destroyed
  BY DEF vars, reqVars, lifeVars, Initialize, TimerStep, BackoffElapses, RetryTimerFires,
         IdleCheck, UpdateStep, RollBegins, RollSkips, RollCreates, RollWithout, RollDestroys,
         RollKeeps, UpdateFinishes, ProcessStep, StartThrows, PodExit, ChannelError, UpdateConfig
<1> QED BY <1>1 DEF Follows, Live

(* Only the two ways of closing begin to close, and nothing reopens.       *)
LEMMA ClosingStaysFinal ==
  ASSUME ClosingIsFinal, [Next]_vars
  PROVE  ClosingIsFinal'
<1>1. CASE CloseStep
  BY <1>1
  DEF CloseStep, Destroy, DrainTo, ClosePoll, CloseTimeout, CloseEnds, ClosingIsFinal
<1>2. CASE ~CloseStep
  <2>1. closing' = closing /\ destroyed' = destroyed
    <3> USE DEF lifeVars
    <3>1. ASSUME NEW r \in Requests, Invoke(r) \/ RequestStep(r)
          PROVE  closing' = closing /\ destroyed' = destroyed
      BY <3>1
      DEF Invoke, InvokeForwarded, InvokeRefused, InvokeOnPod, InvokeColdStart, InvokeBlocked,
          InvokeQueued, RequestStep, QueueTimeout, RequestSucceeds, RequestFails, StreamOpens,
          StreamCloses, StreamTimesOut
    <3>2. ASSUME NEW p \in Pods, StartStep(p) \/ ProcessStep(p)
          PROVE  closing' = closing /\ destroyed' = destroyed
      BY <3>2
      DEF StartStep, PodReadyForInvoke, PodReadyForQueue, PodReadyForEnsure, PodReadyForRoll,
          StartFailedForInvoke, StartFailedForQueue, StartFailedForEnsure, StartFailedForRoll,
          ProcessStep, StartThrows, PodExit, ChannelError
    <3>3. CASE \/ Initialize \/ EnsureSettles \/ DrainStep \/ TimerStep \/ UpdateStep
               \/ \E c \in Configs : UpdateConfig(c)
      BY <3>3
      DEF Initialize, EnsureSettles, DrainStep, DrainDispatches, DrainStops, DrainScalesUp,
          TimerStep, BackoffElapses, RetryTimerFires, IdleCheck, UpdateStep, RollBegins, RollSkips,
          RollCreates, RollWithout, RollDestroys, RollKeeps, UpdateFinishes, UpdateConfig
    <3>4. CASE UNCHANGED vars
      BY <3>4 DEF vars
    <3> QED BY <1>2, <3>1, <3>2, <3>3, <3>4 DEF Next
  <2> QED BY <2>1 DEF ClosingIsFinal
<1> QED BY <1>1, <1>2

(* Every step takes care of the sessions.                                  *)
LEMMA StepsFollow ==
  ASSUME TypeInv, Placed, ClosingIsFinal, [Next]_vars
  PROVE  Follows
<1>1. CASE EnsureSettles
  BY <1>1, RejectFollows DEF EnsureSettles
<1> QED
  BY <1>1, InvokeFollows, RequestFollows, StartFollows, DrainFollows, CloseFollows, RestFollows
  DEF Next

(* The host session of an invocation is there as long as its plugin may    *)
(* call back while the service is open, and never longer, whichever of the *)
(* many ways an invocation ends comes first.                               *)
THEOREM SessionsFollow == Spec => []SessionsFollowRequests
<1>1. Init => SessionInv
  <2> SUFFICES ASSUME Init PROVE SessionInv
    OBVIOUS
  <2>1. TypeInv /\ Placed
    BY InitPlaced DEF PlaceInv
  <2>2. ClosingIsFinal /\ SessionsFollowRequests
    BY DEF Init, ClosingIsFinal, SessionsFollowRequests, Live
  <2> QED BY <2>1, <2>2 DEF SessionInv
<1>2. SessionInv /\ [Next]_vars => SessionInv'
  BY StepTypes, StepsMove, MovesKeepPlaces, ClosingStaysFinal, StepsFollow, FollowsKeeps
  DEF SessionInv
<1>3. SessionInv => SessionsFollowRequests
  BY DEF SessionInv
<1> QED BY <1>1, <1>2, <1>3, PTL DEF Spec
-----------------------------------------------------------------------------
(***************************************************************************)
(* Requests of one priority are served in the order they joined the queue, *)
(* for every number of pods and requests and every configuration.          *)
(***************************************************************************)

(* The queue changes by its operations only, and a request that joins it   *)
(* was not waiting.                                                        *)
LEMMA MovesOfTheQueue ==
  ASSUME TypeInv, Placed, MoveStep
  PROVE  \/ queue' \in {queue, <<>>}
         \/ \E r \in Requests \ Queued(queue) : queue' = InsertByPriority(queue, r)
         \/ \E r \in Queued(queue) : queue' = Without(queue, r)
         \/ queue # <<>> /\ queue' = Tail(queue)
<1>1. CASE Joining
  <2>1. PICK r \in Requests : req[r] \in {"new", "starting"} /\ queue' = InsertByPriority(queue, r)
    BY <1>1 DEF Joining
  <2>2. r \notin Queued(queue)
    BY <2>1 DEF Placed
  <2> QED BY <2>1, <2>2
<1>2. CASE ~Joining
  BY <1>2 DEF MoveStep, Unmoved, Runs, Streams, Completes, Starting, Gone, Emptied
<1> QED BY <1>1, <1>2

(* What QueueIsFair says of one step.                                      *)
Fair ==
  \A a, b \in Queued(queue') :
    a \in Queued(queue) /\ a # b
      /\ (IF b \in Queued(queue) THEN Position(queue, a) < Position(queue, b)
                                 ELSE Priority[a] >= Priority[b])
    => Position(queue', a) < Position(queue', b)

(* Every operation of the queue is fair.                                   *)
LEMMA MovesAreFair ==
  ASSUME TypeInv, Placed, QueueIsSorted, MoveStep
  PROVE  Fair
<1>1. queue \in Seq(Requests) /\ NoDuplicates(queue) /\ SortedByPriority(queue)
  BY Basics DEF Placed, QueueIsSorted
<1>2. CASE queue' \in {queue, <<>>}
  BY <1>2, EmptyQueueIsPlaced DEF Fair
<1>3. ASSUME NEW r \in Requests \ Queued(queue), queue' = InsertByPriority(queue, r)
      PROVE  Fair
  <2>1. Queued(queue') = Queued(queue) \cup {r}
    BY <1>1, <1>3, InsertKeepsDistinct
  <2>2. /\ \A a, b \in Queued(queue) : Position(queue, a) < Position(queue, b) =>
             Position(queue', a) < Position(queue', b)
        /\ \A a \in Queued(queue) : Priority[a] >= Priority[r] =>
             Position(queue', a) < Position(queue', r)
    BY <1>1, <1>3, InsertIsFair
  <2> QED BY <2>1, <2>2 DEF Fair
<1>4. ASSUME NEW r \in Queued(queue), queue' = Without(queue, r)
      PROVE  Fair
  <2>1. Queued(queue') \subseteq Queued(queue)
    BY <1>1, <1>4, WithoutKeepsDistinct
  <2> QED BY <1>1, <1>4, <2>1, WithoutIsFair DEF Fair
<1>5. CASE queue # <<>> /\ queue' = Tail(queue)
  <2>1. Queued(queue') \subseteq Queued(queue)
    BY <1>1, <1>5, TailKeepsDistinct
  <2> QED BY <1>1, <1>5, <2>1, TailIsFair DEF Fair
<1> QED BY <1>2, <1>3, <1>4, <1>5, MovesOfTheQueue

(* A request that joins the queue comes behind those that outrank or equal *)
(* it, and nothing ever reorders the others: not a failed cold start that  *)
(* comes back to the queue, nor a timeout in its middle.                   *)
THEOREM QueueFair == Spec => QueueIsFair
<1>1. Init => PlaceInv
  BY InitPlaced
<1>2. PlaceInv /\ [Next]_vars => PlaceInv'
  BY StepTypes, StepsMove, MovesKeepPlaces, MovesKeepCounters, AwaitsStaySingle DEF PlaceInv
<1>3. PlaceInv /\ QueueIsSorted /\ [Next]_vars => [Fair]_vars
  BY StepsMove, MovesAreFair DEF PlaceInv
<1>4. QueueIsFair <=> [][Fair]_vars
  BY DEF QueueIsFair, Fair
<1> QED BY <1>1, <1>2, <1>3, <1>4, QueueSorted, PTL DEF Spec
-----------------------------------------------------------------------------
(***************************************************************************)
(* The safety part of the refinement: every behaviour of a plugin service  *)
(* is one that RequestLifecycle allows, for every number of pods and       *)
(* requests and every configuration.                                       *)
(***************************************************************************)

Stages == [r \in Requests |-> Stage(r)]

(* A request that has not begun to run may still be given up.              *)
LEMMA WaitingIsUnserved ==
  ASSUME NEW r \in Requests, req[r] \in {"new", "starting", "queued"}
  PROVE  r \in Lifecycle!Unserved
BY DEF Lifecycle!Unserved, Stage

(* One request changes its stage.                                          *)
LEMMA OneBecomes ==
  ASSUME NEW r \in Requests, \A q \in Requests \ {r} : req'[q] = req[q]
  PROVE  Lifecycle!Become({r}, Stage(r)')
BY DEF Lifecycle!Become, Stage

(* Whatever a step of the service does to its requests is a step of the    *)
(* abstract specification, or none of its business.                        *)
LEMMA MovesRefine ==
  ASSUME TypeInv, Placed, MoveStep
  PROVE  [Lifecycle!Next]_Stages
<1> USE Basics
<1>1. ASSUME NEW r \in Requests, \A q \in Requests \ {r} : req'[q] = req[q], Stage(r)' = Stage(r)
      PROVE  Stages' = Stages
  BY <1>1 DEF Stages, Stage
<1>2. ASSUME NEW r \in Requests, \A q \in Requests \ {r} : req'[q] = req[q],
             req[r] \in {"new", "starting", "queued"}, req'[r] \in {"failed", "moved"}
      PROVE  Lifecycle!Next
  <2>1. Lifecycle!Become({r}, req'[r])
    <3>1. Stage(r)' = req'[r]
      BY <1>2 DEF Stage
    <3> QED BY <1>2, <3>1, OneBecomes
  <2>2. Lifecycle!GiveUp({r}) /\ {r} \in SUBSET Lifecycle!Unserved
    BY <1>2, <2>1, WaitingIsUnserved DEF Lifecycle!GiveUp
  <2> QED BY <2>2 DEF Lifecycle!Next
<1>3. CASE Unmoved
  BY <1>3 DEF Unmoved, Stages, Stage
<1>4. CASE Runs
  <2>1. PICK r \in Requests, p \in Pods :
          /\ Execute(r, p)
          /\ req[r] \in {"new", "starting"} \/ (queue # <<>> /\ r = Head(queue))
    BY <1>4 DEF Runs
  <2>2. CASE queue # <<>> /\ r = Head(queue)
    <3>1. req[r] = "queued"
      BY <2>2, TailKeepsDistinct DEF Placed
    <3>2. Stage(r) = "waiting" /\ Stage(r)' = "serving"
      BY <2>1, <3>1 DEF Execute, Stage
    <3>3. Lifecycle!Become({r}, "serving")
      BY <2>1, <3>2, OneBecomes DEF Execute
    <3> QED BY <3>2, <3>3 DEF Lifecycle!Serve, Lifecycle!Next
  <2>3. CASE req[r] \in {"new", "starting"}
    <3>1. Stage(r) \in {"new", "waiting"} /\ Stage(r)' = "serving"
      BY <2>1, <2>3 DEF Execute, Stage
    <3>2. Lifecycle!Become({r}, "serving")
      BY <2>1, <3>1, OneBecomes DEF Execute
    <3> QED BY <3>1, <3>2 DEF Lifecycle!Serve, Lifecycle!Next
  <2> QED BY <2>1, <2>2, <2>3
<1>5. CASE Streams
  <2>1. PICK r \in Requests : req[r] = "running" /\ req' = [req EXCEPT ![r] = "streaming"]
    BY <1>5 DEF Streams
  <2>2. Stage(r)' = Stage(r)
    BY <2>1 DEF Stage
  <2> QED BY <1>1, <2>1, <2>2
<1>6. CASE Completes
  <2>1. PICK r \in Requests, s \in {"done", "failed"} :
          req[r] \in {"running", "streaming"} /\ req' = [req EXCEPT ![r] = s]
    BY <1>6 DEF Completes, Becomes
  <2>2. Stage(r) = "serving" /\ Stage(r)' = s
    BY <2>1 DEF Stage
  <2>3. Lifecycle!Become({r}, s)
    BY <2>1, <2>2, OneBecomes
  <2> QED BY <2>2, <2>3 DEF Lifecycle!Answer, Lifecycle!Next
<1>7. ASSUME NEW r \in Requests, \A q \in Requests \ {r} : req'[q] = req[q],
             req[r] \in {"new", "starting"}, req'[r] \in {"queued", "starting"}
      PROVE  [Lifecycle!Next]_Stages
  <2>1. Stage(r)' = "waiting"
    BY <1>7 DEF Stage
  <2>2. CASE req[r] = "new"
    <3>1. Lifecycle!Become({r}, "waiting")
      BY <1>7, <2>1, OneBecomes
    <3>2. Stage(r) = "new"
      BY <2>2 DEF Stage
    <3> QED BY <3>1, <3>2 DEF Lifecycle!Accept, Lifecycle!Next
  <2>3. CASE req[r] = "starting"
    <3>1. Stage(r)' = Stage(r)
      BY <2>1, <2>3 DEF Stage
    <3> QED BY <1>1, <1>7, <3>1
  <2> QED BY <1>7, <2>2, <2>3
<1>8. CASE Joining
  <2>1. PICK r \in Requests : req[r] \in {"new", "starting"} /\ req' = [req EXCEPT ![r] = "queued"]
    BY <1>8 DEF Joining, Becomes
  <2> QED BY <1>7, <2>1
<1>9. CASE Starting
  <2>1. PICK r \in Requests : req[r] = "new" /\ req' = [req EXCEPT ![r] = "starting"]
    BY <1>9 DEF Starting, Becomes
  <2> QED BY <1>7, <2>1
<1>10. CASE Gone
  <2>1. PICK r \in Requests, s \in {"failed", "moved"} :
          req[r] \in {"new", "starting", "queued"} /\ req' = [req EXCEPT ![r] = s]
    BY <1>10 DEF Gone, Becomes, Placed
  <2> QED BY <1>2, <2>1
<1>11. CASE Emptied
  <2>1. PICK R \in SUBSET Requests, s \in {"failed", "moved"} :
          /\ \A r \in R : req[r] = "starting"
          /\ req' = [r \in Requests |-> IF r \in Queued(queue) \cup R THEN s ELSE req[r]]
    BY <1>11 DEF Emptied
  <2> DEFINE S == Queued(queue) \cup R
  <2>2. S \in SUBSET Lifecycle!Unserved
    BY <2>1, WaitingIsUnserved DEF Placed
  <2>3. \A r \in Requests : Stage(r)' = IF r \in S THEN s ELSE Stage(r)
    BY <2>1 DEF Stage
  <2> HIDE DEF S
  <2>4. Lifecycle!Become(S, s)
    BY <2>3 DEF Lifecycle!Become
  <2> QED BY <2>2, <2>4 DEF Lifecycle!GiveUp, Lifecycle!Next
<1> QED BY <1>3, <1>4, <1>5, <1>6, <1>8, <1>9, <1>10, <1>11 DEF MoveStep

(* The promise of invoke, without its fairness: an invocation is answered  *)
(* once, a result comes only from an execution, it is executed at most     *)
(* once, and it is handed to the replacement of a drained service only     *)
(* while it has not begun.                                                 *)
THEOREM Refines == Spec => Lifecycle!Init /\ [][Lifecycle!Next]_Stages
<1>1. Init => Lifecycle!Init
  BY DEF Init, Lifecycle!Init, Stage
<1>2. Init => TypeInv /\ Placed
  BY InitPlaced DEF PlaceInv
<1>3. TypeInv /\ Placed /\ [Next]_vars => (TypeInv /\ Placed)'
  BY StepTypes, StepsMove, MovesKeepPlaces
<1>4. TypeInv /\ Placed /\ [Next]_vars => [Lifecycle!Next]_Stages
  BY StepsMove, MovesRefine
<1> QED BY <1>1, <1>2, <1>3, <1>4, PTL DEF Spec

-----------------------------------------------------------------------------
(***************************************************************************)
(* What scheduling keeps: pods execute no more than they are allowed, and  *)
(* waiting requests are always woken, for every number of pods and         *)
(* requests and every configuration.                                       *)
(***************************************************************************)

(* What a step may do to the processes, with what it does to the counts of *)
(* executed requests: pods are launched, perhaps for one that exits, one   *)
(* joins the fleet, some leave it, or a start throws.                      *)
Counts ==
  \/ executed' = executed
  \/ \E r \in Requests :
       /\ req[r] = "running" /\ on[r] \in connected /\ req'[r] # "running"
       /\ executed' = [executed EXCEPT ![on[r]] = @ + 1]
       /\ \A s \in Requests \ {r} : req'[s] = req[s] /\ on'[s] = on[s]

Launched ==
  /\ \E S \in SUBSET Fresh :
       pending' = pending \cup S /\ alive' = alive \cup S /\ connected' \subseteq connected \cup S
  /\ fleet' \subseteq fleet /\ Counts

Left ==
  /\ fleet' \subseteq fleet /\ pending' \subseteq pending
  /\ alive' = alive /\ connected' \subseteq connected /\ Counts

Exited ==
  \E p \in Pods, S \in SUBSET Fresh :
    /\ pending' = pending \cup S /\ alive' = (alive \ {p}) \cup S
    /\ connected' \subseteq (connected \ {p}) \cup S
    /\ fleet' = fleet \ {p} /\ executed' = [executed EXCEPT ![p] = 0]
    /\ p \notin S /\ UNCHANGED <<req, on>>

Joined ==
  \E p \in pending \cap connected :
    /\ fleet' = fleet \cup {p} /\ pending' = pending \ {p}
    /\ UNCHANGED <<alive, connected, executed>>

Threw ==
  \E p \in pending :
    /\ alive' = alive \ {p} /\ connected' = connected \ {p}
    /\ UNCHANGED <<fleet, pending, executed, req, on>>

FleetStep == Launched \/ Left \/ Exited \/ Joined \/ Threw

(* createPod() up to its await, while no process exits.                    *)
LEMMA LaunchLaunches ==
  ASSUME TypeInv, NEW S \in SUBSET Fresh, NEW st, NEW lim, NEW c, Launch(S, alive, st, lim, c),
         fleet' \subseteq fleet, Counts
  PROVE  Launched
<1>1. connected' \subseteq connected \cup S
  BY DEF Launch
<1> QED BY <1>1 DEF Launch, Launched

(* releasePod(): a pod is replaced, or stays.                              *)
LEMMA ReleaseIsFleetStep ==
  ASSUME TypeInv, NEW p, NEW st, NEW ex, Release(p, st, ex), Counts
  PROVE  FleetStep
<1>1. CASE PodRecycled(p, st, ex)
  <2>1. PICK S \in EnsureSets(fleet \ {p}, config) :
          Launch(S, alive, [status EXCEPT ![p] = "terminating"], limit, config)
    BY <1>1 DEF PodRecycled
  <2>2. S \in SUBSET Fresh /\ fleet' \subseteq fleet
    BY <1>1 DEF PodRecycled, EnsureSets
  <2> QED BY <2>1, <2>2, LaunchLaunches DEF FleetStep
<1>2. CASE PodReturned(p, st, ex)
  BY <1>2 DEF PodReturned, fleetVars, Left, FleetStep
<1> QED BY <1>1, <1>2 DEF Release

(* Every step is one of these.                                             *)
LEMMA StepsOfTheFleet ==
  ASSUME TypeInv, Placed, [Next]_vars
  PROVE  FleetStep
<1> USE DEF vars, podVars, fleetVars, startVars, reqVars, lifeVars, confVars
<1>1. ASSUME NEW c, NEW next, NEW lim, fleet' = fleet, executed' = executed,
             \E S \in EnsureSets(fleet, c) :
               Launch(S, alive, status, lim, c) /\ AwaitAll(S, next)
      PROVE  FleetStep
  BY <1>1, LaunchLaunches DEF EnsureSets, Counts, FleetStep
<1>2. ASSUME fleet' = fleet, executed' = executed, NEW p \in Fresh,
             Launch({p}, alive, status, limit, config)
      PROVE  FleetStep
  <2>1. {p} \in SUBSET Fresh
    OBVIOUS
  <2> QED BY <1>2, <2>1, LaunchLaunches DEF Counts, FleetStep
<1>3. CASE UNCHANGED vars
  BY <1>3 DEF Left, Counts, FleetStep
<1>4. ASSUME NEW r \in Requests, Invoke(r) PROVE FleetStep
  <2>1. CASE InvokeColdStart(r)
    BY <1>2, <2>1 DEF InvokeColdStart
  <2>2. CASE ~InvokeColdStart(r)
    BY <1>4, <2>2
    DEF Invoke, InvokeForwarded, InvokeRefused, InvokeOnPod, InvokeBlocked, InvokeQueued, Execute,
        Left, Counts, FleetStep
  <2> QED BY <2>1, <2>2
<1>5. ASSUME NEW r \in Requests, RequestStep(r) PROVE FleetStep
  <2>1. CASE QueueTimeout(r)
    BY <2>1 DEF QueueTimeout, Left, Counts, FleetStep
  <2>2. /\ req \in [Requests -> ReqState] /\ on \in [Requests -> Pods \cup {NoPod}]
        /\ NoPod \notin Pods
    BY Basics
  <2>3. ASSUME Event, req[r] = "running", executed' = [executed EXCEPT ![on[r]] = @ + 1],
               req'[r] # "running", \A s \in Requests \ {r} : req'[s] = req[s] /\ on'[s] = on[s]
        PROVE  Counts
    BY <2>3 DEF Event, Quiet, Counts
  <2>4. CASE StreamOpens(r)
    <3>1. Counts
      BY <2>2, <2>3, <2>4 DEF StreamOpens
    <3> QED BY <2>4, <3>1 DEF StreamOpens, Left, FleetStep
  <2>5. CASE RequestSucceeds(r)
    <3>1. Counts
      BY <2>2, <2>3, <2>5 DEF RequestSucceeds, Settle
    <3> QED BY <2>5, <3>1, ReleaseIsFleetStep DEF RequestSucceeds
  <2>6. CASE RequestFails(r) \/ StreamCloses(r) \/ StreamTimesOut(r)
    <3>1. Counts
      BY <2>6 DEF RequestFails, StreamCloses, StreamTimesOut, Counts
    <3> QED BY <2>6, <3>1, ReleaseIsFleetStep DEF RequestFails, StreamCloses, StreamTimesOut
  <2> QED BY <1>5, <2>1, <2>4, <2>5, <2>6 DEF RequestStep
<1>6. ASSUME NEW p \in Pods, StartStep(p) PROVE FleetStep
  <2>1. ASSUME Joins(p) PROVE Joined
    BY <2>1 DEF Joins, Joined
  <2>2. ASSUME StartFailed(p) PROVE Left
    BY <2>2 DEF StartFailed, Left, Counts
  <2> QED
    BY <1>6, <2>1, <2>2
    DEF StartStep, PodReadyForInvoke, PodReadyForQueue, PodReadyForEnsure, PodReadyForRoll, JoinsIdle,
        StartFailedForInvoke, StartFailedForQueue, StartFailedForEnsure, StartFailedForRoll, FleetStep
<1>7. ASSUME NEW p \in Pods, ProcessStep(p) PROVE FleetStep
  <2>1. CASE PodExit(p)
    <3>1. PICK S \in IF destroyed THEN {{}} ELSE EnsureSets(fleet \ {p}, config) :
            Launch(S, alive \ {p}, [status EXCEPT ![p] = "failed"], limit, config)
      BY <2>1 DEF PodExit
    <3>2. S \in SUBSET Fresh
      BY <3>1 DEF EnsureSets
    <3>3. p \in alive
      BY <2>1 DEF PodExit
    <3>4. p \notin S
      BY <3>2, <3>3 DEF Fresh
    <3>5. /\ pending' = pending \cup S /\ alive' = (alive \ {p}) \cup S
          /\ connected' \subseteq (connected \ {p}) \cup S
      BY <3>1 DEF Launch
    <3>6. fleet' = fleet \ {p} /\ executed' = [executed EXCEPT ![p] = 0] /\ UNCHANGED <<req, on>>
      BY <2>1 DEF PodExit
    <3> QED BY <3>2, <3>4, <3>5, <3>6 DEF Exited, FleetStep
  <2>2. CASE StartThrows(p)
    BY <2>2 DEF StartThrows, Threw, FleetStep
  <2>3. CASE ChannelError(p)
    BY <2>3 DEF ChannelError, Left, Counts, FleetStep
  <2> QED BY <1>7, <2>1, <2>2, <2>3 DEF ProcessStep
<1>8. CASE DrainStep
  <2>1. CASE DrainScalesUp
    BY <1>2, <2>1 DEF DrainScalesUp
  <2>2. CASE DrainDispatches \/ DrainStops
    BY <2>2 DEF DrainDispatches, DrainStops, Execute, Left, Counts, FleetStep
  <2> QED BY <1>8, <2>1, <2>2 DEF DrainStep
<1>9. CASE Initialize
  BY <1>1, <1>9 DEF Initialize
<1>10. CASE EnsureSettles
  BY <1>10 DEF EnsureSettles, Left, Counts, FleetStep
<1>11. CASE TimerStep
  <2>1. CASE RetryTimerFires
    BY <1>1, <2>1 DEF RetryTimerFires
  <2>2. CASE BackoffElapses \/ IdleCheck
    BY <2>2 DEF BackoffElapses, IdleCheck, Left, Counts, FleetStep
  <2> QED BY <1>11, <2>1, <2>2 DEF TimerStep
<1>12. CASE UpdateStep
  <2>1. ASSUME NEW p \in Pods, RollCreates(p) PROVE FleetStep
    <3>1. PICK q \in Fresh : Launch({q}, alive, status, limit, config)
      BY <2>1 DEF RollCreates
    <3> QED BY <1>2, <2>1, <3>1 DEF RollCreates
  <2>2. ASSUME NEW p \in Pods, RollSkips(p) \/ RollWithout(p) PROVE FleetStep
    BY <2>2 DEF RollSkips, RollWithout, Left, Counts, FleetStep
  <2>3. CASE RollKeeps
    BY <1>1, <2>3 DEF RollKeeps, Left, Counts, FleetStep
  <2>4. CASE RollBegins \/ RollDestroys \/ UpdateFinishes
    BY <2>4 DEF RollBegins, RollDestroys, UpdateFinishes, Left, Counts, FleetStep
  <2> QED BY <1>12, <2>1, <2>2, <2>3, <2>4 DEF UpdateStep
<1>13. ASSUME NEW c \in Configs, UpdateConfig(c) PROVE FleetStep
  BY <1>1, <1>13 DEF UpdateConfig
<1>14. CASE CloseStep
  BY <1>14
  DEF CloseStep, Destroy, DrainTo, CloseFleet, ClosePoll, CloseTimeout, CloseEnds, Left, Counts, FleetStep
<1> QED
  BY <1>3, <1>4, <1>5, <1>6, <1>7, <1>8, <1>9, <1>10, <1>11, <1>12, <1>13, <1>14 DEF Next

(* A pod of the fleet is a process, one that starts is not in the fleet    *)
(* yet, and it has executed and runs nothing.                              *)
Running(p) == {r \in InFlight(p) : req[r] = "running"}

LiveInv ==
  /\ connected \subseteq alive /\ fleet \subseteq alive /\ fleet \cap pending = {}
  /\ \A p \in Pods : p \notin alive => executed[p] = 0
  /\ \A p \in pending : executed[p] = 0 /\ InFlight(p) = {}

(* A request begins to run only on a pod that was available, or on one     *)
(* that joins the fleet for it.                                            *)
Admits(p) ==
  \E r \in Requests :
    /\ Execute(r, p) /\ req[r] \notin {"running", "streaming"}
    /\ p \in Selectable \/ p \in pending \ pending'

LEMMA RunsWhereAdmitted ==
  ASSUME TypeInv, Placed, MoveStep, NEW p \in Pods
  PROVE  Admits(p) \/ (InFlight(p)' \subseteq InFlight(p) /\ Running(p)' \subseteq Running(p))
<1> USE Basics
<1>1. CASE Unmoved \/ Streams \/ Completes \/ Joining \/ Starting \/ Gone \/ Emptied
  BY <1>1
  DEF Unmoved, Streams, Completes, Joining, Starting, Gone, Emptied, Becomes, InFlight, Running
<1>2. CASE Runs
  <2>1. PICK r \in Requests, q \in Pods :
          /\ Execute(r, q)
          /\ q \in Selectable \/ q \in pending \ pending'
          /\ req[r] \in {"new", "starting"} \/ (queue # <<>> /\ r = Head(queue))
    BY <1>2 DEF Runs
  <2>2. req[r] \notin {"running", "streaming"}
    <3>1. queue # <<>> /\ r = Head(queue) => req[r] = "queued"
      BY TailKeepsDistinct DEF Placed
    <3> QED BY <2>1, <3>1
  <2>3. CASE p = q
    BY <2>1, <2>2, <2>3 DEF Admits
  <2>4. CASE p # q
    BY <2>1, <2>2, <2>4 DEF Execute, InFlight, Running
  <2> QED BY <2>3, <2>4
<1> QED BY <1>1, <1>2 DEF MoveStep

LEMMA LiveStays ==
  ASSUME TypeInv, Placed, LiveInv, MoveStep, FleetStep
  PROVE  LiveInv'
<1> USE Basics
<1>1. /\ fleet \subseteq Pods /\ pending \subseteq Pods /\ alive \subseteq Pods
      /\ executed \in [Pods -> Nat]
  BY DEF TypeInv, TypeOK, FleetTypeOK, PodTypeOK
<1>2. \A p \in Fresh : /\ p \in Pods /\ p \notin fleet /\ p \notin pending /\ p \notin alive
                      /\ InFlight(p) = {} /\ executed[p] = 0
  BY DEF Fresh, InFlight, LiveInv
<1>3. connected' \subseteq alive' /\ fleet' \subseteq alive' /\ fleet' \cap pending' = {}
  <2>1. CASE Launched
    BY <1>2, <2>1 DEF Launched, LiveInv
  <2>2. CASE Left
    BY <2>2 DEF Left, LiveInv
  <2>3. CASE Exited
    BY <1>2, <2>3 DEF Exited, LiveInv
  <2>4. CASE Joined
    BY <2>4 DEF Joined, LiveInv
  <2>5. CASE Threw
    BY <2>5 DEF Threw, LiveInv
  <2> QED BY <2>1, <2>2, <2>3, <2>4, <2>5 DEF FleetStep
<1>4. pending' \subseteq pending \cup Fresh
  BY DEF FleetStep, Launched, Left, Exited, Joined, Threw
<1>5. \A p \in pending' : InFlight(p) = {}
  BY <1>2, <1>4 DEF LiveInv
<1>6. \A p \in pending' : ~Admits(p)
  BY <1>2, <1>4, CandidatesArePods DEF Admits, LiveInv, TypeInv
<1>7. \A p \in pending' : InFlight(p)' = {}
  BY <1>1, <1>2, <1>4, <1>5, <1>6, RunsWhereAdmitted
<1>8. ASSUME Counts PROVE \A p \in Pods : p \notin alive \/ p \in pending => executed'[p] = executed[p]
  <2>1. CASE executed' = executed
    BY <2>1
  <2>2. ASSUME NEW r \in Requests,
               req[r] = "running", on[r] \in connected,
               executed' = [executed EXCEPT ![on[r]] = @ + 1]
        PROVE  \A p \in Pods : p \notin alive \/ p \in pending => executed'[p] = executed[p]
    <3>1. on[r] \in Pods
      BY <2>2 DEF Placed
    <3>2. on[r] \in alive /\ r \in InFlight(on[r])
      BY <2>2, <3>1 DEF LiveInv, InFlight
    <3>3. on[r] \notin pending
      BY <3>2 DEF LiveInv
    <3> QED BY <1>1, <2>2, <3>1, <3>2, <3>3
  <2> QED BY <1>8, <2>1, <2>2 DEF Counts
<1>9. /\ \A p \in Pods : p \notin alive' => executed'[p] = 0
      /\ \A p \in pending' : executed'[p] = 0
  <2>1. CASE Launched
    BY <1>1, <1>2, <1>8, <2>1 DEF Launched, LiveInv
  <2>2. CASE Left
    BY <1>1, <1>8, <2>2 DEF Left, LiveInv
  <2>3. CASE Exited
    BY <1>1, <1>2, <2>3 DEF Exited, LiveInv
  <2>4. CASE Joined
    BY <1>1, <2>4 DEF Joined, LiveInv
  <2>5. CASE Threw
    BY <1>1, <2>5 DEF Threw, LiveInv
  <2> QED BY <2>1, <2>2, <2>3, <2>4, <2>5 DEF FleetStep
<1> QED BY <1>3, <1>7, <1>9 DEF LiveInv

-----------------------------------------------------------------------------
(* What is still to be counted on a pod, with what has been, stays below   *)
(* the requests it would have been allowed one by one and the limit.       *)
LimitedTo(n) == \A p \in Pods : limit[p] <= n

LEMMA RunningFinite ==
  ASSUME NEW p
  PROVE  /\ IsFiniteSet(Running(p)) /\ Cardinality(Running(p)) \in Nat
         /\ Cardinality(Running(p)) <= Cardinality(InFlight(p))
BY InFlightFinite, FS_Subset, FS_CardinalityType DEF Running

(* A limit changes only to the concurrency of a configuration.             *)
LEMMA LimitsFollow ==
  ASSUME TypeInv, [Next]_vars, NEW p \in Pods
  PROVE  \/ limit'[p] = limit[p]
         \/ \E c \in Configs \cup {InitialConfig} : limit'[p] = c.concurrency
<1> DEFINE Limited(l) == \/ l[p] = limit[p]
                        \/ \E c \in Configs \cup {InitialConfig} : l[p] = c.concurrency
<1> USE DEF vars, podVars, fleetVars, startVars, reqVars, lifeVars, confVars
<1>1. config \in Configs \cup {InitialConfig}
  BY DEF TypeInv, TypeOK, ServiceTypeOK
<1>2. ASSUME NEW S, NEW al, NEW st, NEW lim, NEW c \in Configs \cup {InitialConfig},
             Launch(S, al, st, lim, c), Limited(lim)
      PROVE  Limited(limit')
  BY <1>2 DEF Launch
<1>3. ASSUME NEW q, NEW st, NEW ex, Release(q, st, ex) PROVE Limited(limit')
  BY <1>1, <1>2, <1>3 DEF Release, PodRecycled, PodReturned
<1>4. CASE UNCHANGED vars
  BY <1>4
<1>5. ASSUME NEW r \in Requests, Invoke(r) PROVE Limited(limit')
  BY <1>1, <1>2, <1>5
  DEF Invoke, InvokeForwarded, InvokeRefused, InvokeOnPod, InvokeColdStart, InvokeBlocked, InvokeQueued
<1>6. ASSUME NEW r \in Requests, RequestStep(r) PROVE Limited(limit')
  BY <1>3, <1>6
  DEF RequestStep, QueueTimeout, RequestSucceeds, RequestFails, StreamOpens, StreamCloses, StreamTimesOut
<1>7. ASSUME NEW q \in Pods, StartStep(q) PROVE Limited(limit')
  BY <1>7
  DEF StartStep, PodReadyForInvoke, PodReadyForQueue, PodReadyForEnsure, PodReadyForRoll, JoinsIdle,
      Joins, StartFailedForInvoke, StartFailedForQueue, StartFailedForEnsure, StartFailedForRoll,
      StartFailed
<1>8. ASSUME NEW q \in Pods, ProcessStep(q) PROVE Limited(limit')
  BY <1>1, <1>2, <1>8 DEF ProcessStep, StartThrows, PodExit, ChannelError
<1>9. CASE Initialize \/ EnsureSettles \/ DrainStep \/ TimerStep
  BY <1>1, <1>2, <1>9
  DEF Initialize, EnsureSettles, DrainStep, DrainDispatches, DrainStops, DrainScalesUp, TimerStep,
      BackoffElapses, RetryTimerFires, IdleCheck
<1>10. CASE UpdateStep
  BY <1>1, <1>2, <1>10
  DEF UpdateStep, RollSkips, RollCreates, RollWithout, RollBegins, RollDestroys, RollKeeps,
      UpdateFinishes
<1>11. ASSUME NEW c \in Configs, UpdateConfig(c) PROVE Limited(limit')
  <2>1. Limited(HotLimits(c))
    BY DEF HotLimits
  <2> QED BY <1>2, <1>11, <2>1 DEF UpdateConfig
<1>12. CASE CloseStep
  BY <1>12 DEF CloseStep, Destroy, DrainTo, CloseFleet, ClosePoll, CloseTimeout, CloseEnds
<1> QED
  BY <1>4, <1>5, <1>6, <1>7, <1>8, <1>9, <1>10, <1>11, <1>12 DEF Next

(* No more is counted on a pod than was in flight there.                   *)
LEMMA CountsOncePerRequest ==
  ASSUME TypeInv, Placed, FleetStep, NEW p \in fleet'
  PROVE  /\ p \in fleet \/ p \in pending
         /\ \/ executed'[p] = executed[p]
            \/ /\ executed'[p] = executed[p] + 1
               /\ \E r \in Running(p) : req'[r] # "running"
         /\ \A r \in Requests : req[r] # "running" /\ req'[r] = "running" => executed' = executed
<1>1. /\ fleet \subseteq Pods /\ pending \subseteq Pods /\ executed \in [Pods -> Nat]
      /\ req \in [Requests -> ReqState] /\ on \in [Requests -> Pods \cup {NoPod}]
  BY Basics DEF TypeInv, TypeOK, FleetTypeOK, PodTypeOK
<1>2. p \in fleet \/ p \in pending
  BY DEF FleetStep, Launched, Left, Exited, Joined, Threw
<1>3. ASSUME Counts
      PROVE  /\ \/ executed'[p] = executed[p]
                \/ /\ executed'[p] = executed[p] + 1
                   /\ \E r \in Running(p) : req'[r] # "running"
             /\ \A r \in Requests : req[r] # "running" /\ req'[r] = "running" => executed' = executed
  BY <1>1, <1>2, <1>3 DEF Counts, Running, InFlight
<1>4. CASE Launched \/ Left
  BY <1>2, <1>3, <1>4 DEF Launched, Left
<1>5. CASE Exited
  BY <1>1, <1>2, <1>5 DEF Exited
<1>6. CASE Joined \/ Threw
  BY <1>2, <1>6 DEF Joined, Threw
<1> QED BY <1>4, <1>5, <1>6 DEF FleetStep

Overshoot(n) ==
  \A p \in fleet : executed[p] + Cardinality(Running(p)) <= MaxRequests - 1 + n

LEMMA OvershootStays ==
  ASSUME TypeInv, Placed, ActiveMatches, LiveInv, MoveStep, FleetStep,
         NEW n \in Nat \ {0}, LimitedTo(n), Overshoot(n)
  PROVE  Overshoot(n)'
<1> SUFFICES ASSUME NEW p \in fleet'
             PROVE  executed'[p] + Cardinality(Running(p)') <= MaxRequests - 1 + n
  BY DEF Overshoot
<1>1. /\ fleet \subseteq Pods /\ pending \subseteq Pods /\ executed \in [Pods -> Nat]
      /\ active \in [Pods -> Nat] /\ MaxRequests \in Nat \ {0}
  BY ConfigAssumption DEF TypeInv, TypeOK, FleetTypeOK, PodTypeOK
<1>2. p \in Pods /\ (p \in fleet \/ p \in pending)
  BY <1>1, CountsOncePerRequest
<1> DEFINE had == Cardinality(Running(p))
           has == Cardinality(Running(p)')
<1>3. had \in Nat /\ IsFiniteSet(Running(p))
  BY RunningFinite
<1>4. p \in pending => executed[p] = 0 /\ Running(p) = {} /\ had = 0
  BY FS_EmptySet DEF LiveInv, Running
<1>5. ASSUME Admits(p) PROVE executed'[p] + has <= MaxRequests - 1 + n
  <2>1. PICK r \in Requests :
          /\ Execute(r, p) /\ req[r] \notin {"running", "streaming"}
          /\ p \in Selectable \/ p \in pending \ pending'
    BY <1>5 DEF Admits
  <2>2. executed'[p] = executed[p]
    BY <2>1, Basics, CountsOncePerRequest DEF Execute
  <2>3. Running(p)' = Running(p) \cup {r} /\ r \notin Running(p)
    BY <1>2, <2>1, Basics DEF Execute, Running, InFlight
  <2>4. has = had + 1
    BY <1>3, <2>3, FS_AddElement
  <2>5. CASE p \in pending
    BY <1>1, <1>2, <1>4, <2>2, <2>4, <2>5
  <2>6. CASE p \in Selectable
    <3>1. active[p] < n /\ executed[p] < MaxRequests
      BY <1>2, <2>6 DEF Selectable, IsAvailable, LimitedTo, TypeInv, TypeOK, PodTypeOK
    <3>2. had <= active[p]
      BY <1>2, RunningFinite DEF ActiveMatches
    <3> QED BY <1>1, <1>2, <1>3, <2>2, <2>4, <3>1, <3>2
  <2> QED BY <2>1, <2>5, <2>6
<1>6. ASSUME Running(p)' \subseteq Running(p) PROVE executed'[p] + has <= MaxRequests - 1 + n
  <2>1. executed[p] + had <= MaxRequests - 1 + n
    BY <1>1, <1>2, <1>4 DEF Overshoot
  <2>2. has <= had /\ has \in Nat
    BY <1>3, <1>6, FS_Subset, FS_CardinalityType
  <2>3. CASE executed'[p] = executed[p]
    BY <1>1, <1>2, <1>3, <2>1, <2>2, <2>3
  <2>4. ASSUME executed'[p] = executed[p] + 1, NEW r \in Running(p), req'[r] # "running"
        PROVE  executed'[p] + has <= MaxRequests - 1 + n
    <3>1. Running(p)' \subseteq Running(p) \ {r}
      BY <1>6, <2>4 DEF Running
    <3>2. Cardinality(Running(p) \ {r}) = had - 1 /\ IsFiniteSet(Running(p) \ {r})
      BY <1>3, <2>4, FS_RemoveElement
    <3>3. has <= had - 1
      BY <3>1, <3>2, FS_Subset
    <3> QED BY <1>1, <1>2, <1>3, <2>1, <2>2, <2>4, <3>3
  <2> QED BY <2>3, <2>4, CountsOncePerRequest
<1> QED BY <1>2, <1>5, <1>6, RunsWhereAdmitted

OverInv(n) == PlaceInv /\ LiveInv /\ LimitedTo(n) /\ Overshoot(n)

LEMMA OverInvInductive ==
  ASSUME NEW n \in Nat \ {0}, \A c \in Configs \cup {InitialConfig} : c.concurrency <= n
  PROVE  (Init => OverInv(n)) /\ (OverInv(n) /\ [Next]_vars => OverInv(n)')
<1>1. ASSUME Init PROVE OverInv(n)
  BY <1>1, InitPlaced, FS_EmptySet, ConfigAssumption
  DEF Init, LiveInv, LimitedTo, Overshoot, InFlight, OverInv, Config
<1>2. ASSUME OverInv(n), [Next]_vars PROVE OverInv(n)'
  <2>1. TypeInv /\ Placed /\ ActiveMatches /\ Awaited /\ LiveInv /\ LimitedTo(n) /\ Overshoot(n)
    BY <1>2 DEF OverInv, PlaceInv
  <2>2. MoveStep /\ AwaitStep /\ FleetStep
    BY <1>2, <2>1, StepsMove, StepsOfTheFleet
  <2>3. PlaceInv'
    BY <1>2, <2>1, <2>2, StepTypes, MovesKeepPlaces, MovesKeepCounters, AwaitsStaySingle DEF PlaceInv
  <2>4. LiveInv'
    BY <2>1, <2>2, LiveStays
  <2>5. LimitedTo(n)'
    BY <1>2, <2>1, LimitsFollow DEF LimitedTo
  <2>6. Overshoot(n)'
    BY <2>1, <2>2, OvershootStays
  <2> QED BY <2>3, <2>4, <2>5, <2>6 DEF OverInv
<1> QED BY <1>1, <1>2

(* No pod executes more than maxRequestsPerPod and the requests that may   *)
(* be in flight beside the last it was allowed, although availability      *)
(* counts only what is completed: whatever the interleaving of answers,    *)
(* stream openings, crashes, recycled pods and updates, for every bound n  *)
(* on the concurrency that is ever configured.                             *)
THEOREM OvershootWithin ==
  ASSUME NEW n \in Nat \ {0}, \A c \in Configs \cup {InitialConfig} : c.concurrency <= n
  PROVE  Spec => [](\A p \in fleet : executed[p] + Cardinality(Running(p)) <= MaxRequests - 1 + n)
<1>1. Init => OverInv(n)
  BY OverInvInductive
<1>2. OverInv(n) /\ [Next]_vars => OverInv(n)'
  BY OverInvInductive
<1>3. OverInv(n) => \A p \in fleet : executed[p] + Cardinality(Running(p)) <= MaxRequests - 1 + n
  BY DEF OverInv, Overshoot
<1> QED BY <1>1, <1>2, <1>3, PTL DEF Spec

(* In terms of the limits the pods have: while updates leave the           *)
(* concurrency alone.  (One that lowers it lowers the limits of pods at    *)
(* once, below what is in flight on them already.)                         *)
THEOREM OvershootBounded ==
  ASSUME \A c \in Configs : c.concurrency = InitialConfig.concurrency
  PROVE  Spec => []OvershootBound
<1> DEFINE n == InitialConfig.concurrency
           Same == \A p \in Pods : limit[p] = n
<1>1. n \in Nat \ {0} /\ \A c \in Configs \cup {InitialConfig} : c.concurrency <= n
  BY ConfigAssumption DEF Config
<1>2. Init => OverInv(n) /\ Same
  BY <1>1, OverInvInductive DEF Init
<1>3. OverInv(n) /\ Same /\ [Next]_vars => (OverInv(n) /\ Same)'
  <2> SUFFICES ASSUME OverInv(n), Same, [Next]_vars PROVE Same'
    BY <1>1, OverInvInductive
  <2> QED BY LimitsFollow DEF OverInv, PlaceInv
<1>4. OverInv(n) /\ Same => OvershootBound
  BY DEF OverInv, PlaceInv, TypeInv, TypeOK, FleetTypeOK, Overshoot, OvershootBound, Running
<1> QED BY <1>2, <1>3, <1>4, PTL DEF Spec

-----------------------------------------------------------------------------
(* Waiting requests are never stranded.  Part of what the argument rests   *)
(* on: a backoff is always followed by its timer, a pod that cannot be     *)
(* selected is full, retiring or about to exit, a used up pod still runs   *)
(* something, and only a service without requests is being initialized.    *)
BackoffIsTimed == ~destroyed /\ coolingDown => retryTimer

Sound ==
  /\ \A p \in pending : status[p] = "pending" \/ p \notin connected
  /\ ~destroyed => \A p \in fleet : status[p] \in {"idle", "running"} \/ p \notin connected

UsedUpPodsRun == ~destroyed => \A p \in fleet : executed[p] >= MaxRequests => InFlight(p) # {}

PreheatsOnce ==
  /\ initialized => \A e \in ensures : e.then # "init"
  /\ \A e, f \in ensures : e.then = "init" /\ f.then = "init" => e = f

PreheatsFirst == PreheatsOnce /\ (sessions # {} => initialized)

WakeInv ==
  /\ PlaceInv /\ SessionInv /\ LiveInv
  /\ BackoffIsTimed /\ Sound /\ UsedUpPodsRun /\ PreheatsFirst

(* Every backoff of an open service arms the timer for its end.            *)
LEMMA BackoffStaysTimed ==
  ASSUME TypeInv, BackoffIsTimed, destroyed => destroyed', [Next]_vars
  PROVE  BackoffIsTimed'
<1> USE DEF vars, podVars, fleetVars, startVars, reqVars, lifeVars, confVars, BackoffIsTimed
<1>1. CASE UNCHANGED vars
  BY <1>1
<1>2. ASSUME NEW r \in Requests, Invoke(r) \/ RequestStep(r) PROVE BackoffIsTimed'
  BY <1>2
  DEF Invoke, InvokeForwarded, InvokeRefused, InvokeOnPod, InvokeColdStart, InvokeBlocked, InvokeQueued,
      RequestStep, QueueTimeout, RequestSucceeds, RequestFails, StreamOpens, StreamCloses, StreamTimesOut
<1>3. ASSUME NEW p \in Pods, StartStep(p) PROVE BackoffIsTimed'
  <2>1. Joins(p) \/ StartFailed(p)
    BY <1>3
    DEF StartStep, PodReadyForInvoke, PodReadyForQueue, PodReadyForEnsure, PodReadyForRoll, JoinsIdle,
        StartFailedForInvoke, StartFailedForQueue, StartFailedForEnsure, StartFailedForRoll
  <2> QED
    BY <2>1
    DEF Joins, StartFailed, StartRejected, StartTimedOut, RecordFailure, RecordTimeout,
        TypeInv, TypeOK, FleetTypeOK
<1>4. ASSUME NEW p \in Pods, ProcessStep(p) PROVE BackoffIsTimed'
  BY <1>4 DEF ProcessStep, StartThrows, PodExit, ChannelError
<1>5. CASE Initialize \/ EnsureSettles \/ DrainStep \/ TimerStep
  BY <1>5
  DEF Initialize, EnsureSettles, DrainStep, DrainDispatches, DrainStops, DrainScalesUp, TimerStep,
      BackoffElapses, RetryTimerFires, IdleCheck
<1>6. CASE UpdateStep \/ \E c \in Configs : UpdateConfig(c)
  BY <1>6
  DEF UpdateStep, RollSkips, RollCreates, RollWithout, RollBegins, RollDestroys, RollKeeps,
      UpdateFinishes, UpdateConfig
<1>7. CASE CloseStep
  BY <1>7 DEF CloseStep, Destroy, DrainTo, ClosePoll, CloseTimeout, CloseEnds
<1> QED BY <1>1, <1>2, <1>3, <1>4, <1>5, <1>6, <1>7 DEF Next

(* No session begins before the service is initialized, ...                *)
LEMMA SessionsBegin ==
  ASSUME TypeInv, [Next]_vars
  PROVE  (initialized => initialized') /\ (sessions' \subseteq sessions \/ initialized')
<1> USE DEF vars, podVars, fleetVars, startVars, reqVars, lifeVars, confVars
<1>0. initialized \in BOOLEAN
  BY DEF TypeInv, TypeOK, ServiceTypeOK
<1>1. CASE UNCHANGED vars
  <2>1. initialized' = initialized /\ sessions' = sessions
    BY <1>1
  <2> QED BY <1>0, <2>1
<1>2. ASSUME NEW r \in Requests, Invoke(r) \/ RequestStep(r)
      PROVE  initialized' = initialized /\ (sessions' \subseteq sessions \/ initialized)
  BY <1>2
  DEF Invoke, InvokeForwarded, InvokeRefused, InvokeOnPod, InvokeColdStart, InvokeBlocked, InvokeQueued,
      InvokeReady, Settle, RequestStep, QueueTimeout, RequestSucceeds, RequestFails, StreamOpens,
      StreamCloses, StreamTimesOut
<1>3. ASSUME NEW p \in Pods, StartStep(p) \/ ProcessStep(p)
      PROVE  initialized' = initialized /\ sessions' \subseteq sessions
  BY <1>3
  DEF StartStep, PodReadyForInvoke, PodReadyForQueue, PodReadyForEnsure, PodReadyForRoll, JoinsIdle,
      StartFailedForInvoke, StartFailedForQueue, StartFailedForEnsure, StartFailedForRoll,
      RejectIfBlocked, ProcessStep, StartThrows, PodExit, ChannelError
<1>4. ASSUME \/ Initialize \/ DrainStep \/ TimerStep \/ UpdateStep
             \/ \E c \in Configs : UpdateConfig(c)
      PROVE  initialized' = initialized /\ sessions' \subseteq sessions
  BY <1>4
  DEF Initialize, DrainStep, DrainDispatches, DrainStops, DrainScalesUp, RejectIfBlocked,
      TimerStep, BackoffElapses, RetryTimerFires, IdleCheck, UpdateStep, RollSkips, RollCreates,
      RollWithout, RollBegins, RollDestroys, RollKeeps, UpdateFinishes, UpdateConfig
<1>5. ASSUME CloseStep PROVE initialized' = initialized /\ sessions' \subseteq sessions
  BY <1>5 DEF CloseStep, Destroy, DrainTo, ClosePoll, CloseTimeout, CloseEnds
<1>6. CASE EnsureSettles
  <2>1. initialized => initialized'
    BY <1>6 DEF EnsureSettles
  <2>2. sessions' \subseteq sessions
    BY <1>6 DEF EnsureSettles, RejectIfBlocked
  <2> QED BY <2>1, <2>2
<1> QED BY <1>0, <1>1, <1>2, <1>3, <1>4, <1>5, <1>6 DEF Next

(* ... and initialize() is called once.                                    *)
LEMMA PreheatStaysFirst ==
  ASSUME TypeInv, PreheatsFirst, [Next]_vars
  PROVE  PreheatsFirst'
<1> USE DEF vars, podVars, fleetVars, startVars, reqVars, lifeVars, confVars
<1>1. (sessions # {} => initialized)'
  BY SessionsBegin DEF PreheatsFirst
<1> SUFFICES PreheatsOnce'
  BY <1>1 DEF PreheatsFirst
<1>2. ASSUME initialized' = initialized,
             ensures' = ensures \/ \E S : AwaitAll(S, "queue") \/ AwaitAll(S, "update")
      PROVE  PreheatsOnce'
  BY <1>2 DEF AwaitAll, PreheatsFirst, PreheatsOnce
<1>3. ASSUME NEW p, NEW st, NEW ex, Release(p, st, ex), initialized' = initialized PROVE PreheatsOnce'
  BY <1>2, <1>3 DEF Release, PodRecycled, PodReturned
<1>4. CASE UNCHANGED vars
  BY <1>2, <1>4
<1>5. ASSUME NEW r \in Requests, Invoke(r) PROVE PreheatsOnce'
  BY <1>2, <1>5
  DEF Invoke, InvokeForwarded, InvokeRefused, InvokeOnPod, InvokeColdStart, InvokeBlocked, InvokeQueued
<1>6. ASSUME NEW r \in Requests, RequestStep(r) PROVE PreheatsOnce'
  BY <1>2, <1>3, <1>6
  DEF RequestStep, QueueTimeout, RequestSucceeds, RequestFails, StreamOpens, StreamCloses, StreamTimesOut
<1>7. ASSUME NEW p \in Pods, StartStep(p) PROVE PreheatsOnce'
  <2>1. initialized' = initialized
    BY <1>7
    DEF StartStep, PodReadyForInvoke, PodReadyForQueue, PodReadyForEnsure, PodReadyForRoll,
        StartFailedForInvoke, StartFailedForQueue, StartFailedForEnsure, StartFailedForRoll
  <2>2. ensures' = ensures \/ CreationSettles(p)
    BY <1>7
    DEF StartStep, PodReadyForInvoke, PodReadyForQueue, PodReadyForEnsure, PodReadyForRoll,
        StartFailedForInvoke, StartFailedForQueue, StartFailedForEnsure, StartFailedForRoll
  <2>3. ASSUME CreationSettles(p) PROVE PreheatsOnce'
    <3>1. PICK e \in ensures : ensures' = (ensures \ {e}) \cup {[e EXCEPT !.creates = @ \ {p}]}
      BY <2>3 DEF CreationSettles, AwaitedByEnsure
    <3>2. [e EXCEPT !.creates = @ \ {p}].then = e.then
      BY DEF TypeInv, TypeOK, FleetTypeOK
    <3> DEFINE g == [e EXCEPT !.creates = @ \ {p}]
    <3> HIDE DEF g
    <3> QED BY <2>1, <3>1, <3>2 DEF PreheatsFirst, PreheatsOnce
  <2> QED BY <1>2, <2>1, <2>2, <2>3
<1>8. ASSUME NEW p \in Pods, ProcessStep(p) PROVE PreheatsOnce'
  BY <1>2, <1>8 DEF ProcessStep, StartThrows, PodExit, ChannelError
<1>9. CASE Initialize
  <2>1. ensures = {} /\ ~initialized /\ initialized' = initialized
    BY <1>9 DEF Initialize, TypeInv, TypeOK, ServiceTypeOK
  <2>2. PICK S : AwaitAll(S, "init")
    BY <1>9 DEF Initialize
  <2> QED BY <2>1, <2>2 DEF AwaitAll, PreheatsOnce
<1>10. CASE EnsureSettles
  <2>1. PICK e \in ensures :
          ensures' = ensures \ {e} /\ initialized' = (initialized \/ e.then = "init")
    BY <1>10 DEF EnsureSettles
  <2> QED BY <2>1 DEF PreheatsFirst, PreheatsOnce
<1>11. CASE DrainStep \/ TimerStep
  BY <1>2, <1>11
  DEF DrainStep, DrainDispatches, DrainStops, DrainScalesUp, TimerStep, BackoffElapses,
      RetryTimerFires, IdleCheck
<1>12. CASE UpdateStep \/ \E c \in Configs : UpdateConfig(c)
  BY <1>2, <1>12
  DEF UpdateStep, RollSkips, RollCreates, RollWithout, RollBegins, RollDestroys, RollKeeps,
      UpdateFinishes, UpdateConfig
<1>13. CASE CloseStep
  BY <1>2, <1>13 DEF CloseStep, Destroy, DrainTo, ClosePoll, CloseTimeout, CloseEnds
<1> QED
  BY <1>4, <1>5, <1>6, <1>7, <1>8, <1>9, <1>10, <1>11, <1>12, <1>13 DEF Next

(* Launching pods leaves the others as they are, ...                       *)
LEMMA LaunchIsSound ==
  ASSUME TypeInv, LiveInv, Sound, destroyed => destroyed',
         NEW S \in SUBSET Fresh, NEW al \in SUBSET alive, NEW st, NEW lim, NEW c,
         Launch(S, al, st, lim, c), fleet' \subseteq fleet,
         \A p \in pending \cup fleet' : st[p] = status[p] \/ p \notin al
  PROVE  Sound'
<1>1. fleet \subseteq Pods /\ pending \subseteq Pods /\ S \subseteq Pods /\ S \cap fleet = {}
  BY DEF TypeInv, TypeOK, FleetTypeOK, Fresh
<1>2. /\ pending' = pending \cup S /\ connected' = (connected \cap al) \cup S
      /\ \A p \in Pods : status'[p] = IF p \in S THEN "pending" ELSE st[p]
  BY DEF Launch
<1>3. \A p \in pending' : status'[p] = "pending" \/ p \notin connected'
  BY <1>1, <1>2 DEF Sound
<1>4. ~destroyed' => \A p \in fleet' : status'[p] \in {"idle", "running"} \/ p \notin connected'
  BY <1>1, <1>2 DEF Sound
<1> QED BY <1>3, <1>4 DEF Sound

(* ... and so does giving one back that is fit, or removing it.            *)
LEMMA ReleaseIsSound ==
  ASSUME TypeInv, LiveInv, Sound, destroyed' = destroyed, NEW p \in Pods \ pending,
         NEW st \in {"running", "idle", "failed", "terminating", status[p]}, NEW ex,
         Release(p, st, ex)
  PROVE  Sound'
<1>1. status \in [Pods -> Status] /\ fleet \subseteq Pods /\ pending \subseteq Pods
  BY DEF TypeInv, TypeOK, PodTypeOK, FleetTypeOK
<1>2. CASE PodRecycled(p, st, ex)
  <2> DEFINE dying == [status EXCEPT ![p] = "terminating"]
  <2>1. PICK S \in EnsureSets(fleet \ {p}, config) : Launch(S, alive, dying, limit, config)
    BY <1>2 DEF PodRecycled
  <2>2. fleet' = fleet \ {p} /\ S \in SUBSET Fresh
    BY <1>2 DEF PodRecycled, EnsureSets
  <2>3. \A q \in pending \cup fleet' : dying[q] = status[q]
    BY <1>1, <2>2 DEF LiveInv
  <2> HIDE DEF dying
  <2> QED BY <2>1, <2>2, <2>3, LaunchIsSound
<1>3. CASE PodReturned(p, st, ex)
  <2>1. /\ destroyed \/ p \notin fleet \/ st \notin {"failed", "terminating"}
        /\ status' = [status EXCEPT ![p] = st] /\ UNCHANGED <<fleet, pending, connected>>
    BY <1>3 DEF PodReturned, ShouldRecycle, fleetVars
  <2> QED BY <1>1, <2>1 DEF Sound
<1> QED BY <1>2, <1>3 DEF Release

(* No step leaves a starting or a serving pod in any other state while its *)
(* channel is open.                                                        *)
LEMMA SoundStays ==
  ASSUME TypeInv, Placed, LiveInv, Sound, ClosingIsFinal, destroyed => destroyed', [Next]_vars
  PROVE  Sound'
<1> USE DEF vars, podVars, fleetVars, startVars, reqVars, lifeVars, confVars
<1>1. /\ status \in [Pods -> Status] /\ fleet \subseteq Pods /\ pending \subseteq Pods
      /\ connected \subseteq alive /\ fleet \cap pending = {}
  BY DEF TypeInv, TypeOK, PodTypeOK, FleetTypeOK, LiveInv
<1>2. ASSUME UNCHANGED <<fleet, pending, status, connected>> PROVE Sound'
  BY <1>2 DEF Sound
<1>3. ASSUME fleet' \subseteq fleet, NEW c, NEW lim,
             \/ \E S \in EnsureSets(fleet, c) : Launch(S, alive, status, lim, c)
             \/ \E p \in Fresh : Launch({p}, alive, status, lim, c)
      PROVE  Sound'
  <2>1. PICK S \in SUBSET Fresh : Launch(S, alive, status, lim, c)
    <3>1. \A p \in Fresh : {p} \in SUBSET Fresh
      OBVIOUS
    <3> QED BY <1>3, <3>1 DEF EnsureSets
  <2> QED BY <1>3, <2>1, LaunchIsSound
<1>4. ASSUME NEW r, NEW p \in Pods, Execute(r, p), pending' \subseteq pending \ {p},
             fleet' \subseteq fleet \cup {p}, connected' = connected
      PROVE  Sound'
  BY <1>1, <1>4 DEF Sound, Execute
<1>5. ASSUME NEW T \in SUBSET Pods, T \cap (pending \cup fleet') = {}, fleet' \subseteq fleet,
             status' = Terminated(T), pending' = pending, connected' = connected
      PROVE  Sound'
  BY <1>1, <1>5 DEF Sound, Terminated
<1>6. CASE UNCHANGED vars
  BY <1>2, <1>6
<1>7. ASSUME NEW r \in Requests, Invoke(r) PROVE Sound'
  <2>1. CASE InvokeOnPod(r)
    <3>1. PICK p \in Selectable : Execute(r, p)
      BY <2>1 DEF InvokeOnPod, LeastLoaded
    <3> QED BY <1>1, <1>4, <2>1, <3>1 DEF InvokeOnPod, Selectable
  <2>2. CASE InvokeColdStart(r)
    BY <1>3, <2>2 DEF InvokeColdStart
  <2> QED
    BY <1>2, <1>7, <2>1, <2>2
    DEF Invoke, InvokeForwarded, InvokeRefused, InvokeBlocked, InvokeQueued
<1>8. ASSUME NEW r \in Requests, RequestStep(r) PROVE Sound'
  <2>1. CASE QueueTimeout(r) \/ StreamOpens(r)
    BY <1>2, <2>1 DEF QueueTimeout, StreamOpens
  <2>2. CASE ~(QueueTimeout(r) \/ StreamOpens(r))
    <3>1. req[r] \in {"running", "streaming"} /\ destroyed' = destroyed
      BY <1>8, <2>2 DEF RequestStep, RequestSucceeds, RequestFails, StreamCloses, StreamTimesOut
    <3>2. on[r] \in Pods \ pending
      BY <3>1, Basics DEF Placed, LiveInv, InFlight
    <3>3. \E st \in {CompletedStatus(on[r]), KilledStatus(on[r])} : \E ex : Release(on[r], st, ex)
      BY <1>8, <2>2 DEF RequestStep, RequestSucceeds, RequestFails, StreamCloses, StreamTimesOut
    <3>4. {CompletedStatus(on[r]), KilledStatus(on[r])}
            \subseteq {"running", "idle", "failed", "terminating", status[on[r]]}
      BY DEF CompletedStatus, KilledStatus
    <3> QED BY <3>1, <3>2, <3>3, <3>4, ReleaseIsSound
  <2> QED BY <2>1, <2>2
<1>9. ASSUME NEW p \in Pods, StartStep(p) PROVE Sound'
  <2>1. CASE PodReadyForInvoke(p)
    <3>1. PICK r : Execute(r, p)
      BY <2>1 DEF PodReadyForInvoke
    <3> QED BY <1>4, <2>1, <3>1 DEF PodReadyForInvoke, Joins
  <2>2. ASSUME JoinsIdle(p) PROVE Sound'
    BY <1>1, <2>2 DEF JoinsIdle, Joins, Sound
  <2>3. ASSUME StartFailed(p) PROVE Sound'
    <3>1. p \in pending /\ pending' = pending \ {p} /\ fleet' = fleet /\ connected' = connected
      BY <2>3 DEF StartFailed, StartRejected, StartTimedOut
    <3>2. status' = status \/ status' = [status EXCEPT ![p] = "terminating"]
      BY <2>3 DEF StartFailed, StartRejected, StartTimedOut
    <3> QED BY <1>1, <3>1, <3>2 DEF Sound
  <2> QED
    BY <1>9, <2>1, <2>2, <2>3
    DEF StartStep, PodReadyForQueue, PodReadyForEnsure, PodReadyForRoll, StartFailedForInvoke,
        StartFailedForQueue, StartFailedForEnsure, StartFailedForRoll
<1>10. ASSUME NEW p \in Pods, ProcessStep(p) PROVE Sound'
  <2>1. CASE PodExit(p)
    <3> DEFINE st == [status EXCEPT ![p] = "failed"]
    <3>1. PICK S \in IF destroyed THEN {{}} ELSE EnsureSets(fleet \ {p}, config) :
            Launch(S, alive \ {p}, st, limit, config)
      BY <2>1 DEF PodExit
    <3>2. S \in SUBSET Fresh /\ fleet' = fleet \ {p} /\ alive \ {p} \in SUBSET alive
      BY <2>1 DEF PodExit, EnsureSets
    <3>3. \A q \in pending \cup fleet' : st[q] = status[q] \/ q \notin alive \ {p}
      BY <1>1, <3>2
    <3> HIDE DEF st
    <3> QED BY <3>1, <3>2, <3>3, LaunchIsSound
  <2>2. CASE StartThrows(p)
    BY <1>1, <2>2 DEF StartThrows, Sound
  <2>3. CASE ChannelError(p)
    BY <1>1, <2>3 DEF ChannelError, Sound
  <2> QED BY <1>10, <2>1, <2>2, <2>3 DEF ProcessStep
<1>11. CASE DrainStep
  <2>1. CASE DrainDispatches
    <3>1. PICK p \in Selectable : Execute(Head(queue), p)
      BY <2>1 DEF DrainDispatches, LeastLoaded
    <3> QED BY <1>1, <1>4, <2>1, <3>1 DEF DrainDispatches, Selectable
  <2> QED BY <1>2, <1>3, <1>11, <2>1 DEF DrainStep, DrainStops, DrainScalesUp
<1>12. CASE Initialize \/ EnsureSettles \/ BackoffElapses \/ RetryTimerFires
  BY <1>2, <1>3, <1>12 DEF Initialize, EnsureSettles, BackoffElapses, RetryTimerFires
<1>13. CASE IdleCheck
  <2>1. PICK T \in Trimmable(fleet) : fleet' = fleet \ T /\ status' = Terminated(T)
    BY <1>13 DEF IdleCheck
  <2>2. T \subseteq fleet
    BY DEF Trimmable, IdlePods
  <2> QED BY <1>1, <1>5, <1>13, <2>1, <2>2 DEF IdleCheck
<1>14. CASE UpdateStep
  <2>1. ASSUME NEW p \in Pods, RollCreates(p) PROVE Sound'
    BY <1>3, <2>1 DEF RollCreates
  <2>2. ASSUME NEW p \in Pods, RollSkips(p) \/ RollWithout(p) PROVE Sound'
    BY <1>2, <2>2 DEF RollSkips, RollWithout
  <2>3. CASE RollBegins \/ RollKeeps
    BY <1>2, <1>3, <2>3 DEF RollBegins, RollKeeps
  <2>4. CASE RollDestroys
    BY <1>1, <2>4 DEF RollDestroys, IsIdle, Sound
  <2>5. CASE UpdateFinishes
    <3>1. PICK C \in OverflowSets : \E T \in Trimmable(fleet \ IdlePods(C)) :
            /\ fleet' = (fleet \ IdlePods(C)) \ T
            /\ status' = Terminated(IdlePods(C) \cup T)
      BY <2>5 DEF UpdateFinishes
    <3>4. PICK T \in Trimmable(fleet \ IdlePods(C)) :
            /\ fleet' = (fleet \ IdlePods(C)) \ T
            /\ status' = Terminated(IdlePods(C) \cup T)
      BY <3>1
    <3>2. IdlePods(C) \subseteq fleet /\ T \subseteq fleet
      BY DEF OverflowSets, IdlePods, Trimmable
    <3>3. IdlePods(C) \cup T \in SUBSET Pods /\ (IdlePods(C) \cup T) \cap (pending \cup fleet') = {}
      BY <1>1, <3>2, <3>4
    <3> QED BY <1>5, <2>5, <3>3, <3>4 DEF UpdateFinishes
  <2> QED BY <1>14, <2>1, <2>2, <2>3, <2>4, <2>5 DEF UpdateStep
<1>15. ASSUME NEW c \in Configs, UpdateConfig(c) PROVE Sound'
  BY <1>3, <1>15 DEF UpdateConfig
<1>16. CASE CloseStep
  <2>1. destroyed' /\ pending' = pending /\ connected' = connected
    BY <1>16
    DEF CloseStep, Destroy, DrainTo, CloseFleet, ClosePoll, CloseTimeout, CloseEnds, ClosingIsFinal
  <2>2. status' = status \/ status' = Terminated(fleet)
    BY <1>16 DEF CloseStep, Destroy, DrainTo, CloseFleet, ClosePoll, CloseTimeout, CloseEnds
  <2> QED BY <1>1, <2>1, <2>2 DEF Sound, Terminated
<1> QED
  BY <1>6, <1>7, <1>8, <1>9, <1>10, <1>11, <1>12, <1>13, <1>14, <1>15, <1>16 DEF Next, TimerStep

(* A pod of the open service loses what runs on it only by completions,    *)
(* and a used up one does not survive its last.                            *)
LEMMA UsedUpPodsStay ==
  ASSUME TypeInv, Placed, LiveInv, UsedUpPodsRun, MoveStep, FleetStep, destroyed => destroyed'
  PROVE  UsedUpPodsRun'
<1> USE Basics
<1> SUFFICES ASSUME ~destroyed', NEW p \in fleet', executed'[p] >= MaxRequests
             PROVE  InFlight(p)' # {}
  BY DEF UsedUpPodsRun
<1>1. /\ fleet \subseteq Pods /\ pending \subseteq Pods /\ executed \in [Pods -> Nat]
      /\ MaxRequests \in Nat \ {0} /\ ~destroyed
  BY ConfigAssumption DEF TypeInv, TypeOK, FleetTypeOK, PodTypeOK
<1>2. p \in Pods /\ (p \in fleet \/ p \in pending)
  BY <1>1, CountsOncePerRequest
<1>3. ~(executed'[p] < MaxRequests)
  <2>1. CASE executed'[p] = executed[p]
    BY <1>1, <1>2, <2>1
  <2>2. CASE executed'[p] = executed[p] + 1
    BY <1>1, <1>2, <2>2
  <2> QED BY <2>1, <2>2, CountsOncePerRequest
<1>4. InFlight(p) \subseteq InFlight(p)'
  <2>1. CASE Unmoved \/ Streams \/ Joining \/ Starting \/ Gone \/ Emptied
    BY <2>1 DEF Unmoved, Streams, Joining, Starting, Gone, Emptied, Becomes, InFlight, Placed
  <2>2. CASE Runs
    <3>1. PICK r \in Requests, q \in Pods :
            Execute(r, q) /\ (req[r] \in {"new", "starting"} \/ (queue # <<>> /\ r = Head(queue)))
      BY <2>2 DEF Runs
    <3>2. queue # <<>> /\ r = Head(queue) => req[r] = "queued"
      BY TailKeepsDistinct DEF Placed
    <3> QED BY <3>1, <3>2 DEF Execute, InFlight
  <2>3. CASE Completes
    BY <1>1, <1>3, <2>3 DEF Completes, Becomes, InFlight
  <2> QED BY <2>1, <2>2, <2>3 DEF MoveStep
<1>5. InFlight(p) # {}
  <2>1. CASE executed'[p] = executed[p]
    BY <1>1, <1>2, <2>1 DEF UsedUpPodsRun, LiveInv
  <2>2. CASE \E r \in Running(p) : req'[r] # "running"
    BY <2>2 DEF Running
  <2> QED BY <2>1, <2>2, CountsOncePerRequest
<1> QED BY <1>4, <1>5

-----------------------------------------------------------------------------
(* What is on the stack, ready to run or due, all of which calls           *)
(* processQueue() in the end.                                              *)
Awake ==
  \/ turn # "idle" \/ ensures # {} \/ pending # {} \/ retryTimer \/ update.step # "none"
  \/ \E p \in alive : p \notin fleet \/ p \notin connected
  \/ \E r \in Requests : req[r] \in {"running", "streaming"} /\ on[r] \in fleet
  \/ \E r \in Requests : req[r] = "running" /\ on[r] \notin connected

Sleeps == ~destroyed /\ queue # <<>> /\ ~Awake

(* With nothing of that, waiting requests are stranded.                    *)
LEMMA SleepsStranded ==
  ASSUME LiveInv, Sleeps
  PROVE  Stranded
BY DEF Stranded, Sleeps, Quiet, WakeUpDue, Awake, LiveInv, InFlight

(* A step after which nothing is under way has found nothing under way,    *)
(* or is one of those that do not process the queue.                       *)
LEMMA StepsWake ==
  ASSUME WakeInv, destroyed => destroyed', [Next]_vars, Sleeps'
  PROVE  Sleeps \/ FindsQueueFull \/ KeptRetiring'
<1> USE Basics DEF vars, podVars, fleetVars, startVars, reqVars, lifeVars, confVars
<1>1. /\ TypeInv /\ Placed /\ ActiveMatches /\ Awaited /\ LiveInv /\ ClosingIsFinal
      /\ SessionsFollowRequests /\ BackoffIsTimed /\ Sound /\ UsedUpPodsRun /\ PreheatsFirst
  BY DEF WakeInv, PlaceInv, SessionInv
<1>2. /\ fleet \subseteq Pods /\ pending \subseteq Pods /\ alive \subseteq Pods
      /\ connected \subseteq alive /\ fleet \subseteq alive /\ fleet \cap pending = {}
  BY <1>1 DEF TypeInv, TypeOK, FleetTypeOK, PodTypeOK, LiveInv
<1>3. ~destroyed' /\ queue' # <<>> /\ ~Awake' /\ ~destroyed
  BY DEF Sleeps
<1>4. /\ turn' = "idle" /\ ensures' = {} /\ pending' = {} /\ ~retryTimer' /\ update'.step = "none"
      /\ \A p \in alive' : p \in fleet' /\ p \in connected'
      /\ \A r \in Requests : req'[r] \in {"running", "streaming"} => on'[r] \notin fleet'
      /\ \A r \in Requests : req'[r] = "running" => on'[r] \in connected'
  BY <1>3 DEF Awake
<1> HIDE DEF WakeInv
(* Something new is under way, so this is not the step.                    *)
<1>5. ~ProcessQueue
  BY <1>3, <1>4 DEF ProcessQueue
<1>6. \A S, next : ~AwaitAll(S, next)
  BY <1>4 DEF AwaitAll
<1>7. \A p, al, st, lim, c : ~Launch({p}, al, st, lim, c)
  BY <1>4 DEF Launch
<1>8. \A r \in Requests, p \in fleet' : ~Execute(r, p)
  BY <1>1, <1>4 DEF Execute
<1>9. ASSUME NEW r \in Requests, UNCHANGED <<turn, ensures, pending, retryTimer, update, alive,
                                             fleet, connected>>,
             queue # <<>>, req[r] \notin {"running", "streaming"},
             \A s \in Requests \ {r} : req'[s] = req[s] /\ on'[s] = on[s]
      PROVE  Sleeps
  BY <1>3, <1>4, <1>9 DEF Sleeps, Awake
<1>10. CASE UNCHANGED <<turn, ensures, pending, retryTimer, update, alive, fleet, connected, queue,
                        req, on>>
  BY <1>3, <1>4, <1>10 DEF Sleeps, Awake
<1>11. ASSUME NEW r \in Requests, Invoke(r) PROVE Sleeps
  <2>1. CASE InvokeOnPod(r)
    BY <1>8, <2>1 DEF InvokeOnPod, LeastLoaded, Selectable
  <2>2. CASE InvokeColdStart(r)
    BY <1>7, <2>2 DEF InvokeColdStart
  <2>3. CASE InvokeQueued(r)
    BY <1>5, <2>3 DEF InvokeQueued
  <2>4. CASE InvokeForwarded(r) \/ InvokeRefused(r)
    BY <1>1, <1>3, <1>9, <2>4 DEF InvokeForwarded, InvokeRefused
  <2>5. CASE InvokeBlocked(r)
    BY <1>1, <1>3, <1>9, <2>5 DEF InvokeBlocked, InvokeReady, Settle
  <2> QED BY <1>11, <2>1, <2>2, <2>3, <2>4, <2>5 DEF Invoke
<1>12. ASSUME NEW r \in Requests, RequestStep(r) PROVE Sleeps
  <2>1. CASE QueueTimeout(r)
    <3>1. queue # <<>>
      BY <1>1, <2>1, EmptyQueueIsPlaced DEF QueueTimeout
    <3> QED BY <1>1, <1>9, <2>1, <3>1 DEF QueueTimeout, Settle
  <2>2. CASE StreamOpens(r)
    <3>1. req'[r] = "streaming" /\ on'[r] = on[r] /\ on[r] \in connected
      BY <1>1, <2>2 DEF StreamOpens, Event, Quiet
    <3> QED BY <1>2, <1>4, <2>2, <3>1 DEF StreamOpens
  <2>3. ASSUME NEW p, NEW st, NEW ex, Release(p, st, ex), queue' = queue PROVE FALSE
    BY <1>3, <1>4, <1>6, <2>3 DEF Release, PodRecycled, PodReturned
  <2> QED
    BY <1>12, <2>1, <2>2, <2>3
    DEF RequestStep, RequestSucceeds, RequestFails, StreamCloses, StreamTimesOut
<1>13. ASSUME NEW p \in Pods, StartStep(p) PROVE FindsQueueFull
  <2>1. ~PodReadyForInvoke(p)
    BY <1>8 DEF PodReadyForInvoke, Joins, AwaitedByInvoke
  <2>2. ~PodReadyForQueue(p) /\ ~StartFailedForQueue(p)
    BY <1>5 DEF PodReadyForQueue, StartFailedForQueue
  <2>3. ~PodReadyForEnsure(p) /\ ~StartFailedForEnsure(p)
    BY <1>4 DEF PodReadyForEnsure, StartFailedForEnsure, CreationSettles
  <2>4. ~PodReadyForRoll(p) /\ ~StartFailedForRoll(p)
    BY <1>4 DEF PodReadyForRoll, StartFailedForRoll
  <2>5. CASE StartFailedForInvoke(p)
    <3> DEFINE blocked == disabled' /\ fleet = {} /\ pending' = {}
               queues  == ~blocked /\ HasRoom(queue)
    <3>1. PICK r \in AwaitedByInvoke(p) :
            LET lost == IF blocked THEN Queued(queue) \cup {r} ELSE IF queues THEN {} ELSE {r}
            IN  /\ queue' = IF blocked THEN <<>>
                            ELSE IF queues THEN InsertByPriority(queue, r) ELSE queue
                /\ req' = [s \in Requests |-> IF s \in lost THEN "failed"
                                              ELSE IF s = r THEN "queued" ELSE req[s]]
                /\ turn' = IF queues /\ ~destroyed THEN "drain" ELSE "idle"
      BY <2>5 DEF StartFailedForInvoke
    <3>2. r \in Requests /\ req[r] = "starting"
      BY DEF AwaitedByInvoke
    <3> HIDE DEF blocked
    <3>3. ~blocked /\ ~queues
      BY <1>3, <1>4, <3>1
    <3>4. ~HasRoom(queue) /\ queue' = queue /\ req'[r] = "failed"
      BY <3>1, <3>2, <3>3
    <3> QED BY <3>2, <3>4 DEF FindsQueueFull
  <2> QED BY <1>13, <2>1, <2>2, <2>3, <2>4, <2>5 DEF StartStep
<1>14. ASSUME NEW p \in Pods, ProcessStep(p) PROVE FALSE
  <2>1. ~PodExit(p)
    BY <1>5 DEF PodExit
  <2>2. ~StartThrows(p)
    BY <1>4 DEF StartThrows
  <2>3. ~ChannelError(p)
    BY <1>2, <1>4 DEF ChannelError
  <2> QED BY <1>14, <2>1, <2>2, <2>3 DEF ProcessStep
<1>15. CASE DrainStops
  <2>1. UNCHANGED <<queue, req, on, fleet, pending, retiring, connected, disabled, retryTimer, alive>>
        /\ ~StartupBlocked'
    BY <1>3, <1>15 DEF DrainStops, RejectIfBlocked
  <2>2. fleet # {}
    <3> SUFFICES ASSUME fleet = {} PROVE FALSE
      OBVIOUS
    <3>1. ~disabled /\ ~coolingDown
      BY <1>1, <1>3, <1>4, <2>1 DEF StartupBlocked, BackoffIsTimed
    <3>2. Cardinality(fleet) = 0 /\ Cardinality(pending) = 0
      BY <1>4, <2>1, FS_EmptySet
    <3>3. config.maxPods \in Nat \ {0}
      BY <1>1, ConfigAssumption DEF TypeInv, TypeOK, ServiceTypeOK, Config
    <3> QED BY <1>15, <3>1, <3>2, <3>3 DEF DrainStops, CanScaleUp, Total
  <2>3. PICK p \in fleet : TRUE
    BY <2>2
  <2>4. InFlight(p) = {} /\ p \in connected /\ p \in Pods
    BY <1>2, <1>4, <2>1, <2>3 DEF InFlight
  <2>5. active[p] = 0 /\ executed[p] \in Nat /\ limit[p] \in Nat \ {0} /\ MaxRequests \in Nat
    BY <1>1, <2>4, FS_EmptySet, ConfigAssumption DEF ActiveMatches, TypeInv, TypeOK, PodTypeOK
  <2>6. IsAvailable(p)
    BY <1>1, <1>3, <2>3, <2>4, <2>5 DEF IsAvailable, Sound, UsedUpPodsRun
  <2>7. p \in retiring
    BY <1>15, <2>3, <2>6 DEF DrainStops, Selectable
  <2> QED BY <2>1, <2>3, <2>4, <2>7 DEF KeptRetiring, InFlight
<1>16. ASSUME DrainDispatches \/ DrainScalesUp PROVE FALSE
  <2>1. ~DrainScalesUp
    BY <1>7 DEF DrainScalesUp
  <2>2. ~DrainDispatches
    <3> SUFFICES ASSUME DrainDispatches PROVE FALSE
      OBVIOUS
    <3>1. queue # <<>> /\ Head(queue) \in Requests
      BY <1>1, TailType DEF DrainDispatches, TypeInv, TypeOK, RequestTypeOK, LoopHasWork
    <3> QED BY <1>8, <3>1 DEF DrainDispatches, LeastLoaded, Selectable
  <2> QED BY <1>16, <2>1, <2>2
<1>17. ASSUME Initialize \/ RetryTimerFires PROVE FALSE
  BY <1>6, <1>17 DEF Initialize, RetryTimerFires
<1>18. ASSUME EnsureSettles PROVE FALSE
  <2>1. PICK e \in ensures : CASE e.then = "init"   -> UNCHANGED turn
                               [] e.then = "update" -> turn' = "update"
                               [] e.then = "queue"  -> ProcessQueue
    BY <1>18 DEF EnsureSettles
  <2>2. e.then \in Then /\ e.then \notin {"update", "queue"}
    BY <1>1, <1>4, <1>5, <2>1 DEF TypeInv, TypeOK, FleetTypeOK
  <2>3. queue # <<>>
    BY <1>3, <1>18 DEF EnsureSettles, RejectIfBlocked
  <2>4. PICK r \in Requests : req[r] = "queued"
    BY <1>1, <2>3, TailKeepsDistinct DEF Placed
  <2>5. initialized
    BY <1>1, <1>3, <2>4 DEF SessionsFollowRequests, Live, PreheatsFirst
  <2> QED BY <1>1, <2>2, <2>5 DEF Then, PreheatsFirst, PreheatsOnce
<1>19. CASE BackoffElapses
  BY <1>10, <1>19 DEF BackoffElapses
<1>20. ASSUME IdleCheck PROVE FALSE
  <2>1. PICK T \in Trimmable(fleet) \ {{}} : fleet' = fleet \ T /\ alive' = alive
    BY <1>20 DEF IdleCheck
  <2>2. PICK p \in T : p \in fleet
    BY DEF Trimmable, IdlePods
  <2> QED BY <1>2, <1>4, <2>1, <2>2
<1>21. ASSUME UpdateStep PROVE FALSE
  <2>1. ASSUME NEW p \in Pods, RollSkips(p) \/ RollCreates(p) \/ RollWithout(p) PROVE FALSE
    BY <1>4, <1>7, <2>1 DEF RollSkips, RollCreates, RollWithout, RollTurn
  <2>2. CASE RollBegins \/ RollDestroys \/ RollKeeps
    BY <1>4, <1>6, <2>2 DEF RollBegins, RollDestroys, RollKeeps
  <2>3. CASE UpdateFinishes
    BY <1>5, <2>3 DEF UpdateFinishes
  <2> QED BY <1>21, <2>1, <2>2, <2>3 DEF UpdateStep
<1>22. ASSUME NEW c \in Configs, UpdateConfig(c) PROVE FALSE
  BY <1>6, <1>22 DEF UpdateConfig
<1>23. ASSUME CloseStep PROVE FALSE
  BY <1>1, <1>3, <1>23
  DEF CloseStep, Destroy, DrainTo, ClosePoll, CloseTimeout, CloseEnds, ClosingIsFinal
<1>24. CASE UNCHANGED vars
  BY <1>10, <1>24
<1> QED
  BY <1>11, <1>12, <1>13, <1>14, <1>15, <1>16, <1>17, <1>18, <1>19, <1>20, <1>21, <1>22, <1>23, <1>24
  DEF Next, TimerStep, DrainStep

(* The invariant is inductive.                                             *)
LEMMA WakeInvInductive ==
  /\ Init => WakeInv
  /\ WakeInv /\ [Next]_vars => WakeInv' /\ (destroyed => destroyed')
<1>1. ASSUME Init PROVE WakeInv
  <2>1. PlaceInv
    BY <1>1, InitPlaced
  <2>2. SessionInv
    BY <1>1, <2>1 DEF Init, SessionInv, PlaceInv, ClosingIsFinal, SessionsFollowRequests, Live
  <2>3. LiveInv /\ BackoffIsTimed /\ Sound /\ UsedUpPodsRun /\ PreheatsFirst
    BY <1>1
    DEF Init, LiveInv, InFlight, BackoffIsTimed, Sound, UsedUpPodsRun, PreheatsFirst, PreheatsOnce
  <2> QED BY <2>1, <2>2, <2>3 DEF WakeInv
<1>2. ASSUME WakeInv, [Next]_vars PROVE WakeInv' /\ (destroyed => destroyed')
  <2>1. /\ TypeInv /\ Placed /\ ActiveMatches /\ Awaited /\ LiveInv /\ ClosingIsFinal
        /\ SessionsFollowRequests /\ BackoffIsTimed /\ Sound /\ UsedUpPodsRun /\ PreheatsFirst
    BY <1>2 DEF WakeInv, PlaceInv, SessionInv
  <2>2. MoveStep /\ AwaitStep /\ FleetStep /\ Follows
    BY <1>2, <2>1, StepsMove, StepsOfTheFleet, StepsFollow
  <2>3. destroyed => destroyed'
    BY <2>2 DEF Follows
  <2>4. PlaceInv' /\ SessionInv'
    BY <1>2, <2>1, <2>2, StepTypes, MovesKeepPlaces, MovesKeepCounters, AwaitsStaySingle,
       ClosingStaysFinal, FollowsKeeps
    DEF PlaceInv, SessionInv
  <2>5. LiveInv' /\ UsedUpPodsRun'
    BY <2>1, <2>2, <2>3, LiveStays, UsedUpPodsStay
  <2>6. BackoffIsTimed' /\ Sound' /\ PreheatsFirst'
    BY <1>2, <2>1, <2>3, BackoffStaysTimed, SoundStays, PreheatStaysFirst
  <2> QED BY <2>3, <2>4, <2>5, <2>6 DEF WakeInv
<1> QED BY <1>1, <1>2

(* No step strands the queue: whatever wakes the scheduler, an event that  *)
(* processes the queue is left behind, for every number of pods and        *)
(* requests and every configuration.  What is excused is in the code: the  *)
(* refusal of a request the full queue cannot take back, and a pod an      *)
(* update has left in retirement.                                          *)
THEOREM NeverStranded == Spec => NoStrandedQueue
<1> DEFINE Strands == Stranded' => Stranded \/ FindsQueueFull \/ KeptRetiring'
<1>1. Init => WakeInv
  BY WakeInvInductive
<1>2. WakeInv /\ [Next]_vars => WakeInv'
  BY WakeInvInductive
<1>3. WakeInv /\ [Next]_vars => [Strands]_vars
  <2> SUFFICES ASSUME WakeInv, [Next]_vars, Stranded'
               PROVE  Stranded \/ FindsQueueFull \/ KeptRetiring'
    OBVIOUS
  <2>1. WakeInv' /\ (destroyed => destroyed')
    BY WakeInvInductive
  <2>2. (PlaceInv /\ LiveInv) /\ (PlaceInv /\ LiveInv)'
    BY <2>1 DEF WakeInv
  <2>3. Sleeps => Stranded
    BY <2>2, SleepsStranded
  <2>4. Sleeps'
    BY <2>2 DEF Stranded, Sleeps, Quiet, WakeUpDue, Awake, PlaceInv, Awaited, LiveInv, InFlight
  <2> QED BY <2>1, <2>3, <2>4, StepsWake
<1>4. NoStrandedQueue <=> [][Strands]_vars
  BY DEF NoStrandedQueue
<1> QED BY <1>1, <1>2, <1>3, <1>4, PTL DEF Spec
=============================================================================
