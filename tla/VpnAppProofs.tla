------------------------------ MODULE VpnAppProofs ------------------------------
(*******************************************************************************)
(* Proofs about VpnApp, for any numbers of presses and of restarts.            *)
(*                                                                             *)
(* The properties speak of quiet states, in which every message has been       *)
(* delivered; what makes them true is the order of the messages before that.   *)
(* The inductive invariant IInv (at the end) therefore says of every queue     *)
(* what is behind what in it:                                                  *)
(*   Counts       each channel call is in one place, once; the numbers of      *)
(*                dialogs and of service instances are bounded by the presses  *)
(*   GrantInv     a result is pending only while the permission is missing     *)
(*   SinkInv      nothing is shown before the events are listened to, and a    *)
(*                press comes behind the request to listen                     *)
(*   ServiceInvs  behind every intent for an instance that is gone comes the   *)
(*                destroy that ends what the intent started                    *)
(*   OffInv       without an engine, running:false is behind running:true      *)
(*   UpInv        with one, running:true or a failed call is the last that the *)
(*                screen learns, unless a call or an intent is still under way *)
(* Each has a lemma that every step keeps it.                                  *)
(* LostInv is about the calls no queue has any more, and HoldInv about what a  *)
(* disconnect left on its way; both rest on IInv.                              *)
(*******************************************************************************)
EXTENDS VpnApp, TLAPS, FiniteSetTheorems, WellFoundedInduction

-----------------------------------------------------------------------------
(* Queues: what is in one, what is behind what in it, what is in it once *)

Has(q, m) == \E k \in 1..Len(q) : q[k] = m

\* Behind every m there is a p.
Followed(q, m, p) ==
    \A k \in 1..Len(q) : q[k] = m => \E l \in 1..Len(q) : k < l /\ q[l] = p

\* At most one message is of M.
Once(q, M) == \A j, k \in 1..Len(q) : q[j] \in M /\ q[k] \in M => j = k

\* A message put at the end is in the queue, beside what was there.
LEMMA HasAppend ==
    ASSUME NEW S, NEW q \in Seq(S), NEW x \in S, NEW m
    PROVE  Has(Append(q, x), m) <=> Has(q, m) \/ x = m
BY DEF Has

\* A queue has its head and what its tail has.
LEMMA HasTail ==
    ASSUME NEW S, NEW q \in Seq(S), q # <<>>, NEW m
    PROVE  Has(q, m) <=> Head(q) = m \/ Has(Tail(q), m)
<1>1. ASSUME Has(q, m) PROVE Head(q) = m \/ Has(Tail(q), m)
  <2>1. PICK k \in 1..Len(q) : q[k] = m
    BY <1>1 DEF Has
  <2>2. CASE k = 1
    BY <2>1, <2>2
  <2>3. CASE k > 1
    <3>1. k - 1 \in 1..Len(Tail(q)) /\ Tail(q)[k - 1] = m
      BY <2>1, <2>3
    <3>. QED
      BY <3>1 DEF Has
  <2>. QED
    BY <2>1, <2>2, <2>3
<1>2. ASSUME Has(Tail(q), m) PROVE Has(q, m)
  <2>1. PICK k \in 1..Len(Tail(q)) : Tail(q)[k] = m
    BY <1>2 DEF Has
  <2>2. k + 1 \in 1..Len(q) /\ q[k + 1] = m
    BY <2>1
  <2>. QED
    BY <2>2 DEF Has
<1>3. Head(q) = m => Has(q, m)
  BY DEF Has
<1>. QED
  BY <1>1, <1>2, <1>3

\* Two queues together have what each has.
LEMMA HasConcat ==
    ASSUME NEW S, NEW q \in Seq(S), NEW r \in Seq(S), NEW m
    PROVE  Has(q \o r, m) <=> Has(q, m) \/ Has(r, m)
<1>1. ASSUME Has(r, m) PROVE Has(q \o r, m)
  <2>1. PICK k \in 1..Len(r) : r[k] = m
    BY <1>1 DEF Has
  <2>2. Len(q) + k \in 1..Len(q \o r) /\ (q \o r)[Len(q) + k] = m
    BY <2>1
  <2>. QED
    BY <2>2 DEF Has
<1>2. ASSUME Has(q, m) PROVE Has(q \o r, m)
  BY <1>2 DEF Has
<1>3. ASSUME Has(q \o r, m) PROVE Has(q, m) \/ Has(r, m)
  <2>1. PICK k \in 1..Len(q \o r) : (q \o r)[k] = m
    BY <1>3 DEF Has
  <2>2. CASE k <= Len(q)
    BY <2>1, <2>2 DEF Has
  <2>3. CASE k > Len(q)
    <3>1. k - Len(q) \in 1..Len(r) /\ r[k - Len(q)] = m
      BY <2>1, <2>3
    <3>. QED
      BY <3>1 DEF Has
  <2>. QED
    BY <2>1, <2>2, <2>3
<1>. QED
  BY <1>1, <1>2, <1>3

\* A message put at the end disturbs no "behind" but its own.
LEMMA FollowedAppend ==
    ASSUME NEW S, NEW q \in Seq(S), NEW x \in S, NEW m, NEW p, x # m,
           Followed(q, m, p) \/ x = p
    PROVE  Followed(Append(q, x), m, p)
BY DEF Followed

\* Taking the head keeps what is behind what, and what was behind it is still there.
LEMMA FollowedTail ==
    ASSUME NEW S, NEW q \in Seq(S), q # <<>>, NEW m, NEW p, Followed(q, m, p)
    PROVE  /\ Followed(Tail(q), m, p)
           /\ Head(q) = m => Has(Tail(q), p)
<1>1. ASSUME NEW k \in 1..Len(Tail(q)), Tail(q)[k] = m
      PROVE  \E l \in 1..Len(Tail(q)) : k < l /\ Tail(q)[l] = p
  <2>1. PICK l \in 1..Len(q) : k + 1 < l /\ q[l] = p
    BY <1>1 DEF Followed
  <2>2. l - 1 \in 1..Len(Tail(q)) /\ k < l - 1 /\ Tail(q)[l - 1] = p
    BY <2>1
  <2>. QED
    BY <2>2
<1>2. ASSUME Head(q) = m PROVE Has(Tail(q), p)
  <2>1. PICK l \in 1..Len(q) : 1 < l /\ q[l] = p
    BY <1>2 DEF Followed
  <2>2. l - 1 \in 1..Len(Tail(q)) /\ Tail(q)[l - 1] = p
    BY <2>1
  <2>. QED
    BY <2>2 DEF Has
<1>. QED
  BY <1>1, <1>2 DEF Followed

\* Posts put behind a queue keep the order of both.
LEMMA FollowedConcat ==
    ASSUME NEW S, NEW q \in Seq(S), NEW r \in Seq(S), NEW m, NEW p,
           Followed(r, m, p), Followed(q, m, p) \/ Has(r, p)
    PROVE  Followed(q \o r, m, p)
<1>. SUFFICES ASSUME NEW k \in 1..Len(q \o r), (q \o r)[k] = m
              PROVE  \E l \in 1..Len(q \o r) : k < l /\ (q \o r)[l] = p
  BY DEF Followed
<1>1. CASE k > Len(q)
  <2>1. k - Len(q) \in 1..Len(r) /\ r[k - Len(q)] = m
    BY <1>1
  <2>2. PICK l \in 1..Len(r) : k - Len(q) < l /\ r[l] = p
    BY <2>1 DEF Followed
  <2>3. Len(q) + l \in 1..Len(q \o r) /\ k < Len(q) + l /\ (q \o r)[Len(q) + l] = p
    BY <1>1, <2>2
  <2>. QED
    BY <2>3
<1>2. CASE k <= Len(q) /\ Has(r, p)
  <2>1. PICK l \in 1..Len(r) : r[l] = p
    BY <1>2 DEF Has
  <2>2. Len(q) + l \in 1..Len(q \o r) /\ k < Len(q) + l /\ (q \o r)[Len(q) + l] = p
    BY <1>2, <2>1
  <2>. QED
    BY <2>2
<1>3. CASE k <= Len(q) /\ Followed(q, m, p)
  <2>1. k \in 1..Len(q) /\ q[k] = m
    BY <1>3
  <2>2. PICK l \in 1..Len(q) : k < l /\ q[l] = p
    BY <1>3, <2>1 DEF Followed
  <2>3. l \in 1..Len(q \o r) /\ (q \o r)[l] = p
    BY <2>2
  <2>. QED
    BY <2>2, <2>3
<1>. QED
  BY <1>1, <1>2, <1>3

\* Where there is no m, a p is behind every m.
LEMMA FollowedVoid ==
    ASSUME NEW q, NEW m, NEW p, ~Has(q, m)
    PROVE  Followed(q, m, p)
BY DEF Has, Followed

\* A message put at the end is alone if there was none like it.
LEMMA OnceAppend ==
    ASSUME NEW S, NEW q \in Seq(S), NEW x \in S, NEW M, Once(q, M),
           x \in M => \A m \in M : ~Has(q, m)
    PROVE  Once(Append(q, x), M)
BY DEF Once, Has

\* Taking the only one leaves none.
LEMMA OnceTail ==
    ASSUME NEW S, NEW q \in Seq(S), q # <<>>, NEW M, Once(q, M)
    PROVE  /\ Once(Tail(q), M)
           /\ Head(q) \in M => \A m \in M : ~Has(Tail(q), m)
<1>1. Len(Tail(q)) = Len(q) - 1 /\ \A k \in 1..Len(Tail(q)) : k + 1 \in 1..Len(q) /\ Tail(q)[k] = q[k + 1]
  OBVIOUS
<1>2. Once(Tail(q), M)
  <2>. SUFFICES ASSUME NEW j \in 1..Len(Tail(q)), NEW k \in 1..Len(Tail(q)),
                       Tail(q)[j] \in M, Tail(q)[k] \in M
                PROVE  j = k
    BY DEF Once
  <2>1. j + 1 = k + 1
    BY <1>1 DEF Once
  <2>. QED
    BY <1>1, <2>1
<1>3. ASSUME Head(q) \in M, NEW m \in M PROVE ~Has(Tail(q), m)
  <2>. SUFFICES ASSUME NEW k \in 1..Len(Tail(q)), Tail(q)[k] = m PROVE FALSE
    BY DEF Has
  <2>1. 1 \in 1..Len(q) /\ q[1] \in M /\ q[k + 1] \in M
    BY <1>1, <1>3
  <2>2. k + 1 = 1
    BY <1>1, <2>1 DEF Once
  <2>. QED
    BY <2>2
<1>. QED
  BY <1>2, <1>3

\* Posts of another kind change nothing.
LEMMA OnceConcat ==
    ASSUME NEW S, NEW q \in Seq(S), NEW r \in Seq(S), NEW M, Once(q, M),
           \A m \in M : ~Has(r, m)
    PROVE  Once(q \o r, M)
<1>1. \A k \in 1..Len(q \o r) : (q \o r)[k] \in M => k \in 1..Len(q) /\ (q \o r)[k] = q[k]
  <2>. SUFFICES ASSUME NEW k \in 1..Len(q \o r), (q \o r)[k] \in M, ~ (k <= Len(q)) PROVE FALSE
    OBVIOUS
  <2>1. k - Len(q) \in 1..Len(r) /\ r[k - Len(q)] \in M
    OBVIOUS
  <2>. QED
    BY <2>1 DEF Has
<1>. QED
  BY <1>1 DEF Once

-----------------------------------------------------------------------------
(* What a new UI leaves of a queue *)

\* The least-number principle.
LEMMA Least ==
    ASSUME NEW T \in SUBSET Nat, T # {}
    PROVE  \E n \in T : \A m \in T : n <= m
<1>1. PICK n \in T : \A m \in T : ~ (<<m, n>> \in OpToRel(<, Nat))
  BY NatLessThanWellFounded, WFMin
<1>2. \A m \in T : ~ (m < n)
  BY <1>1 DEF OpToRel
<1>. QED
  BY <1>2

\* Rank counts the kept messages from the front, one by one.
LEMMA Ranks ==
    ASSUME NEW S, NEW q \in Seq(S)
    PROVE  /\ IsFiniteSet(Kept(q))
           /\ Rank(q, 0) = 0 /\ Rank(q, Len(q)) = Cardinality(Kept(q))
           /\ \A k \in 0..Len(q) : Rank(q, k) \in Nat
           /\ \A k \in 1..Len(q) :
                Rank(q, k) = IF k \in Kept(q) THEN Rank(q, k - 1) + 1 ELSE Rank(q, k - 1)
           /\ \A j, k \in 0..Len(q) : j <= k => Rank(q, j) <= Rank(q, k)
<1>. DEFINE Below(k) == {i \in Kept(q) : i <= k}
<1>1. Kept(q) \subseteq 1..Len(q) /\ IsFiniteSet(1..Len(q))
  BY FS_Interval DEF Kept
<1>2. IsFiniteSet(Kept(q))
  BY <1>1, FS_Subset
<1>3. \A k : IsFiniteSet(Below(k)) /\ Rank(q, k) = Cardinality(Below(k))
  BY <1>2, FS_Subset DEF Rank
<1>4. \A k : Rank(q, k) \in Nat
  BY <1>3, FS_CardinalityType
<1>5. Below(0) = {} /\ Below(Len(q)) = Kept(q)
  BY <1>1
<1>6. Rank(q, 0) = 0 /\ Rank(q, Len(q)) = Cardinality(Kept(q))
  BY <1>3, <1>5, FS_EmptySet
<1>7. ASSUME NEW k \in 1..Len(q)
      PROVE  Rank(q, k) = IF k \in Kept(q) THEN Rank(q, k - 1) + 1 ELSE Rank(q, k - 1)
  <2>1. CASE k \in Kept(q)
    <3>1. Below(k) = Below(k - 1) \cup {k} /\ k \notin Below(k - 1)
      BY <1>1, <2>1
    <3>. HIDE DEF Below
    <3>2. Cardinality(Below(k)) = Cardinality(Below(k - 1)) + 1
      BY <1>3, <3>1, FS_AddElement
    <3>. QED
      BY <1>3, <2>1, <3>2
  <2>2. CASE k \notin Kept(q)
    <3>1. Below(k) = Below(k - 1)
      BY <1>1, <2>2
    <3>. QED
      BY <1>3, <2>2, <3>1
  <2>. QED
    BY <2>1, <2>2
<1>8. ASSUME NEW j \in 0..Len(q), NEW k \in 0..Len(q), j <= k
      PROVE  Rank(q, j) <= Rank(q, k)
  <2>1. Below(j) \subseteq Below(k)
    BY <1>1, <1>8
  <2>. HIDE DEF Below
  <2>. QED
    BY <1>3, <2>1, FS_Subset
<1>. QED
  BY <1>2, <1>4, <1>6, <1>7, <1>8

\* The message at each place of the shortened queue comes from a place of the old one,
\* in the same order, and every kept message has one.
LEMMA Places ==
    ASSUME NEW S, NEW q \in Seq(S)
    PROVE  \E place \in [1..Len(WithoutCalls(q)) -> Kept(q)] :
               /\ WithoutCalls(q) \in Seq(S)
               /\ \A j \in 1..Len(WithoutCalls(q)) : WithoutCalls(q)[j] = q[place[j]]
               /\ \A i, j \in 1..Len(WithoutCalls(q)) : i < j => place[i] < place[j]
               /\ \A k \in Kept(q) : \E j \in 1..Len(WithoutCalls(q)) : place[j] = k
<1>. DEFINE n == Cardinality(Kept(q))
            place == [j \in 1..n |-> CHOOSE k \in Kept(q) : Rank(q, k) = j]
<1>1. Kept(q) \subseteq 1..Len(q)
  BY DEF Kept
<1>2. n \in Nat
  BY Ranks, FS_CardinalityType
<1>3. ASSUME NEW j \in 1..n PROVE \E k \in Kept(q) : Rank(q, k) = j
  <2>. DEFINE T == {k \in 0..Len(q) : j <= Rank(q, k)}
  <2>1. T \in SUBSET Nat /\ Len(q) \in T
    BY Ranks, <1>2
  <2>2. PICK k \in T : \A i \in T : k <= i
    BY <2>1, Least
  <2>3. k # 0
    BY <1>2, Ranks
  <2>4. k \in 1..Len(q) /\ k - 1 \in 0..Len(q) /\ k - 1 \notin T
    BY <2>2, <2>3
  <2>5. Rank(q, k - 1) < j /\ Rank(q, k - 1) \in Nat /\ Rank(q, k) \in Nat /\ j <= Rank(q, k)
    BY <1>2, <2>4, Ranks
  <2>6. Rank(q, k) = IF k \in Kept(q) THEN Rank(q, k - 1) + 1 ELSE Rank(q, k - 1)
    BY <2>4, Ranks
  <2>. QED
    BY <1>2, <2>5, <2>6
<1>4. \A j \in 1..n : place[j] \in Kept(q) /\ Rank(q, place[j]) = j
  BY <1>3
<1>5. WithoutCalls(q) = [j \in 1..n |-> q[place[j]]]
  BY DEF WithoutCalls
<1>. HIDE DEF place
<1>6. place \in [1..n -> Kept(q)]
  <2>1. place = [j \in 1..n |-> CHOOSE k \in Kept(q) : Rank(q, k) = j]
    BY DEF place
  <2>. QED
    BY <1>4, <2>1
<1>. HIDE DEF n
<1>7. /\ WithoutCalls(q) \in Seq(S) /\ Len(WithoutCalls(q)) = n
      /\ \A j \in 1..n : WithoutCalls(q)[j] = q[place[j]]
  <2>1. \A j \in 1..n : q[place[j]] \in S
    BY <1>1, <1>4
  <2>. QED
    BY <1>2, <1>5, <2>1
<1>8. ASSUME NEW i \in 1..n, NEW j \in 1..n, i < j PROVE place[i] < place[j]
  <2>1. place[i] \in 0..Len(q) /\ place[j] \in 0..Len(q)
    BY <1>1, <1>4
  <2>2. place[j] <= place[i] => Rank(q, place[j]) <= Rank(q, place[i])
    BY <2>1, Ranks
  <2>3. ~ (j <= i)
    BY <1>2, <1>8
  <2>. QED
    BY <1>4, <2>1, <2>2, <2>3
<1>9. ASSUME NEW k \in Kept(q) PROVE \E j \in 1..n : place[j] = k
  <2>1. k \in 1..Len(q) /\ k - 1 \in 0..Len(q) /\ k \in 0..Len(q)
    BY <1>1
  <2>2. /\ Rank(q, k) = Rank(q, k - 1) + 1 /\ Rank(q, k - 1) \in Nat
        /\ Rank(q, k) <= n /\ Rank(q, k) \in Nat
    BY <2>1, Ranks DEF n
  <2>3. Rank(q, k) \in 1..n
    BY <1>2, <2>2
  <2>4. ASSUME NEW i \in Kept(q), i < k PROVE Rank(q, i) < Rank(q, k)
    <3>1. i \in 0..Len(q) /\ i <= k - 1
      BY <1>1, <2>4
    <3>2. Rank(q, i) <= Rank(q, k - 1) /\ Rank(q, i) \in Nat
      BY <2>1, <3>1, Ranks
    <3>. QED
      BY <2>2, <3>2
  <2>5. ASSUME NEW i \in Kept(q), k < i PROVE Rank(q, k) < Rank(q, i)
    <3>1. i \in 1..Len(q) /\ i - 1 \in 0..Len(q) /\ k <= i - 1
      BY <1>1, <2>5
    <3>2. Rank(q, k) <= Rank(q, i - 1) /\ Rank(q, i) = Rank(q, i - 1) + 1 /\ Rank(q, i - 1) \in Nat
      BY <2>1, <2>5, <3>1, Ranks
    <3>. QED
      BY <2>2, <3>2
  <2>6. place[Rank(q, k)] \in Kept(q) /\ Rank(q, place[Rank(q, k)]) = Rank(q, k)
    BY <1>4, <2>3
  <2>7. ~ (place[Rank(q, k)] < k) /\ ~ (k < place[Rank(q, k)])
    <3>1. ~ (Rank(q, k) < Rank(q, k))
      BY <2>2
    <3>. QED
      BY <2>4, <2>5, <2>6, <3>1
  <2>8. place[Rank(q, k)] = k
    BY <1>1, <2>6, <2>7
  <2>. QED
    BY <2>3, <2>8
<1>. QED
  BY <1>6, <1>7, <1>8, <1>9

\* Order and content survive, the calls do not.
LEMMA WithoutCallsKeeps ==
    ASSUME NEW S, NEW q \in Seq(S), NEW m, m[1] \notin Methods \cup {"listen"}
    PROVE  /\ Has(WithoutCalls(q), m) <=> Has(q, m)
           /\ \A p : p[1] \notin Methods \cup {"listen"} /\ Followed(q, m, p)
                        => Followed(WithoutCalls(q), m, p)
<1>. DEFINE r == WithoutCalls(q)
<1>1. PICK place \in [1..Len(r) -> Kept(q)] :
          /\ \A j \in 1..Len(r) : r[j] = q[place[j]]
          /\ \A i, j \in 1..Len(r) : i < j => place[i] < place[j]
          /\ \A k \in Kept(q) : \E j \in 1..Len(r) : place[j] = k
          /\ r \in Seq(S)
  BY Places
<1>. HIDE DEF r
<1>2. Kept(q) = {k \in 1..Len(q) : q[k][1] \notin Methods \cup {"listen"}}
  BY DEF Kept
<1>3. Has(r, m) => Has(q, m)
  BY <1>1, <1>2 DEF Has
<1>4. ASSUME NEW k \in 1..Len(q), q[k] = m PROVE Has(r, m)
  <2>1. k \in Kept(q)
    BY <1>2, <1>4
  <2>2. PICK j \in 1..Len(r) : place[j] = k
    BY <1>1, <2>1
  <2>3. r[j] = m
    BY <1>1, <1>4, <2>2
  <2>. QED
    BY <2>3 DEF Has
<1>5. ASSUME NEW p, p[1] \notin Methods \cup {"listen"}, Followed(q, m, p),
             NEW i \in 1..Len(r), r[i] = m
      PROVE  \E j \in 1..Len(r) : i < j /\ r[j] = p
  <2>1. place[i] \in 1..Len(q) /\ q[place[i]] = m
    BY <1>1, <1>2, <1>5
  <2>2. PICK l \in 1..Len(q) : place[i] < l /\ q[l] = p
    BY <1>5, <2>1 DEF Followed
  <2>3. PICK j \in 1..Len(r) : place[j] = l
    BY <1>1, <1>2, <1>5, <2>2
  <2>4. r[j] = p
    BY <1>1, <2>2, <2>3
  <2>5. ~ (j < i) /\ j # i
    BY <1>1, <1>2, <2>1, <2>2, <2>3
  <2>6. i \in Int /\ j \in Int
    BY <1>1
  <2>. QED
    BY <2>4, <2>5, <2>6
<1>. QED
  BY <1>3, <1>4, <1>5 DEF Followed, Has, r

\* No call is left, nor the request to listen.
LEMMA WithoutCallsDrops ==
    ASSUME NEW S, NEW q \in Seq(S)
    PROVE  /\ WithoutCalls(q) \in Seq(S)
           /\ \A k \in 1..Len(WithoutCalls(q)) :
                  WithoutCalls(q)[k][1] \notin Methods \cup {"listen"}
<1>. DEFINE r == WithoutCalls(q)
<1>1. PICK place \in [1..Len(r) -> Kept(q)] :
          /\ \A j \in 1..Len(r) : r[j] = q[place[j]]
          /\ r \in Seq(S)
  BY Places
<1>. HIDE DEF r
<1>2. \A k \in 1..Len(r) : r[k][1] \notin Methods \cup {"listen"}
  BY <1>1 DEF Kept
<1>. QED
  BY <1>1, <1>2 DEF r

-----------------------------------------------------------------------------
(* What steps leave of a queue *)

Running == <<"running", None>>
Stopped == <<"stopped", None>>
Failed == <<"failed", None>>
Native == IntentMessages \cup EventMessages

\* r has the messages of X that q has, and what was behind one still is.
Same(q, r, X) ==
    /\ \A m \in X : Has(r, m) <=> Has(q, m)
    /\ \A m, p \in X : Followed(q, m, p) => Followed(r, m, p)

\* Same is what appending, taking and shortening do to messages they do not touch.
LEMMA SameAppend ==
    ASSUME NEW S, NEW q \in Seq(S), NEW x \in S, NEW X, x \notin X
    PROVE  Same(q, Append(q, x), X)
BY HasAppend, FollowedAppend DEF Same

\* Taking a message leaves the others.
LEMMA SameTail ==
    ASSUME NEW S, NEW q \in Seq(S), q # <<>>, NEW X, Head(q) \notin X
    PROVE  Same(q, Tail(q), X)
BY HasTail, FollowedTail DEF Same

\* A new UI leaves everything but the calls.
LEMMA SameWithout ==
    ASSUME NEW S, NEW q \in Seq(S), NEW X,
           \A m \in X : m[1] \notin Methods \cup {"listen"}
    PROVE  Same(q, WithoutCalls(q), X)
BY WithoutCallsKeeps DEF Same

\* Nothing happened.
LEMMA SameSelf == \A q, X : Same(q, q, X)
BY DEF Same

\* What holds of messages of X holds of some of them.
LEMMA SamePart ==
    ASSUME NEW q, NEW r, NEW X, NEW Y \in SUBSET X, Same(q, r, X)
    PROVE  Same(q, r, Y)
BY DEF Same

\* A call, or the request to listen, is taken or put on the looper.
Puts == \E x \in (Methods \X Presses) \cup {<<"listen", None>>} : looper' = Append(looper, x)
Takes ==
    /\ looper # <<>>
    /\ Head(looper) \in (Methods \X Presses) \cup {<<"listen", None>>}
    /\ looper' = Tail(looper)
Leaves == Puts \/ Takes \/ looper' = looper \/ looper' = WithoutCalls(looper)

\* Calls come and go; intents and events stay in their order.
LEMMA LeavesNative ==
    ASSUME TypeOK, Leaves
    PROVE  Same(looper, looper', Native)
<1>. USE DEF TypeOK
<1>0. /\ ((Methods \X Presses) \cup {<<"listen", None>>}) \cap Native = {}
      /\ (Methods \X Presses) \cup {<<"listen", None>>} \subseteq LooperMessages
  BY DEF Native, IntentMessages, EventMessages, LooperMessages, Methods, Intents, Events
<1>1. CASE Puts
  BY <1>0, <1>1, SameAppend DEF Puts
<1>2. CASE Takes
  BY <1>0, <1>2, SameTail DEF Takes
<1>3. CASE looper' = looper
  BY <1>3, SameSelf
<1>4. CASE looper' = WithoutCalls(looper)
  <2>1. \A m \in Native : m[1] \notin Methods \cup {"listen"}
    BY DEF Native, IntentMessages, EventMessages, Methods, Intents, Events
  <2>. QED
    BY <1>4, <2>1, SameWithout
<1>. QED
  BY <1>1, <1>2, <1>3, <1>4 DEF Leaves

QuietStep ==
    \/ Bootstrap \/ PressConnect \/ PressDisconnect \/ RestartUi
    \/ ShowRunning \/ ShowStopped \/ ShowFailed
    \/ \E n \in Presses : ControllerStep(n) \/ ActivityStep(n)
    \/ OnListen
    \/ \E ok \in BOOLEAN : OnActivityResult(ok)
    \/ BringDown \/ Revoke \/ EngineDies

\* Only the service, the delivery of events and that of intents do otherwise.
LEMMA QuietLeaves ==
    ASSUME TypeOK, AppAssumption, QuietStep
    PROVE  Leaves
<1>. USE DEF Leaves, TypeOK
<1>1. CASE Bootstrap
  BY <1>1 DEF Bootstrap, Puts
<1>2. CASE PressConnect \/ PressDisconnect
  <2>1. presses + 1 \in Presses
    BY <1>2 DEF PressConnect, PressDisconnect, Press, Presses, AppAssumption
  <2>2. looper' \in {Append(looper, <<m, presses + 1>>) : m \in Methods}
    BY <1>2 DEF PressConnect, PressDisconnect, Invoke, Methods
  <2>. QED
    BY <2>1, <2>2 DEF Puts
<1>3. CASE RestartUi
  BY <1>3 DEF RestartUi
<1>4. CASE ShowRunning \/ ShowStopped \/ ShowFailed
  BY <1>4 DEF ShowRunning, ShowStopped, ShowFailed
<1>5. ASSUME NEW n \in Presses, ControllerStep(n) PROVE Leaves
  <2>1. \/ looper' = looper
        \/ looper' \in {Append(looper, <<m, n>>) : m \in Methods}
    BY <1>5 DEF ControllerStep, PermissionMissing, PermissionThere, ConnectReturns,
                ConnectThrows, DisconnectReturns, DisconnectThrows, Return, Invoke, Methods
  <2>. QED
    BY <2>1 DEF Puts
<1>6. ASSUME NEW n \in Presses, ActivityStep(n) PROVE Leaves
  <2>1. \E m \in Methods : Handle(m, n)
    BY <1>6 DEF ActivityStep, OnHasPermission, OnRequestPermission, OnConnect, OnDisconnect,
              OnConnectThrows, OnDisconnectThrows,
                Methods
  <2>2. PICK m \in Methods : Handle(m, n)
    BY <2>1
  <2>3. <<m, n>> \in Methods \X Presses
    OBVIOUS
  <2>. QED
    BY <2>2, <2>3 DEF Handle, Takes
<1>7. CASE OnListen
  BY <1>7 DEF OnListen, Handle, Takes
<1>8. ASSUME NEW ok \in BOOLEAN, OnActivityResult(ok) PROVE Leaves
  BY <1>8 DEF OnActivityResult
<1>9. CASE BringDown \/ Revoke \/ EngineDies
  BY <1>9 DEF BringDown, Revoke, EngineDies
<1>. QED
  BY <1>1, <1>2, <1>3, <1>4, <1>5, <1>6, <1>7, <1>8, <1>9 DEF QuietStep

-----------------------------------------------------------------------------
(* What the service does to the queues *)

\* What the service posts.
Posted(events) == [k \in 1..Len(events) |-> <<events[k], None>>]

\* The posts of the four ways an intent can run.
LEMMA PostedMessages ==
    /\ Posted(<<>>) = <<>>
    /\ Posted(<<"running">>) = <<Running>>
    /\ Posted(<<>> \o <<"stopped">>) = <<Stopped>>
    /\ Posted(<<"failed">> \o <<"stopped">>) = <<Failed, Stopped>>
<1>. USE DEF Running, Stopped, Failed, Posted
<1>1. Posted(<<>>) = <<>> /\ Posted(<<"running">>) = <<Running>>
  OBVIOUS
<1>2. <<>> \o <<"stopped">> = <<"stopped">>
  OBVIOUS
<1>3. Posted(<<>> \o <<"stopped">>) = <<Stopped>>
  BY <1>2
<1>4. ASSUME NEW e, e = <<"failed">> \o <<"stopped">> PROVE Posted(e) = <<Failed, Stopped>>
  <2>1. Len(e) = 2 /\ e[1] = "failed" /\ e[2] = "stopped"
    BY <1>4
  <2>2. Posted(e) = [k \in 1..2 |-> <<e[k], None>>]
    BY <2>1
  <2>3. <<Failed, Stopped>> = [k \in 1..2 |-> <<e[k], None>>]
    BY <2>1
  <2>. QED
    BY <2>2, <2>3
<1>. QED
  BY <1>1, <1>3, <1>4

\* An intent runs: what it posts is behind everything, and the engine is as it was
\* (a start without the permission), off, or up.
ServedAs(op, i, posts) ==
    /\ looper # <<>> /\ Head(looper) = <<op, i>>
    /\ looper' = Tail(looper) \o posts
    /\ UNCHANGED <<dartVars, toDart, activityVars, ams, instance>>
    /\ (service = "none") <=> (service' = "none")
    /\ service = "stopping" => service' = "stopping"
    /\ \/ /\ op = "start" /\ engine' = engine /\ posts = <<>> /\ ~granted
          /\ i = instance /\ service # "none" => service' = "stopping"
       \/ engine' = "off" /\ posts \in {<<Stopped>>, <<Failed, Stopped>>}
       \/ /\ op = "start" /\ engine = "off" /\ engine' = "up" /\ granted
          /\ posts = <<Running>> /\ service' = service

\* Every step of the service is one of the four.
LEMMA Serving ==
    ASSUME TypeOK, NEW i \in Id, ServiceStep(i)
    PROVE  \E op \in Intents : \E posts \in Seq(EventMessages) : ServedAs(op, i, posts)
<1>1. /\ <<>> \in Seq(EventMessages) /\ <<Running>> \in Seq(EventMessages)
      /\ <<Stopped>> \in Seq(EventMessages) /\ <<Failed, Stopped>> \in Seq(EventMessages)
  BY DEF EventMessages, Events, Running, Stopped, Failed
<1>2. ASSUME NEW op, NEW e, Serve(op, i, e)
      PROVE  /\ looper # <<>> /\ Head(looper) = <<op, i>>
             /\ looper' = Tail(looper) \o Posted(e)
             /\ UNCHANGED <<dartVars, toDart, activityVars, ams, instance>>
  BY <1>2 DEF Serve, Posted
<1>3. ASSUME StopSelf(i)
      PROVE  /\ (service = "none") <=> (service' = "none")
             /\ service = "stopping" => service' = "stopping"
             /\ i = instance /\ service # "none" => service' = "stopping"
  BY <1>3 DEF StopSelf, TypeOK
<1>4. "start" \in Intents /\ "stop" \in Intents /\ "destroy" \in Intents
  BY DEF Intents
<1>5. CASE StartUnprepared(i)
  <2>1. Serve("start", i, <<>>) /\ StopSelf(i) /\ ~granted /\ engine' = engine
    BY <1>5 DEF StartUnprepared
  <2>2. /\ looper # <<>> /\ Head(looper) = <<"start", i>> /\ looper' = Tail(looper) \o <<>>
        /\ UNCHANGED <<dartVars, toDart, activityVars, ams, instance>>
    BY <1>2, <2>1, PostedMessages
  <2>3. ServedAs("start", i, <<>>)
    BY <1>3, <2>1, <2>2 DEF ServedAs
  <2>. QED
    BY <1>1, <1>4, <2>3
<1>6. CASE StartSucceeds(i)
  <2>1. ServedAs("start", i, <<Running>>)
    BY <1>2, <1>6, PostedMessages DEF StartSucceeds, ServedAs
  <2>. QED
    BY <1>1, <1>4, <2>1
<1>7. ASSUME NEW op, StopTunnel(op, i, <<>>) PROVE ServedAs(op, i, <<Stopped>>)
  <2>1. Serve(op, i, <<>> \o <<"stopped">>) /\ StopSelf(i) /\ engine' = "off"
    BY <1>7 DEF StopTunnel
  <2>2. /\ looper # <<>> /\ Head(looper) = <<op, i>> /\ looper' = Tail(looper) \o <<Stopped>>
        /\ UNCHANGED <<dartVars, toDart, activityVars, ams, instance>>
    BY <1>2, <2>1, PostedMessages
  <2>. QED
    BY <1>3, <2>1, <2>2 DEF ServedAs
<1>8. ASSUME NEW op, StopTunnel(op, i, <<"failed">>) PROVE ServedAs(op, i, <<Failed, Stopped>>)
  <2>1. Serve(op, i, <<"failed">> \o <<"stopped">>) /\ StopSelf(i) /\ engine' = "off"
    BY <1>8 DEF StopTunnel
  <2>2. /\ looper # <<>> /\ Head(looper) = <<op, i>>
        /\ looper' = Tail(looper) \o <<Failed, Stopped>>
        /\ UNCHANGED <<dartVars, toDart, activityVars, ams, instance>>
    BY <1>2, <2>1, PostedMessages
  <2>. QED
    BY <1>3, <2>1, <2>2 DEF ServedAs
<1>9. CASE StartRefused(i) \/ StartThrows(i) \/ OnStop(i) \/ OnDestroy(i)
  BY <1>1, <1>4, <1>7, <1>8, <1>9 DEF StartRefused, StartThrows, OnStop, OnDestroy
<1>. QED
  BY <1>5, <1>6, <1>9 DEF ServiceStep

-----------------------------------------------------------------------------
(* Which steps are told apart, and what all but a few leave alone *)

\* A step is one of the service, of the system that delivers, of the event bus, or of
\* those that leave the intents and events in the looper alone.
LEMMA NextSplit ==
    ASSUME Next
    PROVE  \/ QuietStep \/ ArriveIntent
           \/ (\E i \in Id : ServiceStep(i)) \/ (\E e \in Events : DeliverEvent(e))
<1>1. CASE \E n \in Presses : ControllerStep(n) \/ ActivityStep(n)
  BY <1>1 DEF QuietStep
<1>2. CASE \E ok \in BOOLEAN : OnActivityResult(ok)
  BY <1>2 DEF QuietStep
<1>. QED
  BY <1>1, <1>2 DEF Next, QuietStep

\* Intents, events and results are different messages.
LEMMA MessageSets ==
    /\ EventMessages \subseteq LooperMessages /\ EventMessages \subseteq DartMessages
    /\ IntentMessages \subseteq LooperMessages
    /\ Running \in EventMessages /\ Stopped \in EventMessages /\ Failed \in EventMessages
    /\ Running # Stopped /\ Running # Failed /\ Stopped # Failed
    /\ \A op \in Intents, i \in Id : /\ <<op, i>> \in IntentMessages
                                    /\ <<op, i>> \notin EventMessages
    /\ \A x \in IntentMessages : x \notin EventMessages
    /\ \A x \in Results \X Presses : x \notin EventMessages /\ x \in DartMessages
BY DEF EventMessages, LooperMessages, DartMessages, IntentMessages, Running, Stopped, Failed,
       Events, Intents, Results

\* Only a new UI, the end of its start and a press change what these flags tell.
LEMMA UiKept ==
    ASSUME TypeOK, Next, ~RestartUi
    PROVE  \/ UNCHANGED <<loaded, fresh>>
           \/ Bootstrap /\ ~loaded /\ fresh' = fresh
           \/ (PressConnect \/ PressDisconnect) /\ loaded /\ loaded'
<1>1. CASE \E n \in Presses : ActivityStep(n)
  BY <1>1 DEF ActivityStep, OnHasPermission, OnRequestPermission, OnConnect,
              OnDisconnect, OnConnectThrows, OnDisconnectThrows, Handle, dartVars
<1>2. CASE \E ok \in BOOLEAN : OnActivityResult(ok)
  BY <1>2 DEF OnActivityResult, dartVars
<1>3. CASE \E n \in Presses : ControllerStep(n)
  BY <1>3 DEF ControllerStep, PermissionMissing, PermissionThere, ConnectReturns,
              ConnectThrows, DisconnectReturns, DisconnectThrows, Receive
<1>4. CASE \E i \in Id : ServiceStep(i)
  BY <1>4, Serving DEF ServedAs, dartVars
<1>5. CASE Bootstrap \/ PressConnect \/ PressDisconnect
  BY <1>5 DEF Bootstrap, PressConnect, PressDisconnect, Press
<1>6. CASE ShowRunning \/ ShowStopped \/ ShowFailed
  BY <1>6 DEF ShowRunning, ShowStopped, ShowFailed, Receive
<1>7. CASE \/ OnListen \/ (\E e \in Events : DeliverEvent(e))
           \/ ArriveIntent \/ BringDown \/ Revoke \/ EngineDies
  BY <1>7 DEF OnListen, DeliverEvent, Handle, ArriveIntent, BringDown, Revoke,
              EngineDies, dartVars
<1>. QED
  BY <1>1, <1>2, <1>3, <1>4, <1>5, <1>6, <1>7 DEF Next

\* Only the service starts or stops an engine.
LEMMA EngineKept ==
    ASSUME Next, ~ \E i \in Id : ServiceStep(i)
    PROVE  engine' = engine \/ EngineDies
<1>1. CASE \E n \in Presses : ActivityStep(n)
  BY <1>1 DEF ActivityStep, OnHasPermission, OnRequestPermission, OnConnect, OnDisconnect,
              OnConnectThrows, OnDisconnectThrows
<1>2. CASE \E n \in Presses : ControllerStep(n)
  BY <1>2 DEF ControllerStep, PermissionMissing, PermissionThere, ConnectReturns,
              ConnectThrows, DisconnectReturns, DisconnectThrows, Receive
<1>3. CASE \E ok \in BOOLEAN : OnActivityResult(ok)
  BY <1>3 DEF OnActivityResult
<1>4. CASE \/ Bootstrap \/ PressConnect \/ PressDisconnect \/ RestartUi
           \/ ShowRunning \/ ShowStopped \/ ShowFailed
           \/ OnListen \/ BringDown \/ Revoke
           \/ ArriveIntent \/ \E e \in Events : DeliverEvent(e)
  BY <1>4 DEF Bootstrap, PressConnect, PressDisconnect, Press, RestartUi, ShowRunning,
              ShowStopped, ShowFailed, Receive, OnListen, BringDown, Revoke, ArriveIntent, DeliverEvent
<1>. QED
  BY <1>1, <1>2, <1>3, <1>4 DEF Next

\* An event leaves the looper, for Dart if the sink is there.
LEMMA Delivered ==
    ASSUME TypeOK, NEW e \in Events, DeliverEvent(e)
    PROVE  /\ looper # <<>> /\ Head(looper) = <<e, None>> /\ looper' = Tail(looper)
           /\ \/ sink /\ toDart' = Append(toDart, <<e, None>>)
              \/ ~sink /\ toDart' = toDart
           /\ UNCHANGED <<status, restarts, engine, call>>
BY DEF DeliverEvent, Handle, Reply, dartVars

\* The looper's intents are left alone by all but the service and the system.
LEMMA IntentsLeft ==
    ASSUME TypeOK, AppAssumption, QuietStep \/ \E e \in Events : DeliverEvent(e)
    PROVE  Same(looper, looper', IntentMessages)
<1>1. CASE QuietStep
  BY <1>1, QuietLeaves, LeavesNative, SamePart DEF Native
<1>2. CASE \E e \in Events : DeliverEvent(e)
  <2>1. PICK e \in Events : looper # <<>> /\ Head(looper) = <<e, None>> /\ looper' = Tail(looper)
    BY <1>2, Delivered
  <2>2. Head(looper) \notin IntentMessages
    BY <2>1, MessageSets DEF EventMessages
  <2>. QED
    BY <2>1, <2>2, SameTail DEF TypeOK
<1>. QED
  BY <1>1, <1>2

-----------------------------------------------------------------------------
(* The service: an engine has a service, or its end is on the way *)

Pending(m) == Has(looper, m) \/ Has(ams, m)

\* Behind every m on its way to the service there is a p.
Behind(m, p) == (Followed(looper, m, p) \/ Has(ams, p)) /\ Followed(ams, m, p)

\* An intent is for the instance there is, or its destroy is behind it.
IntentInv ==
    \A op \in {"start", "stop"}, i \in Id :
        \/ i = instance /\ service # "none"
        \/ Behind(<<op, i>>, <<"destroy", i>>)

\* An engine has a service, or a destroy is on its way.
ServiceInv ==
    engine # "off" => service # "none" \/ \E i \in Id : Pending(<<"destroy", i>>)

\* Without the permission the service is stopping, or something is on its way
\* that ends the engine.
RevokeInv ==
    ~granted /\ engine # "off" =>
        \/ service = "stopping"
        \/ \E i \in Id : Pending(<<"destroy", i>>) \/ Pending(<<"stop", i>>)

ServiceInvs == IntentInv /\ ServiceInv /\ RevokeInv

\* A step that leaves the intents and the service alone keeps the three invariants.
LEMMA Unserved ==
    ASSUME ServiceInvs, Same(looper, looper', IntentMessages), UNCHANGED serviceVars,
           engine' # "off" => engine # "off", granted => granted'
    PROVE  ServiceInvs'
<1>1. \A op \in Intents, i \in Id : <<op, i>> \in IntentMessages
  BY DEF IntentMessages
<1>2. \A op \in Intents, i \in Id : Pending(<<op, i>>)' <=> Pending(<<op, i>>)
  BY <1>1 DEF Same, Pending, serviceVars
<1>3. \A op, o \in Intents, i \in Id : Behind(<<op, i>>, <<o, i>>) => Behind(<<op, i>>, <<o, i>>)'
  BY <1>1 DEF Same, Behind, serviceVars
<1>4. IntentInv'
  BY <1>3 DEF ServiceInvs, IntentInv, serviceVars, Intents
<1>5. ServiceInv' /\ RevokeInv'
  BY <1>2 DEF ServiceInvs, ServiceInv, RevokeInv, serviceVars, Intents
<1>. QED
  BY <1>4, <1>5 DEF ServiceInvs

\* So does an intent sent to an instance that is there, or to a new one
\* (MainActivity.kt:38-58).
LEMMA Sent ==
    ASSUME TypeOK, TypeOK', ServiceInvs, Same(looper, looper', IntentMessages),
           NEW op \in {"start", "stop"}, SendIntent(op),
           engine' = engine, granted => granted', op = "start" => granted'
    PROVE  ServiceInvs'
<1>. DEFINE x == <<op, instance'>>
<1>0. ams \in Seq(IntentMessages) /\ instance \in Id /\ instance' \in Id
  BY DEF TypeOK
<1>1. \A o \in Intents, i \in Id : <<o, i>> \in IntentMessages
  BY DEF IntentMessages
<1>2. ams' = Append(ams, x) /\ x \in IntentMessages /\ service' = "started"
  BY <1>0 DEF SendIntent, Intents, IntentMessages
<1>. HIDE DEF x
<1>3. \A m : Has(ams', m) <=> Has(ams, m) \/ x = m
  BY <1>0, <1>2, HasAppend
<1>4. \A o \in Intents, i \in Id : Pending(<<o, i>>) => Pending(<<o, i>>)'
  BY <1>1, <1>3 DEF Same, Pending
<1>5. \A m, p \in IntentMessages : x # m /\ Behind(m, p) => Behind(m, p)'
  BY <1>0, <1>2, <1>3, FollowedAppend DEF Same, Behind
<1>6. ASSUME NEW o \in {"start", "stop"}, NEW i \in Id, i # instance'
      PROVE  Behind(<<o, i>>, <<"destroy", i>>)'
  <2>1. Behind(<<o, i>>, <<"destroy", i>>)
    BY <1>6 DEF ServiceInvs, IntentInv, SendIntent
  <2>2. x # <<o, i>> /\ <<o, i>> \in IntentMessages /\ <<"destroy", i>> \in IntentMessages
    BY <1>1, <1>6 DEF Intents, x
  <2>. QED
    BY <1>5, <2>1, <2>2
<1>7. IntentInv'
  BY <1>2, <1>6 DEF IntentInv
<1>8. ServiceInv'
  BY <1>2 DEF ServiceInv
<1>9. RevokeInv'
  <2>1. CASE op = "stop"
    <3>1. Has(ams', <<"stop", instance'>>)
      BY <1>3, <2>1 DEF x
    <3>. QED
      BY <1>0, <3>1 DEF RevokeInv, Pending
  <2>2. CASE op = "start"
    BY <2>2 DEF RevokeInv
  <2>. QED
    BY <2>1, <2>2
<1>. QED
  BY <1>7, <1>8, <1>9 DEF ServiceInvs

\* So does the activity manager that brings a stopped service down: its destroy is
\* behind every intent for the instance.
LEMMA Down ==
    ASSUME TypeOK, ServiceInvs, BringDown
    PROVE  ServiceInvs'
<1>. USE DEF BringDown
<1>. DEFINE x == <<"destroy", instance>>
<1>0. ams \in Seq(IntentMessages) /\ instance \in Id
  BY DEF TypeOK
<1>1. ams' = Append(ams, x) /\ x \in IntentMessages
  BY <1>0 DEF Intents, IntentMessages
<1>. HIDE DEF x
<1>2. \A m : Has(ams', m) <=> Has(ams, m) \/ x = m
  BY <1>0, <1>1, HasAppend
<1>3. Has(ams', <<"destroy", instance>>)
  BY <1>2 DEF x
<1>4. ASSUME NEW o \in {"start", "stop"}, NEW i \in Id
      PROVE  Behind(<<o, i>>, <<"destroy", i>>)'
  <2>1. x # <<o, i>> /\ (i = instance => x = <<"destroy", i>>)
    BY DEF x
  <2>2. CASE i = instance
    BY <1>0, <1>1, <1>2, <2>1, <2>2, FollowedAppend DEF Behind
  <2>3. CASE i # instance
    <3>1. Behind(<<o, i>>, <<"destroy", i>>)
      BY <2>3 DEF ServiceInvs, IntentInv
    <3>. QED
      BY <1>0, <1>1, <1>2, <2>1, <3>1, FollowedAppend DEF Behind
  <2>. QED
    BY <2>2, <2>3
<1>5. IntentInv'
  BY <1>4 DEF IntentInv
<1>6. Pending(<<"destroy", instance>>)'
  BY <1>3 DEF Pending
<1>7. ServiceInv' /\ RevokeInv'
  BY <1>0, <1>6 DEF ServiceInv, RevokeInv
<1>. QED
  BY <1>5, <1>7 DEF ServiceInvs

\* So does the loss of the permission, which stops the service.
LEMMA Revoked ==
    ASSUME TypeOK, ServiceInvs, Revoke
    PROVE  ServiceInvs'
<1>1. UNCHANGED <<looper, ams, instance, engine>> /\ ~granted'
  BY DEF Revoke
<1>2. service # "none" => service' = "stopping"
  BY DEF Revoke, StopSelf, TypeOK
<1>3. service = "none" => service' = "none"
  BY DEF Revoke, StopSelf
<1>4. \A m : Pending(m)' <=> Pending(m)
  BY <1>1 DEF Pending
<1>5. \A m, p : Behind(m, p)' <=> Behind(m, p)
  BY <1>1 DEF Behind
<1>6. IntentInv'
  BY <1>1, <1>2, <1>5 DEF ServiceInvs, IntentInv
<1>7. ServiceInv' /\ RevokeInv'
  BY <1>1, <1>2, <1>3, <1>4 DEF ServiceInvs, ServiceInv, RevokeInv
<1>. QED
  BY <1>6, <1>7 DEF ServiceInvs

\* An intent that reaches the main thread leaves behind it what was behind it.
LEMMA BehindArrives ==
    ASSUME TypeOK, ArriveIntent, NEW m, NEW p, m # p, Behind(m, p)
    PROVE  Behind(m, p)'
<1>. DEFINE x == Head(ams)
<1>1. /\ looper \in Seq(LooperMessages) /\ ams \in Seq(IntentMessages) /\ x \in LooperMessages
      /\ looper' = Append(looper, x) /\ ams' = Tail(ams) /\ ams # <<>>
  BY MessageSets DEF TypeOK, ArriveIntent
<1>. HIDE DEF x
<1>2. Has(looper', p) <=> Has(looper, p) \/ x = p
  BY <1>1, HasAppend
<1>3. Has(ams, p) <=> x = p \/ Has(ams', p)
  BY <1>1, HasTail DEF x
<1>4. Followed(ams', m, p) /\ (x = m => Has(ams', p))
  BY <1>1, FollowedTail DEF Behind, x
<1>5. CASE x = m
  BY <1>4, <1>5 DEF Behind
<1>6. CASE x # m /\ Has(ams', p)
  BY <1>4, <1>6 DEF Behind
<1>7. CASE x # m /\ ~Has(ams', p)
  <2>1. Followed(looper, m, p) \/ x = p
    BY <1>3, <1>7 DEF Behind
  <2>2. Followed(looper', m, p)
    BY <1>1, <1>7, <2>1, FollowedAppend
  <2>. QED
    BY <1>4, <2>2 DEF Behind
<1>. QED
  BY <1>5, <1>6, <1>7

\* An intent that runs leaves in their order those behind it.
LEMMA BehindServed ==
    ASSUME TypeOK, NEW i \in Id, NEW op \in Intents,
           NEW posts \in Seq(EventMessages), ServedAs(op, i, posts),
           NEW m \in IntentMessages, NEW p, Behind(m, p)
    PROVE  Behind(m, p)'
<1>1. /\ looper \in Seq(LooperMessages) /\ looper # <<>>
      /\ looper' = Tail(looper) \o posts /\ ams' = ams
  BY DEF ServedAs, TypeOK
<1>2. Tail(looper) \in Seq(LooperMessages) /\ posts \in Seq(LooperMessages)
  BY <1>1, MessageSets
<1>3. CASE Has(ams, p)
  BY <1>1, <1>3 DEF Behind
<1>4. CASE Followed(looper, m, p)
  <2>1. Followed(Tail(looper), m, p)
    BY <1>1, <1>4, FollowedTail
  <2>2. ~Has(posts, m)
    BY MessageSets DEF Has
  <2>3. Followed(posts, m, p)
    BY <2>2, FollowedVoid
  <2>4. Followed(looper', m, p)
    BY <1>1, <1>2, <2>1, <2>3, FollowedConcat
  <2>. QED
    BY <1>1, <2>4 DEF Behind
<1>. QED
  BY <1>3, <1>4 DEF Behind

\* What is behind the intent that runs is still to come.
LEMMA ServedLeaves ==
    ASSUME TypeOK, NEW i \in Id, NEW op \in Intents,
           NEW posts \in Seq(EventMessages), ServedAs(op, i, posts),
           NEW p, Behind(<<op, i>>, p)
    PROVE  Pending(p)'
<1>1. /\ looper \in Seq(LooperMessages) /\ looper # <<>> /\ Head(looper) = <<op, i>>
      /\ looper' = Tail(looper) \o posts /\ ams' = ams
  BY DEF ServedAs, TypeOK
<1>2. Tail(looper) \in Seq(LooperMessages) /\ posts \in Seq(LooperMessages)
  BY <1>1, MessageSets
<1>3. CASE Has(ams, p)
  BY <1>1, <1>3 DEF Pending
<1>4. CASE Followed(looper, <<op, i>>, p)
  <2>1. Has(Tail(looper), p)
    BY <1>1, <1>4, FollowedTail
  <2>. QED
    BY <1>1, <1>2, <2>1, HasConcat DEF Pending
<1>. QED
  BY <1>3, <1>4 DEF Behind

\* So does an intent that reaches the main thread: it stays in its order.
LEMMA Arrived ==
    ASSUME TypeOK, ServiceInvs, ArriveIntent
    PROVE  ServiceInvs'
<1>. USE DEF TypeOK, ArriveIntent
<1>. DEFINE x == Head(ams)
<1>1. /\ x \in LooperMessages
      /\ looper' = Append(looper, x) /\ ams' = Tail(ams) /\ ams # <<>>
      /\ UNCHANGED <<service, instance, granted, engine>>
  BY DEF LooperMessages, dartVars, activityVars
<1>. HIDE DEF ArriveIntent
<1>2. \A m : Has(looper', m) <=> Has(looper, m) \/ x = m
  BY <1>1, HasAppend
<1>3. \A m : Has(ams, m) <=> x = m \/ Has(ams', m)
  BY <1>1, HasTail
<1>4. \A m : Pending(m)' <=> Pending(m)
  BY <1>2, <1>3 DEF Pending
<1>5. \A m, p : m # p /\ Behind(m, p) => Behind(m, p)'
  BY BehindArrives
<1>6. IntentInv'
  BY <1>1, <1>5 DEF ServiceInvs, IntentInv
<1>7. ServiceInv' /\ RevokeInv'
  BY <1>1, <1>4 DEF ServiceInvs, ServiceInv, RevokeInv
<1>. QED
  BY <1>6, <1>7 DEF ServiceInvs

\* So does the service that runs an intent (FfVpnService.kt:26-148): a start
\* for an instance that is gone has its destroy behind it.
LEMMA Served ==
    ASSUME TypeOK, ServiceInvs, NEW i \in Id, NEW op \in Intents,
           NEW posts \in Seq(EventMessages), ServedAs(op, i, posts)
    PROVE  ServiceInvs'
<1>. DEFINE x == <<op, i>>
<1>. USE DEF TypeOK
<1>1. /\ looper # <<>> /\ Head(looper) = x /\ looper' = Tail(looper) \o posts
      /\ UNCHANGED <<ams, instance, granted>>
  BY DEF ServedAs, activityVars
<1>2. Tail(looper) \in Seq(LooperMessages) /\ posts \in Seq(LooperMessages)
  BY <1>1 DEF LooperMessages
<1>3. ASSUME NEW o \in Intents, NEW j \in Id PROVE ~Has(posts, <<o, j>>)
  <2>1. <<o, j>> \notin EventMessages
    BY DEF EventMessages, Events, Intents
  <2>2. \A k \in 1..Len(posts) : posts[k] \in EventMessages
    OBVIOUS
  <2>. QED
    BY <2>1, <2>2 DEF Has
<1>4. ASSUME NEW o \in Intents, NEW j \in Id, x # <<o, j>>, Pending(<<o, j>>)
      PROVE  Pending(<<o, j>>)'
  BY <1>1, <1>2, <1>4, HasTail, HasConcat DEF Pending
<1>5. ASSUME NEW o \in Intents, NEW p \in Intents, NEW j \in Id,
             Behind(<<o, j>>, <<p, j>>)
      PROVE  Behind(<<o, j>>, <<p, j>>)'
  BY <1>5, BehindServed, MessageSets
<1>6. IntentInv'
  <2>1. "start" \in Intents /\ "stop" \in Intents /\ "destroy" \in Intents
    BY DEF Intents
  <2>. SUFFICES ASSUME NEW o \in {"start", "stop"}, NEW j \in Id,
                       ~ (j = instance' /\ service' # "none")
                PROVE  Behind(<<o, j>>, <<"destroy", j>>)'
    BY DEF IntentInv
  <2>2. Behind(<<o, j>>, <<"destroy", j>>)
    BY <1>1 DEF ServiceInvs, IntentInv, ServedAs
  <2>. QED
    BY <1>5, <2>1, <2>2
<1>7. ASSUME op = "start", Behind(x, <<"destroy", i>>) PROVE Pending(<<"destroy", i>>)'
  BY <1>7, ServedLeaves
<1>8. ServiceInv'
  <2>1. CASE op = "start" /\ i = instance /\ service # "none"
    BY <2>1 DEF ServedAs, ServiceInv
  <2>2. CASE op = "start" /\ ~ (i = instance /\ service # "none")
    <3>1. Behind(x, <<"destroy", i>>)
      BY <2>2 DEF ServiceInvs, IntentInv
    <3>2. Pending(<<"destroy", i>>)'
      BY <1>7, <2>2, <3>1
    <3>. QED
      BY <3>2 DEF ServiceInv
  <2>3. CASE op # "start"
    BY <2>3 DEF ServedAs, ServiceInv
  <2>. QED
    BY <2>1, <2>2, <2>3
<1>9. RevokeInv'
  <2>. SUFFICES ASSUME ~granted', engine' # "off", service' # "stopping"
                PROVE  \E j \in Id : Pending(<<"destroy", j>>)' \/ Pending(<<"stop", j>>)'
    BY DEF RevokeInv
  <2>1. op = "start" /\ engine # "off" /\ ~granted /\ service # "stopping"
    BY <1>1 DEF ServedAs
  <2>2. PICK j \in Id : Pending(<<"destroy", j>>) \/ Pending(<<"stop", j>>)
    BY <2>1 DEF ServiceInvs, RevokeInv
  <2>3. x # <<"destroy", j>> /\ x # <<"stop", j>> /\ "destroy" \in Intents /\ "stop" \in Intents
    BY <2>1 DEF Intents
  <2>4. Pending(<<"destroy", j>>)' \/ Pending(<<"stop", j>>)'
    BY <1>4, <2>2, <2>3
  <2>. QED
    BY <2>4
<1>. QED
  BY <1>6, <1>8, <1>9 DEF ServiceInvs

\* Every step keeps the invariants about the service.
LEMMA ServicesStep ==
    ASSUME TypeOK, TypeOK', AppAssumption, ServiceInvs, Next
    PROVE  ServiceInvs'
<1>1. CASE \E i \in Id : ServiceStep(i)
  BY <1>1, Serving, Served
<1>2. CASE ArriveIntent \/ BringDown \/ Revoke
  BY <1>2, Arrived, Down, Revoked
<1>3. CASE \E e \in Events : DeliverEvent(e)
  <2>1. Same(looper, looper', IntentMessages)
    BY <1>3, IntentsLeft
  <2>2. UNCHANGED serviceVars /\ engine' = engine /\ granted' = granted
    BY <1>3 DEF DeliverEvent, activityVars
  <2>. QED
    BY <2>1, <2>2, Unserved
<1>4. CASE QuietStep /\ ~BringDown /\ ~Revoke
  <2>0. Same(looper, looper', IntentMessages)
    BY <1>4, IntentsLeft
  <2>1. /\ granted => granted'
        /\ \/ UNCHANGED serviceVars /\ (engine' # "off" => engine # "off")
           \/ SendIntent("stop") /\ engine' = engine
           \/ SendIntent("start") /\ granted' /\ engine' = engine
    <3>1. ASSUME NEW n \in Presses, OnHasPermission(n) \/ OnRequestPermission(n)
          PROVE  UNCHANGED <<granted, serviceVars, engine>>
      BY <3>1 DEF OnHasPermission, OnRequestPermission, activityVars
    <3>2. ASSUME NEW n \in Presses, OnConnect(n)
          PROVE  /\ UNCHANGED <<granted, engine>>
                 /\ \/ UNCHANGED serviceVars
                    \/ SendIntent("start") /\ granted
      BY <3>2 DEF OnConnect
    <3>3. ASSUME NEW n \in Presses, OnDisconnect(n)
          PROVE  UNCHANGED <<granted, engine>> /\ SendIntent("stop")
      BY <3>3 DEF OnDisconnect, activityVars
    <3>30. ASSUME NEW n \in Presses, OnConnectThrows(n) \/ OnDisconnectThrows(n)
          PROVE  UNCHANGED <<granted, serviceVars, engine>>
      BY <3>30 DEF OnConnectThrows, OnDisconnectThrows, activityVars
    <3>4. CASE \E n \in Presses : ActivityStep(n)
      BY <3>1, <3>2, <3>3, <3>30, <3>4 DEF ActivityStep
    <3>5. CASE \E n \in Presses : ControllerStep(n)
      BY <3>5 DEF ControllerStep, PermissionMissing, PermissionThere, ConnectReturns,
                  ConnectThrows, DisconnectReturns, DisconnectThrows, Receive, activityVars
    <3>6. CASE \E ok \in BOOLEAN : OnActivityResult(ok)
      BY <3>6 DEF OnActivityResult
    <3>7. CASE \/ Bootstrap \/ PressConnect \/ PressDisconnect \/ RestartUi
               \/ ShowRunning \/ ShowStopped \/ ShowFailed
               \/ OnListen \/ EngineDies
      BY <3>7 DEF Bootstrap, PressConnect, PressDisconnect, Press, RestartUi, ShowRunning,
                  ShowStopped, ShowFailed, Receive, OnListen, EngineDies, activityVars
    <3>. QED
      BY <1>4, <3>4, <3>5, <3>6, <3>7 DEF QuietStep
  <2>. QED
    BY <2>0, <2>1, Unserved, Sent
<1>. QED
  BY <1>1, <1>2, <1>3, <1>4, NextSplit

-----------------------------------------------------------------------------
(* Channel calls: where each is, and how many there can be *)

\* The questions and answers of call n.
Asks(n) == Methods \X {n}
Answers(n) == Results \X {n}
InLooper(n) == \E x \in Asks(n) : Has(looper, x)
InDart(n) == \E x \in Answers(n) : Has(toDart, x)

\* A call is in one place, once, under the name its coroutine awaits.
Placed(n) ==
    /\ Once(looper, Asks(n)) /\ Once(toDart, Answers(n))
    /\ InLooper(n) => ~InDart(n) /\ pending # n
    /\ InDart(n) => pending # n
    /\ \A op \in Methods : Has(looper, <<op, n>>) => call[n] = op
    /\ InDart(n) => call[n] \in Methods
    /\ Has(toDart, <<"false", n>>) => call[n] = "hasPermission"
    /\ pending = n => call[n] \in {"requestPermission", "connect"}
    /\ pending = n /\ pendingStart => call[n] = "connect"
    /\ n > presses => call[n] = "none"

CallInv ==
    /\ \A n \in Presses : Placed(n)
    /\ pendingStart => pending # None

\* Calls that may still open a dialog, and those that may still send an intent.
MayAsk(n) ==
    \/ InLooper(n)
    \/ InDart(n) /\ call[n] \in {"hasPermission", "requestPermission"}
MaySend(n) == MayAsk(n) \/ pending = n
Askers == {n \in Presses : MayAsk(n)}
Senders == {n \in Presses : MaySend(n)}

\* A press opens one dialog at a time and sends one intent.
CountInv ==
    /\ instance + Cardinality(Senders) <= presses
    /\ dialogs + Cardinality(Askers) <= presses

\* r has no more of X than q.
Less(q, r, X) ==
    /\ Once(q, X) => Once(r, X)
    /\ \A m \in X : Has(r, m) => Has(q, m)

\* Less is what appending other messages, taking one, and posting do.
LEMMA LessSelf == \A q, X : Less(q, q, X)
BY DEF Less

\* A message of another kind adds none.
LEMMA LessAppend ==
    ASSUME NEW S, NEW q \in Seq(S), NEW x \in S, NEW X, x \notin X
    PROVE  Less(q, Append(q, x), X)
BY HasAppend, OnceAppend DEF Less

\* Taking a message adds none.
LEMMA LessTail ==
    ASSUME NEW S, NEW q \in Seq(S), q # <<>>, NEW X
    PROVE  Less(q, Tail(q), X)
BY HasTail, OnceTail DEF Less

\* Nor does posting messages of another kind.
LEMMA LessConcat ==
    ASSUME NEW S, NEW q \in Seq(S), q # <<>>, NEW r \in Seq(S), NEW X,
           \A m \in X : ~Has(r, m)
    PROVE  Less(q, Tail(q) \o r, X)
<1>1. Tail(q) \in Seq(S)
  OBVIOUS
<1>2. \A m \in X : Has(Tail(q) \o r, m) => Has(Tail(q), m)
  BY <1>1, HasConcat
<1>3. Once(Tail(q), X) => Once(Tail(q) \o r, X)
  BY <1>1, OnceConcat
<1>. QED
  BY <1>2, <1>3, HasTail, OnceTail DEF Less

\* A queue without any has no more than another.
LEMMA LessNone ==
    ASSUME NEW q, NEW r, NEW X, \A k \in 1..Len(r) : r[k] \notin X
    PROVE  Less(q, r, X) /\ (\A m \in X : ~Has(r, m))
BY DEF Less, Once, Has

\* What a step that does not concern call n does to it.
Still(n) ==
    /\ Less(looper, looper', Asks(n)) /\ Less(toDart, toDart', Answers(n))
    /\ pending' = n => pending = n
    /\ pending' = n /\ pendingStart' => pendingStart
    /\ call'[n] = call[n]
    /\ n > presses' => n > presses

\* A call that a step does not concern stays where it is.
LEMMA Bystander ==
    ASSUME NEW n \in Presses, Placed(n), Still(n)
    PROVE  Placed(n)' /\ (MayAsk(n)' => MayAsk(n)) /\ (MaySend(n)' => MaySend(n))
<1>1. (InLooper(n)' => InLooper(n)) /\ (InDart(n)' => InDart(n))
  BY DEF Still, Less, InLooper, InDart
<1>2. \A op \in Methods : Has(looper', <<op, n>>) => Has(looper, <<op, n>>)
  BY DEF Still, Less, Asks
<1>3. Has(toDart', <<"false", n>>) => Has(toDart, <<"false", n>>)
  BY DEF Still, Less, Answers, Results
<1>4. Once(looper', Asks(n)) /\ Once(toDart', Answers(n))
  BY DEF Still, Less, Placed
<1>5. Placed(n)'
  BY <1>1, <1>2, <1>3, <1>4 DEF Still, Placed
<1>6. (MayAsk(n)' => MayAsk(n)) /\ (MaySend(n)' => MaySend(n))
  BY <1>1 DEF Still, MayAsk, MaySend
<1>. QED
  BY <1>5, <1>6

\* One more or one less of a set of calls is one more or one less to count.
LEMMA Counting ==
    ASSUME AppAssumption, NEW A \in SUBSET Presses, NEW B \in SUBSET Presses
    PROVE  /\ Cardinality(A) \in Nat /\ Cardinality(B) \in Nat
           /\ B \subseteq A => Cardinality(B) <= Cardinality(A)
           /\ \A n \in A : B \subseteq A \ {n} => Cardinality(B) + 1 <= Cardinality(A)
           /\ \A n \in Presses : B \subseteq A \cup {n} => Cardinality(B) <= Cardinality(A) + 1
<1>1. IsFiniteSet(Presses)
  BY FS_Interval DEF Presses, AppAssumption
<1>2. IsFiniteSet(A) /\ IsFiniteSet(B) /\ Cardinality(A) \in Nat /\ Cardinality(B) \in Nat
  BY <1>1, FS_Subset, FS_CardinalityType
<1>3. B \subseteq A => Cardinality(B) <= Cardinality(A)
  BY <1>2, FS_Subset
<1>4. ASSUME NEW n \in A, B \subseteq A \ {n} PROVE Cardinality(B) + 1 <= Cardinality(A)
  <2>1. IsFiniteSet(A \ {n}) /\ Cardinality(A \ {n}) = Cardinality(A) - 1
    BY <1>2, FS_RemoveElement
  <2>2. Cardinality(B) <= Cardinality(A \ {n})
    BY <1>4, <2>1, FS_Subset
  <2>. QED
    BY <1>2, <2>1, <2>2
<1>5. ASSUME NEW n \in Presses, B \subseteq A \cup {n} PROVE Cardinality(B) <= Cardinality(A) + 1
  <2>1. /\ IsFiniteSet(A \cup {n})
        /\ Cardinality(A \cup {n}) = Cardinality(A) \/ Cardinality(A \cup {n}) = Cardinality(A) + 1
    BY <1>2, FS_AddElement
  <2>2. Cardinality(B) <= Cardinality(A \cup {n})
    BY <1>5, <2>1, FS_Subset
  <2>. QED
    BY <1>2, <2>1, <2>2
<1>. QED
  BY <1>2, <1>3, <1>4, <1>5

Counts == CallInv /\ CountInv

\* No call is concerned.
LEMMA Uncalled ==
    ASSUME TypeOK, AppAssumption, Counts, \A n \in Presses : Still(n),
           UNCHANGED <<presses, instance, dialogs>>, pendingStart' => pendingStart /\ pending' = pending
    PROVE  Counts'
<1>1. \A n \in Presses : /\ Placed(n)'
                         /\ MayAsk(n)' => MayAsk(n)
                         /\ MaySend(n)' => MaySend(n)
  BY Bystander DEF Counts, CallInv
<1>2. CallInv'
  BY <1>1 DEF CallInv, Counts
<1>3. Senders' \subseteq Senders /\ Askers' \subseteq Askers
  BY <1>1 DEF Senders, Askers
<1>4. Senders \in SUBSET Presses /\ Askers \in SUBSET Presses
  BY DEF Senders, Askers
<1>5. Cardinality(Senders') <= Cardinality(Senders) /\ Cardinality(Askers') <= Cardinality(Askers)
  BY <1>3, <1>4, Counting
<1>6. /\ Cardinality(Senders) \in Nat /\ Cardinality(Askers) \in Nat
      /\ Cardinality(Senders') \in Nat /\ Cardinality(Askers') \in Nat
  BY <1>3, <1>4, Counting
<1>7. instance \in Nat /\ dialogs \in Nat /\ presses \in Nat
  BY DEF TypeOK, Id, AppAssumption
<1>8. CountInv'
  BY <1>5, <1>6, <1>7 DEF Counts, CountInv
<1>. QED
  BY <1>2, <1>8 DEF Counts

\* What is counted are sets of presses, and the counts are numbers.
LEMMA CountTypes ==
    ASSUME TypeOK, AppAssumption
    PROVE  /\ Senders \in SUBSET Presses /\ Askers \in SUBSET Presses
           /\ Senders' \in SUBSET Presses /\ Askers' \in SUBSET Presses
           /\ Cardinality(Senders) \in Nat /\ Cardinality(Askers) \in Nat
           /\ Cardinality(Senders') \in Nat /\ Cardinality(Askers') \in Nat
           /\ instance \in Nat /\ dialogs \in Nat /\ presses \in Nat
<1>1. /\ Senders \in SUBSET Presses /\ Askers \in SUBSET Presses
      /\ Senders' \in SUBSET Presses /\ Askers' \in SUBSET Presses
  BY DEF Senders, Askers
<1>2. instance \in Nat /\ dialogs \in Nat /\ presses \in Nat
  BY DEF TypeOK, Id, AppAssumption
<1>. QED
  BY <1>1, <1>2, Counting

\* A press adds one call, in the looper.
LEMMA Pressed ==
    ASSUME TypeOK, AppAssumption, Counts, NEW op \in Methods, NEW what,
           Press(what), Invoke(presses + 1, op)
    PROVE  Counts'
<1>1. /\ looper \in Seq(LooperMessages) /\ toDart \in Seq(DartMessages)
      /\ call \in [Presses -> Awaits] /\ presses \in Nat
  BY DEF TypeOK, AppAssumption
<1>0. PICK n \in Presses : n = presses + 1
  BY <1>1 DEF Press, Presses, AppAssumption
<1>2. /\ presses' = n
      /\ UNCHANGED <<toDart, pending, pendingStart, instance, dialogs>>
      /\ call' = [call EXCEPT ![n] = op] /\ looper' = Append(looper, <<op, n>>)
  BY <1>0, <1>1 DEF Press, activityVars, serviceVars, Invoke
<1>3. n > presses /\ ~ (n > presses') /\ \A m \in Presses : m > presses' => m > presses
  BY <1>0, <1>1, <1>2 DEF Presses, AppAssumption
<1>4. <<op, n>> \in LooperMessages
  BY <1>2 DEF LooperMessages
<1>5. ~InLooper(n) /\ ~InDart(n) /\ pending # n
  <2>1. call[n] = "none" /\ "none" \notin Methods
    BY <1>2, <1>3 DEF Counts, CallInv, Placed, Methods
  <2>2. ~InDart(n) /\ pending # n
    BY <1>2, <2>1 DEF Counts, CallInv, Placed, Methods
  <2>3. \A o \in Methods : ~Has(looper, <<o, n>>)
    BY <1>2, <2>1 DEF Counts, CallInv, Placed
  <2>. QED
    BY <2>2, <2>3 DEF InLooper, Asks
<1>6. ASSUME NEW m \in Presses \ {n} PROVE Still(m)
  <2>1. <<op, n>> \notin Asks(m)
    BY DEF Asks
  <2>2. m > presses' => m > presses
    BY <1>3
  <2>3. call'[m] = call[m]
    BY <1>1, <1>2
  <2>. QED
    BY <1>1, <1>2, <1>4, <2>1, <2>2, <2>3, LessAppend, LessSelf DEF Still
<1>7. /\ Placed(n)'
      /\ \A m \in Presses \ {n} : Placed(m)' /\ (MayAsk(m)' => MayAsk(m)) /\ (MaySend(m)' => MaySend(m))
  <2>1. \A m \in Asks(n) : Has(looper', m) <=> m = <<op, n>>
    BY <1>1, <1>2, <1>4, <1>5, HasAppend DEF InLooper
  <2>2. Once(looper', Asks(n)) /\ Once(toDart', Answers(n))
    BY <1>1, <1>2, <1>4, <1>5, OnceAppend DEF InLooper, Counts, CallInv, Placed
  <2>3. call'[n] = op /\ (\A o \in Methods : Has(looper', <<o, n>>) => o = op)
    BY <1>1, <1>2, <2>1 DEF Asks
  <2>4. ~InDart(n)' /\ pending' # n
    BY <1>2, <1>5 DEF InDart
  <2>5. ~Has(toDart', <<"false", n>>)
    BY <2>4 DEF InDart, Answers, Results
  <2>6. Placed(n)'
    BY <1>3, <2>2, <2>3, <2>4, <2>5 DEF Placed
  <2>. QED
    BY <1>6, <2>6, Bystander DEF Counts, CallInv
<1>8. CallInv'
  <2>1. pendingStart' => pending' # None
    BY <1>2 DEF CallInv, Counts
  <2>. QED
    BY <1>7, <2>1 DEF CallInv
<1>9. Senders' \subseteq Senders \cup {n} /\ Askers' \subseteq Askers \cup {n}
  BY <1>7 DEF Senders, Askers
<1>10. CountInv'
  <2>1. Cardinality(Senders') <= Cardinality(Senders) + 1 /\ Cardinality(Askers') <= Cardinality(Askers) + 1
    BY <1>2, <1>9, CountTypes, Counting
  <2>2. /\ instance + Cardinality(Senders) <= presses /\ dialogs + Cardinality(Askers) <= presses
        /\ instance' = instance /\ dialogs' = dialogs /\ presses' = presses + 1
    BY <1>0, <1>2 DEF Counts, CountInv
  <2>3. instance' + Cardinality(Senders') <= presses' /\ dialogs' + Cardinality(Askers') <= presses'
    BY <2>1, <2>2, CountTypes
  <2>. QED
    BY <2>3 DEF CountInv
<1>. QED
  BY <1>8, <1>10 DEF Counts

\* A coroutine goes on: it calls the next method or is over.
LEMMA Received ==
    ASSUME TypeOK, AppAssumption, Counts, NEW n \in Presses, ControllerStep(n)
    PROVE  Counts'
<1>1. /\ looper \in Seq(LooperMessages) /\ toDart \in Seq(DartMessages)
      /\ call \in [Presses -> Awaits] /\ presses \in Nat
  BY DEF TypeOK, AppAssumption
<1>2. PICK r \in Results : Receive(r, n)
  BY DEF ControllerStep, PermissionMissing, PermissionThere, ConnectReturns, ConnectThrows,
         DisconnectReturns, DisconnectThrows, Results
<1>3. /\ toDart # <<>> /\ Head(toDart) = <<r, n>> /\ toDart' = Tail(toDart)
      /\ UNCHANGED <<presses, pending, pendingStart, instance, dialogs>>
  BY <1>2 DEF Receive, activityVars, serviceVars
<1>4. /\ Once(toDart', Answers(n)) /\ ~InDart(n)' /\ InDart(n) /\ ~Has(toDart', <<"false", n>>)
      /\ r = "false" => Has(toDart, <<"false", n>>)
  <2>1. <<r, n>> \in Answers(n) /\ <<"false", n>> \in Answers(n)
    BY DEF Answers, Results
  <2>2. Has(toDart, <<r, n>>)
    BY <1>1, <1>3, HasTail
  <2>. QED
    BY <1>1, <1>3, <2>1, <2>2, OnceTail DEF InDart, Counts, CallInv, Placed
<1>5. ~InLooper(n) /\ pending # n /\ pending' # n
  BY <1>3, <1>4 DEF Counts, CallInv, Placed
<1>6. \/ call' = [call EXCEPT ![n] = "over"] /\ looper' = looper
      \/ /\ call[n] \in {"hasPermission", "requestPermission"}
         /\ \E op \in Methods : Invoke(n, op)
  <2>1. CASE PermissionMissing(n)
    <3>1. Has(toDart, <<"false", n>>)
      BY <1>1, <2>1, HasTail DEF PermissionMissing, Receive
    <3>2. call[n] = "hasPermission" /\ "requestPermission" \in Methods
      BY <3>1 DEF Counts, CallInv, Placed, Methods
    <3>. QED
      BY <2>1, <3>2 DEF PermissionMissing
  <2>2. CASE PermissionThere(n)
    BY <2>2 DEF PermissionThere, Methods
  <2>3. CASE ConnectReturns(n) \/ ConnectThrows(n) \/ DisconnectReturns(n) \/ DisconnectThrows(n)
    BY <2>3 DEF ConnectReturns, ConnectThrows, DisconnectReturns, DisconnectThrows, Return
  <2>. QED
    BY <2>1, <2>2, <2>3 DEF ControllerStep
<1>7. ASSUME NEW m \in Presses \ {n} PROVE Still(m)
  <2>1. Less(looper, looper', Asks(m))
    <3>1. CASE looper' = looper
      BY <3>1, LessSelf
    <3>2. CASE \E op \in Methods : Invoke(n, op)
      <4>1. PICK op \in Methods : looper' = Append(looper, <<op, n>>)
        BY <3>2 DEF Invoke
      <4>2. <<op, n>> \notin Asks(m) /\ <<op, n>> \in LooperMessages
        BY DEF Asks, LooperMessages
      <4>. QED
        BY <1>1, <4>1, <4>2, LessAppend
    <3>. QED
      BY <1>6, <3>1, <3>2
  <2>2. Less(toDart, toDart', Answers(m))
    BY <1>1, <1>3, LessTail
  <2>3. call'[m] = call[m]
    BY <1>1, <1>6 DEF Invoke
  <2>. QED
    BY <1>3, <2>1, <2>2, <2>3 DEF Still
<1>8. Placed(n)' /\ (MayAsk(n)' => MayAsk(n))
  <2>0. n > presses' => FALSE
    BY <1>3, <1>4 DEF Counts, CallInv, Placed, Methods
  <2>1. CASE call' = [call EXCEPT ![n] = "over"] /\ looper' = looper
    <3>1. ~InLooper(n)' /\ Once(looper', Asks(n))
      BY <1>5, <2>1 DEF InLooper, Counts, CallInv, Placed
    <3>2. \A o \in Methods : ~Has(looper', <<o, n>>)
      BY <3>1 DEF InLooper, Asks
    <3>. QED
      BY <1>4, <1>5, <2>0, <3>1, <3>2 DEF Placed, MayAsk
  <2>2. CASE call[n] \in {"hasPermission", "requestPermission"} /\ (\E op \in Methods : Invoke(n, op))
    <3>1. PICK op \in Methods : /\ looper' = Append(looper, <<op, n>>)
                               /\ call' = [call EXCEPT ![n] = op]
      BY <2>2 DEF Invoke
    <3>2. <<op, n>> \in LooperMessages
      BY DEF LooperMessages
    <3>3. \A m \in Asks(n) : Has(looper', m) <=> m = <<op, n>>
      BY <1>1, <1>5, <3>1, <3>2, HasAppend DEF InLooper
    <3>4. Once(looper', Asks(n))
      BY <1>1, <1>5, <3>1, <3>2, OnceAppend DEF InLooper, Counts, CallInv, Placed
    <3>5. call'[n] = op /\ (\A o \in Methods : Has(looper', <<o, n>>) => o = op)
      BY <1>1, <3>1, <3>3 DEF Asks
    <3>6. MayAsk(n)
      BY <1>4, <2>2 DEF MayAsk
    <3>. QED
      BY <1>4, <1>5, <2>0, <3>4, <3>5, <3>6 DEF Placed
  <2>. QED
    BY <1>6, <2>1, <2>2
<1>9. \A m \in Presses : Placed(m)' /\ (MayAsk(m)' => MayAsk(m)) /\ (MaySend(m)' => MaySend(m))
  BY <1>5, <1>7, <1>8, Bystander DEF Counts, CallInv, MaySend
<1>10. CallInv'
  BY <1>3, <1>9 DEF CallInv, Counts
<1>11. Senders' \subseteq Senders /\ Askers' \subseteq Askers
  BY <1>9 DEF Senders, Askers
<1>12. CountInv'
  <2>1. Cardinality(Senders') <= Cardinality(Senders) /\ Cardinality(Askers') <= Cardinality(Askers)
    BY <1>11, CountTypes, Counting
  <2>2. /\ instance + Cardinality(Senders) <= presses /\ dialogs + Cardinality(Askers) <= presses
        /\ instance' = instance /\ dialogs' = dialogs /\ presses' = presses
    BY <1>3 DEF Counts, CountInv
  <2>3. instance' + Cardinality(Senders') <= presses' /\ dialogs' + Cardinality(Askers') <= presses'
    BY <2>1, <2>2, CountTypes
  <2>. QED
    BY <2>3 DEF CountInv
<1>. QED
  BY <1>10, <1>12 DEF Counts

\* The activity handles a call: it answers, perhaps sending an intent, or asks.
LEMMA Handled ==
    ASSUME TypeOK, AppAssumption, Counts, NEW n \in Presses, ActivityStep(n)
    PROVE  Counts'
<1>1. /\ looper \in Seq(LooperMessages) /\ toDart \in Seq(DartMessages)
      /\ instance \in Nat /\ dialogs \in Nat /\ presses \in Nat
  BY CountTypes DEF TypeOK
<1>2. PICK op \in Methods :
          /\ Handle(op, n)
          /\ \/ \E r \in Results :
                  /\ toDart' = Append(toDart, <<r, n>>)
                  /\ r = "false" => op = "hasPermission"
                  /\ UNCHANGED <<pending, pendingStart, dialogs>>
                  /\ \/ instance' = instance
                     \/ instance' = instance + 1 /\ op \in {"connect", "disconnect"}
             \/ /\ op \in {"requestPermission", "connect"}
                /\ pending' = n /\ dialogs' = dialogs + 1
                /\ pendingStart' => op = "connect"
                /\ UNCHANGED <<toDart, instance>>
  <2>1. CASE OnHasPermission(n)
    BY <2>1 DEF OnHasPermission, Reply, activityVars, serviceVars, Methods, Results
  <2>2. CASE OnRequestPermission(n)
    BY <2>2 DEF OnRequestPermission, Reply, AskUser, serviceVars, Methods, Results
  <2>3. CASE OnConnect(n)
    BY <2>3 DEF OnConnect, Reply, AskUser, SendIntent, serviceVars, Methods, Results
  <2>4. CASE OnDisconnect(n)
    BY <2>4 DEF OnDisconnect, Reply, SendIntent, activityVars, Methods, Results
  <2>5. CASE OnConnectThrows(n) \/ OnDisconnectThrows(n)
    BY <2>5 DEF OnConnectThrows, OnDisconnectThrows, Reply, activityVars, serviceVars, Methods, Results
  <2>. QED
    BY <2>1, <2>2, <2>3, <2>4, <2>5 DEF ActivityStep
<1>3. /\ looper # <<>> /\ Head(looper) = <<op, n>> /\ looper' = Tail(looper)
      /\ UNCHANGED <<call, presses>>
  BY <1>2 DEF Handle, dartVars
<1>4. <<op, n>> \in Asks(n)
  BY DEF Asks
<1>5. InLooper(n) /\ Once(looper', Asks(n)) /\ ~InLooper(n)' /\ call[n] = op
  <2>1. Has(looper, <<op, n>>)
    BY <1>1, <1>3, HasTail
  <2>2. InLooper(n) /\ call[n] = op
    BY <1>4, <2>1 DEF InLooper, Counts, CallInv, Placed
  <2>. QED
    BY <1>1, <1>3, <1>4, <2>2, OnceTail DEF InLooper, Counts, CallInv, Placed
<1>6. ~InDart(n) /\ pending # n /\ Once(toDart, Answers(n))
  BY <1>5 DEF Counts, CallInv, Placed
<1>7. \A o \in Methods : ~Has(looper', <<o, n>>)
  BY <1>5 DEF InLooper, Asks
<1>8. ~ (n > presses')
  BY <1>3, <1>5 DEF Counts, CallInv, Placed, Methods
<1>9. ASSUME NEW r \in Results, toDart' = Append(toDart, <<r, n>>)
      PROVE  \A m \in Presses \ {n} : Less(toDart, toDart', Answers(m))
  <2>1. <<r, n>> \in DartMessages /\ \A m \in Presses \ {n} : <<r, n>> \notin Answers(m)
    BY DEF DartMessages, Results, Answers
  <2>. QED
    BY <1>1, <1>9, <2>1, LessAppend
<1>10. ASSUME NEW m \in Presses \ {n} PROVE Still(m)
  <2>1. Less(looper, looper', Asks(m))
    BY <1>1, <1>3, LessTail
  <2>2. Less(toDart, toDart', Answers(m))
    BY <1>2, <1>9, LessSelf
  <2>. QED
    BY <1>2, <1>3, <2>1, <2>2 DEF Still
<1>11. \A m \in Presses \ {n} : Placed(m)' /\ (MayAsk(m)' => MayAsk(m)) /\ (MaySend(m)' => MaySend(m))
  BY <1>10, Bystander DEF Counts, CallInv
<1>12. MayAsk(n) /\ MaySend(n)
  <2>1. MayAsk(n)
    BY <1>5 DEF MayAsk
  <2>. QED
    BY <2>1 DEF MaySend
<1>13. /\ Senders \in SUBSET Presses /\ Askers \in SUBSET Presses
       /\ Senders' \in SUBSET Presses /\ Askers' \in SUBSET Presses
       /\ Cardinality(Senders) \in Nat /\ Cardinality(Askers) \in Nat
       /\ Cardinality(Senders') \in Nat /\ Cardinality(Askers') \in Nat
  BY CountTypes
<1>14. instance + Cardinality(Senders) <= presses /\ dialogs + Cardinality(Askers) <= presses
  BY DEF Counts, CountInv
<1>15. CASE /\ op \in {"requestPermission", "connect"}
            /\ pending' = n /\ dialogs' = dialogs + 1
            /\ pendingStart' => op = "connect"
            /\ UNCHANGED <<toDart, instance>>
  <2>1. ~InDart(n)' /\ ~Has(toDart', <<"false", n>>)
    BY <1>6, <1>15 DEF InDart, Answers, Results
  <2>2. Placed(n)' /\ ~MayAsk(n)'
    BY <1>3, <1>5, <1>6, <1>7, <1>8, <1>15, <2>1 DEF Placed, MayAsk
  <2>3. CallInv'
    BY <1>11, <1>15, <2>2 DEF CallInv, Presses, None
  <2>4. Senders' \subseteq Senders /\ Askers' \subseteq Askers \ {n} /\ n \in Askers
    BY <1>11, <1>12, <2>2 DEF Senders, Askers
  <2>5. Cardinality(Senders') <= Cardinality(Senders) /\ Cardinality(Askers') + 1 <= Cardinality(Askers)
    BY <1>13, <2>4, Counting
  <2>6. instance' + Cardinality(Senders') <= presses' /\ dialogs' + Cardinality(Askers') <= presses'
    BY <1>1, <1>3, <1>13, <1>14, <1>15, <2>5
  <2>. QED
    BY <2>3, <2>6 DEF Counts, CountInv
<1>16. CASE \E r \in Results :
                 /\ toDart' = Append(toDart, <<r, n>>)
                 /\ r = "false" => op = "hasPermission"
                 /\ UNCHANGED <<pending, pendingStart, dialogs>>
                 /\ \/ instance' = instance
                    \/ instance' = instance + 1 /\ op \in {"connect", "disconnect"}
  <2>1. PICK r \in Results :
                 /\ toDart' = Append(toDart, <<r, n>>)
                 /\ r = "false" => op = "hasPermission"
                 /\ UNCHANGED <<pending, pendingStart, dialogs>>
                 /\ \/ instance' = instance
                    \/ instance' = instance + 1 /\ op \in {"connect", "disconnect"}
    BY <1>16
  <2>2. <<r, n>> \in Answers(n) /\ <<r, n>> \in DartMessages
    BY DEF Answers, DartMessages, Results
  <2>3. Once(toDart', Answers(n))
    BY <1>1, <1>6, <2>1, <2>2, OnceAppend DEF InDart
  <2>4. Has(toDart', <<"false", n>>) => call'[n] = "hasPermission"
    <3>1. ~Has(toDart, <<"false", n>>)
      BY <1>6 DEF InDart, Answers, Results
    <3>2. Has(toDart', <<"false", n>>) <=> <<r, n>> = <<"false", n>>
      BY <1>1, <2>1, <2>2, <3>1, HasAppend
    <3>. QED
      BY <1>3, <1>5, <2>1, <3>2
  <2>5. Placed(n)'
    BY <1>3, <1>5, <1>6, <1>7, <1>8, <2>1, <2>3, <2>4 DEF Placed
  <2>6. pendingStart' => pending' # None
    BY <2>1 DEF Counts, CallInv
  <2>7. CallInv'
    BY <1>11, <2>5, <2>6 DEF CallInv
  <2>8. Senders' \subseteq Senders /\ Askers' \subseteq Askers
    BY <1>11, <1>12 DEF Senders, Askers
  <2>9. Cardinality(Senders') <= Cardinality(Senders) /\ Cardinality(Askers') <= Cardinality(Askers)
    BY <1>13, <2>8, Counting
  <2>10. CASE instance' = instance
    <3>1. instance' + Cardinality(Senders') <= presses' /\ dialogs' + Cardinality(Askers') <= presses'
      BY <1>1, <1>3, <1>13, <1>14, <2>1, <2>9, <2>10
    <3>. QED
      BY <2>7, <3>1 DEF Counts, CountInv
  <2>11. CASE instance' = instance + 1 /\ op \in {"connect", "disconnect"}
    <3>1. ~MaySend(n)'
      BY <1>3, <1>5, <1>6, <2>1, <2>11 DEF MaySend, MayAsk
    <3>2. Senders' \subseteq Senders \ {n} /\ n \in Senders
      BY <1>12, <2>8, <3>1 DEF Senders
    <3>3. Cardinality(Senders') + 1 <= Cardinality(Senders)
      BY <1>13, <3>2, Counting
    <3>4. instance' + Cardinality(Senders') <= presses' /\ dialogs' + Cardinality(Askers') <= presses'
      BY <1>1, <1>3, <1>13, <1>14, <2>1, <2>9, <2>11, <3>3
    <3>. QED
      BY <2>7, <3>4 DEF Counts, CountInv
  <2>. QED
    BY <2>1, <2>10, <2>11
<1>. QED
  BY <1>2, <1>15, <1>16

\* A dialog is answered: so is the call that waits, whichever dialog it was for.
LEMMA Resulted ==
    ASSUME TypeOK, AppAssumption, Counts, NEW ok \in BOOLEAN, OnActivityResult(ok)
    PROVE  Counts'
<1>1. /\ looper \in Seq(LooperMessages) /\ toDart \in Seq(DartMessages)
      /\ instance \in Nat /\ dialogs \in Nat /\ presses \in Nat
  BY CountTypes DEF TypeOK
<1>2. /\ dialogs > 0 /\ dialogs' = dialogs - 1 /\ pending' = None /\ ~pendingStart'
      /\ UNCHANGED <<call, presses, looper>>
  BY DEF OnActivityResult, dartVars
<1>3. /\ Senders \in SUBSET Presses /\ Askers \in SUBSET Presses
      /\ Senders' \in SUBSET Presses /\ Askers' \in SUBSET Presses
      /\ Cardinality(Senders) \in Nat /\ Cardinality(Askers) \in Nat
      /\ Cardinality(Senders') \in Nat /\ Cardinality(Askers') \in Nat
  BY CountTypes
<1>4. instance + Cardinality(Senders) <= presses /\ dialogs + Cardinality(Askers) <= presses
  BY DEF Counts, CountInv
<1>5. \A m \in Presses : pending' # m
  BY <1>2 DEF None, Presses
<1>6. CASE pending = None
  <2>1. UNCHANGED <<toDart, instance>>
    BY <1>6 DEF OnActivityResult, Counts, CallInv, serviceVars
  <2>2. \A m \in Presses : Still(m)
    BY <1>2, <1>5, <2>1, LessSelf DEF Still
  <2>3. \A m \in Presses : Placed(m)' /\ (MayAsk(m)' => MayAsk(m)) /\ (MaySend(m)' => MaySend(m))
    BY <2>2, Bystander DEF Counts, CallInv
  <2>4. Senders' \subseteq Senders /\ Askers' \subseteq Askers
    BY <2>3 DEF Senders, Askers
  <2>5. Cardinality(Senders') <= Cardinality(Senders) /\ Cardinality(Askers') <= Cardinality(Askers)
    BY <1>3, <2>4, Counting
  <2>6. instance' + Cardinality(Senders') <= presses' /\ dialogs' + Cardinality(Askers') <= presses'
    BY <1>1, <1>2, <1>3, <1>4, <2>1, <2>5
  <2>. QED
    BY <1>2, <2>3, <2>6 DEF Counts, CallInv, CountInv
<1>7. CASE pending # None
  <2>0. PICK n \in Presses : n = pending
    BY <1>7 DEF TypeOK
  <2>1. PICK r \in {"true", "error"} : toDart' = Append(toDart, <<r, n>>)
    BY <1>7, <2>0 DEF OnActivityResult, Reply
  <2>2. \/ instance' = instance
        \/ instance' = instance + 1 /\ pendingStart
    BY DEF OnActivityResult, serviceVars, SendIntent
  <2>3. <<r, n>> \in Answers(n) /\ <<r, n>> \in DartMessages
    BY DEF Answers, DartMessages, Results
  <2>4. /\ ~InLooper(n) /\ ~InDart(n) /\ call[n] \in {"requestPermission", "connect"}
        /\ pendingStart => call[n] = "connect"
        /\ Once(looper, Asks(n)) /\ Once(toDart, Answers(n)) /\ ~ (n > presses)
    BY <2>0 DEF Counts, CallInv, Placed
  <2>5. ASSUME NEW m \in Presses \ {n} PROVE Still(m)
    <3>1. <<r, n>> \notin Answers(m)
      BY DEF Answers
    <3>. QED
      BY <1>1, <1>2, <1>5, <2>1, <2>3, <3>1, LessAppend, LessSelf DEF Still
  <2>6. Once(toDart', Answers(n))
    BY <1>1, <2>1, <2>3, <2>4, OnceAppend DEF InDart
  <2>7. ~Has(toDart', <<"false", n>>)
    <3>1. ~Has(toDart, <<"false", n>>)
      BY <2>4 DEF InDart, Answers, Results
    <3>. QED
      BY <1>1, <2>1, <2>3, <3>1, HasAppend
  <2>8. ~InLooper(n)' /\ \A o \in Methods : ~Has(looper', <<o, n>>)
    BY <1>2, <2>4 DEF InLooper, Asks
  <2>9. Placed(n)'
    BY <1>2, <1>5, <2>4, <2>6, <2>7, <2>8 DEF Placed, Methods
  <2>10. \A m \in Presses \ {n} : Placed(m)' /\ (MayAsk(m)' => MayAsk(m)) /\ (MaySend(m)' => MaySend(m))
    BY <2>5, Bystander DEF Counts, CallInv
  <2>11. CallInv'
    BY <1>2, <2>9, <2>10 DEF CallInv
  <2>12. MaySend(n) /\ (pendingStart => ~MaySend(n)')
    BY <1>2, <1>5, <2>0, <2>4, <2>8 DEF MaySend, MayAsk
  <2>13. Senders' \subseteq Senders /\ Askers' \subseteq Askers \cup {n} /\ n \in Senders
    BY <2>10, <2>12 DEF Senders, Askers
  <2>14. Cardinality(Senders') <= Cardinality(Senders) /\ Cardinality(Askers') <= Cardinality(Askers) + 1
    BY <1>3, <2>13, Counting
  <2>15. dialogs' + Cardinality(Askers') <= presses'
    BY <1>1, <1>2, <1>3, <1>4, <2>14
  <2>16. instance' + Cardinality(Senders') <= presses'
    <3>1. CASE instance' = instance
      BY <1>1, <1>2, <1>3, <1>4, <2>14, <3>1
    <3>2. CASE instance' = instance + 1 /\ pendingStart
      <4>1. Senders' \subseteq Senders \ {n}
        BY <2>12, <2>13, <3>2 DEF Senders
      <4>2. Cardinality(Senders') + 1 <= Cardinality(Senders)
        BY <1>3, <2>13, <4>1, Counting
      <4>. QED
        BY <1>1, <1>2, <1>3, <1>4, <3>2, <4>2
    <3>. QED
      BY <2>2, <3>1, <3>2
  <2>. QED
    BY <2>11, <2>15, <2>16 DEF Counts, CountInv
<1>. QED
  BY <1>6, <1>7

\* A new UI has no call under way: those not handled are lost, those that wait for a
\* dialog are forgotten.
LEMMA Restarted ==
    ASSUME TypeOK, AppAssumption, Counts, RestartUi
    PROVE  Counts'
<1>1. /\ looper' = WithoutCalls(looper) /\ toDart' = <<>> /\ pending' = None /\ ~pendingStart'
      /\ call' = [n \in Presses |-> IF n <= presses THEN "over" ELSE "none"]
      /\ UNCHANGED <<presses, dialogs, instance>>
  BY DEF RestartUi, serviceVars
<1>2. /\ looper \in Seq(LooperMessages)
      /\ instance \in Nat /\ dialogs \in Nat /\ presses \in Nat
  BY CountTypes DEF TypeOK
<1>3. \A k \in 1..Len(looper') : looper'[k][1] \notin Methods
  BY <1>1, <1>2, WithoutCallsDrops
<1>4. ASSUME NEW n \in Presses PROVE Placed(n)' /\ ~MaySend(n)' /\ ~MayAsk(n)'
  <2>1. \A k \in 1..Len(looper') : looper'[k] \notin Asks(n)
    BY <1>3 DEF Asks
  <2>2. Len(toDart') = 0
    BY <1>1
  <2>3. Once(looper', Asks(n)) /\ ~InLooper(n)' /\ \A o \in Methods : ~Has(looper', <<o, n>>)
    <3>1. \A x \in Asks(n) : ~Has(looper', x)
      BY <2>1 DEF Has
    <3>. QED
      BY <2>1, <3>1 DEF Once, InLooper, Asks
  <2>4. Once(toDart', Answers(n)) /\ \A x : ~Has(toDart', x)
    BY <2>2 DEF Once, Has
  <2>5. ~InDart(n)' /\ ~Has(toDart', <<"false", n>>)
    BY <2>4 DEF InDart
  <2>6. pending' # n
    BY <1>1 DEF None, Presses
  <2>7. n > presses' => call'[n] = "none"
    BY <1>1, <1>2 DEF Presses, AppAssumption
  <2>. QED
    BY <2>3, <2>4, <2>5, <2>6, <2>7 DEF Placed, MaySend, MayAsk
<1>5. Senders' \subseteq Senders /\ Askers' \subseteq Askers
  BY <1>4 DEF Senders, Askers
<1>6. /\ Cardinality(Senders') <= Cardinality(Senders) /\ Cardinality(Askers') <= Cardinality(Askers)
      /\ Cardinality(Senders) \in Nat /\ Cardinality(Askers) \in Nat
      /\ Cardinality(Senders') \in Nat /\ Cardinality(Askers') \in Nat
  BY <1>5, CountTypes, Counting
<1>7. instance + Cardinality(Senders) <= presses /\ dialogs + Cardinality(Askers) <= presses
  BY DEF Counts, CountInv
<1>8. instance' + Cardinality(Senders') <= presses' /\ dialogs' + Cardinality(Askers') <= presses'
  BY <1>1, <1>2, <1>6, <1>7
<1>. QED
  BY <1>1, <1>4, <1>8 DEF Counts, CallInv, CountInv

\* A step that concerns no call.
LEMMA OthersStill ==
    ASSUME TypeOK,
           \/ Bootstrap \/ ShowRunning \/ ShowStopped \/ ShowFailed \/ OnListen
           \/ (\E i \in Id : ServiceStep(i)) \/ (\E e \in Events : DeliverEvent(e))
           \/ ArriveIntent \/ BringDown \/ Revoke \/ EngineDies
    PROVE  /\ \A n \in Presses : Still(n)
           /\ UNCHANGED <<presses, instance, dialogs, pending, pendingStart>>
<1>1. looper \in Seq(LooperMessages) /\ toDart \in Seq(DartMessages) /\ ams \in Seq(IntentMessages)
  BY DEF TypeOK
<1>2. /\ EventMessages \subseteq LooperMessages /\ IntentMessages \subseteq LooperMessages
      /\ <<"listen", None>> \in LooperMessages /\ EventMessages \subseteq DartMessages
  BY DEF LooperMessages, DartMessages
<1>3. ASSUME NEW n \in Presses
      PROVE  /\ \A x \in EventMessages \cup IntentMessages : x \notin Asks(n) /\ x \notin Answers(n)
             /\ <<"listen", None>> \notin Asks(n)
  BY DEF EventMessages, IntentMessages, Events, Intents, Asks, Answers, Methods, Results
<1>4. \/ looper' = looper
      \/ looper # <<>> /\ looper' = Tail(looper)
      \/ \E x \in LooperMessages :
            /\ \A n \in Presses : x \notin Asks(n)
            /\ looper' = Append(looper, x)
      \/ looper # <<>> /\ \E posts \in Seq(EventMessages) : looper' = Tail(looper) \o posts
  <2>1. CASE Bootstrap
    BY <1>2, <1>3, <2>1 DEF Bootstrap
  <2>2. CASE \E i \in Id : ServiceStep(i)
    BY <2>2, Serving DEF ServedAs
  <2>3. CASE ArriveIntent
    <3>1. Head(ams) \in IntentMessages
      BY <1>1, <2>3 DEF ArriveIntent
    <3>. QED
      BY <1>2, <1>3, <2>3, <3>1 DEF ArriveIntent
  <2>4. CASE OnListen \/ \E e \in Events : DeliverEvent(e)
    BY <2>4 DEF OnListen, DeliverEvent, Handle
  <2>5. CASE ShowRunning \/ ShowStopped \/ ShowFailed \/ BringDown \/ Revoke \/ EngineDies
    BY <2>5 DEF ShowRunning, ShowStopped, ShowFailed, BringDown, Revoke, EngineDies
  <2>. QED
    BY <2>1, <2>2, <2>3, <2>4, <2>5
<1>5. \/ toDart' = toDart
      \/ toDart # <<>> /\ toDart' = Tail(toDart)
      \/ \E x \in EventMessages : toDart' = Append(toDart, x)
  <2>1. CASE \E e \in Events : DeliverEvent(e)
    BY <2>1 DEF DeliverEvent, Reply, EventMessages
  <2>2. CASE \E i \in Id : ServiceStep(i)
    BY <2>2, Serving DEF ServedAs
  <2>3. CASE ShowRunning \/ ShowStopped \/ ShowFailed
    BY <2>3 DEF ShowRunning, ShowStopped, ShowFailed, Receive
  <2>4. CASE Bootstrap \/ OnListen \/ ArriveIntent \/ BringDown \/ Revoke \/ EngineDies
    BY <2>4 DEF Bootstrap, OnListen, ArriveIntent, BringDown, Revoke, EngineDies
  <2>. QED
    BY <2>1, <2>2, <2>3, <2>4
<1>6. UNCHANGED <<presses, call, instance, dialogs, pending, pendingStart>>
  <2>1. CASE \E i \in Id : ServiceStep(i)
    BY <2>1, Serving DEF ServedAs, dartVars, activityVars
  <2>2. CASE Bootstrap \/ ShowRunning \/ ShowStopped \/ ShowFailed
    BY <2>2 DEF Bootstrap, ShowRunning, ShowStopped, ShowFailed, Receive, activityVars, serviceVars
  <2>3. CASE OnListen \/ \E e \in Events : DeliverEvent(e)
    BY <2>3 DEF OnListen, DeliverEvent, Handle, dartVars, activityVars, serviceVars
  <2>4. CASE ArriveIntent \/ BringDown \/ Revoke \/ EngineDies
    BY <2>4 DEF ArriveIntent, BringDown, Revoke, EngineDies, dartVars, activityVars, serviceVars
  <2>. QED
    BY <2>1, <2>2, <2>3, <2>4
<1>7. ASSUME NEW n \in Presses PROVE Still(n)
  <2>1. Less(looper, looper', Asks(n))
    <3>1. CASE looper # <<>> /\ \E posts \in Seq(EventMessages) : looper' = Tail(looper) \o posts
      <4>1. PICK posts \in Seq(EventMessages) : looper' = Tail(looper) \o posts
        BY <3>1
      <4>2. posts \in Seq(LooperMessages) /\ \A k \in 1..Len(posts) : posts[k] \in EventMessages
        BY <1>2
      <4>3. \A m \in Asks(n) : ~Has(posts, m)
        BY <1>3, <4>2 DEF Has
      <4>. QED
        BY <1>1, <3>1, <4>1, <4>2, <4>3, LessConcat
    <3>2. CASE looper' = looper
      BY <3>2, LessSelf
    <3>3. CASE looper # <<>> /\ looper' = Tail(looper)
      BY <1>1, <3>3, LessTail
    <3>4. CASE \E x \in LooperMessages : x \notin Asks(n) /\ looper' = Append(looper, x)
      BY <1>1, <3>4, LessAppend
    <3>. QED
      BY <1>4, <3>1, <3>2, <3>3, <3>4
  <2>2. Less(toDart, toDart', Answers(n))
    <3>1. CASE toDart' = toDart
      BY <3>1, LessSelf
    <3>2. CASE toDart # <<>> /\ toDart' = Tail(toDart)
      BY <1>1, <3>2, LessTail
    <3>3. CASE \E x \in EventMessages : toDart' = Append(toDart, x)
      <4>1. PICK x \in EventMessages : toDart' = Append(toDart, x)
        BY <3>3
      <4>2. x \in DartMessages /\ x \notin Answers(n)
        BY <1>2, <1>3
      <4>. QED
        BY <1>1, <4>1, <4>2, LessAppend
    <3>. QED
      BY <1>5, <3>1, <3>2, <3>3
  <2>. QED
    BY <1>6, <2>1, <2>2 DEF Still
<1>. QED
  BY <1>6, <1>7

\* Every step keeps each call in one place and the counts within the presses.
LEMMA CountsStep ==
    ASSUME TypeOK, AppAssumption, Counts, Next
    PROVE  Counts'
<1>1. CASE PressConnect \/ PressDisconnect
  BY <1>1, Pressed DEF PressConnect, PressDisconnect, Methods
<1>2. CASE \E n \in Presses : ControllerStep(n) \/ ActivityStep(n)
  BY <1>2, Received, Handled
<1>3. CASE \E ok \in BOOLEAN : OnActivityResult(ok)
  BY <1>3, Resulted
<1>4. CASE RestartUi
  BY <1>4, Restarted
<1>5. CASE \/ Bootstrap \/ ShowRunning \/ ShowStopped \/ ShowFailed \/ OnListen
           \/ (\E i \in Id : ServiceStep(i)) \/ (\E e \in Events : DeliverEvent(e))
           \/ ArriveIntent \/ BringDown \/ Revoke \/ EngineDies
  BY <1>5, OthersStill, Uncalled
<1>. QED
  BY <1>1, <1>2, <1>3, <1>4, <1>5 DEF Next

-----------------------------------------------------------------------------
(* Types *)

\* Every step keeps the types.  That the dialogs and the instances stay within their
\* bounds is what the counts give.
LEMMA TypeStep ==
    ASSUME TypeOK, AppAssumption, Counts', Next
    PROVE  TypeOK'
<1>1. /\ looper \in Seq(LooperMessages) /\ toDart \in Seq(DartMessages) /\ ams \in Seq(IntentMessages)
      /\ call \in [Presses -> Awaits] /\ presses \in 0..MaxPresses /\ MaxPresses \in Nat
      /\ instance \in Nat /\ dialogs \in Nat /\ restarts \in Nat
  BY DEF TypeOK, AppAssumption, Id
<1>2. /\ \A op \in Methods, n \in Presses : <<op, n>> \in LooperMessages
      /\ EventMessages \subseteq LooperMessages /\ IntentMessages \subseteq LooperMessages
      /\ <<"listen", None>> \in LooperMessages /\ EventMessages \subseteq DartMessages
      /\ \A r \in Results, n \in Presses : <<r, n>> \in DartMessages
  BY DEF LooperMessages, DartMessages
<1>. DEFINE DartOK == /\ status \in Statuses /\ presses \in 0..MaxPresses
                      /\ wish \in Wishes /\ call \in [Presses -> Awaits]
                      /\ restarts \in 0..MaxRestarts
            QueuesOK == toDart \in Seq(DartMessages) /\ looper \in Seq(LooperMessages)
            ActivityOK == pending \in Presses \cup {None} /\ dialogs \in Nat
            ServiceOK == /\ service \in {"none", "started", "stopping"} /\ instance \in Nat
                         /\ engine \in {"off", "up", "dead"}
            Loose == DartOK /\ QueuesOK /\ ActivityOK /\ ServiceOK
<1>3. Loose
  BY <1>1 DEF TypeOK
<1>4. ASSUME NEW op, SendIntent(op) PROVE instance' \in Nat /\ service' = "started"
  BY <1>1, <1>4 DEF SendIntent
<1>5. ASSUME NEW op, NEW n, Handle(op, n)
      PROVE  DartOK' /\ looper' \in Seq(LooperMessages)
  BY <1>1, <1>3, <1>5 DEF Handle, dartVars
<1>50. /\ UNCHANGED <<status, presses, wish, call, restarts>> => DartOK'
       /\ UNCHANGED <<pending, dialogs>> => ActivityOK'
       /\ UNCHANGED <<service, instance, engine>> => ServiceOK'
  BY <1>3
<1>6. ASSUME Bootstrap \/ PressConnect \/ PressDisconnect PROVE Loose'
  <2>1. CASE Bootstrap
    <3>1. /\ looper' = Append(looper, <<"listen", None>>) /\ toDart' = toDart
          /\ UNCHANGED <<status, presses, wish, call, restarts>>
          /\ UNCHANGED <<pending, dialogs>> /\ UNCHANGED <<service, instance, engine>>
      BY <2>1 DEF Bootstrap, activityVars, serviceVars
    <3>. QED
      BY <1>1, <1>2, <1>50, <3>1
  <2>2. ASSUME NEW what \in Wishes, NEW op \in Methods, Press(what), Invoke(presses + 1, op),
               status' \in Statuses
        PROVE  Loose'
    <3>1. presses + 1 \in Presses /\ op \in Awaits
      BY <1>1, <2>2 DEF Press, Presses, Methods, Awaits
    <3>2. looper' \in Seq(LooperMessages) /\ call' \in [Presses -> Awaits]
      BY <1>1, <1>2, <2>2, <3>1 DEF Invoke
    <3>3. presses' \in 0..MaxPresses /\ wish' \in Wishes
      BY <1>1, <2>2 DEF Press
    <3>. QED
      BY <1>3, <2>2, <3>2, <3>3 DEF Press, activityVars, serviceVars
  <2>3. /\ "connecting" \in Statuses /\ "disconnecting" \in Statuses
        /\ "hasPermission" \in Methods /\ "disconnect" \in Methods
        /\ "on" \in Wishes /\ "off" \in Wishes /\ "crossed" \in Wishes
    BY DEF Statuses, Methods, Wishes
  <2>. HIDE DEF Loose
  <2>4. CASE PressConnect
    BY <2>2, <2>3, <2>4 DEF PressConnect
  <2>5. CASE PressDisconnect
    BY <2>2, <2>3, <2>5 DEF PressDisconnect
  <2>. QED
    BY <1>6, <2>1, <2>4, <2>5
<1>7. ASSUME RestartUi PROVE Loose'
  <2>1. looper' \in Seq(LooperMessages) /\ toDart' \in Seq(DartMessages)
    BY <1>1, <1>7, WithoutCallsDrops DEF RestartUi
  <2>2. call' \in [Presses -> Awaits] /\ restarts' \in 0..MaxRestarts
    BY <1>1, <1>7 DEF RestartUi, Awaits, AppAssumption
  <2>3. /\ status' = "disconnected" /\ pending' = None
        /\ UNCHANGED <<presses, dialogs>> /\ UNCHANGED <<service, instance, engine>>
        /\ wish' \in Wishes
    BY <1>7 DEF RestartUi, Wishes, serviceVars
  <2>. QED
    BY <1>3, <1>50, <2>1, <2>2, <2>3 DEF Statuses
<1>8. ASSUME ShowRunning \/ ShowStopped \/ ShowFailed PROVE Loose'
  <2>1. /\ toDart # <<>> /\ toDart' = Tail(toDart) /\ looper' = looper
        /\ UNCHANGED <<presses, wish, call, restarts>>
        /\ UNCHANGED <<pending, dialogs>> /\ UNCHANGED <<service, instance, engine>>
    BY <1>8 DEF ShowRunning, ShowStopped, ShowFailed, Receive, activityVars, serviceVars
  <2>2. status' \in Statuses
    BY <1>3, <1>8 DEF ShowRunning, ShowStopped, ShowFailed, Statuses
  <2>. QED
    BY <1>1, <1>3, <1>50, <2>1, <2>2
<1>9. ASSUME NEW n \in Presses, ControllerStep(n) PROVE Loose'
  <2>1. PICK r \in Results : Receive(r, n)
    BY <1>9 DEF ControllerStep, PermissionMissing, PermissionThere, ConnectReturns, ConnectThrows,
                DisconnectReturns, DisconnectThrows, Results
  <2>2. status' \in Statuses
    BY <1>3, <1>9 DEF ControllerStep, PermissionMissing, PermissionThere, ConnectReturns,
                      ConnectThrows, DisconnectReturns, DisconnectThrows, Statuses
  <2>3. (\E op \in Methods : Invoke(n, op)) \/ Return(n)
    BY <1>9 DEF ControllerStep, PermissionMissing, PermissionThere, ConnectReturns, ConnectThrows,
                DisconnectReturns, DisconnectThrows, Methods
  <2>4. looper' \in Seq(LooperMessages) /\ call' \in [Presses -> Awaits]
    <3>1. CASE Return(n)
      BY <1>1, <3>1 DEF Return, Awaits
    <3>2. CASE \E op \in Methods : Invoke(n, op)
      <4>1. Methods \subseteq Awaits
        BY DEF Methods, Awaits
      <4>. QED
        BY <1>1, <1>2, <3>2, <4>1 DEF Invoke
    <3>. QED
      BY <2>3, <3>1, <3>2
  <2>5. wish' \in Wishes
    BY <1>3, <1>9 DEF ControllerStep, PermissionMissing, PermissionThere, ConnectReturns,
                      ConnectThrows, DisconnectReturns, DisconnectThrows, Wishes
  <2>. QED
    BY <1>3, <2>1, <2>2, <2>4, <2>5 DEF Receive, activityVars, serviceVars
<1>10. ASSUME NEW n \in Presses, ActivityStep(n) PROVE Loose'
  <2>1. /\ \A r \in Results : Reply(r, n) => toDart' \in Seq(DartMessages)
        /\ "true" \in Results /\ "false" \in Results /\ "error" \in Results
    <3>1. ASSUME NEW r \in Results, Reply(r, n) PROVE toDart' \in Seq(DartMessages)
      <4>1. <<r, n>> \in DartMessages /\ toDart' = Append(toDart, <<r, n>>)
        BY <1>2, <3>1 DEF Reply
      <4>. QED
        BY <1>1, <4>1
    <3>. QED
      BY <3>1 DEF Results
  <2>2. CASE OnHasPermission(n)
    BY <1>3, <1>5, <2>1, <2>2 DEF OnHasPermission, activityVars, serviceVars
  <2>3. CASE OnRequestPermission(n)
    BY <1>1, <1>3, <1>5, <2>1, <2>3 DEF OnRequestPermission, AskUser, serviceVars
  <2>4. CASE OnConnect(n)
    BY <1>1, <1>3, <1>4, <1>5, <2>1, <2>4 DEF OnConnect, AskUser, serviceVars
  <2>5. CASE OnDisconnect(n)
    BY <1>3, <1>4, <1>5, <2>1, <2>5 DEF OnDisconnect, activityVars
  <2>6. CASE OnConnectThrows(n) \/ OnDisconnectThrows(n)
    BY <1>3, <1>5, <2>1, <2>6 DEF OnConnectThrows, OnDisconnectThrows, activityVars, serviceVars
  <2>. QED
    BY <1>10, <2>2, <2>3, <2>4, <2>5, <2>6 DEF ActivityStep
<1>11. ASSUME NEW ok \in BOOLEAN, OnActivityResult(ok) PROVE Loose'
  <2>1. toDart' \in Seq(DartMessages)
    <3>1. CASE pending = None
      BY <1>3, <1>11, <3>1 DEF OnActivityResult
    <3>2. CASE pending # None
      <4>1. PICK r \in {"true", "error"} : toDart' = Append(toDart, <<r, pending>>)
        BY <1>11, <3>2 DEF OnActivityResult, Reply
      <4>2. pending \in Presses /\ r \in Results
        BY <1>3, <3>2 DEF Results
      <4>. QED
        BY <1>1, <1>2, <4>1, <4>2
    <3>. QED
      BY <3>1, <3>2
  <2>2. instance' \in Nat /\ service' \in {"none", "started", "stopping"} /\ engine' = engine
    BY <1>3, <1>4, <1>11 DEF OnActivityResult, serviceVars
  <2>3. dialogs' \in Nat
    BY <1>1, <1>11 DEF OnActivityResult
  <2>4. UNCHANGED <<status, presses, wish, call, restarts>> /\ looper' = looper /\ pending' = None
    BY <1>11 DEF OnActivityResult, dartVars
  <2>. QED
    BY <1>3, <1>50, <2>1, <2>2, <2>3, <2>4
<1>12. ASSUME OnListen \/ (\E e \in Events : DeliverEvent(e)) PROVE Loose'
  <2>1. /\ \E op : Handle(op, None)
        /\ UNCHANGED <<pending, dialogs>> /\ UNCHANGED <<service, instance, engine>>
    BY <1>12 DEF OnListen, DeliverEvent, activityVars, serviceVars
  <2>2. toDart' = toDart \/ \E x \in EventMessages : toDart' = Append(toDart, x)
    BY <1>12 DEF OnListen, DeliverEvent, Reply, EventMessages
  <2>3. toDart' \in Seq(DartMessages)
    <3>1. CASE \E x \in DartMessages : toDart' = Append(toDart, x)
      BY <1>1, <3>1
    <3>. QED
      BY <1>1, <1>2, <2>2, <3>1
  <2>. QED
    BY <1>5, <1>50, <2>1, <2>3
<1>13. ASSUME \E i \in Id : ServiceStep(i) PROVE Loose'
  <2>1. PICK i \in Id, op \in Intents, posts \in Seq(EventMessages) : ServiceStep(i) /\ ServedAs(op, i, posts)
    BY <1>13, Serving
  <2>2. looper' \in Seq(LooperMessages)
    <3>1. Tail(looper) \in Seq(LooperMessages) /\ posts \in Seq(LooperMessages)
      BY <1>1, <1>2, <2>1 DEF ServedAs
    <3>. QED
      BY <2>1, <3>1 DEF ServedAs
  <2>3. service' \in {"none", "started", "stopping"}
    BY <1>3, <2>1 DEF ServiceStep, StartUnprepared, StartSucceeds, StartRefused, StartThrows, OnStop,
                      OnDestroy, StopTunnel, StopSelf
  <2>4. engine' \in {"off", "up", "dead"}
    BY <1>3, <2>1 DEF ServedAs
  <2>5. /\ UNCHANGED <<status, presses, wish, call, restarts>>
        /\ UNCHANGED <<pending, dialogs>> /\ instance' = instance /\ toDart' = toDart
    BY <2>1 DEF ServedAs, dartVars, activityVars
  <2>. QED
    BY <1>3, <1>50, <2>2, <2>3, <2>4, <2>5
<1>14. ASSUME ArriveIntent PROVE Loose'
  <2>1. Head(ams) \in IntentMessages
    BY <1>1, <1>14 DEF ArriveIntent
  <2>2. looper' \in Seq(LooperMessages)
    BY <1>1, <1>2, <1>14, <2>1 DEF ArriveIntent
  <2>3. /\ UNCHANGED <<status, presses, wish, call, restarts>> /\ toDart' = toDart
        /\ UNCHANGED <<pending, dialogs>> /\ UNCHANGED <<service, instance, engine>>
    BY <1>14 DEF ArriveIntent, dartVars, activityVars
  <2>. QED
    BY <1>3, <1>50, <2>2, <2>3
<1>15. ASSUME BringDown \/ Revoke \/ EngineDies PROVE Loose'
  <2>1. /\ UNCHANGED <<status, presses, wish, call, restarts>> /\ UNCHANGED <<toDart, looper>>
        /\ UNCHANGED <<pending, dialogs>> /\ UNCHANGED instance
    BY <1>15 DEF BringDown, Revoke, EngineDies, dartVars, activityVars, serviceVars
  <2>2. service' \in {"none", "stopping", service} /\ engine' \in {"dead", engine}
    BY <1>15 DEF BringDown, Revoke, EngineDies, StopSelf, serviceVars
  <2>. QED
    BY <1>3, <1>50, <2>1, <2>2
<1>16. Loose'
  <2>. HIDE DEF Loose
  <2>1. CASE \E n \in Presses : ControllerStep(n) \/ ActivityStep(n)
    BY <1>9, <1>10, <2>1
  <2>2. CASE \E ok \in BOOLEAN : OnActivityResult(ok)
    BY <1>11, <2>2
  <2>. QED
    BY <1>6, <1>7, <1>8, <1>12, <1>13, <1>14, <1>15, <2>1, <2>2 DEF Next
\* The bounds are those of the counts.
<1>17. instance' \in Id /\ dialogs' \in 0..MaxPresses
  <2>1. /\ Cardinality(Senders') \in Nat /\ Cardinality(Askers') \in Nat
        /\ instance' + Cardinality(Senders') <= presses' /\ dialogs' + Cardinality(Askers') <= presses'
    BY CountTypes DEF Counts, CountInv
  <2>. QED
    BY <1>1, <1>16, <2>1 DEF Id
<1>18. ams' \in Seq(IntentMessages)
  <2>1. ASSUME NEW op \in Intents, NEW i, i = instance', ams' = Append(ams, <<op, i>>)
        PROVE  ams' \in Seq(IntentMessages)
    BY <1>1, <1>17, <2>1 DEF IntentMessages
  <2>2. ASSUME NEW op \in Intents, SendIntent(op) PROVE ams' \in Seq(IntentMessages)
    BY <2>1, <2>2 DEF SendIntent
  <2>3. CASE \E n \in Presses : ActivityStep(n)
    BY <1>1, <2>2, <2>3 DEF ActivityStep, OnHasPermission, OnRequestPermission, OnConnect,
                            OnDisconnect, OnConnectThrows, OnDisconnectThrows, serviceVars, Intents
  <2>4. CASE \E ok \in BOOLEAN : OnActivityResult(ok)
    BY <1>1, <2>2, <2>4 DEF OnActivityResult, serviceVars, Intents
  <2>5. CASE BringDown
    BY <2>1, <2>5 DEF BringDown, Intents
  <2>6. CASE ArriveIntent
    BY <1>1, <2>6 DEF ArriveIntent
  <2>7. CASE \E i \in Id : ServiceStep(i)
    BY <1>1, <2>7, Serving DEF ServedAs
  <2>8. CASE \E n \in Presses : ControllerStep(n)
    BY <1>1, <2>8 DEF ControllerStep, PermissionMissing, PermissionThere, ConnectReturns,
                      ConnectThrows, DisconnectReturns, DisconnectThrows, Receive, serviceVars
  <2>9. CASE \/ Bootstrap \/ PressConnect \/ PressDisconnect \/ RestartUi
             \/ ShowRunning \/ ShowStopped \/ ShowFailed
    BY <1>1, <2>9 DEF Bootstrap, PressConnect, PressDisconnect, Press, RestartUi, ShowRunning,
                      ShowStopped, ShowFailed, Receive, serviceVars
  <2>10. CASE \/ OnListen \/ (\E e \in Events : DeliverEvent(e)) \/ Revoke \/ EngineDies
    BY <1>1, <2>10 DEF OnListen, DeliverEvent, Revoke, EngineDies, serviceVars
  <2>. QED
    BY <2>3, <2>4, <2>5, <2>6, <2>7, <2>8, <2>9, <2>10 DEF Next
<1>. DEFINE Flags == /\ loaded \in BOOLEAN /\ fresh \in BOOLEAN /\ sink \in BOOLEAN
                     /\ pendingStart \in BOOLEAN /\ granted \in BOOLEAN
<1>19. Flags'
  <2>1. /\ loaded \in BOOLEAN /\ fresh \in BOOLEAN /\ sink \in BOOLEAN
        /\ pendingStart \in BOOLEAN /\ granted \in BOOLEAN
    BY DEF TypeOK
  <2>2. CASE \E n \in Presses : ActivityStep(n)
    BY <2>1, <2>2 DEF ActivityStep, OnHasPermission, OnRequestPermission, OnConnect,
                            OnDisconnect, OnConnectThrows, OnDisconnectThrows, Handle, dartVars, activityVars, AskUser
  <2>3. ASSUME NEW ok \in BOOLEAN, OnActivityResult(ok) PROVE Flags'
    BY <2>1, <2>3 DEF OnActivityResult, dartVars
  <2>4. CASE \E i \in Id : ServiceStep(i)
    BY <2>1, <2>4, Serving DEF ServedAs, dartVars, activityVars
  <2>5. CASE \E n \in Presses : ControllerStep(n)
    BY <2>1, <2>5 DEF ControllerStep, PermissionMissing, PermissionThere, ConnectReturns,
                      ConnectThrows, DisconnectReturns, DisconnectThrows, Receive, activityVars
  <2>6. CASE \/ Bootstrap \/ PressConnect \/ PressDisconnect \/ RestartUi
             \/ ShowRunning \/ ShowStopped \/ ShowFailed
    BY <2>1, <2>6 DEF Bootstrap, PressConnect, PressDisconnect, Press, RestartUi, ShowRunning,
                      ShowStopped, ShowFailed, Receive, activityVars
  <2>7. CASE \/ OnListen \/ (\E e \in Events : DeliverEvent(e)) \/ Revoke \/ EngineDies
             \/ ArriveIntent \/ BringDown
    BY <2>1, <2>7 DEF OnListen, DeliverEvent, Revoke, EngineDies, ArriveIntent, BringDown, dartVars, activityVars, Handle
  <2>. QED
    BY <2>2, <2>3, <2>4, <2>5, <2>6, <2>7 DEF Next
<1>20. overtaken' \in [Presses -> Presses \cup {None}]
  <2>0. overtaken \in [Presses -> Presses \cup {None}]
    BY DEF TypeOK
  <2>1. CASE UNCHANGED overtaken
    BY <2>0, <2>1
  <2>2. ASSUME NEW n \in Presses, ActivityStep(n) PROVE overtaken' \in [Presses -> Presses \cup {None}]
    BY <2>0, <2>2 DEF ActivityStep, OnHasPermission, OnRequestPermission, OnConnect, OnDisconnect,
                      OnConnectThrows, OnDisconnectThrows, activityVars, AskUser
  <2>3. CASE RestartUi
    BY <2>3 DEF RestartUi
  <2>4. CASE \E n \in Presses : ControllerStep(n)
    BY <2>0, <2>4 DEF ControllerStep, PermissionMissing, PermissionThere, ConnectReturns,
                      ConnectThrows, DisconnectReturns, DisconnectThrows, Receive, activityVars
  <2>5. CASE \E i \in Id : ServiceStep(i)
    BY <2>0, <2>5, Serving DEF ServedAs, activityVars
  <2>6. CASE \/ Bootstrap \/ PressConnect \/ PressDisconnect
             \/ ShowRunning \/ ShowStopped \/ ShowFailed
             \/ (\E ok \in BOOLEAN : OnActivityResult(ok))
    BY <2>0, <2>6 DEF Bootstrap, PressConnect, PressDisconnect, Press, ShowRunning, ShowStopped,
                      ShowFailed, Receive, OnActivityResult, activityVars
  <2>7. CASE \/ OnListen \/ (\E e \in Events : DeliverEvent(e))
             \/ ArriveIntent \/ BringDown \/ Revoke \/ EngineDies
    BY <2>0, <2>7 DEF OnListen, DeliverEvent, ArriveIntent, BringDown, Revoke, EngineDies, activityVars
  <2>. QED
    BY <2>2, <2>3, <2>4, <2>5, <2>6, <2>7 DEF Next
<1>. QED
  BY <1>16, <1>17, <1>18, <1>19, <1>20 DEF TypeOK

-----------------------------------------------------------------------------
(* The permission and the sink *)

\* A result is pending only while the permission is missing.
GrantInv == granted => pending = None

\* Every step keeps GrantInv: AskUser is reached only without the permission
\* (MainActivity.kt:28-51).
LEMMA GrantStep ==
    ASSUME TypeOK, GrantInv, Next
    PROVE  GrantInv'
<1>1. \/ UNCHANGED <<pending, granted>>
      \/ pending' = None
      \/ ~granted'
  <2>1. CASE \E n \in Presses : ActivityStep(n)
    BY <2>1 DEF ActivityStep, OnHasPermission, OnRequestPermission, OnConnect, OnDisconnect,
              OnConnectThrows, OnDisconnectThrows,
                activityVars
  <2>2. CASE \E n \in Presses : ControllerStep(n)
    BY <2>2 DEF ControllerStep, PermissionMissing, PermissionThere, ConnectReturns,
                ConnectThrows, DisconnectReturns, DisconnectThrows, Receive, activityVars
  <2>3. CASE \E i \in Id : ServiceStep(i)
    BY <2>3, Serving DEF ServedAs, activityVars
  <2>4. CASE \E ok \in BOOLEAN : OnActivityResult(ok)
    BY <2>4 DEF OnActivityResult
  <2>5. CASE \/ Bootstrap \/ PressConnect \/ PressDisconnect \/ RestartUi
             \/ ShowRunning \/ ShowStopped \/ ShowFailed
    BY <2>5 DEF Bootstrap, PressConnect, PressDisconnect, Press, RestartUi, ShowRunning,
                ShowStopped, ShowFailed, Receive, activityVars
  <2>6. CASE \/ OnListen \/ (\E e \in Events : DeliverEvent(e))
             \/ ArriveIntent \/ BringDown \/ Revoke \/ EngineDies
    BY <2>6 DEF OnListen, DeliverEvent, ArriveIntent, BringDown, Revoke, EngineDies, activityVars
  <2>. QED
    BY <2>1, <2>2, <2>3, <2>4, <2>5, <2>6 DEF Next
<1>. QED
  BY <1>1 DEF GrantInv

\* The request to listen to the events.
Listen == <<"listen", None>>

\* What a step does to the looper: nothing, one message more, or the head handled.
LEMMA LooperMoves ==
    ASSUME TypeOK, AppAssumption, Next, ~RestartUi
    PROVE  \/ looper' = looper
           \/ \E x \in LooperMessages : looper' = Append(looper, x) /\ (x = Listen => Bootstrap)
           \/ \E posts \in Seq(EventMessages) :
                  /\ looper # <<>> /\ looper' = Tail(looper) \o posts
                  /\ Head(looper) = Listen => OnListen
                  /\ \A op \in Methods, n \in Presses :
                         Head(looper) = <<op, n>> => Handle(op, n) /\ ActivityStep(n)
<1>0. /\ looper \in Seq(LooperMessages) /\ ams \in Seq(IntentMessages)
      /\ \A op \in Methods, n \in Presses : <<op, n>> \in LooperMessages /\ <<op, n>> # Listen
      /\ Listen \in LooperMessages
  BY DEF TypeOK, LooperMessages, Listen, Methods
<1>1. ASSUME looper # <<>>
      PROVE  \E posts \in Seq(EventMessages) : Tail(looper) = Tail(looper) \o posts
  <2>1. <<>> \in Seq(EventMessages) /\ Tail(looper) \o <<>> = Tail(looper)
    BY <1>0, <1>1
  <2>. QED
    BY <2>1
<1>2. CASE \E i \in Id : ServiceStep(i)
  <2>1. PICK i \in Id, op \in Intents, posts \in Seq(EventMessages) : ServedAs(op, i, posts)
    BY <1>2, Serving
  <2>2. /\ looper # <<>> /\ looper' = Tail(looper) \o posts /\ Head(looper) # Listen
        /\ \A o \in Methods, n \in Presses : Head(looper) # <<o, n>>
    BY <2>1 DEF ServedAs, Intents, Listen, Methods
  <2>. QED
    BY <2>2
<1>3. CASE ArriveIntent
  <2>1. /\ looper' = Append(looper, Head(ams)) /\ Head(ams) \in LooperMessages
        /\ Head(ams) \in IntentMessages
    BY <1>0, <1>3, MessageSets DEF ArriveIntent
  <2>2. Head(ams) # Listen
    BY <2>1 DEF IntentMessages, Intents, Listen
  <2>. QED
    BY <2>1, <2>2
<1>4. CASE OnListen \/ \E e \in Events : DeliverEvent(e)
  <2>1. /\ looper # <<>> /\ looper' = Tail(looper) /\ (Head(looper) = Listen => OnListen)
        /\ \A o \in Methods, n \in Presses : Head(looper) # <<o, n>>
    BY <1>4 DEF OnListen, DeliverEvent, Handle, Events, Listen, Methods
  <2>. QED
    BY <1>1, <2>1
<1>5. CASE \E n \in Presses : ActivityStep(n)
  <2>1. PICK n \in Presses : ActivityStep(n)
    BY <1>5
  <2>2. PICK op \in Methods : Handle(op, n)
    BY <2>1 DEF ActivityStep, OnHasPermission, OnRequestPermission, OnConnect, OnDisconnect,
                OnConnectThrows, OnDisconnectThrows, Methods
  <2>3. looper # <<>> /\ Head(looper) = <<op, n>> /\ looper' = Tail(looper) /\ Head(looper) # Listen
    BY <1>0, <2>2 DEF Handle
  <2>4. \A o \in Methods, m \in Presses : Head(looper) = <<o, m>> => o = op /\ m = n
    BY <2>3
  <2>. QED
    BY <1>1, <2>1, <2>2, <2>3, <2>4
<1>6. CASE Bootstrap
  BY <1>0, <1>6 DEF Bootstrap, Listen
<1>7. CASE PressConnect \/ PressDisconnect
  <2>1. presses + 1 \in Presses
    BY <1>7 DEF PressConnect, PressDisconnect, Press, Presses, TypeOK, AppAssumption
  <2>2. PICK op \in Methods : looper' = Append(looper, <<op, presses + 1>>)
    BY <1>7 DEF PressConnect, PressDisconnect, Invoke, Methods
  <2>. QED
    BY <1>0, <2>1, <2>2
<1>8. CASE \E n \in Presses : ControllerStep(n)
  <2>1. PICK n \in Presses : ControllerStep(n)
    BY <1>8
  <2>2. looper' = looper \/ \E op \in Methods : looper' = Append(looper, <<op, n>>)
    BY <2>1 DEF ControllerStep, PermissionMissing, PermissionThere, ConnectReturns,
                ConnectThrows, DisconnectReturns, DisconnectThrows, Return, Invoke, Methods
  <2>. QED
    BY <1>0, <2>2
<1>9. CASE \/ ShowRunning \/ ShowStopped \/ ShowFailed \/ BringDown \/ Revoke \/ EngineDies
           \/ \E ok \in BOOLEAN : OnActivityResult(ok)
  BY <1>9 DEF ShowRunning, ShowStopped, ShowFailed, BringDown, Revoke, EngineDies, OnActivityResult
<1>. QED
  BY <1>2, <1>3, <1>4, <1>5, <1>6, <1>7, <1>8, <1>9 DEF Next

\* A call in the queue stays there until the activity handles it.
LEMMA CallStays ==
    ASSUME TypeOK, AppAssumption, Next, ~RestartUi, NEW op \in Methods, NEW n \in Presses,
           Has(looper, <<op, n>>)
    PROVE  Has(looper', <<op, n>>) \/ (Handle(op, n) /\ ActivityStep(n))
<1>1. looper \in Seq(LooperMessages)
  BY DEF TypeOK
<1>2. CASE looper' = looper
  BY <1>2
<1>3. CASE \E x \in LooperMessages : looper' = Append(looper, x)
  BY <1>1, <1>3, HasAppend
<1>4. ASSUME NEW posts \in Seq(EventMessages), looper # <<>>, looper' = Tail(looper) \o posts,
             Head(looper) = <<op, n>> => Handle(op, n) /\ ActivityStep(n)
      PROVE  Has(looper', <<op, n>>) \/ (Handle(op, n) /\ ActivityStep(n))
  <2>1. Tail(looper) \in Seq(LooperMessages) /\ posts \in Seq(LooperMessages)
    BY <1>1, <1>4, MessageSets
  <2>2. Head(looper) = <<op, n>> \/ Has(Tail(looper), <<op, n>>)
    BY <1>1, <1>4, HasTail
  <2>. QED
    BY <1>4, <2>1, <2>2, HasConcat
<1>. QED
  BY <1>2, <1>3, <1>4, LooperMoves

\* So does the request to listen, and what is behind it.
LEMMA ListenStays ==
    ASSUME TypeOK, AppAssumption, Next, ~RestartUi, ~Bootstrap, ~OnListen
    PROVE  /\ Has(looper, Listen) => Has(looper', Listen)
           /\ \A op \in Methods, n \in Presses :
                  Followed(looper, Listen, <<op, n>>) => Followed(looper', Listen, <<op, n>>)
<1>1. looper \in Seq(LooperMessages)
  BY DEF TypeOK
<1>2. CASE looper' = looper
  BY <1>2
<1>3. ASSUME NEW x \in LooperMessages, looper' = Append(looper, x), x # Listen
      PROVE  /\ Has(looper, Listen) => Has(looper', Listen)
             /\ \A p : Followed(looper, Listen, p) => Followed(looper', Listen, p)
  BY <1>1, <1>3, HasAppend, FollowedAppend
<1>4. ASSUME NEW posts \in Seq(EventMessages), looper # <<>>, looper' = Tail(looper) \o posts,
             Head(looper) # Listen
      PROVE  /\ Has(looper, Listen) => Has(looper', Listen)
             /\ \A p : Followed(looper, Listen, p) => Followed(looper', Listen, p)
  <2>1. Tail(looper) \in Seq(LooperMessages) /\ posts \in Seq(LooperMessages)
    BY <1>1, <1>4, MessageSets
  <2>2. ~Has(posts, Listen)
    BY DEF Has, EventMessages, Events, Listen
  <2>3. Has(looper, Listen) => Has(looper', Listen)
    BY <1>1, <1>4, <2>1, HasTail, HasConcat
  <2>4. ASSUME NEW p, Followed(looper, Listen, p) PROVE Followed(looper', Listen, p)
    <3>1. Followed(Tail(looper), Listen, p)
      BY <1>1, <1>4, <2>4, FollowedTail
    <3>2. Followed(posts, Listen, p)
      BY <2>2, FollowedVoid
    <3>. QED
      BY <1>4, <2>1, <3>1, <3>2, FollowedConcat
  <2>. QED
    BY <2>3, <2>4
<1>. QED
  BY <1>2, <1>3, <1>4, LooperMoves

\* Nothing is shown before the events are listened to; and the calls of a press queue
\* behind the request to listen (vpn_state.dart:97).
SinkInv ==
    /\ status = "connected" => sink
    /\ \A e \in Events : Has(toDart, <<e, None>>) => sink
    /\ loaded /\ ~sink => Has(looper, Listen)
    /\ ~fresh => loaded
    /\ ~fresh /\ ~sink => \E op \in Methods, n \in Presses : Followed(looper, Listen, <<op, n>>)

\* What a step does to what Dart is sent.
LEMMA ToDart ==
    ASSUME TypeOK, Next
    PROVE  \/ toDart' = toDart
           \/ toDart # <<>> /\ toDart' = Tail(toDart)
           \/ \E x \in Results \X Presses : toDart' = Append(toDart, x)
           \/ sink /\ \E x \in EventMessages : toDart' = Append(toDart, x)
           \/ RestartUi
<1>1. CASE \E n \in Presses : ActivityStep(n)
  <2>1. PICK n \in Presses : ActivityStep(n)
    BY <1>1
  <2>2. toDart' = toDart \/ \E r \in Results : toDart' = Append(toDart, <<r, n>>)
    BY <2>1 DEF ActivityStep, OnHasPermission, OnRequestPermission, OnConnect, OnDisconnect,
              OnConnectThrows, OnDisconnectThrows,
                Reply, Results
  <2>. QED
    BY <2>2
<1>2. ASSUME NEW ok \in BOOLEAN, OnActivityResult(ok)
      PROVE  toDart' = toDart \/ \E x \in Results \X Presses : toDart' = Append(toDart, x)
  <2>1. \/ toDart' = toDart
        \/ pending # None /\ \E r \in {"true", "error"} : toDart' = Append(toDart, <<r, pending>>)
    BY <1>2 DEF OnActivityResult, Reply
  <2>2. pending # None => pending \in Presses
    BY DEF TypeOK
  <2>. QED
    BY <2>1, <2>2 DEF Results
<1>3. CASE \E n \in Presses : ControllerStep(n)
  BY <1>3 DEF ControllerStep, PermissionMissing, PermissionThere, ConnectReturns,
              ConnectThrows, DisconnectReturns, DisconnectThrows, Receive
<1>4. CASE \E i \in Id : ServiceStep(i)
  BY <1>4, Serving DEF ServedAs
<1>5. CASE \E e \in Events : DeliverEvent(e)
  BY <1>5 DEF DeliverEvent, Reply, EventMessages
<1>6. CASE \/ Bootstrap \/ PressConnect \/ PressDisconnect \/ RestartUi
           \/ ShowRunning \/ ShowStopped \/ ShowFailed
           \/ OnListen \/ ArriveIntent \/ BringDown \/ Revoke \/ EngineDies
  BY <1>6 DEF Bootstrap, PressConnect, PressDisconnect, Press, ShowRunning, ShowStopped,
              ShowFailed, Receive, OnListen, ArriveIntent, BringDown, Revoke, EngineDies
<1>. QED
  BY <1>1, <1>2, <1>3, <1>4, <1>5, <1>6 DEF Next

\* Once it listens, a UI listens until it is made anew.
LEMMA SinkStays ==
    ASSUME TypeOK, Next
    PROVE  sink' = sink \/ sink' \/ RestartUi
<1>1. CASE \E n \in Presses : ActivityStep(n)
  BY <1>1 DEF ActivityStep, OnHasPermission, OnRequestPermission, OnConnect, OnDisconnect,
              OnConnectThrows, OnDisconnectThrows,
              activityVars
<1>2. CASE \E ok \in BOOLEAN : OnActivityResult(ok)
  BY <1>2 DEF OnActivityResult
<1>3. CASE \E n \in Presses : ControllerStep(n)
  BY <1>3 DEF ControllerStep, PermissionMissing, PermissionThere, ConnectReturns,
              ConnectThrows, DisconnectReturns, DisconnectThrows, Receive, activityVars
<1>4. CASE \E i \in Id : ServiceStep(i)
  BY <1>4, Serving DEF ServedAs, activityVars
<1>5. CASE \/ Bootstrap \/ PressConnect \/ PressDisconnect \/ RestartUi
           \/ ShowRunning \/ ShowStopped \/ ShowFailed
           \/ OnListen \/ (\E e \in Events : DeliverEvent(e))
           \/ ArriveIntent \/ BringDown \/ Revoke \/ EngineDies
  BY <1>5 DEF Bootstrap, PressConnect, PressDisconnect, Press, ShowRunning, ShowStopped,
              ShowFailed, Receive, OnListen, DeliverEvent, ArriveIntent, BringDown, Revoke,
              EngineDies, activityVars
<1>. QED
  BY <1>1, <1>2, <1>3, <1>4, <1>5 DEF Next

\* How a screen comes to show "connected".
LEMMA Connects ==
    ASSUME TypeOK, Next, status' = "connected"
    PROVE  status = "connected" \/ ShowRunning
<1>1. CASE \E n \in Presses : ActivityStep(n)
  BY <1>1 DEF ActivityStep, OnHasPermission, OnRequestPermission, OnConnect, OnDisconnect,
              OnConnectThrows, OnDisconnectThrows,
              Handle, dartVars
<1>2. CASE \E ok \in BOOLEAN : OnActivityResult(ok)
  BY <1>2 DEF OnActivityResult, dartVars
<1>3. CASE \E n \in Presses : ControllerStep(n)
  BY <1>3 DEF ControllerStep, PermissionMissing, PermissionThere, ConnectReturns,
              ConnectThrows, DisconnectReturns, DisconnectThrows
<1>4. CASE \E i \in Id : ServiceStep(i)
  BY <1>4, Serving DEF ServedAs, dartVars
<1>5. CASE \/ Bootstrap \/ PressConnect \/ PressDisconnect \/ RestartUi
           \/ ShowRunning \/ ShowStopped \/ ShowFailed
  BY <1>5 DEF Bootstrap, PressConnect, PressDisconnect, RestartUi, ShowStopped, ShowFailed
<1>6. CASE \/ OnListen \/ (\E e \in Events : DeliverEvent(e))
           \/ ArriveIntent \/ BringDown \/ Revoke \/ EngineDies
  BY <1>6 DEF OnListen, DeliverEvent, Handle, ArriveIntent, BringDown, Revoke, EngineDies, dartVars
<1>. QED
  BY <1>1, <1>2, <1>3, <1>4, <1>5, <1>6 DEF Next

\* Every step keeps SinkInv.
LEMMA SinkStep ==
    ASSUME TypeOK, AppAssumption, SinkInv, Next
    PROVE  SinkInv'
<1>1. toDart \in Seq(DartMessages) /\ looper \in Seq(LooperMessages)
  BY DEF TypeOK
<1>2. CASE RestartUi
  <2>1. status' = "disconnected" /\ Len(toDart') = 0 /\ ~loaded' /\ fresh'
    BY <1>2 DEF RestartUi
  <2>. QED
    BY <2>1 DEF SinkInv, Has
<1>3. CASE ~RestartUi
  <2>1. sink => sink'
    BY <1>3, SinkStays
  <2>2. status' = "connected" => sink
    <3>1. ShowRunning => Has(toDart, <<"running", None>>)
      BY <1>1, HasTail DEF ShowRunning, Receive
    <3>. QED
      BY <3>1, Connects DEF SinkInv, Events
  <2>3. ASSUME NEW e \in Events, Has(toDart', <<e, None>>) PROVE sink
    <3>1. CASE toDart' = toDart
      BY <2>3, <3>1 DEF SinkInv
    <3>2. CASE toDart # <<>> /\ toDart' = Tail(toDart)
      <4>1. Has(toDart, <<e, None>>)
        BY <1>1, <2>3, <3>2, HasTail
      <4>. QED
        BY <4>1 DEF SinkInv
    <3>3. CASE \E x \in Results \X Presses : toDart' = Append(toDart, x)
      <4>1. PICK x \in Results \X Presses : toDart' = Append(toDart, x)
        BY <3>3
      <4>2. x \in DartMessages /\ x # <<e, None>>
        BY DEF DartMessages, Events, Results
      <4>3. Has(toDart, <<e, None>>)
        BY <1>1, <2>3, <4>1, <4>2, HasAppend
      <4>. QED
        BY <4>3 DEF SinkInv
    <3>. QED
      BY <1>3, <3>1, <3>2, <3>3, ToDart
  <2>4. ASSUME ~sink'
        PROVE  /\ loaded' => Has(looper', Listen)
               /\ ~fresh' => \E op \in Methods, n \in Presses : Followed(looper', Listen, <<op, n>>)
    <3>1. ~sink /\ ~OnListen
      BY <2>1, <2>4 DEF OnListen
    <3>2. CASE Bootstrap /\ ~loaded /\ fresh' = fresh
      <4>1. looper' = Append(looper, Listen) /\ Listen \in LooperMessages
        BY <3>2 DEF Bootstrap, Listen, LooperMessages
      <4>2. Has(looper', Listen)
        BY <1>1, <4>1, HasAppend
      <4>. QED
        BY <3>2, <4>2 DEF SinkInv
    <3>3. CASE (PressConnect \/ PressDisconnect) /\ loaded /\ loaded'
      <4>1. PICK n \in Presses : n = presses + 1
        BY <3>3 DEF PressConnect, PressDisconnect, Press, Presses, TypeOK, AppAssumption
      <4>2. PICK op \in Methods : looper' = Append(looper, <<op, n>>)
        BY <3>3, <4>1 DEF PressConnect, PressDisconnect, Invoke, Methods
      <4>3. <<op, n>> \in LooperMessages /\ <<op, n>> # Listen
        BY DEF LooperMessages, Listen, Methods
      <4>4. Has(looper', Listen)
        BY <1>1, <3>1, <3>3, <4>2, <4>3, HasAppend DEF SinkInv
      <4>5. Followed(looper', Listen, <<op, n>>)
        BY <1>1, <4>2, <4>3, FollowedAppend
      <4>. QED
        BY <4>4, <4>5
    <3>4. CASE UNCHANGED <<loaded, fresh>>
      <4>1. CASE Bootstrap
        BY <3>4, <4>1 DEF Bootstrap
      <4>2. CASE ~Bootstrap
        BY <1>3, <3>1, <3>4, <4>2, ListenStays DEF SinkInv
      <4>. QED
        BY <4>1, <4>2
    <3>. QED
      BY <1>3, <3>2, <3>3, <3>4, UiKept
  <2>5. ~fresh' => loaded'
    BY <1>3, UiKept DEF SinkInv, Bootstrap
  <2>. QED
    BY <2>1, <2>2, <2>3, <2>4, <2>5 DEF SinkInv
<1>. QED
  BY <1>2, <1>3

-----------------------------------------------------------------------------
(* An engine that is off is not shown as running *)

\* Without an engine, running:false is behind every running:true.
OffInv ==
    engine = "off" =>
        /\ Followed(looper, Running, Stopped)
        /\ Followed(toDart, Running, Stopped) \/ Has(looper, Stopped)
        /\ status = "connected" => Has(toDart, Stopped) \/ Has(looper, Stopped)

\* Results are no events: they leave what Dart has of these alone.
LEMMA DartEvents ==
    ASSUME TypeOK, Next, ~RestartUi,
           ~ (ShowRunning \/ ShowStopped \/ ShowFailed), ~ \E e \in Events : DeliverEvent(e)
    PROVE  Same(toDart, toDart', EventMessages)
<1>1. toDart \in Seq(DartMessages)
  BY DEF TypeOK
<1>2. CASE \E n \in Presses : ControllerStep(n)
  <2>1. PICK n \in Presses, r \in Results :
            toDart # <<>> /\ Head(toDart) = <<r, n>> /\ toDart' = Tail(toDart)
    BY <1>2 DEF ControllerStep, PermissionMissing, PermissionThere, ConnectReturns,
                ConnectThrows, DisconnectReturns, DisconnectThrows, Receive, Results
  <2>2. Head(toDart) \notin EventMessages
    BY <2>1, MessageSets
  <2>. QED
    BY <1>1, <2>1, <2>2, SameTail
<1>3. CASE toDart' = toDart
  BY <1>3, SameSelf
<1>4. CASE \E x \in Results \X Presses : toDart' = Append(toDart, x)
  BY <1>1, <1>4, MessageSets, SameAppend
<1>5. CASE \E n \in Presses : ActivityStep(n)
  <2>1. PICK n \in Presses : ActivityStep(n)
    BY <1>5
  <2>2. toDart' = toDart \/ \E r \in Results : toDart' = Append(toDart, <<r, n>>)
    BY <2>1 DEF ActivityStep, OnHasPermission, OnRequestPermission, OnConnect, OnDisconnect,
              OnConnectThrows, OnDisconnectThrows,
                Reply, Results
  <2>. QED
    BY <1>3, <1>4, <2>2
<1>6. ASSUME NEW ok \in BOOLEAN, OnActivityResult(ok)
      PROVE  toDart' = toDart \/ \E x \in Results \X Presses : toDart' = Append(toDart, x)
  <2>1. \/ toDart' = toDart
        \/ pending # None /\ \E r \in {"true", "error"} : toDart' = Append(toDart, <<r, pending>>)
    BY <1>6 DEF OnActivityResult, Reply
  <2>2. pending # None => pending \in Presses
    BY DEF TypeOK
  <2>. QED
    BY <2>1, <2>2 DEF Results
<1>7. CASE \E i \in Id : ServiceStep(i)
  BY <1>3, <1>7, Serving DEF ServedAs
<1>8. CASE \/ Bootstrap \/ PressConnect \/ PressDisconnect
           \/ OnListen \/ ArriveIntent \/ BringDown \/ Revoke \/ EngineDies
  BY <1>3, <1>8 DEF Bootstrap, PressConnect, PressDisconnect, Press,
              OnListen, ArriveIntent, BringDown, Revoke, EngineDies
<1>9. CASE \E ok \in BOOLEAN : OnActivityResult(ok)
  BY <1>3, <1>4, <1>6, <1>9
<1>. QED
  BY <1>2, <1>5, <1>7, <1>8, <1>9 DEF Next

\* Every step keeps OffInv: stopTunnel posts running:false behind whatever was posted
\* (FfVpnService.kt:132-148), and the bus and the sink keep the order.
LEMMA OffStep ==
    ASSUME TypeOK, AppAssumption, SinkInv, OffInv, Next
    PROVE  OffInv'
<1>. SUFFICES ASSUME engine' = "off"
              PROVE  /\ Followed(looper', Running, Stopped)
                     /\ Followed(toDart', Running, Stopped) \/ Has(looper', Stopped)
                     /\ status' = "connected" => Has(toDart', Stopped) \/ Has(looper', Stopped)
  BY DEF OffInv
<1>1. looper \in Seq(LooperMessages) /\ toDart \in Seq(DartMessages) /\ ams \in Seq(IntentMessages)
  BY DEF TypeOK
<1>2. ASSUME engine = "off"
      PROVE  /\ Followed(looper, Running, Stopped)
             /\ Followed(toDart, Running, Stopped) \/ Has(looper, Stopped)
             /\ status = "connected" => Has(toDart, Stopped) \/ Has(looper, Stopped)
  BY <1>2 DEF OffInv
<1>3. CASE \E i \in Id : ServiceStep(i)
  <2>1. PICK i \in Id, op \in Intents, posts \in Seq(EventMessages) : ServedAs(op, i, posts)
    BY <1>3, Serving
  <2>2. /\ looper # <<>> /\ Head(looper) = <<op, i>> /\ looper' = Tail(looper) \o posts
        /\ UNCHANGED <<toDart, status>>
        /\ \/ engine = "off" /\ posts = <<>>
           \/ posts \in {<<Stopped>>, <<Failed, Stopped>>}
    BY <2>1 DEF ServedAs, dartVars
  <2>3. Tail(looper) \in Seq(LooperMessages) /\ posts \in Seq(LooperMessages)
    BY <1>1, <2>2, MessageSets
  <2>4. CASE posts \in {<<Stopped>>, <<Failed, Stopped>>}
    <3>1. ~Has(posts, Running) /\ Has(posts, Stopped)
      <4>1. Running # Stopped /\ Running # Failed
        BY MessageSets
      <4>2. CASE posts = <<Stopped>>
        <5>1. Len(posts) = 1 /\ posts[1] = Stopped
          BY <4>2
        <5>. QED
          BY <4>1, <5>1 DEF Has
      <4>3. CASE posts = <<Failed, Stopped>>
        <5>1. Len(posts) = 2 /\ posts[1] = Failed /\ posts[2] = Stopped
          BY <4>3
        <5>. QED
          BY <4>1, <5>1 DEF Has
      <4>. QED
        BY <2>4, <4>2, <4>3
    <3>2. Followed(posts, Running, Stopped)
      BY <3>1, FollowedVoid
    <3>3. Followed(looper', Running, Stopped) /\ Has(looper', Stopped)
      BY <2>2, <2>3, <3>1, <3>2, FollowedConcat, HasConcat
    <3>. QED
      BY <3>3
  <2>5. CASE engine = "off" /\ posts = <<>>
    <3>1. looper' = Tail(looper)
      BY <2>2, <2>3, <2>5
    <3>2. Same(looper, looper', EventMessages)
      BY <1>1, <2>2, <3>1, SameTail, MessageSets
    <3>. QED
      BY <1>2, <2>2, <2>5, <3>2, MessageSets DEF Same
  <2>. QED
    BY <2>2, <2>4, <2>5
<1>4. CASE \E e \in Events : DeliverEvent(e)
  <2>1. PICK e \in Events : DeliverEvent(e)
    BY <1>4
  <2>2. /\ looper # <<>> /\ Head(looper) = <<e, None>> /\ looper' = Tail(looper)
        /\ \/ sink /\ toDart' = Append(toDart, <<e, None>>)
           \/ ~sink /\ toDart' = toDart
        /\ status' = status /\ engine = "off"
    BY <2>1, Delivered
  <2>3. <<e, None>> \in EventMessages /\ <<e, None>> \in DartMessages /\ <<e, None>> \in LooperMessages
    BY MessageSets DEF EventMessages
  <2>4. /\ Followed(looper', Running, Stopped)
        /\ Has(looper, Stopped) <=> <<e, None>> = Stopped \/ Has(looper', Stopped)
        /\ <<e, None>> = Running => Has(looper', Stopped)
    BY <1>1, <1>2, <2>2, FollowedTail, HasTail
  <2>5. CASE Has(looper', Stopped)
    BY <2>4, <2>5
  <2>6. CASE ~Has(looper', Stopped) /\ sink
    <3>1. toDart' = Append(toDart, <<e, None>>) /\ <<e, None>> # Running
      BY <2>2, <2>4, <2>6
    <3>2. Followed(toDart, Running, Stopped) \/ <<e, None>> = Stopped
      BY <1>2, <2>2, <2>4, <2>6
    <3>3. Followed(toDart', Running, Stopped)
      BY <1>1, <2>3, <3>1, <3>2, FollowedAppend
    <3>4. Has(toDart', Stopped) <=> Has(toDart, Stopped) \/ <<e, None>> = Stopped
      <4>1. PICK x \in DartMessages : x = <<e, None>> /\ toDart' = Append(toDart, x)
        BY <2>3, <3>1
      <4>2. Has(Append(toDart, x), Stopped) <=> Has(toDart, Stopped) \/ x = Stopped
        BY <1>1, HasAppend
      <4>. QED
        BY <4>1, <4>2
    <3>5. status' = "connected" => Has(toDart', Stopped)
      BY <1>2, <2>2, <2>4, <2>6, <3>4
    <3>. QED
      BY <2>4, <3>3, <3>5
  <2>7. CASE ~Has(looper', Stopped) /\ ~sink
    <3>1. ~Has(toDart, Running) /\ status # "connected" /\ toDart' = toDart
      BY <2>2, <2>7 DEF SinkInv, Running, Events
    <3>2. Followed(toDart', Running, Stopped)
      BY <3>1, FollowedVoid
    <3>. QED
      BY <2>2, <2>4, <3>1, <3>2
  <2>. QED
    BY <2>5, <2>6, <2>7
<1>5. CASE (ArriveIntent \/ QuietStep) /\ ~ \E i \in Id : ServiceStep(i)
  <2>1. engine = "off"
    BY <1>5, EngineKept DEF EngineDies
  <2>2. Same(looper, looper', EventMessages)
    <3>1. CASE ArriveIntent
      <4>1. Head(ams) \in IntentMessages /\ looper' = Append(looper, Head(ams))
        BY <1>1, <3>1 DEF ArriveIntent
      <4>. QED
        BY <1>1, <4>1, MessageSets, SameAppend
    <3>2. CASE QuietStep
      BY <3>2, QuietLeaves, LeavesNative, SamePart DEF Native
    <3>. QED
      BY <1>5, <3>1, <3>2
  <2>3. Followed(looper', Running, Stopped) /\ (Has(looper', Stopped) <=> Has(looper, Stopped))
    BY <1>2, <2>1, <2>2, MessageSets DEF Same
  <2>4. CASE RestartUi
    <3>1. status' = "disconnected" /\ Len(toDart') = 0
      BY <2>4 DEF RestartUi
    <3>2. Followed(toDart', Running, Stopped)
      BY <3>1 DEF Followed
    <3>. QED
      BY <2>3, <3>1, <3>2
  <2>5. CASE ShowRunning \/ ShowStopped \/ ShowFailed
    <3>1. /\ toDart # <<>> /\ toDart' = Tail(toDart)
          /\ \/ Head(toDart) = Running
             \/ Head(toDart) \in {Stopped, Failed} /\ status' # "connected"
      BY <2>5 DEF ShowRunning, ShowStopped, ShowFailed, Receive, Running, Stopped, Failed
    <3>2. /\ Followed(toDart, Running, Stopped) => Followed(toDart', Running, Stopped)
          /\ Followed(toDart, Running, Stopped) /\ Head(toDart) = Running => Has(toDart', Stopped)
      BY <1>1, <3>1, FollowedTail
    <3>. QED
      BY <1>2, <2>1, <2>3, <3>1, <3>2
  <2>6. CASE ~RestartUi /\ ~ (ShowRunning \/ ShowStopped \/ ShowFailed) /\ ~ \E e \in Events : DeliverEvent(e)
    <3>1. Same(toDart, toDart', EventMessages)
      BY <2>6, DartEvents
    <3>2. status' = "connected" => status = "connected"
      BY <2>6, Connects
    <3>. QED
      BY <1>2, <2>1, <2>3, <3>1, <3>2, MessageSets DEF Same
  <2>. QED
    BY <1>4, <2>4, <2>5, <2>6
<1>. QED
  BY <1>3, <1>4, <1>5, NextSplit

-----------------------------------------------------------------------------
(* An engine that is up is shown as running, or something ends it *)

\* Something is on its way that ends the engine.
Doomed ==
    \/ service = "stopping"
    \/ \E op \in Intents, i \in Id : Pending(<<op, i>>)

\* A call is under way that will send an intent or fail, if the permission is there.
Resolving ==
    \E n \in Presses :
        \/ InLooper(n)
        \/ /\ call[n] \in {"hasPermission", "requestPermission"}
           /\ Has(toDart, <<"true", n>>) \/ Has(toDart, <<"false", n>>)

\* What tells the user of an engine, and what takes that from the screen.
Good == {Running} \cup {x \in {"error"} \X Presses : MayThrow}
Bad ==
    {Stopped, Failed} \cup {x \in {"error"} \X Presses : ~MayThrow}
        \cup ({"true"} \X {n \in Presses : call[n] = "disconnect"})

\* The last that Dart has heard of, or will, tells of the engine.
Heard ==
    \/ \E g \in Good : Has(toDart, g) /\ \A b \in Bad : Followed(toDart, b, g)
    \/ status \in Shown /\ \A b \in Bad : ~Has(toDart, b)

\* With an engine, running:true is behind what earlier ones posted.
UpQueue ==
    engine # "off" => Followed(looper, Stopped, Running) /\ Followed(looper, Failed, Running)

UpInv ==
    /\ UpQueue
    /\ engine # "off" => fresh \/ Doomed \/ Resolving \/ Has(looper, Running) \/ Heard

\* An engine without the permission is doomed.
LEMMA RevokedDooms ==
    ASSUME RevokeInv, ~granted, engine # "off"
    PROVE  Doomed
BY DEF RevokeInv, Doomed, Intents

\* So is one that an intent is sent to.
LEMMA SentDooms ==
    ASSUME TypeOK, TypeOK', NEW op \in {"start", "stop"}, SendIntent(op)
    PROVE  Doomed'
<1>1. op \in Intents /\ instance' \in Id /\ ams' = Append(ams, <<op, instance'>>)
  BY DEF Intents, TypeOK, SendIntent
<1>2. <<op, instance'>> \in IntentMessages /\ ams \in Seq(IntentMessages)
  BY <1>1 DEF IntentMessages, TypeOK
<1>3. Has(ams', <<op, instance'>>)
  BY <1>1, <1>2, HasAppend
<1>. QED
  BY <1>1, <1>3 DEF Doomed, Pending

\* A doomed engine stays doomed until it is gone.
LEMMA DoomStep ==
    ASSUME TypeOK, TypeOK', AppAssumption, ServiceInvs', Doomed, Next,
           engine # "off", engine' # "off", ~RestartUi
    PROVE  Doomed'
<1>1. looper \in Seq(LooperMessages) /\ ams \in Seq(IntentMessages) /\ instance \in Id
  BY DEF TypeOK
<1>2. CASE ~granted'
  BY <1>2 DEF ServiceInvs, RevokeInv, Doomed, Intents
<1>3. CASE \E op \in {"start", "stop"} : SendIntent(op)
  BY <1>3, SentDooms
<1>4. CASE granted' /\ \E i \in Id : ServiceStep(i)
  <2>1. PICK i \in Id, op \in Intents, posts \in Seq(EventMessages) : ServedAs(op, i, posts)
    BY <1>4, Serving
  <2>. QED
    BY <1>4, <2>1 DEF ServedAs, activityVars
<1>5. CASE BringDown
  <2>0. PICK i \in Id : i = instance
    BY <1>1
  <2>1. ams' = Append(ams, <<"destroy", i>>) /\ <<"destroy", i>> \in IntentMessages
    BY <1>5, <2>0 DEF BringDown, IntentMessages, Intents
  <2>2. Has(ams', <<"destroy", i>>)
    BY <1>1, <2>1, HasAppend
  <2>3. Pending(<<"destroy", i>>)'
    BY <2>2 DEF Pending
  <2>. QED
    BY <1>1, <2>3 DEF Doomed, Intents
<1>6. CASE ArriveIntent
  <2>1. /\ Head(ams) \in LooperMessages /\ looper' = Append(looper, Head(ams))
        /\ ams # <<>> /\ ams' = Tail(ams) /\ service' = service
    BY <1>1, <1>6, MessageSets DEF ArriveIntent
  <2>2. \A m : Pending(m) => Pending(m)'
    BY <1>1, <2>1, HasAppend, HasTail DEF Pending
  <2>. QED
    BY <2>1, <2>2 DEF Doomed
<1>7. CASE /\ granted' /\ ~ \E op \in {"start", "stop"} : SendIntent(op)
           /\ (QuietStep /\ ~BringDown) \/ (\E e \in Events : DeliverEvent(e))
  <2>2. ~Revoke
    BY <1>7 DEF Revoke
  <2>3. UNCHANGED serviceVars
    <3>1. CASE \E n \in Presses : ActivityStep(n)
      BY <1>7, <3>1 DEF ActivityStep, OnHasPermission, OnRequestPermission, OnConnect, OnDisconnect,
              OnConnectThrows, OnDisconnectThrows
    <3>2. CASE \E n \in Presses : ControllerStep(n)
      BY <3>2 DEF ControllerStep, PermissionMissing, PermissionThere, ConnectReturns,
                  ConnectThrows, DisconnectReturns, DisconnectThrows, Receive
    <3>3. CASE \E ok \in BOOLEAN : OnActivityResult(ok)
      BY <1>7, <3>3 DEF OnActivityResult
    <3>4. CASE \/ Bootstrap \/ PressConnect \/ PressDisconnect \/ RestartUi
               \/ ShowRunning \/ ShowStopped \/ ShowFailed
               \/ OnListen \/ EngineDies \/ (\E e \in Events : DeliverEvent(e))
      BY <3>4 DEF Bootstrap, PressConnect, PressDisconnect, Press, RestartUi, ShowRunning,
                  ShowStopped, ShowFailed, Receive, OnListen, EngineDies, DeliverEvent
    <3>. QED
      BY <1>7, <2>2, <3>1, <3>2, <3>3, <3>4 DEF QuietStep
  <2>4. \A m \in IntentMessages : Pending(m) => Pending(m)'
    BY <1>7, <2>3, IntentsLeft DEF Same, Pending, serviceVars
  <2>5. \A op \in Intents, i \in Id : Pending(<<op, i>>) => Pending(<<op, i>>)'
    BY <2>4 DEF IntentMessages
  <2>. QED
    BY <2>3, <2>5 DEF Doomed, serviceVars
<1>. QED
  BY <1>2, <1>3, <1>4, <1>5, <1>6, <1>7, NextSplit

\* A call under way stays under way until an intent is sent for it, or refused.
LEMMA ResolvingStep ==
    ASSUME TypeOK, AppAssumption, CallInv, GrantInv, Next, ~RestartUi, granted, Resolving,
           \A n \in Presses : ~ (\/ OnConnect(n) \/ OnConnectThrows(n)
                                 \/ OnDisconnect(n) \/ OnDisconnectThrows(n))
    PROVE  Resolving'
<1>1. looper \in Seq(LooperMessages) /\ toDart \in Seq(DartMessages) /\ call \in [Presses -> Awaits]
  BY DEF TypeOK
<1>2. /\ \A r \in Results, n \in Presses : <<r, n>> \in DartMessages /\ <<r, n>> \in Answers(n)
      /\ \A op \in Methods, n \in Presses : <<op, n>> \in LooperMessages /\ <<op, n>> \in Asks(n)
      /\ "true" \in Results /\ "false" \in Results
  BY DEF DartMessages, LooperMessages, Results, Answers, Asks
<1>3. ASSUME NEW op \in Methods, NEW n \in Presses, looper' = Append(looper, <<op, n>>)
      PROVE  Resolving'
  <2>1. Has(looper', <<op, n>>)
    BY <1>1, <1>2, <1>3, HasAppend
  <2>. QED
    BY <1>2, <2>1 DEF Resolving, InLooper
<1>4. PICK n \in Presses :
          \/ InLooper(n)
          \/ /\ call[n] \in {"hasPermission", "requestPermission"}
             /\ Has(toDart, <<"true", n>>) \/ Has(toDart, <<"false", n>>)
  BY DEF Resolving
<1>5. CASE InLooper(n)
  <2>1. PICK op \in Methods : Has(looper, <<op, n>>)
    BY <1>5 DEF InLooper, Asks
  <2>2. CASE Has(looper', <<op, n>>)
    BY <1>2, <2>2 DEF Resolving, InLooper
  <2>3. CASE Handle(op, n) /\ ActivityStep(n)
    <3>1. OnHasPermission(n) \/ OnRequestPermission(n)
      BY <2>3 DEF ActivityStep
    <3>2. /\ op \in {"hasPermission", "requestPermission"} /\ call' = call
          /\ \E r \in {"true", "false"} : toDart' = Append(toDart, <<r, n>>)
      <4>1. Head(looper) = <<op, n>> /\ call' = call
        BY <2>3 DEF Handle, dartVars
      <4>2. CASE OnHasPermission(n)
        <5>1. Head(looper) = <<"hasPermission", n>> /\ Reply(IF granted THEN "true" ELSE "false", n)
          BY <4>2 DEF OnHasPermission, Handle
        <5>. QED
          BY <4>1, <5>1 DEF Reply
      <4>3. CASE OnRequestPermission(n)
        <5>1. Head(looper) = <<"requestPermission", n>> /\ Reply("true", n)
          BY <4>3 DEF OnRequestPermission, Handle
        <5>. QED
          BY <4>1, <5>1 DEF Reply
      <4>. QED
        BY <3>1, <4>2, <4>3
    <3>3. PICK r \in {"true", "false"} : toDart' = Append(toDart, <<r, n>>)
      BY <3>2
    <3>4. Has(toDart', <<r, n>>)
      BY <1>1, <1>2, <3>3, HasAppend
    <3>5. call[n] = op
      BY <2>1 DEF CallInv, Placed
    <3>. QED
      BY <3>2, <3>4, <3>5 DEF Resolving
  <2>. QED
    BY <2>1, <2>2, <2>3, CallStays
<1>6. CASE /\ call[n] \in {"hasPermission", "requestPermission"}
           /\ Has(toDart, <<"true", n>>) \/ Has(toDart, <<"false", n>>)
  <2>1. PICK r \in {"true", "false"} : Has(toDart, <<r, n>>)
    BY <1>6
  <2>2. ASSUME Has(toDart', <<r, n>>), call'[n] = call[n] PROVE Resolving'
    BY <1>6, <2>2 DEF Resolving
  <2>3. CASE PressConnect \/ PressDisconnect
    <3>1. PICK m \in Presses : m = presses + 1
      BY <2>3 DEF PressConnect, PressDisconnect, Press, Presses, TypeOK, AppAssumption
    <3>2. \E op \in Methods : looper' = Append(looper, <<op, m>>)
      BY <2>3, <3>1 DEF PressConnect, PressDisconnect, Invoke, Methods
    <3>. QED
      BY <1>3, <3>2
  <2>4. ASSUME NEW m \in Presses, ControllerStep(m) PROVE Resolving'
    <3>1. PICK q \in Results : toDart # <<>> /\ Head(toDart) = <<q, m>> /\ toDart' = Tail(toDart)
      BY <2>4 DEF ControllerStep, PermissionMissing, PermissionThere, ConnectReturns,
                  ConnectThrows, DisconnectReturns, DisconnectThrows, Receive, Results
    <3>2. CASE m # n
      <4>1. Has(toDart', <<r, n>>)
        BY <1>1, <2>1, <3>1, <3>2, HasTail
      <4>2. call'[n] = call[n]
        BY <1>1, <2>4, <3>2 DEF ControllerStep, PermissionMissing, PermissionThere, ConnectReturns,
                    ConnectThrows, DisconnectReturns, DisconnectThrows, Invoke, Return
      <4>. QED
        BY <2>2, <4>1, <4>2
    <3>3. CASE m = n /\ (PermissionMissing(n) \/ PermissionThere(n))
      <4>1. \E op \in Methods : looper' = Append(looper, <<op, n>>)
        BY <3>3 DEF PermissionMissing, PermissionThere, Invoke, Methods
      <4>. QED
        BY <1>3, <4>1
    <3>4. CASE m = n /\ (ConnectReturns(n) \/ DisconnectReturns(n) \/ DisconnectThrows(n))
      BY <1>6, <3>4 DEF ConnectReturns, DisconnectReturns, DisconnectThrows
    <3>5. CASE m = n /\ ConnectThrows(n)
      <4>1. Head(toDart) = <<"error", n>> /\ toDart' = Tail(toDart)
        BY <3>5 DEF ConnectThrows, Receive
      <4>2. <<"error", n>> \in Answers(n) /\ <<r, n>> \in Answers(n) /\ <<r, n>> # <<"error", n>>
        BY DEF Answers, Results
      <4>3. Once(toDart, Answers(n))
        BY DEF CallInv, Placed
      <4>4. toDart[1] = <<"error", n>> /\ 1 \in 1..Len(toDart)
        BY <1>1, <3>1, <4>1
      <4>5. PICK k \in 1..Len(toDart) : toDart[k] = <<r, n>>
        BY <2>1 DEF Has
      <4>6. k = 1
        BY <4>2, <4>3, <4>4, <4>5 DEF Once
      <4>. QED
        BY <4>2, <4>4, <4>5, <4>6
    <3>. QED
      BY <2>4, <3>2, <3>3, <3>4, <3>5 DEF ControllerStep
  <2>5. CASE ShowRunning \/ ShowStopped \/ ShowFailed
    <3>1. /\ toDart # <<>> /\ Head(toDart) \in {Running, Stopped, Failed} /\ toDart' = Tail(toDart)
          /\ call' = call
      BY <2>5 DEF ShowRunning, ShowStopped, ShowFailed, Receive, Running, Stopped, Failed
    <3>2. Head(toDart) # <<r, n>>
      BY <3>1 DEF Running, Stopped, Failed
    <3>. QED
      BY <1>1, <2>1, <2>2, <3>1, <3>2, HasTail
  <2>6. CASE call' = call /\ (toDart' = toDart \/ \E x \in DartMessages : toDart' = Append(toDart, x))
    <3>1. Has(toDart', <<r, n>>)
      BY <1>1, <2>1, <2>6, HasAppend
    <3>. QED
      BY <2>2, <2>6, <3>1
  <2>7. CASE \E m \in Presses : ActivityStep(m)
    <3>1. PICK m \in Presses : ActivityStep(m)
      BY <2>7
    <3>2. call' = call /\ (toDart' = toDart \/ \E q \in Results : toDart' = Append(toDart, <<q, m>>))
      BY <3>1 DEF ActivityStep, OnHasPermission, OnRequestPermission, Handle, Reply, dartVars, Results
    <3>. QED
      BY <1>2, <2>6, <3>2
  <2>8. CASE \E ok \in BOOLEAN : OnActivityResult(ok)
    <3>1. pending = None
      BY DEF GrantInv
    <3>2. UNCHANGED <<toDart, call>>
      BY <2>8, <3>1 DEF OnActivityResult, dartVars
    <3>. QED
      BY <2>6, <3>2
  <2>9. CASE \E e \in Events : DeliverEvent(e)
    <3>1. PICK e \in Events : DeliverEvent(e)
      BY <2>9
    <3>2. call' = call /\ (toDart' = toDart \/ toDart' = Append(toDart, <<e, None>>))
      BY <3>1, Delivered
    <3>3. <<e, None>> \in DartMessages
      BY MessageSets DEF EventMessages
    <3>. QED
      BY <2>6, <3>2, <3>3
  <2>10. CASE \E i \in Id : ServiceStep(i)
    <3>1. UNCHANGED <<toDart, call>>
      BY <2>10, Serving DEF ServedAs, dartVars
    <3>. QED
      BY <2>6, <3>1
  <2>11. CASE Bootstrap \/ OnListen \/ ArriveIntent \/ BringDown \/ Revoke \/ EngineDies
    <3>1. UNCHANGED <<toDart, call>>
      BY <2>11 DEF Bootstrap, OnListen, ArriveIntent, BringDown, Revoke, EngineDies, Handle, dartVars
    <3>. QED
      BY <2>6, <3>1
  <2>. QED
    BY <2>3, <2>4, <2>5, <2>7, <2>8, <2>9, <2>10, <2>11 DEF Next
<1>. QED
  BY <1>4, <1>5, <1>6

\* What is told last is told of an engine.
LEMMA HeardLast ==
    ASSUME TypeOK, NEW g \in Good, g \in DartMessages, toDart' = Append(toDart, g)
    PROVE  Heard'
<1>1. toDart \in Seq(DartMessages)
  BY DEF TypeOK
<1>2. Has(toDart', g)
  BY <1>1, HasAppend
<1>3. ASSUME NEW b \in Bad' PROVE Followed(toDart', b, g)
  <2>1. b # g
    BY <1>3 DEF Good, Bad, Running, Stopped, Failed
  <2>. QED
    BY <1>1, <2>1, FollowedAppend
<1>4. g \in Good'
  BY DEF Good
<1>. QED
  BY <1>2, <1>3, <1>4 DEF Heard

\* Nothing new is heard.
LEMMA HeardKept ==
    ASSUME Heard, call' = call, toDart' = toDart, status' = status
    PROVE  Heard'
BY DEF Heard, Good, Bad, Shown

\* The screen follows what it is told.
LEMMA HeardTail ==
    ASSUME TypeOK, Heard, Bad' \subseteq Bad, toDart # <<>>, toDart' = Tail(toDart),
           \/ Head(toDart) \in Good /\ status' \in Shown
           \/ Head(toDart) \notin Good /\ (Head(toDart) \in Bad \/ status' = status)
    PROVE  Heard'
<1>1. toDart \in Seq(DartMessages) /\ Good' = Good /\ Shown' = Shown
  BY DEF TypeOK, Good, Shown
<1>2. \A m : Has(toDart, m) <=> Head(toDart) = m \/ Has(toDart', m)
  BY <1>1, HasTail
<1>3. ASSUME NEW g \in Good, Has(toDart, g), \A b \in Bad : Followed(toDart, b, g)
      PROVE  Heard'
  <2>1. \A b \in Bad : Followed(toDart', b, g)
    BY <1>1, <1>3, FollowedTail
  <2>2. CASE Has(toDart', g)
    BY <1>1, <2>1, <2>2 DEF Heard
  <2>3. CASE ~Has(toDart', g)
    <3>1. status' \in Shown
      BY <1>2, <1>3, <2>3
    <3>2. \A b \in Bad : ~Has(toDart', b)
      BY <2>1, <2>3 DEF Followed, Has
    <3>. QED
      BY <1>1, <3>1, <3>2 DEF Heard
  <2>. QED
    BY <2>2, <2>3
<1>4. CASE status \in Shown /\ \A b \in Bad : ~Has(toDart, b)
  BY <1>1, <1>2, <1>4 DEF Heard
<1>. QED
  BY <1>3, <1>4 DEF Heard

\* What the steps of the UI and of the system do to that.
LEMMA HeardStep ==
    ASSUME TypeOK, AppAssumption, GrantInv, Heard, QuietStep, ~RestartUi, granted, ~Resolving',
           ~PressConnect, ~PressDisconnect, ~ \E n \in Presses : ActivityStep(n)
    PROVE  Heard'
<1>1. toDart \in Seq(DartMessages) /\ looper \in Seq(LooperMessages) /\ call \in [Presses -> Awaits]
  BY DEF TypeOK
<1>2. CASE Bootstrap \/ OnListen \/ BringDown \/ Revoke \/ EngineDies
  <2>1. UNCHANGED <<toDart, status, call>>
    BY <1>2 DEF Bootstrap, OnListen, BringDown, Revoke, EngineDies, Handle, dartVars
  <2>. QED
    BY <2>1, HeardKept
<1>3. CASE \E ok \in BOOLEAN : OnActivityResult(ok)
  <2>1. pending = None
    BY DEF GrantInv
  <2>2. UNCHANGED <<toDart, status, call>>
    BY <1>3, <2>1 DEF OnActivityResult, dartVars
  <2>. QED
    BY <2>2, HeardKept
<1>4. CASE ShowRunning \/ ShowStopped \/ ShowFailed
  <2>1. /\ toDart # <<>> /\ toDart' = Tail(toDart) /\ call' = call
        /\ \/ Head(toDart) = Running /\ status' = "connected"
           \/ Head(toDart) \in {Stopped, Failed}
    BY <1>4 DEF ShowRunning, ShowStopped, ShowFailed, Receive, Running, Stopped, Failed
  <2>2. Bad' = Bad
    BY <2>1 DEF Bad
  <2>3. /\ Running \in Good /\ "connected" \in Shown /\ Stopped \in Bad /\ Failed \in Bad
        /\ Stopped \notin Good /\ Failed \notin Good
    BY DEF Good, Shown, Bad, Running, Stopped, Failed
  <2>. QED
    BY <2>1, <2>2, <2>3, HeardTail
<1>5. ASSUME NEW n \in Presses, ControllerStep(n) PROVE Heard'
  <2>1. CASE PermissionMissing(n) \/ PermissionThere(n)
    <3>1. PICK op \in Methods : looper' = Append(looper, <<op, n>>)
      BY <2>1 DEF PermissionMissing, PermissionThere, Invoke, Methods
    <3>2. <<op, n>> \in LooperMessages /\ <<op, n>> \in Asks(n)
      BY DEF LooperMessages, Asks
    <3>3. Has(looper', <<op, n>>)
      BY <1>1, <3>1, <3>2, HasAppend
    <3>. QED
      BY <3>2, <3>3 DEF Resolving, InLooper
  <2>2. CASE ConnectReturns(n) \/ ConnectThrows(n) \/ DisconnectReturns(n) \/ DisconnectThrows(n)
    <3>1. toDart # <<>> /\ toDart' = Tail(toDart) /\ call' = [call EXCEPT ![n] = "over"]
      BY <2>2 DEF ConnectReturns, ConnectThrows, DisconnectReturns, DisconnectThrows, Receive, Return
    <3>2. Bad' \subseteq Bad
      BY <1>1, <3>1 DEF Bad
    <3>3. CASE ConnectReturns(n)
      <4>1. Head(toDart) = <<"true", n>> /\ status' = status
        BY <3>3 DEF ConnectReturns, Receive
      <4>2. <<"true", n>> \notin Good
        BY DEF Good, Running
      <4>. QED
        BY <3>1, <3>2, <4>1, <4>2, HeardTail
    <3>4. CASE DisconnectReturns(n)
      <4>1. Head(toDart) = <<"true", n>> /\ call[n] = "disconnect"
        BY <3>4 DEF DisconnectReturns, Receive
      <4>2. <<"true", n>> \notin Good /\ <<"true", n>> \in Bad
        BY <4>1 DEF Good, Bad, Running
      <4>. QED
        BY <3>1, <3>2, <4>1, <4>2, HeardTail
    <3>5. CASE ConnectThrows(n) \/ DisconnectThrows(n)
      <4>1. Head(toDart) = <<"error", n>> /\ status' = "error"
        BY <3>5 DEF ConnectThrows, DisconnectThrows, Receive
      <4>2. \/ MayThrow /\ <<"error", n>> \in Good /\ "error" \in Shown
            \/ ~MayThrow /\ <<"error", n>> \notin Good /\ <<"error", n>> \in Bad
        BY DEF Good, Bad, Shown, Running
      <4>. QED
        BY <3>1, <3>2, <4>1, <4>2, HeardTail
    <3>. QED
      BY <2>2, <3>3, <3>4, <3>5
  <2>. QED
    BY <1>5, <2>1, <2>2 DEF ControllerStep
<1>. QED
  BY <1>2, <1>3, <1>4, <1>5 DEF QuietStep

\* Every step keeps the order of what the service posts.
LEMMA UpQueueStep ==
    ASSUME TypeOK, AppAssumption, UpQueue, Next
    PROVE  UpQueue'
<1>. SUFFICES ASSUME engine' # "off"
              PROVE  Followed(looper', Stopped, Running) /\ Followed(looper', Failed, Running)
  BY DEF UpQueue
<1>0. looper \in Seq(LooperMessages) /\ ams \in Seq(IntentMessages)
  BY DEF TypeOK
<1>1. CASE \E i \in Id : ServiceStep(i)
  <2>1. PICK i \in Id, op \in Intents, posts \in Seq(EventMessages) : ServedAs(op, i, posts)
    BY <1>1, Serving
  <2>2. /\ looper # <<>> /\ looper' = Tail(looper) \o posts
        /\ \/ posts = <<>> /\ engine # "off"
           \/ posts = <<Running>>
    BY <2>1 DEF ServedAs
  <2>3. Tail(looper) \in Seq(LooperMessages) /\ posts \in Seq(LooperMessages)
    BY <1>0, <2>2, MessageSets
  <2>4. Followed(posts, Stopped, Running) /\ Followed(posts, Failed, Running)
    <3>1. ~Has(posts, Stopped) /\ ~Has(posts, Failed)
      BY <2>2, MessageSets DEF Has
    <3>. QED
      BY <3>1, FollowedVoid
  <2>5. \/ Has(posts, Running)
        \/ Followed(Tail(looper), Stopped, Running) /\ Followed(Tail(looper), Failed, Running)
    <3>1. CASE posts = <<Running>>
      BY <3>1 DEF Has
    <3>2. CASE engine # "off"
      BY <1>0, <2>2, <3>2, FollowedTail DEF UpQueue
    <3>. QED
      BY <2>2, <3>1, <3>2
  <2>. QED
    BY <2>2, <2>3, <2>4, <2>5, FollowedConcat
<1>2. CASE ~ \E i \in Id : ServiceStep(i)
  <2>1. Followed(looper, Stopped, Running) /\ Followed(looper, Failed, Running)
    BY <1>2, EngineKept DEF EngineDies, UpQueue
  <2>2. CASE \E e \in Events : DeliverEvent(e)
    <3>1. looper # <<>> /\ looper' = Tail(looper)
      BY <2>2 DEF DeliverEvent, Handle
    <3>. QED
      BY <1>0, <2>1, <3>1, FollowedTail
  <2>3. CASE QuietStep \/ ArriveIntent
    <3>1. Same(looper, looper', EventMessages)
      <4>1. CASE QuietStep
        BY <4>1, QuietLeaves, LeavesNative, SamePart DEF Native
      <4>2. CASE ArriveIntent
        <5>1. Head(ams) \in IntentMessages /\ looper' = Append(looper, Head(ams))
          BY <1>0, <4>2 DEF ArriveIntent
        <5>. QED
          BY <1>0, <5>1, MessageSets, SameAppend
      <4>. QED
        BY <2>3, <4>1, <4>2
    <3>. QED
      BY <2>1, <3>1, MessageSets DEF Same
  <2>. QED
    BY <1>2, <2>2, <2>3, NextSplit
<1>. QED
  BY <1>1, <1>2

\* Every step keeps UpInv.
LEMMA UpStep ==
    ASSUME TypeOK, TypeOK', AppAssumption, ServiceInvs, ServiceInvs', CallInv, GrantInv, SinkInv,
           UpInv, Next
    PROVE  UpInv'
<1>1. UpQueue'
  BY UpQueueStep DEF UpInv
<1>. SUFFICES ASSUME engine' # "off", ~fresh', ~Doomed', ~Resolving', ~Has(looper', Running)
              PROVE  Heard'
  BY <1>1 DEF UpInv
<1>0. looper \in Seq(LooperMessages) /\ toDart \in Seq(DartMessages)
  BY DEF TypeOK
<1>2. ~RestartUi
  BY DEF RestartUi
<1>3. ASSUME NEW op \in Methods, NEW n \in Presses PROVE ~Has(looper', <<op, n>>)
  BY DEF Resolving, InLooper, Asks
<1>4. ~ (PressConnect \/ PressDisconnect)
  <2>. SUFFICES ASSUME PressConnect \/ PressDisconnect PROVE FALSE
    OBVIOUS
  <2>1. PICK n \in Presses : n = presses + 1
    BY DEF PressConnect, PressDisconnect, Press, Presses, TypeOK, AppAssumption
  <2>2. PICK op \in Methods : looper' = Append(looper, <<op, n>>)
    BY <2>1 DEF PressConnect, PressDisconnect, Invoke, Methods
  <2>3. <<op, n>> \in LooperMessages
    BY DEF LooperMessages
  <2>4. Has(looper', <<op, n>>)
    BY <1>0, <2>2, <2>3, HasAppend
  <2>. QED
    BY <1>3, <2>4
<1>5. ~fresh
  BY <1>2, <1>4, UiKept
<1>6. CASE engine = "off"
  <2>1. \E i \in Id : ServiceStep(i)
    BY <1>6, EngineKept DEF EngineDies
  <2>2. PICK i \in Id, op \in Intents, posts \in Seq(EventMessages) : ServedAs(op, i, posts)
    BY <2>1, Serving
  <2>3. looper # <<>> /\ looper' = Tail(looper) \o posts /\ posts = <<Running>>
    BY <1>6, <2>2 DEF ServedAs
  <2>4. Tail(looper) \in Seq(LooperMessages) /\ posts \in Seq(LooperMessages)
    BY <1>0, <2>3, MessageSets
  <2>5. Has(posts, Running)
    BY <2>3 DEF Has
  <2>. QED
    BY <2>3, <2>4, <2>5, HasConcat
<1>7. CASE engine # "off"
  <2>1. ~Doomed
    BY <1>2, <1>7, DoomStep
  <2>2. granted /\ (Resolving \/ Has(looper, Running) \/ Heard)
    BY <1>5, <1>7, <2>1, RevokedDooms DEF ServiceInvs, UpInv
  <2>3. CASE \E e \in Events : DeliverEvent(e)
    <3>1. PICK e \in Events : DeliverEvent(e)
      BY <2>3
    <3>2. /\ looper # <<>> /\ Head(looper) = <<e, None>> /\ looper' = Tail(looper)
          /\ \/ sink /\ toDart' = Append(toDart, <<e, None>>)
             \/ ~sink
      BY <3>1, Delivered
    <3>3. \A m : Has(looper, m) <=> <<e, None>> = m \/ Has(looper', m)
      BY <1>0, <3>2, HasTail
    <3>4. <<e, None>> \in {Running, Stopped, Failed}
      BY DEF Running, Stopped, Failed, Events
    <3>5. <<e, None>> = Running
      <4>1. Followed(looper, Stopped, Running) /\ Followed(looper, Failed, Running)
        BY <1>7 DEF UpInv, UpQueue
      <4>2. Head(looper) # Stopped /\ Head(looper) # Failed
        BY <1>0, <3>2, <4>1, FollowedTail
      <4>. QED
        BY <3>2, <3>4, <4>2
    <3>6. sink
      <4>. SUFFICES ASSUME ~sink PROVE FALSE
        OBVIOUS
      <4>1. Has(looper, Listen)
        BY <1>5 DEF SinkInv
      <4>2. PICK op \in Methods, n \in Presses : Followed(looper, Listen, <<op, n>>)
        BY <1>5 DEF SinkInv
      <4>3. Has(looper, <<op, n>>)
        BY <4>1, <4>2 DEF Has, Followed
      <4>4. <<op, n>> # <<e, None>>
        BY DEF Methods, Events
      <4>. QED
        BY <1>3, <3>3, <4>3, <4>4
    <3>7. Running \in Good /\ Running \in DartMessages
      BY MessageSets DEF Good
    <3>. QED
      BY <3>2, <3>5, <3>6, <3>7, HeardLast
  <2>4. ASSUME NEW n \in Presses, ActivityStep(n) PROVE Heard'
    <3>1. CASE OnConnect(n) \/ OnDisconnect(n)
      <4>1. \E op \in {"start", "stop"} : SendIntent(op)
        BY <2>2, <3>1 DEF OnConnect, OnDisconnect
      <4>. QED
        BY <4>1, SentDooms
    <3>2. CASE OnConnectThrows(n) \/ OnDisconnectThrows(n)
      <4>1. MayThrow /\ toDart' = Append(toDart, <<"error", n>>)
        BY <3>2 DEF OnConnectThrows, OnDisconnectThrows, Reply
      <4>2. <<"error", n>> \in Good /\ <<"error", n>> \in DartMessages
        BY <4>1 DEF Good, DartMessages, Results
      <4>. QED
        BY <4>1, <4>2, HeardLast
    <3>3. CASE OnHasPermission(n) \/ OnRequestPermission(n)
      <4>1. PICK op \in {"hasPermission", "requestPermission"} : Handle(op, n)
        BY <3>3 DEF OnHasPermission, OnRequestPermission
      <4>2. op \in Methods /\ looper # <<>> /\ Head(looper) = <<op, n>> /\ call' = call
        BY <4>1 DEF Handle, Methods, dartVars
      <4>3. Has(looper, <<op, n>>) /\ <<op, n>> \in Asks(n)
        BY <1>0, <4>2, HasTail DEF Asks
      <4>4. call[n] = op
        BY <4>2, <4>3 DEF CallInv, Placed
      <4>5. PICK r \in {"true", "false"} : toDart' = Append(toDart, <<r, n>>)
        BY <2>2, <3>3 DEF OnHasPermission, OnRequestPermission, Reply
      <4>6. <<r, n>> \in DartMessages
        BY DEF DartMessages, Results
      <4>7. Has(toDart', <<r, n>>)
        BY <1>0, <4>5, <4>6, HasAppend
      <4>. QED
        BY <4>2, <4>4, <4>7 DEF Resolving
    <3>. QED
      BY <2>4, <3>1, <3>2, <3>3 DEF ActivityStep
  <2>5. CASE QuietStep /\ ~ \E n \in Presses : ActivityStep(n)
    <3>1. ~Resolving
      BY <1>2, <2>2, <2>5, ResolvingStep DEF ActivityStep
    <3>2. Same(looper, looper', EventMessages)
      BY <2>5, QuietLeaves, LeavesNative, SamePart DEF Native
    <3>3. ~Has(looper, Running)
      BY <3>2, MessageSets DEF Same
    <3>. QED
      BY <1>2, <1>4, <2>2, <2>5, <3>1, <3>3, HeardStep
  <2>6. CASE ArriveIntent
    <3>1. ams # <<>> /\ ams \in Seq(IntentMessages)
      BY <2>6 DEF ArriveIntent, TypeOK
    <3>2. Head(ams) \in IntentMessages /\ Has(ams, Head(ams))
      BY <3>1, HasTail
    <3>3. Doomed
      BY <3>2 DEF Doomed, Pending, IntentMessages
    <3>. QED
      BY <2>1, <3>3
  <2>7. CASE \E i \in Id : ServiceStep(i)
    <3>1. PICK i \in Id, op \in Intents : looper # <<>> /\ Head(looper) = <<op, i>>
      BY <2>7, Serving DEF ServedAs
    <3>2. Has(looper, <<op, i>>)
      BY <1>0, <3>1, HasTail
    <3>. QED
      BY <2>1, <3>2 DEF Doomed, Pending
  <2>. QED
    BY <2>3, <2>4, <2>5, <2>6, <2>7, NextSplit
<1>. QED
  BY <1>6, <1>7

-----------------------------------------------------------------------------
(* The inductive invariant *)

IInv == TypeOK /\ Counts /\ GrantInv /\ SinkInv /\ ServiceInvs /\ OffInv /\ UpInv

\* The invariant holds when the app starts.
LEMMA InitIInv ==
    ASSUME AppAssumption, Init
    PROVE  IInv
<1>1. TypeOK
  <2>1. /\ status \in Statuses /\ presses \in 0..MaxPresses /\ wish \in Wishes
        /\ call \in [Presses -> Awaits] /\ restarts \in 0..MaxRestarts
        /\ pending \in Presses \cup {None} /\ dialogs \in 0..MaxPresses
        /\ service \in {"none", "started", "stopping"} /\ instance \in Id
        /\ engine \in {"off", "up", "dead"}
    BY DEF Init, AppAssumption, Statuses, Awaits, Wishes, Id
  <2>2. looper \in Seq(LooperMessages) /\ toDart \in Seq(DartMessages) /\ ams \in Seq(IntentMessages)
    BY DEF Init
  <2>3. /\ loaded \in BOOLEAN /\ fresh \in BOOLEAN /\ sink \in BOOLEAN
        /\ pendingStart \in BOOLEAN /\ granted \in BOOLEAN
        /\ overtaken \in [Presses -> Presses \cup {None}]
    BY DEF Init
  <2>. QED
    BY <2>1, <2>2, <2>3 DEF TypeOK
<1>2. \A q, m : Len(q) = 0 => ~Has(q, m)
  BY DEF Has
<1>3. Len(looper) = 0 /\ Len(toDart) = 0 /\ Len(ams) = 0
  BY DEF Init
<1>4. \A m : ~Has(looper, m) /\ ~Has(toDart, m) /\ ~Has(ams, m)
  BY <1>2, <1>3
<1>5. \A m, p : Followed(looper, m, p) /\ Followed(toDart, m, p) /\ Followed(ams, m, p)
  BY <1>4, FollowedVoid
<1>6. ASSUME NEW n \in Presses PROVE Placed(n) /\ ~MaySend(n) /\ ~MayAsk(n)
  <2>1. Once(looper, Asks(n)) /\ Once(toDart, Answers(n))
    BY <1>3 DEF Once
  <2>2. ~InLooper(n) /\ ~InDart(n)
    BY <1>4 DEF InLooper, InDart
  <2>3. pending # n /\ call[n] = "none"
    BY DEF Init, None, Presses
  <2>. QED
    BY <1>4, <2>1, <2>2, <2>3 DEF Placed, MaySend, MayAsk
<1>7. Counts
  <2>1. Senders = {} /\ Askers = {}
    BY <1>6 DEF Senders, Askers
  <2>2. Cardinality(Senders) = 0 /\ Cardinality(Askers) = 0
    BY <2>1, FS_EmptySet
  <2>3. instance + Cardinality(Senders) <= presses /\ dialogs + Cardinality(Askers) <= presses
    BY <2>2 DEF Init
  <2>. QED
    BY <1>6, <2>3 DEF Counts, CallInv, CountInv, Init
<1>8. GrantInv /\ ServiceInvs /\ OffInv /\ UpInv
  BY <1>4, <1>5 DEF Init, GrantInv, ServiceInvs, IntentInv, ServiceInv, RevokeInv, OffInv, UpInv,
                    UpQueue, Behind
<1>9. SinkInv
  BY <1>4 DEF Init, SinkInv
<1>. QED
  BY <1>1, <1>7, <1>8, <1>9 DEF IInv

\* Every step keeps it.
LEMMA NextIInv ==
    ASSUME AppAssumption, IInv, Next
    PROVE  IInv'
<1>1. Counts'
  BY CountsStep DEF IInv
<1>2. TypeOK'
  BY <1>1, TypeStep DEF IInv
<1>3. ServiceInvs'
  BY <1>2, ServicesStep DEF IInv
<1>4. GrantInv' /\ SinkInv' /\ OffInv'
  BY GrantStep, SinkStep, OffStep DEF IInv
<1>5. UpInv'
  BY <1>2, <1>3, UpStep DEF IInv, Counts
<1>. QED
  BY <1>1, <1>2, <1>3, <1>4, <1>5 DEF IInv

\* It is about these variables only.
LEMMA StutterIInv ==
    ASSUME IInv, UNCHANGED vars
    PROVE  IInv'
<1>. USE DEF vars, dartVars, activityVars, serviceVars
<1>1. TypeOK'
  BY DEF IInv, TypeOK
<1>2. CallInv' /\ CountInv'
  BY DEF IInv, Counts, CallInv, CountInv, Placed, InLooper, InDart, Senders, Askers, MaySend, MayAsk
<1>3. GrantInv' /\ SinkInv' /\ OffInv'
  BY DEF IInv, GrantInv, SinkInv, OffInv
<1>4. ServiceInvs'
  BY DEF IInv, ServiceInvs, IntentInv, ServiceInv, RevokeInv, Behind, Pending
<1>5. UpInv'
  BY DEF IInv, UpInv, UpQueue, Doomed, Resolving, InLooper, Heard, Pending, Bad
<1>. QED
  BY <1>1, <1>2, <1>3, <1>4, <1>5 DEF IInv, Counts

\* It holds in every reachable state.
THEOREM Inductive == Spec => []IInv
<1>1. Init => IInv
  BY InitIInv, AppAssumption
<1>2. IInv /\ [Next]_vars => IInv'
  BY NextIInv, StutterIInv, AppAssumption
<1>. QED
  BY <1>1, <1>2, PTL DEF Spec

-----------------------------------------------------------------------------
(* No call is lost, but those whose dialog was overtaken *)

\* Call n waits for the activity, for Dart, or for the user.
Somewhere(n) == InLooper(n) \/ InDart(n) \/ pending = n

\* The dialog of another press took the place of its result.
Overtaken(n) == call[n] \in NeedsUser /\ overtaken[n] \notin {None, n}

LostInv == \A n \in Presses : call[n] \in Methods => Somewhere(n) \/ Overtaken(n)

\* The step leaves call n where it is.
Unmoved(n) ==
    /\ UNCHANGED <<call[n], overtaken[n]>>
    /\ Somewhere(n) => Somewhere(n)'

\* The invariant is kept for calls that do not move.
LEMMA UnmovedKept ==
    ASSUME LostInv, NEW n \in Presses, Unmoved(n)
    PROVE  call'[n] \in Methods => Somewhere(n)' \/ Overtaken(n)'
<1>. SUFFICES ASSUME call'[n] \in Methods, ~Somewhere(n)' PROVE Overtaken(n)'
  OBVIOUS
<1>1. Overtaken(n)
  BY DEF LostInv, Unmoved
<1>. QED
  BY <1>1 DEF Overtaken, Unmoved

\* What is put at the end of the looper or sent to Dart moves nobody else.
LEMMA Queued ==
    ASSUME TypeOK, NEW n \in Presses,
           \/ Same(looper, looper', Asks(n))
           \/ \E x \in LooperMessages : looper' = Append(looper, x),
           \/ Same(toDart, toDart', Answers(n))
           \/ \E x \in DartMessages : toDart' = Append(toDart, x)
    PROVE  (InLooper(n) => InLooper(n)') /\ (InDart(n) => InDart(n)')
<1>1. looper \in Seq(LooperMessages) /\ toDart \in Seq(DartMessages)
  BY DEF TypeOK
<1>2. InLooper(n) => InLooper(n)'
  <2>1. CASE Same(looper, looper', Asks(n))
    BY <2>1 DEF Same, InLooper
  <2>2. CASE \E x \in LooperMessages : looper' = Append(looper, x)
    <3>1. PICK x \in LooperMessages : looper' = Append(looper, x)
      BY <2>2
    <3>2. \A m : Has(looper', m) <=> Has(looper, m) \/ x = m
      BY <1>1, <3>1, HasAppend
    <3>. QED
      BY <3>2 DEF InLooper
  <2>. QED
    BY <2>1, <2>2
<1>3. InDart(n) => InDart(n)'
  <2>1. CASE Same(toDart, toDart', Answers(n))
    BY <2>1 DEF Same, InDart
  <2>2. CASE \E x \in DartMessages : toDart' = Append(toDart, x)
    <3>1. PICK x \in DartMessages : toDart' = Append(toDart, x)
      BY <2>2
    <3>2. \A m : Has(toDart', m) <=> Has(toDart, m) \/ x = m
      BY <1>1, <3>1, HasAppend
    <3>. QED
      BY <3>2 DEF InDart
  <2>. QED
    BY <2>1, <2>2
<1>. QED
  BY <1>2, <1>3

\* A press puts its own call on the looper.
LEMMA PressedFinds ==
    ASSUME TypeOK, AppAssumption, CallInv, LostInv, NEW op \in Methods, NEW what,
           Press(what), Invoke(presses + 1, op)
    PROVE  LostInv'
<1>1. /\ looper \in Seq(LooperMessages) /\ call \in [Presses -> Awaits] /\ presses \in Nat
  BY DEF TypeOK, AppAssumption
<1>2. PICK n \in Presses : n = presses + 1
  BY <1>1 DEF Press, Presses, AppAssumption
<1>3. /\ UNCHANGED <<toDart, pending, overtaken>>
      /\ call' = [call EXCEPT ![n] = op] /\ looper' = Append(looper, <<op, n>>)
  BY <1>2 DEF Press, activityVars, Invoke
<1>4. <<op, n>> \in LooperMessages /\ <<op, n>> \in Asks(n)
  BY DEF LooperMessages, Asks
<1>5. Somewhere(n)'
  <2>1. Has(looper', <<op, n>>)
    BY <1>1, <1>3, <1>4, HasAppend
  <2>. QED
    BY <1>4, <2>1 DEF Somewhere, InLooper
<1>7. \A m \in Presses \ {n} : call'[m] = call[m]
  BY <1>1, <1>3
<1>9. ASSUME NEW m \in Presses \ {n} PROVE Unmoved(m)
  <2>1. (InLooper(m) => InLooper(m)') /\ (InDart(m) => InDart(m)')
    BY <1>3, <1>4, Queued, SameSelf
  <2>. QED
    BY <1>3, <1>7, <2>1 DEF Unmoved, Somewhere
<1>. QED
  BY <1>5, <1>9, UnmovedKept DEF LostInv

\* A coroutine that goes on asks the next question, or is over.
LEMMA ReceivedFinds ==
    ASSUME TypeOK, LostInv, NEW n \in Presses, ControllerStep(n)
    PROVE  LostInv'
<1>1. /\ looper \in Seq(LooperMessages) /\ toDart \in Seq(DartMessages)
      /\ call \in [Presses -> Awaits]
  BY DEF TypeOK
<1>2. PICK r \in Results : /\ toDart # <<>> /\ Head(toDart) = <<r, n>> /\ toDart' = Tail(toDart)
                           /\ UNCHANGED <<pending, overtaken>>
  BY DEF ControllerStep, PermissionMissing, PermissionThere, ConnectReturns, ConnectThrows,
         DisconnectReturns, DisconnectThrows, Receive, Results, activityVars
<1>3. \/ call' = [call EXCEPT ![n] = "over"] /\ looper' = looper
      \/ \E op \in NeedsUser : call' = [call EXCEPT ![n] = op] /\ looper' = Append(looper, <<op, n>>)
  <2>1. CASE PermissionMissing(n) \/ PermissionThere(n)
    BY <2>1 DEF PermissionMissing, PermissionThere, Invoke, NeedsUser
  <2>2. CASE ConnectReturns(n) \/ ConnectThrows(n) \/ DisconnectReturns(n) \/ DisconnectThrows(n)
    BY <2>2 DEF ConnectReturns, ConnectThrows, DisconnectReturns, DisconnectThrows, Return
  <2>. QED
    BY <2>1, <2>2 DEF ControllerStep
<1>4. \A op \in NeedsUser : <<op, n>> \in LooperMessages /\ <<op, n>> \in Asks(n)
  BY DEF NeedsUser, LooperMessages, Asks, Methods
<1>5. \A m \in Presses \ {n} : call'[m] = call[m]
  BY <1>1, <1>3
<1>6. call'[n] \in Methods => Somewhere(n)'
  <2>1. CASE call' = [call EXCEPT ![n] = "over"]
    BY <1>1, <2>1 DEF Methods
  <2>2. CASE \E op \in NeedsUser : call' = [call EXCEPT ![n] = op] /\ looper' = Append(looper, <<op, n>>)
    <3>1. PICK op \in NeedsUser : call' = [call EXCEPT ![n] = op] /\ looper' = Append(looper, <<op, n>>)
      BY <2>2
    <3>2. Has(looper', <<op, n>>)
      BY <1>1, <1>4, <3>1, HasAppend
    <3>. QED
      BY <1>1, <1>4, <3>1, <3>2 DEF Somewhere, InLooper
  <2>. QED
    BY <1>3, <2>1, <2>2
<1>8. ASSUME NEW m \in Presses \ {n} PROVE Unmoved(m)
  <2>1. Head(toDart) \notin Answers(m)
    BY <1>2 DEF Answers
  <2>2. Same(toDart, toDart', Answers(m))
    BY <1>1, <1>2, <2>1, SameTail
  <2>3. \/ Same(looper, looper', Asks(m))
        \/ \E x \in LooperMessages : looper' = Append(looper, x)
    BY <1>3, <1>4, SameSelf
  <2>4. (InLooper(m) => InLooper(m)') /\ (InDart(m) => InDart(m)')
    BY <2>2, <2>3, Queued
  <2>. QED
    BY <1>2, <1>5, <2>4 DEF Unmoved, Somewhere
<1>. QED
  BY <1>6, <1>8, UnmovedKept DEF LostInv

\* A call that is handled is answered, or waits for the user in the place of another.
LEMMA HandledFinds ==
    ASSUME TypeOK, CallInv, LostInv, NEW n \in Presses, ActivityStep(n)
    PROVE  LostInv'
<1>1. looper \in Seq(LooperMessages) /\ toDart \in Seq(DartMessages)
  BY DEF TypeOK
<1>2. PICK op \in Methods :
          /\ Handle(op, n)
          /\ \/ \E r \in Results :
                  toDart' = Append(toDart, <<r, n>>) /\ UNCHANGED <<pending, overtaken>>
             \/ /\ op \in NeedsUser /\ pending' = n /\ toDart' = toDart
                /\ overtaken' = IF pending = None THEN overtaken
                                ELSE [overtaken EXCEPT ![pending] = n]
  <2>1. CASE OnHasPermission(n)
    BY <2>1 DEF OnHasPermission, Reply, activityVars, Methods, Results
  <2>2. CASE OnRequestPermission(n)
    BY <2>2 DEF OnRequestPermission, Reply, AskUser, Methods, NeedsUser, Results
  <2>3. CASE OnConnect(n)
    BY <2>3 DEF OnConnect, Reply, AskUser, Methods, NeedsUser, Results
  <2>4. CASE OnDisconnect(n) \/ OnConnectThrows(n) \/ OnDisconnectThrows(n)
    BY <2>4 DEF OnDisconnect, OnConnectThrows, OnDisconnectThrows, Reply, activityVars, Methods, Results
  <2>. QED
    BY <2>1, <2>2, <2>3, <2>4 DEF ActivityStep
<1>3. /\ looper # <<>> /\ Head(looper) = <<op, n>> /\ looper' = Tail(looper)
      /\ call' = call
  BY <1>2 DEF Handle, dartVars
<1>4. call[n] = op
  <2>1. Has(looper, <<op, n>>)
    BY <1>1, <1>3, HasTail
  <2>. QED
    BY <2>1 DEF CallInv, Placed
<1>5. \A r \in Results : <<r, n>> \in DartMessages /\ <<r, n>> \in Answers(n)
  BY DEF DartMessages, Answers
<1>6. Somewhere(n)'
  <2>1. CASE pending' = n
    BY <2>1 DEF Somewhere
  <2>2. CASE \E r \in Results : toDart' = Append(toDart, <<r, n>>)
    <3>1. PICK r \in Results : toDart' = Append(toDart, <<r, n>>)
      BY <2>2
    <3>2. Has(toDart', <<r, n>>)
      BY <1>1, <1>5, <3>1, HasAppend
    <3>. QED
      BY <1>5, <3>2 DEF Somewhere, InDart
  <2>. QED
    BY <1>2, <2>1, <2>2
<1>7. overtaken \in [Presses -> Presses \cup {None}] /\ None \notin Presses
  BY DEF TypeOK, None, Presses
<1>8. ASSUME NEW m \in Presses \ {n}, call'[m] \in Methods
      PROVE  Somewhere(m)' \/ Overtaken(m)'
  <2>1. Head(looper) \notin Asks(m)
    BY <1>3 DEF Asks
  <2>2. Same(looper, looper', Asks(m))
    BY <1>1, <1>3, <2>1, SameTail
  <2>3. (InLooper(m) => InLooper(m)') /\ (InDart(m) => InDart(m)')
    BY <1>2, <1>5, <2>2, Queued, SameSelf
  <2>4. CASE (pending = m => pending' = m) /\ UNCHANGED <<overtaken[m]>>
    <3>1. Unmoved(m)
      BY <1>3, <2>3, <2>4 DEF Unmoved, Somewhere
    <3>. QED
      BY <1>8, <3>1, UnmovedKept
  <2>5. CASE pending = m /\ overtaken' = [overtaken EXCEPT ![pending] = n]
    <3>1. call[m] \in NeedsUser
      BY <2>5 DEF CallInv, Placed, NeedsUser
    <3>2. overtaken'[m] = n
      BY <1>7, <2>5
    <3>. QED
      BY <1>3, <1>7, <3>1, <3>2 DEF Overtaken
  <2>6. CASE pending # m /\ overtaken' = [overtaken EXCEPT ![pending] = n]
    <3>1. overtaken'[m] = overtaken[m]
      BY <1>7, <2>6
    <3>. QED
      BY <2>4, <2>6, <3>1
  <2>. QED
    BY <1>2, <1>7, <2>4, <2>5, <2>6
<1>. QED
  BY <1>6, <1>8 DEF LostInv

\* The answer of a dialog is on its way to the call that waited.
LEMMA ResultedFinds ==
    ASSUME TypeOK, LostInv, NEW ok \in BOOLEAN, OnActivityResult(ok)
    PROVE  LostInv'
<1>1. looper \in Seq(LooperMessages) /\ toDart \in Seq(DartMessages)
  BY DEF TypeOK
<1>2. UNCHANGED <<call, looper, overtaken>>
  BY DEF OnActivityResult, dartVars
<1>3. \/ pending = None /\ toDart' = toDart
      \/ pending \in Presses /\ \E r \in {"true", "error"} : toDart' = Append(toDart, <<r, pending>>)
  BY DEF OnActivityResult, Reply, TypeOK
<1>4. \A r \in {"true", "error"}, n \in Presses :
          <<r, n>> \in DartMessages /\ <<r, n>> \in Answers(n)
  BY DEF DartMessages, Results, Answers
<1>6. ASSUME NEW n \in Presses PROVE Unmoved(n)
  <2>1. (InLooper(n) => InLooper(n)') /\ (InDart(n) => InDart(n)')
    BY <1>2, <1>3, <1>4, Queued, SameSelf
  <2>2. pending = n => InDart(n)'
    <3>. SUFFICES ASSUME pending = n PROVE InDart(n)'
      OBVIOUS
    <3>1. PICK r \in {"true", "error"} : toDart' = Append(toDart, <<r, n>>)
      BY <1>3 DEF None, Presses
    <3>2. Has(toDart', <<r, n>>)
      BY <1>1, <1>4, <3>1, HasAppend
    <3>. QED
      BY <1>4, <3>2 DEF InDart
  <2>. QED
    BY <1>2, <2>1, <2>2 DEF Unmoved, Somewhere
<1>. QED
  BY <1>6, UnmovedKept DEF LostInv

\* The messages of the service and of the system are no calls.
LEMMA OthersFind ==
    ASSUME TypeOK, LostInv,
           \/ Bootstrap \/ ShowRunning \/ ShowStopped \/ ShowFailed \/ OnListen
           \/ (\E i \in Id : ServiceStep(i)) \/ (\E e \in Events : DeliverEvent(e))
           \/ ArriveIntent \/ BringDown \/ Revoke \/ EngineDies
    PROVE  LostInv'
<1>1. looper \in Seq(LooperMessages) /\ toDart \in Seq(DartMessages) /\ ams \in Seq(IntentMessages)
  BY DEF TypeOK
<1>2. /\ EventMessages \subseteq LooperMessages /\ IntentMessages \subseteq LooperMessages
      /\ <<"listen", None>> \in LooperMessages /\ EventMessages \subseteq DartMessages
  BY DEF LooperMessages, DartMessages
<1>3. ASSUME NEW n \in Presses
      PROVE  /\ \A x \in EventMessages \cup IntentMessages : x \notin Asks(n) /\ x \notin Answers(n)
             /\ <<"listen", None>> \notin Asks(n)
  BY DEF EventMessages, IntentMessages, Events, Intents, Asks, Answers, Methods, Results
<1>4. UNCHANGED <<call, pending, overtaken>>
  <2>1. CASE \E i \in Id : ServiceStep(i)
    BY <2>1, Serving DEF ServedAs, dartVars, activityVars
  <2>2. CASE Bootstrap \/ ShowRunning \/ ShowStopped \/ ShowFailed
    BY <2>2 DEF Bootstrap, ShowRunning, ShowStopped, ShowFailed, Receive, activityVars
  <2>3. CASE OnListen \/ \E e \in Events : DeliverEvent(e)
    BY <2>3 DEF OnListen, DeliverEvent, Handle, dartVars, activityVars
  <2>4. CASE ArriveIntent \/ BringDown \/ Revoke \/ EngineDies
    BY <2>4 DEF ArriveIntent, BringDown, Revoke, EngineDies, dartVars, activityVars
  <2>. QED
    BY <2>1, <2>2, <2>3, <2>4
<1>5. ASSUME NEW n \in Presses PROVE InLooper(n) => InLooper(n)'
  <2>1. CASE Bootstrap
    <3>1. looper' = Append(looper, <<"listen", None>>)
      BY <2>1 DEF Bootstrap
    <3>. QED
      BY <1>1, <1>2, <3>1, HasAppend DEF InLooper
  <2>2. CASE \E i \in Id : ServiceStep(i)
    <3>1. PICK i \in Id : ServiceStep(i)
      BY <2>2
    <3>2. PICK op \in Intents : \E p \in Seq(EventMessages) : ServedAs(op, i, p)
      BY <3>1, Serving
    <3>3. PICK p \in Seq(EventMessages) : ServedAs(op, i, p)
      BY <3>2
    <3>4. Head(looper) \notin Asks(n)
      BY <1>3, <3>3 DEF ServedAs, IntentMessages
    <3>5. Tail(looper) \in Seq(LooperMessages) /\ p \in Seq(LooperMessages)
      BY <1>1, <1>2, <3>3 DEF ServedAs
    <3>6. \A m : Has(looper, m) => Head(looper) = m \/ Has(Tail(looper), m)
      BY <1>1, <3>3, HasTail DEF ServedAs
    <3>7. \A m : Has(Tail(looper), m) => Has(looper', m)
      BY <3>3, <3>5, HasConcat DEF ServedAs
    <3>. QED
      BY <3>4, <3>6, <3>7 DEF InLooper
  <2>3. CASE ArriveIntent
    <3>1. Head(ams) \in LooperMessages /\ looper' = Append(looper, Head(ams))
      BY <1>1, <1>2, <2>3 DEF ArriveIntent
    <3>. QED
      BY <1>1, <3>1, HasAppend DEF InLooper
  <2>4. CASE OnListen \/ \E e \in Events : DeliverEvent(e)
    <3>0. \A e \in Events : <<e, None>> \in EventMessages
      BY DEF EventMessages
    <3>1. /\ looper # <<>> /\ looper' = Tail(looper)
          /\ Head(looper) \in EventMessages \cup {<<"listen", None>>}
      BY <2>4, <3>0 DEF OnListen, DeliverEvent, Handle
    <3>2. Head(looper) \notin Asks(n)
      BY <1>3, <3>1
    <3>. QED
      BY <1>1, <3>1, <3>2, HasTail DEF InLooper
  <2>5. CASE ShowRunning \/ ShowStopped \/ ShowFailed \/ BringDown \/ Revoke \/ EngineDies
    <3>1. looper' = looper
      BY <2>5 DEF ShowRunning, ShowStopped, ShowFailed, BringDown, Revoke, EngineDies
    <3>. QED
      BY <3>1 DEF InLooper
  <2>. QED
    BY <2>1, <2>2, <2>3, <2>4, <2>5
<1>6. ASSUME NEW n \in Presses PROVE InDart(n) => InDart(n)'
  <2>1. CASE ShowRunning \/ ShowStopped \/ ShowFailed
    <3>1. toDart # <<>> /\ Head(toDart) \in EventMessages /\ toDart' = Tail(toDart)
      BY <2>1 DEF ShowRunning, ShowStopped, ShowFailed, Receive, EventMessages, Events
    <3>2. Head(toDart) \notin Answers(n)
      BY <1>3, <3>1
    <3>. QED
      BY <1>1, <3>1, <3>2, HasTail DEF InDart
  <2>2. CASE \E e \in Events : DeliverEvent(e)
    <3>1. toDart' = toDart \/ \E x \in EventMessages : toDart' = Append(toDart, x)
      BY <2>2 DEF DeliverEvent, Reply, EventMessages
    <3>2. ASSUME NEW x \in EventMessages, toDart' = Append(toDart, x) PROVE InDart(n) => InDart(n)'
      <4>1. \A m : Has(toDart, m) => Has(toDart', m)
        BY <1>1, <1>2, <3>2, HasAppend
      <4>. QED
        BY <4>1 DEF InDart
    <3>. QED
      BY <3>1, <3>2 DEF InDart
  <2>3. CASE \E i \in Id : ServiceStep(i)
    <3>1. toDart' = toDart
      BY <2>3, Serving DEF ServedAs
    <3>. QED
      BY <3>1 DEF InDart
  <2>4. CASE Bootstrap \/ OnListen \/ ArriveIntent \/ BringDown \/ Revoke \/ EngineDies
    <3>1. toDart' = toDart
      BY <2>4 DEF Bootstrap, OnListen, ArriveIntent, BringDown, Revoke, EngineDies
    <3>. QED
      BY <3>1 DEF InDart
  <2>. QED
    BY <2>1, <2>2, <2>3, <2>4
<1>7. \A n \in Presses : Unmoved(n)
  BY <1>4, <1>5, <1>6 DEF Unmoved, Somewhere
<1>. QED
  BY <1>7, UnmovedKept DEF LostInv

\* Every step keeps track of the calls; a new UI awaits none.
LEMMA LostStep ==
    ASSUME TypeOK, AppAssumption, CallInv, LostInv, Next
    PROVE  LostInv'
<1>1. CASE PressConnect \/ PressDisconnect
  BY <1>1, PressedFinds DEF PressConnect, PressDisconnect, Methods
<1>2. CASE \E n \in Presses : ControllerStep(n) \/ ActivityStep(n)
  BY <1>2, ReceivedFinds, HandledFinds
<1>3. CASE \E ok \in BOOLEAN : OnActivityResult(ok)
  BY <1>3, ResultedFinds
<1>4. CASE RestartUi
  BY <1>4 DEF RestartUi, LostInv, Methods
<1>5. CASE \/ Bootstrap \/ ShowRunning \/ ShowStopped \/ ShowFailed \/ OnListen
           \/ (\E i \in Id : ServiceStep(i)) \/ (\E e \in Events : DeliverEvent(e))
           \/ ArriveIntent \/ BringDown \/ Revoke \/ EngineDies
  BY <1>5, OthersFind
<1>. QED
  BY <1>1, <1>2, <1>3, <1>4, <1>5 DEF Next

\* The calls are accounted for in every reachable state.
LEMMA LostInductive == Spec => []LostInv
<1>1. Init => LostInv
  BY DEF Init, LostInv, Methods
<1>2. LostInv /\ UNCHANGED vars => LostInv'
  BY DEF vars, dartVars, activityVars, LostInv, Somewhere, InLooper, InDart, Overtaken
<1>3. IInv /\ LostInv /\ [Next]_vars => LostInv'
  BY <1>2, LostStep, AppAssumption DEF IInv, Counts
<1>. QED
  BY <1>1, <1>3, Inductive, PTL DEF Spec

-----------------------------------------------------------------------------
(* A disconnect holds *)

\* No connect() is under way.
Uncrossed == \A n \in Presses : call[n] \notin Methods \ {"disconnect"}

\* The last disconnect is still to be handled, or was refused.
Asking == \E n \in Presses : n = presses /\ (InLooper(n) \/ Has(toDart, <<"error", n>>))

\* Behind every start there is one and the same stop, and it is still to come for
\* an engine that is there.
Ending ==
    \E j \in Id : /\ \A i \in Id : Behind(<<"start", i>>, <<"stop", j>>)
                  /\ engine # "off" => Pending(<<"stop", j>>)

HoldInv == wish = "off" => Uncrossed /\ (Asking \/ Ending)

\* Only a press counts as one, and only presses, refused disconnects and new UIs
\* change what is wished.
LEMMA PressesKept ==
    ASSUME TypeOK, Next, ~PressConnect, ~PressDisconnect
    PROVE  presses' = presses /\ (wish' = "off" => wish = "off")
<1>1. CASE \E n \in Presses : ActivityStep(n)
  BY <1>1 DEF ActivityStep, OnHasPermission, OnRequestPermission, OnConnect, OnDisconnect,
              OnConnectThrows, OnDisconnectThrows, Handle, dartVars
<1>2. CASE \E ok \in BOOLEAN : OnActivityResult(ok)
  BY <1>2 DEF OnActivityResult, dartVars
<1>3. CASE \E n \in Presses : ControllerStep(n)
  BY <1>3 DEF ControllerStep, PermissionMissing, PermissionThere, ConnectReturns,
              ConnectThrows, DisconnectReturns, DisconnectThrows, Receive
<1>4. CASE \E i \in Id : ServiceStep(i)
  BY <1>4, Serving DEF ServedAs, dartVars
<1>5. CASE \/ Bootstrap \/ RestartUi \/ ShowRunning \/ ShowStopped \/ ShowFailed
           \/ OnListen \/ (\E e \in Events : DeliverEvent(e))
           \/ ArriveIntent \/ BringDown \/ Revoke \/ EngineDies
  BY <1>5 DEF Bootstrap, RestartUi, ShowRunning, ShowStopped, ShowFailed, Receive, OnListen,
              DeliverEvent, Handle, ArriveIntent, BringDown, Revoke, EngineDies, dartVars
<1>. QED
  BY <1>1, <1>2, <1>3, <1>4, <1>5 DEF Next

\* What Dart awaits is a question of a disconnect, and stays one.
LEMMA UncrossedStep ==
    ASSUME TypeOK, CallInv, Uncrossed, Next, wish' = "off", ~PressDisconnect
    PROVE  Uncrossed'
<1>1. call \in [Presses -> Awaits] /\ toDart \in Seq(DartMessages)
  BY DEF TypeOK
<1>2. ASSUME NEW n \in Presses, ControllerStep(n) PROVE Uncrossed'
  <2>1. ~PermissionMissing(n)
    <3>1. SUFFICES ASSUME toDart # <<>>, Head(toDart) = <<"false", n>> PROVE call[n] = "hasPermission"
      BY DEF PermissionMissing, Receive, Uncrossed, Methods
    <3>2. Has(toDart, <<"false", n>>)
      BY <1>1, <3>1, HasTail
    <3>. QED
      BY <3>2 DEF CallInv, Placed
  <2>2. ~PermissionThere(n)
    BY DEF PermissionThere, Uncrossed, Methods
  <2>3. Return(n)
    BY <1>2, <2>1, <2>2 DEF ControllerStep, ConnectReturns, ConnectThrows, DisconnectReturns,
                            DisconnectThrows
  <2>. QED
    BY <1>1, <2>3 DEF Return, Uncrossed, Methods
<1>3. CASE call' = call
  BY <1>3 DEF Uncrossed
<1>4. CASE \E n \in Presses : ActivityStep(n)
  BY <1>3, <1>4 DEF ActivityStep, OnHasPermission, OnRequestPermission, OnConnect, OnDisconnect,
              OnConnectThrows, OnDisconnectThrows, Handle, dartVars
<1>5. CASE \E ok \in BOOLEAN : OnActivityResult(ok)
  BY <1>3, <1>5 DEF OnActivityResult, dartVars
<1>6. CASE \E i \in Id : ServiceStep(i)
  BY <1>3, <1>6, Serving DEF ServedAs, dartVars
<1>7. CASE \/ Bootstrap \/ ShowRunning \/ ShowStopped \/ ShowFailed
           \/ OnListen \/ (\E e \in Events : DeliverEvent(e))
           \/ ArriveIntent \/ BringDown \/ Revoke \/ EngineDies
  BY <1>3, <1>7 DEF Bootstrap, ShowRunning, ShowStopped, ShowFailed, OnListen, DeliverEvent, Handle,
              ArriveIntent, BringDown, Revoke, EngineDies, dartVars
<1>8. ~PressConnect /\ ~RestartUi
  BY DEF PressConnect, Press, RestartUi
<1>. QED
  BY <1>2, <1>4, <1>5, <1>6, <1>7, <1>8 DEF Next

\* Without a connect() under way nothing sends a start.
LEMMA OnlyStops ==
    ASSUME TypeOK, CallInv, Uncrossed, \/ QuietStep /\ ~BringDown
                                       \/ \E e \in Events : DeliverEvent(e)
    PROVE  UNCHANGED ams \/ SendIntent("stop")
<1>1. ASSUME NEW n \in Presses, ActivityStep(n) PROVE UNCHANGED ams \/ SendIntent("stop")
  <2>1. ~OnConnect(n)
    <3>1. SUFFICES ASSUME looper # <<>>, Head(looper) = <<"connect", n>> PROVE call[n] = "connect"
      BY DEF OnConnect, Handle, Uncrossed, Methods
    <3>2. Has(looper, <<"connect", n>>)
      BY <3>1, HasTail DEF TypeOK
    <3>. QED
      BY <3>2 DEF CallInv, Placed, Methods
  <2>. QED
    BY <1>1, <2>1 DEF ActivityStep, OnHasPermission, OnRequestPermission, OnDisconnect,
                      OnConnectThrows, OnDisconnectThrows, serviceVars
<1>2. CASE \E ok \in BOOLEAN : OnActivityResult(ok)
  <2>1. ~pendingStart
    <3>1. SUFFICES ASSUME pendingStart, pending \in Presses PROVE call[pending] = "connect"
      BY DEF CallInv, TypeOK, Uncrossed, Methods
    <3>. QED
      BY <3>1 DEF CallInv, Placed
  <2>. QED
    BY <1>2, <2>1 DEF OnActivityResult, serviceVars
<1>3. CASE \E n \in Presses : ControllerStep(n)
  BY <1>3 DEF ControllerStep, PermissionMissing, PermissionThere, ConnectReturns,
              ConnectThrows, DisconnectReturns, DisconnectThrows, Receive, serviceVars
<1>4. CASE \/ Bootstrap \/ PressConnect \/ PressDisconnect \/ RestartUi
           \/ ShowRunning \/ ShowStopped \/ ShowFailed
           \/ OnListen \/ Revoke \/ EngineDies \/ \E e \in Events : DeliverEvent(e)
  BY <1>4 DEF Bootstrap, PressConnect, PressDisconnect, Press, RestartUi, ShowRunning,
              ShowStopped, ShowFailed, Receive, OnListen, Revoke, EngineDies, DeliverEvent, serviceVars
<1>. QED
  BY <1>1, <1>2, <1>3, <1>4 DEF QuietStep

\* A stop that is sent is behind every start (MainActivity.kt:52-57).
LEMMA StopSent ==
    ASSUME TypeOK, TypeOK', SendIntent("stop")
    PROVE  Ending'
<1>1. PICK j \in Id : j = instance'
  BY DEF TypeOK
<1>. DEFINE x == <<"stop", j>>
<1>2. ams' = Append(ams, x) /\ x \in IntentMessages
  BY <1>1 DEF SendIntent, IntentMessages, Intents
<1>3. \A i \in Id : x # <<"start", i>>
  OBVIOUS
<1>. HIDE DEF x
<1>4. Has(ams', x)
  BY <1>2, HasAppend DEF TypeOK
<1>5. \A i \in Id : Followed(ams', <<"start", i>>, x)
  BY <1>2, <1>3, FollowedAppend DEF TypeOK
<1>6. /\ \A i \in Id : Behind(<<"start", i>>, <<"stop", j>>)'
      /\ Pending(<<"stop", j>>)'
  BY <1>4, <1>5 DEF Behind, Pending, x
<1>. QED
  BY <1>6 DEF Ending

\* While nobody connects, the engine's end stays sealed.
LEMMA EndingStep ==
    ASSUME TypeOK, TypeOK', AppAssumption, CallInv, Uncrossed, Ending, Next
    PROVE  Ending'
<1>1. /\ looper \in Seq(LooperMessages) /\ ams \in Seq(IntentMessages)
      /\ \A op \in Intents, i \in Id : <<op, i>> \in IntentMessages
      /\ "start" \in Intents /\ "stop" \in Intents /\ "destroy" \in Intents
  BY MessageSets DEF TypeOK, Intents
<1>2. PICK j \in Id : /\ \A i \in Id : Behind(<<"start", i>>, <<"stop", j>>)
                      /\ engine # "off" => Pending(<<"stop", j>>)
  BY DEF Ending
<1>. DEFINE p == <<"stop", j>>
<1>3. SUFFICES ASSUME ~SendIntent("stop")
               PROVE  /\ \A i \in Id : Behind(<<"start", i>>, p)'
                      /\ engine' # "off" => Pending(p)'
  BY StopSent DEF Ending
<1>4. p \in IntentMessages /\ \A i \in Id : p # <<"start", i>>
  BY <1>1
<1>5. CASE ArriveIntent
  <2>1. \A i \in Id : Behind(<<"start", i>>, p)'
    BY <1>2, <1>4, <1>5, BehindArrives
  <2>2. /\ Head(ams) \in LooperMessages /\ looper' = Append(looper, Head(ams))
        /\ ams # <<>> /\ ams' = Tail(ams) /\ engine' = engine
    BY <1>1, <1>5, MessageSets DEF ArriveIntent
  <2>3. Pending(p) => Pending(p)'
    BY <1>1, <2>2, HasAppend, HasTail DEF Pending
  <2>. QED
    BY <1>2, <2>1, <2>2, <2>3
<1>6. CASE \E i \in Id : ServiceStep(i)
  <2>1. PICK k \in Id, op \in Intents, posts \in Seq(EventMessages) : ServedAs(op, k, posts)
    BY <1>6, Serving
  <2>2. \A i \in Id : Behind(<<"start", i>>, p)'
    BY <1>1, <1>2, <2>1, BehindServed
  <2>3. ASSUME engine' # "off" PROVE Pending(p)'
    <3>1. op = "start"
      BY <2>1, <2>3 DEF ServedAs
    <3>. QED
      BY <1>2, <2>1, <3>1, ServedLeaves
  <2>. QED
    BY <2>2, <2>3
<1>7. CASE BringDown
  <2>1. PICK k \in Id : k = instance
    BY DEF TypeOK
  <2>2. /\ ams' = Append(ams, <<"destroy", k>>) /\ <<"destroy", k>> \in IntentMessages
        /\ looper' = looper /\ engine' = engine
    BY <1>1, <1>7, <2>1 DEF BringDown
  <2>3. \A m : Has(ams, m) => Has(ams', m)
    BY <1>1, <2>2, HasAppend
  <2>4. \A i \in Id : Followed(ams', <<"start", i>>, p)
    BY <1>1, <1>2, <2>2, FollowedAppend DEF Behind
  <2>5. \A i \in Id : Behind(<<"start", i>>, p)'
    BY <1>2, <2>2, <2>3, <2>4 DEF Behind
  <2>6. Pending(p) => Pending(p)'
    BY <2>2, <2>3 DEF Pending
  <2>. QED
    BY <1>2, <2>2, <2>5, <2>6
<1>8. CASE /\ (QuietStep /\ ~BringDown) \/ \E e \in Events : DeliverEvent(e)
           /\ ~ \E i \in Id : ServiceStep(i)
  <2>1. Same(looper, looper', IntentMessages)
    BY <1>8, IntentsLeft
  <2>2. ams' = ams
    BY <1>3, <1>8, OnlyStops
  <2>3. engine' # "off" => engine # "off"
    BY <1>8, EngineKept DEF EngineDies
  <2>4. \A i \in Id : Behind(<<"start", i>>, p)'
    BY <1>1, <1>2, <1>4, <2>1, <2>2 DEF Same, Behind
  <2>5. Pending(p) => Pending(p)'
    BY <1>4, <2>1, <2>2 DEF Same, Pending
  <2>. QED
    BY <1>2, <2>3, <2>4, <2>5
<1>. QED
  BY <1>5, <1>6, <1>7, <1>8, NextSplit

\* The disconnect is handled, and sends its stop, or is refused, and Dart is told.
LEMMA AskingStep ==
    ASSUME TypeOK, TypeOK', AppAssumption, CallInv, Uncrossed, Asking, Next,
           wish' = "off", ~PressDisconnect
    PROVE  Asking' \/ Ending'
<1>1. /\ looper \in Seq(LooperMessages) /\ toDart \in Seq(DartMessages)
      /\ call \in [Presses -> Awaits]
  BY DEF TypeOK
<1>2. PICK n \in Presses : n = presses /\ (InLooper(n) \/ Has(toDart, <<"error", n>>))
  BY DEF Asking
<1>3. ~PressConnect /\ ~RestartUi
  BY DEF PressConnect, Press, RestartUi
<1>4. presses' = presses
  BY <1>3, PressesKept
<1>. DEFINE e == <<"error", n>>
<1>5. e \in DartMessages /\ e \in Answers(n) /\ e \notin EventMessages
  BY MessageSets DEF Answers, Results
<1>6. Has(toDart', e) => Asking'
  BY <1>2, <1>4 DEF Asking
<1>7. CASE InLooper(n)
  <2>1. PICK op \in Methods : Has(looper, <<op, n>>)
    BY <1>7 DEF InLooper, Asks
  <2>2. op = "disconnect"
    BY <2>1 DEF CallInv, Placed, Uncrossed
  <2>3. CASE Has(looper', <<op, n>>)
    BY <1>2, <1>4, <2>3 DEF Asking, InLooper, Asks
  <2>4. CASE Handle(op, n) /\ ActivityStep(n)
    <3>1. OnDisconnect(n) \/ OnDisconnectThrows(n)
      <4>1. Head(looper)[1] = "disconnect"
        BY <2>2, <2>4 DEF Handle
      <4>2. \A o \in Methods : Handle(o, n) => o = "disconnect"
        BY <4>1 DEF Handle
      <4>. QED
        BY <2>4, <4>2 DEF ActivityStep, OnHasPermission, OnRequestPermission, OnConnect,
                          OnConnectThrows, Methods
    <3>2. CASE OnDisconnect(n)
      BY <3>2, StopSent DEF OnDisconnect
    <3>3. CASE OnDisconnectThrows(n)
      <4>1. toDart' = Append(toDart, e)
        BY <3>3 DEF OnDisconnectThrows, Reply
      <4>. QED
        BY <1>1, <1>5, <1>6, <4>1, HasAppend
    <3>. QED
      BY <3>1, <3>2, <3>3
  <2>. QED
    BY <1>3, <2>1, <2>3, <2>4, CallStays
<1>8. CASE Has(toDart, e)
  <2>1. ASSUME NEW m \in Presses, ControllerStep(m) PROVE Has(toDart', e)
    <3>1. PICK r \in Results : toDart # <<>> /\ Head(toDart) = <<r, m>> /\ toDart' = Tail(toDart)
      BY <2>1 DEF ControllerStep, PermissionMissing, PermissionThere, ConnectReturns,
                  ConnectThrows, DisconnectReturns, DisconnectThrows, Receive, Results
    <3>2. <<r, m>> # e
      <4>1. SUFFICES ASSUME r = "error", m = n PROVE FALSE
        OBVIOUS
      <4>2. call[n] = "disconnect"
        BY <1>5, <1>8 DEF CallInv, Placed, InDart, Uncrossed
      <4>3. ~DisconnectThrows(n)
        BY <1>2 DEF DisconnectThrows
      <4>. QED
        BY <2>1, <3>1, <4>1, <4>2, <4>3 DEF ControllerStep, PermissionMissing, PermissionThere,
              ConnectReturns, ConnectThrows, DisconnectReturns, Receive
    <3>. QED
      BY <1>1, <1>8, <3>1, <3>2, HasTail
  <2>2. CASE ShowRunning \/ ShowStopped \/ ShowFailed
    <3>1. toDart # <<>> /\ Head(toDart) \in {Running, Stopped, Failed} /\ toDart' = Tail(toDart)
      BY <2>2 DEF ShowRunning, ShowStopped, ShowFailed, Receive, Running, Stopped, Failed
    <3>2. Head(toDart) # e
      BY <1>5, <3>1, MessageSets
    <3>. QED
      BY <1>1, <1>6, <1>8, <3>1, <3>2, HasTail
  <2>3. CASE toDart' = toDart \/ \E x \in DartMessages : toDart' = Append(toDart, x)
    <3>1. CASE toDart' = toDart
      BY <1>6, <1>8, <3>1
    <3>2. CASE \E x \in DartMessages : toDart' = Append(toDart, x)
      <4>1. PICK x \in DartMessages : toDart' = Append(toDart, x)
        BY <3>2
      <4>2. Has(Append(toDart, x), e)
        BY <1>1, <1>8, HasAppend
      <4>. QED
        BY <1>6, <4>1, <4>2
    <3>. QED
      BY <2>3, <3>1, <3>2
  <2>4. CASE \E m \in Presses : ActivityStep(m)
    <3>1. PICK m \in Presses : ActivityStep(m)
      BY <2>4
    <3>2. toDart' = toDart \/ \E r \in Results : toDart' = Append(toDart, <<r, m>>)
      BY <3>1 DEF ActivityStep, OnHasPermission, OnRequestPermission, OnConnect, OnDisconnect,
                  OnConnectThrows, OnDisconnectThrows, Reply, Results
    <3>3. \A r \in Results : <<r, m>> \in DartMessages
      BY DEF DartMessages
    <3>. QED
      BY <2>3, <3>2, <3>3
  <2>5. CASE \E ok \in BOOLEAN : OnActivityResult(ok)
    <3>1. \/ toDart' = toDart
          \/ pending # None /\ \E r \in {"true", "error"} : toDart' = Append(toDart, <<r, pending>>)
      BY <2>5 DEF OnActivityResult, Reply
    <3>2. pending # None => \A r \in {"true", "error"} : <<r, pending>> \in DartMessages
      BY DEF TypeOK, DartMessages, Results
    <3>. QED
      BY <2>3, <3>1, <3>2
  <2>6. CASE \E x \in Events : DeliverEvent(x)
    <3>1. PICK x \in Events : DeliverEvent(x)
      BY <2>6
    <3>2. toDart' = toDart \/ toDart' = Append(toDart, <<x, None>>)
      BY <3>1, Delivered
    <3>3. <<x, None>> \in DartMessages
      BY MessageSets DEF EventMessages
    <3>. QED
      BY <2>3, <3>2, <3>3
  <2>7. CASE \E i \in Id : ServiceStep(i)
    <3>1. toDart' = toDart
      BY <2>7, Serving DEF ServedAs
    <3>. QED
      BY <2>3, <3>1
  <2>8. CASE Bootstrap \/ OnListen \/ ArriveIntent \/ BringDown \/ Revoke \/ EngineDies
    BY <2>3, <2>8 DEF Bootstrap, OnListen, ArriveIntent, BringDown, Revoke, EngineDies
  <2>. QED
    BY <1>3, <1>6, <2>1, <2>2, <2>4, <2>5, <2>6, <2>7, <2>8 DEF Next
<1>. QED
  BY <1>2, <1>7, <1>8

\* The press itself: nothing else is under way, and it is in the queue.
LEMMA Disconnecting ==
    ASSUME TypeOK, AppAssumption, PressDisconnect, wish' = "off"
    PROVE  Uncrossed' /\ Asking'
<1>1. PICK n \in Presses : n = presses + 1
  BY DEF PressDisconnect, Press, Presses, TypeOK, AppAssumption
<1>2. /\ call' = [call EXCEPT ![n] = "disconnect"]
      /\ looper' = Append(looper, <<"disconnect", n>>) /\ presses' = n
  BY <1>1 DEF PressDisconnect, Press, Invoke
<1>3. ~ \E m \in Presses : call[m] \in Methods \ {"disconnect"}
  BY DEF PressDisconnect, Press
<1>4. Uncrossed'
  BY <1>2, <1>3 DEF Uncrossed, TypeOK
<1>5. <<"disconnect", n>> \in LooperMessages /\ <<"disconnect", n>> \in Asks(n)
  BY DEF LooperMessages, Asks, Methods
<1>6. Has(looper', <<"disconnect", n>>)
  BY <1>2, <1>5, HasAppend DEF TypeOK
<1>. QED
  BY <1>2, <1>4, <1>5, <1>6 DEF Asking, InLooper, Asks

\* Every step keeps it.
LEMMA HoldStep ==
    ASSUME TypeOK, TypeOK', AppAssumption, CallInv, HoldInv, Next
    PROVE  HoldInv'
<1>. SUFFICES ASSUME wish' = "off" PROVE Uncrossed' /\ (Asking' \/ Ending')
  BY DEF HoldInv
<1>1. CASE PressDisconnect
  BY <1>1, Disconnecting
<1>2. CASE ~PressDisconnect
  <2>1. wish = "off"
    BY <1>2, PressesKept DEF PressConnect, Press
  <2>2. Uncrossed /\ (Asking \/ Ending)
    BY <2>1 DEF HoldInv
  <2>. QED
    BY <1>2, <2>2, UncrossedStep, AskingStep, EndingStep
<1>. QED
  BY <1>1, <1>2

\* The seal holds in every reachable state.
LEMMA HoldInductive == Spec => []HoldInv
<1>1. Init => HoldInv
  BY DEF Init, HoldInv
<1>2. HoldInv /\ UNCHANGED vars => HoldInv'
  BY DEF vars, dartVars, activityVars, serviceVars, HoldInv, Uncrossed, Asking, Ending, InLooper,
         Behind, Pending
<1>3. IInv /\ IInv' /\ HoldInv /\ [Next]_vars => HoldInv'
  BY <1>2, HoldStep, AppAssumption DEF IInv, Counts
<1>. QED
  BY <1>1, <1>3, Inductive, PTL DEF Spec

-----------------------------------------------------------------------------
(* What it says of quiet states *)

\* In a quiet state every queue is empty.
LEMMA QuietHasNothing ==
    ASSUME Quiet
    PROVE  \A m : ~Has(looper, m) /\ ~Has(toDart, m) /\ ~Has(ams, m)
BY DEF Quiet, Has

\* A call that is in one place, once, is answered at most once.
LEMMA AnsweredOnce ==
    ASSUME TypeOK, CallInv
    PROVE  CallsAnsweredOnce
<1>. SUFFICES ASSUME NEW n \in Presses
              PROVE  Cardinality(Asked(n)) + Cardinality(Answered(n)) + Cardinality(Held(n))
                         <= IF call[n] \in Methods THEN 1 ELSE 0
  BY DEF CallsAnsweredOnce
<1>1. looper \in Seq(LooperMessages) /\ toDart \in Seq(DartMessages)
  BY DEF TypeOK
<1>2. Placed(n)
  BY DEF CallInv
<1>3. \A k \in Asked(n) : k \in 1..Len(looper) /\ looper[k] \in Asks(n)
  <2>. SUFFICES ASSUME NEW k \in 1..Len(looper), looper[k][1] \in Methods, looper[k][2] = n
                PROVE  looper[k] \in Asks(n)
    BY <1>1 DEF Asked
  <2>1. looper[k] \in LooperMessages
    BY <1>1
  <2>. QED
    BY <2>1 DEF Asks, LooperMessages, IntentMessages, EventMessages, Intents, Events, Methods
<1>4. \A k \in Answered(n) : k \in 1..Len(toDart) /\ toDart[k] \in Answers(n)
  <2>. SUFFICES ASSUME NEW k \in 1..Len(toDart), toDart[k][2] = n
                PROVE  toDart[k] \in Answers(n)
    BY <1>1 DEF Answered
  <2>1. toDart[k] \in DartMessages
    BY <1>1
  <2>. QED
    BY <2>1 DEF Answers, DartMessages, EventMessages, None, Presses
<1>5. ASSUME NEW A, \A j, k \in A : j = k PROVE A = {} \/ \E k : A = {k}
  <2>1. \A k \in A : A = {k}
    BY <1>5
  <2>. QED
    BY <2>1
<1>6. ASSUME NEW A, A = {} \/ \E k : A = {k}
      PROVE  Cardinality(A) \in {0, 1} /\ (A = {} => Cardinality(A) = 0)
  BY <1>6, FS_EmptySet, FS_Singleton
<1>7. /\ Asked(n) = {} \/ \E k : Asked(n) = {k}
      /\ Asked(n) = {} \/ InLooper(n)
  <2>1. \A j, k \in Asked(n) : j = k
    BY <1>2, <1>3 DEF Placed, Once
  <2>2. Asked(n) = {} \/ InLooper(n)
    BY <1>3 DEF InLooper, Has
  <2>. QED
    BY <1>5, <2>1, <2>2
<1>8. /\ Answered(n) = {} \/ \E k : Answered(n) = {k}
      /\ Answered(n) = {} \/ InDart(n)
  <2>1. \A j, k \in Answered(n) : j = k
    BY <1>2, <1>4 DEF Placed, Once
  <2>2. Answered(n) = {} \/ InDart(n)
    BY <1>4 DEF InDart, Has
  <2>. QED
    BY <1>5, <2>1, <2>2
<1>9. Held(n) = IF pending = n THEN {n} ELSE {}
  BY DEF Held
<1>10. /\ Cardinality(Asked(n)) \in {0, 1} /\ (Asked(n) = {} => Cardinality(Asked(n)) = 0)
       /\ Cardinality(Answered(n)) \in {0, 1} /\ (Answered(n) = {} => Cardinality(Answered(n)) = 0)
       /\ Cardinality(Held(n)) \in {0, 1} /\ (Held(n) = {} => Cardinality(Held(n)) = 0)
  BY <1>6, <1>7, <1>8, <1>9
<1>11. InLooper(n) => call[n] \in Methods /\ ~InDart(n) /\ pending # n
  BY <1>2 DEF Placed, InLooper, Asks
<1>12. InDart(n) => call[n] \in Methods /\ pending # n
  BY <1>2 DEF Placed
<1>13. pending = n => call[n] \in Methods
  BY <1>2 DEF Placed, Methods
<1>. QED
  BY <1>7, <1>8, <1>9, <1>10, <1>11, <1>12, <1>13

\* The variables keep their types: no more dialogs are open, and no more service
\* instances are made, than buttons were pressed.
THEOREM TypeCorrect == Spec => []TypeOK
<1>1. IInv => TypeOK
  BY DEF IInv
<1>. QED
  BY <1>1, Inductive, PTL

\* "connected" is never left on the screen without an engine (vpn_state.dart:108-115):
\* running:false is behind every running:true.
THEOREM ConnectedTrue == Spec => []ConnectedIsTrue
<1>1. IInv => ConnectedIsTrue
  BY QuietHasNothing DEF IInv, OffInv, ConnectedIsTrue
<1>. QED
  BY <1>1, Inductive, PTL

\* A running engine is shown once everything is delivered, by a UI made anew too as
\* soon as its button was pressed: running:true is the last the screen learns, or the
\* error of a call that sent no intent (vpn_state.dart:101-103, 169-171, 179-181).
THEOREM EngineShown == Spec => []EngineIsShown
<1>1. ASSUME IInv, Quiet PROVE ~Doomed /\ ~Resolving
  BY <1>1, QuietHasNothing DEF Quiet, Doomed, Pending, Resolving, InLooper
<1>2. IInv => EngineIsShown
  BY <1>1, QuietHasNothing DEF IInv, UpInv, Heard, EngineIsShown
<1>. QED
  BY <1>2, Inductive, PTL

\* The engine does not outlive its foreground service, whatever intents cross a
\* stopSelf() (FfVpnService.kt:132-148, 184-187).
THEOREM EngineServed == Spec => []EngineHasService
<1>1. IInv => EngineHasService
  BY QuietHasNothing DEF IInv, TypeOK, ServiceInvs, ServiceInv, Pending, EngineHasService, Quiet
<1>. QED
  BY <1>1, Inductive, PTL

\* An engine does not survive the loss of the VPN permission.
THEOREM RevokedOff == Spec => []RevokedIsOff
<1>1. IInv => RevokedIsOff
  BY QuietHasNothing DEF IInv, ServiceInvs, RevokeInv, Pending, RevokedIsOff, Quiet
<1>. QED
  BY <1>1, Inductive, PTL

\* A channel call is answered at most once, and only while it is awaited
\* (MainActivity.kt:33, 44, 75-90).
THEOREM AnsweredAtMostOnce == Spec => []CallsAnsweredOnce
<1>1. IInv => CallsAnsweredOnce
  BY AnsweredOnce DEF IInv, Counts
<1>. QED
  BY <1>1, Inductive, PTL

\* A disconnect that no connect() crossed, and that was not refused, leaves no engine
\* (vpn_state.dart:174-182, MainActivity.kt:52-57, 72-91, FfVpnService.kt:132-148):
\* its stop is behind every start there is, and no other start can be sent.
THEOREM DisconnectIsHeld == Spec => []DisconnectHolds
<1>1. ASSUME Quiet PROVE ~Asking /\ (Ending => engine = "off")
  BY <1>1, QuietHasNothing DEF Asking, InLooper, Ending, Pending
<1>2. HoldInv => DisconnectHolds
  BY <1>1 DEF HoldInv, DisconnectHolds
<1>. QED
  BY <1>2, HoldInductive, PTL

\* An awaited call that is nowhere to be found waited for the user, and the dialog of
\* another press took the place of its result; nothing else loses one
\* (MainActivity.kt:33, 44, 72-91).
THEOREM NoCallIsLost == Spec => []CallsAreNotLost
<1>1. ASSUME NEW n \in Presses PROVE Somewhere(n) => Asked(n) \cup Answered(n) \cup Held(n) # {}
  <2>1. ASSUME InLooper(n) PROVE Asked(n) # {}
    <3>1. PICK k \in 1..Len(looper) : looper[k] \in Asks(n)
      BY <2>1 DEF InLooper, Has
    <3>2. k \in Asked(n)
      BY <3>1 DEF Asked, Asks
    <3>. QED
      BY <3>2
  <2>2. ASSUME InDart(n) PROVE Answered(n) # {}
    <3>1. PICK k \in 1..Len(toDart) : toDart[k] \in Answers(n)
      BY <2>2 DEF InDart, Has
    <3>2. k \in Answered(n)
      BY <3>1 DEF Answered, Answers
    <3>. QED
      BY <3>2
  <2>. QED
    BY <2>1, <2>2 DEF Somewhere, Held
<1>2. LostInv => CallsAreNotLost
  BY <1>1 DEF LostInv, Overtaken, CallsAreNotLost
<1>. QED
  BY <1>2, LostInductive, PTL
=================================================================================
