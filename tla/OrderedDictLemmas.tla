---- MODULE OrderedDictLemmas ----
(****************************************************************************)
(* What the operations of OrderedDicts return: they keep an order an order, *)
(* bound its length, and move no key before another except the one they     *)
(* make the newest.  Loops are defined by CHOOSE, or by a function that     *)
(* refers to itself, which is CHOOSE as well; what is chosen exists.        *)
(****************************************************************************)
EXTENDS OrderedDicts, SequenceTheorems, FiniteSetTheorems, TLAPS

\* An order is a sequence of distinct keys, read position by position.
LEMMA OrderElements ==
  ASSUME NEW K, NEW order \in Orders(K)
  PROVE  /\ order \in Seq(K) /\ Len(order) \in Nat
         /\ DOMAIN order = 1 .. Len(order)
         /\ \A i \in 1 .. Len(order) : order[i] \in K
         /\ \A i, j \in 1 .. Len(order) : order[i] = order[j] => i = j
         /\ ToSet(order) = {order[i] : i \in 1 .. Len(order)}
         /\ ToSet(order) \subseteq K
<1>1. order \in Seq(K) /\ \A i, j \in DOMAIN order : order[i] = order[j] => i = j
  BY DEF Orders, IsInjective
<1>2. Len(order) \in Nat /\ DOMAIN order = 1 .. Len(order)
  BY <1>1
<1>3. \A i \in 1 .. Len(order) : order[i] \in K
  BY <1>1
<1> QED
  BY <1>1, <1>2, <1>3 DEF ToSet

\* A sequence without repetitions is an order.
LEMMA OrderIntro ==
  ASSUME NEW K, NEW s \in Seq(K),
         \A i, j \in 1 .. Len(s) : s[i] = s[j] => i = j
  PROVE  s \in Orders(K)
<1>1. DOMAIN s = 1 .. Len(s)
  OBVIOUS
<1> QED
  BY <1>1 DEF Orders, IsInjective

\* The empty dictionary.
LEMMA EmptyOrder ==
  ASSUME NEW K
  PROVE  <<>> \in Orders(K) /\ ToSet(<<>>) = {} /\ Len(<<>>) = 0
<1>1. <<>> \in Seq(K) /\ Len(<<>>) = 0
  OBVIOUS
<1>2. ToSet(<<>>) = {}
  BY <1>1 DEF ToSet
<1>3. \A i, j \in DOMAIN <<>> : <<>>[i] = <<>>[j] => i = j
  OBVIOUS
<1> QED
  BY <1>1, <1>2, <1>3 DEF Orders, IsInjective

\* The loop that drops stale elements from the front stops: some number of
\* elements is as LeadingCount says.
LEMMA LeadingCountExists ==
  ASSUME NEW S, NEW s \in Seq(S), NEW stale
  PROVE  /\ LeadingCount(s, stale) \in 0 .. Len(s)
         /\ \A i \in 1 .. LeadingCount(s, stale) : s[i] \in stale
         /\ LeadingCount(s, stale) < Len(s) => s[LeadingCount(s, stale) + 1] \notin stale
<1> DEFINE Stops(n) == n < Len(s) => s[n + 1] \notin stale
           Stop == {n \in 0 .. Len(s) : Stops(n)}
<1>0. Len(s) \in Nat
  OBVIOUS
<1>1. Stop \subseteq Nat /\ Stop # {}
  <2>1. Len(s) \in Stop
    BY <1>0
  <2> QED
    BY <1>0, <2>1
<1>2. PICK n \in Stop : \A m \in Stop : ~ (<<m, n>> \in OpToRel(<, Nat))
  BY <1>1, WFMin, NatLessThanWellFounded
<1>3. \A m \in Stop : ~ (m < n)
  BY <1>1, <1>2 DEF OpToRel
<1>4. \A i \in 1 .. n : s[i] \in stale
  <2> SUFFICES ASSUME NEW i \in 1 .. n, s[i] \notin stale
               PROVE  FALSE
    OBVIOUS
  <2>1. i - 1 \in 0 .. Len(s) /\ (i - 1) + 1 = i /\ i - 1 < n
    BY <1>0, <1>1
  <2>2. i - 1 \in Stop
    BY <2>1
  <2> QED
    BY <2>1, <2>2, <1>3
<1>5. \E k \in 0 .. Len(s) : /\ \A i \in 1 .. k : s[i] \in stale
                             /\ k < Len(s) => s[k + 1] \notin stale
  BY <1>2, <1>4
<1> QED
  BY <1>5 DEF LeadingCount

\* A final segment of an order is an order of some of its keys, as they stood.
LEMMA SuffixOfOrder ==
  ASSUME NEW K, NEW order \in Orders(K), NEW n \in 0 .. Len(order)
  PROVE  LET rest == SubSeq(order, n + 1, Len(order))
         IN  /\ rest \in Orders(K) /\ Len(rest) = Len(order) - n
             /\ \A i \in 1 .. Len(rest) : rest[i] = order[i + n]
             /\ ToSet(rest) \subseteq ToSet(order)
             /\ \A a, b : Precedes(rest, a, b) => Precedes(order, a, b)
<1> DEFINE rest == SubSeq(order, n + 1, Len(order))
<1>0. /\ order \in Seq(K) /\ Len(order) \in Nat
      /\ DOMAIN order = 1 .. Len(order)
      /\ \A i, j \in 1 .. Len(order) : order[i] = order[j] => i = j
  BY OrderElements
<1>1. rest \in Seq(K) /\ Len(rest) = Len(order) - n /\ DOMAIN rest = 1 .. Len(rest)
  <2>1. n + 1 \in Int /\ Len(order) \in Int
    BY <1>0
  <2>2. \A i \in n + 1 .. Len(order) : order[i] \in K
    BY <1>0
  <2>3. rest \in Seq(K) /\ Len(rest) = IF n + 1 <= Len(order) THEN Len(order) - (n + 1) + 1 ELSE 0
    BY <2>1, <2>2, SubSeqProperties
  <2> HIDE DEF rest
  <2>4. Len(order) \in Nat /\ n \in Nat /\ n <= Len(order)
    BY <1>0
  <2>5. Len(rest) = Len(order) - n
    BY <2>3, <2>4
  <2> QED
    BY <2>3, <2>5
<1>2. \A i \in 1 .. Len(rest) : rest[i] = order[i + n] /\ i + n \in 1 .. Len(order)
  <2>1. n + 1 \in Int /\ Len(order) \in Int
    BY <1>0
  <2>2. \A i \in n + 1 .. Len(order) : order[i] \in K
    BY <1>0
  <2>3. \A i \in 1 .. Len(order) - (n + 1) + 1 : rest[i] = order[(n + 1) + i - 1]
    BY <2>1, <2>2, SubSeqProperties
  <2> HIDE DEF rest
  <2>4. Len(order) \in Nat /\ n \in Nat /\ n <= Len(order)
    BY <1>0
  <2> QED
    BY <2>3, <2>4, <1>1
<1> HIDE DEF rest
<1>3. rest \in Orders(K)
  <2>1. \A i, j \in 1 .. Len(rest) : rest[i] = rest[j] => i = j
    BY <1>0, <1>1, <1>2
  <2> QED
    BY <1>1, <2>1, OrderIntro
<1>4. ToSet(rest) \subseteq ToSet(order)
  <2>1. /\ ToSet(rest) = {rest[i] : i \in 1 .. Len(rest)}
        /\ ToSet(order) = {order[i] : i \in 1 .. Len(order)}
    BY <1>0, <1>1 DEF ToSet
  <2> QED
    BY <2>1, <1>2
<1>5. ASSUME NEW a, NEW b, Precedes(rest, a, b)
      PROVE  Precedes(order, a, b)
  <2>1. PICK i \in 1 .. Len(rest), j \in 1 .. Len(rest) : i < j /\ rest[i] = a /\ rest[j] = b
    BY <1>5, <1>1 DEF Precedes
  <2>2. i + n < j + n /\ order[i + n] = a /\ order[j + n] = b
    BY <2>1, <1>2
  <2> QED
    BY <2>2, <1>2, <1>0 DEF Precedes
<1> QED
  BY <1>1, <1>2, <1>3, <1>4, <1>5 DEF rest

\* Dropping the stale keys from the front takes a prefix of stale keys and
\* stops before the first that is not.
LEMMA DropLeadingOrder ==
  ASSUME NEW K, NEW order \in Orders(K), NEW stale
  PROVE  LET rest == DropLeading(order, stale)
         IN  /\ rest \in Orders(K) /\ Len(rest) <= Len(order)
             /\ ToSet(rest) \subseteq ToSet(order)
             /\ \A a, b : Precedes(rest, a, b) => Precedes(order, a, b)
             /\ \A k \in ToSet(order) : k \notin stale => k \in ToSet(rest)
             /\ rest # <<>> => rest[1] \notin stale
<1> DEFINE n == LeadingCount(order, stale)
           rest == DropLeading(order, stale)
<1>0. /\ order \in Seq(K) /\ Len(order) \in Nat
      /\ ToSet(order) = {order[i] : i \in 1 .. Len(order)}
  BY OrderElements
<1>1. /\ n \in 0 .. Len(order)
      /\ \A i \in 1 .. n : order[i] \in stale
      /\ n < Len(order) => order[n + 1] \notin stale
  BY <1>0, LeadingCountExists
<1>2. rest = SubSeq(order, n + 1, Len(order))
  BY DEF DropLeading
<1> HIDE DEF n, rest
<1>3. /\ rest \in Orders(K) /\ Len(rest) = Len(order) - n
      /\ \A i \in 1 .. Len(rest) : rest[i] = order[i + n]
      /\ ToSet(rest) \subseteq ToSet(order)
      /\ \A a, b : Precedes(rest, a, b) => Precedes(order, a, b)
  BY <1>1, <1>2, SuffixOfOrder
<1>4. rest \in Seq(K) /\ ToSet(rest) = {rest[i] : i \in 1 .. Len(rest)}
  BY <1>3, OrderElements
<1>5. ASSUME NEW k \in ToSet(order), k \notin stale
      PROVE  k \in ToSet(rest)
  <2>1. PICK i \in 1 .. Len(order) : order[i] = k
    BY <1>0
  <2>2. i - n \in 1 .. Len(rest) /\ rest[i - n] = k
    <3>1. ~ (i \in 1 .. n)
      BY <2>1, <1>1, <1>5
    <3>2. i - n \in 1 .. Len(rest) /\ (i - n) + n = i
      BY <3>1, <1>0, <1>1, <1>3
    <3> QED
      BY <3>2, <2>1, <1>3
  <2> QED
    BY <2>2, <1>4
<1>6. ASSUME rest # <<>>
      PROVE  rest[1] \notin stale
  <2>1. Len(rest) # 0
    BY <1>4, <1>6
  <2>2. n < Len(order) /\ rest[1] = order[n + 1]
    BY <2>1, <1>0, <1>1, <1>3
  <2> QED
    BY <2>2, <1>1
<1>7. Len(rest) <= Len(order)
  BY <1>0, <1>1, <1>3
<1> QED
  BY <1>3, <1>5, <1>6, <1>7 DEF rest

\* Where the keys are in the order of their times, the loop that drops those of up
\* to c from the front drops all of them, although it stops at the first that is later.
LEMMA DropLeadingByTime ==
  ASSUME NEW K, NEW order \in Orders(K), NEW t, NEW c \in Int,
         \A k \in ToSet(order) : t[k] \in Int,
         \A a, b \in ToSet(order) : Precedes(order, a, b) => t[a] <= t[b]
  PROVE  ToSet(DropLeading(order, {k \in ToSet(order) : t[k] <= c}))
           = {k \in ToSet(order) : t[k] > c}
<1> DEFINE stale == {k \in ToSet(order) : t[k] <= c}
           rest == DropLeading(order, stale)
<1> HIDE DEF stale
<1>1. /\ rest \in Orders(K) /\ ToSet(rest) \subseteq ToSet(order)
      /\ \A a, b : Precedes(rest, a, b) => Precedes(order, a, b)
      /\ \A k \in ToSet(order) : k \notin stale => k \in ToSet(rest)
      /\ rest # <<>> => rest[1] \notin stale
  BY DropLeadingOrder
<1> HIDE DEF rest
<1>2. /\ rest \in Seq(K) /\ Len(rest) \in Nat /\ DOMAIN rest = 1 .. Len(rest)
      /\ ToSet(rest) = {rest[i] : i \in 1 .. Len(rest)}
  BY <1>1, OrderElements
<1>3. ASSUME NEW k \in ToSet(rest)
      PROVE  t[k] > c
  <2>1. PICK i \in 1 .. Len(rest) : rest[i] = k
    BY <1>2
  <2>2. 1 \in 1 .. Len(rest) /\ rest # <<>>
    BY <1>2, <2>1
  <2>3. rest[1] \in ToSet(order) /\ rest[1] \notin stale /\ k \in ToSet(order)
    BY <1>1, <1>2, <2>2
  <2>4. t[rest[1]] > c /\ t[rest[1]] \in Int /\ t[k] \in Int
    BY <2>3 DEF stale
  <2>5. CASE i = 1
    BY <2>1, <2>4, <2>5
  <2>6. CASE i # 1
    <3>1. Precedes(rest, rest[1], k)
      BY <1>2, <2>1, <2>2, <2>6 DEF Precedes
    <3>2. t[rest[1]] <= t[k]
      BY <1>1, <2>3, <3>1
    <3> QED
      BY <2>4, <3>2
  <2> QED
    BY <2>5, <2>6
<1>4. ASSUME NEW k \in ToSet(order), t[k] > c
      PROVE  k \in ToSet(rest)
  BY <1>1, <1>4 DEF stale
<1> QED
  BY <1>1, <1>3, <1>4 DEF rest, stale

\* popitem(last=False) down to n keys leaves the n newest, the last among them.
LEMMA KeepNewestOrder ==
  ASSUME NEW K, NEW order \in Orders(K), NEW n \in Nat \ {0}
  PROVE  LET kept == KeepNewest(order, n)
         IN  /\ kept \in Orders(K) /\ Len(kept) <= n /\ Len(kept) <= Len(order)
             /\ ToSet(kept) \subseteq ToSet(order)
             /\ \A a, b : Precedes(kept, a, b) => Precedes(order, a, b)
             /\ Len(order) > 0 => Len(kept) > 0 /\ kept[Len(kept)] = order[Len(order)]
             /\ Len(order) <= n => kept = order
<1> DEFINE kept == KeepNewest(order, n)
<1>0. order \in Seq(K) /\ Len(order) \in Nat
  BY OrderElements
<1>1. CASE Len(order) <= n
  <2>1. kept = order
    BY <1>0, <1>1 DEF KeepNewest
  <2> QED
    BY <2>1, <1>0, <1>1
<1>2. CASE Len(order) > n
  <2> DEFINE m == Len(order) - n
  <2>1. m \in 0 .. Len(order) /\ kept = SubSeq(order, m + 1, Len(order))
    BY <1>0, <1>2 DEF KeepNewest
  <2> HIDE DEF kept
  <2>2. /\ kept \in Orders(K) /\ Len(kept) = Len(order) - m
        /\ \A i \in 1 .. Len(kept) : kept[i] = order[i + m]
        /\ ToSet(kept) \subseteq ToSet(order)
        /\ \A a, b : Precedes(kept, a, b) => Precedes(order, a, b)
    BY <2>1, SuffixOfOrder
  <2>3. Len(kept) = n /\ kept[Len(kept)] = order[Len(order)]
    BY <2>2, <1>0, <1>2
  <2> QED
    BY <2>2, <2>3, <1>0, <1>2 DEF kept
<1> QED
  BY <1>0, <1>1, <1>2

\* move_to_end makes k the newest key and leaves the others as they stood.
LEMMA MoveToEndOrder ==
  ASSUME NEW K, NEW order \in Orders(K), NEW k \in K
  PROVE  LET moved == MoveToEnd(order, k)
         IN  /\ moved \in Orders(K)
             /\ Len(moved) = IF k \in ToSet(order) THEN Len(order) ELSE Len(order) + 1
             /\ Len(moved) > 0 /\ moved[Len(moved)] = k
             /\ ToSet(moved) = ToSet(order) \cup {k}
             /\ \A a, b : Precedes(moved, a, b) =>
                  /\ a # k /\ a \in ToSet(order)
                  /\ b = k \/ Precedes(order, a, b)
<1> DEFINE moved == MoveToEnd(order, k)
<1>0. /\ order \in Seq(K) /\ Len(order) \in Nat
      /\ DOMAIN order = 1 .. Len(order)
      /\ \A i \in 1 .. Len(order) : order[i] \in K
      /\ \A i, j \in 1 .. Len(order) : order[i] = order[j] => i = j
      /\ ToSet(order) = {order[i] : i \in 1 .. Len(order)}
  BY OrderElements
<1>1. \E rest \in Orders(K) :
        /\ moved = Append(rest, k)
        /\ Len(rest) = IF k \in ToSet(order) THEN Len(order) - 1 ELSE Len(order)
        /\ ToSet(rest) = ToSet(order) \ {k}
        /\ \A a, b : Precedes(rest, a, b) => Precedes(order, a, b)
  <2>1. CASE k \notin ToSet(order)
    BY <2>1 DEF MoveToEnd
  <2>2. CASE k \in ToSet(order)
    <3> DEFINE p == Position(order, k)
               rest == WithoutAt(order, p)
               at(i) == IF i < p THEN i ELSE i + 1
    <3>1. p \in 1 .. Len(order) /\ order[p] = k
      BY <2>2, <1>0 DEF Position
    <3>2. moved = Append(rest, k)
      BY <2>2 DEF MoveToEnd
    <3> HIDE DEF p
    <3>3. /\ rest \in Seq(K) /\ Len(rest) = Len(order) - 1
          /\ DOMAIN rest = 1 .. Len(order) - 1
      BY <3>1, <1>0 DEF WithoutAt
    <3>4. \A i \in 1 .. Len(rest) :
            rest[i] = order[at(i)] /\ at(i) \in 1 .. Len(order) /\ at(i) # p
      BY <3>1, <3>3, <1>0 DEF WithoutAt
    <3>5. \A i, j \in 1 .. Len(rest) : i < j => at(i) < at(j)
      BY <3>1, <3>3, <1>0
    <3>6. \A i, j \in 1 .. Len(rest) : at(i) = at(j) => i = j
      BY <3>1, <3>3, <1>0
    <3>7. \A i \in 1 .. Len(order) : i # p => \E j \in 1 .. Len(rest) : at(j) = i
      <4> SUFFICES ASSUME NEW i \in 1 .. Len(order), i # p
                   PROVE  \E j \in 1 .. Len(rest) : at(j) = i
        OBVIOUS
      <4>1. CASE i < p
        <5>1. i \in 1 .. Len(rest) /\ at(i) = i
          BY <4>1, <3>1, <3>3, <1>0
        <5> QED
          BY <5>1
      <4>2. CASE i > p
        <5>1. i - 1 \in 1 .. Len(rest) /\ ~ (i - 1 < p) /\ (i - 1) + 1 = i
          BY <4>2, <3>1, <3>3, <1>0
        <5>2. at(i - 1) = i
          BY <5>1
        <5> QED
          BY <5>1, <5>2
      <4> QED
        BY <4>1, <4>2, <3>1
    <3> HIDE DEF at, rest
    <3>8. rest \in Orders(K)
      <4>1. \A i, j \in 1 .. Len(rest) : rest[i] = rest[j] => i = j
        BY <3>4, <3>6, <1>0
      <4> QED
        BY <4>1, <3>3, OrderIntro
    <3>9. ToSet(rest) = ToSet(order) \ {k}
      <4>1. ToSet(rest) = {rest[i] : i \in 1 .. Len(rest)}
        BY <3>8, OrderElements
      <4>2. ToSet(rest) \subseteq ToSet(order) \ {k}
        BY <4>1, <3>4, <3>1, <1>0
      <4>3. ASSUME NEW x \in ToSet(order), x # k
            PROVE  x \in ToSet(rest)
        <5>1. PICK i \in 1 .. Len(order) : order[i] = x /\ i # p
          BY <4>3, <3>1, <1>0
        <5>2. PICK j \in 1 .. Len(rest) : at(j) = i
          BY <5>1, <3>7
        <5> QED
          BY <5>1, <5>2, <4>1, <3>4
      <4> QED
        BY <4>2, <4>3
    <3>10. ASSUME NEW a, NEW b, Precedes(rest, a, b)
           PROVE  Precedes(order, a, b)
      <4>1. PICK i \in 1 .. Len(rest), j \in 1 .. Len(rest) :
              i < j /\ rest[i] = a /\ rest[j] = b
        BY <3>10, <3>3 DEF Precedes
      <4>2. at(i) < at(j) /\ order[at(i)] = a /\ order[at(j)] = b
        BY <4>1, <3>4, <3>5
      <4> QED
        BY <4>1, <4>2, <3>4, <1>0 DEF Precedes
    <3> QED
      BY <2>2, <3>2, <3>3, <3>8, <3>9, <3>10
  <2> QED
    BY <2>1, <2>2
<1>2. PICK rest \in Orders(K) :
        /\ moved = Append(rest, k)
        /\ Len(rest) = IF k \in ToSet(order) THEN Len(order) - 1 ELSE Len(order)
        /\ ToSet(rest) = ToSet(order) \ {k}
        /\ \A a, b : Precedes(rest, a, b) => Precedes(order, a, b)
  BY <1>1
<1> HIDE DEF moved
<1>3. /\ rest \in Seq(K) /\ Len(rest) \in Nat
      /\ \A i, j \in 1 .. Len(rest) : rest[i] = rest[j] => i = j
      /\ ToSet(rest) = {rest[i] : i \in 1 .. Len(rest)}
      /\ DOMAIN rest = 1 .. Len(rest)
  BY OrderElements
<1>4. /\ moved \in Seq(K) /\ Len(moved) = Len(rest) + 1
      /\ \A i \in 1 .. Len(rest) : moved[i] = rest[i]
      /\ moved[Len(rest) + 1] = k
      /\ DOMAIN moved = 1 .. Len(rest) + 1
  BY <1>2, <1>3
<1>5. \A i \in 1 .. Len(rest) : rest[i] # k
  BY <1>2, <1>3
<1>6. moved \in Orders(K)
  <2>1. \A i, j \in 1 .. Len(moved) : moved[i] = moved[j] => i = j
    BY <1>3, <1>4, <1>5
  <2> QED
    BY <2>1, <1>4, OrderIntro
<1>7. ToSet(moved) = ToSet(order) \cup {k}
  <2>1. ToSet(moved) = {moved[i] : i \in 1 .. Len(rest) + 1}
    BY <1>4 DEF ToSet
  <2>2. ToSet(moved) = ToSet(rest) \cup {k}
    <3>1. \A x \in ToSet(rest) : x \in ToSet(moved)
      BY <2>1, <1>3, <1>4
    <3>2. k \in ToSet(moved)
      BY <2>1, <1>3, <1>4
    <3>3. \A x \in ToSet(moved) : x \in ToSet(rest) \cup {k}
      BY <2>1, <1>3, <1>4
    <3> QED
      BY <3>1, <3>2, <3>3
  <2> QED
    BY <2>2, <1>2
<1>8. ASSUME NEW a, NEW b, Precedes(moved, a, b)
      PROVE  a # k /\ a \in ToSet(order) /\ (b = k \/ Precedes(order, a, b))
  <2>1. PICK i \in 1 .. Len(rest) + 1, j \in 1 .. Len(rest) + 1 :
          i < j /\ moved[i] = a /\ moved[j] = b
    BY <1>8, <1>4 DEF Precedes
  <2>2. i \in 1 .. Len(rest) /\ rest[i] = a
    BY <2>1, <1>3, <1>4
  <2>3. a # k /\ a \in ToSet(order)
    BY <2>2, <1>2, <1>3
  <2>4. CASE j = Len(rest) + 1
    BY <2>1, <2>3, <2>4, <1>4
  <2>5. CASE j # Len(rest) + 1
    <3>1. j \in 1 .. Len(rest) /\ rest[j] = b
      BY <2>5, <1>3, <1>4, <2>1
    <3>2. Precedes(rest, a, b)
      BY <3>1, <2>1, <2>2, <1>3 DEF Precedes
    <3> QED
      BY <3>2, <2>3, <1>2
  <2> QED
    BY <2>4, <2>5
<1>9. Len(moved) = IF k \in ToSet(order) THEN Len(order) ELSE Len(order) + 1
  <2>1. CASE k \in ToSet(order)
    <3>1. Len(rest) = Len(order) - 1 /\ Len(moved) = Len(rest) + 1 /\ Len(order) \in Nat
      BY <2>1, <1>0, <1>2, <1>4
    <3>2. Len(moved) = Len(order)
      BY <3>1
    <3> QED
      BY <3>2, <2>1
  <2>2. CASE k \notin ToSet(order)
    BY <2>2, <1>0, <1>2, <1>4
  <2> QED
    BY <2>1, <2>2
<1> QED
  BY <1>3, <1>4, <1>6, <1>7, <1>8, <1>9 DEF moved

\* An order has no more positions than there are keys.
LEMMA OrderLength ==
  ASSUME NEW K, IsFiniteSet(K), NEW order \in Orders(K)
  PROVE  Len(order) <= Cardinality(K)
<1>1. /\ Len(order) \in Nat /\ order \in [1 .. Len(order) -> K]
      /\ \A i, j \in 1 .. Len(order) : order[i] = order[j] => i = j
  BY OrderElements
<1>2. order \in Injection(1 .. Len(order), K)
  BY <1>1 DEF Injection, IsInjective
<1>3. Cardinality(1 .. Len(order)) <= Cardinality(K)
  BY <1>2, FS_Injection
<1>4. Cardinality(1 .. Len(order)) = Len(order)
  BY <1>1, FS_Interval
<1> QED
  BY <1>3, <1>4

\* An order holds as many keys as it has positions.
LEMMA OrderCardinality ==
  ASSUME NEW K, NEW order \in Orders(K)
  PROVE  Cardinality(ToSet(order)) = Len(order)
<1>1. /\ Len(order) \in Nat /\ order \in [1 .. Len(order) -> ToSet(order)]
      /\ \A i, j \in 1 .. Len(order) : order[i] = order[j] => i = j
      /\ ToSet(order) = {order[i] : i \in 1 .. Len(order)}
  BY OrderElements
<1>2. order \in Injection(1 .. Len(order), ToSet(order))
  BY <1>1 DEF Injection, IsInjective
<1>3. order \in Surjection(1 .. Len(order), ToSet(order))
  BY <1>1 DEF Surjection
<1>4. ExistsBijection(1 .. Len(order), ToSet(order))
  BY <1>2, <1>3 DEF ExistsBijection, Bijection
<1> QED
  BY <1>1, <1>4, FS_CountingElements

\* What the eviction drops is older than all it keeps, and it drops nothing
\* unless it fills the dictionary.
LEMMA KeepNewestDropsOldest ==
  ASSUME NEW K, NEW order \in Orders(K), NEW n \in Nat \ {0}
  PROVE  LET kept == KeepNewest(order, n)
         IN  /\ kept = order \/ Len(kept) = n
             /\ \A a \in ToSet(order) \ ToSet(kept), b \in ToSet(kept) :
                  Precedes(order, a, b)
<1> DEFINE kept == KeepNewest(order, n)
<1>0. /\ order \in Seq(K) /\ Len(order) \in Nat /\ DOMAIN order = 1 .. Len(order)
      /\ ToSet(order) = {order[i] : i \in 1 .. Len(order)}
  BY OrderElements
<1>1. CASE Len(order) <= n
  <2>1. kept = order
    BY <1>0, <1>1 DEF KeepNewest
  <2> QED
    BY <2>1
<1>2. CASE Len(order) > n
  <2> DEFINE m == Len(order) - n
  <2>1. m \in 0 .. Len(order) /\ kept = SubSeq(order, m + 1, Len(order))
    BY <1>0, <1>2 DEF KeepNewest
  <2> HIDE DEF kept
  <2>0. /\ kept \in Orders(K) /\ Len(kept) = Len(order) - m
        /\ \A i \in 1 .. Len(kept) : kept[i] = order[i + m]
    BY <2>1, SuffixOfOrder
  <2>2. /\ kept \in Orders(K) /\ Len(kept) = n
        /\ \A i \in 1 .. Len(kept) : kept[i] = order[i + m]
    BY <2>0, <1>0, <1>2
  <2> HIDE DEF m
  <2>3. ToSet(kept) = {kept[i] : i \in 1 .. n}
    <3>1. ToSet(kept) = {kept[i] : i \in 1 .. Len(kept)}
      BY <2>2, OrderElements
    <3> QED
      BY <2>2, <3>1
  <2> USE DEF m
  <2>4. ASSUME NEW a \in ToSet(order) \ ToSet(kept), NEW b \in ToSet(kept)
        PROVE  Precedes(order, a, b)
    <3>1. PICK i \in 1 .. Len(order) : order[i] = a
      BY <1>0
    <3>2. PICK j \in 1 .. n : kept[j] = b
      BY <2>3
    <3>3. i <= m
      <4> SUFFICES ASSUME i > m PROVE FALSE
        BY <1>0
      <4>1. i - m \in 1 .. n /\ (i - m) + m = i
        BY <1>0, <1>2
      <4>2. kept[i - m] = a
        BY <2>2, <3>1, <4>1
      <4> QED
        BY <2>3, <4>1, <4>2
    <3>4. j + m \in 1 .. Len(order) /\ i < j + m /\ order[j + m] = b
      BY <1>0, <1>2, <2>2, <3>2, <3>3
    <3> QED
      BY <1>0, <3>1, <3>4 DEF Precedes
  <2> QED
    BY <2>2, <2>4 DEF kept
<1> QED
  BY <1>0, <1>1, <1>2

\* Induction over a set of numbers.
LEMMA EveryNumber ==
  ASSUME NEW P \in SUBSET Nat, 0 \in P, \A n \in P : n + 1 \in P
  PROVE  P = Nat
<1> SUFFICES ASSUME Nat \ P # {} PROVE FALSE
  OBVIOUS
<1>1. PICK n \in Nat \ P : \A m \in Nat \ P : ~ (<<m, n>> \in OpToRel(<, Nat))
  BY WFMin, NatLessThanWellFounded
<1>2. \A m \in Nat \ P : ~ (m < n)
  BY <1>1 DEF OpToRel
<1>3. n \in Nat /\ n \notin P
  OBVIOUS
<1>4. n - 1 \in Nat /\ n - 1 < n /\ (n - 1) + 1 = n
  BY <1>3
<1>5. n - 1 \in P
  BY <1>2, <1>4
<1> QED
  BY <1>3, <1>4, <1>5

\* The sequences that Restricted builds, from the first keys of the order.
RestrictStep(order, K, kept, n) ==
  IF n = 0 THEN <<>>
  ELSE IF order[n] \in K THEN Append(kept[n - 1], order[n]) ELSE kept[n - 1]

Restrictions(order, K, kept) ==
  kept = [n \in 0 .. Len(order) |-> RestrictStep(order, K, kept, n)]

\* some holds the first n keys of the order that are in K, once each, as they stood.
RestrictsFirst(order, K, some, n) ==
  /\ \A i \in 1 .. Len(some) : some[i] \in {order[j] : j \in 1 .. n} \cap K
  /\ \A x \in {order[j] : j \in 1 .. n} \cap K : \E i \in 1 .. Len(some) : some[i] = x
  /\ \A i, j \in 1 .. Len(some) : some[i] = some[j] => i = j
  /\ \A i, j \in 1 .. Len(some) : i < j => Precedes(order, some[i], some[j])
  /\ Len(some) <= n
  /\ Len(some) = n => \A i \in 1 .. n : some[i] = order[i]

\* They exist.
LEMMA RestrictionsExist ==
  ASSUME NEW L, NEW order \in Seq(L), NEW K
  PROVE  \E kept : Restrictions(order, K, kept)
<1> DEFINE Step(kept, n) == RestrictStep(order, K, kept, n)
           Good == {m \in Nat : \E kept : kept = [n \in 0 .. m |-> Step(kept, n)]}
<1>1. 0 \in Good
  <2> DEFINE kept == [n \in 0 .. 0 |-> <<>>]
  <2>1. kept = [n \in 0 .. 0 |-> Step(kept, n)]
    BY DEF RestrictStep
  <2> QED
    BY <2>1
<1>2. ASSUME NEW m \in Good
      PROVE  m + 1 \in Good
  <2>1. PICK g : g = [n \in 0 .. m |-> Step(g, n)]
    OBVIOUS
  <2> DEFINE kept == [n \in 0 .. m + 1 |-> Step(g, n)]
  <2>2. m \in Nat
    OBVIOUS
  <2>3. ASSUME NEW n \in 0 .. m + 1
        PROVE  Step(kept, n) = Step(g, n)
    <3>1. CASE n # 0
      <4>1. n - 1 \in 0 .. m /\ n - 1 \in 0 .. m + 1
        BY <2>2, <3>1
      <4>2. kept[n - 1] = Step(g, n - 1)
        BY <4>1
      <4>3. g[n - 1] = Step(g, n - 1)
        BY <2>1, <4>1
      <4> HIDE DEF kept
      <4> QED
        BY <4>2, <4>3 DEF RestrictStep
    <3> QED
      BY <3>1 DEF RestrictStep
  <2>4. kept = [n \in 0 .. m + 1 |-> Step(kept, n)]
    <3>1. kept = [n \in 0 .. m + 1 |-> Step(g, n)]
      OBVIOUS
    <3> HIDE DEF kept, Step
    <3> QED
      BY <2>3, <3>1
  <2>5. m + 1 \in Nat
    BY <2>2
  <2> HIDE DEF kept, Step
  <2> QED
    BY <2>4, <2>5
<1>3. Good = Nat
  <2> HIDE DEF Good
  <2>1. Good \in SUBSET Nat
    BY DEF Good
  <2> QED
    BY <2>1, <1>1, <1>2, EveryNumber
<1> QED
  BY <1>3 DEF Restrictions

\* Deleting keys leaves the others, as they stood; with none deleted the order
\* is what it was.
LEMMA RestrictedOrder ==
  ASSUME NEW L, NEW order \in Orders(L), NEW K
  PROVE  LET rest == Restricted(order, K)
         IN  /\ rest \in Orders(L) /\ Len(rest) <= Len(order)
             /\ ToSet(rest) = ToSet(order) \cap K
             /\ \A i, j \in 1 .. Len(rest) : i < j => Precedes(order, rest[i], rest[j])
             /\ Len(rest) = Len(order) => rest = order
<1>0. /\ order \in Seq(L) /\ Len(order) \in Nat
      /\ \A i \in 1 .. Len(order) : order[i] \in L
      /\ \A i, j \in 1 .. Len(order) : order[i] = order[j] => i = j
      /\ ToSet(order) = {order[i] : i \in 1 .. Len(order)}
  BY OrderElements
<1>1. PICK kept : Restrictions(order, K, kept) /\ Restricted(order, K) = kept[Len(order)]
  <2> DEFINE it == CHOOSE g : g = [n \in 0 .. Len(order) |-> RestrictStep(order, K, g, n)]
  <2>1. \E g : g = [n \in 0 .. Len(order) |-> RestrictStep(order, K, g, n)]
    <3>1. order \in Seq(L)
      BY <1>0
    <3>2. \E g : Restrictions(order, K, g)
      BY <3>1, RestrictionsExist
    <3> QED
      BY <3>2 DEF Restrictions
  <2>2. it = [n \in 0 .. Len(order) |-> RestrictStep(order, K, it, n)]
    BY <2>1
  <2>3. Restricted(order, K) = it[Len(order)]
    BY DEF Restricted, RestrictStep
  <2> HIDE DEF it
  <2> QED
    BY <2>2, <2>3 DEF Restrictions
<1> DEFINE Right(n) == kept[n] \in Seq(L) /\ RestrictsFirst(order, K, kept[n], n)
           Good == {n \in Nat : n <= Len(order) => Right(n)}
<1>2. 0 \in Good
  <2>1. kept[0] = <<>>
    BY <1>0, <1>1 DEF Restrictions, RestrictStep
  <2>2. <<>> \in Seq(L) /\ Len(<<>>) = 0 /\ {order[j] : j \in 1 .. 0} = {}
    OBVIOUS
  <2>3. RestrictsFirst(order, K, <<>>, 0)
    BY <2>2 DEF RestrictsFirst
  <2>4. Right(0)
    BY <2>1, <2>2, <2>3
  <2> QED
    BY <2>4
<1>3. ASSUME NEW n \in Good
      PROVE  n + 1 \in Good
  <2> SUFFICES ASSUME n + 1 <= Len(order)
               PROVE  Right(n + 1)
    OBVIOUS
  <2> DEFINE Of(m) == {order[j] : j \in 1 .. m}
  <2> DEFINE old == kept[n]
             new == kept[n + 1]
             key == order[n + 1]
  <2>0. n \in Nat /\ n + 1 \in 0 .. Len(order) /\ n + 1 # 0 /\ (n + 1) - 1 = n
    BY <1>0
  <2>1. new = IF key \in K THEN Append(old, key) ELSE old
    <3>1. kept[n + 1] = RestrictStep(order, K, kept, n + 1)
      BY <1>1, <2>0 DEF Restrictions
    <3> QED
      BY <2>0, <3>1 DEF RestrictStep
  <2>2. /\ old \in Seq(L) /\ Len(old) \in Nat /\ Len(old) <= n
        /\ \A i \in 1 .. Len(old) : old[i] \in Of(n) \cap K
        /\ \A x \in Of(n) \cap K : \E i \in 1 .. Len(old) : old[i] = x
        /\ \A i, j \in 1 .. Len(old) : old[i] = old[j] => i = j
        /\ \A i, j \in 1 .. Len(old) : i < j => Precedes(order, old[i], old[j])
        /\ Len(old) = n => \A i \in 1 .. n : old[i] = order[i]
    <3>1. n \in Good /\ n <= Len(order)
      BY <1>0, <2>0
    <3>2. Right(n)
      BY <3>1
    <3> QED
      BY <3>2 DEF RestrictsFirst
  <2>3. Of(n + 1) = Of(n) \cup {key} /\ key \in L /\ key \notin Of(n)
    BY <1>0, <2>0
  <2>4. \A x \in Of(n) : Precedes(order, x, key)
    <3> SUFFICES ASSUME NEW k \in 1 .. n
                 PROVE  Precedes(order, order[k], order[n + 1])
      OBVIOUS
    <3>1. k \in DOMAIN order /\ n + 1 \in DOMAIN order /\ k < n + 1
      BY <1>0, <2>0
    <3> QED
      BY <3>1 DEF Precedes
  <2>5. /\ new \in Seq(L) /\ Len(new) <= n + 1
        /\ \A i \in 1 .. Len(new) : new[i] \in Of(n + 1) \cap K
        /\ \A x \in Of(n + 1) \cap K : \E i \in 1 .. Len(new) : new[i] = x
        /\ \A i, j \in 1 .. Len(new) : new[i] = new[j] => i = j
        /\ \A i, j \in 1 .. Len(new) : i < j => Precedes(order, new[i], new[j])
        /\ Len(new) = n + 1 => \A i \in 1 .. n + 1 : new[i] = order[i]
    <3> HIDE DEF old, new, Of
    <3>1. CASE key \notin K
      BY <2>0, <2>1, <2>2, <2>3, <3>1
    <3>2. CASE key \in K
      <4> DEFINE len == Len(old)
      <4>1. /\ new \in Seq(L) /\ Len(new) = len + 1 /\ len \in Nat
            /\ \A i \in 1 .. len : new[i] = old[i]
            /\ new[len + 1] = key
        BY <2>1, <2>2, <2>3, <3>2
      <4>2. \A i \in 1 .. Len(new) : i \in 1 .. len \/ i = len + 1
        BY <4>1
      <4>3. \A i \in 1 .. Len(new) : new[i] \in Of(n + 1) \cap K
        BY <2>2, <2>3, <3>2, <4>1, <4>2
      <4>4. \A x \in Of(n + 1) \cap K : \E i \in 1 .. Len(new) : new[i] = x
        <5> SUFFICES ASSUME NEW x \in Of(n + 1) \cap K
                     PROVE  \E i \in 1 .. Len(new) : new[i] = x
          OBVIOUS
        <5>1. CASE x = key
          BY <4>1, <5>1
        <5>2. CASE x \in Of(n) \cap K
          <6>1. PICK i \in 1 .. len : old[i] = x
            BY <2>2, <5>2
          <6>2. i \in 1 .. Len(new) /\ new[i] = x
            BY <4>1, <6>1
          <6> QED
            BY <6>2
        <5> QED
          BY <2>3, <5>1, <5>2
      <4>5. \A i, j \in 1 .. Len(new) : new[i] = new[j] => i = j
        BY <2>2, <2>3, <4>1, <4>2
      <4>6. Len(new) = n + 1 => \A i \in 1 .. n + 1 : new[i] = order[i]
        BY <2>0, <2>2, <4>1
      <4>7. Len(new) <= n + 1
        BY <2>0, <2>2, <4>1
      <4>8. \A i, j \in 1 .. Len(new) : i < j => Precedes(order, new[i], new[j])
        <5> SUFFICES ASSUME NEW i \in 1 .. Len(new), NEW j \in 1 .. Len(new), i < j
                     PROVE  Precedes(order, new[i], new[j])
          OBVIOUS
        <5>1. i \in 1 .. len /\ new[i] = old[i]
          BY <4>1
        <5>2. CASE j \in 1 .. len
          BY <2>2, <4>1, <5>1, <5>2
        <5>3. CASE j = len + 1
          <6>1. old[i] \in Of(n)
            BY <2>2, <5>1
          <6> QED
            BY <2>4, <4>1, <5>1, <5>3, <6>1
        <5> QED
          BY <4>2, <5>2, <5>3
      <4> QED
        BY <4>1, <4>3, <4>4, <4>5, <4>6, <4>7, <4>8
    <3> QED
      BY <3>1, <3>2
  <2> QED
    BY <2>5 DEF RestrictsFirst
<1>4. Good = Nat
  <2> HIDE DEF Good
  <2>1. Good \in SUBSET Nat
    BY DEF Good
  <2> QED
    BY <2>1, <1>2, <1>3, EveryNumber
<1> DEFINE rest == kept[Len(order)]
<1>5. /\ rest \in Seq(L) /\ Len(rest) <= Len(order)
      /\ \A i \in 1 .. Len(rest) : rest[i] \in ToSet(order) \cap K
      /\ \A x \in ToSet(order) \cap K : \E i \in 1 .. Len(rest) : rest[i] = x
      /\ \A i, j \in 1 .. Len(rest) : rest[i] = rest[j] => i = j
      /\ \A i, j \in 1 .. Len(rest) : i < j => Precedes(order, rest[i], rest[j])
      /\ Len(rest) = Len(order) => \A i \in 1 .. Len(order) : rest[i] = order[i]
  <2>1. Right(Len(order))
    <3>1. Len(order) \in Good
      BY <1>0, <1>4
    <3> QED
      BY <1>0, <3>1
  <2> QED
    BY <1>0, <2>1 DEF RestrictsFirst
<1> HIDE DEF rest
<1>6. rest \in Orders(L)
  BY <1>5, OrderIntro
<1>7. ToSet(rest) = {rest[i] : i \in 1 .. Len(rest)} /\ DOMAIN rest = 1 .. Len(rest)
  BY <1>6, OrderElements
<1>8. ToSet(rest) = ToSet(order) \cap K
  BY <1>5, <1>7
<1>9. Len(rest) = Len(order) => rest = order
  BY <1>0, <1>5, <1>7
<1> QED
  BY <1>1, <1>5, <1>6, <1>8, <1>9 DEF rest
====
