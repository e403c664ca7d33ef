---- MODULE RateLimiterProofs ----
(****************************************************************************)
(* The budgets of the rate limiter, for every number of clients and         *)
(* handlers and whatever the delays between reading the clock and taking    *)
(* the lock.  The argument follows the deque of a client: it is the end of  *)
(* what was ever granted, and what it no longer holds is an hour old on the *)
(* clock, although a handler that is late counts with an older reading.     *)
(****************************************************************************)
EXTENDS RateLimiter, OrderedDictLemmas

\* A handler's reading of the clock is not older than the longest wait.
ReadingsAreRecent ==
  \A t \in Threads :
    reading[t] # Idle => clock - lag <= reading[t].at /\ reading[t].at <= clock

\* h is the end of g, after d elements.
EndsWith(g, h, d) ==
  Len(g) = d + Len(h) /\ \A i \in 1 .. Len(h) : h[i] = g[d + i]

\* The hits h of a client are the end of its grants g; the rest is an hour old.
Booked(g, h, now) ==
  \E d \in Nat : EndsWith(g, h, d) /\ \A i \in 1 .. d : g[i] <= now - Hour

HitsBookGrants ==
  /\ \A c \in ToSet(clients) : Booked(granted[c], hits[c], clock)
  /\ \A c \in Clients \ ToSet(clients) : granted[c] = <<>>

\* Grants are not in the future, and hardly out of order.
NearlyOrdered(g, now, delay) ==
  /\ \A i \in 1 .. Len(g) : g[i] <= now
  /\ \A i, j \in 1 .. Len(g) : i < j => g[i] - delay <= g[j]

GrantsNearlyOrdered == \A c \in Clients : NearlyOrdered(granted[c], clock, lag)

IInv == TypeOK /\ ReadingsAreRecent /\ HitsBookGrants /\ GrantsNearlyOrdered

\* The three outcomes of check for a client that read the clock at the moment at.
RefusedForMinute(c, at) ==
  LET h == Recent(c, at)
  IN  /\ InMinute(h, at) >= PerMinute
      /\ Refuse(c, at, "minute", h[Len(h) - InMinute(h, at) + 1] + Minute - at)
      /\ Update(c, at, h)

RefusedForHour(c, at) ==
  LET h == Recent(c, at)
  IN  /\ Len(h) >= PerHour
      /\ Refuse(c, at, "hour", h[1] + Hour - at)
      /\ Update(c, at, h)

Allowed(c, at) ==
  LET h == Recent(c, at)
  IN  /\ InMinute(h, at) < PerMinute /\ Len(h) < PerHour
      /\ Update(c, at, Append(h, at))
      /\ Admit(c, at)
----------------------------------------------------------------------------
\* Positions of a sequence that satisfy a condition are finitely many.
LEMMA PositionsFinite ==
  ASSUME NEW n \in Nat, NEW P \in SUBSET (1 .. n)
  PROVE  IsFiniteSet(P) /\ Cardinality(P) \in Nat /\ Cardinality(P) <= n
<1>1. IsFiniteSet(1 .. n) /\ Cardinality(1 .. n) = n
  BY FS_Interval
<1> QED
  BY <1>1, FS_Subset, FS_CardinalityType

\* As many positions as before, further back.
LEMMA ShiftedPositions ==
  ASSUME NEW n \in Nat, NEW P \in SUBSET (1 .. n), NEW d \in Nat
  PROVE  /\ IsFiniteSet({d + j : j \in P})
         /\ Cardinality({d + j : j \in P}) = Cardinality(P)
<1> DEFINE Q == {d + j : j \in P}
           f == [j \in P |-> d + j]
<1>1. f \in Injection(P, Q) /\ f \in Surjection(P, Q)
  BY DEF Injection, IsInjective, Surjection
<1>2. ExistsBijection(P, Q)
  BY <1>1 DEF ExistsBijection, Bijection
<1>3. IsFiniteSet(P)
  BY PositionsFinite
<1> HIDE DEF Q, f
<1>4. IsFiniteSet(Q) /\ Cardinality(Q) = Cardinality(P)
  BY <1>2, <1>3, FS_Bijection
<1> QED
  BY <1>4 DEF Q

\* Admitted, of a sequence of grants.
Within(g, from, to) == {i \in 1 .. Len(g) : g[i] > from /\ g[i] <= to}

\* No window that ends with a grant holds more than a budget.
KeepsBudget(g, width, budget) ==
  \A i \in 1 .. Len(g) : Cardinality(Within(g, g[i] - width, g[i])) <= budget

LEMMA WithinGrows ==
  ASSUME NEW g \in Seq(Nat), NEW at \in Nat, NEW from \in Int, NEW to \in Int
  PROVE  /\ to < at => Within(Append(g, at), from, to) = Within(g, from, to)
         /\ Within(Append(g, at), from, to) \subseteq Within(g, from, to) \cup {Len(g) + 1}
<1> DEFINE new == Append(g, at)
<1>1. /\ Len(g) \in Nat /\ Len(new) = Len(g) + 1 /\ new[Len(g) + 1] = at
      /\ \A i \in 1 .. Len(g) : new[i] = g[i]
  OBVIOUS
<1> HIDE DEF new
<1>2. ASSUME NEW k \in Within(new, from, to), k # Len(g) + 1
      PROVE  k \in Within(g, from, to)
  <2>1. k \in 1 .. Len(g) /\ new[k] > from /\ new[k] <= to
    BY <1>1, <1>2 DEF Within
  <2> QED
    BY <1>1, <2>1 DEF Within
<1>3. ASSUME NEW k \in Within(g, from, to)
      PROVE  k \in Within(new, from, to)
  BY <1>1 DEF Within
<1>4. ASSUME to < at
      PROVE  Len(g) + 1 \notin Within(new, from, to)
  BY <1>1, <1>4 DEF Within
<1>5. /\ to < at => Within(new, from, to) = Within(g, from, to)
      /\ Within(new, from, to) \subseteq Within(g, from, to) \cup {Len(g) + 1}
  BY <1>2, <1>3, <1>4
<1> QED
  BY <1>5 DEF new

\* One more grant at the moment at keeps a budget that is not used up by the
\* hits of the window before it, wherever the earlier grants stand in time.
LEMMA OneMoreGrant ==
  ASSUME NEW g \in Seq(Nat), NEW h \in Seq(Nat), NEW d \in Nat, EndsWith(g, h, d),
         NEW at \in Nat, NEW width \in Int, NEW budget \in Nat,
         \A i \in 1 .. d : g[i] <= at - width,
         Cardinality({j \in 1 .. Len(h) : h[j] > at - width}) < budget,
         KeepsBudget(g, width, budget)
  PROVE  KeepsBudget(Append(g, at), width, budget)
<1> DEFINE new == Append(g, at)
           J == {j \in 1 .. Len(h) : h[j] > at - width}
           Q == {d + j : j \in J}
           W(t) == Within(new, t - width, t)
<1>0. /\ Len(g) \in Nat /\ Len(h) \in Nat /\ Len(g) = d + Len(h)
      /\ Len(new) = Len(g) + 1 /\ new[Len(g) + 1] = at
      /\ \A i \in 1 .. Len(g) : new[i] = g[i] /\ g[i] \in Nat
      /\ \A j \in 1 .. Len(h) : h[j] = g[d + j]
  <2>1. /\ Len(g) \in Nat /\ Len(new) = Len(g) + 1 /\ new[Len(g) + 1] = at
        /\ \A i \in 1 .. Len(g) : new[i] = g[i] /\ g[i] \in Nat
    OBVIOUS
  <2>2. Len(h) \in Nat
    OBVIOUS
  <2>3. Len(g) = d + Len(h) /\ \A j \in 1 .. Len(h) : h[j] = g[d + j]
    BY DEF EndsWith
  <2> HIDE DEF new
  <2> QED
    BY <2>1, <2>2, <2>3
<1>1. /\ IsFiniteSet(Q) /\ Cardinality(Q) = Cardinality(J) /\ Cardinality(J) \in Nat
      /\ Cardinality(J) < budget
  <2>1. J \in SUBSET (1 .. Len(h)) /\ Cardinality(J) < budget
    OBVIOUS
  <2> HIDE DEF J
  <2> QED
    BY <1>0, <2>1, ShiftedPositions, PositionsFinite
<1>2. ASSUME NEW t \in Nat, t >= at
      PROVE  Cardinality(W(t)) <= budget
  <2>1. ASSUME NEW k \in Within(g, t - width, t)
        PROVE  k \in Q
    <3>1. k \in 1 .. Len(g) /\ g[k] > t - width
      BY DEF Within
    <3>2. g[k] > at - width
      BY <1>0, <1>2, <3>1
    <3>3. k - d \in 1 .. Len(h) /\ d + (k - d) = k
      BY <1>0, <3>1, <3>2
    <3>4. k - d \in J
      BY <1>0, <3>2, <3>3
    <3> QED
      BY <3>3, <3>4
  <2>2. W(t) \subseteq Within(g, t - width, t) \cup {Len(g) + 1}
    <3>1. t - width \in Int /\ t \in Int
      OBVIOUS
    <3> QED
      BY <3>1, WithinGrows
  <2> DEFINE R == Q \cup {Len(g) + 1}
  <2>3. W(t) \in SUBSET R
    BY <2>1, <2>2
  <2>4. IsFiniteSet(R) /\ Cardinality(R) = IF Len(g) + 1 \in Q THEN Cardinality(Q) ELSE Cardinality(Q) + 1
    <3> HIDE DEF Q
    <3> QED
      BY <1>1, FS_AddElement
  <2> HIDE DEF R, W
  <2>5. Cardinality(W(t)) <= Cardinality(R) /\ Cardinality(W(t)) \in Nat
    BY <2>3, <2>4, FS_Subset, FS_CardinalityType
  <2> HIDE DEF Q, J
  <2> QED
    BY <1>1, <2>4, <2>5
<1>3. ASSUME NEW i \in 1 .. Len(g) + 1
      PROVE  new[i] \in Nat /\ Cardinality(W(new[i])) <= budget
  <2>1. CASE i = Len(g) + 1
    <3>1. new[i] = at /\ at >= at
      BY <1>0, <2>1
    <3> HIDE DEF W
    <3> QED
      BY <1>2, <3>1
  <2>2. CASE i \in 1 .. Len(g)
    <3>0. new[i] = g[i] /\ g[i] \in Nat
      BY <1>0, <2>2
    <3> DEFINE t == g[i]
    <3>1. t \in Nat /\ t - width \in Int /\ t \in Int
      BY <3>0
    <3>2. Cardinality(Within(g, t - width, t)) <= budget
      BY <2>2 DEF KeepsBudget
    <3> HIDE DEF t
    <3>3. t < at => Cardinality(W(t)) <= budget
      BY <3>1, <3>2, WithinGrows
    <3>4. t >= at => Cardinality(W(t)) <= budget
      BY <1>2, <3>1
    <3>5. Cardinality(W(t)) <= budget
      <4> HIDE DEF W
      <4> QED
        BY <3>1, <3>3, <3>4
    <3> HIDE DEF W
    <3> QED
      BY <3>0, <3>5 DEF t
  <2> QED
    BY <1>0, <2>1, <2>2
<1> HIDE DEF new
<1> QED
  BY <1>0, <1>3 DEF KeepsBudget, new
----------------------------------------------------------------------------
\* What is left of a deque after _drop_before.
LEMMA DroppedHits ==
  ASSUME NEW s \in Seq(Nat), NEW stale
  PROVE  LET rest == DropLeading(s, stale)
         IN  /\ rest \in Seq(Nat) /\ Len(rest) <= Len(s)
             /\ Len(rest) > 0 => rest[1] \notin stale
             /\ \E d \in Nat : /\ EndsWith(s, rest, d)
                               /\ \A i \in 1 .. d : s[i] \in stale
<1> DEFINE n == LeadingCount(s, stale)
           rest == SubSeq(s, n + 1, Len(s))
<1>1. /\ n \in 0 .. Len(s) /\ \A i \in 1 .. n : s[i] \in stale
      /\ n < Len(s) => s[n + 1] \notin stale
  BY LeadingCountExists
<1> HIDE DEF n
<1>2. Len(s) \in Nat /\ n \in Nat
  BY <1>1
<1>3. /\ rest \in Seq(Nat) /\ Len(rest) = Len(s) - n
      /\ \A i \in 1 .. Len(s) - n : rest[i] = s[n + i]
  BY <1>1, <1>2
<1> HIDE DEF rest
<1>4. EndsWith(s, rest, n) /\ Len(rest) <= Len(s)
  BY <1>1, <1>2, <1>3 DEF EndsWith
<1>5. Len(rest) > 0 => rest[1] \notin stale
  <2> SUFFICES ASSUME Len(rest) > 0
               PROVE  rest[1] \notin stale
    OBVIOUS
  <2>1. n < Len(s) /\ 1 \in 1 .. Len(s) - n /\ n + 1 = n + 1
    BY <1>1, <1>2, <1>3
  <2> QED
    BY <1>1, <1>3, <2>1
<1> QED
  BY <1>1, <1>2, <1>3, <1>4, <1>5 DEF DropLeading, rest, n

LEMMA MovedEnd ==
  ASSUME NEW g \in Seq(Nat), NEW s \in Seq(Nat), NEW h \in Seq(Nat),
         NEW d \in Nat, NEW e \in Nat, NEW x \in Int, NEW y \in Int, x <= y,
         EndsWith(g, s, d), \A i \in 1 .. d : g[i] <= y,
         EndsWith(s, h, e), \A i \in 1 .. e : s[i] <= x
  PROVE  EndsWith(g, h, d + e) /\ \A i \in 1 .. d + e : g[i] <= y
<1>1. /\ Len(g) \in Nat /\ Len(s) \in Nat /\ Len(h) \in Nat
      /\ Len(g) = d + Len(s) /\ Len(s) = e + Len(h)
      /\ \A i \in 1 .. Len(g) : g[i] \in Int
  BY DEF EndsWith
<1>2. \A i \in 1 .. Len(h) : h[i] = g[(d + e) + i]
  <2> SUFFICES ASSUME NEW i \in 1 .. Len(h)
               PROVE  h[i] = g[(d + e) + i]
    OBVIOUS
  <2>1. h[i] = s[e + i] /\ e + i \in 1 .. Len(s) /\ d + (e + i) = (d + e) + i
    BY <1>1 DEF EndsWith
  <2> QED
    BY <2>1 DEF EndsWith
<1>3. \A i \in 1 .. d + e : g[i] <= y
  <2> SUFFICES ASSUME NEW i \in 1 .. d + e, i > d
               PROVE  g[i] <= y
    OBVIOUS
  <2>1. i - d \in 1 .. e /\ i - d \in 1 .. Len(s) /\ d + (i - d) = i /\ i \in 1 .. Len(g)
    BY <1>1
  <2>2. s[i - d] = g[i] /\ s[i - d] <= x
    BY <2>1 DEF EndsWith
  <2> QED
    BY <1>1, <2>1, <2>2
<1> QED
  BY <1>1, <1>2, <1>3 DEF EndsWith

\* The hits that check counts: the end of the grants, the first in the hour.
LEMMA RecentHits ==
  ASSUME IInv, NEW c \in Clients, NEW at \in Nat, at <= clock
  PROVE  LET h == Recent(c, at)
         IN  /\ h \in Seq(Nat) /\ Len(h) <= PerHour
             /\ Len(h) > 0 => c \in ToSet(clients) /\ h[1] > at - Hour
             /\ Booked(granted[c], h, clock)
<1> USE LimiterAssumption DEF IInv, TypeOK
<1> DEFINE h == Recent(c, at)
<1>0. granted[c] \in Seq(Nat) /\ clock \in Nat /\ Hour \in Nat /\ PerHour \in Nat
  BY DEF LimiterAssumption
<1>1. CASE c \in ToSet(clients)
  <2> DEFINE s == hits[c]
             stale == {x \in ToSet(s) : x <= at - Hour}
  <2>1. s \in Seq(Nat) /\ Len(s) <= PerHour /\ Len(s) \in Nat
    BY <1>1
  <2>2. h = DropLeading(s, stale)
    BY <1>1 DEF Recent
  <2>3. PICK d \in Nat : EndsWith(granted[c], s, d) /\ \A i \in 1 .. d : granted[c][i] <= clock - Hour
    BY <1>1 DEF HitsBookGrants, Booked
  <2> HIDE DEF h, s
  <2>4. \A i \in 1 .. Len(s) : s[i] \in ToSet(s) /\ s[i] \in Nat
    BY <2>1 DEF ToSet
  <2> HIDE DEF stale
  <2>5. /\ h \in Seq(Nat) /\ Len(h) <= Len(s) /\ Len(h) \in Nat
        /\ Len(h) > 0 => h[1] \notin stale
        /\ \E e \in Nat : EndsWith(s, h, e) /\ \A i \in 1 .. e : s[i] \in stale
    BY <2>1, <2>2, DroppedHits
  <2>6. PICK e \in Nat : EndsWith(s, h, e) /\ \A i \in 1 .. e : s[i] \in stale
    BY <2>5
  <2>7. \A i \in 1 .. e : s[i] <= at - Hour
    BY <2>6 DEF stale
  <2>8. /\ d + e \in Nat /\ EndsWith(granted[c], h, d + e)
        /\ \A i \in 1 .. d + e : granted[c][i] <= clock - Hour
    <3> DEFINE g == granted[c]
               x == at - Hour
               y == clock - Hour
    <3>1. x \in Int /\ y \in Int /\ x <= y /\ g \in Seq(Nat)
      BY <1>0
    <3>2. EndsWith(g, s, d) /\ \A i \in 1 .. d : g[i] <= y
      BY <2>3
    <3>3. EndsWith(s, h, e) /\ \A i \in 1 .. e : s[i] <= x
      BY <2>6, <2>7
    <3> HIDE DEF g, x, y, TypeOK, IInv
    <3>4. EndsWith(g, h, d + e) /\ \A i \in 1 .. d + e : g[i] <= y
      BY <2>1, <2>5, <3>1, <3>2, <3>3, MovedEnd
    <3> QED
      BY <3>4 DEF g, y
  <2>9. Len(h) > 0 => h[1] > at - Hour
    <3> SUFFICES ASSUME Len(h) > 0
                 PROVE  h[1] > at - Hour
      OBVIOUS
    <3>1. 1 \in 1 .. Len(h) /\ e + 1 \in 1 .. Len(s)
      BY <2>1, <2>5, <2>6 DEF EndsWith
    <3>2. h[1] = s[e + 1] /\ h[1] \in Nat
      BY <2>4, <2>6, <3>1 DEF EndsWith
    <3>3. h[1] \in ToSet(s)
      BY <2>4, <3>1, <3>2
    <3> QED
      BY <1>0, <2>5, <3>2, <3>3 DEF stale
  <2>10. Booked(granted[c], h, clock)
    BY <2>8 DEF Booked
  <2> QED
    BY <1>0, <1>1, <2>1, <2>5, <2>9, <2>10 DEF h
<1>2. CASE c \notin ToSet(clients)
  <2>1. h = <<>> /\ granted[c] = <<>>
    BY <1>2 DEF Recent, HitsBookGrants
  <2>2. EndsWith(<<>>, <<>>, 0) /\ \A i \in 1 .. 0 : FALSE
    BY DEF EndsWith
  <2>3. Booked(<<>>, <<>>, clock)
    BY <2>2 DEF Booked
  <2> HIDE DEF h
  <2>4. h \in Seq(Nat) /\ Len(h) = 0
    BY <2>1
  <2> QED
    BY <1>0, <2>1, <2>3, <2>4 DEF h
<1> QED
  BY <1>1, <1>2

\* The hits in the last minute are some of the hits.
LEMMA MinuteHits ==
  ASSUME NEW h \in Seq(Nat), NEW at \in Nat
  PROVE  /\ InMinute(h, at) = Cardinality({j \in 1 .. Len(h) : h[j] > at - Minute})
         /\ InMinute(h, at) \in 0 .. Len(h)
<1> DEFINE P == {j \in 1 .. Len(h) : h[j] > at - Minute}
<1>1. Len(h) \in Nat /\ P \in SUBSET (1 .. Len(h)) /\ InMinute(h, at) = Cardinality(P)
  <2>1. {i \in DOMAIN h : h[i] > at - Minute} = P
    OBVIOUS
  <2>2. InMinute(h, at) = Cardinality(P)
    <3> DEFINE Q == {i \in DOMAIN h : h[i] > at - Minute}
    <3>1. InMinute(h, at) = Cardinality(Q) /\ Q = P
      BY <2>1 DEF InMinute
    <3> HIDE DEF Q, P
    <3> QED
      BY <3>1
  <2>3. Len(h) \in Nat /\ P \in SUBSET (1 .. Len(h))
    OBVIOUS
  <2> QED
    BY <2>2, <2>3
<1> HIDE DEF P
<1>2. Cardinality(P) \in Nat /\ Cardinality(P) <= Len(h)
  BY <1>1, PositionsFinite
<1> QED
  BY <1>1, <1>2 DEF P

\* What _evict keeps are clients as they stood, and there is room for one more.
LEMMA EvictedClients ==
  ASSUME IInv, NEW at \in Nat
  PROVE  LET kept == Evicted(at)
         IN  /\ kept \in Orders(Clients) /\ Len(kept) < MaxClients
             /\ ToSet(kept) \subseteq ToSet(clients)
<1> USE DEF IInv, TypeOK
<1> DEFINE kept == Evicted(at)
           rest == Restricted(clients, Live(at))
<1>0. clients \in Orders(Clients) /\ Len(clients) \in Nat /\ MaxClients \in Nat \ {0}
  BY OrderElements, LimiterAssumption DEF LimiterAssumption
<1>1. CASE Len(clients) < MaxClients
  <2>1. kept = clients
    BY <1>1 DEF Evicted
  <2> QED
    BY <1>0, <1>1, <2>1
<1>2. CASE ~ (Len(clients) < MaxClients)
  <2>1. kept = KeepNewest(rest, MaxClients - 1)
    BY <1>2 DEF Evicted
  <2>2. rest \in Orders(Clients) /\ ToSet(rest) \subseteq ToSet(clients)
    BY <1>0, RestrictedOrder
  <2> HIDE DEF rest, kept
  <2>3. Len(rest) \in Nat
    BY <2>2, OrderElements
  <2>4. CASE Len(rest) > MaxClients - 1
    <3> DEFINE n == Len(rest) - (MaxClients - 1)
    <3>1. n \in 0 .. Len(rest) /\ kept = SubSeq(rest, n + 1, Len(rest))
      BY <1>0, <2>1, <2>3, <2>4 DEF KeepNewest
    <3>2. /\ kept \in Orders(Clients) /\ Len(kept) = Len(rest) - n
          /\ ToSet(kept) \subseteq ToSet(rest)
      <4> HIDE DEF n
      <4> QED
        BY <2>2, <3>1, SuffixOfOrder
    <3> QED
      BY <1>0, <2>2, <2>3, <3>2 DEF kept
  <2>5. CASE ~ (Len(rest) > MaxClients - 1)
    <3>1. kept = rest
      BY <2>1, <2>5 DEF KeepNewest
    <3> QED
      BY <1>0, <2>2, <2>3, <2>5, <3>1 DEF kept
  <2> QED
    BY <2>4, <2>5
<1> QED
  BY <1>1, <1>2

\* The clients after check: c, and some of those that were there before.
LEMMA TrackedClients ==
  ASSUME IInv, NEW c \in Clients, NEW at \in Nat
  PROVE  /\ Tracked(c, at) \in Orders(Clients) /\ Len(Tracked(c, at)) <= MaxClients
         /\ c \in ToSet(Tracked(c, at))
         /\ ToSet(Tracked(c, at)) \subseteq ToSet(clients) \cup {c}
         /\ c \in ToSet(clients) => ToSet(Tracked(c, at)) = ToSet(clients)
<1>0. /\ clients \in Orders(Clients) /\ Len(clients) \in Nat /\ Len(clients) <= MaxClients
      /\ MaxClients \in Nat \ {0}
  BY OrderElements, LimiterAssumption DEF LimiterAssumption, IInv, TypeOK
<1>1. CASE c \in ToSet(clients)
  <2>1. Tracked(c, at) = MoveToEnd(clients, c)
    BY <1>1 DEF Tracked
  <2>2. /\ MoveToEnd(clients, c) \in Orders(Clients)
        /\ Len(MoveToEnd(clients, c)) = Len(clients)
        /\ ToSet(MoveToEnd(clients, c)) = ToSet(clients) \cup {c}
    BY <1>0, <1>1, MoveToEndOrder
  <2> QED
    BY <1>0, <1>1, <2>1, <2>2
<1>2. CASE c \notin ToSet(clients)
  <2> DEFINE kept == Evicted(at)
  <2>1. /\ kept \in Orders(Clients) /\ Len(kept) < MaxClients
        /\ ToSet(kept) \subseteq ToSet(clients)
    BY EvictedClients
  <2>2. Tracked(c, at) = Append(kept, c)
    BY <1>2 DEF Tracked
  <2> HIDE DEF kept
  <2>3. Append(kept, c) = MoveToEnd(kept, c) /\ c \notin ToSet(kept) /\ Len(kept) \in Nat
    BY <1>2, <2>1, OrderElements DEF MoveToEnd
  <2>4. /\ MoveToEnd(kept, c) \in Orders(Clients)
        /\ Len(MoveToEnd(kept, c)) = Len(kept) + 1
        /\ ToSet(MoveToEnd(kept, c)) = ToSet(kept) \cup {c}
    BY <2>1, <2>3, MoveToEndOrder
  <2> QED
    BY <1>0, <1>2, <2>1, <2>2, <2>3, <2>4
<1> QED
  BY <1>1, <1>2
----------------------------------------------------------------------------
\* A step of Check, taken apart.
LEMMA CheckOutcome ==
  ASSUME IInv, NEW t \in Threads, Check(t)
  PROVE  /\ UNCHANGED <<clock, lag>> /\ reading' = [reading EXCEPT ![t] = Idle]
         /\ \E c \in Clients, at \in Nat :
              /\ reading[t] = [client |-> c, at |-> at]
              /\ clock - lag <= at /\ at <= clock
              /\ \/ RefusedForMinute(c, at) \/ RefusedForHour(c, at) \/ Allowed(c, at)
<1> DEFINE c == reading[t].client
           at == reading[t].at
<1>1. reading[t] # Idle /\ UNCHANGED <<clock, lag>> /\ reading' = [reading EXCEPT ![t] = Idle]
  BY DEF Check
<1>2. reading[t] \in [client : Clients, at : Nat]
  BY <1>1 DEF IInv, TypeOK
<1>3. c \in Clients /\ at \in Nat /\ reading[t] = [client |-> c, at |-> at]
  BY <1>2
<1>4. clock - lag <= at /\ at <= clock
  BY <1>1 DEF IInv, ReadingsAreRecent
<1>5. \/ RefusedForMinute(c, at) \/ RefusedForHour(c, at) \/ Allowed(c, at)
  BY DEF Check, RefusedForMinute, RefusedForHour, Allowed
<1> HIDE DEF c, at
<1> QED
  BY <1>1, <1>3, <1>4, <1>5

\* Division by the ticks of a second.
LEMMA SecondsFit ==
  ASSUME NEW w \in Int, NEW n \in Nat \ {0}
  PROVE  LET q == w \div n
         IN  q \in Int /\ n * q <= w /\ w < n * q + n
OBVIOUS

\* What _reject tells is a moment.
LEMMA RefusalTyped ==
  ASSUME IInv, NEW c \in Clients, NEW at \in Nat, NEW window \in Windows, NEW wait \in Int,
         Refuse(c, at, window, wait)
  PROVE  /\ granted' = granted
         /\ refusal' \in [Clients -> [window : Windows, first : Nat, until : Nat]]
<1> DEFINE q == wait \div Second
           seconds == IF q + 1 > 1 THEN q + 1 ELSE 1
           moment == at + seconds * Second
           first == IF refusal[c].window = window THEN refusal[c].first ELSE moment
<1>1. /\ granted' = granted
      /\ refusal' = [refusal EXCEPT ![c] =
                       [window |-> window, first |-> first, until |-> moment]]
  BY DEF Refuse, Tell
<1>2. Second \in Nat \ {0}
  BY LimiterAssumption
<1>3. q \in Int
  BY <1>2, SecondsFit
<1> HIDE DEF q
<1>4. seconds \in Nat
  BY <1>3
<1> HIDE DEF seconds
<1>5. moment \in Nat
  <2>1. \A a, b \in Nat : a * b \in Nat
    OBVIOUS
  <2>2. seconds * Second \in Nat
    BY <1>2, <1>4, <2>1
  <2> QED
    BY <2>2
<1> HIDE DEF moment
<1>6. refusal \in [Clients -> [window : Windows, first : Nat, until : Nat]]
  BY DEF IInv, TypeOK
<1>7. first \in Nat
  BY <1>5, <1>6
<1> HIDE DEF first
<1> QED
  BY <1>1, <1>5, <1>6, <1>7

\* Only a client that is tracked is refused, and it keeps at least one hit.
LEMMA RefusedChanges ==
  ASSUME IInv, NEW c \in Clients, NEW at \in Nat, at <= clock,
         RefusedForMinute(c, at) \/ RefusedForHour(c, at)
  PROVE  /\ c \in ToSet(clients) /\ Len(Recent(c, at)) \in 1 .. PerHour
         /\ clients' = Tracked(c, at) /\ ToSet(clients') = ToSet(clients)
         /\ hits' = [k \in ToSet(clients) |-> IF k = c THEN Recent(c, at) ELSE hits[k]]
         /\ granted' = granted
         /\ refusal' \in [Clients -> [window : Windows, first : Nat, until : Nat]]
<1> DEFINE h == Recent(c, at)
<1>1. /\ h \in Seq(Nat) /\ Len(h) <= PerHour /\ Len(h) \in Nat
      /\ Len(h) > 0 => c \in ToSet(clients)
  BY RecentHits
<1>2. /\ PerMinute \in Nat \ {0} /\ PerHour \in Nat \ {0}
      /\ Minute \in Nat /\ Hour \in Nat
  BY LimiterAssumption DEF LimiterAssumption
<1>3. InMinute(h, at) \in 0 .. Len(h)
  <2> HIDE DEF h
  <2> QED
    BY <1>1, MinuteHits
<1>4. Len(h) > 0
  BY <1>1, <1>2, <1>3 DEF RefusedForMinute, RefusedForHour
<1>5. Update(c, at, h)
  BY DEF RefusedForMinute, RefusedForHour
<1>6. /\ clients' = Tracked(c, at) /\ c \in ToSet(clients)
      /\ ToSet(Tracked(c, at)) = ToSet(clients)
  BY <1>1, <1>4, <1>5, TrackedClients DEF Update
<1>7. hits' = [k \in ToSet(clients) |-> IF k = c THEN h ELSE hits[k]]
  BY <1>5, <1>6 DEF Update
<1>8. granted' = granted /\ refusal' \in [Clients -> [window : Windows, first : Nat, until : Nat]]
  <2>1. \E window \in Windows, wait \in Int : Refuse(c, at, window, wait)
    <3>1. CASE RefusedForMinute(c, at)
      <4> DEFINE i == Len(h) - InMinute(h, at) + 1
      <4>1. i \in 1 .. Len(h) /\ Refuse(c, at, "minute", h[i] + Minute - at)
        BY <1>1, <1>2, <1>3, <3>1 DEF RefusedForMinute
      <4> HIDE DEF h, i
      <4>2. h[i] + Minute - at \in Int
        BY <1>1, <1>2, <4>1
      <4> QED
        BY <4>1, <4>2 DEF Windows
    <3>2. CASE RefusedForHour(c, at)
      <4>1. Refuse(c, at, "hour", h[1] + Hour - at)
        BY <3>2 DEF RefusedForHour
      <4> HIDE DEF h
      <4>2. h[1] + Hour - at \in Int
        BY <1>1, <1>2, <1>4
      <4> QED
        BY <4>1, <4>2 DEF Windows
    <3> QED
      BY <3>1, <3>2
  <2> QED
    BY <2>1, RefusalTyped
<1> QED
  BY <1>1, <1>4, <1>6, <1>7, <1>8

\* An admission books one more grant, and forgets what is known of the clients
\* that are dropped.
LEMMA AllowedChanges ==
  ASSUME IInv, NEW c \in Clients, NEW at \in Nat, at <= clock, Allowed(c, at)
  PROVE  /\ clients' = Tracked(c, at)
         /\ hits' = [k \in ToSet(Tracked(c, at)) |->
                       IF k = c THEN Append(Recent(c, at), at) ELSE hits[k]]
         /\ granted' = [k \in Clients |-> IF k = c THEN Append(granted[c], at)
                          ELSE IF k \in ToSet(Tracked(c, at)) THEN granted[k] ELSE <<>>]
         /\ refusal' \in [Clients -> [window : Windows, first : Nat, until : Nat]]
         /\ refusal'[c] = NoRefusal
         /\ InMinute(Recent(c, at), at) < PerMinute /\ Len(Recent(c, at)) < PerHour
<1>1. /\ Update(c, at, Append(Recent(c, at), at)) /\ Admit(c, at)
      /\ InMinute(Recent(c, at), at) < PerMinute /\ Len(Recent(c, at)) < PerHour
  BY DEF Allowed
<1>2. refusal \in [Clients -> [window : Windows, first : Nat, until : Nat]]
  BY DEF IInv, TypeOK
<1>3. NoRefusal \in [window : Windows, first : Nat, until : Nat]
  BY DEF NoRefusal, Windows
<1>4. refusal' = [k \in Clients |-> IF k \in ToSet(Tracked(c, at)) \ {c} THEN refusal[k] ELSE NoRefusal]
  BY <1>1 DEF Admit
<1>5. granted' = [k \in Clients |-> IF k = c THEN Append(granted[c], at)
                    ELSE IF k \in ToSet(Tracked(c, at)) THEN granted[k] ELSE <<>>]
  BY <1>1 DEF Admit
<1> QED
  BY <1>1, <1>2, <1>3, <1>4, <1>5 DEF Update
----------------------------------------------------------------------------
LEMMA BookedMore ==
  ASSUME NEW g \in Seq(Nat), NEW h \in Seq(Nat), NEW now \in Nat, NEW at \in Nat,
         Booked(g, h, now)
  PROVE  Booked(Append(g, at), Append(h, at), now)
<1>1. PICK d \in Nat : EndsWith(g, h, d) /\ \A i \in 1 .. d : g[i] <= now - Hour
  BY DEF Booked
<1> DEFINE g2 == Append(g, at)
           h2 == Append(h, at)
<1>2. /\ Len(g2) = Len(g) + 1 /\ Len(g) \in Nat /\ g2[Len(g) + 1] = at
      /\ \A i \in 1 .. Len(g) : g2[i] = g[i]
  OBVIOUS
<1>3. /\ Len(h2) = Len(h) + 1 /\ Len(h) \in Nat /\ h2[Len(h) + 1] = at
      /\ \A i \in 1 .. Len(h) : h2[i] = h[i]
  OBVIOUS
<1>4. Len(g) = d + Len(h) /\ \A i \in 1 .. Len(h) : h[i] = g[d + i]
  BY <1>1 DEF EndsWith
<1> HIDE DEF g2, h2
<1>5. \A i \in 1 .. Len(h2) : h2[i] = g2[d + i]
  <2> SUFFICES ASSUME NEW i \in 1 .. Len(h2)
               PROVE  h2[i] = g2[d + i]
    OBVIOUS
  <2>1. CASE i = Len(h) + 1
    <3>1. d + i = Len(g) + 1
      BY <1>2, <1>3, <1>4, <2>1
    <3> QED
      BY <1>2, <1>3, <2>1, <3>1
  <2>2. CASE i \in 1 .. Len(h)
    <3>1. d + i \in 1 .. Len(g)
      BY <1>2, <1>3, <1>4, <2>2
    <3> QED
      BY <1>2, <1>3, <1>4, <2>2, <3>1
  <2> QED
    BY <1>3, <2>1, <2>2
<1>6. Len(g2) = d + Len(h2)
  BY <1>2, <1>3, <1>4
<1>7. \A i \in 1 .. d : g2[i] <= now - Hour
  BY <1>1, <1>2, <1>3, <1>4
<1> QED
  BY <1>5, <1>6, <1>7 DEF Booked, EndsWith, g2, h2

LEMMA BookedLater ==
  ASSUME NEW g \in Seq(Nat), NEW h \in Seq(Nat), NEW now \in Nat, Booked(g, h, now)
  PROVE  Booked(g, h, now + 1)
<1>1. PICK d \in Nat : EndsWith(g, h, d) /\ \A i \in 1 .. d : g[i] <= now - Hour
  BY DEF Booked
<1>2. \A i \in 1 .. d : g[i] <= (now + 1) - Hour
  <2>1. Len(g) \in Nat /\ Len(h) \in Nat /\ Len(g) = d + Len(h) /\ Hour \in Nat
    BY <1>1, LimiterAssumption DEF EndsWith, LimiterAssumption
  <2>2. \A i \in 1 .. d : g[i] \in Nat
    BY <2>1
  <2> QED
    BY <1>1, <2>1, <2>2
<1> QED
  BY <1>1, <1>2 DEF Booked

LEMMA OrderedMore ==
  ASSUME NEW g \in Seq(Nat), NEW now \in Nat, NEW delay \in Nat, NEW at \in Nat,
         now - delay <= at, at <= now, NearlyOrdered(g, now, delay)
  PROVE  NearlyOrdered(Append(g, at), now, delay)
<1> DEFINE g2 == Append(g, at)
<1>1. /\ Len(g2) = Len(g) + 1 /\ Len(g) \in Nat /\ g2[Len(g) + 1] = at
      /\ \A i \in 1 .. Len(g) : g2[i] = g[i] /\ g[i] \in Nat
  OBVIOUS
<1> HIDE DEF g2
<1>2. \A i \in 1 .. Len(g2) : i \in 1 .. Len(g) \/ i = Len(g) + 1
  BY <1>1
<1>3. \A i \in 1 .. Len(g2) : g2[i] <= now
  BY <1>1, <1>2 DEF NearlyOrdered
<1>4. ASSUME NEW i \in 1 .. Len(g2), NEW j \in 1 .. Len(g2), i < j
      PROVE  g2[i] - delay <= g2[j]
  <2>1. i \in 1 .. Len(g) /\ g[i] <= now /\ g2[i] = g[i] /\ g[i] \in Nat
    BY <1>1, <1>4 DEF NearlyOrdered
  <2>2. CASE j = Len(g) + 1
    BY <1>1, <2>1, <2>2
  <2>3. CASE j \in 1 .. Len(g)
    BY <1>1, <1>4, <2>1, <2>3 DEF NearlyOrdered
  <2> QED
    BY <1>2, <2>2, <2>3
<1> QED
  BY <1>3, <1>4 DEF NearlyOrdered, g2

LEMMA OrderedLater ==
  ASSUME NEW g \in Seq(Nat), NEW now \in Nat, NEW delay \in Nat, NearlyOrdered(g, now, delay)
  PROVE  NearlyOrdered(g, now + 1, delay)
<1>1. \A i \in 1 .. Len(g) : g[i] \in Nat
  OBVIOUS
<1> QED
  BY <1>1 DEF NearlyOrdered
----------------------------------------------------------------------------
LEMMA InitInv == Init => IInv
<1> SUFFICES ASSUME Init
             PROVE  IInv
  OBVIOUS
<1>1. clients \in Orders(Clients) /\ Len(clients) = 0 /\ ToSet(clients) = {}
  BY EmptyOrder DEF Init
<1>2. /\ granted \in [Clients -> Seq(Nat)] /\ \A c \in Clients : granted[c] = <<>>
      /\ refusal \in [Clients -> [window : Windows, first : Nat, until : Nat]]
  BY DEF Init, NoRefusal, Windows
<1>3. hits \in [ToSet(clients) -> Seq(Nat)]
  BY <1>1 DEF Init
<1>4. TypeOK
  BY <1>1, <1>2, <1>3, LimiterAssumption DEF LimiterAssumption, Init, TypeOK
<1>5. ReadingsAreRecent
  BY DEF Init, ReadingsAreRecent
<1>6. HitsBookGrants
  BY <1>1, <1>2 DEF HitsBookGrants
<1>7. \A c \in Clients : Len(granted[c]) = 0
  BY <1>2
<1>8. GrantsNearlyOrdered
  BY <1>7 DEF GrantsNearlyOrdered, NearlyOrdered
<1> QED
  BY <1>4, <1>5, <1>6, <1>8 DEF IInv

LEMMA CheckKeepsInv ==
  ASSUME IInv, NEW t \in Threads, Check(t)
  PROVE  IInv'
<1>1. /\ clock' = clock /\ lag' = lag /\ reading' = [reading EXCEPT ![t] = Idle]
      /\ \E c \in Clients, at \in Nat :
           /\ reading[t] = [client |-> c, at |-> at]
           /\ clock - lag <= at /\ at <= clock
           /\ \/ RefusedForMinute(c, at) \/ RefusedForHour(c, at) \/ Allowed(c, at)
  BY CheckOutcome
<1>2. PICK c \in Clients, at \in Nat :
        /\ clock - lag <= at /\ at <= clock
        /\ \/ RefusedForMinute(c, at) \/ RefusedForHour(c, at) \/ Allowed(c, at)
  BY <1>1
<1>3. /\ clients \in Orders(Clients) /\ hits \in [ToSet(clients) -> Seq(Nat)]
      /\ \A k \in ToSet(clients) : Len(hits[k]) \in 1 .. PerHour
      /\ clock \in Nat /\ lag \in 0 .. MaxLag /\ lag \in Nat /\ PerHour \in Nat
      /\ granted \in [Clients -> Seq(Nat)]
      /\ reading \in [Threads -> [client : Clients, at : Nat] \cup {Idle}]
      /\ ToSet(clients) \subseteq Clients
  BY OrderElements, LimiterAssumption DEF LimiterAssumption, IInv, TypeOK
<1>4. /\ Tracked(c, at) \in Orders(Clients) /\ Len(Tracked(c, at)) <= MaxClients
      /\ c \in ToSet(Tracked(c, at))
      /\ ToSet(Tracked(c, at)) \subseteq ToSet(clients) \cup {c}
  BY TrackedClients
<1> DEFINE h == Recent(c, at)
<1>5. h \in Seq(Nat) /\ Booked(granted[c], h, clock)
  BY <1>2, RecentHits
<1> HIDE DEF h
<1>6. reading' \in [Threads -> [client : Clients, at : Nat] \cup {Idle}] /\ ReadingsAreRecent'
  BY <1>1, <1>3 DEF IInv, ReadingsAreRecent
<1>7. ASSUME RefusedForMinute(c, at) \/ RefusedForHour(c, at)
      PROVE  IInv'
  <2>1. /\ c \in ToSet(clients) /\ Len(h) \in 1 .. PerHour
        /\ clients' = Tracked(c, at) /\ ToSet(clients') = ToSet(clients)
        /\ hits' = [k \in ToSet(clients) |-> IF k = c THEN h ELSE hits[k]]
        /\ granted' = granted
        /\ refusal' \in [Clients -> [window : Windows, first : Nat, until : Nat]]
    BY <1>2, <1>7, RefusedChanges DEF h
  <2>2. /\ hits' \in [ToSet(clients) -> Seq(Nat)]
        /\ \A k \in ToSet(clients) : Len(hits'[k]) \in 1 .. PerHour
    BY <1>3, <1>5, <2>1
  <2>3. TypeOK'
    BY <1>1, <1>3, <1>4, <1>6, <2>1, <2>2 DEF TypeOK
  <2>4. \A k \in ToSet(clients) : Booked(granted[k], hits'[k], clock)
    BY <1>5, <2>1 DEF IInv, HitsBookGrants
  <2>5. HitsBookGrants'
    BY <1>1, <2>1, <2>4 DEF IInv, HitsBookGrants
  <2>6. GrantsNearlyOrdered'
    BY <1>1, <2>1 DEF IInv, GrantsNearlyOrdered
  <2> QED
    BY <1>6, <2>3, <2>5, <2>6 DEF IInv
<1>8. ASSUME Allowed(c, at)
      PROVE  IInv'
  <2> DEFINE tracked == ToSet(Tracked(c, at))
             h2 == Append(h, at)
             g2 == Append(granted[c], at)
  <2>1. /\ clients' = Tracked(c, at)
        /\ hits' = [k \in tracked |-> IF k = c THEN h2 ELSE hits[k]]
        /\ granted' = [k \in Clients |-> IF k = c THEN g2
                         ELSE IF k \in tracked THEN granted[k] ELSE <<>>]
        /\ refusal' \in [Clients -> [window : Windows, first : Nat, until : Nat]]
        /\ Len(h) < PerHour
    BY <1>2, <1>8, AllowedChanges DEF h
  <2>2. /\ h2 \in Seq(Nat) /\ Len(h2) \in 1 .. PerHour /\ g2 \in Seq(Nat)
        /\ Booked(g2, h2, clock)
    <3>1. granted[c] \in Seq(Nat)
      BY <1>3
    <3>2. h2 \in Seq(Nat) /\ Len(h2) \in 1 .. PerHour /\ g2 \in Seq(Nat)
      BY <1>3, <1>5, <2>1, <3>1
    <3> QED
      BY <1>3, <1>5, <3>1, <3>2, BookedMore
  <2>3. NearlyOrdered(g2, clock, lag)
    <3>1. granted[c] \in Seq(Nat) /\ NearlyOrdered(granted[c], clock, lag)
      BY <1>3 DEF IInv, GrantsNearlyOrdered
    <3> QED
      BY <1>2, <1>3, <3>1, OrderedMore
  <2> HIDE DEF tracked, h2, g2
  <2>4. c \in tracked /\ tracked \subseteq ToSet(clients) \cup {c} /\ ToSet(clients') = tracked
        /\ tracked \subseteq Clients
    BY <1>3, <1>4, <2>1 DEF tracked
  <2>5. /\ hits' \in [tracked -> Seq(Nat)]
        /\ \A k \in tracked : Len(hits'[k]) \in 1 .. PerHour
    BY <1>3, <2>1, <2>2, <2>4
  <2>6. granted' \in [Clients -> Seq(Nat)]
    BY <1>3, <2>1, <2>2
  <2>7. TypeOK'
    BY <1>1, <1>3, <1>4, <1>6, <2>1, <2>4, <2>5, <2>6 DEF TypeOK
  <2>8. \A k \in tracked : Booked(granted'[k], hits'[k], clock)
    BY <2>1, <2>2, <2>4 DEF IInv, HitsBookGrants
  <2>9. \A k \in Clients \ tracked : granted'[k] = <<>>
    BY <2>1, <2>4
  <2>10. HitsBookGrants'
    BY <1>1, <2>4, <2>8, <2>9 DEF HitsBookGrants
  <2>11. NearlyOrdered(<<>>, clock, lag)
    <3>1. Len(<<>>) = 0
      OBVIOUS
    <3> QED
      BY <3>1 DEF NearlyOrdered
  <2>12. \A k \in Clients : NearlyOrdered(granted'[k], clock, lag)
    BY <2>1, <2>3, <2>11 DEF IInv, GrantsNearlyOrdered
  <2>13. GrantsNearlyOrdered'
    BY <1>1, <2>12 DEF GrantsNearlyOrdered
  <2> QED
    BY <1>6, <2>7, <2>10, <2>13 DEF IInv
<1> QED
  BY <1>2, <1>7, <1>8

LEMMA StepInv == IInv /\ [Next]_vars => IInv'
<1> SUFFICES ASSUME IInv, [Next]_vars
             PROVE  IInv'
  OBVIOUS
<1>0. /\ TypeOK /\ ReadingsAreRecent /\ HitsBookGrants /\ GrantsNearlyOrdered
      /\ ToSet(clients) \subseteq Clients
  BY OrderElements DEF IInv, TypeOK
<1>1. ASSUME NEW t \in Threads, Check(t)
      PROVE  IInv'
  BY <1>1, CheckKeepsInv
<1>2. ASSUME NEW t \in Threads, NEW c \in Clients, ReadClock(t, c)
      PROVE  IInv'
  <2>1. [client |-> c, at |-> clock] \in [client : Clients, at : Nat]
    BY <1>0 DEF TypeOK
  <2>2. TypeOK'
    BY <1>0, <1>2, <2>1 DEF TypeOK, ReadClock
  <2>3. ReadingsAreRecent'
    BY <1>0, <1>2 DEF TypeOK, ReadingsAreRecent, ReadClock
  <2>4. HitsBookGrants' /\ GrantsNearlyOrdered'
    BY <1>0, <1>2 DEF HitsBookGrants, GrantsNearlyOrdered, ReadClock
  <2> QED
    BY <2>2, <2>3, <2>4 DEF IInv
<1>3. CASE Tick
  <2>1. /\ clock' = clock + 1 /\ clock \in Nat /\ lag \in Nat
        /\ UNCHANGED <<clients, hits, reading, lag, granted, refusal>>
        /\ hits \in [ToSet(clients) -> Seq(Nat)] /\ granted \in [Clients -> Seq(Nat)]
    BY <1>0, <1>3 DEF TypeOK, Tick
  <2>2. TypeOK'
    BY <1>0, <2>1 DEF TypeOK
  <2>3. ReadingsAreRecent'
    <3> SUFFICES ASSUME NEW t \in Threads, reading[t] # Idle
                 PROVE  clock + 1 - lag <= reading[t].at /\ reading[t].at <= clock + 1
      BY <2>1 DEF ReadingsAreRecent
    <3>1. reading[t] \in [client : Clients, at : Nat] /\ reading[t].at \in Nat
      BY <1>0 DEF TypeOK
    <3>2. clock < reading[t].at + lag /\ reading[t].at <= clock
      BY <1>0, <1>3 DEF Tick, ReadingsAreRecent
    <3> QED
      BY <2>1, <3>1, <3>2
  <2>4. \A c \in ToSet(clients) : Booked(granted[c], hits[c], clock + 1)
    <3> SUFFICES ASSUME NEW c \in ToSet(clients)
                 PROVE  Booked(granted[c], hits[c], clock + 1)
      OBVIOUS
    <3>1. granted[c] \in Seq(Nat) /\ hits[c] \in Seq(Nat) /\ Booked(granted[c], hits[c], clock)
      BY <1>0, <2>1 DEF HitsBookGrants
    <3> QED
      BY <2>1, <3>1, BookedLater
  <2>5. HitsBookGrants'
    BY <1>0, <2>1, <2>4 DEF HitsBookGrants
  <2>6. \A c \in Clients : NearlyOrdered(granted[c], clock + 1, lag)
    <3> SUFFICES ASSUME NEW c \in Clients
                 PROVE  NearlyOrdered(granted[c], clock + 1, lag)
      OBVIOUS
    <3>1. granted[c] \in Seq(Nat) /\ NearlyOrdered(granted[c], clock, lag)
      BY <1>0, <2>1 DEF GrantsNearlyOrdered
    <3> QED
      BY <2>1, <3>1, OrderedLater
  <2>7. GrantsNearlyOrdered'
    BY <2>1, <2>6 DEF GrantsNearlyOrdered
  <2> QED
    BY <2>2, <2>3, <2>5, <2>7 DEF IInv
<1>4. CASE UNCHANGED vars
  <2>1. /\ UNCHANGED clients /\ UNCHANGED hits /\ UNCHANGED clock /\ UNCHANGED reading
        /\ UNCHANGED lag /\ UNCHANGED granted /\ UNCHANGED refusal
    BY <1>4 DEF vars
  <2>2. TypeOK'
    BY <1>0, <2>1 DEF TypeOK
  <2>3. ReadingsAreRecent' /\ HitsBookGrants' /\ GrantsNearlyOrdered'
    BY <1>0, <2>1 DEF ReadingsAreRecent, HitsBookGrants, GrantsNearlyOrdered
  <2> QED
    BY <2>2, <2>3 DEF IInv
<1> QED
  BY <1>1, <1>2, <1>3, <1>4 DEF Next

\* The table holds no more clients than it may, each with one to PerHour hits,
\* whatever the clients do and the handlers' order.
THEOREM TypeCorrect == Spec => []TypeOK
<1>1. IInv => TypeOK
  BY DEF IInv
<1> QED
  BY <1>1, InitInv, StepInv, PTL DEF Spec
----------------------------------------------------------------------------
MinuteKept == \A c \in Clients : KeepsBudget(granted[c], Minute, PerMinute)
HourKept == \A c \in Clients : KeepsBudget(granted[c], Hour - lag, PerHour)

\* Only an admission changes what was granted.
LEMMA GrantedChanges ==
  ASSUME IInv, [Next]_vars
  PROVE  /\ lag' = lag
         /\ \/ granted' = granted
            \/ \E c \in Clients, at \in Nat :
                 /\ clock - lag <= at /\ at <= clock
                 /\ Allowed(c, at)
                 /\ granted' = [k \in Clients |-> IF k = c THEN Append(granted[c], at)
                                  ELSE IF k \in ToSet(Tracked(c, at)) THEN granted[k] ELSE <<>>]
<1>1. ASSUME NEW t \in Threads, Check(t)
      PROVE  /\ lag' = lag
             /\ \/ granted' = granted
                \/ \E c \in Clients, at \in Nat :
                     /\ clock - lag <= at /\ at <= clock
                     /\ Allowed(c, at)
                     /\ granted' = [k \in Clients |-> IF k = c THEN Append(granted[c], at)
                                      ELSE IF k \in ToSet(Tracked(c, at)) THEN granted[k] ELSE <<>>]
  <2>1. lag' = lag
    BY <1>1, CheckOutcome
  <2>2. PICK c \in Clients, at \in Nat :
          /\ clock - lag <= at /\ at <= clock
          /\ \/ RefusedForMinute(c, at) \/ RefusedForHour(c, at) \/ Allowed(c, at)
    BY <1>1, CheckOutcome
  <2>3. CASE RefusedForMinute(c, at) \/ RefusedForHour(c, at)
    BY <2>1, <2>2, <2>3, RefusedChanges
  <2>4. CASE Allowed(c, at)
    <3>1. granted' = [k \in Clients |-> IF k = c THEN Append(granted[c], at)
                        ELSE IF k \in ToSet(Tracked(c, at)) THEN granted[k] ELSE <<>>]
      BY <2>2, <2>4, AllowedChanges
    <3> QED
      BY <2>1, <2>2, <2>4, <3>1
  <2> QED
    BY <2>2, <2>3, <2>4
<1>2. ASSUME NEW t \in Threads, NEW c \in Clients, ReadClock(t, c)
      PROVE  lag' = lag /\ granted' = granted
  BY <1>2 DEF ReadClock
<1>3. CASE Tick
  BY <1>3 DEF Tick
<1>4. CASE UNCHANGED vars
  BY <1>4 DEF vars
<1> QED
  BY <1>1, <1>2, <1>3, <1>4 DEF Next

\* An admission keeps a budget of which the recent hits leave some, if what the
\* deque no longer holds is outside its window.
LEMMA AdmissionKeeps ==
  ASSUME IInv, NEW c \in Clients, NEW at \in Nat, clock - lag <= at, at <= clock,
         NEW width \in Int, NEW budget \in Nat, width <= Hour - lag,
         Cardinality({j \in 1 .. Len(Recent(c, at)) : Recent(c, at)[j] > at - width}) < budget,
         KeepsBudget(granted[c], width, budget)
  PROVE  KeepsBudget(Append(granted[c], at), width, budget)
<1> DEFINE g == granted[c]
           h == Recent(c, at)
<1>1. h \in Seq(Nat) /\ Booked(g, h, clock)
  BY RecentHits
<1>2. /\ g \in Seq(Nat) /\ clock \in Nat /\ lag \in Nat /\ Hour \in Nat
  BY LimiterAssumption DEF LimiterAssumption, IInv, TypeOK
<1>3. /\ KeepsBudget(g, width, budget)
      /\ Cardinality({j \in 1 .. Len(h) : h[j] > at - width}) < budget
  OBVIOUS
<1> HIDE DEF g, h
<1>4. PICK d \in Nat : EndsWith(g, h, d) /\ \A i \in 1 .. d : g[i] <= clock - Hour
  BY <1>1 DEF Booked
<1>5. \A i \in 1 .. d : g[i] <= at - width
  <2>1. clock - Hour <= at - width
    BY <1>2
  <2>2. \A i \in 1 .. d : g[i] \in Nat
    BY <1>1, <1>2, <1>4 DEF EndsWith
  <2> QED
    BY <1>2, <1>4, <2>1, <2>2
<1>6. KeepsBudget(Append(g, at), width, budget)
  BY <1>1, <1>2, <1>3, <1>4, <1>5, OneMoreGrant
<1> QED
  BY <1>6 DEF g

\* No grants, no use of a budget.
LEMMA NothingGranted ==
  ASSUME NEW width, NEW budget
  PROVE  KeepsBudget(<<>>, width, budget)
<1>1. Len(<<>>) = 0
  OBVIOUS
<1> QED
  BY <1>1 DEF KeepsBudget

LEMMA HourStep ==
  ASSUME IInv, HourKept, [Next]_vars
  PROVE  HourKept'
<1>1. CASE granted' = granted
  BY <1>1, GrantedChanges DEF HourKept
<1>2. CASE granted' # granted
  <2>1. PICK c \in Clients, at \in Nat :
          /\ clock - lag <= at /\ at <= clock
          /\ Allowed(c, at)
          /\ granted' = [k \in Clients |-> IF k = c THEN Append(granted[c], at)
                           ELSE IF k \in ToSet(Tracked(c, at)) THEN granted[k] ELSE <<>>]
    BY <1>2, GrantedChanges
  <2> DEFINE width == Hour - lag
  <2>2. width \in Int /\ width <= Hour - lag /\ PerHour \in Nat
    BY LimiterAssumption DEF LimiterAssumption, IInv, TypeOK
  <2>3. Cardinality({j \in 1 .. Len(Recent(c, at)) : Recent(c, at)[j] > at - width}) < PerHour
    <3> DEFINE h == Recent(c, at)
               P == {j \in 1 .. Len(h) : h[j] > at - width}
    <3>1. h \in Seq(Nat) /\ Len(h) < PerHour
      BY <2>1, RecentHits, AllowedChanges
    <3>2. P \in SUBSET (1 .. Len(h))
      OBVIOUS
    <3> HIDE DEF h, P
    <3>3. Len(h) \in Nat
      BY <3>1
    <3>4. Cardinality(P) \in Nat /\ Cardinality(P) <= Len(h)
      BY <3>2, <3>3, PositionsFinite
    <3>5. Cardinality(P) < PerHour
      BY <2>2, <3>1, <3>3, <3>4
    <3> QED
      BY <3>5 DEF P, h
  <2>4. KeepsBudget(granted[c], width, PerHour)
    BY DEF HourKept
  <2>5. KeepsBudget(Append(granted[c], at), width, PerHour)
    <3> HIDE DEF width
    <3> QED
      BY <2>1, <2>2, <2>3, <2>4, AdmissionKeeps
  <2>6. KeepsBudget(<<>>, width, PerHour)
    BY NothingGranted
  <2>7. \A k \in Clients : KeepsBudget(granted'[k], width, PerHour)
    <3> HIDE DEF width
    <3>1. \A k \in Clients : KeepsBudget(granted[k], width, PerHour)
      BY DEF HourKept, width
    <3> QED
      BY <2>1, <2>5, <2>6, <3>1
  <2>8. lag' = lag
    BY GrantedChanges
  <2> QED
    BY <2>7, <2>8 DEF HourKept
<1> QED
  BY <1>1, <1>2

LEMMA MinuteStep ==
  ASSUME Minute + lag <= Hour, IInv, MinuteKept, [Next]_vars
  PROVE  MinuteKept'
<1>1. CASE granted' = granted
  BY <1>1 DEF MinuteKept
<1>2. CASE granted' # granted
  <2>1. PICK c \in Clients, at \in Nat :
          /\ clock - lag <= at /\ at <= clock
          /\ Allowed(c, at)
          /\ granted' = [k \in Clients |-> IF k = c THEN Append(granted[c], at)
                           ELSE IF k \in ToSet(Tracked(c, at)) THEN granted[k] ELSE <<>>]
    BY <1>2, GrantedChanges
  <2>2. Minute \in Int /\ Minute <= Hour - lag /\ PerMinute \in Nat
    BY LimiterAssumption DEF LimiterAssumption, IInv, TypeOK
  <2>3. Cardinality({j \in 1 .. Len(Recent(c, at)) : Recent(c, at)[j] > at - Minute}) < PerMinute
    <3> DEFINE h == Recent(c, at)
    <3>1. h \in Seq(Nat) /\ InMinute(h, at) < PerMinute
      BY <2>1, RecentHits, AllowedChanges
    <3> HIDE DEF h
    <3>2. InMinute(h, at) = Cardinality({j \in 1 .. Len(h) : h[j] > at - Minute})
      BY <3>1, MinuteHits
    <3> QED
      BY <3>1, <3>2 DEF h
  <2>4. KeepsBudget(granted[c], Minute, PerMinute)
    BY DEF MinuteKept
  <2>5. KeepsBudget(Append(granted[c], at), Minute, PerMinute)
    BY <2>1, <2>2, <2>3, <2>4, AdmissionKeeps
  <2>6. KeepsBudget(<<>>, Minute, PerMinute)
    BY NothingGranted
  <2> QED
    BY <2>1, <2>5, <2>6 DEF MinuteKept
<1> QED
  BY <1>1, <1>2

\* What Admitted counts.
LEMMA AdmittedWithin ==
  ASSUME IInv, NEW c \in Clients
  PROVE  /\ \A from, to : Admitted(c, from, to) = Cardinality(Within(granted[c], from, to))
         /\ ToSet(granted[c]) = {granted[c][i] : i \in 1 .. Len(granted[c])}
<1>1. DOMAIN granted[c] = 1 .. Len(granted[c])
  BY DEF IInv, TypeOK
<1> QED
  BY <1>1 DEF Admitted, Within, ToSet

\* A client is admitted at most PerMinute times within any minute, although the
\* readings of the clock are used out of order, provided that no handler waits
\* for the lock so long that a minute more makes an hour.
THEOREM MinuteBudgetHolds == Minute + MaxLag <= Hour => (Spec => []MinuteBudget)
<1> SUFFICES ASSUME Minute + MaxLag <= Hour
             PROVE  Spec => []MinuteBudget
  OBVIOUS
<1>1. Init => IInv /\ MinuteKept
  <2>1. Init => \A c \in Clients : granted[c] = <<>>
    BY DEF Init
  <2> QED
    BY <2>1, InitInv, NothingGranted DEF MinuteKept
<1>2. IInv /\ MinuteKept /\ [Next]_vars => (IInv /\ MinuteKept)'
  <2> SUFFICES ASSUME IInv, MinuteKept, [Next]_vars
               PROVE  IInv' /\ MinuteKept'
    OBVIOUS
  <2>1. Minute + lag <= Hour
    BY LimiterAssumption DEF LimiterAssumption, IInv, TypeOK
  <2> QED
    BY <2>1, StepInv, MinuteStep
<1>3. IInv /\ MinuteKept => MinuteBudget
  <2> SUFFICES ASSUME IInv, MinuteKept, NEW c \in Clients, NEW i \in 1 .. Len(granted[c])
               PROVE  Admitted(c, granted[c][i] - Minute, granted[c][i]) <= PerMinute
    BY AdmittedWithin DEF MinuteBudget
  <2> QED
    BY AdmittedWithin DEF MinuteKept, KeepsBudget
<1> QED
  BY <1>1, <1>2, <1>3, PTL DEF Spec

\* And at most PerHour times within an hour less the longest wait for the lock.
THEOREM HourBudgetHolds == Spec => []HourBudgetLessLag
<1>1. Init => IInv /\ HourKept
  <2>1. Init => \A c \in Clients : granted[c] = <<>>
    BY DEF Init
  <2> QED
    BY <2>1, InitInv, NothingGranted DEF HourKept
<1>2. IInv /\ HourKept /\ [Next]_vars => (IInv /\ HourKept)'
  BY StepInv, HourStep
<1>3. IInv /\ HourKept => HourBudgetLessLag
  <2> SUFFICES ASSUME IInv, HourKept, NEW c \in Clients, NEW i \in 1 .. Len(granted[c])
               PROVE  Admitted(c, granted[c][i] - Hour + lag, granted[c][i]) <= PerHour
    BY AdmittedWithin DEF HourBudgetLessLag
  <2>1. granted[c][i] - Hour + lag = granted[c][i] - (Hour - lag)
    BY LimiterAssumption DEF LimiterAssumption, IInv, TypeOK
  <2> QED
    BY <2>1, AdmittedWithin DEF HourKept, KeepsBudget
<1> QED
  BY <1>1, <1>2, <1>3, PTL DEF Spec
----------------------------------------------------------------------------
\* The last hit of a tracked client is a moment.
LEMMA LastSeenTyped ==
  ASSUME IInv, NEW c \in ToSet(clients)
  PROVE  LastSeen(c) \in Nat
<1> DEFINE s == hits[c]
<1>1. s \in Seq(Nat) /\ Len(s) \in 1 .. PerHour /\ PerHour \in Nat
  BY LimiterAssumption DEF LimiterAssumption, IInv, TypeOK
<1> HIDE DEF s
<1>2. s[Len(s)] \in Nat
  BY <1>1
<1> QED
  BY <1>2 DEF LastSeen, Last, s

\* A client that was seen within the hour is dropped only if all were.
LEMMA EvictionSpares ==
  ASSUME IInv, NEW at \in Nat, clock - lag <= at, at <= clock,
         NEW c \in ToSet(clients), c \notin ToSet(Evicted(at)), LastSeen(c) > clock - Hour
  PROVE  /\ Len(clients) = MaxClients
         /\ \A k \in ToSet(clients) : LastSeen(k) > clock - lag - Hour
         /\ c = Head(clients)
<1> DEFINE kept == Evicted(at)
           rest == Restricted(clients, Live(at))
<1>0. /\ clients \in Orders(Clients) /\ Len(clients) \in Nat /\ Len(clients) <= MaxClients
      /\ MaxClients \in Nat \ {0} /\ clock \in Nat /\ lag \in Nat /\ Hour \in Nat
      /\ clients \in Seq(Clients)
      /\ \A k \in ToSet(clients) : LastSeen(k) \in Nat
  <2>1. \A k \in ToSet(clients) : LastSeen(k) \in Nat
    BY LastSeenTyped
  <2>2. clients \in Orders(Clients) /\ Len(clients) <= MaxClients /\ clock \in Nat /\ lag \in Nat
    BY LimiterAssumption DEF LimiterAssumption, IInv, TypeOK
  <2>3. clients \in Seq(Clients) /\ Len(clients) \in Nat
    BY <2>2, OrderElements
  <2> QED
    BY <2>1, <2>2, <2>3, LimiterAssumption DEF LimiterAssumption
<1>1. ~ (Len(clients) < MaxClients) /\ kept = KeepNewest(rest, MaxClients - 1)
  BY DEF Evicted
<1>2. /\ rest \in Orders(Clients) /\ Len(rest) <= Len(clients)
      /\ ToSet(rest) = ToSet(clients) \cap Live(at)
      /\ Len(rest) = Len(clients) => rest = clients
  BY <1>0, RestrictedOrder
<1>3. Live(at) = {k \in ToSet(clients) : LastSeen(k) > at - Hour}
  BY DEF Live, LastSeen
<1>4. c \in Live(at)
  BY <1>0, <1>3
<1> HIDE DEF kept, rest
<1>5. Len(rest) \in Nat /\ ToSet(rest) = {rest[i] : i \in 1 .. Len(rest)}
  BY <1>2, OrderElements
<1>6. Len(rest) > MaxClients - 1
  <2>1. CASE ~ (Len(rest) > MaxClients - 1)
    <3>1. kept = rest
      BY <1>1, <2>1 DEF KeepNewest
    <3> QED
      BY <1>2, <1>4, <3>1 DEF kept
  <2> QED
    BY <2>1
<1>7. Len(clients) = MaxClients /\ rest = clients
  BY <1>0, <1>2, <1>5, <1>6
<1>8. \A k \in ToSet(clients) : LastSeen(k) > clock - lag - Hour
  <2> SUFFICES ASSUME NEW k \in ToSet(clients)
               PROVE  LastSeen(k) > clock - lag - Hour
    OBVIOUS
  <2>1. LastSeen(k) > at - Hour /\ LastSeen(k) \in Nat
    BY <1>0, <1>2, <1>3, <1>7
  <2> QED
    BY <1>0, <2>1
<1>9. c = Head(clients)
  <2>1. kept = SubSeq(rest, 1 + 1, Len(rest))
    BY <1>0, <1>1, <1>5, <1>6, <1>7 DEF KeepNewest
  <2>2. 1 \in 0 .. Len(rest)
    BY <1>0, <1>5, <1>7
  <2>3. /\ kept \in Orders(Clients) /\ Len(kept) = Len(rest) - 1
        /\ \A i \in 1 .. Len(kept) : kept[i] = rest[i + 1]
    <3> DEFINE n == 1
    <3>1. n \in 0 .. Len(rest) /\ kept = SubSeq(rest, n + 1, Len(rest))
      BY <2>1, <2>2
    <3> HIDE DEF n
    <3>2. /\ kept \in Orders(Clients) /\ Len(kept) = Len(rest) - n
          /\ \A i \in 1 .. Len(kept) : kept[i] = rest[i + n]
      BY <1>2, <3>1, SuffixOfOrder
    <3> QED
      BY <3>2 DEF n
  <2>4. ToSet(kept) = {kept[i] : i \in 1 .. Len(kept)}
    BY <2>3, OrderElements
  <2>5. PICK i \in 1 .. Len(rest) : rest[i] = c
    BY <1>2, <1>4, <1>5
  <2>6. i = 1
    <3> SUFFICES ASSUME i # 1 PROVE FALSE
      OBVIOUS
    <3>1. i - 1 \in 1 .. Len(kept) /\ (i - 1) + 1 = i
      BY <1>5, <2>3, <2>5
    <3>2. kept[i - 1] = c
      BY <2>3, <2>5, <3>1
    <3> QED
      BY <2>4, <3>1, <3>2 DEF kept
  <2> QED
    BY <1>0, <1>7, <2>5, <2>6
<1> QED
  BY <1>7, <1>8, <1>9

\* Which clients a step may drop.
LEMMA DroppedClients ==
  ASSUME IInv, [Next]_vars, NEW c \in ToSet(clients) \ ToSet(clients')
  PROVE  \E at \in Nat : clock - lag <= at /\ at <= clock /\ c \notin ToSet(Evicted(at))
<1>1. PICK t \in Threads : Check(t)
  BY DEF Next, ReadClock, Tick, vars
<1>2. PICK k \in Clients, at \in Nat :
        /\ clock - lag <= at /\ at <= clock
        /\ \/ RefusedForMinute(k, at) \/ RefusedForHour(k, at) \/ Allowed(k, at)
  BY <1>1, CheckOutcome
<1>3. ~ (RefusedForMinute(k, at) \/ RefusedForHour(k, at))
  BY <1>2, RefusedChanges
<1>4. clients' = Tracked(k, at)
  BY <1>2, <1>3, AllowedChanges
<1>5. k \notin ToSet(clients)
  BY <1>4, TrackedClients
<1>6. clients' = Append(Evicted(at), k) /\ Evicted(at) \in Seq(Clients)
  BY <1>4, <1>5, EvictedClients, OrderElements DEF Tracked
<1>7. ToSet(Evicted(at)) \subseteq ToSet(clients')
  <2> DEFINE s == Evicted(at)
             s2 == Append(s, k)
  <2>1. s \in Seq(Clients) /\ clients' = s2
    BY <1>6
  <2> HIDE DEF s
  <2>2. /\ DOMAIN s = 1 .. Len(s) /\ DOMAIN s2 = 1 .. Len(s) + 1 /\ Len(s) \in Nat
        /\ \A i \in 1 .. Len(s) : s2[i] = s[i]
    BY <2>1
  <2> HIDE DEF s2
  <2>3. ToSet(s) \subseteq ToSet(s2)
    BY <2>2 DEF ToSet
  <2> QED
    BY <2>1, <2>3 DEF s
<1> QED
  BY <1>2, <1>7

\* A client with a hit in the last hour is forgotten, and given its budget anew,
\* only to make room in a table full of such clients, and only if it has not
\* been seen for longest.
THEOREM LiveClientsStay == Spec => LiveClientsKept
<1>1. IInv /\ [Next]_vars =>
        [\A c \in ToSet(clients) \ ToSet(clients') :
           LastSeen(c) > clock - Hour =>
             /\ Len(clients) = MaxClients
             /\ \A k \in ToSet(clients) : LastSeen(k) > clock - lag - Hour
             /\ c = Head(clients)]_vars
  <2> SUFFICES ASSUME IInv, [Next]_vars, NEW c \in ToSet(clients) \ ToSet(clients'),
                      LastSeen(c) > clock - Hour
               PROVE  /\ Len(clients) = MaxClients
                      /\ \A k \in ToSet(clients) : LastSeen(k) > clock - lag - Hour
                      /\ c = Head(clients)
    OBVIOUS
  <2>1. PICK at \in Nat : clock - lag <= at /\ at <= clock /\ c \notin ToSet(Evicted(at))
    BY DroppedClients
  <2> QED
    BY <2>1, EvictionSpares
<1> QED
  BY <1>1, InitInv, StepInv, PTL DEF Spec, LiveClientsKept
----------------------------------------------------------------------------
\* A refusal of c in a step is that of its handler's check.
LEMMA RefusedIsChecked ==
  ASSUME IInv, [Next]_vars, NEW c \in Clients, NEW at \in Nat, Refused(c, at)
  PROVE  /\ clock - lag <= at /\ at <= clock
         /\ RefusedForMinute(c, at) \/ RefusedForHour(c, at)
<1>1. PICK t \in Threads : reading[t] = [client |-> c, at |-> at] /\ reading'[t] = Idle
  BY DEF Refused
<1>2. reading[t] # Idle /\ reading'[t] # reading[t]
  BY <1>1, LimiterAssumption DEF LimiterAssumption
<1>3. reading \in [Threads -> [client : Clients, at : Nat] \cup {Idle}]
  BY DEF IInv, TypeOK
<1>4. PICK u \in Threads : Check(u)
  <2>1. ASSUME NEW u \in Threads, NEW k \in Clients, ReadClock(u, k)
        PROVE  FALSE
    <3>1. reading[u] = Idle /\ reading' = [reading EXCEPT ![u] = [client |-> k, at |-> clock]]
      BY <2>1 DEF ReadClock
    <3>2. u # t
      BY <1>2, <3>1
    <3> QED
      BY <1>2, <1>3, <3>1, <3>2
  <2>2. CASE Tick
    BY <1>2, <2>2 DEF Tick
  <2>3. CASE UNCHANGED vars
    BY <1>2, <2>3 DEF vars
  <2> QED
    BY <2>1, <2>2, <2>3 DEF Next
<1>5. PICK k \in Clients, m \in Nat :
        /\ reading[u] = [client |-> k, at |-> m] /\ clock - lag <= m /\ m <= clock
        /\ \/ RefusedForMinute(k, m) \/ RefusedForHour(k, m) \/ Allowed(k, m)
  BY <1>4, CheckOutcome
<1>6. reading' = [reading EXCEPT ![u] = Idle]
  BY <1>4, CheckOutcome
<1>7. u = t
  BY <1>2, <1>3, <1>6
<1>8. k = c /\ m = at
  BY <1>1, <1>5, <1>7
<1>9. ~ Allowed(c, at)
  BY <1>5, <1>8, AllowedChanges DEF Refused
<1> QED
  BY <1>5, <1>8, <1>9

\* What the hits count, the grants of the same window count, too.
LEMMA HitsAreAdmitted ==
  ASSUME NEW g \in Seq(Nat), NEW h \in Seq(Nat), NEW d \in Nat, EndsWith(g, h, d),
         NEW from \in Int, NEW to \in Int, NEW P \in SUBSET (1 .. Len(h)),
         \A j \in P : h[j] > from /\ h[j] <= to
  PROVE  Cardinality(P) <= Cardinality(Within(g, from, to))
<1> DEFINE Q == {d + j : j \in P}
<1>1. /\ Len(g) \in Nat /\ Len(h) \in Nat /\ Len(g) = d + Len(h)
      /\ \A j \in 1 .. Len(h) : h[j] = g[d + j]
  BY DEF EndsWith
<1>2. Cardinality(Q) = Cardinality(P)
  BY <1>1, ShiftedPositions
<1>3. Q \subseteq Within(g, from, to)
  <2> SUFFICES ASSUME NEW j \in P
               PROVE  d + j \in Within(g, from, to)
    OBVIOUS
  <2>1. j \in 1 .. Len(h) /\ h[j] > from /\ h[j] <= to
    OBVIOUS
  <2>2. d + j \in 1 .. Len(g) /\ g[d + j] = h[j]
    BY <1>1, <2>1
  <2> QED
    BY <2>1, <2>2 DEF Within
<1>4. Within(g, from, to) \in SUBSET (1 .. Len(g))
  BY DEF Within
<1>5. IsFiniteSet(Within(g, from, to))
  BY <1>1, <1>4, PositionsFinite
<1> HIDE DEF Q
<1> QED
  BY <1>2, <1>3, <1>5, FS_Subset

\* A client is refused only while its admissions use up one of its budgets: a
\* refusal charges nothing.
THEOREM RefusalsHaveReason == Spec => RefusedOnlyOverBudget
<1>1. ASSUME IInv, [Next]_vars, NEW c \in Clients, NEW at \in clock - lag .. clock,
             Refused(c, at)
      PROVE  \/ Admitted(c, at - Minute, clock) >= PerMinute
             \/ Admitted(c, at - Hour - lag, clock) >= PerHour
  <2>0. /\ clock \in Nat /\ lag \in Nat /\ at \in Int /\ granted[c] \in Seq(Nat)
        /\ Minute \in Nat /\ Hour \in Nat /\ PerMinute \in Nat /\ PerHour \in Nat \ {0}
    BY <1>1, LimiterAssumption DEF LimiterAssumption, IInv, TypeOK
  <2>1. at \in Nat
    <3>1. PICK t \in Threads : reading[t] = [client |-> c, at |-> at]
      BY <1>1 DEF Refused
    <3>2. reading[t] \in [client : Clients, at : Nat]
      <4>1. reading[t] \in [client : Clients, at : Int]
        BY <2>0, <3>1
      <4>2. reading[t] # Idle
        BY <4>1, LimiterAssumption DEF LimiterAssumption
      <4> QED
        BY <1>1, <4>2 DEF IInv, TypeOK
    <3>3. reading[t].at \in Nat /\ reading[t].at = at
      BY <3>1, <3>2
    <3> QED
      BY <3>3
  <2>2. /\ clock - lag <= at /\ at <= clock
        /\ RefusedForMinute(c, at) \/ RefusedForHour(c, at)
    BY <1>1, <2>1, RefusedIsChecked
  <2> DEFINE g == granted[c]
             h == Recent(c, at)
  <2>3. /\ h \in Seq(Nat) /\ Booked(g, h, clock)
        /\ Len(h) > 0 => h[1] > at - Hour
    BY <1>1, <2>1, <2>2, RecentHits
  <2>4. PICK d \in Nat : EndsWith(g, h, d)
    BY <2>3 DEF Booked
  <2>5. g \in Seq(Nat) /\ NearlyOrdered(g, clock, lag)
    BY <1>1, <2>0 DEF IInv, GrantsNearlyOrdered
  <2>6. \A from, to : Admitted(c, from, to) = Cardinality(Within(g, from, to))
    BY <1>1, AdmittedWithin
  <2>7. RefusedForMinute(c, at) => InMinute(h, at) >= PerMinute
    BY DEF RefusedForMinute
  <2>8. RefusedForHour(c, at) => Len(h) >= PerHour
    BY DEF RefusedForHour
  <2> HIDE DEF g, h
  <2>9. /\ Len(g) \in Nat /\ Len(h) \in Nat /\ Len(g) = d + Len(h)
        /\ \A j \in 1 .. Len(h) : h[j] = g[d + j] /\ h[j] \in Nat /\ h[j] <= clock
    BY <2>3, <2>4, <2>5 DEF EndsWith, NearlyOrdered
  <2>10. CASE RefusedForMinute(c, at)
    <3> DEFINE P == {j \in 1 .. Len(h) : h[j] > at - Minute}
    <3>1. InMinute(h, at) = Cardinality(P) /\ InMinute(h, at) \in Nat
      <4>1. InMinute(h, at) = Cardinality(P)
        BY <2>1, <2>3, MinuteHits
      <4>2. P \in SUBSET (1 .. Len(h))
        OBVIOUS
      <4> HIDE DEF P
      <4> QED
        BY <2>9, <4>1, <4>2, PositionsFinite
    <3>2. P \in SUBSET (1 .. Len(h)) /\ \A j \in P : h[j] > at - Minute /\ h[j] <= clock
      BY <2>9
    <3>3. at - Minute \in Int /\ clock \in Int
      BY <2>0
    <3> HIDE DEF P
    <3>4. Cardinality(P) <= Cardinality(Within(g, at - Minute, clock))
      BY <2>3, <2>4, <2>5, <3>2, <3>3, HitsAreAdmitted
    <3>5. Cardinality(Within(g, at - Minute, clock)) \in Nat
      <4>1. Within(g, at - Minute, clock) \in SUBSET (1 .. Len(g))
        BY DEF Within
      <4> QED
        BY <2>9, <4>1, PositionsFinite
    <3> QED
      BY <2>0, <2>6, <2>7, <2>10, <3>1, <3>4, <3>5
  <2>11. CASE RefusedForHour(c, at)
    <3> DEFINE P == 1 .. Len(h)
               from == at - Hour - lag
    <3>1. Len(h) > 0 /\ h[1] > at - Hour /\ Len(h) >= PerHour
      BY <2>0, <2>3, <2>8, <2>9, <2>11
    <3>2. \A j \in P : h[j] > from /\ h[j] <= clock
      <4> SUFFICES ASSUME NEW j \in 1 .. Len(h), j # 1
                   PROVE  h[j] > at - Hour - lag
        BY <2>0, <2>9, <3>1
      <4>1. d + 1 \in 1 .. Len(g) /\ d + j \in 1 .. Len(g) /\ d + 1 < d + j
        BY <2>9, <3>1
      <4>2. g[d + 1] - lag <= g[d + j]
        BY <2>5, <4>1 DEF NearlyOrdered
      <4>3. h[1] - lag <= h[j] /\ h[1] \in Nat /\ h[j] \in Nat
        BY <2>9, <3>1, <4>2
      <4> QED
        BY <2>0, <3>1, <4>3
    <3>3. from \in Int /\ clock \in Int /\ P \in SUBSET (1 .. Len(h))
      BY <2>0
    <3>4. Cardinality(P) = Len(h)
      BY <2>9, <3>1, FS_Interval
    <3> HIDE DEF P, from
    <3>5. Cardinality(P) <= Cardinality(Within(g, from, clock))
      BY <2>3, <2>4, <2>5, <3>2, <3>3, HitsAreAdmitted
    <3>6. Cardinality(Within(g, from, clock)) \in Nat
      <4>1. Within(g, from, clock) \in SUBSET (1 .. Len(g))
        BY DEF Within
      <4> QED
        BY <2>9, <4>1, PositionsFinite
    <3>7. Admitted(c, from, clock) >= PerHour
      BY <2>0, <2>6, <2>9, <3>1, <3>4, <3>5, <3>6
    <3> QED
      BY <3>7 DEF from
  <2> QED
    BY <2>2, <2>10, <2>11
<1>2. IInv /\ [Next]_vars =>
        [\A c \in Clients : \A at \in clock - lag .. clock : Refused(c, at) =>
           \/ Admitted(c, at - Minute, clock) >= PerMinute
           \/ Admitted(c, at - Hour - lag, clock) >= PerHour]_vars
  BY <1>1
<1> QED
  BY <1>2, InitInv, StepInv, PTL DEF Spec, RefusedOnlyOverBudget
----------------------------------------------------------------------------
\* When the last budget of the grants g leaves its window, and what _reject makes of
\* it: a moment that has come later, by a second at most.
Deadline(g, budget, width) == g[Len(g) - budget + 1] + width

Rounded(moment, deadline) ==
  moment \in Nat /\ deadline \in Nat /\ deadline < moment /\ moment <= deadline + Second

\* Where no handler is overtaken, the first refusal of a client names that moment.
RefusalsNameDeadlines ==
  \A c \in Clients :
    /\ refusal[c].window = "minute" =>
         Rounded(refusal[c].first, Deadline(granted[c], PerMinute, Minute))
    /\ refusal[c].window = "hour" =>
         Rounded(refusal[c].first, Deadline(granted[c], PerHour, Hour))

\* c is refused for a window that ends at the deadline: only its refusal changes, and
\* a first one for this window names the same moment as the last.
NamesDeadline(c, window, deadline) ==
  /\ \A k \in Clients \ {c} : refusal'[k] = refusal[k]
  /\ refusal'[c].window = window /\ Rounded(refusal'[c].until, deadline)
  /\ refusal'[c].first = IF refusal[c].window = window THEN refusal[c].first
                                                       ELSE refusal'[c].until

\* _reject rounds the rest of a window up to whole seconds.
LEMMA RestRoundedUp ==
  ASSUME IInv, NEW c \in Clients, NEW at \in Nat, NEW window, NEW deadline \in Nat,
         at < deadline, Refuse(c, at, window, deadline - at)
  PROVE  NamesDeadline(c, window, deadline)
<1> DEFINE w == deadline - at
           q == w \div Second
           moment == at + (q + 1) * Second
           first == IF refusal[c].window = window THEN refusal[c].first ELSE moment
<1>1. w \in Nat \ {0} /\ Second \in Nat \ {0}
  BY LimiterAssumption
<1> HIDE DEF w
<1>2. q \in Int /\ Second * q <= w /\ w < Second * q + Second
  BY <1>1, SecondsFit
<1>3. q \in Nat /\ (q + 1 > 1 => q # 0) /\ (IF q + 1 > 1 THEN q + 1 ELSE 1) = q + 1
  <2> HIDE DEF q
  <2>1. ASSUME q < 0 PROVE FALSE
    <3>1. Second * q <= -Second
      BY <1>1, <1>2, <2>1
    <3> DEFINE x == Second * q
    <3>2. x \in Int
      BY <1>1, <1>2
    <3> HIDE DEF x
    <3> QED
      BY <1>1, <1>2, <3>1, <3>2 DEF x
  <2> QED
    BY <1>2, <2>1
<1>4. refusal' = [refusal EXCEPT ![c] = [window |-> window, first |-> first, until |-> moment]]
  BY <1>3 DEF Refuse, Tell, w
<1>5. Rounded(moment, deadline)
  <2> HIDE DEF q
  <2> DEFINE x == Second * q
  <2>1. x \in Int /\ (q + 1) * Second = x + Second
    BY <1>1, <1>2
  <2>2. x <= w /\ w < x + Second /\ w = deadline - at
    BY <1>2 DEF w
  <2> HIDE DEF x
  <2> QED
    BY <1>1, <2>1, <2>2 DEF Rounded
<1> HIDE DEF moment
<1>6. refusal \in [Clients -> [window : Windows, first : Nat, until : Nat]]
  BY DEF IInv, TypeOK
<1> QED
  BY <1>4, <1>5, <1>6 DEF NamesDeadline

\* A refusal for the minute, where no handler is overtaken: exactly PerMinute
\* hits are left in it, and the first of them opens it again.
LEMMA MinuteRefusal ==
  ASSUME IInv, MinuteKept, lag = 0, NEW c \in Clients, NEW at \in Nat, at = clock,
         RefusedForMinute(c, at)
  PROVE  LET deadline == Deadline(granted[c], PerMinute, Minute)
         IN  NamesDeadline(c, "minute", deadline) /\ clock < deadline
<1> DEFINE g == granted[c]
           h == Recent(c, at)
           P == {j \in 1 .. Len(h) : h[j] > at - Minute}
<1>0. /\ clock \in Nat /\ Minute \in Nat /\ PerMinute \in Nat \ {0} /\ g \in Seq(Nat)
      /\ NearlyOrdered(g, clock, 0) /\ KeepsBudget(g, Minute, PerMinute)
  BY LimiterAssumption DEF LimiterAssumption, IInv, TypeOK, GrantsNearlyOrdered, MinuteKept
<1>1. h \in Seq(Nat) /\ Booked(g, h, clock)
  BY RecentHits
<1>2. /\ InMinute(h, at) >= PerMinute
      /\ Refuse(c, at, "minute", h[Len(h) - InMinute(h, at) + 1] + Minute - at)
  BY DEF RefusedForMinute
<1> HIDE DEF g, h
<1>3. PICK d \in Nat : EndsWith(g, h, d)
  BY <1>1 DEF Booked
<1>4. /\ Len(g) \in Nat /\ Len(h) \in Nat /\ Len(g) = d + Len(h)
      /\ \A j \in 1 .. Len(h) : h[j] = g[d + j] /\ h[j] \in Nat /\ h[j] <= clock
      /\ \A i, j \in 1 .. Len(h) : i < j => h[i] <= h[j]
  <2>1. Len(g) \in Nat /\ Len(h) \in Nat /\ Len(g) = d + Len(h)
    BY <1>0, <1>1, <1>3 DEF EndsWith
  <2>2. ASSUME NEW j \in 1 .. Len(h)
        PROVE  h[j] = g[d + j] /\ h[j] \in Nat /\ h[j] <= clock
    <3>1. h[j] = g[d + j]
      BY <1>3 DEF EndsWith
    <3>2. d + j \in 1 .. Len(g)
      BY <2>1
    <3>3. h[j] \in Nat
      BY <1>1
    <3>4. \A i \in 1 .. Len(g) : g[i] <= clock
      BY <1>0 DEF NearlyOrdered
    <3> QED
      BY <3>1, <3>2, <3>3, <3>4
  <2>3. ASSUME NEW i \in 1 .. Len(h), NEW j \in 1 .. Len(h), i < j
        PROVE  h[i] <= h[j]
    <3>1. d + i \in 1 .. Len(g) /\ d + j \in 1 .. Len(g) /\ d + i < d + j
      BY <2>1, <2>3
    <3>2. g[d + i] - 0 <= g[d + j]
      BY <1>0, <3>1 DEF NearlyOrdered
    <3> QED
      BY <2>2, <3>2
  <2> QED
    BY <2>1, <2>2, <2>3
<1>5. P \in SUBSET (1 .. Len(h))
  OBVIOUS
<1>6. InMinute(h, at) = Cardinality(P)
  BY <1>1, MinuteHits
<1>7. \A j \in 1 .. Len(h) : j \in P <=> h[j] > at - Minute
  OBVIOUS
<1> HIDE DEF P
<1>8. Cardinality(P) \in Nat /\ Cardinality(P) <= Len(h) /\ Len(h) > 0
  BY <1>0, <1>2, <1>4, <1>5, <1>6, PositionsFinite
<1>9. Cardinality(P) = PerMinute
  <2> DEFINE t == h[Len(h)]
  <2>1. /\ t \in Nat /\ t <= clock /\ t = g[Len(g)] /\ Len(g) \in 1 .. Len(g)
        /\ t - Minute \in Int /\ t \in Int
    BY <1>0, <1>4, <1>8
  <2>2. \A j \in P : h[j] > t - Minute /\ h[j] <= t
    <3> SUFFICES ASSUME NEW j \in P
                 PROVE  h[j] > t - Minute /\ h[j] <= t
      OBVIOUS
    <3>1. j \in 1 .. Len(h) /\ h[j] > at - Minute /\ h[j] \in Nat
      BY <1>4, <1>5, <1>7
    <3>2. h[j] <= t
      BY <1>4, <1>8, <3>1
    <3> QED
      BY <1>0, <2>1, <3>1, <3>2
  <2>3. Cardinality(Within(g, t - Minute, t)) <= PerMinute
    BY <1>0, <2>1 DEF KeepsBudget
  <2> HIDE DEF t
  <2>4. Cardinality(P) <= Cardinality(Within(g, t - Minute, t))
    BY <1>0, <1>1, <1>3, <1>5, <2>1, <2>2, HitsAreAdmitted
  <2>5. Cardinality(Within(g, t - Minute, t)) \in Nat
    <3>1. Within(g, t - Minute, t) \in SUBSET (1 .. Len(g))
      BY DEF Within
    <3> QED
      BY <1>4, <3>1, PositionsFinite
  <2> QED
    BY <1>0, <1>2, <1>6, <1>8, <2>3, <2>4, <2>5
<1> DEFINE i == Len(h) - PerMinute + 1
<1>10. i \in 1 .. Len(h) /\ d + i = Len(g) - PerMinute + 1
  BY <1>0, <1>4, <1>8, <1>9
<1>11. h[i] > at - Minute
  <2> SUFFICES ASSUME ~ (h[i] > at - Minute)
               PROVE  FALSE
    OBVIOUS
  <2> DEFINE R == i + 1 .. Len(h)
  <2> HIDE DEF i
  <2>1. ASSUME NEW j \in P
        PROVE  j \in R
    <3>1. j \in 1 .. Len(h) /\ h[j] > at - Minute /\ h[j] \in Nat
      BY <1>4, <1>5, <1>7
    <3>2. ~ (j <= i)
      <4> SUFFICES ASSUME j <= i PROVE FALSE
        OBVIOUS
      <4>1. h[j] <= h[i]
        BY <1>4, <1>10, <3>1
      <4>2. h[i] \in Nat
        BY <1>4, <1>10
      <4> QED
        BY <1>0, <3>1, <4>1, <4>2
    <3> QED
      BY <1>10, <3>1, <3>2
  <2>2. IsFiniteSet(R) /\ Cardinality(R) = PerMinute - 1
    <3> DEFINE a == i + 1
               b == Len(h)
    <3>1. a \in Int /\ b \in Int /\ b - a + 1 = PerMinute - 1 /\ PerMinute - 1 \in Nat
      BY <1>0, <1>4, <1>10 DEF i
    <3> HIDE DEF a, b
    <3>2. IsFiniteSet(a .. b) /\ Cardinality(a .. b) = IF a > b THEN 0 ELSE b - a + 1
      BY <3>1, FS_Interval
    <3>3. (IF a > b THEN 0 ELSE b - a + 1) = PerMinute - 1
      BY <1>0, <3>1
    <3> QED
      BY <3>2, <3>3 DEF a, b
  <2>3. P \in SUBSET R
    BY <2>1
  <2> HIDE DEF R
  <2>4. Cardinality(P) <= Cardinality(R)
    BY <2>2, <2>3, FS_Subset
  <2> QED
    BY <1>0, <1>9, <2>2, <2>4
<1>12. Refuse(c, at, "minute", h[i] + Minute - at)
  BY <1>2, <1>6, <1>9
<1>13. h[i] = g[Len(g) - PerMinute + 1] /\ h[i] \in Nat
  BY <1>4, <1>10
<1> HIDE DEF i
<1> DEFINE deadline == h[i] + Minute
<1>14. deadline \in Nat /\ at \in Nat /\ at < deadline
  BY <1>0, <1>11, <1>13
<1>15. deadline = Deadline(g, PerMinute, Minute)
  BY <1>13 DEF Deadline
<1>16. Refuse(c, at, "minute", deadline - at)
  <2>1. h[i] + Minute - at = deadline - at
    BY <1>0, <1>13
  <2> QED
    BY <1>12, <2>1
<1> HIDE DEF deadline
<1>17. NamesDeadline(c, "minute", deadline)
  BY <1>14, <1>16, RestRoundedUp
<1> QED
  BY <1>14, <1>15, <1>17 DEF g

\* A refusal for the hour.
LEMMA HourRefusal ==
  ASSUME IInv, NEW c \in Clients, NEW at \in Nat, at = clock, RefusedForHour(c, at)
  PROVE  LET deadline == Deadline(granted[c], PerHour, Hour)
         IN  NamesDeadline(c, "hour", deadline) /\ clock < deadline
<1> DEFINE g == granted[c]
           h == Recent(c, at)
<1>0. clock \in Nat /\ Hour \in Nat /\ PerHour \in Nat \ {0} /\ g \in Seq(Nat)
  BY LimiterAssumption DEF LimiterAssumption, IInv, TypeOK
<1>1. /\ h \in Seq(Nat) /\ Booked(g, h, clock) /\ Len(h) <= PerHour
      /\ Len(h) > 0 => h[1] > at - Hour
  BY RecentHits
<1>2. Len(h) >= PerHour /\ Refuse(c, at, "hour", h[1] + Hour - at)
  BY DEF RefusedForHour
<1> HIDE DEF g, h
<1>3. PICK d \in Nat : EndsWith(g, h, d)
  BY <1>1 DEF Booked
<1>4. /\ Len(g) \in Nat /\ Len(h) \in Nat /\ Len(h) = PerHour /\ Len(g) = d + Len(h)
      /\ h[1] = g[d + 1] /\ h[1] \in Nat /\ d + 1 = Len(g) - PerHour + 1
      /\ h[1] > at - Hour
  <2>1. Len(g) \in Nat /\ Len(h) \in Nat /\ Len(h) = PerHour /\ Len(g) = d + Len(h)
    BY <1>0, <1>1, <1>2, <1>3 DEF EndsWith
  <2>2. 1 \in 1 .. Len(h)
    BY <1>0, <2>1
  <2> QED
    BY <1>0, <1>1, <1>3, <2>1, <2>2 DEF EndsWith
<1> DEFINE deadline == h[1] + Hour
<1>5. deadline \in Nat /\ at \in Nat /\ at < deadline
  BY <1>0, <1>4
<1>6. deadline = Deadline(g, PerHour, Hour)
  BY <1>4 DEF Deadline
<1>7. Refuse(c, at, "hour", deadline - at)
  <2>1. h[1] + Hour - at = deadline - at
    BY <1>0, <1>4
  <2> QED
    BY <1>2, <2>1
<1> HIDE DEF deadline
<1>8. NamesDeadline(c, "hour", deadline)
  BY <1>5, <1>7, RestRoundedUp
<1> QED
  BY <1>5, <1>6, <1>8 DEF g

\* What a step does to the refusals, where no handler is overtaken.
LEMMA RefusalStep ==
  ASSUME IInv, lag = 0 => MinuteKept /\ RefusalsNameDeadlines, [Next]_vars
  PROVE  lag' = 0 => MinuteKept' /\ RefusalsNameDeadlines'
<1> SUFFICES ASSUME lag' = 0
             PROVE  MinuteKept' /\ RefusalsNameDeadlines'
  OBVIOUS
<1>1. lag = 0 /\ MinuteKept /\ RefusalsNameDeadlines
  BY GrantedChanges
<1>2. MinuteKept'
  BY <1>1, LimiterAssumption, MinuteStep DEF LimiterAssumption
<1>3. /\ refusal \in [Clients -> [window : Windows, first : Nat, until : Nat]]
      /\ granted \in [Clients -> Seq(Nat)] /\ clock \in Nat
  BY DEF IInv, TypeOK
<1>4. ASSUME granted' = granted, refusal' = refusal
      PROVE  RefusalsNameDeadlines'
  BY <1>1, <1>4 DEF RefusalsNameDeadlines
<1>5. ASSUME NEW t \in Threads, Check(t)
      PROVE  RefusalsNameDeadlines'
  <2>1. PICK c \in Clients, at \in Nat :
          /\ clock - lag <= at /\ at <= clock
          /\ \/ RefusedForMinute(c, at) \/ RefusedForHour(c, at) \/ Allowed(c, at)
    BY <1>5, CheckOutcome
  <2>2. at = clock
    BY <1>1, <1>3, <2>1
  <2>3. CASE RefusedForMinute(c, at)
    <3>1. granted' = granted
      BY <2>1, <2>3, RefusedChanges
    <3>2. NamesDeadline(c, "minute", Deadline(granted[c], PerMinute, Minute))
      BY <1>1, <2>2, <2>3, MinuteRefusal
    <3> QED
      BY <1>1, <1>3, <3>1, <3>2 DEF RefusalsNameDeadlines, NamesDeadline
  <2>4. CASE RefusedForHour(c, at)
    <3>1. granted' = granted
      BY <2>1, <2>4, RefusedChanges
    <3>2. NamesDeadline(c, "hour", Deadline(granted[c], PerHour, Hour))
      BY <2>2, <2>4, HourRefusal
    <3> QED
      BY <1>1, <1>3, <3>1, <3>2 DEF RefusalsNameDeadlines, NamesDeadline
  <2>5. CASE Allowed(c, at)
    <3> DEFINE tracked == ToSet(Tracked(c, at))
    <3>1. granted' = [k \in Clients |-> IF k = c THEN Append(granted[c], at)
                        ELSE IF k \in tracked THEN granted[k] ELSE <<>>]
      BY <2>1, <2>5, AllowedChanges
    <3>2. refusal' = [k \in Clients |-> IF k \in tracked \ {c} THEN refusal[k] ELSE NoRefusal]
      BY <2>5 DEF Allowed, Admit
    <3> HIDE DEF tracked
    <3>3. ASSUME NEW k \in Clients
          PROVE  \/ refusal'[k].window = "none"
                 \/ refusal'[k] = refusal[k] /\ granted'[k] = granted[k]
      BY <3>1, <3>2 DEF NoRefusal
    <3> QED
      BY <1>1, <3>3 DEF RefusalsNameDeadlines
  <2> QED
    BY <2>1, <2>3, <2>4, <2>5
<1>6. ASSUME NEW t \in Threads, NEW c \in Clients, ReadClock(t, c)
      PROVE  granted' = granted /\ refusal' = refusal
  BY <1>6 DEF ReadClock
<1>7. Tick => granted' = granted /\ refusal' = refusal
  BY DEF Tick
<1>8. UNCHANGED vars => granted' = granted /\ refusal' = refusal
  BY DEF vars
<1> QED
  BY <1>2, <1>4, <1>5, <1>6, <1>7, <1>8 DEF Next

\* However often a client asks that was refused for a window, it is told the end of
\* that window, rounded up by less than a second, so that what it was told first is
\* less than a second away and still to come, where no handler is overtaken.
THEOREM DeadlinesHold == Spec => DeadlineHolds
<1> DEFINE Kept == lag = 0 => MinuteKept /\ RefusalsNameDeadlines
<1>1. Init => IInv /\ Kept
  <2>1. Init => /\ \A c \in Clients : granted[c] = <<>>
                /\ \A c \in Clients : refusal[c].window = "none"
    BY DEF Init, NoRefusal
  <2> QED
    BY <2>1, InitInv, NothingGranted DEF MinuteKept, RefusalsNameDeadlines
<1>2. IInv /\ Kept /\ [Next]_vars => (IInv /\ Kept)'
  BY StepInv, RefusalStep
<1> DEFINE Told(c) ==
             LET first == refusal[c].first
             IN  refusal'[c].until \in first - Second + 1 .. first + Second - 1 /\ clock < first
<1>3. ASSUME IInv, Kept, [Next]_vars, NEW c \in Clients, RefusedAgain(c),
             refusal'[c].window = refusal[c].window
      PROVE  Told(c)
  <2>1. /\ lag = 0 /\ Refused(c, clock) /\ MinuteKept /\ RefusalsNameDeadlines
        /\ clock \in Nat /\ Second \in Nat
    BY <1>3, LimiterAssumption DEF RefusedAgain, IInv, TypeOK
  <2>2. ASSUME NEW deadline, Rounded(refusal[c].first, deadline),
               Rounded(refusal'[c].until, deadline), clock < deadline
        PROVE  Told(c)
    <3> DEFINE first == refusal[c].first
               until == refusal'[c].until
    <3>1. /\ first \in Nat /\ until \in Nat /\ deadline \in Nat
          /\ deadline < first /\ first <= deadline + Second
          /\ deadline < until /\ until <= deadline + Second
      BY <2>2 DEF Rounded
    <3> HIDE DEF first, until
    <3>2. until \in first - Second + 1 .. first + Second - 1 /\ clock < first
      BY <2>1, <2>2, <3>1
    <3> QED
      BY <3>2 DEF first, until
  <2>3. RefusedForMinute(c, clock) \/ RefusedForHour(c, clock)
    BY <1>3, <2>1, RefusedIsChecked
  <2> HIDE DEF Told
  <2>4. CASE RefusedForMinute(c, clock)
    <3>1. /\ NamesDeadline(c, "minute", Deadline(granted[c], PerMinute, Minute))
          /\ clock < Deadline(granted[c], PerMinute, Minute)
      BY <1>3, <2>1, <2>4, MinuteRefusal
    <3> QED
      BY <1>3, <2>1, <2>2, <3>1 DEF RefusalsNameDeadlines, NamesDeadline
  <2>5. CASE RefusedForHour(c, clock)
    <3>1. /\ NamesDeadline(c, "hour", Deadline(granted[c], PerHour, Hour))
          /\ clock < Deadline(granted[c], PerHour, Hour)
      BY <1>3, <2>1, <2>5, HourRefusal
    <3> QED
      BY <1>3, <2>1, <2>2, <3>1 DEF RefusalsNameDeadlines, NamesDeadline
  <2> QED
    BY <2>3, <2>4, <2>5
<1>4. IInv /\ Kept /\ [Next]_vars =>
        [\A c \in Clients :
           RefusedAgain(c) /\ refusal'[c].window = refusal[c].window => Told(c)]_vars
  BY <1>3
<1> HIDE DEF Kept
<1> QED
  BY <1>1, <1>2, <1>4, PTL DEF Spec, DeadlineHolds
====
