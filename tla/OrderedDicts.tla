---- MODULE OrderedDicts ----
(****************************************************************************)
(* The key order of a Python OrderedDict, as the conversation store, the    *)
(* lock registry and the rate limiter use it: a sequence of distinct keys,  *)
(* the least recently used first.  The values are kept beside it in a       *)
(* function whose domain is the set of keys.                                *)
(****************************************************************************)
EXTENDS Integers, SequencesExt

\* The orders over a set of keys: sequences in which no key occurs twice.
Orders(K) == {s \in Seq(K) : IsInjective(s)}

\* Where a key stands in an order that holds it.
Position(order, k) == CHOOSE i \in DOMAIN order : order[i] = k

\* order without the key at position p.
WithoutAt(order, p) ==
  [i \in 1 .. Len(order) - 1 |-> IF i < p THEN order[i] ELSE order[i + 1]]

\* d[k] = ... followed by d.move_to_end(k): k becomes the newest key.
MoveToEnd(order, k) ==
  IF k \in ToSet(order)
    THEN Append(WithoutAt(order, Position(order, k)), k)
    ELSE Append(order, k)

\* while len(d) > n: d.popitem(last=False)
KeepNewest(order, n) ==
  IF Len(order) > n THEN SubSeq(order, Len(order) - n + 1, Len(order)) ELSE order

\* for k in ...: del d[k], where the keys in K remain.  SelectSeq would say it
\* too, but the proof system knows nothing of it.
Restricted(order, K) ==
  LET kept[n \in 0 .. Len(order)] ==
        IF n = 0 THEN <<>>
        ELSE IF order[n] \in K THEN Append(kept[n - 1], order[n]) ELSE kept[n - 1]
  IN  kept[Len(order)]

\* How many elements a loop takes that drops the first while it is in stale.
LeadingCount(s, stale) ==
  CHOOSE n \in 0 .. Len(s) : /\ \A i \in 1 .. n : s[i] \in stale
                             /\ n < Len(s) => s[n + 1] \notin stale

\* s after that loop.
DropLeading(s, stale) == SubSeq(s, LeadingCount(s, stale) + 1, Len(s))

\* a was last used before b.
Precedes(order, a, b) ==
  \E i, j \in DOMAIN order : i < j /\ order[i] = a /\ order[j] = b
====
