---- MODULE RateLimiter ----
(****************************************************************************)
(* SlidingWindowRateLimiter of ratelimit.py under concurrent handlers.      *)
(* check reads the clock before it takes the lock, so the reading may be    *)
(* old by the time it is used: reading the clock is one step and the        *)
(* critical section another, and time may pass in between, up to lag.       *)
(*                                                                          *)
(* Time is counted in ticks, so that readings fall between the whole        *)
(* seconds that a refusal names.                                            *)
(*                                                                          *)
(* granted and refusal are history variables, which no step reads: what was *)
(* admitted, and what the last refusal said.                                *)
(****************************************************************************)
EXTENDS Integers, OrderedDicts

CONSTANTS
  Clients,     \* client keys
  Threads,     \* handlers that may be inside check at once
  PerMinute, PerHour, MaxClients,
  Second,      \* ticks of a second
  Minute, Hour,  \* MINUTE_SECONDS and HOUR_SECONDS, in ticks
  MaxLag,      \* bound of lag
  MaxTime,     \* bound of the clock
  Idle         \* a handler outside check

\* What the constructor accepts, and a minute within an hour.
ASSUME LimiterAssumption ==
  /\ PerMinute \in Nat \ {0}
  /\ PerHour \in Nat /\ PerHour >= PerMinute
  /\ MaxClients \in Nat \ {0}
  /\ Second \in Nat \ {0}
  /\ Minute \in Nat \ {0} /\ Hour \in Nat /\ Hour >= Minute
  /\ MaxLag \in Nat /\ MaxTime \in Nat
  /\ Idle \notin [client : Clients, at : Int]

VARIABLES
  clients,  \* keys of _clients, least recently seen first
  hits,     \* client |-> its deque of timestamps
  clock,
  reading,  \* handler |-> its client and its reading of the clock
  lag,      \* the longest wait for the lock after reading the clock
  granted,  \* client |-> readings at which it was admitted, in that order, since
            \* it was last forgotten
  refusal   \* client |-> the window of its last refusal since it was last admitted,
            \* and the moments it was told for it at first and last

vars == <<clients, hits, clock, reading, lag, granted, refusal>>

NoRefusal == [window |-> "none", first |-> 0, until |-> 0]

Init ==
  /\ clients = <<>>
  /\ hits = <<>>
  /\ clock = 0
  /\ lag \in 0 .. MaxLag
  /\ reading = [t \in Threads |-> Idle]
  /\ granted = [c \in Clients |-> <<>>]
  /\ refusal = [c \in Clients |-> NoRefusal]

\* The clients with a hit in the hour before at.
Live(at) == {c \in ToSet(clients) : Last(hits[c]) > at - Hour}

\* Mutants: one client too many, and the least recently seen client first.
EvictedLate(at) ==
  IF Len(clients) < MaxClients + 1 THEN clients
  ELSE KeepNewest(Restricted(clients, Live(at)), MaxClients - 1)

EvictedOldest(at) ==
  IF Len(clients) < MaxClients THEN clients ELSE KeepNewest(clients, MaxClients - 1)

\* _evict: nothing while there is room; else every client whose last hit left
\* the hour, and then the least recently seen until one fits.
Evicted(at) ==
  IF Len(clients) < MaxClients THEN clients
  ELSE KeepNewest(Restricted(clients, Live(at)), MaxClients - 1)

\* The clients after _bucket, c the newest.
Tracked(c, at) ==
  IF c \in ToSet(clients) THEN MoveToEnd(clients, c) ELSE Append(Evicted(at), c)

\* Mutants: the hits of the last minute only, and no hit ever dropped.
RecentMinute(c, at) ==
  IF c \in ToSet(clients)
    THEN DropLeading(hits[c], {h \in ToSet(hits[c]) : h <= at - Minute})
    ELSE <<>>

RecentAll(c, at) == IF c \in ToSet(clients) THEN hits[c] ELSE <<>>

\* The hits of c after _bucket and _drop_before.
Recent(c, at) ==
  IF c \in ToSet(clients)
    THEN DropLeading(hits[c], {h \in ToSet(hits[c]) : h <= at - Hour})
    ELSE <<>>

\* Mutant: a minute that is one tick short.
InMinuteShort(h, at) == Cardinality({i \in DOMAIN h : h[i] > at - Minute + 1})

InMinute(h, at) == Cardinality({i \in DOMAIN h : h[i] > at - Minute})

Update(c, at, h) ==
  /\ clients' = Tracked(c, at)
  /\ hits' = [k \in ToSet(Tracked(c, at)) |-> IF k = c THEN h ELSE hits[k]]

\* Admitted, c is no longer refused; what is known of a forgotten client is void.
Admit(c, at) ==
  LET kept == ToSet(Tracked(c, at)) \ {c}
  IN  /\ granted' = [k \in Clients |-> IF k = c THEN Append(granted[c], at)
                                     ELSE IF k \in kept THEN granted[k] ELSE <<>>]
      /\ refusal' = [k \in Clients |-> IF k \in kept THEN refusal[k] ELSE NoRefusal]

\* c is told to wait so many whole seconds for the window.
Tell(c, at, window, seconds) ==
  LET moment == at + seconds * Second
      first == IF refusal[c].window = window THEN refusal[c].first ELSE moment
  IN  /\ UNCHANGED granted
      /\ refusal' = [refusal EXCEPT ![c] =
                      [window |-> window, first |-> first, until |-> moment]]

\* Mutant: the rest of the window is cut to whole seconds.
RefuseCut(c, at, window, wait) ==
  Tell(c, at, window, IF wait < Second THEN 1 ELSE wait \div Second)

\* _reject: int(retry_after) + 1 seconds, at least one.
Refuse(c, at, window, wait) ==
  LET seconds == wait \div Second + 1
  IN  Tell(c, at, window, IF seconds > 1 THEN seconds ELSE 1)

ReadClock(t, c) ==
  /\ reading[t] = Idle
  /\ reading' = [reading EXCEPT ![t] = [client |-> c, at |-> clock]]
  /\ UNCHANGED <<clients, hits, clock, lag, granted, refusal>>

Check(t) ==
  /\ reading[t] # Idle
  /\ reading' = [reading EXCEPT ![t] = Idle]
  /\ UNCHANGED <<clock, lag>>
  /\ LET c == reading[t].client
         at == reading[t].at
         h == Recent(c, at)
         inHour == Len(h)
         inMinute == InMinute(h, at)
     IN  \/ /\ inMinute >= PerMinute
            /\ Refuse(c, at, "minute", h[inHour - inMinute + 1] + Minute - at)
            /\ Update(c, at, h)
         \/ /\ inMinute < PerMinute /\ inHour >= PerHour
            /\ Refuse(c, at, "hour", h[1] + Hour - at)
            /\ Update(c, at, h)
         \/ /\ inMinute < PerMinute /\ inHour < PerHour
            /\ Update(c, at, Append(h, at))
            /\ Admit(c, at)

Tick ==
  /\ clock < MaxTime
  /\ \A t \in Threads : reading[t] # Idle => clock < reading[t].at + lag
  /\ clock' = clock + 1
  /\ UNCHANGED <<clients, hits, reading, lag, granted, refusal>>

Next ==
  \/ \E t \in Threads : Check(t) \/ \E c \in Clients : ReadClock(t, c)
  \/ Tick

Spec == Init /\ [][Next]_vars
----------------------------------------------------------------------------
Windows == {"none", "minute", "hour"}

\* The limiter's memory is bounded whatever the clients do: at most MaxClients
\* of them are tracked, each with one to PerHour timestamps.
TypeOK ==
  /\ clients \in Orders(Clients) /\ Len(clients) <= MaxClients
  /\ hits \in [ToSet(clients) -> Seq(Nat)]
  /\ \A c \in ToSet(clients) : Len(hits[c]) \in 1 .. PerHour
  /\ clock \in Nat
  /\ lag \in 0 .. MaxLag
  /\ reading \in [Threads -> [client : Clients, at : Nat] \cup {Idle}]
  /\ granted \in [Clients -> Seq(Nat)]
  /\ refusal \in [Clients -> [window : Windows, first : Nat, until : Nat]]

\* How often c was admitted with a reading in (from, to].
Admitted(c, from, to) ==
  Cardinality({i \in DOMAIN granted[c] : granted[c][i] > from /\ granted[c][i] <= to})

\* A client that is not dropped is admitted at most PerMinute times within any
\* minute, although readings of the clock are used out of order.
MinuteBudget ==
  \A c \in Clients : \A t \in ToSet(granted[c]) : Admitted(c, t - Minute, t) <= PerMinute

\* At most PerHour times within an hour less the longest wait for the lock; not
\* within the whole hour ("allowed requests within 3600 seconds"), since a later
\* reading that gets the lock first drops hits an earlier one still needs.
HourBudgetLessLag ==
  \A c \in Clients : \A t \in ToSet(granted[c]) : Admitted(c, t - Hour + lag, t) <= PerHour

\* c, which read the clock at the moment at, is refused in this step.
Refused(c, at) ==
  /\ \E t \in Threads : reading[t] = [client |-> c, at |-> at] /\ reading'[t] = Idle
  /\ refusal'[c] # NoRefusal

\* A client is refused only while its admissions use up one of its budgets: a
\* refusal charges nothing.  With a lag an expired hit may hide behind a later
\* one, so that the hour ends late by at most the lag.
RefusedOnlyOverBudget ==
  [][\A c \in Clients : \A at \in clock - lag .. clock : Refused(c, at) =>
       \/ Admitted(c, at - Minute, clock) >= PerMinute
       \/ Admitted(c, at - Hour - lag, clock) >= PerHour]_vars

\* c was refused and is again in this step, with no admission in between.  Only
\* where no handler is overtaken: one that is counts hits later than its reading,
\* and may be told too short a wait.
RefusedAgain(c) == lag = 0 /\ refusal[c] # NoRefusal /\ Refused(c, clock)

\* "A client that keeps hammering a closed window does not push its own
\* recovery further away": however often it was refused for a window, it is told a
\* moment less than a second from the first it was told, since each refusal rounds
\* its own rest of the window up, and that first moment has not come yet.
DeadlineHolds ==
  [][\A c \in Clients :
       RefusedAgain(c) /\ refusal'[c].window = refusal[c].window =>
         LET first == refusal[c].first
         IN  refusal'[c].until \in first - Second + 1 .. first + Second - 1 /\ clock < first]_vars

\* "Both windows are checked; the stricter one wins": a client that waits as
\* long as it was told to is served.
RetryAfterHonoured ==
  [][\A c \in Clients : RefusedAgain(c) => clock < refusal[c].until]_vars

LastSeen(c) == Last(hits[c])

\* A client with a hit in the last hour is forgotten, and so given its budget
\* anew, only to make room in a table full of such clients, and only if it has
\* not been seen for longest; what "full of such clients" means is as old as the
\* reading of the clock.
LiveClientsKept ==
  [][\A c \in ToSet(clients) \ ToSet(clients') :
       LastSeen(c) > clock - Hour =>
         /\ Len(clients) = MaxClients
         /\ \A k \in ToSet(clients) : LastSeen(k) > clock - lag - Hour
         /\ c = Head(clients)]_vars
====
