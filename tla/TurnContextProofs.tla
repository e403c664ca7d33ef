---- MODULE TurnContextProofs ----
(****************************************************************************)
(* Whatever the sizes of the texts and the budget, both calls of a turn     *)
(* send lists of messages that Converse accepts.  The argument is about     *)
(* positions: the stored history is a sequence of whole turns, so the       *)
(* second loop of build_context stops before a question or at the end, in   *)
(* either case after an even number of messages.  And where the budget has  *)
(* room for the question and its chunks, the context fits it, while one     *)
(* more turn of the history would not: the sum of an end of the history is  *)
(* followed from each message to the one before.                            *)
(****************************************************************************)
EXTENDS TurnContext, WellFoundedInduction, FiniteSetTheorems, TLAPS

Role(i) == IF i % 2 = 1 THEN "user" ELSE "assistant"

\* Whole turns: question, answer, question, answer.
Paired ==
  /\ history \in Seq(Messages)
  /\ Len(history) % 2 = 0
  /\ \A i \in 1 .. Len(history) : history[i].role = Role(i)

\* The lists that were sent alternate because the history they come from does.
IInv ==
  /\ Paired
  /\ question \in Messages /\ question.role = "user"
  /\ ConverseAccepts

\* A set of positions that is not empty has a least one.
LEMMA LeastPosition ==
  ASSUME NEW P \in SUBSET Nat, P # {}
  PROVE  \E n \in P : \A m \in P : n <= m
<1>1. PICK n \in P : \A m \in P : ~ (<<m, n>> \in OpToRel(<, Nat))
  BY WFMin, NatLessThanWellFounded
<1>2. \A m \in P : ~ (m < n)
  BY <1>1 DEF OpToRel
<1> QED
  BY <1>2

\* Induction over a set of numbers.
LEMMA EveryNumber ==
  ASSUME NEW P \in SUBSET Nat, 0 \in P, \A n \in P : n + 1 \in P
  PROVE  P = Nat
<1> SUFFICES ASSUME Nat \ P # {} PROVE FALSE
  OBVIOUS
<1>1. PICK n \in Nat \ P : \A m \in Nat \ P : n <= m
  BY LeastPosition
<1>2. n - 1 \in Nat /\ n - 1 \notin P /\ ~ (n <= n - 1)
  BY <1>1
<1> QED
  BY <1>1, <1>2

\* Parity is kept when an even number is added or taken away.
LEMMA EvenShift ==
  ASSUME NEW a \in Int, NEW b \in Int, b % 2 = 0
  PROVE  (a + b) % 2 = a % 2 /\ (a - b) % 2 = a % 2
<1>1. PICK h \in Int : b = 2 * h
  <2>1. b = 2 * (b \div 2) + (b % 2)
    OBVIOUS
  <2> QED
    BY <2>1
<1>2. (a + 2 * h) % 2 = a % 2 /\ (a - 2 * h) % 2 = a % 2
  OBVIOUS
<1> QED
  BY <1>1, <1>2

\* The first loop stops somewhere in the history, as early as it may.
LEMMA OverflowStops ==
  ASSUME NEW available, history \in Seq(Messages)
  PROVE  /\ Overflow(available) \in 0 .. Len(history)
         /\ Overflow(available) < Len(history) => Fits(Overflow(available), available)
         /\ \A k \in 0 .. Overflow(available) - 1 : ~ Fits(k, available)
<1> DEFINE Stops == {n \in 0 .. Len(history) : n < Len(history) => Fits(n, available)}
<1>1. Len(history) \in Nat
  OBVIOUS
<1>2. Stops \in SUBSET Nat /\ Stops # {}
  <2>1. Len(history) \in Stops
    BY <1>1
  <2> QED
    BY <1>1, <2>1
<1>3. PICK n \in Stops : \A m \in Stops : n <= m
  <2> HIDE DEF Stops
  <2> QED
    BY <1>2, LeastPosition
<1>4. \A k \in 0 .. n - 1 : ~ Fits(k, available)
  <2> SUFFICES ASSUME NEW k \in 0 .. n - 1, Fits(k, available)
               PROVE  FALSE
    OBVIOUS
  <2>1. k \in Stops
    BY <1>1, <1>3
  <2> QED
    BY <2>1, <1>1, <1>3
<1>5. \E m \in 0 .. Len(history) : /\ m < Len(history) => Fits(m, available)
                                  /\ \A k \in 0 .. m - 1 : ~ Fits(k, available)
  BY <1>3, <1>4
<1> QED
  BY <1>5 DEF Overflow

\* Wherever the first loop stops, the second leaves an even number of messages
\* behind: it stops before a question, or at the end of the history.
LEMMA OpeningIsEven ==
  ASSUME Paired, NEW n \in 0 .. Len(history)
  PROVE  /\ Opening(n) \in n .. Len(history) /\ Opening(n) % 2 = 0
         /\ \A j \in n + 1 .. Opening(n) : history[j].role # "user"
<1> DEFINE Stop(k) == /\ k < Len(history) => history[k + 1].role = "user"
                      /\ \A j \in n + 1 .. k : history[j].role # "user"
<1>1. Len(history) \in Nat /\ Len(history) % 2 = 0
  BY DEF Paired
<1>2. \A i \in 1 .. Len(history) : history[i].role = "user" <=> i % 2 = 1
  BY DEF Paired, Role
<1>3. \E k \in n .. Len(history) : Stop(k)
  <2>1. CASE n % 2 = 0
    <3>1. n < Len(history) => n + 1 \in 1 .. Len(history) /\ (n + 1) % 2 = 1
      BY <1>1, <2>1
    <3>2. Stop(n)
      BY <1>1, <1>2, <3>1
    <3> QED
      BY <1>1, <3>2
  <2>2. CASE n % 2 = 1
    <3>1. n + 1 \in n .. Len(history)
      BY <1>1, <2>2
    <3>2. (n + 1) + 1 <= Len(history) => ((n + 1) + 1) % 2 = 1
      BY <1>1, <2>2
    <3>3. history[n + 1].role # "user"
      BY <1>1, <1>2, <2>2, <3>1
    <3>4. Stop(n + 1)
      BY <1>1, <1>2, <3>1, <3>2, <3>3
    <3> QED
      BY <3>1, <3>4
  <2> QED
    BY <1>1, <2>1, <2>2
<1>4. Opening(n) \in n .. Len(history) /\ Stop(Opening(n))
  BY <1>3 DEF Opening
<1>5. CASE Opening(n) < Len(history)
  <2>1. Opening(n) + 1 \in 1 .. Len(history) /\ history[Opening(n) + 1].role = "user"
    BY <1>1, <1>4, <1>5
  <2>2. (Opening(n) + 1) % 2 = 1
    BY <1>2, <2>1
  <2> QED
    BY <1>1, <1>4, <2>2
<1>6. CASE Opening(n) = Len(history)
  BY <1>1, <1>4, <1>6
<1> QED
  BY <1>1, <1>4, <1>5, <1>6

\* What is left of whole turns after an even number of messages, followed by a
\* question, alternates.
LEMMA EndAlternates ==
  ASSUME Paired, NEW n \in 0 .. Len(history), n % 2 = 0,
         NEW current \in Messages, current.role = "user"
  PROVE  Alternates(Append(From(n), current))
<1> DEFINE rest == From(n)
           sent == Append(rest, current)
<1>1. Len(history) \in Nat /\ Len(history) % 2 = 0 /\ history \in Seq(Messages)
  BY DEF Paired
<1>2. /\ rest \in Seq(Messages)
      /\ Len(rest) = Len(history) - n
      /\ \A i \in 1 .. Len(rest) : rest[i] = history[i + n]
  BY <1>1 DEF From
<1> HIDE DEF rest
<1>3. /\ Len(sent) = Len(rest) + 1 /\ DOMAIN sent = 1 .. Len(rest) + 1
      /\ \A i \in 1 .. Len(rest) : sent[i] = rest[i]
      /\ sent[Len(rest) + 1] = current
  BY <1>2
<1>4. Len(rest) \in Nat /\ Len(rest) % 2 = 0
  <2>1. Len(rest) \in Nat /\ Len(history) \in Int /\ n \in Int
    BY <1>1, <1>2
  <2>2. (Len(history) - n) % 2 = Len(history) % 2
    BY <2>1, EvenShift
  <2> QED
    BY <2>1, <2>2, <1>1, <1>2
<1>5. ASSUME NEW i \in 1 .. Len(rest)
      PROVE  sent[i].role = Role(i)
  <2> HIDE DEF sent
  <2>1. i \in Int /\ n \in Int /\ i + n \in 1 .. Len(history)
    BY <1>1, <1>2
  <2>2. (i + n) % 2 = i % 2
    BY <2>1, EvenShift
  <2>3. sent[i].role = history[i + n].role
    BY <1>2, <1>3
  <2>4. history[i + n].role = Role(i + n)
    BY <2>1 DEF Paired
  <2> QED
    BY <2>2, <2>3, <2>4 DEF Role
<1>6. sent[Len(rest) + 1].role = Role(Len(rest) + 1)
  BY <1>3, <1>4 DEF Role
<1>7. \A i \in DOMAIN sent : sent[i].role = Role(i)
  BY <1>3, <1>4, <1>5, <1>6
<1> HIDE DEF sent
<1>8. Alternates(sent)
  BY <1>3, <1>4, <1>7 DEF Alternates, Role
<1> QED
  BY <1>8 DEF sent, rest

\* The context of a turn, whatever the budget.
LEMMA ContextAlternates ==
  ASSUME Paired, NEW current \in Messages, current.role = "user"
  PROVE  Alternates(BuildContext(current))
<1>1. Overflow(Available(current)) \in 0 .. Len(history)
  BY OverflowStops DEF Paired
<1>2. /\ Opening(Overflow(Available(current))) \in 0 .. Len(history)
      /\ Opening(Overflow(Available(current))) % 2 = 0
  BY <1>1, OpeningIsEven
<1> QED
  BY <1>2, EndAlternates DEF BuildContext
----------------------------------------------------------------------------
LEMMA InitInv == Init => IInv
  BY DEF Init, IInv, Paired, ConverseAccepts, NoQuestion, User, Messages

LEMMA StepInv == ContextAssumption /\ IInv /\ [Next]_vars => IInv'
<1> SUFFICES ASSUME ContextAssumption, IInv, [Next]_vars
             PROVE  IInv'
  OBVIOUS
<1>0. /\ Paired /\ question \in Messages /\ question.role = "user"
      /\ history \in Seq(Messages) /\ Len(history) \in Nat
  BY DEF IInv, Paired
<1>1. ASSUME NEW size \in QuestionSizes, Condense(size)
      PROVE  IInv'
  <2>1. User(size) \in Messages /\ User(size).role = "user" /\ question' = User(size)
    BY <1>1 DEF ContextAssumption, User, Messages, Condense
  <2>2. Paired'
    BY <1>0, <1>1 DEF Condense, Paired
  <2>3. From(0) = history
    BY <1>0 DEF From
  <2>4. Alternates(Append(history, User(size)))
    BY <1>0, <2>1, <2>3, EndAlternates
  <2>5. request' # <<>> => Alternates(request')
    BY <1>1, <2>4 DEF Condense
  <2>6. ConverseAccepts'
    BY <1>1, <2>5 DEF IInv, ConverseAccepts, Condense, Alternates
  <2> QED
    BY <2>1, <2>2, <2>6 DEF IInv
<1>2. ASSUME NEW chunks \in ChunkSizes, Build(chunks)
      PROVE  IInv'
  <2>1. /\ User(question.size + chunks) \in Messages
        /\ User(question.size + chunks).role = "user"
    BY <1>0 DEF ContextAssumption, User, Messages
  <2>2. Paired' /\ question' = question
    BY <1>0, <1>2 DEF Build, Paired
  <2>3. Alternates(context')
    BY <1>0, <1>2, <2>1, ContextAlternates DEF Build
  <2>4. ConverseAccepts'
    BY <1>2, <2>3 DEF IInv, ConverseAccepts, Build, Alternates
  <2> QED
    BY <1>0, <2>2, <2>4 DEF IInv
<1>3. ASSUME NEW size \in AnswerSizes, Answer(size)
      PROVE  IInv'
  <2>1. Assistant(size) \in Messages /\ Assistant(size).role = "assistant"
    BY <1>3 DEF ContextAssumption, Assistant, Messages
  <2>2. /\ history' \in Seq(Messages) /\ Len(history') = Len(history) + 2
        /\ \A i \in 1 .. Len(history) : history'[i] = history[i]
        /\ history'[Len(history) + 1] = question
        /\ history'[Len(history) + 2] = Assistant(size)
    BY <1>0, <1>3, <2>1 DEF Answer
  <2>3. Len(history') % 2 = 0
    BY <1>0, <2>2 DEF Paired
  <2>4. ASSUME NEW i \in 1 .. Len(history')
        PROVE  history'[i].role = Role(i)
    <3>1. CASE i \in 1 .. Len(history)
      BY <1>0, <2>2, <3>1 DEF Paired
    <3>2. CASE i = Len(history) + 1
      BY <1>0, <2>2, <3>2 DEF Paired, Role
    <3>3. CASE i = Len(history) + 2
      BY <1>0, <2>1, <2>2, <3>3 DEF Paired, Role
    <3> QED
      BY <1>0, <2>2, <3>1, <3>2, <3>3
  <2>5. Paired'
    BY <2>2, <2>3, <2>4 DEF Paired
  <2>6. question' \in Messages /\ question'.role = "user"
    BY <1>3 DEF Answer, NoQuestion, User, Messages
  <2>7. ConverseAccepts'
    BY <1>3 DEF Answer, ConverseAccepts
  <2> QED
    BY <2>5, <2>6, <2>7 DEF IInv
<1>4. CASE TurnFails
  BY <1>0, <1>4 DEF TurnFails, IInv, Paired, ConverseAccepts, NoQuestion, User, Messages
<1>5. CASE Forget
  <2>1. Paired'
    BY <1>5 DEF Forget, Paired
  <2> QED
    BY <1>0, <1>5, <2>1 DEF Forget, IInv, ConverseAccepts, Alternates
<1>6. CASE UNCHANGED vars
  BY <1>0, <1>6 DEF vars, IInv, Paired, ConverseAccepts, Alternates
<1> QED
  BY <1>1, <1>2, <1>3, <1>4, <1>5, <1>6 DEF Next

\* Both calls of every turn send a list that starts and ends with a user's
\* message and alternates, for all sizes of texts, prompts and budgets: neither
\* loop of build_context, no failed turn and no dropped conversation can make
\* Converse reject the request.
THEOREM EveryRequestAlternates == Spec => []ConverseAccepts
<1>1. Init => IInv
  BY InitInv
<1>2. IInv /\ [Next]_vars => IInv'
  BY StepInv, ContextAssumption
<1>3. IInv => ConverseAccepts
  BY DEF IInv
<1> QED
  BY <1>1, <1>2, <1>3, PTL DEF Spec
----------------------------------------------------------------------------
\* The end of the history with a question behind it is a list of messages.
LEMMA ContextIsMessages ==
  ASSUME Paired, NEW current \in Messages
  PROVE  BuildContext(current) \in Seq(Messages) /\ BuildContext(current) # <<>>
<1> DEFINE k == Opening(Overflow(Available(current)))
<1>1. k \in 0 .. Len(history)
  BY OverflowStops, OpeningIsEven DEF Paired
<1>2. history \in Seq(Messages) /\ Len(history) \in Nat
  BY DEF Paired
<1> HIDE DEF k
<1>3. From(k) \in Seq(Messages)
  BY <1>1, <1>2 DEF From
<1>4. /\ Append(From(k), current) \in Seq(Messages)
      /\ Len(Append(From(k), current)) = Len(From(k)) + 1 /\ Len(From(k)) \in Nat
  <2> DEFINE rest == From(k)
  <2>1. rest \in Seq(Messages)
    BY <1>3
  <2> HIDE DEF rest
  <2>2. /\ Append(rest, current) \in Seq(Messages)
        /\ Len(Append(rest, current)) = Len(rest) + 1 /\ Len(rest) \in Nat
    BY <2>1
  <2> QED
    BY <2>2 DEF rest
<1>5. Append(From(k), current) # <<>>
  BY <1>4
<1> QED
  BY <1>4, <1>5 DEF BuildContext, k

\* A turn begins only where its two messages still fit the bound of the model.
RoomForTurn == stage # "idle" => Len(history) + 2 <= MaxMessages

\* Whatever the sizes and the budget, a turn has a context exactly while it is
\* between building it and its end (ConversationEngine.answer).
THEOREM TypeCorrect == Spec => []TypeOK
<1> USE ContextAssumption
<1>1. Init => IInv /\ TypeOK /\ RoomForTurn
  BY InitInv DEF Init, TypeOK, RoomForTurn, NoQuestion, User, Messages, ContextAssumption
<1>2. IInv /\ TypeOK /\ RoomForTurn /\ [Next]_vars => (IInv /\ TypeOK /\ RoomForTurn)'
  <2> SUFFICES ASSUME IInv, TypeOK, RoomForTurn, [Next]_vars
               PROVE  TypeOK' /\ RoomForTurn' /\ RoomForTurn'
    BY StepInv
  <2>0. /\ history \in Seq(Messages) /\ Len(history) \in Nat /\ Paired
        /\ question \in Messages /\ MaxMessages \in Nat
    BY DEF TypeOK, RoomForTurn, IInv, ContextAssumption
  <2>1. ASSUME NEW size \in QuestionSizes, Condense(size)
        PROVE  TypeOK' /\ RoomForTurn'
    <3>1. User(size) \in Messages
      BY DEF User, Messages, ContextAssumption
    <3>2. Append(history, User(size)) \in Seq(Messages)
      BY <2>0, <3>1
    <3>3. request' \in Seq(Messages) /\ question' = User(size)
      BY <2>1, <3>2 DEF Condense
    <3> QED
      BY <2>0, <2>1, <3>1, <3>3 DEF TypeOK, RoomForTurn, Condense
  <2>2. ASSUME NEW chunks \in ChunkSizes, Build(chunks)
        PROVE  TypeOK' /\ RoomForTurn'
    <3>1. User(question.size + chunks) \in Messages
      BY <2>0 DEF User, Messages, ContextAssumption
    <3>2. context' \in Seq(Messages) /\ context' # <<>>
      BY <2>0, <2>2, <3>1, ContextIsMessages DEF Build
    <3> QED
      BY <2>2, <3>2 DEF TypeOK, RoomForTurn, Build
  <2>3. ASSUME NEW size \in AnswerSizes, Answer(size)
        PROVE  TypeOK' /\ RoomForTurn'
    <3>1. Assistant(size) \in Messages /\ NoQuestion \in Messages
      BY DEF Assistant, NoQuestion, User, Messages, ContextAssumption
    <3>2. history' \in Seq(Messages) /\ Len(history') = Len(history) + 2
      BY <2>0, <2>3, <3>1 DEF Answer
    <3> QED
      BY <2>3, <3>1, <3>2 DEF TypeOK, RoomForTurn, Answer
  <2>4. CASE TurnFails
    <3>1. NoQuestion \in Messages
      BY DEF NoQuestion, User, Messages
    <3> QED
      BY <2>4, <3>1 DEF TypeOK, RoomForTurn, TurnFails
  <2>5. CASE Forget
    BY <2>0, <2>5 DEF TypeOK, RoomForTurn, Forget
  <2>6. CASE UNCHANGED vars
    BY <2>6 DEF TypeOK, RoomForTurn, vars
  <2> QED
    BY <2>1, <2>2, <2>3, <2>4, <2>5, <2>6 DEF Next
<1>3. IInv /\ TypeOK /\ RoomForTurn => TypeOK
  OBVIOUS
<1> QED
  BY <1>1, <1>2, PTL DEF Spec
----------------------------------------------------------------------------
(****************************************************************************)
(* The sum of the tokens of some messages.  The library computes it by      *)
(* recursion over sets, in the order of CHOOSE; that the order does not     *)
(* matter is shown by induction over the number of messages.                *)
(****************************************************************************)

\* The tokens of the messages at the positions in S.
TokenSum(messages, S) == MapThenSumSet(LAMBDA i : MessageTokens(messages[i]), S)

Pick(s) == CHOOSE x \in s : TRUE

\* One step of the sum over s, where sums has those of smaller sets.
SumStep(messages, sums, s) ==
  IF s = {} THEN 0 ELSE MessageTokens(messages[Pick(s)]) + sums[s \ {Pick(s)}]

\* sums has the sum over every set in D.
Summed(messages, sums, D) == sums = [s \in D |-> SumStep(messages, sums, s)]

\* Subsets of a finite set, as the sums use them.
LEMMA Subsets ==
  ASSUME NEW S, IsFiniteSet(S)
  PROVE  /\ \A s \in SUBSET S : IsFiniteSet(s) /\ Cardinality(s) \in Nat
         /\ \A s \in SUBSET S : Cardinality(s) = 0 <=> s = {}
         /\ \A s \in SUBSET S : Cardinality(s) <= Cardinality(S)
         /\ \A s \in SUBSET S : \A x \in s : Cardinality(s \ {x}) = Cardinality(s) - 1
         /\ \A s \in SUBSET S : s # {} => Pick(s) \in s /\ Cardinality(s \ {Pick(s)}) = Cardinality(s) - 1
BY FS_Subset, FS_CardinalityType, FS_EmptySet, FS_RemoveElement DEF Pick

\* A set over which every smaller set has a sum has one, too.
LEMMA SumsExist ==
  ASSUME NEW messages, NEW S, IsFiniteSet(S)
  PROVE  \E sums : Summed(messages, sums, SUBSET S)
<1> DEFINE Small(n) == {s \in SUBSET S : Cardinality(s) <= n}
           Good == {n \in Nat : \E sums : Summed(messages, sums, Small(n))}
<1>1. 0 \in Good
  <2>1. Small(0) = {{}}
    BY Subsets
  <2> DEFINE sums == [s \in {{}} |-> 0]
  <2>2. Summed(messages, sums, Small(0))
    BY <2>1 DEF SumStep, Summed
  <2> QED
    BY <2>2
<1>2. ASSUME NEW n \in Good
      PROVE  n + 1 \in Good
  <2>1. n \in Nat
    OBVIOUS
  <2>2. PICK g : Summed(messages, g, Small(n))
    OBVIOUS
  <2> DEFINE sums == [s \in Small(n + 1) |-> SumStep(messages, g, s)]
  <2>3. ASSUME NEW s \in Small(n + 1)
        PROVE  SumStep(messages, sums, s) = SumStep(messages, g, s)
    <3>1. CASE s # {}
      <4> DEFINE r == s \ {Pick(s)}
      <4>1. r \in Small(n) /\ r \in Small(n + 1)
        BY <2>1, <3>1, Subsets
      <4> HIDE DEF Small
      <4>2. g[r] = SumStep(messages, g, r)
        BY <2>2, <4>1 DEF Summed
      <4>3. sums[r] = g[r]
        BY <4>1, <4>2
      <4> HIDE DEF sums
      <4> QED
        BY <4>3, <3>1 DEF SumStep
    <3> QED
      BY <3>1 DEF SumStep
  <2>4. Summed(messages, sums, Small(n + 1))
    <3> HIDE DEF Small
    <3>1. sums = [s \in Small(n + 1) |-> SumStep(messages, g, s)]
      OBVIOUS
    <3> HIDE DEF sums
    <3> QED
      BY <3>1, <2>3 DEF Summed
  <2> HIDE DEF sums, Small
  <2> QED
    BY <2>1, <2>4
<1>3. Cardinality(S) \in Good
  <2> HIDE DEF Good
  <2>1. Good = Nat
    <3>1. Good \in SUBSET Nat
      BY DEF Good
    <3> QED
      BY <3>1, <1>1, <1>2, EveryNumber
  <2> QED
    BY <2>1, Subsets
<1>4. Small(Cardinality(S)) = SUBSET S
  BY Subsets
<1> HIDE DEF Small
<1> QED
  BY <1>3, <1>4

\* Where two sums are defined they agree.
LEMMA SumsAgree ==
  ASSUME NEW messages, NEW S, IsFiniteSet(S), NEW T \in SUBSET S, NEW f, NEW g,
         Summed(messages, f, SUBSET S), Summed(messages, g, SUBSET T)
  PROVE  f[T] = g[T]
<1> DEFINE Good == {n \in Nat : \A s \in SUBSET T : Cardinality(s) = n => f[s] = g[s]}
<1>1. ASSUME NEW s \in SUBSET T
      PROVE  f[s] = SumStep(messages, f, s) /\ g[s] = SumStep(messages, g, s)
  BY DEF Summed
<1>2. 0 \in Good
  <2> SUFFICES ASSUME NEW s \in SUBSET T, Cardinality(s) = 0 PROVE f[s] = g[s]
    OBVIOUS
  <2>1. s = {}
    BY Subsets
  <2> QED
    BY <1>1, <2>1 DEF SumStep
<1>3. ASSUME NEW n \in Good
      PROVE  n + 1 \in Good
  <2> SUFFICES ASSUME NEW s \in SUBSET T, Cardinality(s) = n + 1 PROVE f[s] = g[s]
    OBVIOUS
  <2>1. s # {} /\ s \in SUBSET S
    BY Subsets
  <2>2. s \ {Pick(s)} \in SUBSET T /\ Cardinality(s \ {Pick(s)}) = n
    BY <2>1, Subsets
  <2>3. f[s \ {Pick(s)}] = g[s \ {Pick(s)}]
    BY <2>2
  <2> QED
    BY <1>1, <2>3 DEF SumStep
<1>4. Good = Nat
  <2> HIDE DEF Good
  <2>1. Good \in SUBSET Nat
    BY DEF Good
  <2> QED
    BY <2>1, <1>2, <1>3, EveryNumber
<1> QED
  BY <1>4, Subsets

\* The library's sum is what such a function has.
LEMMA SumIsSummed ==
  ASSUME NEW messages, NEW S, IsFiniteSet(S)
  PROVE  \E sums : Summed(messages, sums, SUBSET S) /\ TokenSum(messages, S) = sums[S]
<1> DEFINE sums == CHOOSE it : it = [s \in SUBSET S |-> SumStep(messages, it, s)]
<1>1. TokenSum(messages, S) = sums[S]
  BY DEF TokenSum, MapThenSumSet, MapThenFoldSet, SumStep, Pick
<1>2. sums = [s \in SUBSET S |-> SumStep(messages, sums, s)]
  BY SumsExist DEF Summed
<1> HIDE DEF sums
<1> QED
  BY <1>1, <1>2 DEF Summed

\* A sum, element by element, in the order of Pick.
LEMMA SumPicks ==
  ASSUME NEW messages, NEW S, IsFiniteSet(S)
  PROVE  TokenSum(messages, S) =
           IF S = {} THEN 0
           ELSE MessageTokens(messages[Pick(S)]) + TokenSum(messages, S \ {Pick(S)})
<1>1. PICK sums : Summed(messages, sums, SUBSET S) /\ TokenSum(messages, S) = sums[S]
  BY SumIsSummed
<1>2. sums[S] = SumStep(messages, sums, S)
  BY <1>1 DEF Summed
<1>3. CASE S # {}
  <2>1. S \ {Pick(S)} \in SUBSET S /\ IsFiniteSet(S \ {Pick(S)})
    BY Subsets
  <2>2. PICK rest : /\ Summed(messages, rest, SUBSET (S \ {Pick(S)}))
                    /\ TokenSum(messages, S \ {Pick(S)}) = rest[S \ {Pick(S)}]
    BY <2>1, SumIsSummed
  <2>3. sums[S \ {Pick(S)}] = rest[S \ {Pick(S)}]
    BY <1>1, <2>1, <2>2, SumsAgree
  <2> QED
    BY <1>1, <1>2, <1>3, <2>2, <2>3 DEF SumStep
<1> QED
  BY <1>1, <1>2, <1>3 DEF SumStep

\* A sum of tokens is a number of tokens.
LEMMA SumTyped ==
  ASSUME NEW messages, NEW S, IsFiniteSet(S),
         \A i \in S : MessageTokens(messages[i]) \in Nat
  PROVE  TokenSum(messages, S) \in Nat
<1> DEFINE Good == {n \in Nat : \A s \in SUBSET S : Cardinality(s) = n => TokenSum(messages, s) \in Nat}
<1>1. 0 \in Good
  <2> SUFFICES ASSUME NEW s \in SUBSET S, Cardinality(s) = 0
               PROVE  TokenSum(messages, s) \in Nat
    OBVIOUS
  <2> QED
    BY Subsets, SumPicks
<1>2. ASSUME NEW n \in Good
      PROVE  n + 1 \in Good
  <2> SUFFICES ASSUME NEW s \in SUBSET S, Cardinality(s) = n + 1
               PROVE  TokenSum(messages, s) \in Nat
    OBVIOUS
  <2>1. s # {} /\ IsFiniteSet(s) /\ n \in Nat
    BY Subsets
  <2>2. Pick(s) \in S /\ s \ {Pick(s)} \in SUBSET S /\ Cardinality(s \ {Pick(s)}) = n
    BY <2>1, Subsets
  <2>3. TokenSum(messages, s \ {Pick(s)}) \in Nat
    BY <2>2
  <2>4. TokenSum(messages, s) = MessageTokens(messages[Pick(s)]) + TokenSum(messages, s \ {Pick(s)})
    BY <2>1, SumPicks
  <2> QED
    BY <2>2, <2>3, <2>4
<1>3. Good = Nat
  <2> HIDE DEF Good
  <2>1. Good \in SUBSET Nat
    BY DEF Good
  <2> QED
    BY <2>1, <1>1, <1>2, EveryNumber
<1> QED
  BY <1>3, Subsets

\* In any order.
LEMMA SumTakes ==
  ASSUME NEW messages, NEW S, IsFiniteSet(S),
         \A i \in S : MessageTokens(messages[i]) \in Nat
  PROVE  \A x \in S : TokenSum(messages, S) = MessageTokens(messages[x]) + TokenSum(messages, S \ {x})
<1> DEFINE Of(i) == MessageTokens(messages[i])
           Good == {n \in Nat : \A s \in SUBSET S : Cardinality(s) = n =>
                      \A x \in s : TokenSum(messages, s) = Of(x) + TokenSum(messages, s \ {x})}
<1> HIDE DEF Of
<1>1. 0 \in Good
  <2> SUFFICES ASSUME NEW s \in SUBSET S, Cardinality(s) = 0
               PROVE  \A x \in s : TokenSum(messages, s) = Of(x) + TokenSum(messages, s \ {x})
    OBVIOUS
  <2>1. s = {}
    BY Subsets
  <2> QED
    BY <2>1, SumPicks, FS_EmptySet
<1>2. ASSUME NEW n \in Good
      PROVE  n + 1 \in Good
  <2> SUFFICES ASSUME NEW s \in SUBSET S, Cardinality(s) = n + 1
               PROVE  \A x \in s : TokenSum(messages, s) = Of(x) + TokenSum(messages, s \ {x})
    OBVIOUS
  <2>0. n \in Nat /\ s # {}
    BY Subsets
  <2> DEFINE p == Pick(s)
  <2>1. /\ p \in s /\ Of(p) \in Nat
        /\ TokenSum(messages, s) = Of(p) + TokenSum(messages, s \ {p})
    BY <2>0, Subsets, SumPicks DEF Of
  <2> HIDE DEF p
  <2>2. \A x \in s : s \ {x} \in SUBSET S /\ Cardinality(s \ {x}) = n
    BY <2>0, Subsets
  <2>4. ASSUME NEW x \in s, x # p
        PROVE  TokenSum(messages, s) = Of(x) + TokenSum(messages, s \ {x})
    <3>1. (s \ {x}) \ {p} = (s \ {p}) \ {x} /\ p \in s \ {x} /\ x \in s \ {p}
      BY <2>1, <2>4
    <3>2. TokenSum(messages, s \ {p}) = Of(x) + TokenSum(messages, (s \ {p}) \ {x})
      BY <2>1, <2>2, <3>1
    <3>3. TokenSum(messages, s \ {x}) = Of(p) + TokenSum(messages, (s \ {x}) \ {p})
      BY <2>2, <3>1
    <3>4. Of(x) \in Nat /\ TokenSum(messages, (s \ {p}) \ {x}) \in Nat
      <4>1. (s \ {p}) \ {x} \in SUBSET S
        OBVIOUS
      <4> QED
        BY <4>1, Subsets, SumTyped DEF Of
    <3> QED
      BY <2>1, <3>1, <3>2, <3>3, <3>4
  <2> QED
    BY <2>1, <2>4
<1>3. Good = Nat
  <2> HIDE DEF Good
  <2>1. Good \in SUBSET Nat
    BY DEF Good
  <2> QED
    BY <2>1, <1>1, <1>2, EveryNumber
<1> QED
  BY <1>3, Subsets DEF Of
----------------------------------------------------------------------------
\* Every message costs something.
LEMMA MessageCosts ==
  \A m \in Messages : MessageTokens(m) \in Nat \ {0}
<1> SUFFICES ASSUME NEW m \in Messages
             PROVE  MessageTokens(m) \in Nat \ {0}
  OBVIOUS
<1>1. m.size \in Nat
  BY DEF Messages
<1> QED
  BY <1>1 DEF MessageTokens

\* The last of some positions taken off.
LEMMA SumTakesLast ==
  ASSUME NEW messages
  PROVE  \A l, u \in Int :
           l <= u /\ (\A i \in l .. u : MessageTokens(messages[i]) \in Nat) =>
             TokenSum(messages, l .. u)
               = MessageTokens(messages[u]) + TokenSum(messages, l .. u - 1)
<1> SUFFICES ASSUME NEW l \in Int, NEW u \in Int, l <= u,
                    \A i \in l .. u : MessageTokens(messages[i]) \in Nat
             PROVE  TokenSum(messages, l .. u)
                      = MessageTokens(messages[u]) + TokenSum(messages, l .. u - 1)
  OBVIOUS
<1> DEFINE S == l .. u
<1>1. IsFiniteSet(S)
  BY FS_Interval
<1>2. u \in S
  OBVIOUS
<1>3. S \ {u} = l .. u - 1
  OBVIOUS
<1>4. \A i \in S : MessageTokens(messages[i]) \in Nat
  OBVIOUS
<1> HIDE DEF S
<1>5. \A x \in S : TokenSum(messages, S) = MessageTokens(messages[x]) + TokenSum(messages, S \ {x})
  BY <1>1, <1>4, SumTakes, SMTT(30)
<1>6. TokenSum(messages, S) = MessageTokens(messages[u]) + TokenSum(messages, S \ {u})
  BY <1>2, <1>5
<1> QED
  BY <1>3, <1>6 DEF S

\* The last of some positions taken off, where they are written l .. k + 1.
LEMMA SumTakesNext ==
  ASSUME NEW a, NEW l \in Int, NEW k \in Int, NEW u, u = k + 1, l <= u,
         \A i \in l .. u : MessageTokens(a[i]) \in Nat
  PROVE  TokenSum(a, l .. u) = MessageTokens(a[u]) + TokenSum(a, l .. k)
<1>1. u \in Int /\ u - 1 = k
  OBVIOUS
<1>2. TokenSum(a, l .. u) = MessageTokens(a[u]) + TokenSum(a, l .. u - 1)
  <2>1. \A f, t \in Int :
          f <= t /\ (\A i \in f .. t : MessageTokens(a[i]) \in Nat) =>
            TokenSum(a, f .. t) = MessageTokens(a[t]) + TokenSum(a, f .. t - 1)
    BY SumTakesLast
  <2>2. u \in Int
    BY <1>1
  <2> QED
    BY <2>1, <2>2
<1> QED
  BY <1>1, <1>2

\* The same for the positions of a list of messages.
LEMMA SumUpTo ==
  ASSUME NEW a \in Seq(Messages)
  PROVE  \A l, k \in Nat :
           1 <= l /\ l <= k + 1 /\ k + 1 <= Len(a) =>
             TokenSum(a, l .. k + 1) = MessageTokens(a[k + 1]) + TokenSum(a, l .. k)
<1> SUFFICES ASSUME NEW l \in Nat, NEW k \in Nat, 1 <= l, l <= k + 1, k + 1 <= Len(a)
             PROVE  TokenSum(a, l .. k + 1) = MessageTokens(a[k + 1]) + TokenSum(a, l .. k)
  OBVIOUS
<1> DEFINE u == k + 1
<1>1. u = k + 1 /\ l <= u /\ k \in Int /\ l \in Int
  OBVIOUS
<1>2. \A i \in l .. u : MessageTokens(a[i]) \in Nat
  BY MessageCosts
<1> HIDE DEF u
<1>3. TokenSum(a, l .. u) = MessageTokens(a[u]) + TokenSum(a, l .. k)
  BY <1>1, <1>2, SumTakesNext
<1> QED
  BY <1>3 DEF u

\* Messages cost the same wherever they stand in a list.
LEMMA ShiftedSum ==
  ASSUME NEW a \in Seq(Messages), NEW b \in Seq(Messages)
  PROVE  \A d, n \in Nat :
           n <= Len(a) /\ d + n <= Len(b) /\ (\A i \in 1 .. n : a[i] = b[d + i]) =>
             TokenSum(a, 1 .. n) = TokenSum(b, d + 1 .. d + n)
<1> SUFFICES ASSUME NEW d \in Nat, NEW n \in Nat,
                    n <= Len(a), d + n <= Len(b), \A i \in 1 .. n : a[i] = b[d + i]
             PROVE  TokenSum(a, 1 .. n) = TokenSum(b, d + 1 .. d + n)
  OBVIOUS
<1> DEFINE Good == {k \in Nat : k <= n => TokenSum(a, 1 .. k) = TokenSum(b, d + 1 .. d + k)}
<1>0. /\ Len(a) \in Nat /\ Len(b) \in Nat
      /\ \A i \in 1 .. Len(a) : MessageTokens(a[i]) \in Nat
      /\ \A i \in 1 .. Len(b) : MessageTokens(b[i]) \in Nat
  BY MessageCosts
<1>1. 0 \in Good
  <2>1. 1 .. 0 = {} /\ d + 1 .. d + 0 = {}
    OBVIOUS
  <2> QED
    BY <2>1, SumPicks, FS_EmptySet
<1>2. ASSUME NEW k \in Good
      PROVE  k + 1 \in Good
  <2> SUFFICES ASSUME k + 1 <= n
               PROVE  TokenSum(a, 1 .. k + 1) = TokenSum(b, d + 1 .. d + (k + 1))
    OBVIOUS
  <2>0. k \in Nat /\ TokenSum(a, 1 .. k) = TokenSum(b, d + 1 .. d + k)
    OBVIOUS
  <2> HIDE DEF Good
  <2>1. TokenSum(a, 1 .. k + 1) = MessageTokens(a[k + 1]) + TokenSum(a, 1 .. k)
    <3>1. \A l, j \in Nat : 1 <= l /\ l <= j + 1 /\ j + 1 <= Len(a) =>
            TokenSum(a, l .. j + 1) = MessageTokens(a[j + 1]) + TokenSum(a, l .. j)
      BY SumUpTo
    <3>2. 1 \in Nat /\ 1 <= k + 1 /\ k + 1 <= Len(a)
      BY <1>0, <2>0
    <3> QED
      BY <2>0, <3>1, <3>2
  <2>2. TokenSum(b, d + 1 .. (d + k) + 1)
          = MessageTokens(b[(d + k) + 1]) + TokenSum(b, d + 1 .. d + k)
    <3>1. \A l, j \in Nat : 1 <= l /\ l <= j + 1 /\ j + 1 <= Len(b) =>
            TokenSum(b, l .. j + 1) = MessageTokens(b[j + 1]) + TokenSum(b, l .. j)
      BY SumUpTo
    <3> DEFINE j == d + k
               l == d + 1
    <3>2. j \in Nat /\ l \in Nat /\ 1 <= l /\ l <= j + 1 /\ j + 1 <= Len(b)
      BY <1>0, <2>0
    <3> HIDE DEF j, l
    <3>3. TokenSum(b, l .. j + 1) = MessageTokens(b[j + 1]) + TokenSum(b, l .. j)
      BY <3>1, <3>2
    <3> QED
      BY <3>3 DEF j, l
  <2>3. d + (k + 1) = (d + k) + 1 /\ a[k + 1] = b[(d + k) + 1]
    BY <2>0
  <2> QED
    BY <2>0, <2>1, <2>2, <2>3
<1>3. Good = Nat
  <2> HIDE DEF Good
  <2>1. Good \in SUBSET Nat
    BY DEF Good
  <2> QED
    BY <2>1, <1>1, <1>2, EveryNumber
<1> QED
  BY <1>3

\* count_message_tokens, for a message at the end.
LEMMA AppendedTokens ==
  ASSUME NEW s \in Seq(Messages), NEW m \in Messages
  PROVE  /\ Tokens(s) \in Nat /\ Tokens(<<m>>) = MessageTokens(m)
         /\ Tokens(Append(s, m)) = Tokens(s) + MessageTokens(m)
<1> DEFINE longer == Append(s, m)
           len == Len(s)
           u == Len(s) + 1
<1>0. /\ len \in Nat /\ DOMAIN s = 1 .. len
      /\ longer \in Seq(Messages) /\ Len(longer) = u /\ DOMAIN longer = 1 .. u
      /\ \A i \in 1 .. len : longer[i] = s[i]
      /\ longer[u] = m /\ u = len + 1 /\ 1 <= u /\ len \in Int
  OBVIOUS
<1>1. /\ Tokens(s) = TokenSum(s, 1 .. len)
      /\ Tokens(longer) = TokenSum(longer, 1 .. u)
  <2> HIDE DEF longer, len, u
  <2> QED
    BY <1>0 DEF Tokens, TokenSum
<1>2. TokenSum(s, 1 .. len) = TokenSum(longer, 1 .. len)
  <2> HIDE DEF longer
  <2>1. \A d, n \in Nat :
           n <= Len(s) /\ d + n <= Len(longer) /\ (\A i \in 1 .. n : s[i] = longer[d + i]) =>
             TokenSum(s, 1 .. n) = TokenSum(longer, d + 1 .. d + n)
    BY <1>0, ShiftedSum
  <2>2. /\ len <= Len(s) /\ 0 + len <= Len(longer)
        /\ \A i \in 1 .. len : s[i] = longer[0 + i]
    BY <1>0
  <2>3. TokenSum(s, 1 .. len) = TokenSum(longer, 0 + 1 .. 0 + len)
    <3> HIDE DEF len
    <3> QED
      BY <1>0, <2>1, <2>2
  <2>4. 0 + 1 .. 0 + len = 1 .. len
    BY <1>0
  <2> QED
    BY <2>3, <2>4
<1>3. TokenSum(longer, 1 .. u) = MessageTokens(m) + TokenSum(longer, 1 .. len)
  <2> HIDE DEF longer, len, u
  <2>1. \A i \in 1 .. u : MessageTokens(longer[i]) \in Nat
    BY <1>0, MessageCosts
  <2>2. TokenSum(longer, 1 .. u) = MessageTokens(longer[u]) + TokenSum(longer, 1 .. len)
    BY <1>0, <2>1, SumTakesNext
  <2> QED
    BY <1>0, <2>2
<1>4. TokenSum(s, 1 .. len) \in Nat
  <2>1. \A i \in 1 .. len : MessageTokens(s[i]) \in Nat
    BY <1>0, MessageCosts
  <2>2. IsFiniteSet(1 .. len)
    BY <1>0, FS_Interval
  <2> QED
    BY <2>1, <2>2, SumTyped
<1>5. Tokens(<<m>>) = MessageTokens(m)
  <2> DEFINE one == <<m>>
  <2>1. DOMAIN one = 1 .. 0 + 1 /\ one[0 + 1] = m /\ one \in Seq(Messages) /\ Len(one) = 0 + 1
    OBVIOUS
  <2> HIDE DEF one
  <2>3. Tokens(one) = TokenSum(one, 1 .. 0 + 1)
    BY <2>1 DEF Tokens, TokenSum
  <2>4. TokenSum(one, 1 .. 0 + 1) = MessageTokens(one[0 + 1]) + TokenSum(one, 1 .. 0)
    <3>1. \A l, k \in Nat : 1 <= l /\ l <= k + 1 /\ k + 1 <= Len(one) =>
            TokenSum(one, l .. k + 1) = MessageTokens(one[k + 1]) + TokenSum(one, l .. k)
      BY <2>1, SumUpTo
    <3> DEFINE z == 0
    <3>2. z \in Nat /\ 1 <= z + 1 /\ z + 1 <= Len(one) /\ 1 \in Nat
      BY <2>1
    <3> HIDE DEF z
    <3>3. TokenSum(one, 1 .. z + 1) = MessageTokens(one[z + 1]) + TokenSum(one, 1 .. z)
      BY <3>1, <3>2
    <3> QED
      BY <3>3 DEF z
  <2>5. TokenSum(one, 1 .. 0) = 0
    <3>1. 1 .. 0 = {}
      OBVIOUS
    <3> QED
      BY <3>1, SumPicks, FS_EmptySet
  <2>6. MessageTokens(m) \in Nat
    BY MessageCosts
  <2> QED
    BY <2>1, <2>3, <2>4, <2>5, <2>6 DEF one
<1>6. MessageTokens(m) \in Nat
  BY MessageCosts
<1> HIDE DEF u, len, longer
<1>7. Tokens(longer) = Tokens(s) + MessageTokens(m)
  BY <1>1, <1>2, <1>3, <1>4, <1>6
<1> QED
  BY <1>1, <1>4, <1>5, <1>7 DEF longer

\* An end of the history costs what its messages cost in the history.
LEMMA EndTokens ==
  ASSUME history \in Seq(Messages)
  PROVE  \A n \in 0 .. Len(history) :
           /\ From(n) \in Seq(Messages)
           /\ Tokens(From(n)) = TokenSum(history, n + 1 .. Len(history))
<1> SUFFICES ASSUME NEW n \in 0 .. Len(history)
             PROVE  /\ From(n) \in Seq(Messages)
                    /\ Tokens(From(n)) = TokenSum(history, n + 1 .. Len(history))
  OBVIOUS
<1> DEFINE rest == From(n)
           len == Len(history) - n
<1>1. /\ rest \in Seq(Messages) /\ Len(rest) = len /\ DOMAIN rest = 1 .. len
      /\ len \in Nat /\ n \in Nat /\ n + len = Len(history)
      /\ \A i \in 1 .. len : rest[i] = history[n + i]
  <2>1. /\ rest \in Seq(Messages)
        /\ Len(rest) = Len(history) - n
        /\ \A i \in 1 .. Len(history) - n : rest[i] = history[n + i]
    BY DEF From
  <2>2. len \in Nat /\ n \in Nat /\ n + len = Len(history)
    OBVIOUS
  <2> HIDE DEF rest
  <2> QED
    BY <2>1, <2>2
<1> HIDE DEF rest, len
<1>2. Tokens(rest) = TokenSum(rest, 1 .. len)
  BY <1>1 DEF Tokens, TokenSum
<1>3. \A d, k \in Nat :
        k <= Len(rest) /\ d + k <= Len(history) /\ (\A i \in 1 .. k : rest[i] = history[d + i]) =>
          TokenSum(rest, 1 .. k) = TokenSum(history, d + 1 .. d + k)
  BY <1>1, ShiftedSum
<1>4. TokenSum(rest, 1 .. len) = TokenSum(history, n + 1 .. n + len)
  BY <1>1, <1>3
<1> QED
  BY <1>1, <1>2, <1>4 DEF rest

\* A longer end of the history costs no less.
LEMMA LongerCosts ==
  ASSUME history \in Seq(Messages)
  PROVE  \A n, k \in 0 .. Len(history) :
           n <= k => Tokens(From(k)) \in Nat /\ Tokens(From(k)) <= Tokens(From(n))
<1> SUFFICES ASSUME NEW n \in 0 .. Len(history)
             PROVE  \A k \in 0 .. Len(history) :
                      n <= k => Tokens(From(k)) \in Nat /\ Tokens(From(k)) <= Tokens(From(n))
  OBVIOUS
<1> DEFINE Cost(k) == Tokens(From(k))
           Good == {j \in Nat : n + j <= Len(history) => Cost(n + j) <= Cost(n)}
<1>0. Len(history) \in Nat /\ n \in Nat
  OBVIOUS
<1>1. \A k \in 0 .. Len(history) : Cost(k) \in Nat
  <2> SUFFICES ASSUME NEW k \in 0 .. Len(history)
               PROVE  Cost(k) \in Nat
    OBVIOUS
  <2> DEFINE S == k + 1 .. Len(history)
  <2>1. IsFiniteSet(S)
    BY FS_Interval
  <2>2. \A i \in S : MessageTokens(history[i]) \in Nat
    BY MessageCosts
  <2>3. Tokens(From(k)) = TokenSum(history, S)
    BY EndTokens
  <2> HIDE DEF S
  <2> QED
    BY <2>1, <2>2, <2>3, SumTyped
<1>2. \A k \in 0 .. Len(history) : k + 1 <= Len(history) => Cost(k + 1) <= Cost(k)
  <2> SUFFICES ASSUME NEW k \in 0 .. Len(history), k + 1 <= Len(history)
               PROVE  Cost(k + 1) <= Cost(k)
    OBVIOUS
  <2> DEFINE S == k + 1 .. Len(history)
             first == k + 1
  <2>1. IsFiniteSet(S)
    BY FS_Interval
  <2>2. /\ \A i \in S : MessageTokens(history[i]) \in Nat
        /\ first \in S /\ S \ {first} = first + 1 .. Len(history)
        /\ first \in 0 .. Len(history) /\ MessageTokens(history[first]) \in Nat
    BY MessageCosts
  <2>3. Cost(k) = TokenSum(history, S) /\ Cost(first) = TokenSum(history, first + 1 .. Len(history))
    BY <2>2, EndTokens
  <2>4. Cost(first) \in Nat
    BY <1>1, <2>2
  <2> HIDE DEF S, Cost
  <2>5. \A x \in S : TokenSum(history, S) = MessageTokens(history[x]) + TokenSum(history, S \ {x})
    BY <2>1, <2>2, SumTakes
  <2>6. Cost(k) = MessageTokens(history[first]) + Cost(first)
    <3> HIDE DEF first
    <3> QED
      BY <2>2, <2>3, <2>5
  <2>7. Cost(first) <= Cost(k)
    <3> HIDE DEF first
    <3> QED
      BY <2>2, <2>4, <2>6
  <2> QED
    BY <2>7 DEF first
<1> HIDE DEF Cost
<1>3. 0 \in Good
  <2>1. n + 0 = n /\ Cost(n) \in Nat
    BY <1>1
  <2> QED
    BY <2>1
<1>4. ASSUME NEW j \in Good
      PROVE  j + 1 \in Good
  <2> SUFFICES ASSUME n + (j + 1) <= Len(history)
               PROVE  Cost(n + (j + 1)) <= Cost(n)
    OBVIOUS
  <2>1. n + j \in 0 .. Len(history) /\ n + (j + 1) = (n + j) + 1 /\ Cost(n + j) <= Cost(n)
    BY <1>0
  <2>2. (n + j) + 1 \in 0 .. Len(history) /\ Cost((n + j) + 1) <= Cost(n + j)
    BY <1>0, <1>2, <2>1
  <2> QED
    BY <1>1, <2>1, <2>2
<1>5. Good = Nat
  <2> HIDE DEF Good
  <2>1. Good \in SUBSET Nat
    BY DEF Good
  <2> QED
    BY <2>1, <1>3, <1>4, EveryNumber
<1>6. ASSUME NEW k \in 0 .. Len(history), n <= k
      PROVE  Cost(k) \in Nat /\ Cost(k) <= Cost(n)
  <2>1. k - n \in Nat /\ n + (k - n) = k
    BY <1>0, <1>6
  <2>2. k - n \in Good
    BY <1>5, <2>1
  <2> QED
    BY <1>1, <2>1, <2>2
<1> QED
  BY <1>6 DEF Cost

\* What build_context returns fits, and any longer end of the history that
\* begins with a question would not: the first loop leaves out no more than it
\* must, the second only what is not a question.
LEMMA ContextFits ==
  ASSUME ContextAssumption, Paired, NEW current \in Messages, Available(current) >= 0
  PROVE  LET sent == BuildContext(current)
         IN  /\ SystemTokens + Tokens(sent) + Buffer <= MaxContext
             /\ Last(sent) = current
             /\ \A n \in 0 .. Len(history) - Len(sent) :
                  history[n + 1].role = "user" =>
                    SystemTokens + Tokens(Append(From(n), current)) + Buffer > MaxContext
<1> DEFINE room == Available(current)
           o == Overflow(room)
           k == Opening(o)
           rest == From(k)
           sent == Append(rest, current)
<1>1. /\ history \in Seq(Messages) /\ Len(history) \in Nat
      /\ SystemTokens \in Nat /\ Buffer \in Nat /\ MaxContext \in Nat
  BY DEF Paired, ContextAssumption
<1>2. /\ o \in 0 .. Len(history)
      /\ o < Len(history) => Fits(o, room)
      /\ \A n \in 0 .. o - 1 : ~ Fits(n, room)
  BY <1>1, OverflowStops
<1>3. /\ k \in o .. Len(history)
      /\ \A j \in o + 1 .. k : history[j].role # "user"
  <2> HIDE DEF o
  <2> QED
    BY <1>2, OpeningIsEven
<1>4. \A n \in 0 .. Len(history) :
        /\ From(n) \in Seq(Messages) /\ Tokens(From(n)) \in Nat
        /\ Tokens(Append(From(n), current)) = Tokens(From(n)) + Tokens(<<current>>)
  <2> SUFFICES ASSUME NEW n \in 0 .. Len(history)
               PROVE  /\ From(n) \in Seq(Messages) /\ Tokens(From(n)) \in Nat
                      /\ Tokens(Append(From(n), current)) = Tokens(From(n)) + Tokens(<<current>>)
    OBVIOUS
  <2> DEFINE s == From(n)
  <2>1. s \in Seq(Messages)
    BY <1>1, EndTokens
  <2> HIDE DEF s
  <2>2. /\ Tokens(s) \in Nat /\ Tokens(<<current>>) = MessageTokens(current)
        /\ Tokens(Append(s, current)) = Tokens(s) + MessageTokens(current)
    BY <2>1, AppendedTokens
  <2> QED
    BY <2>1, <2>2 DEF s
<1>5. room = MaxContext - Buffer - SystemTokens - Tokens(<<current>>) /\ room >= 0
      /\ Tokens(<<current>>) \in Nat
  <2>1. Tokens(<<current>>) = MessageTokens(current) /\ MessageTokens(current) \in Nat
    <3>1. From(0) \in Seq(Messages)
      BY <1>1, <1>4
    <3> QED
      BY <3>1, AppendedTokens, MessageCosts
  <2> QED
    BY <2>1 DEF Available
<1> HIDE DEF room, o, k
<1>6. Tokens(rest) <= room
  <2>1. CASE o < Len(history)
    <3>1. Tokens(From(o)) <= room
      BY <1>2, <2>1 DEF Fits
    <3>2. k \in 0 .. Len(history) /\ o <= k
      BY <1>1, <1>2, <1>3
    <3>3. Tokens(rest) <= Tokens(From(o))
      BY <1>1, <1>2, <3>2, LongerCosts
    <3>4. Tokens(rest) \in Nat /\ Tokens(From(o)) \in Nat
      BY <1>2, <1>4, <3>2
    <3> QED
      BY <1>1, <1>5, <3>1, <3>3, <3>4
  <2>2. CASE o = Len(history)
    <3>1. k = Len(history) /\ k \in 0 .. Len(history)
      BY <1>1, <1>3, <2>2
    <3>2. Tokens(rest) = TokenSum(history, k + 1 .. Len(history))
      BY <1>1, <3>1, EndTokens
    <3>3. k + 1 .. Len(history) = {}
      BY <1>1, <3>1
    <3>4. TokenSum(history, {}) = 0
      BY SumPicks, FS_EmptySet
    <3> QED
      BY <1>5, <3>2, <3>3, <3>4
  <2> QED
    BY <1>1, <1>2, <2>1, <2>2
<1>7. k \in 0 .. Len(history) /\ k \in Int
  BY <1>1, <1>2, <1>3
<1>8. /\ Len(sent) = Len(history) - k + 1 /\ Last(sent) = current
  <2>1. rest \in Seq(Messages) /\ Len(rest) = Len(history) - k
    BY <1>1, <1>7 DEF From
  <2> HIDE DEF rest
  <2> QED
    BY <2>1 DEF Last
<1>9. SystemTokens + Tokens(sent) + Buffer <= MaxContext
  <2>1. Tokens(sent) = Tokens(rest) + Tokens(<<current>>) /\ Tokens(rest) \in Nat
    BY <1>4, <1>7
  <2> QED
    BY <1>1, <1>5, <1>6, <2>1
<1>10. ASSUME NEW n \in 0 .. Len(history) - Len(sent), history[n + 1].role = "user"
       PROVE  SystemTokens + Tokens(Append(From(n), current)) + Buffer > MaxContext
  <2>1. n \in 0 .. k - 1 /\ n \in 0 .. Len(history)
    BY <1>1, <1>7, <1>8
  <2>2. n \in 0 .. o - 1
    <3>1. CASE n >= o
      <4>1. n + 1 \in o + 1 .. k
        BY <1>1, <1>2, <1>7, <2>1, <3>1
      <4> QED
        BY <1>3, <1>10, <4>1
    <3> QED
      BY <1>1, <1>2, <2>1, <3>1
  <2>3. ~ (Tokens(From(n)) <= room)
    BY <1>2, <2>2 DEF Fits
  <2>4. /\ Tokens(From(n)) \in Nat
        /\ Tokens(Append(From(n), current)) = Tokens(From(n)) + Tokens(<<current>>)
    BY <1>4, <2>1
  <2> QED
    BY <1>1, <1>5, <2>3, <2>4
<1>11. BuildContext(current) = sent
  BY DEF BuildContext, room, o, k
<1> HIDE DEF sent
<1> QED
  BY <1>8, <1>9, <1>10, <1>11

\* FitsBudget and KeepsMost hold when the context is built, and nothing moves
\* under a context that is there.
LEMMA BudgetStep ==
  ASSUME ContextAssumption, IInv, FitsBudget, KeepsMost, [Next]_vars
  PROVE  FitsBudget' /\ KeepsMost'
<1>0. Paired /\ question \in Messages
  BY DEF IInv
<1>1. ASSUME NEW chunks \in ChunkSizes, Build(chunks)
      PROVE  FitsBudget' /\ KeepsMost'
  <2> DEFINE current == User(question.size + chunks)
  <2>1. current \in Messages /\ Available(current) >= 0
    BY <1>0, <1>1 DEF ContextAssumption, User, Messages, Build
  <2>2. context' = BuildContext(current) /\ history' = history
    BY <1>1 DEF Build
  <2> HIDE DEF current
  <2> DEFINE sent == BuildContext(current)
  <2>3. /\ SystemTokens + Tokens(sent) + Buffer <= MaxContext
        /\ Last(sent) = current
        /\ \A n \in 0 .. Len(history) - Len(sent) :
             history[n + 1].role = "user" =>
               SystemTokens + Tokens(Append(From(n), current)) + Buffer > MaxContext
    BY <1>0, <2>1, ContextFits
  <2>4. context' = sent
    BY <2>2
  <2> HIDE DEF sent
  <2>5. FitsBudget'
    BY <2>3, <2>4 DEF FitsBudget
  <2>6. KeepsMost'
    BY <2>2, <2>3, <2>4 DEF KeepsMost, From
  <2> QED
    BY <2>5, <2>6
<1>2. ASSUME \/ \E size \in QuestionSizes : Condense(size)
             \/ \E size \in AnswerSizes : Answer(size)
             \/ TurnFails
             \/ Forget
      PROVE  stage' # "built"
  BY <1>2 DEF Condense, Answer, TurnFails, Forget
<1>3. CASE UNCHANGED vars
  BY <1>3 DEF vars, FitsBudget, KeepsMost, From
<1> QED
  BY <1>1, <1>2, <1>3 DEF Next, FitsBudget, KeepsMost

LEMMA InitBudget == Init => FitsBudget /\ KeepsMost
  BY DEF Init, FitsBudget, KeepsMost

\* What the answering model is sent fits the budget whatever the sizes of the
\* texts and however long the history (build_context).
THEOREM ContextFitsBudget == Spec => []FitsBudget
<1>1. Init => IInv /\ FitsBudget /\ KeepsMost
  BY InitInv, InitBudget
<1>2. IInv /\ FitsBudget /\ KeepsMost /\ [Next]_vars => (IInv /\ FitsBudget /\ KeepsMost)'
  BY StepInv, BudgetStep, ContextAssumption
<1> QED
  BY <1>1, <1>2, PTL DEF Spec

\* And no more of the history is left out than must be.
THEOREM ContextKeepsMost == Spec => []KeepsMost
<1>1. Init => IInv /\ FitsBudget /\ KeepsMost
  BY InitInv, InitBudget
<1>2. IInv /\ FitsBudget /\ KeepsMost /\ [Next]_vars => (IInv /\ FitsBudget /\ KeepsMost)'
  BY StepInv, BudgetStep, ContextAssumption
<1> QED
  BY <1>1, <1>2, PTL DEF Spec
====
