---- MODULE MCTurnContext ----
EXTENDS TurnContext

\* The rounding is that of math.ceil(tokens * 1.2): the least whole number that
\* is not smaller, checked over the tokens of short messages.
ASSUME \A size \in 0 .. 200 :
  LET exact == 12 * (size + 4)
      counted == 10 * MessageTokens(User(size))
  IN  counted >= exact /\ counted - 10 < exact

\* Chunks that leave room for some of the history, and chunks that leave none
\* even for the question.
ASSUME
  /\ \E chunks \in ChunkSizes, size \in QuestionSizes : Available(User(size + chunks)) < 0
  /\ \E chunks \in ChunkSizes, size \in QuestionSizes :
       Available(User(size + chunks)) \in 1 .. MaxMessages * MessageTokens(User(1))
====
