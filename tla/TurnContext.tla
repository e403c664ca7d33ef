---- MODULE TurnContext ----
(****************************************************************************)
(* What the turns of one conversation send to the models: the condensation  *)
(* request of query_condensation.py and the context that context.py cuts    *)
(* out of the history to fit the token budget.  A message is its role and   *)
(* the tokens of its text, which the code counts with cl100k_base; the      *)
(* sizes of questions, retrieved chunks and answers are left open.          *)
(*                                                                          *)
(* The turns of a conversation follow each other: ChatService is about the  *)
(* interleaving of requests.                                                *)
(****************************************************************************)
EXTENDS Integers, SequencesExt

CONSTANTS
  QuestionSizes, AnswerSizes,  \* tokens of a question, of an answer
  ChunkSizes,      \* tokens the retrieved chunks add to the question
  SystemTokens,    \* count_tokens(SYSTEM_PROMPT)
  CondenseTokens,  \* count_tokens of the condensation's system prompt
  HasSchema,       \* whether the collection publishes a metadata schema
  MaxContext, Buffer,  \* max_context_tokens and response_token_buffer
  MaxMessages      \* bound of the history

\* What Settings accepts, and texts that are not empty.
ASSUME ContextAssumption ==
  /\ QuestionSizes \subseteq Nat \ {0} /\ AnswerSizes \subseteq Nat \ {0}
  /\ ChunkSizes \subseteq Nat
  /\ SystemTokens \in Nat /\ CondenseTokens \in Nat
  /\ HasSchema \in BOOLEAN
  /\ Buffer \in Nat \ {0} /\ MaxContext \in Nat /\ Buffer < MaxContext
  /\ MaxMessages \in Nat

VARIABLES
  history,   \* the stored messages of the conversation
  stage,     \* where engine.answer is
  question,  \* the question of the turn
  request,   \* what the condensation call sent; <<>> if it was skipped
  context    \* what build_context returned

vars == <<history, stage, question, request, context>>

User(size) == [role |-> "user", size |-> size]
Assistant(size) == [role |-> "assistant", size |-> size]

NoQuestion == User(0)

Init ==
  /\ history = <<>>
  /\ stage = "idle"
  /\ question = NoQuestion
  /\ request = <<>>
  /\ context = <<>>

\* The text and 4 tokens of role framing, times 1.2, rounded up.
MessageTokens(m) == (6 * (m.size + 4) + 4) \div 5

\* count_message_tokens
Tokens(messages) == MapThenSumSet(LAMBDA i : MessageTokens(messages[i]), DOMAIN messages)

\* The history without its first n messages.
From(n) == SubSeq(history, n + 1, Len(history))

\* Mutant: a history that fills the budget exactly does not fit.
FitsBelow(n, available) == Tokens(From(n)) < available

\* The first loop of build_context: the oldest messages go until the rest fits.
Fits(n, available) == Tokens(From(n)) <= available

Overflow(available) ==
  CHOOSE n \in 0 .. Len(history) :
    /\ n < Len(history) => Fits(n, available)
    /\ \A k \in 0 .. n - 1 : ~ Fits(k, available)

\* Mutant: without the second loop.
OpeningAnywhere(n) == n

\* The second loop: what is left starts with a user's message.
Opening(n) ==
  CHOOSE k \in n .. Len(history) :
    /\ k < Len(history) => history[k + 1].role = "user"
    /\ \A j \in n + 1 .. k : history[j].role # "user"

Available(current) == MaxContext - Buffer - SystemTokens - Tokens(<<current>>)

\* Mutant: the current question is left out.
HistoryContext(current) == From(Opening(Overflow(Available(current))))

\* Mutant: the current question is not counted.
ContextUncounted(current) ==
  Append(From(Opening(Overflow(MaxContext - Buffer - SystemTokens))), current)

BuildContext(current) ==
  Append(From(Opening(Overflow(Available(current)))), current)
----------------------------------------------------------------------------
\* load and condense_and_extract: the whole history goes with the question,
\* and the call is skipped only if there is neither a history nor a schema.
Condense(size) ==
  /\ stage = "idle"
  /\ Len(history) + 2 <= MaxMessages
  /\ stage' = "condensed"
  /\ question' = User(size)
  /\ request' = IF history = <<>> /\ ~ HasSchema THEN <<>>
                                                 ELSE Append(history, User(size))
  /\ UNCHANGED <<history, context>>

\* retrieve and build_context; without room for the question and its chunks it
\* raises, which is one of the failures of TurnFails.
Build(chunks) ==
  LET current == User(question.size + chunks)
  IN  /\ stage = "condensed"
      /\ Available(current) >= 0
      /\ stage' = "built"
      /\ context' = BuildContext(current)
      /\ UNCHANGED <<history, question, request>>

\* generate, add_user, add_assistant and save: the question without its chunks.
Answer(size) ==
  /\ stage = "built"
  /\ stage' = "idle"
  /\ history' = history \o <<question, Assistant(size)>>
  /\ question' = NoQuestion /\ request' = <<>> /\ context' = <<>>

\* Retrieval, the budget or the model raised, or the answer was blank: nothing
\* is saved.
TurnFails ==
  /\ stage # "idle"
  /\ stage' = "idle"
  /\ question' = NoQuestion /\ request' = <<>> /\ context' = <<>>
  /\ UNCHANGED history

\* The store dropped the conversation between two turns.
Forget ==
  /\ stage = "idle"
  /\ history # <<>>
  /\ history' = <<>>
  /\ UNCHANGED <<stage, question, request, context>>

Next ==
  \/ \E size \in QuestionSizes : Condense(size)
  \/ \E chunks \in ChunkSizes : Build(chunks)
  \/ \E size \in AnswerSizes : Answer(size)
  \/ TurnFails
  \/ Forget

Spec == Init /\ [][Next]_vars
----------------------------------------------------------------------------
Messages == [role : {"user", "assistant"}, size : Nat]

\* A context is there exactly while a turn is between building and answering.
TypeOK ==
  /\ history \in Seq(Messages) /\ Len(history) <= MaxMessages
  /\ stage \in {"idle", "condensed", "built"}
  /\ question \in Messages
  /\ request \in Seq(Messages)
  /\ context \in Seq(Messages)
  /\ context # <<>> <=> stage = "built"

\* What the model that answers is sent fits, together with the system prompt
\* and the room kept for the answer, however long the conversation has become.
FitsBudget ==
  stage = "built" => SystemTokens + Tokens(context) + Buffer <= MaxContext

\* No more of the history is left out than must be: any longer end of it that
\* starts with a question would not fit.
KeepsMost ==
  stage = "built" =>
    \A n \in 0 .. Len(history) - Len(context) :
      history[n + 1].role = "user" =>
        SystemTokens + Tokens(Append(From(n), Last(context))) + Buffer > MaxContext

\* Question, answer, ..., question: what Converse accepts as a message list.
Alternates(messages) ==
  /\ Len(messages) % 2 = 1
  /\ \A i \in DOMAIN messages : messages[i].role = (IF i % 2 = 1 THEN "user" ELSE "assistant")

\* Both calls of a turn send lists that Converse accepts, wherever the history
\* was cut and after whichever turn failed.
ConverseAccepts ==
  /\ request # <<>> => Alternates(request)
  /\ context # <<>> => Alternates(context)

\* "Upper bound for the whole context sent to the LLM (system prompt, retrieved
\* chunks and conversation history)" (max_context_tokens), for the condensation
\* call: its list is not cut.
CondensationFits ==
  request # <<>> => CondenseTokens + Tokens(request) <= MaxContext
====
