---- MODULE ChatClient ----
(****************************************************************************)
(* Browsers in front of ChatService: the pages of chat.html, each of which  *)
(* posts one question at a time and shows what came back, and the API       *)
(* gateway, which may give up on a response while the handler goes on.      *)
(****************************************************************************)
EXTENDS ChatService

CONSTANT Pages

VARIABLES
  shows,    \* the conversation of each page
  shown,    \* the answers on each page, in order; the rest is left out
  waiting,  \* the request each page waits for, whose form is disabled then
  cut,      \* requests whose response no page will get
  stale,    \* pages whose conversation was dropped since they were rendered
  revived   \* requests whose turn was dropped and is stored again

pageVars == <<shows, shown, waiting, cut>>
historyVars == <<stale, revived>>
clientVars == <<vars, pageVars, historyVars>>

ClientInit ==
  /\ Init
  /\ shows \in [Pages -> Ids]
  /\ shown = [p \in Pages |-> <<>>]
  /\ waiting = [p \in Pages |-> Nobody]
  /\ cut = {}
  /\ stale = {} /\ revived = {}

Stored(id) == IF id \in DOMAIN entry THEN entry[id].messages ELSE <<>>

\* History: which pages a step leaves behind, because it drops their conversation
\* and does not render them, and which turns it puts back into the store with
\* the copy that another turn of the conversation had made.
Observe(rendered) ==
  /\ stale' = {p \in Pages \ rendered :
                 p \in stale \/ shows[p] \in DOMAIN entry \ DOMAIN entry'}
  /\ revived' = revived \cup
       {r \in Requests : /\ pc[r] # "save"
                         /\ Question(r) \notin ToSet(Stored(conv[r]))
                         /\ Question(r) \in ToSet(Stored(conv[r])')}

Answers(messages) == Restricted(messages, {Answer(r) : r \in Requests})

Show(p, answers) == shown' = [shown EXCEPT ![p] = answers]

\* The form goes from waiting for one request to waiting for another, or none.
Await(p, r) == waiting' = [waiting EXCEPT ![p] = r]
----------------------------------------------------------------------------
\* Requests that were not sent yet differ in nothing, so that any of them does.
Unsent(p) == {r \in Requests : pc[r] = "new" /\ conv[r] = shows[p]}
Fresh(p) == CHOOSE r \in Unsent(p) : TRUE

\* The submit listener up to its await: the form is disabled.
Submit(p) ==
  /\ waiting[p] = Nobody
  /\ Unsent(p) # {}
  /\ Send(Fresh(p))
  /\ Await(p, Fresh(p))
  /\ UNCHANGED <<shows, shown, cut, historyVars>>

\* Mutant: the form is enabled again in the try block, not in the finally block.
DeliverDisabled(p) ==
  LET r == waiting[p]
  IN  /\ r # Nobody /\ pc[r] = "done" /\ reply[r].status = "ok"
      /\ Show(p, Append(shown[p], Answer(r))) /\ Await(p, Nobody)
      /\ UNCHANGED <<vars, shows, cut, historyVars>>

\* The rest of it: an answer, or the detail of an error, or that of a connection
\* that broke with the task.
Deliver(p) ==
  LET r == waiting[p]
  IN  /\ r # Nobody /\ pc[r] = "done"
      /\ Show(p, IF reply[r].status = "ok" THEN Append(shown[p], Answer(r)) ELSE shown[p])
      /\ Await(p, Nobody)
      /\ UNCHANGED <<vars, shows, cut, historyVars>>

\* The gateway answers with an error of its own; the handler does not notice.
GatewayGivesUp(p) ==
  LET r == waiting[p]
  IN  /\ r # Nobody
      /\ Await(p, Nobody)
      /\ cut' = cut \cup {r}
      /\ UNCHANGED <<vars, shows, shown, historyVars>>

\* chat_page renders the stored history; a request of the old page goes on.
Reload(p) ==
  /\ ReadPage(shows[p])
  /\ Show(p, Answers(Loaded(shows[p])))
  /\ Await(p, Nobody)
  /\ cut' = cut \cup ({waiting[p]} \ {Nobody})
  /\ Observe({p})
  /\ UNCHANGED shows

PageStep(p) == Submit(p) \/ Deliver(p) \/ GatewayGivesUp(p) \/ Reload(p)

\* Every request comes from a page.
HandlerStep ==
  /\ \E r \in Requests : RequestStep(r)
  /\ Observe({}) /\ UNCHANGED pageVars

ClientNext ==
  \/ HandlerStep
  \/ \E p \in Pages : PageStep(p)
  \/ PassTime /\ UNCHANGED <<pageVars, historyVars>>
  \/ Restart /\ Observe({}) /\ UNCHANGED pageVars

ClientSpec == ClientInit /\ [][ClientNext]_clientVars

\* Some handler that can go on does, which is enough since every step brings its
\* request closer to its end, and a response that was sent arrives.  Nothing
\* makes the gateway give up.
Progress == HandlerStep \/ \E p \in Pages : Deliver(p)

FairClientSpec == ClientSpec /\ WF_clientVars(Progress)
----------------------------------------------------------------------------
\* part is all without some of its elements, in the same order.
IsPartOf(part, all) ==
  \E at \in [DOMAIN part -> DOMAIN all] :
    \A i \in DOMAIN part :
      part[i] = all[at[i]] /\ \A j \in 1 .. i - 1 : at[j] < at[i]

\* What a page shows, the answers, is part of the history the models will see, in
\* the same order, although requests that were cut off go on beside those it
\* waits for.  A page whose conversation was dropped, by a timeout, the bound of
\* the store or a restart, shows what the models know nothing of any more.
ShownIsStored ==
  \A p \in Pages \ stale : IsPartOf(shown[p], Stored(shows[p]))

\* A turn that is part of the history, but whose answer no page shows or waits
\* for, was cut off from its page, by the gateway's timeout or a reload, or came
\* back with the copy of another turn after its conversation was dropped (load
\* and save of pipeline.answer); an error of the application leaves none behind.
UnseenWasCutOff ==
  \A r \in Requests :
    Question(r) \in ToSet(Stored(conv[r])) =>
      \/ r \in cut \cup revived
      \/ \E p \in Pages : waiting[p] = r \/ Answer(r) \in ToSet(shown[p])

\* The response a page is about to get repeats every answer the page shows and
\* ends with the new one or a later one, unless the conversation was dropped:
\* post_message reads it after the lock is released, while other turns go on.
ReplyIsComplete ==
  \A p \in Pages \ stale :
    LET r == waiting[p]
    IN  r # Nobody /\ reply[r].status = "ok" =>
          IsPartOf(Append(shown[p], Answer(r)), reply[r].messages)

\* A form that was disabled is enabled again, over and over, whatever became of
\* the request (the finally block of the submit listener).
FormComesBack ==
  \A p \in Pages : []<>(waiting[p] = Nobody)
====
